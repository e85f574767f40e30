------------------------------ MODULE Directory ------------------------------
(***************************************************************************)
(* What the user and group manager promises while a server is up: a        *)
(* directory of accounts and groups known by NAME.  There are no numeric   *)
(* identifiers, no arrays, no indexes and no files here: an account has a  *)
(* password, and a relation says who belongs to which group.  UserGroup    *)
(* implements it by numeric identifiers that it hands out, reuses and      *)
(* looks up through four hash indexes.                                     *)
(***************************************************************************)
CONSTANTS
  Usernames,   (* the names an account can have *)
  Groupnames,  (* the names a group can have    *)
  Passwords,   (* the passwords                 *)
  None         (* marks a name without account  *)

VARIABLES
  password,    (* password[n]: the password of account n, or None          *)
  group,       (* the set of the names of the existing groups              *)
  member,      (* the pairs <<n, g>>: account n is a member of group g     *)
  live         (* FALSE once the promise has ended (see UserGroup)         *)

vars == <<password, group, member, live>>

Init ==
  /\ password \in [Usernames -> Passwords \cup {None}]
  /\ group \in SUBSET Groupnames
  /\ member \in SUBSET (Usernames \X Groupnames)
  /\ live = TRUE

Open(n, p) ==
  /\ password[n] = None
  /\ password' = [password EXCEPT ![n] = p]
  /\ UNCHANGED <<group, member>>

Close(n) ==
  /\ password[n] # None
  /\ password' = [password EXCEPT ![n] = None]
  /\ member' = {m \in member : m[1] # n}
  /\ UNCHANGED group

ChangePassword(n, p) ==
  /\ password[n] # None
  /\ password' = [password EXCEPT ![n] = p]
  /\ UNCHANGED <<group, member>>

Found(g) ==
  /\ g \notin group
  /\ group' = group \cup {g}
  /\ UNCHANGED <<password, member>>

Dissolve(g) ==
  /\ g \in group
  /\ group' = group \ {g}
  /\ member' = {m \in member : m[2] # g}
  /\ UNCHANGED password

Join(n, g) ==
  /\ password[n] # None /\ g \in group
  /\ member' = member \cup {<<n, g>>}
  /\ UNCHANGED <<password, group>>

Leave(n, g) ==
  /\ password[n] # None /\ g \in group
  /\ member' = member \ {<<n, g>>}
  /\ UNCHANGED <<password, group>>

(* The promise ends; nothing is said of what follows. *)
End == ~live'

Next ==
  \/ End
  \/ /\ live /\ live'
     /\ \/ \E n \in Usernames, p \in Passwords : Open(n, p) \/ ChangePassword(n, p)
        \/ \E n \in Usernames : Close(n)
        \/ \E g \in Groupnames : Found(g) \/ Dissolve(g)
        \/ \E n \in Usernames, g \in Groupnames : Join(n, g) \/ Leave(n, g)

Spec == Init /\ [][Next]_vars
==============================================================================
