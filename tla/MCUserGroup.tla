----------------------------- MODULE MCUserGroup -----------------------------
(***************************************************************************)
(* A small instance of UserGroup for TLC: the root account and group of    *)
(* the documented sample configuration, one more user name, one more group *)
(* name.                                                                   *)
(***************************************************************************)
EXTENDS UserGroup

CONSTANTS root, alice, wheel, dev, pw1, pw2

MCInitialUsers == <<[username |-> root, uid |-> 0, groups |-> <<0>>, password |-> pw1]>>
MCInitialGroups == <<[groupname |-> wheel, gid |-> 0]>>
==============================================================================
