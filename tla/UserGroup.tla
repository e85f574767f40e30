------------------------------ MODULE UserGroup ------------------------------
(***************************************************************************)
(* The user and group manager of usergroup.c: two arrays in memory, four   *)
(* hash indexes from names and ids to array positions, the id bitmaps of   *)
(* getid.c, and the two files that every modification rewrites.            *)
(*                                                                         *)
(* Array positions count from 1 and 0 stands for "not found" (the code     *)
(* counts from 0 and returns -1).  A group's member array is a set: the    *)
(* code tests for presence before it appends and its order is never used.  *)
(* A user's group array is a sequence: its first entry is the primary      *)
(* group.  A line of user.config is the user's record, a line of           *)
(* group.config is the group's record without members; the description     *)
(* and main_hook fields are set once and never change, and are left out.   *)
(* A bcrypt hash is the password it was made from.  Names are shorter than *)
(* the 24 bytes that a key of hash.c holds inline.                         *)
(*                                                                         *)
(* An index update that runs out of memory is undone only in part by its   *)
(* caller: add_user and add_group may leave a name that leads to the       *)
(* position one past the end of the array, where the next account will be, *)
(* and del_user and del_group leave the indexes rebuilt as far as memory   *)
(* went and save nothing.  The model goes on from there as the code does.  *)
(*                                                                         *)
(* A definition whose name says what it does wrong (..._forgotten,         *)
(* ..._leaks_uid and so on) is a faulty variant of the definition after    *)
(* it.  The specification does not use it: putting it in the place of the  *)
(* right one must break the property PROJECT.json pairs it with.           *)
(***************************************************************************)
EXTENDS IdAlloc, Lists

CONSTANTS
  Usernames, Groupnames, Passwords,  (* the well-formed inputs                *)
  Malformed,      (* an input that the validators refuse                      *)
  MaxGidTokens,   (* groups read back per user: gid_tokens[32]                *)
  Faults,         (* what may fail: a subset of {"malloc", "bcrypt", "save"}  *)
  MaxUnsaved,     (* bound: modifications in a row whose save may fail        *)
  InitialUsers,   (* user.config at the first start, a sequence of User       *)
  InitialGroups   (* group.config at the first start, a sequence of GroupLine *)

User == [username : Usernames, uid : Ids, groups : Seq(Ids), password : Passwords]
Group == [groupname : Groupnames, gid : Ids, members : SUBSET Ids]
GroupLine == [groupname : Groupnames, gid : Ids]

VARIABLES
  up,              (* the manager is initialised                              *)
  users, groups,   (* Ugmanager.users and Ugmanager.groups                    *)
  username_to_idx, uid_to_idx, groupname_to_idx, gid_to_idx,
  vacant_user, vacant_group,  (* <<>>, or the record that a failed index      *)
                   (* update has left one past the end of the array           *)
  uid_bitmap, gid_bitmap,
  userFile, groupFile,  (* user.config and group.config                       *)
  succeeded,       (* the last operation returned UG_SUCCESS                  *)
  unsaved,         (* history: modifications in memory since the last save    *)
  incidents        (* history: "restart" after the process ended once,        *)
                   (* "nomem" after add_user_to_group stopped half-way for    *)
                   (* lack of memory, "unindexed" after an index update did   *)

userIndexes == <<username_to_idx, uid_to_idx>>
groupIndexes == <<groupname_to_idx, gid_to_idx>>
userVars == <<users, vacant_user, userIndexes, uid_bitmap>>
groupVars == <<groups, vacant_group, groupIndexes, gid_bitmap>>
memory == <<userVars, groupVars>>
files == <<userFile, groupFile>>
vars == <<up, memory, files, succeeded, unsaved, incidents>>

(* An operation returns an error code; the state keeps whether it is the   *)
(* code of success.                                                        *)
Return(code) == succeeded' = (code = "UG_SUCCESS")

-----------------------------------------------------------------------------
(* Lists and indexes *)

user_has_group(u, gid) == Contains(u.groups, gid)

(* add_user_to_group: a group is appended unless the user is in it, so the *)
(* first one stays the primary group.                                      *)
joined_groups_prepended(u, gid) ==
  IF user_has_group(u, gid) THEN u.groups ELSE <<gid>> \o u.groups
joined_groups(u, gid) ==
  IF user_has_group(u, gid) THEN u.groups ELSE Append(u.groups, gid)

(* Only the first occurrence goes, and the later entries move up. *)
remove_gid_from_user_forgotten(u, gid) == u
remove_gid_from_user(u, gid) ==
  IF user_has_group(u, gid)
  THEN [u EXCEPT !.groups = RemoveAt(@, PositionOf(@, gid))]
  ELSE u

remove_uid_from_group_forgotten(g, uid) == g
remove_uid_from_group(g, uid) == [g EXCEPT !.members = @ \ {uid}]

(* Rebuilding puts the entries in array order: a later one replaces an     *)
(* earlier one with the same key.                                          *)
UsernameIndex(us) ==
  [n \in Usernames |-> LastOf({i \in DOMAIN us : us[i].username = n})]
UidIndex(us) == [u \in Ids |-> LastOf({i \in DOMAIN us : us[i].uid = u})]
GroupnameIndex(gs) ==
  [n \in Groupnames |-> LastOf({i \in DOMAIN gs : gs[i].groupname = n})]
GidIndex(gs) == [g \in Ids |-> LastOf({i \in DOMAIN gs : gs[i].gid = g})]

rebuild_user_indexes_uids_only ==
  /\ UNCHANGED username_to_idx
  /\ uid_to_idx' = UidIndex(users')
  /\ vacant_user' = <<>>
rebuild_user_indexes ==
  /\ username_to_idx' = UsernameIndex(users')
  /\ uid_to_idx' = UidIndex(users')
  /\ vacant_user' = <<>>
rebuild_group_indexes ==
  /\ groupname_to_idx' = GroupnameIndex(groups')
  /\ gid_to_idx' = GidIndex(groups')
  /\ vacant_group' = <<>>

(* One entry of each index is replaced by position i, the last, and what   *)
(* was past the end is now its record.                                     *)
update_user_index(i) ==
  /\ username_to_idx' = [username_to_idx EXCEPT ![users'[i].username] = i]
  /\ uid_to_idx' = [uid_to_idx EXCEPT ![users'[i].uid] = i]
  /\ vacant_user' = <<>>
update_group_index(i) ==
  /\ groupname_to_idx' = [groupname_to_idx EXCEPT ![groups'[i].groupname] = i]
  /\ gid_to_idx' = [gid_to_idx EXCEPT ![groups'[i].gid] = i]
  /\ vacant_group' = <<>>

(* An index update may run out of memory after it has put the entry of the *)
(* name, before it puts the one of the id.  Bound: this is the first       *)
(* incident of a behaviour, and happens once; so there is no old entry of  *)
(* the same name or id, which would be removed first.                      *)
UpdateMayStop == "malloc" \in Faults /\ incidents = {}
Unindexed == incidents' = incidents \cup {"unindexed"}

(* A rebuilding from an array stops at entry i, before the entry of its    *)
(* name or after it.                                                       *)
rebuild_user_indexes_stops(us) ==
  /\ UpdateMayStop /\ Unindexed
  /\ \E i \in DOMAIN us, named \in {0, 1} :
       /\ username_to_idx' = UsernameIndex(SubSeq(us, 1, i - 1 + named))
       /\ uid_to_idx' = UidIndex(SubSeq(us, 1, i - 1))
  /\ vacant_user' = <<>>
rebuild_group_indexes_stops(gs) ==
  /\ UpdateMayStop /\ Unindexed
  /\ \E i \in DOMAIN gs, named \in {0, 1} :
       /\ groupname_to_idx' = GroupnameIndex(SubSeq(gs, 1, i - 1 + named))
       /\ gid_to_idx' = GidIndex(SubSeq(gs, 1, i - 1))
  /\ vacant_group' = <<>>

-----------------------------------------------------------------------------
(* Persistence *)

GroupLines(gs) ==
  [i \in DOMAIN gs |-> [groupname |-> gs[i].groupname, gid |-> gs[i].gid]]

(* How a save can end.  "io": a temporary file cannot be written, nothing  *)
(* is replaced.  "user": the first rename fails, nothing is replaced.      *)
(* "group": user.config is replaced and the rename of group.config fails.  *)
(* Bound: no save fails once an index update has.                          *)
SaveOutcomes ==
  {"saved"} \cup (IF /\ "save" \in Faults /\ unsaved < MaxUnsaved
                     /\ "unindexed" \notin incidents
                  THEN {"io", "user", "group"} ELSE {})

SaveCode(o) == CASE o = "saved" -> "UG_SUCCESS"
                 [] o = "io" -> "UG_ERR_IO_ERROR"
                 [] OTHER -> "UG_ERR_SAVE_FAILED"

save_groups_first(us, gs, o) ==
  /\ userFile' = IF o = "saved" THEN us ELSE userFile
  /\ groupFile' = IF o \in {"saved", "group"} THEN GroupLines(gs) ELSE groupFile
  /\ unsaved' = IF o = "saved" THEN 0 ELSE unsaved + 1
  /\ Return(SaveCode(o))
save_User_group_manager(us, gs, o) ==
  /\ userFile' = IF o \in {"saved", "group"} THEN us ELSE userFile
  /\ groupFile' = IF o = "saved" THEN GroupLines(gs) ELSE groupFile
  /\ unsaved' = IF o = "saved" THEN 0 ELSE unsaved + 1
  /\ Return(SaveCode(o))

(* What init_User_group_manager reads: of each user's groups only the      *)
(* first MaxGidTokens.                                                     *)
LoadedUsers(uf) ==
  [i \in DOMAIN uf |->
     [uf[i] EXCEPT !.groups = Truncated(@, MaxGidTokens)]]

(* The members of each group are collected from the users. *)
LoadedGroups_without_members(uf, gf) ==
  [i \in DOMAIN gf |->
     [groupname |-> gf[i].groupname, gid |-> gf[i].gid, members |-> {}]]
LoadedGroups(uf, gf) ==
  LET us == LoadedUsers(uf) IN
  [i \in DOMAIN gf |->
     [groupname |-> gf[i].groupname,
      gid       |-> gf[i].gid,
      members   |-> {us[j].uid : j \in {k \in DOMAIN us : user_has_group(us[k], gf[i].gid)}}]]

(* The conditions under which a load goes through: no name and no id twice *)
(* in a file, no empty group field, every group of a user exists.          *)
Loadable(uf, gf) ==
  /\ \A i, j \in DOMAIN gf :
       gf[i].gid = gf[j].gid \/ gf[i].groupname = gf[j].groupname => i = j
  /\ \A i, j \in DOMAIN uf :
       uf[i].uid = uf[j].uid \/ uf[i].username = uf[j].username => i = j
  /\ \A i \in DOMAIN uf :
       /\ uf[i].groups # <<>>
       /\ \A k \in DOMAIN LoadedUsers(uf)[i].groups :
            \E j \in DOMAIN gf : gf[j].gid = LoadedUsers(uf)[i].groups[k]

(* Every group in a user's list exists, and is there once. *)
Resolves(us, gs) ==
  \A i \in DOMAIN us :
    /\ Distinct(us[i].groups)
    /\ \A k \in DOMAIN us[i].groups : \E j \in DOMAIN gs : gs[j].gid = us[i].groups[k]

ASSUME InitialAssumption ==
  /\ InitialUsers \in Seq(User) /\ InitialGroups \in Seq(GroupLine)
  /\ Loadable(InitialUsers, InitialGroups)
  /\ Resolves(InitialUsers, InitialGroups)
ASSUME ConstantAssumption ==
  /\ Malformed \notin Usernames \cup Groupnames \cup Passwords
  /\ MaxGidTokens \in Nat /\ MaxUnsaved \in Nat
  /\ Faults \subseteq {"malloc", "bcrypt", "save"}

-----------------------------------------------------------------------------
(* The end of the process *)

Ended ==
  /\ up' = FALSE
  /\ users' = <<>> /\ groups' = <<>>
  /\ rebuild_user_indexes /\ rebuild_group_indexes
  /\ Return("stopped")
  /\ unsaved' = 0
  /\ incidents' = incidents \cup {"restart"}
  /\ UNCHANGED files

(* A crash loses the id bitmaps of getid.c too. *)
Crash == Ended /\ uid_bitmap' = NoneAllocated /\ gid_bitmap' = NoneAllocated

-----------------------------------------------------------------------------
(* Operations.  Each is the whole function: validation, change, rebuilding *)
(* of the indexes and save.                                                *)

(* An early return that leaves memory and files alone. *)
Refuse(code) ==
  /\ Return(code)
  /\ UNCHANGED <<up, memory, files, unsaved, incidents>>

(* An allocated uid is given back on the way out. *)
add_user_leaks_uid(uid, code) ==
  /\ uid_bitmap' = uid_bitmap \cup {uid}
  /\ Return(code)
  /\ UNCHANGED <<up, users, userIndexes, groupVars, files, unsaved, incidents>>
add_user_gives_up(uid, code) ==
  /\ uid_bitmap' = del_uid(uid_bitmap \cup {uid}, uid)
  /\ Return(code)
  /\ UNCHANGED <<up, users, userIndexes, groupVars, files, unsaved, incidents>>

(* Past the end a call that fails has written the whole record before the  *)
(* index update, the name and the uid before the password is hashed, and   *)
(* nothing without room for more accounts.                                 *)
Overwritten(u) == [i \in DOMAIN vacant_user |-> u]
HalfOverwritten(u) ==
  [i \in DOMAIN vacant_user |-> [u EXCEPT !.password = vacant_user[i].password]]

(* The index update stops after the name: the count and the uid go back,   *)
(* the entry of the name stays.                                            *)
add_user_unindexed(u) ==
  /\ UpdateMayStop /\ Unindexed
  /\ username_to_idx' = [username_to_idx EXCEPT ![u.username] = Len(users) + 1]
  /\ vacant_user' = <<u>>
  /\ uid_bitmap' = del_uid(uid_bitmap \cup {u.uid}, u.uid)
  /\ Return("UG_ERR_NO_MEMORY")
  /\ UNCHANGED <<up, users, uid_to_idx, groupVars, files, unsaved>>

add_user(n, p) ==
  /\ up
  /\ \/ n = Malformed /\ Refuse("UG_ERR_INVALID_USERNAME")
     \/ n # Malformed /\ p = Malformed /\ Refuse("UG_ERR_INVALID_PASSWORD")
     \/ /\ n # Malformed /\ p # Malformed
        /\ username_to_idx[n] # 0
        /\ Refuse("UG_ERR_USER_EXISTS")
     \/ /\ n # Malformed /\ p # Malformed
        /\ username_to_idx[n] = 0
        /\ LET uid == get_uid(uid_bitmap)
               u   == [username |-> n, uid |-> uid, groups |-> <<>>, password |-> p]
               us  == Append(users, u)
           IN \/ uid = merr /\ Refuse("UG_ERR_UID_EXHAUSTED")
              \/ /\ uid # merr /\ "malloc" \in Faults
                 /\ add_user_gives_up(uid, "UG_ERR_NO_MEMORY")
                 /\ vacant_user' \in {vacant_user, Overwritten(u)}
              \/ /\ uid # merr /\ "bcrypt" \in Faults
                 /\ add_user_gives_up(uid, "UG_ERR_IO_ERROR")
                 /\ vacant_user' = HalfOverwritten(u)
              \/ uid # merr /\ add_user_unindexed(u)
              \/ /\ uid # merr
                 /\ \E o \in SaveOutcomes :
                      /\ save_User_group_manager(us, groups, o)
                      /\ \/ /\ o = "saved"
                            /\ users' = us
                            /\ uid_bitmap' = uid_bitmap \cup {uid}
                            /\ update_user_index(Len(us))
                            /\ UNCHANGED incidents
                         \/ /\ o # "saved"
                            /\ users' = users
                            /\ uid_bitmap' = del_uid(uid_bitmap \cup {uid}, uid)
                            /\ \/ rebuild_user_indexes /\ UNCHANGED incidents
                               \/ rebuild_user_indexes_stops(users)
                      /\ UNCHANGED <<up, groupVars>>

(* The end of del_user and of del_group: a failed save is reported and the *)
(* deletion stays in memory; a rebuilding without memory ends it earlier.  *)
SaveDeletion(rebuild, stops) ==
  \/ /\ rebuild
     /\ \E o \in SaveOutcomes : save_User_group_manager(users', groups', o)
     /\ UNCHANGED incidents
  \/ /\ stops
     /\ Return("UG_ERR_NO_MEMORY")
     /\ UNCHANGED <<files, unsaved>>

(* A name that leads past the end has the LAST account dropped, without    *)
(* giving back its uid; with no account left the count wraps around and    *)
(* the loop that moves up the later ones leaves the memory.                *)
del_user_past_the_end(n) ==
  IF users = <<>> THEN Crash
  ELSE /\ groups' = [i \in DOMAIN groups |->
                      remove_uid_from_group(groups[i], vacant_user[1].uid)]
       /\ users' = RemoveAt(users, Len(users))
       /\ uid_bitmap' = del_uid(uid_bitmap, vacant_user[1].uid)
       /\ SaveDeletion(rebuild_user_indexes, rebuild_user_indexes_stops(users'))
       /\ UNCHANGED <<up, vacant_group, groupIndexes, gid_bitmap>>

del_user(n) ==
  /\ up
  /\ \/ n = Malformed /\ Refuse("UG_ERR_INVALID_USERNAME")
     \/ /\ n # Malformed /\ username_to_idx[n] = 0
        /\ Refuse("UG_ERR_USER_NOT_FOUND")
     \/ /\ n # Malformed /\ username_to_idx[n] \in DOMAIN users
        /\ LET idx == username_to_idx[n]
               uid == users[idx].uid
           IN /\ groups' = [i \in DOMAIN groups |-> remove_uid_from_group(groups[i], uid)]
              /\ users' = RemoveAt(users, idx)
              /\ uid_bitmap' = del_uid(uid_bitmap, uid)
        /\ SaveDeletion(rebuild_user_indexes, rebuild_user_indexes_stops(users'))
        /\ UNCHANGED <<up, vacant_group, groupIndexes, gid_bitmap>>
     \/ /\ n # Malformed /\ username_to_idx[n] = Len(users) + 1
        /\ del_user_past_the_end(n)

set_password_past_the_end(old, new) ==
  \/ old # vacant_user[1].password /\ Refuse("UG_ERR_PERMISSION_DENIED")
  \/ /\ old = vacant_user[1].password /\ "bcrypt" \in Faults
     /\ Refuse("UG_ERR_IO_ERROR")
  \/ /\ old = vacant_user[1].password
     /\ vacant_user' = [i \in DOMAIN vacant_user |-> [vacant_user[i] EXCEPT !.password = new]]
     /\ \E o \in SaveOutcomes : save_User_group_manager(users, groups, o)
     /\ UNCHANGED <<up, users, userIndexes, uid_bitmap, groupVars, incidents>>

set_user_password(n, old, new) ==
  /\ up
  /\ \/ n = Malformed /\ Refuse("UG_ERR_INVALID_USERNAME")
     \/ n # Malformed /\ new = Malformed /\ Refuse("UG_ERR_INVALID_PASSWORD")
     \/ /\ n # Malformed /\ new # Malformed /\ username_to_idx[n] = 0
        /\ Refuse("UG_ERR_USER_NOT_FOUND")
     \/ /\ n # Malformed /\ new # Malformed
        /\ username_to_idx[n] = Len(users) + 1
        /\ set_password_past_the_end(old, new)
     \/ /\ n # Malformed /\ new # Malformed
        /\ username_to_idx[n] \in DOMAIN users
        /\ LET idx == username_to_idx[n]
           IN \/ old # users[idx].password /\ Refuse("UG_ERR_PERMISSION_DENIED")
              \/ /\ old = users[idx].password /\ "bcrypt" \in Faults
                 /\ Refuse("UG_ERR_IO_ERROR")
              \/ /\ old = users[idx].password
                 /\ users' = [users EXCEPT ![idx].password = new]
                 /\ \E o \in SaveOutcomes : save_User_group_manager(users', groups, o)
                 /\ UNCHANGED <<up, vacant_user, userIndexes, uid_bitmap,
                                groupVars, incidents>>

add_group_leaks_gid(gid, code) ==
  /\ gid_bitmap' = gid_bitmap \cup {gid}
  /\ Return(code)
  /\ UNCHANGED <<up, userVars, groups, groupIndexes, files, unsaved, incidents>>
add_group_gives_up(gid, code) ==
  /\ gid_bitmap' = del_gid(gid_bitmap \cup {gid}, gid)
  /\ Return(code)
  /\ UNCHANGED <<up, userVars, groups, groupIndexes, files, unsaved, incidents>>

add_group_unindexed(g) ==
  /\ UpdateMayStop /\ Unindexed
  /\ groupname_to_idx' = [groupname_to_idx EXCEPT ![g.groupname] = Len(groups) + 1]
  /\ vacant_group' = <<g>>
  /\ gid_bitmap' = del_gid(gid_bitmap \cup {g.gid}, g.gid)
  /\ Return("UG_ERR_NO_MEMORY")
  /\ UNCHANGED <<up, userVars, groups, gid_to_idx, files, unsaved>>

add_group(n) ==
  /\ up
  /\ \/ n = Malformed /\ Refuse("UG_ERR_INVALID_INPUT")
     \/ /\ n # Malformed /\ groupname_to_idx[n] # 0
        /\ Refuse("UG_ERR_GROUP_EXISTS")
     \/ /\ n # Malformed /\ groupname_to_idx[n] = 0
        /\ LET gid == get_gid(gid_bitmap)
               g   == [groupname |-> n, gid |-> gid, members |-> {}]
               gs  == Append(groups, g)
           IN \/ gid = merr /\ Refuse("UG_ERR_GID_EXHAUSTED")
              \/ /\ gid # merr /\ "malloc" \in Faults
                 /\ add_group_gives_up(gid, "UG_ERR_NO_MEMORY")
                 /\ vacant_group' \in {vacant_group, [i \in DOMAIN vacant_group |-> g]}
              \/ gid # merr /\ add_group_unindexed(g)
              \/ /\ gid # merr
                 /\ \E o \in SaveOutcomes :
                      /\ save_User_group_manager(users, gs, o)
                      /\ \/ /\ o = "saved"
                            /\ groups' = gs
                            /\ gid_bitmap' = gid_bitmap \cup {gid}
                            /\ update_group_index(Len(gs))
                            /\ UNCHANGED incidents
                         \/ /\ o # "saved"
                            /\ groups' = groups
                            /\ gid_bitmap' = del_gid(gid_bitmap \cup {gid}, gid)
                            /\ \/ rebuild_group_indexes /\ UNCHANGED incidents
                               \/ rebuild_group_indexes_stops(groups)
                      /\ UNCHANGED <<up, userVars>>

del_group_past_the_end(n) ==
  IF groups = <<>> THEN Crash
  ELSE /\ users' = [i \in DOMAIN users |-> remove_gid_from_user(users[i], vacant_group[1].gid)]
       /\ groups' = RemoveAt(groups, Len(groups))
       /\ gid_bitmap' = del_gid(gid_bitmap, vacant_group[1].gid)
       /\ SaveDeletion(rebuild_group_indexes, rebuild_group_indexes_stops(groups'))
       /\ UNCHANGED <<up, vacant_user, userIndexes, uid_bitmap>>

del_group(n) ==
  /\ up
  /\ \/ n = Malformed /\ Refuse("UG_ERR_INVALID_INPUT")
     \/ /\ n # Malformed /\ groupname_to_idx[n] = 0
        /\ Refuse("UG_ERR_GROUP_NOT_FOUND")
     \/ /\ n # Malformed /\ groupname_to_idx[n] \in DOMAIN groups
        /\ LET idx == groupname_to_idx[n]
               gid == groups[idx].gid
           IN /\ users' = [i \in DOMAIN users |-> remove_gid_from_user(users[i], gid)]
              /\ groups' = RemoveAt(groups, idx)
              /\ gid_bitmap' = del_gid(gid_bitmap, gid)
        /\ SaveDeletion(rebuild_group_indexes, rebuild_group_indexes_stops(groups'))
        /\ UNCHANGED <<up, vacant_user, userIndexes, uid_bitmap>>
     \/ /\ n # Malformed /\ groupname_to_idx[n] = Len(groups) + 1
        /\ del_group_past_the_end(n)

(* The group joins the user's list first and the user the group's list     *)
(* second; memory may run out before the first or between the two.         *)
add_user_to_group(uid, gid) ==
  /\ up
  /\ \/ uid_to_idx[uid] = 0 /\ Refuse("UG_ERR_USER_NOT_FOUND")
     \/ /\ uid_to_idx[uid] # 0 /\ gid_to_idx[gid] = 0
        /\ Refuse("UG_ERR_GROUP_NOT_FOUND")
     \/ /\ uid_to_idx[uid] # 0 /\ gid_to_idx[gid] # 0
        /\ LET user   == users[uid_to_idx[uid]]
               joined == joined_groups(user, gid)
           IN \/ /\ "malloc" \in Faults /\ ~user_has_group(user, gid)
                 /\ Refuse("UG_ERR_NO_MEMORY")
              \/ /\ "malloc" \in Faults /\ uid \notin groups[gid_to_idx[gid]].members
                 /\ users' = [users EXCEPT ![uid_to_idx[uid]].groups = joined]
                 /\ Return("UG_ERR_NO_MEMORY")
                 /\ incidents' = incidents \cup {"nomem"}
                 /\ UNCHANGED <<up, vacant_user, userIndexes, uid_bitmap, groupVars, files, unsaved>>
              \/ /\ users' = [users EXCEPT ![uid_to_idx[uid]].groups = joined]
                 /\ groups' = [groups EXCEPT ![gid_to_idx[gid]].members = @ \cup {uid}]
                 /\ \E o \in SaveOutcomes : save_User_group_manager(users', groups', o)
                 /\ UNCHANGED <<up, vacant_user, userIndexes, uid_bitmap,
                                vacant_group, groupIndexes, gid_bitmap, incidents>>

del_user_from_group(uid, gid) ==
  /\ up
  /\ \/ uid_to_idx[uid] = 0 /\ Refuse("UG_ERR_USER_NOT_FOUND")
     \/ /\ uid_to_idx[uid] # 0 /\ gid_to_idx[gid] = 0
        /\ Refuse("UG_ERR_GROUP_NOT_FOUND")
     \/ /\ uid_to_idx[uid] # 0 /\ gid_to_idx[gid] # 0
        /\ users' = [users EXCEPT ![uid_to_idx[uid]] = remove_gid_from_user(@, gid)]
        /\ groups' = [groups EXCEPT ![gid_to_idx[gid]] = remove_uid_from_group(@, uid)]
        /\ \E o \in SaveOutcomes : save_User_group_manager(users', groups', o)
        /\ UNCHANGED <<up, vacant_user, userIndexes, uid_bitmap,
                       vacant_group, groupIndexes, gid_bitmap, incidents>>

-----------------------------------------------------------------------------
(* The life of the process *)

(* The public save, asked for by hand. *)
Save ==
  /\ up
  /\ \E o \in SaveOutcomes : save_User_group_manager(users, groups, o)
  /\ UNCHANGED <<up, memory, incidents>>

(* cleanup_User_group_manager, which leaves the bitmaps of getid.c alone,  *)
(* or the loss of the process, which takes them too.  A process that dies  *)
(* between the two renames of a save leaves the files as the outcome       *)
(* "group" does, so that outcome followed by this step covers it.          *)
Stop ==
  /\ up
  /\ Ended
  /\ \/ UNCHANGED <<uid_bitmap, gid_bitmap>>
     \/ uid_bitmap' = NoneAllocated /\ gid_bitmap' = NoneAllocated

(* A start reads both files or fails; the ids it reads are not marked in   *)
(* the bitmaps.                                                            *)
init_User_group_manager ==
  /\ ~up
  /\ \/ /\ Loadable(userFile, groupFile)
        /\ up' = TRUE
        /\ users' = LoadedUsers(userFile)
        /\ groups' = LoadedGroups(userFile, groupFile)
        /\ rebuild_user_indexes /\ rebuild_group_indexes
        /\ Return("UG_SUCCESS")
        /\ UNCHANGED <<uid_bitmap, gid_bitmap, files, unsaved, incidents>>
     \/ /\ ~Loadable(userFile, groupFile)
        /\ Refuse("UG_ERR_IO_ERROR")

Init ==
  /\ up = TRUE
  /\ userFile = InitialUsers /\ groupFile = InitialGroups
  /\ users = LoadedUsers(InitialUsers)
  /\ groups = LoadedGroups(InitialUsers, InitialGroups)
  /\ username_to_idx = UsernameIndex(users) /\ uid_to_idx = UidIndex(users)
  /\ groupname_to_idx = GroupnameIndex(groups) /\ gid_to_idx = GidIndex(groups)
  /\ vacant_user = <<>> /\ vacant_group = <<>>
  /\ uid_bitmap = NoneAllocated /\ gid_bitmap = NoneAllocated
  /\ succeeded = TRUE
  /\ unsaved = 0
  /\ incidents = {}

Next ==
  \/ \E n \in Usernames \cup {Malformed}, p \in Passwords \cup {Malformed} : add_user(n, p)
  \/ \E n \in Usernames \cup {Malformed} : del_user(n)
  \/ \E n \in Usernames \cup {Malformed}, old \in Passwords, new \in Passwords \cup {Malformed} :
       set_user_password(n, old, new)
  \/ \E n \in Groupnames \cup {Malformed} : add_group(n)
  \/ \E n \in Groupnames \cup {Malformed} : del_group(n)
  \/ \E uid, gid \in Ids : add_user_to_group(uid, gid)
  \/ \E uid, gid \in Ids : del_user_from_group(uid, gid)
  \/ Save
  \/ Stop
  \/ init_User_group_manager

Spec == Init /\ [][Next]_vars

-----------------------------------------------------------------------------
(* Queries *)

(* certification: name to uid by one index, uid to record by another. *)
certification(n, p) ==
  /\ username_to_idx[n] # 0
  /\ LET idx == uid_to_idx[(users \o vacant_user)[username_to_idx[n]].uid]
     IN idx # 0 /\ users[idx].password = p

get_primary_gid_by_uid(uid) ==
  IF uid_to_idx[uid] = 0 THEN "UG_ERR_USER_NOT_FOUND"
  ELSE IF users[uid_to_idx[uid]].groups = <<>> THEN "UG_ERR_GROUP_NOT_FOUND"
  ELSE users[uid_to_idx[uid]].groups[1]

-----------------------------------------------------------------------------
(* Properties *)

(* Whether every index update has found its memory. *)
Indexed == "unindexed" \notin incidents

(* Every variable keeps its type; an account name and a group name are     *)
(* used at most once, unless an index update ran out of memory.            *)
TypeOK ==
  /\ up \in BOOLEAN /\ succeeded \in BOOLEAN /\ unsaved \in 0 .. MaxUnsaved
  /\ users \in Seq(User) /\ groups \in Seq(Group)
  /\ vacant_user \in Seq(User) /\ vacant_group \in Seq(Group)
  /\ Indexed => /\ \A i, j \in DOMAIN users : users[i].username = users[j].username => i = j
                /\ \A i, j \in DOMAIN groups : groups[i].groupname = groups[j].groupname => i = j
  /\ uid_bitmap \subseteq COMMON_UID /\ gid_bitmap \subseteq COMMON_GID
  /\ userFile \in Seq(User) /\ groupFile \in Seq(GroupLine)
  /\ incidents \subseteq {"restart", "nomem", "unindexed"}

(* As long as every index update has found its memory, across failed       *)
(* saves and their rollbacks, deletions that shift the arrays, and         *)
(* restarts, each of the four indexes is exactly what a rebuild from the   *)
(* arrays would give: no operation forgets to move, insert or drop an      *)
(* entry.  It is not so after an update that failed, because its rollback  *)
(* (usergroup.c:425-431, 575-581) leaves the entry of the name.            *)
IndexesExact ==
  Indexed =>
    /\ username_to_idx = UsernameIndex(users) /\ uid_to_idx = UidIndex(users)
    /\ groupname_to_idx = GroupnameIndex(groups) /\ gid_to_idx = GidIndex(groups)
    /\ vacant_user = <<>> /\ vacant_group = <<>>

(* No id of the initial files is in the classes the manager hands out. *)
FreshInstall ==
  /\ \A i \in DOMAIN InitialUsers : InitialUsers[i].uid \notin COMMON_UID
  /\ \A i \in DOMAIN InitialGroups : InitialGroups[i].gid \notin COMMON_GID

(* While the first process lives and index updates find their memory, the  *)
(* id bitmaps account for the ids in use: no two users or groups share an  *)
(* id, every id handed out belongs to a record, and no error path leaks    *)
(* one.                                                                    *)
IdsAccounted ==
  FreshInstall /\ "restart" \notin incidents /\ Indexed =>
    /\ \A i, j \in DOMAIN users : users[i].uid = users[j].uid => i = j
    /\ \A i, j \in DOMAIN groups : groups[i].gid = groups[j].gid => i = j
    /\ uid_bitmap = {users[i].uid : i \in DOMAIN users} \cap COMMON_UID
    /\ gid_bitmap = {groups[i].gid : i \in DOMAIN groups} \cap COMMON_GID

(* The two sides of the membership relation agree: a group is in a user's  *)
(* list exactly if the user is in the group's, and the group's list names  *)
(* no deleted user, whatever is deleted and whichever id is handed out     *)
(* again.                                                                  *)
MembershipConsistent ==
  FreshInstall /\ incidents = {} =>
    /\ \A j \in DOMAIN groups : \A uid \in groups[j].members :
         \E i \in DOMAIN users : users[i].uid = uid
    /\ \A i \in DOMAIN users, j \in DOMAIN groups :
         user_has_group(users[i], groups[j].gid) <=> users[i].uid \in groups[j].members

(* While the first process lives and index updates find their memory,      *)
(* certification accepts exactly the current password of the named         *)
(* account, although it goes from the name to a uid and from the uid back  *)
(* to a record.  After a failed update it may accept the name that add_user *)
(* refused, with the password of the account added next.                   *)
CertifiesExactly ==
  FreshInstall /\ "restart" \notin incidents /\ Indexed =>
    \A n \in Usernames, p \in Passwords :
      certification(n, p) <=> \E i \in DOMAIN users : users[i].username = n /\ users[i].password = p

(* Every group in a user's list exists, and is there once: in memory, and  *)
(* on disk, also when a save stops between the two renames.  A restart     *)
(* never fails because a group is missing.  This rests on the order of the *)
(* renames and needs no group to be on disk later than its members.  A     *)
(* group name that leads past the end would have another group dropped, so *)
(* it is said of the time in which index updates find their memory.        *)
Covers(hs, gs) == \A j \in DOMAIN gs : \E m \in DOMAIN hs : hs[m].gid = gs[j].gid
GidsResolve ==
  Indexed =>
    /\ Resolves(users, groups)
    /\ Resolves(userFile, groupFile)
    /\ Covers(groupFile, groups)

(* The inductive invariant of the proofs. *)
IInv == TypeOK /\ IndexesExact /\ GidsResolve /\ IdsAccounted /\ MembershipConsistent

(* After a successful operation a restart would rebuild the very same      *)
(* users and groups, members included although they are not on disk, as    *)
(* long as every user has a group and no user has more than is read back.  *)
RestartRestores ==
  (/\ FreshInstall /\ incidents = {} /\ succeeded = TRUE
   /\ \A i \in DOMAIN users : Len(users[i].groups) \in 1 .. MaxGidTokens)
  => /\ Loadable(userFile, groupFile)
     /\ LoadedUsers(userFile) = users
     /\ LoadedGroups(userFile, groupFile) = groups

(* Adding a user or a group either succeeds or leaves the accounts, the    *)
(* groups and the ids handed out as they were, wherever it fails; and the  *)
(* indexes too, unless an index update ran out of memory: the rollback     *)
(* after a failed save is complete, the one after a failed update is not.  *)
(* So a step that fails and leaves a trace is not an addition.             *)
NoTraceLeft ==
  /\ UNCHANGED <<users, uid_bitmap, groups, gid_bitmap>>
  /\ Indexed' => UNCHANGED <<userIndexes, groupIndexes>>
FailedAddLeavesNoTrace ==
  [][~succeeded' /\ ~NoTraceLeft =>
       /\ \A n \in Usernames \cup {Malformed}, p \in Passwords \cup {Malformed} : ~add_user(n, p)
       /\ \A n \in Groupnames \cup {Malformed} : ~add_group(n)]_vars

(* While the first process lives and index updates find their memory, a    *)
(* user's primary group changes only when the user leaves it or the group  *)
(* is deleted: joining further groups never displaces it.                  *)
PrimaryGroupStable ==
  [][\A i \in DOMAIN users, j \in DOMAIN users' :
       (/\ "restart" \notin incidents' /\ Indexed' /\ users[i].uid = users'[j].uid
        /\ users[i].username = users'[j].username /\ users[i].groups # <<>>)
       => \/ /\ users'[j].groups # <<>> /\ users'[j].groups[1] = users[i].groups[1]
          \/ ~user_has_group(users'[j], users[i].groups[1])]_vars

(* Until an incident, the manager implements the directory by name.        *)
NoAccount == Malformed
AbstractPassword ==
  [n \in Usernames |->
     IF \E i \in DOMAIN users : users[i].username = n
     THEN users[CHOOSE i \in DOMAIN users : users[i].username = n].password
     ELSE NoAccount]
AbstractMember ==
  {m \in Usernames \X Groupnames :
     \E i \in DOMAIN users, j \in DOMAIN groups :
       /\ users[i].username = m[1] /\ groups[j].groupname = m[2]
       /\ user_has_group(users[i], groups[j].gid)}
D == INSTANCE Directory WITH
       None <- NoAccount, password <- AbstractPassword,
       group <- {groups[i].groupname : i \in DOMAIN groups},
       member <- AbstractMember, live <- incidents = {}
ImplementsDirectory == D!Spec

(* A load after any successful operation would go through: what "every     *)
(* modification is saved automatically" (doc/usergroup.md) is for.         *)
SavedStateLoads == up /\ succeeded => Loadable(userFile, groupFile)

(* No two users have the same uid, which the loader checks (usergroup.c,   *)
(* "检查UID和用户名是否重复").                                             *)
UidsDistinct == \A i, j \in DOMAIN users : users[i].uid = users[j].uid => i = j
==============================================================================
