--------------------------- MODULE UserGroupProof ---------------------------
(***************************************************************************)
(* Theorems about UserGroup, for every set of names, every size of the id  *)
(* space, every initial configuration and every combination of faults.     *)
(***************************************************************************)
EXTENDS UserGroup, ListsProof

-----------------------------------------------------------------------------
(* Identifiers *)

LEMMA IdSets ==
  /\ COMMON_UID \subseteq Ids /\ COMMON_GID \subseteq Ids
  /\ Ids \subseteq Nat /\ 0 \in Ids /\ merr \notin Ids
BY IdAssumption DEF COMMON_UID, COMMON_GID, Ids, merr

(* The allocator returns a free identifier of the class, or merr.          *)
LEMMA FirstFreeProperties ==
  ASSUME NEW taken, NEW class \in SUBSET Ids
  PROVE  FirstFree(taken, class) # merr => FirstFree(taken, class) \in class \ taken
<1>1. CASE class \subseteq taken BY <1>1 DEF FirstFree
<1>2. CASE ~(class \subseteq taken)
  <2>1. class \ taken \in SUBSET Nat /\ class \ taken # {} BY <1>2, IdSets
  <2>2. \E x \in class \ taken : \A y \in class \ taken : x <= y
    BY <2>1, LeastExists
  <2>3. FirstFree(taken, class) =
          CHOOSE x \in class \ taken : \A y \in class \ taken : x <= y
    BY <1>2 DEF FirstFree
  <2>4. QED BY <2>2, <2>3, Zenon
<1>3. QED BY <1>1, <1>2

LEMMA NewUid ==
  ASSUME get_uid(uid_bitmap) # merr
  PROVE  /\ get_uid(uid_bitmap) \in COMMON_UID \ uid_bitmap
         /\ get_uid(uid_bitmap) \in Ids
         /\ uid_bitmap \subseteq COMMON_UID =>
              del_uid(uid_bitmap \cup {get_uid(uid_bitmap)}, get_uid(uid_bitmap)) = uid_bitmap
<1>1. get_uid(uid_bitmap) \in COMMON_UID \ uid_bitmap
  BY IdSets, FirstFreeProperties DEF get_uid
<1>2. QED BY <1>1, IdSets DEF del_uid

LEMMA NewGid ==
  ASSUME get_gid(gid_bitmap) # merr
  PROVE  /\ get_gid(gid_bitmap) \in COMMON_GID \ gid_bitmap
         /\ get_gid(gid_bitmap) \in Ids
         /\ gid_bitmap \subseteq COMMON_GID =>
              del_gid(gid_bitmap \cup {get_gid(gid_bitmap)}, get_gid(gid_bitmap)) = gid_bitmap
<1>1. get_gid(gid_bitmap) \in COMMON_GID \ gid_bitmap
  BY IdSets, FirstFreeProperties DEF get_gid
<1>2. QED BY <1>1, IdSets DEF del_gid

-----------------------------------------------------------------------------
(* Indexes *)

(* What a look-up in an exact index returns. *)
LEMMA UserLookup ==
  ASSUME NEW us \in Seq(User)
  PROVE  /\ \A n \in Usernames :
              /\ UsernameIndex(us)[n] = 0 <=> ~\E i \in DOMAIN us : us[i].username = n
              /\ UsernameIndex(us)[n] # 0 =>
                   /\ UsernameIndex(us)[n] \in 1 .. Len(us)
                   /\ us[UsernameIndex(us)[n]].username = n
         /\ \A u \in Ids :
              /\ UidIndex(us)[u] = 0 <=> ~\E i \in DOMAIN us : us[i].uid = u
              /\ UidIndex(us)[u] # 0 =>
                   /\ UidIndex(us)[u] \in 1 .. Len(us)
                   /\ us[UidIndex(us)[u]].uid = u
<1>1. DOMAIN us = 1 .. Len(us) /\ Len(us) \in Nat BY LenProperties
<1>2. ASSUME NEW n \in Usernames
      PROVE  /\ UsernameIndex(us)[n] = 0 <=> ~\E i \in DOMAIN us : us[i].username = n
             /\ UsernameIndex(us)[n] # 0 =>
                  /\ UsernameIndex(us)[n] \in 1 .. Len(us)
                  /\ us[UsernameIndex(us)[n]].username = n
  <2> DEFINE S == {i \in DOMAIN us : us[i].username = n}
  <2>1. S \in SUBSET (1 .. Len(us)) BY <1>1
  <2>2. UsernameIndex(us)[n] = LastOf(S) BY DEF UsernameIndex
  <2>3. /\ LastOf(S) = 0 <=> S = {}
        /\ S # {} => LastOf(S) \in S
    BY <1>1, <2>1, LastOfProperties
  <2>4. QED BY <1>1, <2>2, <2>3
<1>3. ASSUME NEW u \in Ids
      PROVE  /\ UidIndex(us)[u] = 0 <=> ~\E i \in DOMAIN us : us[i].uid = u
             /\ UidIndex(us)[u] # 0 =>
                  /\ UidIndex(us)[u] \in 1 .. Len(us)
                  /\ us[UidIndex(us)[u]].uid = u
  <2> DEFINE S == {i \in DOMAIN us : us[i].uid = u}
  <2>1. S \in SUBSET (1 .. Len(us)) BY <1>1
  <2>2. UidIndex(us)[u] = LastOf(S) BY DEF UidIndex
  <2>3. /\ LastOf(S) = 0 <=> S = {}
        /\ S # {} => LastOf(S) \in S
    BY <1>1, <2>1, LastOfProperties
  <2>4. QED BY <1>1, <2>2, <2>3
<1>4. QED BY <1>2, <1>3

LEMMA GroupLookup ==
  ASSUME NEW gs \in Seq(Group)
  PROVE  /\ \A n \in Groupnames :
              /\ GroupnameIndex(gs)[n] = 0 <=> ~\E i \in DOMAIN gs : gs[i].groupname = n
              /\ GroupnameIndex(gs)[n] # 0 =>
                   /\ GroupnameIndex(gs)[n] \in 1 .. Len(gs)
                   /\ gs[GroupnameIndex(gs)[n]].groupname = n
         /\ \A g \in Ids :
              /\ GidIndex(gs)[g] = 0 <=> ~\E i \in DOMAIN gs : gs[i].gid = g
              /\ GidIndex(gs)[g] # 0 =>
                   /\ GidIndex(gs)[g] \in 1 .. Len(gs)
                   /\ gs[GidIndex(gs)[g]].gid = g
<1>1. DOMAIN gs = 1 .. Len(gs) /\ Len(gs) \in Nat BY LenProperties
<1>2. ASSUME NEW n \in Groupnames
      PROVE  /\ GroupnameIndex(gs)[n] = 0 <=> ~\E i \in DOMAIN gs : gs[i].groupname = n
             /\ GroupnameIndex(gs)[n] # 0 =>
                  /\ GroupnameIndex(gs)[n] \in 1 .. Len(gs)
                  /\ gs[GroupnameIndex(gs)[n]].groupname = n
  <2> DEFINE S == {i \in DOMAIN gs : gs[i].groupname = n}
  <2>1. S \in SUBSET (1 .. Len(gs)) BY <1>1
  <2>2. GroupnameIndex(gs)[n] = LastOf(S) BY DEF GroupnameIndex
  <2>3. /\ LastOf(S) = 0 <=> S = {}
        /\ S # {} => LastOf(S) \in S
    BY <1>1, <2>1, LastOfProperties
  <2>4. QED BY <1>1, <2>2, <2>3
<1>3. ASSUME NEW g \in Ids
      PROVE  /\ GidIndex(gs)[g] = 0 <=> ~\E i \in DOMAIN gs : gs[i].gid = g
             /\ GidIndex(gs)[g] # 0 =>
                  /\ GidIndex(gs)[g] \in 1 .. Len(gs)
                  /\ gs[GidIndex(gs)[g]].gid = g
  <2> DEFINE S == {i \in DOMAIN gs : gs[i].gid = g}
  <2>1. S \in SUBSET (1 .. Len(gs)) BY <1>1
  <2>2. GidIndex(gs)[g] = LastOf(S) BY DEF GidIndex
  <2>3. /\ LastOf(S) = 0 <=> S = {}
        /\ S # {} => LastOf(S) \in S
    BY <1>1, <2>1, LastOfProperties
  <2>4. QED BY <1>1, <2>2, <2>3
<1>4. QED BY <1>2, <1>3

(* Replacing the entries of the last position is as good as a rebuild      *)
(* after an append.                                                        *)
LEMMA UserIndexAppend ==
  ASSUME NEW us \in Seq(User), NEW e \in User
  PROVE  /\ UsernameIndex(Append(us, e)) = [UsernameIndex(us) EXCEPT ![e.username] = Len(us) + 1]
         /\ UidIndex(Append(us, e)) = [UidIndex(us) EXCEPT ![e.uid] = Len(us) + 1]
<1> DEFINE vs == Append(us, e)
<1>1. DOMAIN us = 1 .. Len(us) /\ Len(us) \in Nat BY LenProperties
<1>2. /\ DOMAIN vs = 1 .. Len(us) + 1
      /\ \A i \in 1 .. Len(us) : vs[i] = us[i]
      /\ vs[Len(us) + 1] = e
  BY AppendElements
<1>3. e.username \in Usernames /\ e.uid \in Ids BY DEF User
<1> HIDE DEF vs
<1>4. ASSUME NEW n \in Usernames
      PROVE  UsernameIndex(vs)[n] = IF n = e.username THEN Len(us) + 1 ELSE UsernameIndex(us)[n]
  <2> DEFINE S == {i \in DOMAIN us : us[i].username = n}
             T == {i \in DOMAIN vs : vs[i].username = n}
  <2>1. UsernameIndex(us)[n] = LastOf(S) /\ UsernameIndex(vs)[n] = LastOf(T)
    BY DEF UsernameIndex
  <2>2. T = IF n = e.username THEN S \cup {Len(us) + 1} ELSE S BY <1>1, <1>2
  <2>3. T \subseteq 1 .. Len(us) + 1 /\ S \subseteq 1 .. Len(us) BY <1>1, <1>2
  <2>4. n = e.username => LastOf(T) = Len(us) + 1
    <3> SUFFICES ASSUME n = e.username PROVE LastOf(T) = Len(us) + 1 OBVIOUS
    <3>1. Len(us) + 1 \in T /\ \A y \in T : y <= Len(us) + 1 BY <1>1, <2>2, <2>3
    <3>2. Len(us) + 1 \in Nat BY <1>1
    <3> HIDE DEF T
    <3>3. QED BY <2>3, <3>1, <3>2, LastOfUnique
  <2>5. QED BY <2>1, <2>2, <2>4
<1>5. ASSUME NEW u \in Ids
      PROVE  UidIndex(vs)[u] = IF u = e.uid THEN Len(us) + 1 ELSE UidIndex(us)[u]
  <2> DEFINE S == {i \in DOMAIN us : us[i].uid = u}
             T == {i \in DOMAIN vs : vs[i].uid = u}
  <2>1. UidIndex(us)[u] = LastOf(S) /\ UidIndex(vs)[u] = LastOf(T)
    BY DEF UidIndex
  <2>2. T = IF u = e.uid THEN S \cup {Len(us) + 1} ELSE S BY <1>1, <1>2
  <2>3. T \subseteq 1 .. Len(us) + 1 /\ S \subseteq 1 .. Len(us) BY <1>1, <1>2
  <2>4. u = e.uid => LastOf(T) = Len(us) + 1
    <3> SUFFICES ASSUME u = e.uid PROVE LastOf(T) = Len(us) + 1 OBVIOUS
    <3>1. Len(us) + 1 \in T /\ \A y \in T : y <= Len(us) + 1 BY <1>1, <2>2, <2>3
    <3>2. Len(us) + 1 \in Nat BY <1>1
    <3> HIDE DEF T
    <3>3. QED BY <2>3, <3>1, <3>2, LastOfUnique
  <2>5. QED BY <2>1, <2>2, <2>4
<1>6. UsernameIndex(vs) = [UsernameIndex(us) EXCEPT ![e.username] = Len(us) + 1]
  BY <1>3, <1>4 DEF UsernameIndex
<1>7. UidIndex(vs) = [UidIndex(us) EXCEPT ![e.uid] = Len(us) + 1]
  BY <1>3, <1>5 DEF UidIndex
<1>8. QED BY <1>6, <1>7 DEF vs

LEMMA GroupIndexAppend ==
  ASSUME NEW gs \in Seq(Group), NEW e \in Group
  PROVE  /\ GroupnameIndex(Append(gs, e)) =
              [GroupnameIndex(gs) EXCEPT ![e.groupname] = Len(gs) + 1]
         /\ GidIndex(Append(gs, e)) = [GidIndex(gs) EXCEPT ![e.gid] = Len(gs) + 1]
<1> DEFINE hs == Append(gs, e)
<1>1. DOMAIN gs = 1 .. Len(gs) /\ Len(gs) \in Nat BY LenProperties
<1>2. /\ DOMAIN hs = 1 .. Len(gs) + 1
      /\ \A i \in 1 .. Len(gs) : hs[i] = gs[i]
      /\ hs[Len(gs) + 1] = e
  BY AppendElements
<1>3. e.groupname \in Groupnames /\ e.gid \in Ids BY DEF Group
<1> HIDE DEF hs
<1>4. ASSUME NEW n \in Groupnames
      PROVE  GroupnameIndex(hs)[n] = IF n = e.groupname THEN Len(gs) + 1 ELSE GroupnameIndex(gs)[n]
  <2> DEFINE S == {i \in DOMAIN gs : gs[i].groupname = n}
             T == {i \in DOMAIN hs : hs[i].groupname = n}
  <2>1. GroupnameIndex(gs)[n] = LastOf(S) /\ GroupnameIndex(hs)[n] = LastOf(T)
    BY DEF GroupnameIndex
  <2>2. T = IF n = e.groupname THEN S \cup {Len(gs) + 1} ELSE S BY <1>1, <1>2
  <2>3. T \subseteq 1 .. Len(gs) + 1 /\ S \subseteq 1 .. Len(gs) BY <1>1, <1>2
  <2>4. n = e.groupname => LastOf(T) = Len(gs) + 1
    <3> SUFFICES ASSUME n = e.groupname PROVE LastOf(T) = Len(gs) + 1 OBVIOUS
    <3>1. Len(gs) + 1 \in T /\ \A y \in T : y <= Len(gs) + 1 BY <1>1, <2>2, <2>3
    <3>2. Len(gs) + 1 \in Nat BY <1>1
    <3> HIDE DEF T
    <3>3. QED BY <2>3, <3>1, <3>2, LastOfUnique
  <2>5. QED BY <2>1, <2>2, <2>4
<1>5. ASSUME NEW g \in Ids
      PROVE  GidIndex(hs)[g] = IF g = e.gid THEN Len(gs) + 1 ELSE GidIndex(gs)[g]
  <2> DEFINE S == {i \in DOMAIN gs : gs[i].gid = g}
             T == {i \in DOMAIN hs : hs[i].gid = g}
  <2>1. GidIndex(gs)[g] = LastOf(S) /\ GidIndex(hs)[g] = LastOf(T)
    BY DEF GidIndex
  <2>2. T = IF g = e.gid THEN S \cup {Len(gs) + 1} ELSE S BY <1>1, <1>2
  <2>3. T \subseteq 1 .. Len(gs) + 1 /\ S \subseteq 1 .. Len(gs) BY <1>1, <1>2
  <2>4. g = e.gid => LastOf(T) = Len(gs) + 1
    <3> SUFFICES ASSUME g = e.gid PROVE LastOf(T) = Len(gs) + 1 OBVIOUS
    <3>1. Len(gs) + 1 \in T /\ \A y \in T : y <= Len(gs) + 1 BY <1>1, <2>2, <2>3
    <3>2. Len(gs) + 1 \in Nat BY <1>1
    <3> HIDE DEF T
    <3>3. QED BY <2>3, <3>1, <3>2, LastOfUnique
  <2>5. QED BY <2>1, <2>2, <2>4
<1>6. GroupnameIndex(hs) = [GroupnameIndex(gs) EXCEPT ![e.groupname] = Len(gs) + 1]
  BY <1>3, <1>4 DEF GroupnameIndex
<1>7. GidIndex(hs) = [GidIndex(gs) EXCEPT ![e.gid] = Len(gs) + 1]
  BY <1>3, <1>5 DEF GidIndex
<1>8. QED BY <1>6, <1>7 DEF hs

(* The indexes depend on names and ids alone: changing passwords, group    *)
(* lists and member sets in place leaves them exact.                       *)
LEMMA UserIndexKeepsKeys ==
  ASSUME NEW us, NEW vs, DOMAIN vs = DOMAIN us,
         \A i \in DOMAIN us : vs[i].username = us[i].username /\ vs[i].uid = us[i].uid
  PROVE  UsernameIndex(vs) = UsernameIndex(us) /\ UidIndex(vs) = UidIndex(us)
<1>1. \A n : {i \in DOMAIN vs : vs[i].username = n} = {i \in DOMAIN us : us[i].username = n}
  OBVIOUS
<1>2. \A u : {i \in DOMAIN vs : vs[i].uid = u} = {i \in DOMAIN us : us[i].uid = u}
  OBVIOUS
<1>3. QED BY <1>1, <1>2, Zenon DEF UsernameIndex, UidIndex

LEMMA GroupIndexKeepsKeys ==
  ASSUME NEW gs, NEW hs, DOMAIN hs = DOMAIN gs,
         \A i \in DOMAIN gs : hs[i].groupname = gs[i].groupname /\ hs[i].gid = gs[i].gid
  PROVE  GroupnameIndex(hs) = GroupnameIndex(gs) /\ GidIndex(hs) = GidIndex(gs)
<1>1. \A n : {i \in DOMAIN hs : hs[i].groupname = n} = {i \in DOMAIN gs : gs[i].groupname = n}
  OBVIOUS
<1>2. \A g : {i \in DOMAIN hs : hs[i].gid = g} = {i \in DOMAIN gs : gs[i].gid = g}
  OBVIOUS
<1>3. QED BY <1>1, <1>2, Zenon DEF GroupnameIndex, GidIndex

-----------------------------------------------------------------------------
(* Records and saves *)

LEMMA RemoveGid ==
  ASSUME NEW u \in User, NEW gid
  PROVE  LET v == remove_gid_from_user(u, gid)
         IN /\ v \in User
            /\ v.username = u.username /\ v.uid = u.uid /\ v.password = u.password
            /\ Distinct(u.groups) =>
                 /\ Distinct(v.groups)
                 /\ \A e : Contains(v.groups, e) <=> Contains(u.groups, e) /\ e # gid
<1>1. u.groups \in Seq(Ids) BY DEF User
<1>2. CASE user_has_group(u, gid)
  <2> DEFINE k == PositionOf(u.groups, gid)
             r == RemoveAt(u.groups, k)
  <2>1. k \in 1 .. Len(u.groups) /\ u.groups[k] = gid
    BY <1>1, <1>2, PositionOfProperties DEF user_has_group
  <2>2. r \in Seq(Ids) BY <1>1, <2>1, RemoveAtProperties
  <2>3. remove_gid_from_user(u, gid) = [u EXCEPT !.groups = r]
    BY <1>2 DEF remove_gid_from_user
  <2>4. Distinct(u.groups) =>
          Distinct(r) /\ \A e : Contains(r, e) <=> Contains(u.groups, e) /\ e # gid
    BY <1>1, <2>1, RemoveElementProperties
  <2> HIDE DEF r
  <2>5. QED BY <2>2, <2>3, <2>4 DEF User
<1>3. CASE ~user_has_group(u, gid)
  BY <1>3 DEF remove_gid_from_user, user_has_group
<1>4. QED BY <1>2, <1>3

LEMMA RemoveUid ==
  ASSUME NEW g \in Group, NEW uid
  PROVE  LET h == remove_uid_from_group(g, uid)
         IN /\ h \in Group
            /\ h.groupname = g.groupname /\ h.gid = g.gid
            /\ h.members = g.members \ {uid}
BY DEF Group, remove_uid_from_group

LEMMA GroupLinesProperties ==
  ASSUME NEW gs \in Seq(Group)
  PROVE  /\ GroupLines(gs) \in Seq(GroupLine)
         /\ Covers(GroupLines(gs), gs)
<1>1. DOMAIN gs = 1 .. Len(gs) /\ Len(gs) \in Nat BY LenProperties
<1>2. \A i \in 1 .. Len(gs) :
        [groupname |-> gs[i].groupname, gid |-> gs[i].gid] \in GroupLine
  <2>1. \A i \in 1 .. Len(gs) : gs[i] \in Group BY ElementOfSeq
  <2>2. QED BY <2>1 DEF Group, GroupLine
<1>3. GroupLines(gs) = [i \in 1 .. Len(gs) |->
                          [groupname |-> gs[i].groupname, gid |-> gs[i].gid]]
  BY <1>1 DEF GroupLines
<1>4. GroupLines(gs) \in Seq(GroupLine) BY <1>1, <1>2, <1>3, IsASeq
<1>5. \A j \in DOMAIN gs : j \in DOMAIN GroupLines(gs) /\ GroupLines(gs)[j].gid = gs[j].gid
  BY DEF GroupLines
<1>6. QED BY <1>4, <1>5 DEF Covers

LEMMA ResolvesCovers ==
  ASSUME NEW us, NEW gs, NEW hs, Resolves(us, gs), Covers(hs, gs)
  PROVE  Resolves(us, hs)
<1>1. ASSUME NEW i \in DOMAIN us, NEW k \in DOMAIN us[i].groups
      PROVE  \E m \in DOMAIN hs : hs[m].gid = us[i].groups[k]
  <2>1. PICK j \in DOMAIN gs : gs[j].gid = us[i].groups[k] BY DEF Resolves
  <2>2. QED BY <2>1 DEF Covers
<1>2. QED BY <1>1 DEF Resolves

LEMMA CoversTransitive ==
  ASSUME NEW fs, NEW gs, NEW hs, Covers(fs, gs), Covers(gs, hs)
  PROVE  Covers(fs, hs)
BY DEF Covers

(* What a save can do to the files, whatever its outcome: user.config is   *)
(* replaced before group.config or not at all, so references stay          *)
(* resolved provided they resolve in the groups already on disk.           *)
LEMMA SaveEffect ==
  ASSUME NEW us \in Seq(User), NEW gs \in Seq(Group), NEW o \in SaveOutcomes,
         save_User_group_manager(us, gs, o), TypeOK
  PROVE  /\ userFile' \in Seq(User) /\ groupFile' \in Seq(GroupLine)
         /\ unsaved' \in 0 .. MaxUnsaved
         /\ succeeded' \in BOOLEAN
         /\ (Indexed /\ Resolves(us, gs) /\ Resolves(us, groups) /\ GidsResolve)
              => Resolves(userFile', groupFile')
         /\ o = "saved" => Covers(groupFile', gs)
         /\ o # "saved" => groupFile' = groupFile
<1>1. GroupLines(gs) \in Seq(GroupLine) /\ Covers(GroupLines(gs), gs)
  BY GroupLinesProperties
<1>2. userFile' \in {us, userFile} /\ groupFile' \in {GroupLines(gs), groupFile}
  BY DEF save_User_group_manager
<1>3. userFile' \in Seq(User) /\ groupFile' \in Seq(GroupLine)
  BY <1>1, <1>2 DEF TypeOK
<1>4. unsaved' \in 0 .. MaxUnsaved
  BY ConstantAssumption DEF save_User_group_manager, SaveOutcomes, TypeOK
<1>5. succeeded' \in BOOLEAN BY DEF save_User_group_manager, Return
<1>6. o = "saved" => Covers(groupFile', gs) BY <1>1 DEF save_User_group_manager
<1>7. o # "saved" => groupFile' = groupFile BY DEF save_User_group_manager
<1>8. ASSUME Indexed, Resolves(us, gs), Resolves(us, groups), GidsResolve
      PROVE  Resolves(userFile', groupFile')
  <2>1. CASE o = "saved"
    <3>1. userFile' = us /\ groupFile' = GroupLines(gs)
      BY <2>1 DEF save_User_group_manager
    <3>2. Resolves(us, GroupLines(gs)) BY <1>1, <1>8, ResolvesCovers
    <3>3. QED BY <3>1, <3>2
  <2>2. CASE o # "saved"
    <3>1. Resolves(us, groupFile)
      BY <1>8, ResolvesCovers DEF GidsResolve
    <3>2. Resolves(userFile, groupFile) BY <1>8 DEF GidsResolve
    <3>3. QED BY <1>2, <1>7, <2>2, <3>1, <3>2
  <2>3. QED BY <2>1, <2>2
<1>9. QED BY <1>3, <1>4, <1>5, <1>6, <1>7, <1>8

-----------------------------------------------------------------------------
(* While index updates find their memory: a name leads into the array or   *)
(* nowhere, and nothing is past the end                                    *)

LEMMA NothingPastTheEnd ==
  ASSUME IInv, Indexed
  PROVE  /\ \A n \in Usernames :
              /\ username_to_idx[n] # 0 => username_to_idx[n] \in DOMAIN users
              /\ username_to_idx[n] # Len(users) + 1
         /\ \A n \in Groupnames :
              /\ groupname_to_idx[n] # 0 => groupname_to_idx[n] \in DOMAIN groups
              /\ groupname_to_idx[n] # Len(groups) + 1
         /\ vacant_user = <<>> /\ vacant_group = <<>>
         /\ \A u : Overwritten(u) = <<>> /\ HalfOverwritten(u) = <<>>
         /\ \A g : [i \in DOMAIN vacant_group |-> g] = <<>>
<1>1. users \in Seq(User) /\ groups \in Seq(Group) BY DEF IInv, TypeOK
<1>2. /\ DOMAIN users = 1 .. Len(users) /\ Len(users) \in Nat
      /\ DOMAIN groups = 1 .. Len(groups) /\ Len(groups) \in Nat
  BY <1>1, LenProperties
<1>3. /\ username_to_idx = UsernameIndex(users)
      /\ groupname_to_idx = GroupnameIndex(groups)
      /\ vacant_user = <<>> /\ vacant_group = <<>>
  BY DEF IInv, IndexesExact
<1>4. \A n \in Usernames : username_to_idx[n] # 0 => username_to_idx[n] \in 1 .. Len(users)
  BY <1>1, <1>3, UserLookup
<1>5. \A n \in Groupnames : groupname_to_idx[n] # 0 => groupname_to_idx[n] \in 1 .. Len(groups)
  BY <1>1, <1>3, GroupLookup
<1>6. Len(users) + 1 # 0 /\ Len(users) + 1 \notin 1 .. Len(users) BY <1>2
<1>7. Len(groups) + 1 # 0 /\ Len(groups) + 1 \notin 1 .. Len(groups) BY <1>2
<1>8. \A u : Overwritten(u) = <<>> /\ HalfOverwritten(u) = <<>>
  BY <1>3 DEF Overwritten, HalfOverwritten
<1>9. \A g : [i \in DOMAIN vacant_group |-> g] = <<>> BY <1>3
<1>10. QED BY <1>2, <1>3, <1>4, <1>5, <1>6, <1>7, <1>8, <1>9

LEMMA NoUpdateStopped ==
  ASSUME Indexed'
  PROVE  /\ ~Unindexed
         /\ \A us : ~rebuild_user_indexes_stops(us)
         /\ \A gs : ~rebuild_group_indexes_stops(gs)
         /\ \A u : ~add_user_unindexed(u)
         /\ \A g : ~add_group_unindexed(g)
<1>1. ~Unindexed BY DEF Unindexed, Indexed
<1>2. QED
  BY <1>1 DEF rebuild_user_indexes_stops, rebuild_group_indexes_stops,
              add_user_unindexed, add_group_unindexed

LEMMA VacantTypes ==
  ASSUME vacant_user' = <<>>, vacant_group' = <<>>
  PROVE  vacant_user' \in Seq(User) /\ vacant_group' \in Seq(Group)
BY EmptySeq

-----------------------------------------------------------------------------
(* Every step preserves the inductive invariant, as long as index updates  *)
(* find their memory: one lemma per operation                              *)

LEMMA QuietStep ==
  ASSUME IInv, Indexed, Indexed', succeeded' \in BOOLEAN,
         UNCHANGED <<up, memory, files, unsaved, incidents>>
  PROVE  IInv'
<1> USE DEF memory, userVars, groupVars, userIndexes, groupIndexes, files
<1>1. TypeOK' BY DEF IInv, TypeOK
<1>2. IndexesExact' BY DEF IInv, IndexesExact
<1>3. GidsResolve' BY DEF IInv, GidsResolve
<1>4. IdsAccounted' BY DEF IInv, IdsAccounted
<1>5. MembershipConsistent' BY DEF IInv, MembershipConsistent
<1>6. QED BY <1>1, <1>2, <1>3, <1>4, <1>5 DEF IInv

LEMMA RefuseStep ==
  ASSUME IInv, Indexed, Indexed', NEW code, Refuse(code) PROVE IInv'
BY QuietStep DEF Refuse, Return

LEMMA AddUserStep ==
  ASSUME IInv, Indexed, Indexed',
         NEW n \in Usernames \cup {Malformed}, NEW p \in Passwords \cup {Malformed},
         add_user(n, p)
  PROVE  IInv'
<1> DEFINE uid == get_uid(uid_bitmap)
           e   == [username |-> n, uid |-> uid, groups |-> <<>>, password |-> p]
           us  == Append(users, e)
<1>1. CASE \E code : Refuse(code) BY <1>1, RefuseStep
<1>2. CASE /\ uid # merr /\ \E code : add_user_gives_up(uid, code)
            /\ vacant_user' = vacant_user
  <2>1. uid_bitmap' = uid_bitmap
    BY <1>2, NewUid DEF add_user_gives_up, IInv, TypeOK
  <2>2. QED BY <1>2, <2>1, QuietStep
            DEF add_user_gives_up, Return, memory, userVars, groupVars, userIndexes, groupIndexes, files
<1>3. ASSUME n # Malformed, p # Malformed, username_to_idx[n] = 0, uid # merr,
             NEW o \in SaveOutcomes,
             save_User_group_manager(us, groups, o),
             \/ /\ o = "saved"
                /\ users' = us
                /\ uid_bitmap' = uid_bitmap \cup {uid}
                /\ update_user_index(Len(us))
             \/ /\ o # "saved"
                /\ users' = users
                /\ uid_bitmap' = del_uid(uid_bitmap \cup {uid}, uid)
                /\ rebuild_user_indexes,
             UNCHANGED <<up, groupVars>>, UNCHANGED incidents
      PROVE  IInv'
  <2>1. n \in Usernames /\ p \in Passwords BY <1>3
  <2>2. uid \in COMMON_UID \ uid_bitmap /\ uid \in Ids BY <1>3, NewUid
  <2>3. e \in User BY <2>1, <2>2, EmptySeq DEF User
  <2>4. users \in Seq(User) /\ groups \in Seq(Group) BY DEF IInv, TypeOK
  <2>5. DOMAIN users = 1 .. Len(users) /\ Len(users) \in Nat BY <2>4, LenProperties
  <2> HIDE DEF e, uid
  <2>6. /\ us \in Seq(User) /\ Len(us) = Len(users) + 1 /\ DOMAIN us = 1 .. Len(users) + 1
        /\ \A i \in 1 .. Len(users) : us[i] = users[i]
        /\ us[Len(users) + 1] = e
    BY <2>3, <2>4, AppendElements
  <2> HIDE DEF us
  <2>7. e.username = n /\ e.uid = uid /\ e.groups = <<>> BY DEF e
  <2>8. ~\E i \in DOMAIN users : users[i].username = n
    BY <1>3, <2>1, <2>4, UserLookup DEF IInv, IndexesExact
  <2>9. Resolves(us, groups)
    <3>1. \A i \in DOMAIN us : us[i] = e \/ (i \in DOMAIN users /\ us[i] = users[i])
      BY <2>5, <2>6
    <3>2. Resolves(users, groups) BY DEF IInv, GidsResolve
    <3>3. DOMAIN e.groups = {} BY <2>7
    <3>4. QED BY <3>1, <3>2, <3>3 DEF Resolves, Distinct
  <2>10. /\ userFile' \in Seq(User) /\ groupFile' \in Seq(GroupLine)
         /\ unsaved' \in 0 .. MaxUnsaved /\ succeeded' \in BOOLEAN
         /\ Resolves(userFile', groupFile')
         /\ o = "saved" => Covers(groupFile', groups)
         /\ o # "saved" => groupFile' = groupFile
    BY <1>3, <2>4, <2>6, <2>9, SaveEffect DEF IInv
  <2>11. Covers(groupFile', groups) BY <2>10 DEF IInv, GidsResolve
  <2>12. groups' = groups /\ groupname_to_idx' = groupname_to_idx
         /\ gid_to_idx' = gid_to_idx /\ gid_bitmap' = gid_bitmap
         /\ vacant_group' = vacant_group
    BY <1>3 DEF groupVars, groupIndexes
  <2>16. vacant_user' = <<>> /\ vacant_group' = <<>>
    BY <1>3, <2>12, NothingPastTheEnd DEF rebuild_user_indexes, update_user_index
  <2>17. vacant_user' \in Seq(User) /\ vacant_group' \in Seq(Group)
    BY <2>16, VacantTypes
  <2>13. CASE o # "saved"
    <3>1. users' = users /\ rebuild_user_indexes BY <1>3, <2>13
    <3>2. uid_bitmap' = uid_bitmap
      BY <1>3, <2>13, NewUid DEF IInv, TypeOK, uid
    <3>3. TypeOK' BY <1>3, <2>10, <2>12, <2>17, <3>1, <3>2 DEF IInv, TypeOK
    <3>4. IndexesExact'
      BY <2>12, <2>16, <3>1 DEF IInv, IndexesExact, rebuild_user_indexes
    <3>5. GidsResolve' BY <2>10, <2>11, <2>12, <3>1 DEF IInv, GidsResolve
    <3>6. IdsAccounted' BY <1>3, <2>12, <3>1, <3>2 DEF IInv, IdsAccounted
    <3>7. MembershipConsistent' BY <1>3, <2>12, <3>1 DEF IInv, MembershipConsistent
    <3>8. QED BY <3>3, <3>4, <3>5, <3>6, <3>7 DEF IInv
  <2>14. CASE o = "saved"
    <3>1. users' = us /\ uid_bitmap' = uid_bitmap \cup {uid} /\ update_user_index(Len(us))
      BY <1>3, <2>14
    <3>2. TypeOK'
      <4>0. \A i, j \in DOMAIN users : users[i].username = users[j].username => i = j
        BY DEF IInv, TypeOK
      <4>1. \A i, j \in DOMAIN us : us[i].username = us[j].username => i = j
        BY <2>5, <2>6, <2>7, <2>8, <4>0
      <4>2. uid_bitmap' \subseteq COMMON_UID BY <2>2, <3>1 DEF IInv, TypeOK
      <4>3. QED BY <1>3, <2>6, <2>10, <2>12, <2>17, <3>1, <4>1, <4>2 DEF IInv, TypeOK
    <3>3. IndexesExact'
      <4>1. /\ username_to_idx' = [username_to_idx EXCEPT ![n] = Len(users) + 1]
            /\ uid_to_idx' = [uid_to_idx EXCEPT ![uid] = Len(users) + 1]
        BY <2>6, <2>7, <3>1 DEF update_user_index
      <4>2. UsernameIndex(us) = username_to_idx' /\ UidIndex(us) = uid_to_idx'
        BY <2>3, <2>4, <2>7, <4>1, UserIndexAppend DEF IInv, IndexesExact, us
      <4>3. QED BY <2>12, <2>16, <3>1, <4>2 DEF IInv, IndexesExact
    <3>4. GidsResolve' BY <2>9, <2>10, <2>11, <2>12, <3>1 DEF GidsResolve
    <3>5. IdsAccounted'
      <4> SUFFICES ASSUME FreshInstall, "restart" \notin incidents'
                   PROVE  IdsAccounted!2'
        BY DEF IdsAccounted, FreshInstall
      <4>1. IdsAccounted!2 BY <1>3 DEF IInv, IdsAccounted
      <4>2. \A i \in DOMAIN users : users[i].uid # uid
        <5>1. \A i \in DOMAIN users : users[i].uid \in COMMON_UID => users[i].uid \in uid_bitmap
          BY <4>1
        <5>2. QED BY <2>2, <5>1
      <4>3. \A i, j \in DOMAIN us : us[i].uid = us[j].uid => i = j
        BY <2>5, <2>6, <2>7, <4>1, <4>2
      <4>4. {us[i].uid : i \in DOMAIN us} = {users[i].uid : i \in DOMAIN users} \cup {uid}
        BY <2>5, <2>6, <2>7
      <4>5. uid_bitmap' = {us[i].uid : i \in DOMAIN us} \cap COMMON_UID
        BY <2>2, <3>1, <4>1, <4>4
      <4>6. QED BY <2>12, <3>1, <4>1, <4>3, <4>5
    <3>6. MembershipConsistent'
      <4> SUFFICES ASSUME FreshInstall, incidents' = {}
                   PROVE  MembershipConsistent!2'
        BY DEF MembershipConsistent, FreshInstall
      <4>1. MembershipConsistent!2 /\ IdsAccounted!2
        BY <1>3 DEF IInv, MembershipConsistent, IdsAccounted
      <4>2. \A i \in DOMAIN users : users[i].uid # uid
        <5>1. \A i \in DOMAIN users : users[i].uid \in COMMON_UID => users[i].uid \in uid_bitmap
          BY <4>1
        <5>2. QED BY <2>2, <5>1
      <4>3. \A j \in DOMAIN groups : uid \notin groups[j].members BY <4>1, <4>2
      <4>4. \A gid : ~user_has_group(e, gid) BY <2>7 DEF user_has_group, Contains
      <4>5. \A i \in DOMAIN us : us[i] = e \/ (i \in DOMAIN users /\ us[i] = users[i])
        BY <2>5, <2>6
      <4>6. \A i \in DOMAIN users : i \in DOMAIN us /\ us[i] = users[i] BY <2>5, <2>6
      <4>7. QED BY <2>7, <2>12, <3>1, <4>1, <4>3, <4>4, <4>5, <4>6
    <3>7. QED BY <3>2, <3>3, <3>4, <3>5, <3>6 DEF IInv
  <2>15. QED BY <2>13, <2>14
<1>4. QED BY <1>1, <1>2, <1>3, NothingPastTheEnd, NoUpdateStopped DEF add_user

LEMMA AddGroupStep ==
  ASSUME IInv, Indexed, Indexed', NEW n \in Groupnames \cup {Malformed}, add_group(n)
  PROVE  IInv'
<1> DEFINE gid == get_gid(gid_bitmap)
           e   == [groupname |-> n, gid |-> gid, members |-> {}]
           gs  == Append(groups, e)
<1>1. CASE \E code : Refuse(code) BY <1>1, RefuseStep
<1>2. CASE /\ gid # merr /\ \E code : add_group_gives_up(gid, code)
            /\ vacant_group' = vacant_group
  <2>1. gid_bitmap' = gid_bitmap
    BY <1>2, NewGid DEF add_group_gives_up, IInv, TypeOK
  <2>2. QED BY <1>2, <2>1, QuietStep
            DEF add_group_gives_up, Return, memory, userVars, groupVars, userIndexes, groupIndexes, files
<1>3. ASSUME n # Malformed, groupname_to_idx[n] = 0, gid # merr,
             NEW o \in SaveOutcomes,
             save_User_group_manager(users, gs, o),
             \/ /\ o = "saved"
                /\ groups' = gs
                /\ gid_bitmap' = gid_bitmap \cup {gid}
                /\ update_group_index(Len(gs))
             \/ /\ o # "saved"
                /\ groups' = groups
                /\ gid_bitmap' = del_gid(gid_bitmap \cup {gid}, gid)
                /\ rebuild_group_indexes,
             UNCHANGED <<up, userVars>>, UNCHANGED incidents
      PROVE  IInv'
  <2>1. n \in Groupnames BY <1>3
  <2>2. gid \in COMMON_GID \ gid_bitmap /\ gid \in Ids BY <1>3, NewGid
  <2>3. e \in Group BY <2>1, <2>2 DEF Group
  <2>4. users \in Seq(User) /\ groups \in Seq(Group) BY DEF IInv, TypeOK
  <2>5. DOMAIN groups = 1 .. Len(groups) /\ Len(groups) \in Nat BY <2>4, LenProperties
  <2> HIDE DEF e, gid
  <2>6. /\ gs \in Seq(Group) /\ Len(gs) = Len(groups) + 1 /\ DOMAIN gs = 1 .. Len(groups) + 1
        /\ \A i \in 1 .. Len(groups) : gs[i] = groups[i]
        /\ gs[Len(groups) + 1] = e
    BY <2>3, <2>4, AppendElements
  <2> HIDE DEF gs
  <2>7. e.groupname = n /\ e.gid = gid /\ e.members = {} BY DEF e
  <2>8. ~\E i \in DOMAIN groups : groups[i].groupname = n
    BY <1>3, <2>1, <2>4, GroupLookup DEF IInv, IndexesExact
  <2>9. Resolves(users, groups) /\ Resolves(users, gs)
    <3>1. Covers(gs, groups) BY <2>5, <2>6 DEF Covers
    <3>2. Resolves(users, groups) BY DEF IInv, GidsResolve
    <3>3. QED BY <3>1, <3>2, ResolvesCovers
  <2>10. /\ userFile' \in Seq(User) /\ groupFile' \in Seq(GroupLine)
         /\ unsaved' \in 0 .. MaxUnsaved /\ succeeded' \in BOOLEAN
         /\ Resolves(userFile', groupFile')
         /\ o = "saved" => Covers(groupFile', gs)
         /\ o # "saved" => groupFile' = groupFile
    BY <1>3, <2>4, <2>6, <2>9, SaveEffect DEF IInv
  <2>11. users' = users /\ username_to_idx' = username_to_idx
         /\ uid_to_idx' = uid_to_idx /\ uid_bitmap' = uid_bitmap
         /\ vacant_user' = vacant_user
    BY <1>3 DEF userVars, userIndexes
  <2>15. vacant_user' = <<>> /\ vacant_group' = <<>>
    BY <1>3, <2>11, NothingPastTheEnd DEF rebuild_group_indexes, update_group_index
  <2>16. vacant_user' \in Seq(User) /\ vacant_group' \in Seq(Group)
    BY <2>15, VacantTypes
  <2>12. CASE o # "saved"
    <3>1. groups' = groups /\ rebuild_group_indexes BY <1>3, <2>12
    <3>2. gid_bitmap' = gid_bitmap
      BY <1>3, <2>12, NewGid DEF IInv, TypeOK, gid
    <3>3. TypeOK' BY <1>3, <2>10, <2>11, <2>16, <3>1, <3>2 DEF IInv, TypeOK
    <3>4. IndexesExact'
      BY <2>11, <2>15, <3>1 DEF IInv, IndexesExact, rebuild_group_indexes
    <3>5. GidsResolve' BY <2>9, <2>10, <2>11, <2>12, <3>1 DEF IInv, GidsResolve
    <3>6. IdsAccounted' BY <1>3, <2>11, <3>1, <3>2 DEF IInv, IdsAccounted
    <3>7. MembershipConsistent' BY <1>3, <2>11, <3>1 DEF IInv, MembershipConsistent
    <3>8. QED BY <3>3, <3>4, <3>5, <3>6, <3>7 DEF IInv
  <2>13. CASE o = "saved"
    <3>1. groups' = gs /\ gid_bitmap' = gid_bitmap \cup {gid} /\ update_group_index(Len(gs))
      BY <1>3, <2>13
    <3>2. TypeOK'
      <4>0. \A i, j \in DOMAIN groups : groups[i].groupname = groups[j].groupname => i = j
        BY DEF IInv, TypeOK
      <4>1. \A i, j \in DOMAIN gs : gs[i].groupname = gs[j].groupname => i = j
        BY <2>5, <2>6, <2>7, <2>8, <4>0
      <4>2. gid_bitmap' \subseteq COMMON_GID BY <2>2, <3>1 DEF IInv, TypeOK
      <4>3. QED BY <1>3, <2>6, <2>10, <2>11, <2>16, <3>1, <4>1, <4>2 DEF IInv, TypeOK
    <3>3. IndexesExact'
      <4>1. /\ groupname_to_idx' = [groupname_to_idx EXCEPT ![n] = Len(groups) + 1]
            /\ gid_to_idx' = [gid_to_idx EXCEPT ![gid] = Len(groups) + 1]
        BY <2>6, <2>7, <3>1 DEF update_group_index
      <4>2. GroupnameIndex(gs) = groupname_to_idx' /\ GidIndex(gs) = gid_to_idx'
        BY <2>3, <2>4, <2>7, <4>1, GroupIndexAppend DEF IInv, IndexesExact, gs
      <4>3. QED BY <2>11, <2>15, <3>1, <4>2 DEF IInv, IndexesExact
    <3>4. GidsResolve' BY <2>9, <2>10, <2>11, <2>13, <3>1 DEF GidsResolve
    <3>5. ASSUME IdsAccounted!2 PROVE \A i \in DOMAIN groups : groups[i].gid # gid
      <4>1. \A i \in DOMAIN groups : groups[i].gid \in COMMON_GID => groups[i].gid \in gid_bitmap
        BY <3>5
      <4>2. QED BY <2>2, <4>1
    <3>6. IdsAccounted'
      <4> SUFFICES ASSUME FreshInstall, "restart" \notin incidents'
                   PROVE  IdsAccounted!2'
        BY DEF IdsAccounted, FreshInstall
      <4>1. IdsAccounted!2 BY <1>3 DEF IInv, IdsAccounted
      <4>2. \A i, j \in DOMAIN gs : gs[i].gid = gs[j].gid => i = j
        BY <2>5, <2>6, <2>7, <3>5, <4>1
      <4>3. {gs[i].gid : i \in DOMAIN gs} = {groups[i].gid : i \in DOMAIN groups} \cup {gid}
        BY <2>5, <2>6, <2>7
      <4>4. gid_bitmap' = {gs[i].gid : i \in DOMAIN gs} \cap COMMON_GID
        BY <2>2, <3>1, <4>1, <4>3
      <4>5. QED BY <2>11, <3>1, <4>1, <4>2, <4>4
    <3>7. MembershipConsistent'
      <4> SUFFICES ASSUME FreshInstall, incidents' = {}
                   PROVE  MembershipConsistent!2'
        BY DEF MembershipConsistent, FreshInstall
      <4>1. MembershipConsistent!2 /\ IdsAccounted!2
        BY <1>3 DEF IInv, MembershipConsistent, IdsAccounted
      <4>2. \A i \in DOMAIN groups : groups[i].gid # gid BY <3>5, <4>1
      <4>3. \A i \in DOMAIN users : ~user_has_group(users[i], gid)
        BY <2>9, <4>2 DEF Resolves, user_has_group, Contains
      <4>4. \A j \in DOMAIN gs : gs[j] = e \/ (j \in DOMAIN groups /\ gs[j] = groups[j])
        BY <2>5, <2>6
      <4>5. QED BY <2>7, <2>11, <3>1, <4>1, <4>3, <4>4
    <3>8. QED BY <3>2, <3>3, <3>4, <3>6, <3>7 DEF IInv
  <2>14. QED BY <2>12, <2>13
<1>4. QED BY <1>1, <1>2, <1>3, NothingPastTheEnd, NoUpdateStopped DEF add_group

LEMMA DelUserStep ==
  ASSUME IInv, Indexed, Indexed', NEW n \in Usernames \cup {Malformed}, del_user(n)
  PROVE  IInv'
<1>1. CASE \E code : Refuse(code) BY <1>1, RefuseStep
<1> DEFINE k   == username_to_idx[n]
           uid == users[k].uid
           vs  == RemoveAt(users, k)
           gs  == [i \in DOMAIN groups |-> remove_uid_from_group(groups[i], uid)]
<1>2. ASSUME n # Malformed, k \in DOMAIN users,
             groups' = gs, users' = vs, uid_bitmap' = del_uid(uid_bitmap, uid),
             rebuild_user_indexes,
             NEW o \in SaveOutcomes, save_User_group_manager(users', groups', o),
             UNCHANGED <<up, vacant_group, groupIndexes, gid_bitmap>>, UNCHANGED incidents
      PROVE  IInv'
  <2>1. n \in Usernames BY <1>2
  <2>2. users \in Seq(User) /\ groups \in Seq(Group) BY DEF IInv, TypeOK
  <2>3. /\ DOMAIN users = 1 .. Len(users) /\ Len(users) \in Nat
        /\ DOMAIN groups = 1 .. Len(groups) /\ Len(groups) \in Nat
    BY <2>2, LenProperties
  <2>4. k \in 1 .. Len(users) BY <1>2, <2>3
  <2> HIDE DEF k
  <2>5. vs \in Seq(User) BY <2>2, <2>4, RemoveAtProperties
  <2>6. PICK f \in [DOMAIN vs -> DOMAIN users \ {k}] :
          /\ \A i \in DOMAIN vs : vs[i] = users[f[i]]
          /\ \A i, j \in DOMAIN vs : f[i] = f[j] => i = j
          /\ \A m \in DOMAIN users \ {k} : \E i \in DOMAIN vs : f[i] = m
    BY <2>2, <2>4, RemoveAtBijection
  <2>7. \A i \in DOMAIN groups :
          /\ gs[i] \in Group /\ gs[i].groupname = groups[i].groupname
          /\ gs[i].gid = groups[i].gid /\ gs[i].members = groups[i].members \ {uid}
    BY <2>2, <2>3, ElementOfSeq, RemoveUid
  <2>8. DOMAIN gs = DOMAIN groups OBVIOUS
  <2> HIDE DEF vs, gs, uid
  <2>9. gs \in Seq(Group)
    <3>1. gs = [i \in 1 .. Len(groups) |-> gs[i]] BY <2>3, <2>8 DEF gs
    <3>2. QED BY <2>3, <2>7, <3>1, IsASeq
  <2>10. Covers(groups, gs) /\ Covers(gs, groups) BY <2>7, <2>8 DEF Covers
  <2>11. Resolves(vs, groups) /\ Resolves(vs, gs)
    <3>1. Resolves(users, groups) BY DEF IInv, GidsResolve
    <3>2. Resolves(vs, groups) BY <2>6, <3>1 DEF Resolves
    <3>3. QED BY <2>10, <3>2, ResolvesCovers
  <2>12. /\ userFile' \in Seq(User) /\ groupFile' \in Seq(GroupLine)
         /\ unsaved' \in 0 .. MaxUnsaved /\ succeeded' \in BOOLEAN
         /\ Resolves(userFile', groupFile')
         /\ o = "saved" => Covers(groupFile', gs)
         /\ o # "saved" => groupFile' = groupFile
    BY <1>2, <2>5, <2>9, <2>11, SaveEffect DEF IInv
  <2>13. Covers(groupFile', gs)
    BY <2>10, <2>12, CoversTransitive DEF IInv, GidsResolve
  <2>21. vacant_user' = <<>> /\ vacant_group' = <<>>
    BY <1>2, NothingPastTheEnd DEF rebuild_user_indexes
  <2>14. TypeOK'
    <3>1. \A i, j \in DOMAIN users : users[i].username = users[j].username => i = j
      BY DEF IInv, TypeOK
    <3>2. \A i, j \in DOMAIN groups : groups[i].groupname = groups[j].groupname => i = j
      BY DEF IInv, TypeOK
    <3>3. \A i, j \in DOMAIN vs : vs[i].username = vs[j].username => i = j
      BY <2>6, <3>1
    <3>4. \A i, j \in DOMAIN gs : gs[i].groupname = gs[j].groupname => i = j
      BY <2>7, <2>8, <3>2
    <3>5. uid_bitmap' \subseteq COMMON_UID /\ gid_bitmap' \subseteq COMMON_GID
      BY <1>2 DEF IInv, TypeOK, del_uid
    <3>6. up' \in BOOLEAN /\ incidents' \subseteq {"restart", "nomem", "unindexed"}
      BY <1>2 DEF IInv, TypeOK
    <3>7. vacant_user' \in Seq(User) /\ vacant_group' \in Seq(Group)
      BY <2>21, VacantTypes
    <3>8. QED BY <1>2, <2>5, <2>9, <2>12, <3>3, <3>4, <3>5, <3>6, <3>7 DEF TypeOK
  <2>15. IndexesExact'
    <3>1. GroupnameIndex(gs) = GroupnameIndex(groups) /\ GidIndex(gs) = GidIndex(groups)
      BY <2>7, <2>8, GroupIndexKeepsKeys
    <3>2. QED BY <1>2, <2>21, <3>1 DEF IInv, IndexesExact, rebuild_user_indexes, groupIndexes
  <2>16. GidsResolve' BY <1>2, <2>11, <2>12, <2>13 DEF GidsResolve
  <2>17. k \in DOMAIN users /\ uid = users[k].uid BY <2>3, <2>4 DEF uid
  <2>18. IdsAccounted'
    <3> SUFFICES ASSUME FreshInstall, "restart" \notin incidents'
                 PROVE  IdsAccounted!2'
      BY DEF IdsAccounted, FreshInstall
    <3>1. IdsAccounted!2 BY <1>2 DEF IInv, IdsAccounted
    <3>2. \A i, j \in DOMAIN vs : vs[i].uid = vs[j].uid => i = j BY <2>6, <3>1
    <3>3. \A i, j \in DOMAIN gs : gs[i].gid = gs[j].gid => i = j
      BY <2>7, <2>8, <3>1
    <3>4. {vs[i].uid : i \in DOMAIN vs} = {users[i].uid : i \in DOMAIN users} \ {uid}
      <4>1. \A i \in DOMAIN vs : vs[i].uid = users[f[i]].uid /\ f[i] \in DOMAIN users /\ vs[i].uid # uid
        BY <2>6, <2>17, <3>1
      <4>2. \A m \in DOMAIN users : users[m].uid # uid => \E i \in DOMAIN vs : vs[i].uid = users[m].uid
        BY <2>6, <2>17
      <4>3. QED BY <4>1, <4>2
    <3>5. uid_bitmap' = {vs[i].uid : i \in DOMAIN vs} \cap COMMON_UID
      BY <1>2, <3>1, <3>4 DEF del_uid
    <3>6. {gs[i].gid : i \in DOMAIN gs} = {groups[i].gid : i \in DOMAIN groups}
      BY <2>7, <2>8
    <3>7. gid_bitmap' = {gs[i].gid : i \in DOMAIN gs} \cap COMMON_GID
      BY <1>2, <3>1, <3>6
    <3>8. users' = vs /\ groups' = gs BY <1>2
    <3>9. QED BY <3>2, <3>3, <3>5, <3>7, <3>8
  <2>19. MembershipConsistent'
    <3> SUFFICES ASSUME FreshInstall, incidents' = {}
                 PROVE  MembershipConsistent!2'
      BY DEF MembershipConsistent, FreshInstall
    <3>1. MembershipConsistent!2 /\ IdsAccounted!2
      BY <1>2 DEF IInv, MembershipConsistent, IdsAccounted
    <3>2. ASSUME NEW j \in DOMAIN gs, NEW u \in gs[j].members
          PROVE  \E i \in DOMAIN vs : vs[i].uid = u
      <4>1. u \in groups[j].members /\ u # uid BY <2>7, <2>8, <3>2
      <4>2. PICK m \in DOMAIN users : users[m].uid = u BY <2>8, <3>1, <4>1
      <4>3. m \in DOMAIN users \ {k} BY <2>17, <4>1, <4>2
      <4>4. QED BY <2>6, <4>2, <4>3
    <3>3. ASSUME NEW i \in DOMAIN vs, NEW j \in DOMAIN gs
          PROVE  user_has_group(vs[i], gs[j].gid) <=> vs[i].uid \in gs[j].members
      <4>1. vs[i] = users[f[i]] /\ f[i] \in DOMAIN users /\ f[i] # k BY <2>6
      <4>2. vs[i].uid # uid BY <2>17, <3>1, <4>1
      <4>3. gs[j].gid = groups[j].gid /\ gs[j].members = groups[j].members \ {uid}
        BY <2>7, <2>8
      <4>4. user_has_group(users[f[i]], groups[j].gid) <=> users[f[i]].uid \in groups[j].members
        BY <2>8, <3>1, <4>1
      <4>5. QED BY <4>1, <4>2, <4>3, <4>4
    <3>4. QED BY <1>2, <3>2, <3>3
  <2>20. QED BY <2>14, <2>15, <2>16, <2>18, <2>19 DEF IInv
<1>3. QED BY <1>1, <1>2, NothingPastTheEnd, NoUpdateStopped DEF del_user, SaveDeletion

LEMMA DelGroupStep ==
  ASSUME IInv, Indexed, Indexed', NEW n \in Groupnames \cup {Malformed}, del_group(n)
  PROVE  IInv'
<1>1. CASE \E code : Refuse(code) BY <1>1, RefuseStep
<1> DEFINE k   == groupname_to_idx[n]
           gid == groups[k].gid
           vs  == [i \in DOMAIN users |-> remove_gid_from_user(users[i], gid)]
           gs  == RemoveAt(groups, k)
<1>2. ASSUME n # Malformed, k \in DOMAIN groups,
             users' = vs, groups' = gs, gid_bitmap' = del_gid(gid_bitmap, gid),
             rebuild_group_indexes,
             NEW o \in SaveOutcomes, save_User_group_manager(users', groups', o),
             UNCHANGED <<up, vacant_user, userIndexes, uid_bitmap>>, UNCHANGED incidents
      PROVE  IInv'
  <2>1. n \in Groupnames BY <1>2
  <2>2. users \in Seq(User) /\ groups \in Seq(Group) BY DEF IInv, TypeOK
  <2>3. /\ DOMAIN users = 1 .. Len(users) /\ Len(users) \in Nat
        /\ DOMAIN groups = 1 .. Len(groups) /\ Len(groups) \in Nat
    BY <2>2, LenProperties
  <2>4. k \in 1 .. Len(groups) BY <1>2, <2>3
  <2> HIDE DEF k
  <2>5. gs \in Seq(Group) BY <2>2, <2>4, RemoveAtProperties
  <2>6. PICK f \in [DOMAIN gs -> DOMAIN groups \ {k}] :
          /\ \A i \in DOMAIN gs : gs[i] = groups[f[i]]
          /\ \A i, j \in DOMAIN gs : f[i] = f[j] => i = j
          /\ \A m \in DOMAIN groups \ {k} : \E i \in DOMAIN gs : f[i] = m
    BY <2>2, <2>4, RemoveAtBijection
  <2>7. k \in DOMAIN groups /\ gid = groups[k].gid BY <2>3, <2>4
  <2> HIDE DEF gs, gid
  <2>8. Resolves(users, groups) BY DEF IInv, GidsResolve
  <2>9. \A i \in DOMAIN users :
          /\ vs[i] \in User
          /\ vs[i].username = users[i].username /\ vs[i].uid = users[i].uid
          /\ Distinct(vs[i].groups)
          /\ \A g : Contains(vs[i].groups, g) <=> Contains(users[i].groups, g) /\ g # gid
    <3> SUFFICES ASSUME NEW i \in DOMAIN users
                 PROVE  /\ vs[i] \in User
                        /\ vs[i].username = users[i].username /\ vs[i].uid = users[i].uid
                        /\ Distinct(vs[i].groups)
                        /\ \A g : Contains(vs[i].groups, g) <=> Contains(users[i].groups, g) /\ g # gid
      OBVIOUS
    <3>1. users[i] \in User BY <2>2, <2>3, ElementOfSeq
    <3>2. Distinct(users[i].groups) BY <2>8 DEF Resolves
    <3>3. vs[i] = remove_gid_from_user(users[i], gid) OBVIOUS
    <3>4. QED BY <3>1, <3>2, <3>3, RemoveGid
  <2>10. DOMAIN vs = DOMAIN users OBVIOUS
  <2> HIDE DEF vs
  <2>11. vs \in Seq(User)
    <3>1. vs = [i \in 1 .. Len(users) |-> vs[i]] BY <2>3, <2>10 DEF vs
    <3>2. QED BY <2>3, <2>9, <3>1, IsASeq
  <2>12. Covers(groups, gs) BY <2>6 DEF Covers
  <2>13. Resolves(vs, gs)
    <3>1. ASSUME NEW i \in DOMAIN vs, NEW m \in DOMAIN vs[i].groups
          PROVE  \E j \in DOMAIN gs : gs[j].gid = vs[i].groups[m]
      <4>1. Contains(vs[i].groups, vs[i].groups[m]) BY DEF Contains
      <4>2. Contains(users[i].groups, vs[i].groups[m]) /\ vs[i].groups[m] # gid
        BY <2>9, <2>10, <4>1
      <4>3. PICK l \in DOMAIN groups : groups[l].gid = vs[i].groups[m]
        BY <2>8, <2>10, <4>2 DEF Contains, Resolves
      <4>4. l \in DOMAIN groups \ {k} BY <2>7, <4>2, <4>3
      <4>5. PICK j \in DOMAIN gs : f[j] = l BY <2>6, <4>4
      <4>6. QED BY <2>6, <4>3, <4>5
    <3>2. QED BY <2>9, <2>10, <3>1 DEF Resolves
  <2>14. Resolves(vs, groups) BY <2>12, <2>13, ResolvesCovers
  <2>15. /\ userFile' \in Seq(User) /\ groupFile' \in Seq(GroupLine)
         /\ unsaved' \in 0 .. MaxUnsaved /\ succeeded' \in BOOLEAN
         /\ Resolves(userFile', groupFile')
         /\ o = "saved" => Covers(groupFile', gs)
         /\ o # "saved" => groupFile' = groupFile
    BY <1>2, <2>5, <2>11, <2>13, <2>14, SaveEffect DEF IInv
  <2>16. Covers(groupFile', gs)
    BY <2>12, <2>15, CoversTransitive DEF IInv, GidsResolve
  <2>24. vacant_user' = <<>> /\ vacant_group' = <<>>
    BY <1>2, NothingPastTheEnd DEF rebuild_group_indexes
  <2>17. TypeOK'
    <3>1. \A i, j \in DOMAIN users : users[i].username = users[j].username => i = j
      BY DEF IInv, TypeOK
    <3>2. \A i, j \in DOMAIN groups : groups[i].groupname = groups[j].groupname => i = j
      BY DEF IInv, TypeOK
    <3>3. \A i, j \in DOMAIN vs : vs[i].username = vs[j].username => i = j
      BY <2>9, <2>10, <3>1
    <3>4. \A i, j \in DOMAIN gs : gs[i].groupname = gs[j].groupname => i = j
      BY <2>6, <3>2
    <3>5. uid_bitmap' \subseteq COMMON_UID /\ gid_bitmap' \subseteq COMMON_GID
      BY <1>2 DEF IInv, TypeOK, del_gid
    <3>6. up' \in BOOLEAN /\ incidents' \subseteq {"restart", "nomem", "unindexed"}
      BY <1>2 DEF IInv, TypeOK
    <3>7. vacant_user' \in Seq(User) /\ vacant_group' \in Seq(Group)
      BY <2>24, VacantTypes
    <3>8. QED BY <1>2, <2>5, <2>11, <2>15, <3>3, <3>4, <3>5, <3>6, <3>7 DEF TypeOK
  <2>18. IndexesExact'
    <3>1. UsernameIndex(vs) = UsernameIndex(users) /\ UidIndex(vs) = UidIndex(users)
      BY <2>9, <2>10, UserIndexKeepsKeys
    <3>2. QED BY <1>2, <2>24, <3>1 DEF IInv, IndexesExact, rebuild_group_indexes, userIndexes
  <2>19. GidsResolve' BY <1>2, <2>13, <2>15, <2>16 DEF GidsResolve
  <2>20. users' = vs /\ groups' = gs BY <1>2
  <2>21. IdsAccounted'
    <3> SUFFICES ASSUME FreshInstall, "restart" \notin incidents'
                 PROVE  IdsAccounted!2'
      BY DEF IdsAccounted, FreshInstall
    <3>1. IdsAccounted!2 BY <1>2 DEF IInv, IdsAccounted
    <3>2. \A i, j \in DOMAIN vs : vs[i].uid = vs[j].uid => i = j
      BY <2>9, <2>10, <3>1
    <3>3. \A i, j \in DOMAIN gs : gs[i].gid = gs[j].gid => i = j BY <2>6, <3>1
    <3>4. {gs[i].gid : i \in DOMAIN gs} = {groups[i].gid : i \in DOMAIN groups} \ {gid}
      <4>1. \A i \in DOMAIN gs : gs[i].gid = groups[f[i]].gid /\ f[i] \in DOMAIN groups /\ gs[i].gid # gid
        BY <2>6, <2>7, <3>1
      <4>2. \A m \in DOMAIN groups : groups[m].gid # gid => \E i \in DOMAIN gs : gs[i].gid = groups[m].gid
        BY <2>6, <2>7
      <4>3. QED BY <4>1, <4>2
    <3>5. gid_bitmap' = {gs[i].gid : i \in DOMAIN gs} \cap COMMON_GID
      BY <1>2, <3>1, <3>4 DEF del_gid
    <3>6. {vs[i].uid : i \in DOMAIN vs} = {users[i].uid : i \in DOMAIN users}
      BY <2>9, <2>10
    <3>7. uid_bitmap' = {vs[i].uid : i \in DOMAIN vs} \cap COMMON_UID
      BY <1>2, <3>1, <3>6
    <3>8. QED BY <2>20, <3>2, <3>3, <3>5, <3>7
  <2>22. MembershipConsistent'
    <3> SUFFICES ASSUME FreshInstall, incidents' = {}
                 PROVE  MembershipConsistent!2'
      BY DEF MembershipConsistent, FreshInstall
    <3>1. MembershipConsistent!2 /\ IdsAccounted!2
      BY <1>2 DEF IInv, MembershipConsistent, IdsAccounted
    <3>2. \A j \in DOMAIN gs : \A u \in gs[j].members : \E i \in DOMAIN vs : vs[i].uid = u
      BY <2>6, <2>9, <2>10, <3>1
    <3>3. ASSUME NEW i \in DOMAIN vs, NEW j \in DOMAIN gs
          PROVE  user_has_group(vs[i], gs[j].gid) <=> vs[i].uid \in gs[j].members
      <4>1. gs[j] = groups[f[j]] /\ f[j] \in DOMAIN groups /\ f[j] # k BY <2>6
      <4>2. gs[j].gid # gid BY <2>7, <3>1, <4>1
      <4>3. user_has_group(vs[i], gs[j].gid) <=> user_has_group(users[i], gs[j].gid)
        BY <2>9, <2>10, <4>2 DEF user_has_group
      <4>4. user_has_group(users[i], groups[f[j]].gid) <=> users[i].uid \in groups[f[j]].members
        BY <2>10, <3>1, <4>1
      <4>5. QED BY <2>9, <2>10, <4>1, <4>3, <4>4
    <3>4. QED BY <2>20, <3>2, <3>3
  <2>23. QED BY <2>17, <2>18, <2>19, <2>21, <2>22 DEF IInv
<1>3. QED BY <1>1, <1>2, NothingPastTheEnd, NoUpdateStopped DEF del_group, SaveDeletion

(* An operation that changes records in place: no record comes or goes and *)
(* no name and no id changes.                                              *)
LEMMA InPlaceStep ==
  ASSUME IInv, Indexed, Indexed',
         users' \in Seq(User), DOMAIN users' = DOMAIN users,
         \A i \in DOMAIN users :
           users'[i].username = users[i].username /\ users'[i].uid = users[i].uid,
         groups' \in Seq(Group), DOMAIN groups' = DOMAIN groups,
         \A i \in DOMAIN groups :
           groups'[i].groupname = groups[i].groupname /\ groups'[i].gid = groups[i].gid,
         UNCHANGED <<up, vacant_user, userIndexes, uid_bitmap,
                     vacant_group, groupIndexes, gid_bitmap>>,
         incidents' \in {incidents, incidents \cup {"nomem"}},
         userFile' \in Seq(User), groupFile' \in Seq(GroupLine),
         unsaved' \in 0 .. MaxUnsaved, succeeded' \in BOOLEAN,
         Resolves(users', groups), Resolves(userFile', groupFile'),
         Covers(groupFile', groups),
         MembershipConsistent'
  PROVE  IInv'
<1>1. TypeOK'
  <2>1. \A i, j \in DOMAIN users : users[i].username = users[j].username => i = j
    BY DEF IInv, TypeOK
  <2>2. \A i, j \in DOMAIN groups : groups[i].groupname = groups[j].groupname => i = j
    BY DEF IInv, TypeOK
  <2>3. up' \in BOOLEAN /\ uid_bitmap' \subseteq COMMON_UID /\ gid_bitmap' \subseteq COMMON_GID
    BY DEF IInv, TypeOK
  <2>4. incidents' \subseteq {"restart", "nomem", "unindexed"} BY DEF IInv, TypeOK
  <2>5. vacant_user' \in Seq(User) /\ vacant_group' \in Seq(Group)
    BY DEF IInv, TypeOK
  <2>6. QED BY <2>1, <2>2, <2>3, <2>4, <2>5 DEF TypeOK
<1>2. IndexesExact'
  <2>1. UsernameIndex(users') = UsernameIndex(users) /\ UidIndex(users') = UidIndex(users)
    BY UserIndexKeepsKeys
  <2>2. GroupnameIndex(groups') = GroupnameIndex(groups) /\ GidIndex(groups') = GidIndex(groups)
    BY GroupIndexKeepsKeys
  <2>3. QED BY <2>1, <2>2 DEF IInv, IndexesExact, userIndexes, groupIndexes
<1>3. GidsResolve'
  <2>1. Covers(groups', groups) /\ Covers(groups, groups') BY DEF Covers
  <2>2. Resolves(users', groups') BY <2>1, ResolvesCovers
  <2>3. Covers(groupFile', groups') BY <2>1, CoversTransitive
  <2>4. QED BY <2>2, <2>3 DEF GidsResolve
<1>4. IdsAccounted'
  <2> SUFFICES ASSUME FreshInstall, "restart" \notin incidents'
               PROVE  IdsAccounted!2'
    BY DEF IdsAccounted, FreshInstall
  <2>1. IdsAccounted!2 BY DEF IInv, IdsAccounted
  <2>2. {users'[i].uid : i \in DOMAIN users'} = {users[i].uid : i \in DOMAIN users} OBVIOUS
  <2>3. {groups'[i].gid : i \in DOMAIN groups'} = {groups[i].gid : i \in DOMAIN groups} OBVIOUS
  <2>4. \A i, j \in DOMAIN users' : users'[i].uid = users'[j].uid => i = j BY <2>1
  <2>5. \A i, j \in DOMAIN groups' : groups'[i].gid = groups'[j].gid => i = j BY <2>1
  <2>6. QED BY <2>1, <2>2, <2>3, <2>4, <2>5
<1>5. QED BY <1>1, <1>2, <1>3, <1>4 DEF IInv

LEMMA SavedInPlace ==
  ASSUME IInv, Indexed, Indexed', NEW o \in SaveOutcomes, save_User_group_manager(users', groups', o),
         users' \in Seq(User), DOMAIN users' = DOMAIN users,
         \A i \in DOMAIN users :
           users'[i].username = users[i].username /\ users'[i].uid = users[i].uid,
         groups' \in Seq(Group), DOMAIN groups' = DOMAIN groups,
         \A i \in DOMAIN groups :
           groups'[i].groupname = groups[i].groupname /\ groups'[i].gid = groups[i].gid,
         UNCHANGED <<up, vacant_user, userIndexes, uid_bitmap,
                     vacant_group, groupIndexes, gid_bitmap, incidents>>,
         Resolves(users', groups),
         MembershipConsistent'
  PROVE  IInv'
<1>1. Covers(groups', groups) /\ Covers(groups, groups') BY DEF Covers
<1>2. Resolves(users', groups') BY <1>1, ResolvesCovers
<1>3. /\ userFile' \in Seq(User) /\ groupFile' \in Seq(GroupLine)
      /\ unsaved' \in 0 .. MaxUnsaved /\ succeeded' \in BOOLEAN
      /\ Resolves(userFile', groupFile')
      /\ o = "saved" => Covers(groupFile', groups')
      /\ o # "saved" => groupFile' = groupFile
  BY <1>2, SaveEffect DEF IInv
<1>4. Covers(groupFile', groups)
  BY <1>1, <1>3, CoversTransitive DEF IInv, GidsResolve
<1>5. QED BY <1>3, <1>4, InPlaceStep

LEMMA SaveStep ==
  ASSUME IInv, Indexed, Indexed', Save PROVE IInv'
<1>1. PICK o \in SaveOutcomes : save_User_group_manager(users, groups, o) BY DEF Save
<1>2. UNCHANGED <<up, users, groups, vacant_user, userIndexes, uid_bitmap,
                  vacant_group, groupIndexes, gid_bitmap, incidents>>
  BY DEF Save, memory, userVars, groupVars
<1>3. save_User_group_manager(users', groups', o)
  BY <1>1, <1>2 DEF save_User_group_manager
<1>4. users \in Seq(User) /\ groups \in Seq(Group) BY DEF IInv, TypeOK
<1>5. Resolves(users', groups) BY <1>2 DEF IInv, GidsResolve
<1>6. MembershipConsistent' BY <1>2 DEF IInv, MembershipConsistent
<1>7. QED BY <1>2, <1>3, <1>4, <1>5, <1>6, SavedInPlace

(* Replacing the record at one position. *)
LEMMA ReplaceElement ==
  ASSUME NEW S, NEW s \in Seq(S), NEW k \in 1 .. Len(s), NEW e \in S
  PROVE  /\ [s EXCEPT ![k] = e] \in Seq(S)
         /\ DOMAIN [s EXCEPT ![k] = e] = DOMAIN s
         /\ \A i \in DOMAIN s : [s EXCEPT ![k] = e][i] = IF i = k THEN e ELSE s[i]
<1>1. DOMAIN s = 1 .. Len(s) /\ Len(s) \in Nat BY LenProperties
<1>2. [s EXCEPT ![k] = e] \in Seq(S) BY ExceptSeq
<1>3. QED BY <1>1, <1>2

LEMMA SetPasswordStep ==
  ASSUME IInv, Indexed, Indexed', NEW n \in Usernames \cup {Malformed}, NEW old \in Passwords,
         NEW new \in Passwords \cup {Malformed},
         set_user_password(n, old, new)
  PROVE  IInv'
<1>1. CASE \E code : Refuse(code) BY <1>1, RefuseStep
<1> DEFINE k == username_to_idx[n]
           e == [users[k] EXCEPT !.password = new]
<1>2. ASSUME n # Malformed, new # Malformed, k \in DOMAIN users,
             users' = [users EXCEPT ![k].password = new],
             NEW o \in SaveOutcomes, save_User_group_manager(users', groups, o),
             UNCHANGED <<up, vacant_user, userIndexes, uid_bitmap, groupVars, incidents>>
      PROVE  IInv'
  <2>1. n \in Usernames /\ new \in Passwords BY <1>2
  <2>2. users \in Seq(User) /\ groups \in Seq(Group) BY DEF IInv, TypeOK
  <2>3. DOMAIN users = 1 .. Len(users) /\ Len(users) \in Nat BY <2>2, LenProperties
  <2>4. k \in 1 .. Len(users) BY <1>2, <2>3
  <2> HIDE DEF k
  <2>5. users[k] \in User BY <2>2, <2>4, ElementOfSeq
  <2>6. /\ e \in User /\ e.username = users[k].username /\ e.uid = users[k].uid
        /\ e.groups = users[k].groups
    BY <2>1, <2>5 DEF User
  <2>7. users' = [users EXCEPT ![k] = e] BY <1>2
  <2> HIDE DEF e
  <2>8. /\ users' \in Seq(User) /\ DOMAIN users' = DOMAIN users
        /\ \A i \in DOMAIN users : users'[i] = IF i = k THEN e ELSE users[i]
    BY <2>2, <2>4, <2>6, <2>7, ReplaceElement
  <2>9. \A i \in DOMAIN users : /\ users'[i].username = users[i].username
                                /\ users'[i].uid = users[i].uid
                                /\ users'[i].groups = users[i].groups
    BY <2>6, <2>8
  <2>10. Resolves(users', groups) BY <2>8, <2>9 DEF IInv, GidsResolve, Resolves
  <2>11. /\ groups' = groups
         /\ UNCHANGED <<up, vacant_user, userIndexes, uid_bitmap,
                        vacant_group, groupIndexes, gid_bitmap, incidents>>
    BY <1>2 DEF groupVars
  <2>12. MembershipConsistent'
    BY <2>8, <2>9, <2>11 DEF IInv, MembershipConsistent, user_has_group, FreshInstall
  <2>13. DOMAIN users' = DOMAIN users /\ DOMAIN groups' = DOMAIN groups
    BY <2>8, <2>11
  <2>14. groups' \in Seq(Group) BY <2>2, <2>11
  <2>15. \A i \in DOMAIN groups :
           groups'[i].groupname = groups[i].groupname /\ groups'[i].gid = groups[i].gid
    BY <2>11
  <2>16. users' \in Seq(User) BY <2>8
  <2>17. \A i \in DOMAIN users :
           users'[i].username = users[i].username /\ users'[i].uid = users[i].uid
    BY <2>9
  <2>18. save_User_group_manager(users', groups', o) BY <1>2, <2>11
  <2>19. QED
    BY <2>10, <2>11, <2>12, <2>13, <2>14, <2>15, <2>16, <2>17, <2>18, SavedInPlace
<1>3. QED BY <1>1, <1>2, NothingPastTheEnd DEF set_user_password

LEMMA JoinedGroups ==
  ASSUME NEW u \in User, NEW gid \in Ids, Distinct(u.groups)
  PROVE  /\ joined_groups(u, gid) \in Seq(Ids)
         /\ Distinct(joined_groups(u, gid))
         /\ \A g : Contains(joined_groups(u, gid), g) <=> Contains(u.groups, g) \/ g = gid
<1>1. u.groups \in Seq(Ids) BY DEF User
<1>2. CASE user_has_group(u, gid)
  BY <1>1, <1>2 DEF joined_groups, user_has_group
<1>3. CASE ~user_has_group(u, gid)
  <2>1. joined_groups(u, gid) = Append(u.groups, gid) BY <1>3 DEF joined_groups
  <2>2. ~Contains(u.groups, gid) BY <1>3 DEF user_has_group
  <2>3. QED BY <1>1, <2>1, <2>2, AppendElements
<1>4. QED BY <1>2, <1>3

LEMMA AddUserToGroupStep ==
  ASSUME IInv, Indexed, Indexed', NEW uid \in Ids, NEW gid \in Ids, add_user_to_group(uid, gid)
  PROVE  IInv'
<1>1. CASE \E code : Refuse(code) BY <1>1, RefuseStep
<1> DEFINE a      == uid_to_idx[uid]
           b      == gid_to_idx[gid]
           joined == joined_groups(users[a], gid)
           e      == [users[a] EXCEPT !.groups = joined]
           h      == [groups[b] EXCEPT !.members = @ \cup {uid}]
<1>2. ASSUME a # 0, b # 0,
             users' = [users EXCEPT ![a].groups = joined],
             UNCHANGED <<up, vacant_user, userIndexes, uid_bitmap,
                         vacant_group, groupIndexes, gid_bitmap>>,
             \/ /\ groups' = groups
                /\ succeeded' \in BOOLEAN
                /\ incidents' = incidents \cup {"nomem"}
                /\ UNCHANGED <<userFile, groupFile, unsaved>>
             \/ /\ groups' = [groups EXCEPT ![b].members = @ \cup {uid}]
                /\ \E o \in SaveOutcomes : save_User_group_manager(users', groups', o)
                /\ incidents' = incidents
      PROVE  IInv'
  <2>1. users \in Seq(User) /\ groups \in Seq(Group) BY DEF IInv, TypeOK
  <2>2. /\ DOMAIN users = 1 .. Len(users) /\ Len(users) \in Nat
        /\ DOMAIN groups = 1 .. Len(groups) /\ Len(groups) \in Nat
    BY <2>1, LenProperties
  <2>3. a \in 1 .. Len(users) /\ users[a].uid = uid
    BY <1>2, <2>1, UserLookup DEF IInv, IndexesExact
  <2>4. b \in 1 .. Len(groups) /\ groups[b].gid = gid
    BY <1>2, <2>1, GroupLookup DEF IInv, IndexesExact
  <2> HIDE DEF a, b
  <2>5. users[a] \in User /\ groups[b] \in Group BY <2>1, <2>3, <2>4, ElementOfSeq
  <2>6. Resolves(users, groups) BY DEF IInv, GidsResolve
  <2>7. Distinct(users[a].groups) BY <2>2, <2>3, <2>6 DEF Resolves
  <2>8. /\ joined \in Seq(Ids) /\ Distinct(joined)
        /\ \A g : Contains(joined, g) <=> Contains(users[a].groups, g) \/ g = gid
    BY <2>5, <2>7, JoinedGroups
  <2> HIDE DEF joined
  <2>9. /\ e \in User /\ e.username = users[a].username /\ e.uid = users[a].uid
        /\ e.groups = joined
    BY <2>5, <2>8 DEF User
  <2>10. /\ h \in Group /\ h.groupname = groups[b].groupname /\ h.gid = groups[b].gid
         /\ h.members = groups[b].members \cup {uid}
    BY <2>5 DEF Group
  <2>11. users' = [users EXCEPT ![a] = e] BY <1>2
  <2> HIDE DEF e, h
  <2>12. /\ users' \in Seq(User) /\ DOMAIN users' = DOMAIN users
         /\ \A i \in DOMAIN users : users'[i] = IF i = a THEN e ELSE users[i]
    BY <2>1, <2>3, <2>9, <2>11, ReplaceElement
  <2>13. \A i \in DOMAIN users :
           users'[i].username = users[i].username /\ users'[i].uid = users[i].uid
    BY <2>9, <2>12
  <2>14. Resolves(users', groups)
    <3>1. ASSUME NEW i \in DOMAIN users, NEW k \in DOMAIN users'[i].groups
          PROVE  \E j \in DOMAIN groups : groups[j].gid = users'[i].groups[k]
      <4>1. CASE i # a BY <2>6, <2>12, <3>1, <4>1 DEF Resolves
      <4>2. CASE i = a
        <5>1. Contains(joined, users'[i].groups[k])
          BY <2>9, <2>12, <3>1, <4>2 DEF Contains
        <5>2. CASE users'[i].groups[k] = gid BY <2>2, <2>4, <5>2
        <5>3. CASE Contains(users[a].groups, users'[i].groups[k])
          BY <2>6, <3>1, <4>2, <5>3 DEF Contains, Resolves
        <5>4. QED BY <2>8, <5>1, <5>2, <5>3
      <4>3. QED BY <4>1, <4>2
    <3>2. \A i \in DOMAIN users : Distinct(users'[i].groups)
      BY <2>6, <2>8, <2>9, <2>12 DEF Resolves
    <3>3. QED BY <2>12, <3>1, <3>2 DEF Resolves
  <2>15. CASE groups' = groups /\ incidents' = incidents \cup {"nomem"}
              /\ succeeded' \in BOOLEAN /\ UNCHANGED <<userFile, groupFile, unsaved>>
    <3>1. MembershipConsistent' BY <2>15 DEF MembershipConsistent
    <3>2. /\ userFile' \in Seq(User) /\ groupFile' \in Seq(GroupLine)
          /\ unsaved' \in 0 .. MaxUnsaved
      BY <2>15 DEF IInv, TypeOK
    <3>3. Resolves(userFile', groupFile') /\ Covers(groupFile', groups)
      BY <2>15 DEF IInv, GidsResolve
    <3>4. /\ groups' \in Seq(Group) /\ DOMAIN groups' = DOMAIN groups
          /\ \A i \in DOMAIN groups :
               groups'[i].groupname = groups[i].groupname /\ groups'[i].gid = groups[i].gid
      BY <2>1, <2>15
    <3>5. QED BY <1>2, <2>12, <2>13, <2>14, <2>15, <3>1, <3>2, <3>3, <3>4, InPlaceStep
  <2>16. ASSUME groups' = [groups EXCEPT ![b].members = @ \cup {uid}],
                NEW o \in SaveOutcomes, save_User_group_manager(users', groups', o),
                incidents' = incidents
         PROVE  IInv'
    <3>1. groups' = [groups EXCEPT ![b] = h] BY <2>16 DEF h
    <3>2. /\ groups' \in Seq(Group) /\ DOMAIN groups' = DOMAIN groups
          /\ \A j \in DOMAIN groups : groups'[j] = IF j = b THEN h ELSE groups[j]
      BY <2>1, <2>4, <2>10, <3>1, ReplaceElement
    <3>3. \A j \in DOMAIN groups :
            groups'[j].groupname = groups[j].groupname /\ groups'[j].gid = groups[j].gid
      BY <2>10, <3>2
    <3>4. MembershipConsistent'
      <4> SUFFICES ASSUME FreshInstall, incidents' = {}
                   PROVE  MembershipConsistent!2'
        BY DEF MembershipConsistent, FreshInstall
      <4>1. MembershipConsistent!2 /\ IdsAccounted!2
        BY <2>16 DEF IInv, MembershipConsistent, IdsAccounted
      <4>2. ASSUME NEW j \in DOMAIN groups, NEW u \in groups'[j].members
            PROVE  \E i \in DOMAIN users : users'[i].uid = u
        BY <2>2, <2>3, <2>10, <2>13, <3>2, <4>1, <4>2
      <4>3. ASSUME NEW i \in DOMAIN users, NEW j \in DOMAIN groups
            PROVE  user_has_group(users'[i], groups'[j].gid) <=> users'[i].uid \in groups'[j].members
        <5>1. user_has_group(users[i], groups[j].gid) <=> users[i].uid \in groups[j].members
          BY <4>1
        <5>2. i # a => users[i].uid # uid BY <2>2, <2>3, <4>1
        <5>3. j # b => groups[j].gid # gid BY <2>2, <2>4, <4>1
        <5>4. CASE i # a BY <2>10, <2>12, <2>13, <3>2, <3>3, <5>1, <5>2, <5>4
        <5>5. CASE i = a
          <6>1. user_has_group(users'[i], groups[j].gid)
                  <=> user_has_group(users[i], groups[j].gid) \/ j = b
            BY <2>4, <2>8, <2>9, <2>12, <5>3, <5>5 DEF user_has_group
          <6>2. users[i].uid \in groups'[j].members
                  <=> users[i].uid \in groups[j].members \/ j = b
            BY <2>3, <2>10, <3>2, <5>5
          <6>3. QED BY <2>13, <3>3, <5>1, <6>1, <6>2
        <5>6. QED BY <5>4, <5>5
      <4>4. QED BY <2>12, <3>2, <4>2, <4>3
    <3>5. QED BY <1>2, <2>12, <2>13, <2>14, <2>16, <3>2, <3>3, <3>4, SavedInPlace
  <2>17. QED BY <1>2, <2>15, <2>16
<1>3. QED BY <1>1, <1>2 DEF add_user_to_group, Return, groupVars, userIndexes, groupIndexes, files

LEMMA DelUserFromGroupStep ==
  ASSUME IInv, Indexed, Indexed', NEW uid \in Ids, NEW gid \in Ids, del_user_from_group(uid, gid)
  PROVE  IInv'
<1>1. CASE \E code : Refuse(code) BY <1>1, RefuseStep
<1> DEFINE a == uid_to_idx[uid]
           b == gid_to_idx[gid]
           e == remove_gid_from_user(users[a], gid)
           h == remove_uid_from_group(groups[b], uid)
<1>2. ASSUME a # 0, b # 0,
             users' = [users EXCEPT ![a] = e], groups' = [groups EXCEPT ![b] = h],
             NEW o \in SaveOutcomes, save_User_group_manager(users', groups', o),
             UNCHANGED <<up, vacant_user, userIndexes, uid_bitmap,
                         vacant_group, groupIndexes, gid_bitmap, incidents>>
      PROVE  IInv'
  <2>1. users \in Seq(User) /\ groups \in Seq(Group) BY DEF IInv, TypeOK
  <2>2. /\ DOMAIN users = 1 .. Len(users) /\ Len(users) \in Nat
        /\ DOMAIN groups = 1 .. Len(groups) /\ Len(groups) \in Nat
    BY <2>1, LenProperties
  <2>3. a \in 1 .. Len(users) /\ users[a].uid = uid
    BY <1>2, <2>1, UserLookup DEF IInv, IndexesExact
  <2>4. b \in 1 .. Len(groups) /\ groups[b].gid = gid
    BY <1>2, <2>1, GroupLookup DEF IInv, IndexesExact
  <2> HIDE DEF a, b
  <2>5. users[a] \in User /\ groups[b] \in Group BY <2>1, <2>3, <2>4, ElementOfSeq
  <2>6. Resolves(users, groups) BY DEF IInv, GidsResolve
  <2>7. Distinct(users[a].groups) BY <2>2, <2>3, <2>6 DEF Resolves
  <2>8. /\ e \in User /\ e.username = users[a].username /\ e.uid = users[a].uid
        /\ Distinct(e.groups)
        /\ \A g : Contains(e.groups, g) <=> Contains(users[a].groups, g) /\ g # gid
    BY <2>5, <2>7, RemoveGid
  <2>9. /\ h \in Group /\ h.groupname = groups[b].groupname /\ h.gid = groups[b].gid
        /\ h.members = groups[b].members \ {uid}
    BY <2>5, RemoveUid
  <2> HIDE DEF e, h
  <2>10. /\ users' \in Seq(User) /\ DOMAIN users' = DOMAIN users
         /\ \A i \in DOMAIN users : users'[i] = IF i = a THEN e ELSE users[i]
    BY <1>2, <2>1, <2>3, <2>8, ReplaceElement
  <2>11. /\ groups' \in Seq(Group) /\ DOMAIN groups' = DOMAIN groups
         /\ \A j \in DOMAIN groups : groups'[j] = IF j = b THEN h ELSE groups[j]
    BY <1>2, <2>1, <2>4, <2>9, ReplaceElement
  <2>12. \A i \in DOMAIN users :
           users'[i].username = users[i].username /\ users'[i].uid = users[i].uid
    BY <2>8, <2>10
  <2>13. \A j \in DOMAIN groups :
           groups'[j].groupname = groups[j].groupname /\ groups'[j].gid = groups[j].gid
    BY <2>9, <2>11
  <2>14. Resolves(users', groups)
    <3>1. ASSUME NEW i \in DOMAIN users, NEW k \in DOMAIN users'[i].groups
          PROVE  \E j \in DOMAIN groups : groups[j].gid = users'[i].groups[k]
      <4>1. CASE i # a BY <2>6, <2>10, <3>1, <4>1 DEF Resolves
      <4>2. CASE i = a
        <5>1. Contains(users[a].groups, users'[i].groups[k])
          BY <2>8, <2>10, <3>1, <4>2 DEF Contains
        <5>2. QED BY <2>6, <3>1, <4>2, <5>1 DEF Contains, Resolves
      <4>3. QED BY <4>1, <4>2
    <3>2. \A i \in DOMAIN users : Distinct(users'[i].groups)
      BY <2>6, <2>8, <2>10 DEF Resolves
    <3>3. QED BY <2>10, <3>1, <3>2 DEF Resolves
  <2>15. MembershipConsistent'
    <3> SUFFICES ASSUME FreshInstall, incidents' = {}
                 PROVE  MembershipConsistent!2'
      BY DEF MembershipConsistent, FreshInstall
    <3>1. MembershipConsistent!2 /\ IdsAccounted!2
      BY <1>2 DEF IInv, MembershipConsistent, IdsAccounted
    <3>2. \A j \in DOMAIN groups : \A u \in groups'[j].members :
            \E i \in DOMAIN users : users'[i].uid = u
      BY <2>9, <2>11, <2>12, <3>1
    <3>3. ASSUME NEW i \in DOMAIN users, NEW j \in DOMAIN groups
          PROVE  user_has_group(users'[i], groups'[j].gid) <=> users'[i].uid \in groups'[j].members
      <4>1. user_has_group(users[i], groups[j].gid) <=> users[i].uid \in groups[j].members
        BY <3>1
      <4>2. i # a => users[i].uid # uid BY <2>2, <2>3, <3>1
      <4>3. j # b => groups[j].gid # gid BY <2>2, <2>4, <3>1
      <4>4. CASE i # a BY <2>9, <2>10, <2>11, <2>12, <2>13, <4>1, <4>2, <4>4
      <4>5. CASE i = a
        <5>1. user_has_group(users'[i], groups[j].gid)
                <=> user_has_group(users[i], groups[j].gid) /\ j # b
          BY <2>4, <2>8, <2>10, <4>3, <4>5 DEF user_has_group
        <5>2. users[i].uid \in groups'[j].members
                <=> users[i].uid \in groups[j].members /\ j # b
          BY <2>3, <2>9, <2>11, <4>5
        <5>3. QED BY <2>12, <2>13, <4>1, <5>1, <5>2
      <4>6. QED BY <4>4, <4>5
    <3>4. QED BY <2>10, <2>11, <3>2, <3>3
  <2>16. QED BY <1>2, <2>10, <2>11, <2>12, <2>13, <2>14, <2>15, SavedInPlace
<1>3. QED BY <1>1, <1>2 DEF del_user_from_group

LEMMA StopStep ==
  ASSUME IInv, Indexed, Indexed', Stop PROVE IInv'
<1> USE DEF Stop, Ended, rebuild_user_indexes, rebuild_group_indexes
<1>1. TypeOK'
  <2>1. /\ users' \in Seq(User) /\ groups' \in Seq(Group)
        /\ vacant_user' \in Seq(User) /\ vacant_group' \in Seq(Group)
    BY EmptySeq
  <2>2. DOMAIN users' = {} /\ DOMAIN groups' = {} OBVIOUS
  <2>3. unsaved' \in 0 .. MaxUnsaved BY ConstantAssumption
  <2>4. QED BY <2>1, <2>2, <2>3 DEF Return, NoneAllocated, IInv, TypeOK, files
<1>2. IndexesExact' BY DEF IndexesExact
<1>3. GidsResolve'
  <2>1. DOMAIN users' = {} /\ DOMAIN groups' = {} OBVIOUS
  <2>2. QED BY <2>1 DEF files, IInv, GidsResolve, Resolves, Covers
<1>4. IdsAccounted' /\ MembershipConsistent' BY DEF IdsAccounted, MembershipConsistent
<1>5. QED BY <1>1, <1>2, <1>3, <1>4 DEF IInv

-----------------------------------------------------------------------------
(* Loading *)

(* Whatever is in the files, what is loaded has its type. *)
LEMMA LoadedTypes ==
  ASSUME NEW uf \in Seq(User), NEW gf \in Seq(GroupLine)
  PROVE  LoadedUsers(uf) \in Seq(User) /\ LoadedGroups(uf, gf) \in Seq(Group)
<1> DEFINE us == LoadedUsers(uf)
           gs == LoadedGroups(uf, gf)
<1>1. /\ DOMAIN uf = 1 .. Len(uf) /\ Len(uf) \in Nat
      /\ DOMAIN gf = 1 .. Len(gf) /\ Len(gf) \in Nat
  BY LenProperties
<1>2. DOMAIN us = DOMAIN uf /\ DOMAIN gs = DOMAIN gf BY DEF LoadedUsers, LoadedGroups
<1>3. \A i \in DOMAIN uf : us[i] \in User
  <2> SUFFICES ASSUME NEW i \in DOMAIN uf PROVE us[i] \in User OBVIOUS
  <2> DEFINE t == Truncated(uf[i].groups, MaxGidTokens)
  <2>1. uf[i] \in User BY <1>1, ElementOfSeq
  <2>2. uf[i].groups \in Seq(Ids) BY <2>1 DEF User
  <2>3. t \in Seq(Ids) BY <2>2, ConstantAssumption, TruncatedProperties
  <2>4. us[i] = [uf[i] EXCEPT !.groups = t] BY DEF LoadedUsers
  <2> HIDE DEF t, us
  <2>5. QED BY <2>1, <2>3, <2>4 DEF User
<1>4. us \in Seq(User)
  <2>1. us = [i \in 1 .. Len(uf) |-> us[i]] BY <1>1, <1>2 DEF LoadedUsers
  <2> HIDE DEF us
  <2>2. QED BY <1>1, <1>3, <2>1, IsASeq
<1>5. gs \in Seq(Group)
  <2>1. gs = [j \in 1 .. Len(gf) |-> gs[j]] BY <1>1, <1>2 DEF LoadedGroups
  <2>2. \A j \in DOMAIN gf : gs[j] \in Group
    <3> SUFFICES ASSUME NEW j \in DOMAIN gf PROVE gs[j] \in Group OBVIOUS
    <3>1. gf[j] \in GroupLine BY <1>1, ElementOfSeq
    <3> DEFINE M == {us[k].uid : k \in {l \in DOMAIN us : user_has_group(us[l], gf[j].gid)}}
    <3>2. M \subseteq Ids
      <4>1. \A k \in DOMAIN us : us[k].uid \in Ids BY <1>2, <1>3 DEF User
      <4> HIDE DEF us
      <4>2. QED BY <4>1
    <3>3. gs[j] = [groupname |-> gf[j].groupname, gid |-> gf[j].gid, members |-> M]
      BY DEF LoadedGroups
    <3> HIDE DEF M, gs
    <3>4. QED BY <3>1, <3>2, <3>3 DEF Group, GroupLine
  <2> HIDE DEF gs
  <2>3. QED BY <1>1, <2>1, <2>2, IsASeq
<1>6. QED BY <1>4, <1>5

(* What init_User_group_manager makes of two files it accepts. *)
LEMMA Loading ==
  ASSUME NEW uf \in Seq(User), NEW gf \in Seq(GroupLine),
         Loadable(uf, gf), Resolves(uf, gf)
  PROVE  LET us == LoadedUsers(uf)
             gs == LoadedGroups(uf, gf)
         IN /\ us \in Seq(User) /\ gs \in Seq(Group)
            /\ DOMAIN us = DOMAIN uf /\ DOMAIN gs = DOMAIN gf
            /\ \A i \in DOMAIN us : us[i].username = uf[i].username /\ us[i].uid = uf[i].uid
            /\ \A j \in DOMAIN gs : gs[j].groupname = gf[j].groupname /\ gs[j].gid = gf[j].gid
            /\ \A i, j \in DOMAIN us :
                 us[i].uid = us[j].uid \/ us[i].username = us[j].username => i = j
            /\ \A i, j \in DOMAIN gs :
                 gs[i].gid = gs[j].gid \/ gs[i].groupname = gs[j].groupname => i = j
            /\ \A j \in DOMAIN gs : \A u \in gs[j].members : \E i \in DOMAIN us : us[i].uid = u
            /\ \A i \in DOMAIN us, j \in DOMAIN gs :
                 user_has_group(us[i], gs[j].gid) <=> us[i].uid \in gs[j].members
            /\ Resolves(us, gs) /\ Covers(gf, gs)
<1> DEFINE us == LoadedUsers(uf)
           gs == LoadedGroups(uf, gf)
<1>1. /\ DOMAIN uf = 1 .. Len(uf) /\ Len(uf) \in Nat
      /\ DOMAIN gf = 1 .. Len(gf) /\ Len(gf) \in Nat
  BY LenProperties
<1>2. DOMAIN us = DOMAIN uf /\ DOMAIN gs = DOMAIN gf BY DEF LoadedUsers, LoadedGroups
<1>3. \A i \in DOMAIN uf :
        /\ us[i] \in User
        /\ us[i].username = uf[i].username /\ us[i].uid = uf[i].uid
        /\ Distinct(us[i].groups)
        /\ \A g : Contains(us[i].groups, g) => Contains(uf[i].groups, g)
  <2> SUFFICES ASSUME NEW i \in DOMAIN uf
               PROVE  /\ us[i] \in User
                      /\ us[i].username = uf[i].username /\ us[i].uid = uf[i].uid
                      /\ Distinct(us[i].groups)
                      /\ \A g : Contains(us[i].groups, g) => Contains(uf[i].groups, g)
    OBVIOUS
  <2> DEFINE t == Truncated(uf[i].groups, MaxGidTokens)
  <2>1. uf[i] \in User BY <1>1, ElementOfSeq
  <2>2. uf[i].groups \in Seq(Ids) BY <2>1 DEF User
  <2>3. Distinct(uf[i].groups) BY DEF Resolves
  <2>4. /\ t \in Seq(Ids) /\ Distinct(t)
        /\ \A g : Contains(t, g) => Contains(uf[i].groups, g)
    BY <2>2, <2>3, ConstantAssumption, TruncatedProperties
  <2>5. us[i] = [uf[i] EXCEPT !.groups = t] BY DEF LoadedUsers
  <2> HIDE DEF t, us
  <2>6. QED BY <2>1, <2>4, <2>5 DEF User
<1>4. \A j \in DOMAIN gf :
        /\ gs[j].groupname = gf[j].groupname /\ gs[j].gid = gf[j].gid
        /\ gs[j].members = {us[k].uid : k \in {l \in DOMAIN us : user_has_group(us[l], gf[j].gid)}}
  BY DEF LoadedGroups
<1>5. us \in Seq(User) /\ gs \in Seq(Group) BY LoadedTypes
<1> HIDE DEF us, gs
<1>7. \A i, j \in DOMAIN us :
        us[i].uid = us[j].uid \/ us[i].username = us[j].username => i = j
  BY <1>2, <1>3 DEF Loadable
<1>8. \A i, j \in DOMAIN gs :
        gs[i].gid = gs[j].gid \/ gs[i].groupname = gs[j].groupname => i = j
  BY <1>2, <1>4 DEF Loadable
<1>9. \A j \in DOMAIN gs : \A u \in gs[j].members : \E i \in DOMAIN us : us[i].uid = u
  BY <1>2, <1>4
<1>10. \A i \in DOMAIN us, j \in DOMAIN gs :
         user_has_group(us[i], gs[j].gid) <=> us[i].uid \in gs[j].members
  BY <1>2, <1>4, <1>7
<1>11. Resolves(us, gs)
  <2>1. ASSUME NEW i \in DOMAIN us, NEW k \in DOMAIN us[i].groups
        PROVE  \E j \in DOMAIN gs : gs[j].gid = us[i].groups[k]
    <3>1. Contains(us[i].groups, us[i].groups[k]) BY DEF Contains
    <3>2. Contains(uf[i].groups, us[i].groups[k]) BY <1>2, <1>3, <3>1
    <3>3. \E j \in DOMAIN gf : gf[j].gid = us[i].groups[k]
      BY <1>2, <3>2 DEF Contains, Resolves
    <3>4. QED BY <1>2, <1>4, <3>3
  <2>2. QED BY <1>2, <1>3, <2>1 DEF Resolves
<1>12. Covers(gf, gs) BY <1>2, <1>4 DEF Covers
<1>13. QED
  BY <1>2, <1>3, <1>4, <1>5, <1>7, <1>8, <1>9, <1>10, <1>11, <1>12 DEF us, gs

(* A process that is down has been stopped: part of the invariant that     *)
(* only a start needs.                                                     *)
DownAfterRestart == ~up => "restart" \in incidents

LEMMA InitStep ==
  ASSUME IInv, Indexed, Indexed', DownAfterRestart, init_User_group_manager
  PROVE  IInv'
<1>1. CASE \E code : Refuse(code) BY <1>1, RefuseStep
<1>2. ASSUME ~up, Loadable(userFile, groupFile), up' = TRUE,
             users' = LoadedUsers(userFile),
             groups' = LoadedGroups(userFile, groupFile),
             rebuild_user_indexes, rebuild_group_indexes, succeeded' \in BOOLEAN,
             UNCHANGED <<uid_bitmap, gid_bitmap, files, unsaved, incidents>>
      PROVE  IInv'
  <2>1. userFile \in Seq(User) /\ groupFile \in Seq(GroupLine) BY DEF IInv, TypeOK
  <2>2. Resolves(userFile, groupFile) BY DEF IInv, GidsResolve
  <2>3. /\ users' \in Seq(User) /\ groups' \in Seq(Group)
        /\ \A i, j \in DOMAIN users' : users'[i].username = users'[j].username => i = j
        /\ \A i, j \in DOMAIN groups' : groups'[i].groupname = groups'[j].groupname => i = j
        /\ Resolves(users', groups') /\ Covers(groupFile, groups')
    BY <1>2, <2>1, <2>2, Loading
  <2>4. "restart" \in incidents' BY <1>2 DEF DownAfterRestart
  <2>10. vacant_user' = <<>> /\ vacant_group' = <<>>
    BY <1>2 DEF rebuild_user_indexes, rebuild_group_indexes
  <2>11. vacant_user' \in Seq(User) /\ vacant_group' \in Seq(Group)
    BY <2>10, VacantTypes
  <2>5. TypeOK' BY <1>2, <2>1, <2>3, <2>11 DEF IInv, TypeOK, files
  <2>6. IndexesExact'
    BY <1>2 DEF IndexesExact, rebuild_user_indexes, rebuild_group_indexes
  <2>7. GidsResolve' BY <1>2, <2>2, <2>3 DEF GidsResolve, files
  <2>8. IdsAccounted' /\ MembershipConsistent'
    BY <2>4 DEF IdsAccounted, MembershipConsistent
  <2>9. QED BY <2>5, <2>6, <2>7, <2>8 DEF IInv
<1>3. QED BY <1>1, <1>2 DEF init_User_group_manager, Return

-----------------------------------------------------------------------------
(* After an index update that ran out of memory the types are kept         *)

FileTypes ==
  /\ userFile \in Seq(User) /\ groupFile \in Seq(GroupLine)
  /\ unsaved \in 0 .. MaxUnsaved /\ succeeded \in BOOLEAN
UserTypes ==
  users \in Seq(User) /\ vacant_user \in Seq(User) /\ uid_bitmap \subseteq COMMON_UID
GroupTypes ==
  groups \in Seq(Group) /\ vacant_group \in Seq(Group) /\ gid_bitmap \subseteq COMMON_GID
Incidents == SUBSET {"restart", "nomem", "unindexed"}

LEMMA SaveTypes ==
  ASSUME TypeOK, NEW us \in Seq(User), NEW gs \in Seq(Group),
         \E o \in SaveOutcomes : save_User_group_manager(us, gs, o)
  PROVE  FileTypes'
BY SaveEffect DEF FileTypes

(* A record past the end that is overwritten keeps its type. *)
LEMMA OverwrittenTypes ==
  ASSUME NEW S, NEW s \in Seq(S), NEW r, DOMAIN r = DOMAIN s,
         r = [i \in DOMAIN s |-> r[i]], \A i \in DOMAIN s : r[i] \in S
  PROVE  r \in Seq(S)
<1>1. DOMAIN s = 1 .. Len(s) /\ Len(s) \in Nat BY LenProperties
<1>2. r = [i \in 1 .. Len(s) |-> r[i]] BY <1>1
<1>3. QED BY <1>1, <1>2, IsASeq

LEMMA RefusalTypes ==
  ASSUME TypeOK, NEW code, Refuse(code)
  PROVE  FileTypes' /\ UserTypes' /\ GroupTypes' /\ up' \in BOOLEAN /\ incidents' \in Incidents
BY DEF Refuse, Return, TypeOK, FileTypes, UserTypes, GroupTypes, Incidents,
       memory, userVars, groupVars, files

LEMMA AddUserTypes ==
  ASSUME TypeOK, NEW n \in Usernames \cup {Malformed}, NEW p \in Passwords \cup {Malformed},
         add_user(n, p)
  PROVE  FileTypes' /\ UserTypes' /\ GroupTypes' /\ up' \in BOOLEAN /\ incidents' \in Incidents
<1> DEFINE uid == get_uid(uid_bitmap)
           u   == [username |-> n, uid |-> uid, groups |-> <<>>, password |-> p]
           us  == Append(users, u)
<1>1. CASE \E code : Refuse(code) BY <1>1, RefusalTypes
<1>2. ASSUME n # Malformed, p # Malformed, uid # merr
      PROVE  /\ u \in User /\ us \in Seq(User) /\ <<u>> \in Seq(User)
             /\ Overwritten(u) \in Seq(User) /\ HalfOverwritten(u) \in Seq(User)
             /\ uid_bitmap \cup {uid} \subseteq COMMON_UID
             /\ del_uid(uid_bitmap \cup {uid}, uid) \subseteq COMMON_UID
  <2>1. uid \in COMMON_UID \ uid_bitmap /\ uid \in Ids BY <1>2, NewUid
  <2>2. n \in Usernames /\ p \in Passwords BY <1>2
  <2>3. u \in User BY <2>1, <2>2, EmptySeq DEF User
  <2> HIDE DEF u, uid
  <2>4. us \in Seq(User) BY <2>3, AppendElements DEF TypeOK
  <2>5. <<u>> \in Seq(User) BY <2>3
  <2>6. vacant_user \in Seq(User) BY DEF TypeOK
  <2>7. DOMAIN vacant_user = 1 .. Len(vacant_user) BY <2>6, LenProperties
  <2>8. Overwritten(u) \in Seq(User) BY <2>3, <2>6, OverwrittenTypes DEF Overwritten
  <2>9. HalfOverwritten(u) \in Seq(User)
    <3>1. \A i \in DOMAIN vacant_user : vacant_user[i] \in User BY <2>6, <2>7, ElementOfSeq
    <3>2. \A i \in DOMAIN vacant_user : HalfOverwritten(u)[i] \in User
      BY <2>3, <3>1 DEF HalfOverwritten, User
    <3>3. DOMAIN HalfOverwritten(u) = DOMAIN vacant_user BY DEF HalfOverwritten
    <3>4. HalfOverwritten(u) = [i \in DOMAIN vacant_user |-> HalfOverwritten(u)[i]]
      BY DEF HalfOverwritten
    <3>5. QED BY <2>6, <3>2, <3>3, <3>4, OverwrittenTypes
  <2>10. uid_bitmap \subseteq COMMON_UID BY DEF TypeOK
  <2>11. QED BY <2>1, <2>3, <2>4, <2>5, <2>8, <2>9, <2>10 DEF del_uid
<1>3. TypeOK => /\ UserTypes /\ GroupTypes /\ up \in BOOLEAN /\ incidents \in Incidents
                /\ users \in Seq(User) /\ groups \in Seq(Group)
                /\ (UNCHANGED <<files, unsaved>> /\ succeeded' \in BOOLEAN => FileTypes')
                /\ (UNCHANGED groupVars => GroupTypes')
  BY DEF TypeOK, FileTypes, UserTypes, GroupTypes, Incidents, files, groupVars
<1> HIDE DEF u, uid, us
<1>4. ASSUME NEW code, uid # merr, add_user_gives_up(uid, code), n # Malformed, p # Malformed,
             vacant_user' \in {vacant_user, Overwritten(u), HalfOverwritten(u)}
      PROVE  FileTypes' /\ UserTypes' /\ GroupTypes' /\ up' \in BOOLEAN /\ incidents' \in Incidents
  BY <1>2, <1>3, <1>4 DEF add_user_gives_up, Return, UserTypes
<1>5. ASSUME uid # merr, add_user_unindexed(u), n # Malformed, p # Malformed, u.uid = uid
      PROVE  FileTypes' /\ UserTypes' /\ GroupTypes' /\ up' \in BOOLEAN /\ incidents' \in Incidents
  BY <1>2, <1>3, <1>5 DEF add_user_unindexed, Unindexed, Return, UserTypes, Incidents
<1>6. ASSUME uid # merr, n # Malformed, p # Malformed,
             \E o \in SaveOutcomes : save_User_group_manager(us, groups, o),
             users' \in {users, us}, vacant_user' = <<>>,
             uid_bitmap' \in {uid_bitmap \cup {uid}, del_uid(uid_bitmap \cup {uid}, uid)},
             incidents' = incidents \/ Unindexed,
             UNCHANGED <<up, groupVars>>
      PROVE  FileTypes' /\ UserTypes' /\ GroupTypes' /\ up' \in BOOLEAN /\ incidents' \in Incidents
  <2>1. FileTypes' BY <1>2, <1>3, <1>6, SaveTypes
  <2>2. UserTypes' BY <1>2, <1>3, <1>6, EmptySeq DEF UserTypes
  <2>3. QED BY <1>3, <1>6, <2>1, <2>2 DEF Unindexed, Incidents
<1>7. u.uid = uid BY DEF u
<1>8. QED
  BY <1>1, <1>4, <1>5, <1>6, <1>7
  DEF add_user, rebuild_user_indexes, rebuild_user_indexes_stops, update_user_index, u, us, uid

LEMMA AddGroupTypes ==
  ASSUME TypeOK, NEW n \in Groupnames \cup {Malformed}, add_group(n)
  PROVE  FileTypes' /\ UserTypes' /\ GroupTypes' /\ up' \in BOOLEAN /\ incidents' \in Incidents
<1> DEFINE gid == get_gid(gid_bitmap)
           g   == [groupname |-> n, gid |-> gid, members |-> {}]
           gs  == Append(groups, g)
           past == [i \in DOMAIN vacant_group |-> g]
<1>1. CASE \E code : Refuse(code) BY <1>1, RefusalTypes
<1>2. ASSUME n # Malformed, gid # merr
      PROVE  /\ g \in Group /\ gs \in Seq(Group) /\ <<g>> \in Seq(Group)
             /\ past \in Seq(Group)
             /\ gid_bitmap \cup {gid} \subseteq COMMON_GID
             /\ del_gid(gid_bitmap \cup {gid}, gid) \subseteq COMMON_GID
  <2>1. gid \in COMMON_GID \ gid_bitmap /\ gid \in Ids BY <1>2, NewGid
  <2>2. n \in Groupnames BY <1>2
  <2>3. g \in Group BY <2>1, <2>2 DEF Group
  <2> HIDE DEF g, gid
  <2>4. gs \in Seq(Group) BY <2>3, AppendElements DEF TypeOK
  <2>5. <<g>> \in Seq(Group) BY <2>3
  <2>6. vacant_group \in Seq(Group) BY DEF TypeOK
  <2>7. past \in Seq(Group) BY <2>3, <2>6, OverwrittenTypes
  <2>8. gid_bitmap \subseteq COMMON_GID BY DEF TypeOK
  <2>9. QED BY <2>1, <2>3, <2>4, <2>5, <2>7, <2>8 DEF del_gid
<1>3. TypeOK => /\ UserTypes /\ GroupTypes /\ up \in BOOLEAN /\ incidents \in Incidents
                /\ users \in Seq(User) /\ groups \in Seq(Group)
                /\ (UNCHANGED <<files, unsaved>> /\ succeeded' \in BOOLEAN => FileTypes')
                /\ (UNCHANGED userVars => UserTypes')
  BY DEF TypeOK, FileTypes, UserTypes, GroupTypes, Incidents, files, userVars
<1> HIDE DEF g, gid, gs, past
<1>4. ASSUME NEW code, gid # merr, add_group_gives_up(gid, code), n # Malformed,
             vacant_group' \in {vacant_group, past}
      PROVE  FileTypes' /\ UserTypes' /\ GroupTypes' /\ up' \in BOOLEAN /\ incidents' \in Incidents
  BY <1>2, <1>3, <1>4 DEF add_group_gives_up, Return, GroupTypes
<1>5. ASSUME gid # merr, add_group_unindexed(g), n # Malformed, g.gid = gid
      PROVE  FileTypes' /\ UserTypes' /\ GroupTypes' /\ up' \in BOOLEAN /\ incidents' \in Incidents
  BY <1>2, <1>3, <1>5 DEF add_group_unindexed, Unindexed, Return, GroupTypes, Incidents
<1>6. ASSUME gid # merr, n # Malformed,
             \E o \in SaveOutcomes : save_User_group_manager(users, gs, o),
             groups' \in {groups, gs}, vacant_group' = <<>>,
             gid_bitmap' \in {gid_bitmap \cup {gid}, del_gid(gid_bitmap \cup {gid}, gid)},
             incidents' = incidents \/ Unindexed,
             UNCHANGED <<up, userVars>>
      PROVE  FileTypes' /\ UserTypes' /\ GroupTypes' /\ up' \in BOOLEAN /\ incidents' \in Incidents
  <2>1. FileTypes' BY <1>2, <1>3, <1>6, SaveTypes
  <2>2. GroupTypes' BY <1>2, <1>3, <1>6, EmptySeq DEF GroupTypes
  <2>3. QED BY <1>3, <1>6, <2>1, <2>2 DEF Unindexed, Incidents
<1>7. g.gid = gid BY DEF g
<1>8. QED
  BY <1>1, <1>4, <1>5, <1>6, <1>7
  DEF add_group, rebuild_group_indexes, rebuild_group_indexes_stops, update_group_index,
      g, gs, gid, past

LEMMA EndTypes ==
  ASSUME TypeOK, Ended, uid_bitmap' \in {uid_bitmap, NoneAllocated},
         gid_bitmap' \in {gid_bitmap, NoneAllocated}
  PROVE  FileTypes' /\ UserTypes' /\ GroupTypes' /\ up' \in BOOLEAN /\ incidents' \in Incidents
<1> USE DEF Ended, rebuild_user_indexes, rebuild_group_indexes
<1>1. /\ users' \in Seq(User) /\ groups' \in Seq(Group)
      /\ vacant_user' \in Seq(User) /\ vacant_group' \in Seq(Group)
  BY EmptySeq
<1>2. FileTypes' BY ConstantAssumption DEF FileTypes, TypeOK, files, Return
<1>3. QED BY <1>1, <1>2 DEF UserTypes, GroupTypes, TypeOK, NoneAllocated, Incidents

(* What the end of a deletion does to the types. *)
LEMMA DeletionTypes ==
  ASSUME TypeOK, users' \in Seq(User), groups' \in Seq(Group), UNCHANGED up,
         uid_bitmap' \subseteq uid_bitmap, gid_bitmap' \subseteq gid_bitmap,
         vacant_user' \in {vacant_user, <<>>}, vacant_group' \in {vacant_group, <<>>},
         \/ /\ \E o \in SaveOutcomes : save_User_group_manager(users', groups', o)
            /\ UNCHANGED incidents
         \/ /\ Unindexed /\ succeeded' \in BOOLEAN
            /\ UNCHANGED <<files, unsaved>>
  PROVE  FileTypes' /\ UserTypes' /\ GroupTypes' /\ up' \in BOOLEAN /\ incidents' \in Incidents
<1>1. FileTypes'
  <2>1. CASE \E o \in SaveOutcomes : save_User_group_manager(users', groups', o)
    BY <2>1, SaveTypes
  <2>2. CASE succeeded' \in BOOLEAN /\ UNCHANGED <<files, unsaved>>
    BY <2>2 DEF FileTypes, TypeOK, files
  <2>3. QED BY <2>1, <2>2
<1>2. incidents' \in Incidents BY DEF Unindexed, Incidents, TypeOK
<1>3. UserTypes' /\ GroupTypes' BY EmptySeq DEF UserTypes, GroupTypes, TypeOK
<1>4. QED BY <1>1, <1>2, <1>3 DEF TypeOK

LEMMA DelUserTypes ==
  ASSUME TypeOK, NEW n \in Usernames \cup {Malformed}, del_user(n)
  PROVE  FileTypes' /\ UserTypes' /\ GroupTypes' /\ up' \in BOOLEAN /\ incidents' \in Incidents
<1>1. CASE \E code : Refuse(code) BY <1>1, RefusalTypes
<1>2. CASE Crash BY <1>2, EndTypes DEF Crash
<1>3. ASSUME NEW k \in DOMAIN users, NEW uid,
             groups' = [i \in DOMAIN groups |-> remove_uid_from_group(groups[i], uid)],
             users' = RemoveAt(users, k),
             uid_bitmap' = del_uid(uid_bitmap, uid),
             SaveDeletion(rebuild_user_indexes, rebuild_user_indexes_stops(users')),
             UNCHANGED <<up, vacant_group, groupIndexes, gid_bitmap>>
      PROVE  FileTypes' /\ UserTypes' /\ GroupTypes' /\ up' \in BOOLEAN /\ incidents' \in Incidents
  <2>1. users \in Seq(User) /\ groups \in Seq(Group) BY DEF TypeOK
  <2>2. DOMAIN users = 1 .. Len(users) /\ DOMAIN groups = 1 .. Len(groups)
    BY <2>1, LenProperties
  <2>3. users' \in Seq(User) BY <1>3, <2>1, <2>2, RemoveAtProperties
  <2>4. \A i \in DOMAIN groups : groups'[i] \in Group
    BY <1>3, <2>1, <2>2, ElementOfSeq, RemoveUid
  <2>5. DOMAIN groups' = DOMAIN groups /\ groups' = [i \in DOMAIN groups |-> groups'[i]]
    BY <1>3
  <2>6. groups' \in Seq(Group) BY <2>1, <2>4, <2>5, OverwrittenTypes
  <2>7. /\ vacant_user' = <<>>
        /\ \/ /\ \E o \in SaveOutcomes : save_User_group_manager(users', groups', o)
              /\ UNCHANGED incidents
           \/ /\ Unindexed /\ succeeded' \in BOOLEAN
              /\ UNCHANGED <<files, unsaved>>
    BY <1>3 DEF SaveDeletion, rebuild_user_indexes, rebuild_user_indexes_stops, Return
  <2>8. QED BY <1>3, <2>3, <2>6, <2>7, DeletionTypes DEF del_uid
<1>4. ASSUME users # <<>> PROVE Len(users) \in DOMAIN users
  <2>1. users \in Seq(User) BY DEF TypeOK
  <2>2. QED BY <1>4, <2>1, LenProperties, EmptySeq
<1>5. CASE n # Malformed /\ username_to_idx[n] = Len(users) + 1 /\ del_user_past_the_end(n)
  BY <1>2, <1>3, <1>4, <1>5 DEF del_user_past_the_end
<1>6. QED BY <1>1, <1>3, <1>5 DEF del_user

LEMMA DelGroupTypes ==
  ASSUME TypeOK, NEW n \in Groupnames \cup {Malformed}, del_group(n)
  PROVE  FileTypes' /\ UserTypes' /\ GroupTypes' /\ up' \in BOOLEAN /\ incidents' \in Incidents
<1>1. CASE \E code : Refuse(code) BY <1>1, RefusalTypes
<1>2. CASE Crash BY <1>2, EndTypes DEF Crash
<1>3. ASSUME NEW k \in DOMAIN groups, NEW gid,
             users' = [i \in DOMAIN users |-> remove_gid_from_user(users[i], gid)],
             groups' = RemoveAt(groups, k),
             gid_bitmap' = del_gid(gid_bitmap, gid),
             SaveDeletion(rebuild_group_indexes, rebuild_group_indexes_stops(groups')),
             UNCHANGED <<up, vacant_user, userIndexes, uid_bitmap>>
      PROVE  FileTypes' /\ UserTypes' /\ GroupTypes' /\ up' \in BOOLEAN /\ incidents' \in Incidents
  <2>1. users \in Seq(User) /\ groups \in Seq(Group) BY DEF TypeOK
  <2>2. DOMAIN users = 1 .. Len(users) /\ DOMAIN groups = 1 .. Len(groups)
    BY <2>1, LenProperties
  <2>3. groups' \in Seq(Group) BY <1>3, <2>1, <2>2, RemoveAtProperties
  <2>4. \A i \in DOMAIN users : users'[i] \in User
    BY <1>3, <2>1, <2>2, ElementOfSeq, RemoveGid
  <2>5. DOMAIN users' = DOMAIN users /\ users' = [i \in DOMAIN users |-> users'[i]]
    BY <1>3
  <2>6. users' \in Seq(User) BY <2>1, <2>4, <2>5, OverwrittenTypes
  <2>7. /\ vacant_group' = <<>>
        /\ \/ /\ \E o \in SaveOutcomes : save_User_group_manager(users', groups', o)
              /\ UNCHANGED incidents
           \/ /\ Unindexed /\ succeeded' \in BOOLEAN
              /\ UNCHANGED <<files, unsaved>>
    BY <1>3 DEF SaveDeletion, rebuild_group_indexes, rebuild_group_indexes_stops, Return
  <2>8. QED BY <1>3, <2>3, <2>6, <2>7, DeletionTypes DEF del_gid
<1>4. ASSUME groups # <<>> PROVE Len(groups) \in DOMAIN groups
  <2>1. groups \in Seq(Group) BY DEF TypeOK
  <2>2. QED BY <1>4, <2>1, LenProperties, EmptySeq
<1>5. CASE n # Malformed /\ groupname_to_idx[n] = Len(groups) + 1 /\ del_group_past_the_end(n)
  BY <1>2, <1>3, <1>4, <1>5 DEF del_group_past_the_end
<1>6. QED BY <1>1, <1>3, <1>5 DEF del_group

(* An operation that changes records in place. *)
LEMMA InPlaceTypes ==
  ASSUME TypeOK, users' \in Seq(User), vacant_user' \in Seq(User), groups' \in Seq(Group),
         FileTypes', incidents' \in {incidents, incidents \cup {"nomem"}},
         UNCHANGED <<up, uid_bitmap, vacant_group, gid_bitmap>>
  PROVE  FileTypes' /\ UserTypes' /\ GroupTypes' /\ up' \in BOOLEAN /\ incidents' \in Incidents
BY DEF TypeOK, UserTypes, GroupTypes, Incidents

(* A record that is replaced, if the position is one of the array. *)
LEMMA ReplacedTypes ==
  ASSUME NEW S, NEW s \in Seq(S), NEW k, NEW e, k \in DOMAIN s => e \in S
  PROVE  [s EXCEPT ![k] = e] \in Seq(S)
<1>1. DOMAIN s = 1 .. Len(s) BY LenProperties
<1>2. CASE k \in DOMAIN s BY <1>1, <1>2, ReplaceElement
<1>3. CASE k \notin DOMAIN s
  <2>1. [s EXCEPT ![k] = e] = s
    <3>1. s = [i \in DOMAIN s |-> s[i]] BY <1>1
    <3>2. QED BY <1>3, <3>1
  <2>2. QED BY <2>1
<1>4. QED BY <1>2, <1>3

LEMMA SetPasswordTypes ==
  ASSUME TypeOK, NEW n \in Usernames \cup {Malformed}, NEW old \in Passwords,
         NEW new \in Passwords \cup {Malformed}, set_user_password(n, old, new)
  PROVE  FileTypes' /\ UserTypes' /\ GroupTypes' /\ up' \in BOOLEAN /\ incidents' \in Incidents
<1>1. users \in Seq(User) /\ groups \in Seq(Group) /\ vacant_user \in Seq(User)
  BY DEF TypeOK
<1>2. /\ \A i \in DOMAIN users : users[i] \in User
      /\ \A i \in DOMAIN vacant_user : vacant_user[i] \in User
  BY <1>1, LenProperties, ElementOfSeq
<1>3. CASE \E code : Refuse(code) BY <1>3, RefusalTypes
<1> DEFINE k == username_to_idx[n]
           e == [users[k] EXCEPT !.password = new]
           past == [i \in DOMAIN vacant_user |-> [vacant_user[i] EXCEPT !.password = new]]
<1>4. ASSUME new # Malformed, k \in DOMAIN users,
             users' = [users EXCEPT ![k].password = new],
             \E o \in SaveOutcomes : save_User_group_manager(users', groups, o),
             UNCHANGED <<up, vacant_user, userIndexes, uid_bitmap, groupVars, incidents>>
      PROVE  FileTypes' /\ UserTypes' /\ GroupTypes' /\ up' \in BOOLEAN /\ incidents' \in Incidents
  <2>1. e \in User BY <1>2, <1>4 DEF User
  <2>2. users' = [users EXCEPT ![k] = e] BY <1>4
  <2> HIDE DEF e
  <2>3. users' \in Seq(User) BY <1>1, <2>1, <2>2, ReplacedTypes
  <2>4. FileTypes' BY <1>1, <1>4, <2>3, SaveTypes
  <2>5. QED BY <1>1, <1>4, <2>3, <2>4, InPlaceTypes DEF groupVars
<1>5. ASSUME new # Malformed, vacant_user' = past,
             \E o \in SaveOutcomes : save_User_group_manager(users, groups, o),
             UNCHANGED <<up, users, userIndexes, uid_bitmap, groupVars, incidents>>
      PROVE  FileTypes' /\ UserTypes' /\ GroupTypes' /\ up' \in BOOLEAN /\ incidents' \in Incidents
  <2>1. \A i \in DOMAIN vacant_user : past[i] \in User BY <1>2, <1>5 DEF User
  <2>2. past \in Seq(User) BY <1>1, <2>1, OverwrittenTypes
  <2> HIDE DEF past
  <2>3. FileTypes' BY <1>1, <1>5, SaveTypes
  <2>4. QED BY <1>1, <1>5, <2>2, <2>3, InPlaceTypes DEF groupVars
<1>6. QED BY <1>3, <1>4, <1>5 DEF set_user_password, set_password_past_the_end

LEMMA AddUserToGroupTypes ==
  ASSUME TypeOK, NEW uid \in Ids, NEW gid \in Ids, add_user_to_group(uid, gid)
  PROVE  FileTypes' /\ UserTypes' /\ GroupTypes' /\ up' \in BOOLEAN /\ incidents' \in Incidents
<1>1. users \in Seq(User) /\ groups \in Seq(Group) /\ vacant_user \in Seq(User)
  BY DEF TypeOK
<1>2. /\ \A i \in DOMAIN users : users[i] \in User
      /\ \A i \in DOMAIN groups : groups[i] \in Group
  BY <1>1, LenProperties, ElementOfSeq
<1>3. CASE \E code : Refuse(code) BY <1>3, RefusalTypes
<1> DEFINE a      == uid_to_idx[uid]
           b      == gid_to_idx[gid]
           joined == joined_groups(users[a], gid)
           e      == [users[a] EXCEPT !.groups = joined]
           h      == [groups[b] EXCEPT !.members = @ \cup {uid}]
<1>4. a \in DOMAIN users => e \in User
  <2> SUFFICES ASSUME a \in DOMAIN users PROVE e \in User OBVIOUS
  <2>1. users[a] \in User BY <1>2
  <2>2. users[a].groups \in Seq(Ids) BY <2>1 DEF User
  <2>3. joined \in Seq(Ids) BY <2>2, AppendElements DEF joined_groups
  <2> HIDE DEF joined, a
  <2>4. QED BY <2>1, <2>3 DEF User
<1>5. b \in DOMAIN groups => h \in Group BY <1>2 DEF Group
<1>6. [users EXCEPT ![a] = e] \in Seq(User) /\ [groups EXCEPT ![b] = h] \in Seq(Group)
  <2> HIDE DEF a, b, e, h
  <2>1. QED BY <1>1, <1>4, <1>5, ReplacedTypes
<1>7. ASSUME users' = [users EXCEPT ![a].groups = joined],
             groups' \in {groups, [groups EXCEPT ![b].members = @ \cup {uid}]},
             incidents' \in {incidents, incidents \cup {"nomem"}},
             \/ UNCHANGED <<files, unsaved>> /\ succeeded' \in BOOLEAN
             \/ \E o \in SaveOutcomes : save_User_group_manager(users', groups', o),
             UNCHANGED <<up, vacant_user, uid_bitmap, vacant_group, gid_bitmap>>
      PROVE  FileTypes' /\ UserTypes' /\ GroupTypes' /\ up' \in BOOLEAN /\ incidents' \in Incidents
  <2>1. users' \in Seq(User) /\ groups' \in Seq(Group) BY <1>1, <1>6, <1>7
  <2>2. FileTypes'
    <3>1. CASE \E o \in SaveOutcomes : save_User_group_manager(users', groups', o)
      BY <2>1, <3>1, SaveTypes
    <3>2. CASE UNCHANGED <<files, unsaved>> /\ succeeded' \in BOOLEAN
      BY <3>2 DEF FileTypes, TypeOK, files
    <3>3. QED BY <1>7, <3>1, <3>2
  <2>3. QED BY <1>1, <1>7, <2>1, <2>2, InPlaceTypes
<1>8. QED BY <1>3, <1>7 DEF add_user_to_group, Return, groupVars

LEMMA DelUserFromGroupTypes ==
  ASSUME TypeOK, NEW uid \in Ids, NEW gid \in Ids, del_user_from_group(uid, gid)
  PROVE  FileTypes' /\ UserTypes' /\ GroupTypes' /\ up' \in BOOLEAN /\ incidents' \in Incidents
<1>1. users \in Seq(User) /\ groups \in Seq(Group) /\ vacant_user \in Seq(User)
  BY DEF TypeOK
<1>2. /\ \A i \in DOMAIN users : users[i] \in User
      /\ \A i \in DOMAIN groups : groups[i] \in Group
  BY <1>1, LenProperties, ElementOfSeq
<1>3. CASE \E code : Refuse(code) BY <1>3, RefusalTypes
<1> DEFINE a == uid_to_idx[uid]
           b == gid_to_idx[gid]
           e == remove_gid_from_user(users[a], gid)
           h == remove_uid_from_group(groups[b], uid)
<1>4. (a \in DOMAIN users => e \in User) /\ (b \in DOMAIN groups => h \in Group)
  BY <1>2, RemoveGid, RemoveUid
<1>5. ASSUME users' = [users EXCEPT ![a] = e], groups' = [groups EXCEPT ![b] = h],
             \E o \in SaveOutcomes : save_User_group_manager(users', groups', o),
             UNCHANGED <<up, vacant_user, userIndexes, uid_bitmap,
                         vacant_group, groupIndexes, gid_bitmap, incidents>>
      PROVE  FileTypes' /\ UserTypes' /\ GroupTypes' /\ up' \in BOOLEAN /\ incidents' \in Incidents
  <2> HIDE DEF a, b, e, h
  <2>1. users' \in Seq(User) /\ groups' \in Seq(Group) BY <1>1, <1>4, <1>5, ReplacedTypes
  <2>2. FileTypes' BY <1>5, <2>1, SaveTypes
  <2>3. QED BY <1>1, <1>5, <2>1, <2>2, InPlaceTypes
<1>6. QED BY <1>3, <1>5 DEF del_user_from_group

LEMMA SaveAndStopTypes ==
  ASSUME TypeOK, Save \/ Stop \/ UNCHANGED vars
  PROVE  FileTypes' /\ UserTypes' /\ GroupTypes' /\ up' \in BOOLEAN /\ incidents' \in Incidents
<1>1. CASE Save
  <2>1. users \in Seq(User) /\ groups \in Seq(Group) /\ vacant_user \in Seq(User)
    BY DEF TypeOK
  <2>2. FileTypes' BY <1>1, <2>1, SaveTypes DEF Save
  <2>3. UNCHANGED <<up, users, groups, vacant_user, uid_bitmap, vacant_group, gid_bitmap, incidents>>
    BY <1>1 DEF Save, memory, userVars, groupVars
  <2>4. QED BY <2>1, <2>2, <2>3, InPlaceTypes
<1>2. CASE Stop BY <1>2, EndTypes DEF Stop
<1>3. CASE UNCHANGED vars
  BY <1>3 DEF vars, memory, userVars, groupVars, files, TypeOK, FileTypes, UserTypes, GroupTypes, Incidents
<1>4. QED BY <1>1, <1>2, <1>3

LEMMA StartTypes ==
  ASSUME TypeOK, init_User_group_manager
  PROVE  FileTypes' /\ UserTypes' /\ GroupTypes' /\ up' \in BOOLEAN /\ incidents' \in Incidents
<1>1. CASE \E code : Refuse(code) BY <1>1, RefusalTypes
<1>2. ASSUME up' = TRUE,
             users' = LoadedUsers(userFile), groups' = LoadedGroups(userFile, groupFile),
             vacant_user' = <<>>, vacant_group' = <<>>, succeeded' \in BOOLEAN,
             UNCHANGED <<uid_bitmap, gid_bitmap, files, unsaved, incidents>>
      PROVE  FileTypes' /\ UserTypes' /\ GroupTypes' /\ up' \in BOOLEAN /\ incidents' \in Incidents
  <2>1. users' \in Seq(User) /\ groups' \in Seq(Group) BY <1>2, LoadedTypes DEF TypeOK
  <2>2. vacant_user' \in Seq(User) /\ vacant_group' \in Seq(Group) BY <1>2, VacantTypes
  <2>3. QED
    BY <1>2, <2>1, <2>2 DEF TypeOK, FileTypes, UserTypes, GroupTypes, Incidents, files
<1>3. QED
  BY <1>1, <1>2
  DEF init_User_group_manager, rebuild_user_indexes, rebuild_group_indexes, Return

(* Every step keeps the types, and after an index update that ran out of   *)
(* memory the invariant says no more.                                      *)
LEMMA UnindexedStep ==
  ASSUME IInv, [Next]_vars, ~Indexed'
  PROVE  IInv'
<1>1. TypeOK BY DEF IInv
<1>2. FileTypes' /\ UserTypes' /\ GroupTypes' /\ up' \in BOOLEAN /\ incidents' \in Incidents
  BY <1>1, AddUserTypes, DelUserTypes, SetPasswordTypes, AddGroupTypes, DelGroupTypes,
     AddUserToGroupTypes, DelUserFromGroupTypes, SaveAndStopTypes, StartTypes
  DEF Next
<1>3. TypeOK' BY <1>2 DEF TypeOK, FileTypes, UserTypes, GroupTypes, Incidents
<1>4. IndexesExact' /\ GidsResolve' /\ IdsAccounted'
  BY DEF IndexesExact, GidsResolve, IdsAccounted
<1>5. MembershipConsistent' BY DEF MembershipConsistent, Indexed
<1>6. QED BY <1>3, <1>4, <1>5 DEF IInv

-----------------------------------------------------------------------------
(* The theorems *)

(* The first start establishes the inductive invariant. *)
LEMMA InitIInv == Init => IInv
<1> SUFFICES ASSUME Init PROVE IInv OBVIOUS
<1>1. /\ InitialUsers \in Seq(User) /\ InitialGroups \in Seq(GroupLine)
      /\ Loadable(InitialUsers, InitialGroups) /\ Resolves(InitialUsers, InitialGroups)
  BY InitialAssumption
<1>2. users = LoadedUsers(InitialUsers) /\ groups = LoadedGroups(InitialUsers, InitialGroups)
  BY DEF Init
<1>3. /\ users \in Seq(User) /\ groups \in Seq(Group)
      /\ DOMAIN users = DOMAIN InitialUsers /\ DOMAIN groups = DOMAIN InitialGroups
      /\ \A i \in DOMAIN users : users[i].uid = InitialUsers[i].uid
      /\ \A j \in DOMAIN groups : groups[j].gid = InitialGroups[j].gid
      /\ \A i, j \in DOMAIN users :
           users[i].uid = users[j].uid \/ users[i].username = users[j].username => i = j
      /\ \A i, j \in DOMAIN groups :
           groups[i].gid = groups[j].gid \/ groups[i].groupname = groups[j].groupname => i = j
      /\ \A j \in DOMAIN groups : \A u \in groups[j].members : \E i \in DOMAIN users : users[i].uid = u
      /\ \A i \in DOMAIN users, j \in DOMAIN groups :
           user_has_group(users[i], groups[j].gid) <=> users[i].uid \in groups[j].members
      /\ Resolves(users, groups) /\ Covers(InitialGroups, groups)
  BY <1>1, <1>2, Loading
<1>4. TypeOK
  <2>1. 0 \in 0 .. MaxUnsaved BY ConstantAssumption
  <2>2. vacant_user \in Seq(User) /\ vacant_group \in Seq(Group) BY EmptySeq DEF Init
  <2>3. QED BY <1>1, <1>3, <2>1, <2>2 DEF Init, TypeOK, NoneAllocated
<1>5. IndexesExact BY DEF Init, IndexesExact
<1>6. GidsResolve BY <1>1, <1>3 DEF Init, GidsResolve
<1>7. IdsAccounted
  <2> SUFFICES ASSUME FreshInstall PROVE IdsAccounted!2 BY DEF IdsAccounted
  <2>1. {users[i].uid : i \in DOMAIN users} \cap COMMON_UID = {} BY <1>3 DEF FreshInstall
  <2>2. {groups[j].gid : j \in DOMAIN groups} \cap COMMON_GID = {} BY <1>3 DEF FreshInstall
  <2>3. uid_bitmap = {} /\ gid_bitmap = {} BY DEF Init, NoneAllocated
  <2>4. QED BY <1>3, <2>1, <2>2, <2>3
<1>8. MembershipConsistent BY <1>3 DEF MembershipConsistent
<1>9. QED BY <1>4, <1>5, <1>6, <1>7, <1>8 DEF IInv

(* Incidents are never forgotten. *)
LEMMA IncidentsStay ==
  ASSUME [Next]_vars PROVE incidents \subseteq incidents'
<1>1. \A code : Refuse(code) => incidents' = incidents BY DEF Refuse
<1>2. Unindexed \/ Crash => incidents \subseteq incidents' BY DEF Unindexed, Crash, Ended
<1>3. ASSUME NEW n, NEW p, add_user(n, p) PROVE incidents \subseteq incidents'
  BY <1>1, <1>2, <1>3 DEF add_user, add_user_gives_up, add_user_unindexed, rebuild_user_indexes_stops
<1>4. ASSUME NEW n, del_user(n) PROVE incidents \subseteq incidents'
  BY <1>1, <1>2, <1>4 DEF del_user, del_user_past_the_end, SaveDeletion, rebuild_user_indexes_stops
<1>5. ASSUME NEW n, NEW old, NEW new, set_user_password(n, old, new)
      PROVE  incidents \subseteq incidents'
  BY <1>1, <1>5 DEF set_user_password, set_password_past_the_end
<1>6. ASSUME NEW n, add_group(n) PROVE incidents \subseteq incidents'
  BY <1>1, <1>2, <1>6 DEF add_group, add_group_gives_up, add_group_unindexed, rebuild_group_indexes_stops
<1>7. ASSUME NEW n, del_group(n) PROVE incidents \subseteq incidents'
  BY <1>1, <1>2, <1>7 DEF del_group, del_group_past_the_end, SaveDeletion, rebuild_group_indexes_stops
<1>8. ASSUME NEW uid, NEW gid, add_user_to_group(uid, gid) \/ del_user_from_group(uid, gid)
      PROVE  incidents \subseteq incidents'
  BY <1>1, <1>8 DEF add_user_to_group, del_user_from_group
<1>9. ASSUME Save \/ Stop \/ init_User_group_manager \/ UNCHANGED vars
      PROVE  incidents \subseteq incidents'
  BY <1>1, <1>9 DEF Save, Stop, Ended, init_User_group_manager, vars
<1>10. QED BY <1>3, <1>4, <1>5, <1>6, <1>7, <1>8, <1>9 DEF Next

LEMMA NextIInv ==
  ASSUME IInv, DownAfterRestart, [Next]_vars
  PROVE  IInv'
<1> SUFFICES ASSUME Indexed' PROVE IInv' BY UnindexedStep
<1> Indexed BY IncidentsStay DEF Indexed
<1>1. ASSUME NEW n \in Usernames \cup {Malformed}, NEW p \in Passwords \cup {Malformed},
             add_user(n, p)
      PROVE  IInv'
  BY <1>1, AddUserStep
<1>2. ASSUME NEW n \in Usernames \cup {Malformed}, del_user(n) PROVE IInv'
  BY <1>2, DelUserStep
<1>3. ASSUME NEW n \in Usernames \cup {Malformed}, NEW old \in Passwords,
             NEW new \in Passwords \cup {Malformed}, set_user_password(n, old, new)
      PROVE  IInv'
  BY <1>3, SetPasswordStep
<1>4. ASSUME NEW n \in Groupnames \cup {Malformed}, add_group(n) PROVE IInv'
  BY <1>4, AddGroupStep
<1>5. ASSUME NEW n \in Groupnames \cup {Malformed}, del_group(n) PROVE IInv'
  BY <1>5, DelGroupStep
<1>6. ASSUME NEW uid \in Ids, NEW gid \in Ids, add_user_to_group(uid, gid) PROVE IInv'
  BY <1>6, AddUserToGroupStep
<1>7. ASSUME NEW uid \in Ids, NEW gid \in Ids, del_user_from_group(uid, gid) PROVE IInv'
  BY <1>7, DelUserFromGroupStep
<1>8. CASE Save BY <1>8, SaveStep
<1>9. CASE Stop BY <1>9, StopStep
<1>10. CASE init_User_group_manager BY <1>10, InitStep
<1>11. CASE UNCHANGED vars
  BY <1>11, QuietStep DEF vars, IInv, TypeOK
<1>12. QED
  BY <1>1, <1>2, <1>3, <1>4, <1>5, <1>6, <1>7, <1>8, <1>9, <1>10, <1>11 DEF Next

LEMMA NextDown ==
  ASSUME DownAfterRestart, [Next]_vars PROVE DownAfterRestart'
<1> USE DEF DownAfterRestart
<1>14. incidents \subseteq incidents' BY IncidentsStay
<1>0. Ended \/ Crash => DownAfterRestart' BY DEF Crash, Ended
<1>1. ASSUME NEW code, Refuse(code) PROVE DownAfterRestart' BY <1>1 DEF Refuse
<1>2. ASSUME NEW n \in Usernames \cup {Malformed}, NEW p \in Passwords \cup {Malformed},
             add_user(n, p)
      PROVE  DownAfterRestart'
  BY <1>14, <1>1, <1>2 DEF add_user, add_user_gives_up, add_user_unindexed
<1>3. ASSUME NEW n \in Usernames \cup {Malformed}, del_user(n) PROVE DownAfterRestart'
  BY <1>14, <1>0, <1>1, <1>3 DEF del_user, del_user_past_the_end
<1>4. ASSUME NEW n \in Usernames \cup {Malformed}, NEW old \in Passwords,
             NEW new \in Passwords \cup {Malformed}, set_user_password(n, old, new)
      PROVE  DownAfterRestart'
  BY <1>14, <1>1, <1>4 DEF set_user_password, set_password_past_the_end
<1>5. ASSUME NEW n \in Groupnames \cup {Malformed}, add_group(n) PROVE DownAfterRestart'
  BY <1>14, <1>1, <1>5 DEF add_group, add_group_gives_up, add_group_unindexed
<1>6. ASSUME NEW n \in Groupnames \cup {Malformed}, del_group(n) PROVE DownAfterRestart'
  BY <1>14, <1>0, <1>1, <1>6 DEF del_group, del_group_past_the_end
<1>7. ASSUME NEW uid \in Ids, NEW gid \in Ids, add_user_to_group(uid, gid)
      PROVE  DownAfterRestart'
  BY <1>14, <1>1, <1>7 DEF add_user_to_group
<1>8. ASSUME NEW uid \in Ids, NEW gid \in Ids, del_user_from_group(uid, gid)
      PROVE  DownAfterRestart'
  BY <1>14, <1>1, <1>8 DEF del_user_from_group
<1>9. CASE Save BY <1>9 DEF Save
<1>10. CASE Stop BY <1>0, <1>10 DEF Stop
<1>11. CASE init_User_group_manager BY <1>14, <1>1, <1>11 DEF init_User_group_manager
<1>12. CASE UNCHANGED vars BY <1>12 DEF vars
<1>13. QED
  BY <1>2, <1>3, <1>4, <1>5, <1>6, <1>7, <1>8, <1>9, <1>10, <1>11, <1>12 DEF Next

(* The inductive invariant holds throughout, for every number of users,    *)
(* groups and ids and whatever fails.  Its parts say less once an index    *)
(* update has run out of memory: the types are kept, the rest is not.      *)
THEOREM Invariance == Spec => [](IInv /\ DownAfterRestart)
<1>1. Init => IInv /\ DownAfterRestart BY InitIInv DEF Init, DownAfterRestart
<1>2. IInv /\ DownAfterRestart /\ [Next]_vars => (IInv /\ DownAfterRestart)'
  BY NextIInv, NextDown
<1>3. QED BY <1>1, <1>2, PTL DEF Spec

(* The manager's state keeps its type, and no name is used twice as long   *)
(* as every index update has found its memory.                             *)
THEOREM TypeCorrect == Spec => []TypeOK
<1>1. IInv => TypeOK BY DEF IInv
<1>2. QED BY <1>1, Invariance, PTL

(* As long as every index update has found its memory, the four hash       *)
(* indexes are exact after every operation, rollback of a failed save,     *)
(* deletion and restart, and lead nowhere past the end of the arrays.      *)
THEOREM IndexesAreExact == Spec => []IndexesExact
<1>1. IInv => IndexesExact BY DEF IInv
<1>2. QED BY <1>1, Invariance, PTL

(* No group reference dangles, in memory or on disk, even when a save      *)
(* stops between its two renames, as long as every index update has found  *)
(* its memory.                                                             *)
THEOREM ReferencesResolve == Spec => []GidsResolve
<1>1. IInv => GidsResolve BY DEF IInv
<1>2. QED BY <1>1, Invariance, PTL

(* The bitmaps account for the ids in use while the first process lives    *)
(* and index updates find their memory.                                    *)
THEOREM BitmapsAccountForIds == Spec => []IdsAccounted
<1>1. IInv => IdsAccounted BY DEF IInv
<1>2. QED BY <1>1, Invariance, PTL

(* The two sides of the membership relation agree until an incident.       *)
THEOREM MembershipAgrees == Spec => []MembershipConsistent
<1>1. IInv => MembershipConsistent BY DEF IInv
<1>2. QED BY <1>1, Invariance, PTL

(* Certification accepts exactly the current password of the named account *)
(* while the first process lives and index updates find their memory: uids *)
(* are not shared, so the two look-ups end at the record they started from. *)
THEOREM CertificationIsExact == Spec => []CertifiesExactly
<1>1. IInv => CertifiesExactly
  <2> SUFFICES ASSUME IInv, FreshInstall, "restart" \notin incidents, Indexed,
                      NEW n \in Usernames, NEW p \in Passwords
               PROVE  certification(n, p) <=>
                        \E i \in DOMAIN users : users[i].username = n /\ users[i].password = p
    BY DEF CertifiesExactly
  <2>1. users \in Seq(User) BY DEF IInv, TypeOK
  <2>2. DOMAIN users = 1 .. Len(users) BY <2>1, LenProperties
  <2>3. \A i, j \in DOMAIN users : users[i].username = users[j].username => i = j
    BY DEF IInv, TypeOK
  <2>4. \A i, j \in DOMAIN users : users[i].uid = users[j].uid => i = j
    BY DEF IInv, IdsAccounted
  <2>5. username_to_idx = UsernameIndex(users) /\ uid_to_idx = UidIndex(users)
    BY DEF IInv, IndexesExact
  <2>9. users \o vacant_user = users
    BY <2>1, ConcatEmptySeq DEF IInv, IndexesExact
  <2>6. CASE username_to_idx[n] = 0
    BY <2>1, <2>5, <2>6, UserLookup DEF certification
  <2>7. CASE username_to_idx[n] # 0
    <3> DEFINE k == username_to_idx[n]
               m == uid_to_idx[users[k].uid]
    <3>1. k \in DOMAIN users /\ users[k].username = n
      BY <2>1, <2>2, <2>5, <2>7, UserLookup
    <3>2. users[k].uid \in Ids
      <4>1. \A i \in 1 .. Len(users) : users[i] \in User BY <2>1, ElementOfSeq
      <4>2. QED BY <2>2, <3>1, <4>1 DEF User
    <3>3. m # 0 /\ m \in DOMAIN users /\ users[m].uid = users[k].uid
      BY <2>1, <2>2, <2>5, <3>1, <3>2, UserLookup
    <3>4. m = k BY <2>4, <3>1, <3>3
    <3>5. certification(n, p) <=> users[k].password = p
      BY <2>7, <2>9, <3>3, <3>4 DEF certification
    <3>6. QED BY <2>3, <3>1, <3>5
  <2>8. QED BY <2>6, <2>7
<1>2. QED BY <1>1, Invariance, PTL

(* An add that does not succeed leaves no trace. *)
LEMMA FailedAddUser ==
  ASSUME IInv, ~succeeded', Indexed' => Indexed,
         NEW n \in Usernames \cup {Malformed}, NEW p \in Passwords \cup {Malformed},
         add_user(n, p)
  PROVE  NoTraceLeft
<1> USE DEF NoTraceLeft, memory, userVars, groupVars, userIndexes, groupIndexes
<1> DEFINE uid == get_uid(uid_bitmap)
           u   == [username |-> n, uid |-> uid, groups |-> <<>>, password |-> p]
           us  == Append(users, u)
<1>1. CASE \E code : Refuse(code) BY <1>1 DEF Refuse
<1>2. ASSUME uid # merr
      PROVE  del_uid(uid_bitmap \cup {uid}, uid) = uid_bitmap
  BY <1>2, NewUid DEF IInv, TypeOK
<1>3. CASE uid # merr /\ \E code : add_user_gives_up(uid, code)
  BY <1>2, <1>3 DEF add_user_gives_up
<1>4. ASSUME uid # merr, add_user_unindexed(u) PROVE NoTraceLeft
  BY <1>2, <1>4, NoUpdateStopped DEF add_user_unindexed
<1>5. ASSUME uid # merr, users' = users,
             uid_bitmap' = del_uid(uid_bitmap \cup {uid}, uid),
             rebuild_user_indexes \/ rebuild_user_indexes_stops(users), UNCHANGED groupVars
      PROVE  NoTraceLeft
  BY <1>2, <1>5, NoUpdateStopped DEF rebuild_user_indexes, IInv, IndexesExact
<1>6. ASSUME NEW o \in SaveOutcomes, save_User_group_manager(us, groups, o), o = "saved"
      PROVE  FALSE
  BY <1>6 DEF save_User_group_manager, Return, SaveCode
<1> HIDE DEF NoTraceLeft
<1>7. QED BY <1>1, <1>3, <1>4, <1>5, <1>6 DEF add_user

LEMMA FailedAddGroup ==
  ASSUME IInv, ~succeeded', Indexed' => Indexed,
         NEW n \in Groupnames \cup {Malformed}, add_group(n)
  PROVE  NoTraceLeft
<1> USE DEF NoTraceLeft, memory, userVars, groupVars, userIndexes, groupIndexes
<1> DEFINE gid == get_gid(gid_bitmap)
           g   == [groupname |-> n, gid |-> gid, members |-> {}]
           gs  == Append(groups, g)
<1>1. CASE \E code : Refuse(code) BY <1>1 DEF Refuse
<1>2. ASSUME gid # merr
      PROVE  del_gid(gid_bitmap \cup {gid}, gid) = gid_bitmap
  BY <1>2, NewGid DEF IInv, TypeOK
<1>3. CASE gid # merr /\ \E code : add_group_gives_up(gid, code)
  BY <1>2, <1>3 DEF add_group_gives_up
<1>4. ASSUME gid # merr, add_group_unindexed(g) PROVE NoTraceLeft
  BY <1>2, <1>4, NoUpdateStopped DEF add_group_unindexed
<1>5. ASSUME gid # merr, groups' = groups,
             gid_bitmap' = del_gid(gid_bitmap \cup {gid}, gid),
             rebuild_group_indexes \/ rebuild_group_indexes_stops(groups), UNCHANGED userVars
      PROVE  NoTraceLeft
  BY <1>2, <1>5, NoUpdateStopped DEF rebuild_group_indexes, IInv, IndexesExact
<1>6. ASSUME NEW o \in SaveOutcomes, save_User_group_manager(users, gs, o), o = "saved"
      PROVE  FALSE
  BY <1>6 DEF save_User_group_manager, Return, SaveCode
<1> HIDE DEF NoTraceLeft
<1>7. QED BY <1>1, <1>3, <1>4, <1>5, <1>6 DEF add_group

(* Whichever of its steps fails, an add that fails leaves the accounts,    *)
(* the groups and the ids handed out as they were; and the indexes, unless *)
(* it was an index update that failed, or one has before.                  *)
THEOREM FailedAddsLeaveNoTrace == Spec => FailedAddLeavesNoTrace
<1> DEFINE NoAdd == /\ \A n \in Usernames \cup {Malformed}, p \in Passwords \cup {Malformed} : ~add_user(n, p)
                    /\ \A n \in Groupnames \cup {Malformed} : ~add_group(n)
<1>1. IInv /\ [Next]_vars => (~succeeded' /\ ~NoTraceLeft => NoAdd)
  <2> SUFFICES ASSUME IInv, [Next]_vars, ~succeeded', ~NoTraceLeft PROVE NoAdd
    OBVIOUS
  <2>1. Indexed' => Indexed BY IncidentsStay DEF Indexed
  <2>2. QED BY <2>1, FailedAddUser, FailedAddGroup
<1>2. IInv /\ [Next]_vars => [~succeeded' /\ ~NoTraceLeft => NoAdd]_vars BY <1>1
<1>3. QED BY <1>2, Invariance, PTL DEF Spec, FailedAddLeavesNoTrace

-----------------------------------------------------------------------------
(* The primary group *)

(* The first entry of a list stays first, or is gone. *)
KeepsPrimary(u, v) ==
  u.groups # <<>> =>
    \/ v.groups # <<>> /\ v.groups[1] = u.groups[1]
    \/ ~user_has_group(v, u.groups[1])

LEMMA RemoveGidKeepsPrimary ==
  ASSUME NEW u \in User, Distinct(u.groups), NEW gid
  PROVE  KeepsPrimary(u, remove_gid_from_user(u, gid))
<1> DEFINE v == remove_gid_from_user(u, gid)
<1> SUFFICES ASSUME u.groups # <<>>
             PROVE  \/ v.groups # <<>> /\ v.groups[1] = u.groups[1]
                    \/ ~user_has_group(v, u.groups[1])
  BY DEF KeepsPrimary
<1>1. u.groups \in Seq(Ids) BY DEF User
<1>2. DOMAIN u.groups = 1 .. Len(u.groups) /\ Len(u.groups) \in Nat /\ Len(u.groups) # 0
  BY <1>1, LenProperties, EmptySeq
<1>3. CASE ~user_has_group(u, gid) BY <1>3 DEF remove_gid_from_user
<1>4. CASE user_has_group(u, gid) /\ u.groups[1] = gid
  <2>1. \A e : Contains(v.groups, e) <=> Contains(u.groups, e) /\ e # gid BY RemoveGid
  <2> HIDE DEF v
  <2>2. ~user_has_group(v, gid) BY <2>1 DEF user_has_group
  <2>3. QED BY <1>4, <2>2
<1>5. CASE user_has_group(u, gid) /\ u.groups[1] # gid
  <2> DEFINE k == PositionOf(u.groups, gid)
             r == RemoveAt(u.groups, k)
  <2>1. k \in 1 .. Len(u.groups) /\ u.groups[k] = gid
    BY <1>1, <1>5, PositionOfProperties DEF user_has_group
  <2>2. k > 1 /\ Len(u.groups) > 1 BY <1>2, <1>5, <2>1
  <2>3. v.groups = r BY <1>5 DEF remove_gid_from_user, User
  <2>4. /\ r \in Seq(Ids) /\ Len(r) = Len(u.groups) - 1
        /\ \A i \in 1 .. Len(u.groups) - 1 : r[i] = IF i < k THEN u.groups[i] ELSE u.groups[i + 1]
    BY <1>1, <2>1, RemoveAtProperties
  <2> HIDE DEF r, k, v
  <2>5. r[1] = u.groups[1] BY <1>2, <2>2, <2>4
  <2>6. r # <<>> BY <1>2, <2>2, <2>4
  <2>7. QED BY <2>3, <2>5, <2>6
<1>6. QED BY <1>3, <1>4, <1>5

LEMMA JoinedKeepsPrimary ==
  ASSUME NEW u \in User, NEW gid \in Ids
  PROVE  KeepsPrimary(u, [u EXCEPT !.groups = joined_groups(u, gid)])
<1>1. u.groups \in Seq(Ids) BY DEF User
<1>2. CASE user_has_group(u, gid) BY <1>2 DEF joined_groups, User, KeepsPrimary
<1>3. CASE ~user_has_group(u, gid)
  <2> DEFINE t == Append(u.groups, gid)
  <2>1. [u EXCEPT !.groups = joined_groups(u, gid)].groups = t
    BY <1>3 DEF joined_groups, User
  <2>2. u.groups # <<>> => Len(u.groups) \in Nat /\ Len(u.groups) # 0
    BY <1>1, LenProperties, EmptySeq
  <2>3. /\ Len(t) = Len(u.groups) + 1
        /\ \A i \in 1 .. Len(u.groups) : t[i] = u.groups[i]
    BY <1>1, AppendElements
  <2> HIDE DEF t
  <2>4. u.groups # <<>> => t # <<>> /\ t[1] = u.groups[1] BY <2>2, <2>3
  <2>5. QED BY <2>1, <2>4 DEF KeepsPrimary
<1>4. QED BY <1>2, <1>3

(* Of every account that is there before and after, the list keeps its     *)
(* first entry or loses it.                                                *)
PrimaryKept ==
  \A i \in DOMAIN users, j \in DOMAIN users' :
    users[i].username = users'[j].username => KeepsPrimary(users[i], users'[j])

(* An operation that leaves every record at its position. *)
LEMMA PrimaryKeptInPlace ==
  ASSUME IInv, Indexed, DOMAIN users' = DOMAIN users,
         \A i \in DOMAIN users :
           users'[i].username = users[i].username /\ KeepsPrimary(users[i], users'[i])
  PROVE  PrimaryKept
<1>1. \A i, j \in DOMAIN users : users[i].username = users[j].username => i = j
  BY DEF IInv, TypeOK
<1>2. QED BY <1>1 DEF PrimaryKept

(* An operation that moves records, and adds none but new names. *)
LEMMA PrimaryKeptMoved ==
  ASSUME IInv, Indexed,
         \A j \in DOMAIN users' :
           \/ \E i \in DOMAIN users : users'[j] = users[i]
           \/ \A i \in DOMAIN users : users[i].username # users'[j].username
  PROVE  PrimaryKept
<1>1. \A i, j \in DOMAIN users : users[i].username = users[j].username => i = j
  BY DEF IInv, TypeOK
<1>2. ASSUME NEW i \in DOMAIN users, NEW j \in DOMAIN users',
             users[i].username = users'[j].username
      PROVE  KeepsPrimary(users[i], users'[j])
  <2>1. PICK k \in DOMAIN users : users'[j] = users[k] BY <1>2
  <2>2. k = i BY <1>1, <1>2, <2>1
  <2>3. QED BY <2>1, <2>2 DEF KeepsPrimary
<1>3. QED BY <1>2 DEF PrimaryKept


LEMMA NextPrimaryKept ==
  ASSUME IInv, DownAfterRestart, [Next]_vars, "restart" \notin incidents', Indexed'
  PROVE  PrimaryKept
<1> Indexed BY IncidentsStay DEF Indexed
<1>1. /\ users \in Seq(User) /\ groups \in Seq(Group)
      /\ DOMAIN users = 1 .. Len(users) /\ Len(users) \in Nat
  BY LenProperties DEF IInv, TypeOK
<1>2. \A i \in DOMAIN users : users[i] \in User /\ Distinct(users[i].groups)
  <2>1. \A i \in DOMAIN users : users[i] \in User BY <1>1, ElementOfSeq
  <2>2. QED BY <2>1 DEF IInv, GidsResolve, Resolves
<1>3. users' = users => PrimaryKept BY PrimaryKeptMoved
<1>4. \A code : Refuse(code) => users' = users BY DEF Refuse, memory, userVars
<1>5. ASSUME NEW n \in Usernames \cup {Malformed}, NEW p \in Passwords \cup {Malformed},
             add_user(n, p)
      PROVE  PrimaryKept
  <2> DEFINE e == [username |-> n, uid |-> get_uid(uid_bitmap), groups |-> <<>>, password |-> p]
  <2>1. CASE users' = users BY <1>3, <2>1
  <2>2. CASE /\ n \in Usernames /\ p \in Passwords /\ username_to_idx[n] = 0
             /\ get_uid(uid_bitmap) # merr /\ users' = Append(users, e)
    <3>1. e \in User BY <2>2, NewUid, EmptySeq DEF User
    <3>2. e.username = n OBVIOUS
    <3> HIDE DEF e
    <3>3. /\ DOMAIN users' = 1 .. Len(users) + 1
          /\ \A i \in 1 .. Len(users) : users'[i] = users[i]
          /\ users'[Len(users) + 1] = e
      BY <1>1, <2>2, <3>1, AppendElements
    <3>4. ~\E i \in DOMAIN users : users[i].username = n
      BY <1>1, <2>2, UserLookup DEF IInv, IndexesExact
    <3>5. \A j \in DOMAIN users' : users'[j] = e \/ (j \in DOMAIN users /\ users'[j] = users[j])
      BY <1>1, <3>3
    <3>6. QED BY <3>2, <3>4, <3>5, PrimaryKeptMoved
  <2>3. QED BY <1>4, <1>5, <2>1, <2>2, NoUpdateStopped DEF add_user, add_user_gives_up
<1>6. ASSUME NEW n \in Usernames \cup {Malformed}, del_user(n) PROVE PrimaryKept
  <2> DEFINE k == username_to_idx[n]
  <2>1. CASE users' = users BY <1>3, <2>1
  <2>2. CASE k \in DOMAIN users /\ users' = RemoveAt(users, k)
    <3>1. k \in 1 .. Len(users) BY <1>1, <2>2
    <3> HIDE DEF k
    <3>2. PICK f \in [DOMAIN users' -> DOMAIN users \ {k}] :
            \A i \in DOMAIN users' : users'[i] = users[f[i]]
      BY <1>1, <2>2, <3>1, RemoveAtBijection
    <3>3. \A j \in DOMAIN users' : \E i \in DOMAIN users : users'[j] = users[i] BY <3>2
    <3>4. QED BY <3>3, PrimaryKeptMoved
  <2>3. QED BY <1>4, <1>6, <2>1, <2>2, NothingPastTheEnd DEF del_user
<1>7. ASSUME NEW n \in Usernames \cup {Malformed}, NEW old \in Passwords,
             NEW new \in Passwords \cup {Malformed}, set_user_password(n, old, new)
      PROVE  PrimaryKept
  <2> DEFINE k == username_to_idx[n]
  <2>1. CASE users' = users BY <1>3, <2>1
  <2>2. CASE users' = [users EXCEPT ![k].password = new]
    <3>1. DOMAIN users' = DOMAIN users BY <2>2
    <3>2. \A i \in DOMAIN users :
            users'[i].username = users[i].username /\ users'[i].groups = users[i].groups
      BY <1>2, <2>2 DEF User
    <3>3. \A i \in DOMAIN users : KeepsPrimary(users[i], users'[i])
      BY <3>2 DEF KeepsPrimary
    <3>4. QED BY <3>1, <3>2, <3>3, PrimaryKeptInPlace
  <2>3. QED BY <1>4, <1>7, <2>1, <2>2, NothingPastTheEnd DEF set_user_password
<1>8. ASSUME NEW n \in Groupnames \cup {Malformed}, add_group(n) PROVE PrimaryKept
  BY <1>3, <1>4, <1>8, NoUpdateStopped DEF add_group, add_group_gives_up, userVars
<1>9. ASSUME NEW n \in Groupnames \cup {Malformed}, del_group(n) PROVE PrimaryKept
  <2> DEFINE gid == groups[groupname_to_idx[n]].gid
  <2>1. CASE users' = users BY <1>3, <2>1
  <2>2. CASE users' = [i \in DOMAIN users |-> remove_gid_from_user(users[i], gid)]
    <3> HIDE DEF gid
    <3>1. \A i \in DOMAIN users : users'[i] = remove_gid_from_user(users[i], gid) BY <2>2
    <3>2. \A i \in DOMAIN users :
            users'[i].username = users[i].username /\ KeepsPrimary(users[i], users'[i])
      BY <1>2, <3>1, RemoveGid, RemoveGidKeepsPrimary
    <3>3. DOMAIN users' = DOMAIN users BY <2>2
    <3>4. QED BY <3>2, <3>3, PrimaryKeptInPlace
  <2>3. QED BY <1>4, <1>9, <2>1, <2>2, NothingPastTheEnd DEF del_group
<1>10. ASSUME NEW uid \in Ids, NEW gid \in Ids, add_user_to_group(uid, gid) PROVE PrimaryKept
  <2> DEFINE a == uid_to_idx[uid]
             e == [users[a] EXCEPT !.groups = joined_groups(users[a], gid)]
  <2>1. CASE users' = users BY <1>3, <2>1
  <2>2. CASE a # 0 /\ users' = [users EXCEPT ![a].groups = joined_groups(users[a], gid)]
    <3>1. a \in DOMAIN users BY <1>1, <2>2, UserLookup DEF IInv, IndexesExact
    <3>2. users' = [users EXCEPT ![a] = e] BY <2>2
    <3>3. e.username = users[a].username BY <1>2, <3>1 DEF User
    <3>4. KeepsPrimary(users[a], e) BY <1>2, <3>1, JoinedKeepsPrimary
    <3> HIDE DEF a, e
    <3>5. DOMAIN users' = DOMAIN users
          /\ \A i \in DOMAIN users : users'[i] = IF i = a THEN e ELSE users[i]
      BY <3>1, <3>2
    <3>6. \A i \in DOMAIN users :
            users'[i].username = users[i].username /\ KeepsPrimary(users[i], users'[i])
      BY <3>3, <3>4, <3>5 DEF KeepsPrimary
    <3>7. QED BY <3>5, <3>6, PrimaryKeptInPlace
  <2>3. QED BY <1>4, <1>10, <2>1, <2>2 DEF add_user_to_group
<1>11. ASSUME NEW uid \in Ids, NEW gid \in Ids, del_user_from_group(uid, gid)
       PROVE  PrimaryKept
  <2> DEFINE a == uid_to_idx[uid]
             e == remove_gid_from_user(users[a], gid)
  <2>1. CASE users' = users BY <1>3, <2>1
  <2>2. CASE a # 0 /\ users' = [users EXCEPT ![a] = e]
    <3>1. a \in DOMAIN users BY <1>1, <2>2, UserLookup DEF IInv, IndexesExact
    <3>2. e.username = users[a].username BY <1>2, <3>1, RemoveGid
    <3>3. KeepsPrimary(users[a], e) BY <1>2, <3>1, RemoveGidKeepsPrimary
    <3> HIDE DEF a, e
    <3>4. DOMAIN users' = DOMAIN users
          /\ \A i \in DOMAIN users : users'[i] = IF i = a THEN e ELSE users[i]
      BY <2>2, <3>1
    <3>5. \A i \in DOMAIN users :
            users'[i].username = users[i].username /\ KeepsPrimary(users[i], users'[i])
      BY <3>2, <3>3, <3>4 DEF KeepsPrimary
    <3>6. QED BY <3>4, <3>5, PrimaryKeptInPlace
  <2>3. QED BY <1>4, <1>11, <2>1, <2>2 DEF del_user_from_group
<1>12. CASE Save BY <1>3, <1>12 DEF Save, memory, userVars
<1>13. CASE Stop BY <1>13 DEF Stop, Ended
<1>14. CASE init_User_group_manager
  BY <1>3, <1>4, <1>14 DEF init_User_group_manager, DownAfterRestart
<1>15. CASE UNCHANGED vars BY <1>3, <1>15 DEF vars, memory, userVars
<1>16. QED
  BY <1>5, <1>6, <1>7, <1>8, <1>9, <1>10, <1>11, <1>12, <1>13, <1>14, <1>15 DEF Next

(* Joining further groups, leaving others, changes to other accounts and   *)
(* the rollbacks after failed saves never displace a user's primary group, *)
(* while the first process lives and index updates find their memory.      *)
THEOREM PrimaryGroupsAreStable == Spec => PrimaryGroupStable
<1> DEFINE A == \A i \in DOMAIN users, j \in DOMAIN users' :
                  (/\ "restart" \notin incidents' /\ Indexed' /\ users[i].uid = users'[j].uid
                   /\ users[i].username = users'[j].username /\ users[i].groups # <<>>)
                  => \/ /\ users'[j].groups # <<>> /\ users'[j].groups[1] = users[i].groups[1]
                     \/ ~user_has_group(users'[j], users[i].groups[1])
<1>1. IInv /\ DownAfterRestart /\ [Next]_vars => A
  BY NextPrimaryKept DEF PrimaryKept, KeepsPrimary
<1>2. IInv /\ DownAfterRestart /\ [Next]_vars => [A]_vars BY <1>1
<1>3. QED BY <1>2, Invariance, PTL DEF Spec, PrimaryGroupStable


-----------------------------------------------------------------------------
(* What a restart brings back *)

(* The files are those of the last save, or those that were loaded. *)
OnDisk ==
  \/ userFile = users /\ groupFile = GroupLines(groups)
  \/ /\ Loadable(userFile, groupFile)
     /\ users = LoadedUsers(userFile) /\ groups = LoadedGroups(userFile, groupFile)
SavedOrLoaded == incidents = {} /\ succeeded = TRUE => OnDisk

LEMMA SavedNow ==
  ASSUME NEW us, NEW gs, NEW o \in SaveOutcomes, save_User_group_manager(us, gs, o),
         succeeded' = TRUE
  PROVE  o = "saved" /\ userFile' = us /\ groupFile' = GroupLines(gs)
BY DEF save_User_group_manager, Return, SaveCode, SaveOutcomes

(* Whatever succeeds has been saved. *)
LEMMA SuccessIsSaved ==
  ASSUME DownAfterRestart, Next, incidents' = {}, succeeded' = TRUE
  PROVE  userFile' = users' /\ groupFile' = GroupLines(groups')
<1> DEFINE Goal == userFile' = users' /\ groupFile' = GroupLines(groups')
<1>0. Indexed' BY DEF Indexed
<1>1. ASSUME NEW us, NEW gs, NEW o \in SaveOutcomes, save_User_group_manager(us, gs, o),
             us = users', gs = groups'
      PROVE  Goal
  BY <1>1, SavedNow
<1>2. ASSUME NEW code, Refuse(code), code # "UG_SUCCESS" PROVE Goal
  BY <1>2 DEF Refuse, Return
<1> HIDE DEF Goal
<1>3. ASSUME NEW n \in Usernames \cup {Malformed}, NEW p \in Passwords \cup {Malformed},
             add_user(n, p)
      PROVE  Goal
  <2> DEFINE uid == get_uid(uid_bitmap)
             us  == Append(users, [username |-> n, uid |-> uid,
                                   groups |-> <<>>, password |-> p])
  <2>1. ASSUME NEW o \in SaveOutcomes, save_User_group_manager(us, groups, o),
               (o = "saved" /\ users' = us) \/ o # "saved", groups' = groups
        PROVE  Goal
    <3> HIDE DEF us
    <3>1. o = "saved" BY <2>1, SavedNow
    <3>2. QED BY <1>1, <2>1, <3>1
  <2> HIDE DEF us, uid
  <2>2. ~add_user_gives_up(uid, "UG_ERR_NO_MEMORY") /\ ~add_user_gives_up(uid, "UG_ERR_IO_ERROR")
    BY DEF add_user_gives_up, Return
  <2>3. QED BY <1>0, <1>2, <1>3, <2>1, <2>2, NoUpdateStopped DEF add_user, us, uid, groupVars
<1>4. ASSUME NEW n \in Usernames \cup {Malformed}, del_user(n) PROVE Goal
  BY <1>0, <1>1, <1>2, <1>4, NoUpdateStopped DEF del_user, del_user_past_the_end, SaveDeletion, Crash, Ended
<1>5. ASSUME NEW n \in Usernames \cup {Malformed}, NEW old \in Passwords,
             NEW new \in Passwords \cup {Malformed}, set_user_password(n, old, new)
      PROVE  Goal
  BY <1>1, <1>2, <1>5 DEF set_user_password, set_password_past_the_end, groupVars
<1>6. ASSUME NEW n \in Groupnames \cup {Malformed}, add_group(n) PROVE Goal
  <2> DEFINE gid == get_gid(gid_bitmap)
             gs  == Append(groups, [groupname |-> n, gid |-> gid, members |-> {}])
  <2>1. ASSUME NEW o \in SaveOutcomes, save_User_group_manager(users, gs, o),
               (o = "saved" /\ groups' = gs) \/ o # "saved", users' = users
        PROVE  Goal
    <3> HIDE DEF gs
    <3>1. o = "saved" BY <2>1, SavedNow
    <3>2. QED BY <1>1, <2>1, <3>1
  <2> HIDE DEF gs, gid
  <2>2. ~add_group_gives_up(gid, "UG_ERR_NO_MEMORY") BY DEF add_group_gives_up, Return
  <2>3. QED BY <1>0, <1>2, <1>6, <2>1, <2>2, NoUpdateStopped DEF add_group, gs, gid, userVars
<1>7. ASSUME NEW n \in Groupnames \cup {Malformed}, del_group(n) PROVE Goal
  BY <1>0, <1>1, <1>2, <1>7, NoUpdateStopped DEF del_group, del_group_past_the_end, SaveDeletion, Crash, Ended
<1>8. ASSUME NEW uid \in Ids, NEW gid \in Ids, add_user_to_group(uid, gid) PROVE Goal
  BY <1>1, <1>2, <1>8 DEF add_user_to_group, Return
<1>9. ASSUME NEW uid \in Ids, NEW gid \in Ids, del_user_from_group(uid, gid) PROVE Goal
  BY <1>1, <1>2, <1>9 DEF del_user_from_group
<1>10. CASE Save
  <2>1. users' = users /\ groups' = groups BY <1>10 DEF Save, memory, userVars, groupVars
  <2>2. PICK o \in SaveOutcomes : save_User_group_manager(users, groups, o) BY <1>10 DEF Save
  <2>3. QED BY <1>1, <2>1, <2>2 DEF Goal
<1>11. CASE Stop BY <1>11 DEF Stop, Ended
<1>12. CASE init_User_group_manager
  BY <1>12 DEF init_User_group_manager, DownAfterRestart, Refuse
<1>13. QED
  BY <1>3, <1>4, <1>5, <1>6, <1>7, <1>8, <1>9, <1>10, <1>11, <1>12 DEF Next, Goal

LEMMA NextOnDisk ==
  ASSUME DownAfterRestart, SavedOrLoaded, [Next]_vars PROVE SavedOrLoaded'
<1>1. CASE Next
  BY <1>1, SuccessIsSaved DEF SavedOrLoaded, OnDisk
<1>2. CASE UNCHANGED vars
  BY <1>2 DEF vars, memory, userVars, groupVars, files, SavedOrLoaded, OnDisk
<1>3. QED BY <1>1, <1>2

LEMMA TruncatedNothing ==
  ASSUME NEW s, NEW n \in Nat, Len(s) \in 1 .. n
  PROVE  Truncated(s, n) = s
BY DEF Truncated

(* Saving the arrays and loading them again is the identity. *)
LEMMA SaveThenLoad ==
  ASSUME IInv, FreshInstall, incidents = {},
         \A i \in DOMAIN users : Len(users[i].groups) \in 1 .. MaxGidTokens
  PROVE  /\ Loadable(users, GroupLines(groups))
         /\ LoadedUsers(users) = users
         /\ LoadedGroups(users, GroupLines(groups)) = groups
<1> DEFINE gf == GroupLines(groups)
<1> Indexed BY DEF Indexed
<1>1. users \in Seq(User) /\ groups \in Seq(Group) BY DEF IInv, TypeOK
<1>2. /\ DOMAIN users = 1 .. Len(users) /\ Len(users) \in Nat
      /\ DOMAIN groups = 1 .. Len(groups) /\ Len(groups) \in Nat
  BY <1>1, LenProperties
<1>3. /\ \A i, j \in DOMAIN users : users[i].username = users[j].username => i = j
      /\ \A i, j \in DOMAIN groups : groups[i].groupname = groups[j].groupname => i = j
  BY DEF IInv, TypeOK
<1>4. IdsAccounted!2 /\ MembershipConsistent!2
  BY DEF IInv, IdsAccounted, MembershipConsistent
<1>5. Resolves(users, groups) BY DEF IInv, GidsResolve
<1>6. \A i \in DOMAIN users : users[i] \in User BY <1>1, <1>2, ElementOfSeq
<1>7. \A j \in DOMAIN groups : groups[j] \in Group BY <1>1, <1>2, ElementOfSeq
<1>8. /\ DOMAIN gf = DOMAIN groups
      /\ \A j \in DOMAIN groups : gf[j].groupname = groups[j].groupname /\ gf[j].gid = groups[j].gid
  BY DEF GroupLines
<1>9. LoadedUsers(users) = users
  <2>1. \A i \in DOMAIN users :
          [users[i] EXCEPT !.groups = Truncated(@, MaxGidTokens)] = users[i]
    BY <1>6, ConstantAssumption, TruncatedNothing DEF User
  <2>2. LoadedUsers(users) = [i \in DOMAIN users |-> users[i]]
    BY <2>1 DEF LoadedUsers
  <2>3. QED BY <1>1, <1>2, <2>2
<1> HIDE DEF gf
<1>10. LoadedGroups(users, gf) = groups
  <2> DEFINE M(j) == {users[k].uid : k \in {l \in DOMAIN users : user_has_group(users[l], gf[j].gid)}}
  <2>1. LoadedGroups(users, gf) =
          [j \in DOMAIN groups |->
             [groupname |-> gf[j].groupname, gid |-> gf[j].gid, members |-> M(j)]]
    BY <1>8, <1>9 DEF LoadedGroups
  <2>2. ASSUME NEW j \in DOMAIN groups PROVE M(j) = groups[j].members
    <3>1. \A u \in M(j) : u \in groups[j].members BY <1>4, <1>8
    <3>2. \A u \in groups[j].members : u \in M(j)
      <4> SUFFICES ASSUME NEW u \in groups[j].members PROVE u \in M(j) OBVIOUS
      <4>1. PICK k \in DOMAIN users : users[k].uid = u BY <1>4
      <4>2. user_has_group(users[k], gf[j].gid) BY <1>4, <1>8, <4>1
      <4>3. QED BY <4>1, <4>2
    <3> HIDE DEF M
    <3>3. QED BY <3>1, <3>2
  <2> HIDE DEF M
  <2>3. \A j \in DOMAIN groups :
          [groupname |-> gf[j].groupname, gid |-> gf[j].gid, members |-> M(j)] = groups[j]
    BY <1>7, <1>8, <2>2 DEF Group
  <2>4. LoadedGroups(users, gf) = [j \in DOMAIN groups |-> groups[j]]
    BY <2>1, <2>3
  <2>5. QED BY <1>1, <1>2, <2>4
<1>11. Loadable(users, gf)
  <2>1. \A i, j \in DOMAIN gf :
          gf[i].gid = gf[j].gid \/ gf[i].groupname = gf[j].groupname => i = j
    BY <1>3, <1>4, <1>8
  <2>2. \A i \in DOMAIN users : users[i].groups # <<>> BY ConstantAssumption
  <2>3. \A i \in DOMAIN users : \A k \in DOMAIN users[i].groups :
          \E j \in DOMAIN gf : gf[j].gid = users[i].groups[k]
    BY <1>5, <1>8 DEF Resolves
  <2>4. QED BY <1>3, <1>4, <1>9, <2>1, <2>2, <2>3 DEF Loadable
<1>12. QED BY <1>9, <1>10, <1>11 DEF gf

(* A restart after a successful operation rebuilds the same users and      *)
(* groups: the files hold the arrays, the arrays are well formed, and the  *)
(* members that the files leave out follow from the users.                 *)
THEOREM RestartsRestore == Spec => []RestartRestores
<1>1. Init => SavedOrLoaded BY InitialAssumption DEF Init, SavedOrLoaded, OnDisk
<1>2. DownAfterRestart /\ SavedOrLoaded /\ [Next]_vars => SavedOrLoaded' BY NextOnDisk
<1>3. IInv /\ SavedOrLoaded => RestartRestores
  <2> SUFFICES ASSUME IInv, OnDisk, FreshInstall, incidents = {},
                      \A i \in DOMAIN users : Len(users[i].groups) \in 1 .. MaxGidTokens
               PROVE  RestartRestores!2
    BY DEF SavedOrLoaded, RestartRestores
  <2>1. QED BY SaveThenLoad DEF OnDisk
<1>4. QED BY <1>1, <1>2, <1>3, Invariance, PTL DEF Spec


-----------------------------------------------------------------------------
(* The directory by name *)

(* The password of account n, and who belongs to which group, as functions *)
(* of the arrays.                                                          *)
PasswordIn(us) ==
  [n \in Usernames |->
     IF \E i \in DOMAIN us : us[i].username = n
     THEN us[CHOOSE i \in DOMAIN us : us[i].username = n].password
     ELSE NoAccount]
Belongs(us, gs, u, g) ==
  \E i \in DOMAIN us, j \in DOMAIN gs :
    /\ us[i].username = u /\ gs[j].groupname = g
    /\ user_has_group(us[i], gs[j].gid)
NamesOf(gs) == {gs[j].groupname : j \in DOMAIN gs}

UsersNamedOnce(us) ==
  \A i, j \in DOMAIN us : us[i].username = us[j].username => i = j
GroupsNamedOnce(gs) ==
  \A i, j \in DOMAIN gs : gs[i].groupname = gs[j].groupname => i = j
GidsOnce(gs) == \A i, j \in DOMAIN gs : gs[i].gid = gs[j].gid => i = j

LEMMA PasswordLookup ==
  ASSUME NEW us \in Seq(User), UsersNamedOnce(us)
  PROVE  /\ PasswordIn(us) \in [Usernames -> Passwords \cup {NoAccount}]
         /\ \A i \in DOMAIN us :
              /\ us[i].username \in Usernames /\ us[i].password \in Passwords
              /\ PasswordIn(us)[us[i].username] = us[i].password
         /\ \A n \in Usernames :
              PasswordIn(us)[n] # NoAccount <=> \E i \in DOMAIN us : us[i].username = n
<1>1. DOMAIN us = 1 .. Len(us) BY LenProperties
<1>2. \A i \in DOMAIN us : us[i] \in User BY <1>1, ElementOfSeq
<1>3. \A i \in DOMAIN us : us[i].username \in Usernames /\ us[i].password \in Passwords
  BY <1>2 DEF User
<1>4. ASSUME NEW i \in DOMAIN us
      PROVE  PasswordIn(us)[us[i].username] = us[i].password
  <2> DEFINE c == CHOOSE j \in DOMAIN us : us[j].username = us[i].username
  <2>1. c \in DOMAIN us /\ us[c].username = us[i].username OBVIOUS
  <2>2. PasswordIn(us)[us[i].username] = us[c].password BY <1>3 DEF PasswordIn
  <2> HIDE DEF c
  <2>3. c = i BY <2>1 DEF UsersNamedOnce
  <2>4. QED BY <2>2, <2>3
<1>5. ASSUME NEW n \in Usernames, ~\E i \in DOMAIN us : us[i].username = n
      PROVE  PasswordIn(us)[n] = NoAccount
  BY <1>5 DEF PasswordIn
<1>6. NoAccount \notin Passwords BY ConstantAssumption DEF NoAccount
<1>7. \A n \in Usernames :
        PasswordIn(us)[n] # NoAccount <=> \E i \in DOMAIN us : us[i].username = n
  BY <1>3, <1>4, <1>5, <1>6
<1>8. \A n \in Usernames : PasswordIn(us)[n] \in Passwords \cup {NoAccount}
  BY <1>3, <1>4, <1>7
<1>9. DOMAIN PasswordIn(us) = Usernames
      /\ PasswordIn(us) = [n \in Usernames |-> PasswordIn(us)[n]]
  BY DEF PasswordIn
<1>10. QED BY <1>3, <1>4, <1>7, <1>8, <1>9

(* Changing one account: the others have the password they had. *)
OthersKept(us, vs, n) ==
  /\ \A i \in DOMAIN us : us[i].username # n =>
       \E j \in DOMAIN vs :
         vs[j].username = us[i].username /\ vs[j].password = us[i].password
  /\ \A j \in DOMAIN vs : vs[j].username # n =>
       \E i \in DOMAIN us : us[i].username = vs[j].username

AccountSet(us, vs, n, p) == PasswordIn(vs) = [PasswordIn(us) EXCEPT ![n] = p]

LEMMA PasswordChange ==
  ASSUME NEW us \in Seq(User), UsersNamedOnce(us), NEW vs \in Seq(User), UsersNamedOnce(vs),
         NEW n \in Usernames, OthersKept(us, vs, n), NEW p, PasswordIn(vs)[n] = p
  PROVE  AccountSet(us, vs, n, p)
<1>1. ASSUME NEW m \in Usernames, m # n
      PROVE  PasswordIn(vs)[m] = PasswordIn(us)[m]
  <2>1. CASE \E i \in DOMAIN us : us[i].username = m
    <3>1. PICK i \in DOMAIN us : us[i].username = m BY <2>1
    <3>2. PICK j \in DOMAIN vs : vs[j].username = m /\ vs[j].password = us[i].password
      BY <1>1, <3>1 DEF OthersKept
    <3>3. PasswordIn(us)[us[i].username] = us[i].password BY PasswordLookup
    <3>4. PasswordIn(vs)[vs[j].username] = vs[j].password BY PasswordLookup
    <3>5. QED BY <3>1, <3>2, <3>3, <3>4
  <2>2. CASE ~\E i \in DOMAIN us : us[i].username = m
    <3>1. ~\E j \in DOMAIN vs : vs[j].username = m BY <1>1, <2>2 DEF OthersKept
    <3>2. PasswordIn(us)[m] = NoAccount BY <2>2 DEF PasswordIn
    <3>3. PasswordIn(vs)[m] = NoAccount BY <3>1 DEF PasswordIn
    <3>4. QED BY <3>2, <3>3
  <2>3. QED BY <2>1, <2>2
<1>2. /\ PasswordIn(us) \in [Usernames -> Passwords \cup {NoAccount}]
      /\ PasswordIn(vs) \in [Usernames -> Passwords \cup {NoAccount}]
  BY PasswordLookup
<1>3. QED BY <1>1, <1>2 DEF AccountSet

(* With unique names, membership can be read at the two positions. *)
LEMMA BelongsAt ==
  ASSUME NEW us, NEW gs, UsersNamedOnce(us), GroupsNamedOnce(gs),
         NEW i \in DOMAIN us, NEW j \in DOMAIN gs
  PROVE  Belongs(us, gs, us[i].username, gs[j].groupname) <=> user_has_group(us[i], gs[j].gid)
<1>1. \A k \in DOMAIN us : us[k].username = us[i].username => k = i BY DEF UsersNamedOnce
<1>2. \A k \in DOMAIN gs : gs[k].groupname = gs[j].groupname => k = j BY DEF GroupsNamedOnce
<1>3. QED BY <1>1, <1>2 DEF Belongs

LEMMA AbstractView ==
  /\ AbstractPassword = PasswordIn(users)
  /\ AbstractMember = {m \in Usernames \X Groupnames : Belongs(users, groups, m[1], m[2])}
  /\ {groups[i].groupname : i \in DOMAIN groups} = NamesOf(groups)
BY DEF AbstractPassword, PasswordIn, AbstractMember, Belongs, NamesOf

(* What the steps need of a state in which the promise is live. *)
Promised ==
  /\ users \in Seq(User) /\ groups \in Seq(Group)
  /\ UsersNamedOnce(users) /\ GroupsNamedOnce(groups) /\ GidsOnce(groups)
  /\ Resolves(users, groups)
  /\ incidents = {}

LEMMA PromisedState ==
  ASSUME IInv, FreshInstall, incidents = {} PROVE Promised
BY DEF IInv, TypeOK, GidsResolve, IdsAccounted, Indexed, Promised,
       UsersNamedOnce, GroupsNamedOnce, GidsOnce

LEMMA PromisedIndexes ==
  ASSUME Promised, IndexesExact
  PROVE  /\ username_to_idx = UsernameIndex(users) /\ uid_to_idx = UidIndex(users)
         /\ groupname_to_idx = GroupnameIndex(groups) /\ gid_to_idx = GidIndex(groups)
BY DEF Promised, IndexesExact, Indexed


LEMMA AbstractViewNext ==
  /\ AbstractPassword' = PasswordIn(users')
  /\ AbstractMember' = {m \in Usernames \X Groupnames : Belongs(users', groups', m[1], m[2])}
  /\ {groups[i].groupname : i \in DOMAIN groups}' = NamesOf(groups')
BY DEF AbstractPassword, PasswordIn, AbstractMember, Belongs, NamesOf

PasswordsKept == PasswordIn(users') = PasswordIn(users)
NamesKept == NamesOf(groups') = NamesOf(groups)
MembersKept ==
  \A u \in Usernames, g \in Groupnames :
    Belongs(users', groups', u, g) <=> Belongs(users, groups, u, g)

LEMMA MembersKeptView == ASSUME MembersKept PROVE AbstractMember' = AbstractMember
<1>1. \A m \in Usernames \X Groupnames :
        Belongs(users', groups', m[1], m[2]) <=> Belongs(users, groups, m[1], m[2])
  BY DEF MembersKept
<1>2. QED BY <1>1, AbstractView, AbstractViewNext

(* Each operation of the directory, from what it means for the arrays. *)
LEMMA OpenView ==
  ASSUME NEW n \in Usernames, NEW p, PasswordIn(users)[n] = NoAccount,
         AccountSet(users, users', n, p), NamesKept, MembersKept
  PROVE  D!Open(n, p)
<1>1. AbstractMember' = AbstractMember BY MembersKeptView
<1>2. QED BY <1>1, AbstractView, AbstractViewNext DEF D!Open, NamesKept, AccountSet

LEMMA ChangeView ==
  ASSUME NEW n \in Usernames, NEW p, PasswordIn(users)[n] # NoAccount,
         AccountSet(users, users', n, p), NamesKept, MembersKept
  PROVE  D!ChangePassword(n, p)
<1>1. AbstractMember' = AbstractMember BY MembersKeptView
<1>2. QED BY <1>1, AbstractView, AbstractViewNext DEF D!ChangePassword, NamesKept, AccountSet

LEMMA CloseView ==
  ASSUME NEW n \in Usernames, PasswordIn(users)[n] # NoAccount,
         AccountSet(users, users', n, NoAccount), NamesKept,
         \A u \in Usernames, g \in Groupnames :
           Belongs(users', groups', u, g) <=> Belongs(users, groups, u, g) /\ u # n
  PROVE  D!Close(n)
<1>1. AbstractMember' = {m \in AbstractMember : m[1] # n}
  <2>1. \A m \in Usernames \X Groupnames :
          Belongs(users', groups', m[1], m[2]) <=> Belongs(users, groups, m[1], m[2]) /\ m[1] # n
    OBVIOUS
  <2>2. QED BY <2>1, AbstractView, AbstractViewNext
<1>2. QED BY <1>1, AbstractView, AbstractViewNext DEF D!Close, NamesKept, AccountSet

LEMMA FoundView ==
  ASSUME NEW g, g \notin NamesOf(groups), NamesOf(groups') = NamesOf(groups) \cup {g},
         PasswordsKept, MembersKept
  PROVE  D!Found(g)
<1>1. AbstractMember' = AbstractMember BY MembersKeptView
<1>2. QED BY <1>1, AbstractView, AbstractViewNext DEF D!Found, PasswordsKept

LEMMA DissolveView ==
  ASSUME NEW g, g \in NamesOf(groups), NamesOf(groups') = NamesOf(groups) \ {g},
         PasswordsKept,
         \A u \in Usernames, h \in Groupnames :
           Belongs(users', groups', u, h) <=> Belongs(users, groups, u, h) /\ h # g
  PROVE  D!Dissolve(g)
<1>1. AbstractMember' = {m \in AbstractMember : m[2] # g}
  <2>1. \A m \in Usernames \X Groupnames :
          Belongs(users', groups', m[1], m[2]) <=> Belongs(users, groups, m[1], m[2]) /\ m[2] # g
    OBVIOUS
  <2>2. QED BY <2>1, AbstractView, AbstractViewNext
<1>2. QED BY <1>1, AbstractView, AbstractViewNext DEF D!Dissolve, PasswordsKept

LEMMA JoinView ==
  ASSUME NEW n \in Usernames, NEW g \in Groupnames,
         PasswordIn(users)[n] # NoAccount, g \in NamesOf(groups),
         PasswordsKept, NamesKept,
         \A u \in Usernames, h \in Groupnames :
           Belongs(users', groups', u, h) <=> Belongs(users, groups, u, h) \/ (u = n /\ h = g)
  PROVE  D!Join(n, g)
<1>1. AbstractMember' = AbstractMember \cup {<<n, g>>}
  <2>1. \A m \in Usernames \X Groupnames :
          Belongs(users', groups', m[1], m[2])
            <=> Belongs(users, groups, m[1], m[2]) \/ m = <<n, g>>
    OBVIOUS
  <2>2. QED BY <2>1, AbstractView, AbstractViewNext
<1>2. QED BY <1>1, AbstractView, AbstractViewNext DEF D!Join, PasswordsKept, NamesKept

LEMMA LeaveView ==
  ASSUME NEW n \in Usernames, NEW g \in Groupnames,
         PasswordIn(users)[n] # NoAccount, g \in NamesOf(groups),
         PasswordsKept, NamesKept,
         \A u \in Usernames, h \in Groupnames :
           Belongs(users', groups', u, h) <=> Belongs(users, groups, u, h) /\ ~(u = n /\ h = g)
  PROVE  D!Leave(n, g)
<1>1. AbstractMember' = AbstractMember \ {<<n, g>>}
  <2>1. \A m \in Usernames \X Groupnames :
          Belongs(users', groups', m[1], m[2])
            <=> Belongs(users, groups, m[1], m[2]) /\ m # <<n, g>>
    OBVIOUS
  <2>2. QED BY <2>1, AbstractView, AbstractViewNext
<1>2. QED BY <1>1, AbstractView, AbstractViewNext DEF D!Leave, PasswordsKept, NamesKept

(* The steps in which the promise holds before and after. *)
Operation ==
  \/ \E n \in Usernames, p \in Passwords : D!Open(n, p) \/ D!ChangePassword(n, p)
  \/ \E n \in Usernames : D!Close(n)
  \/ \E g \in Groupnames : D!Found(g) \/ D!Dissolve(g)
  \/ \E n \in Usernames, g \in Groupnames : D!Join(n, g) \/ D!Leave(n, g)
DirectoryUnchanged ==
  UNCHANGED <<AbstractPassword, {groups[i].groupname : i \in DOMAIN groups}, AbstractMember>>

LEMMA ArraysKept ==
  ASSUME users' = users, groups' = groups PROVE DirectoryUnchanged
BY AbstractView, AbstractViewNext DEF DirectoryUnchanged


LEMMA PromisedTypes ==
  ASSUME Promised
  PROVE  /\ DOMAIN users = 1 .. Len(users) /\ Len(users) \in Nat
         /\ DOMAIN groups = 1 .. Len(groups) /\ Len(groups) \in Nat
         /\ \A i \in DOMAIN users : users[i] \in User /\ Distinct(users[i].groups)
         /\ \A j \in DOMAIN groups : groups[j] \in Group
<1>1. /\ DOMAIN users = 1 .. Len(users) /\ Len(users) \in Nat
      /\ DOMAIN groups = 1 .. Len(groups) /\ Len(groups) \in Nat
  BY LenProperties DEF Promised
<1>2. /\ \A i \in DOMAIN users : users[i] \in User
      /\ \A j \in DOMAIN groups : groups[j] \in Group
  BY <1>1, ElementOfSeq DEF Promised
<1>3. QED BY <1>1, <1>2 DEF Promised, Resolves

LEMMA AddUserView ==
  ASSUME Promised, Promised', IndexesExact,
         NEW n \in Usernames, NEW p \in Passwords, username_to_idx[n] = 0, NEW uid \in Ids,
         users' = Append(users, [username |-> n, uid |-> uid, groups |-> <<>>, password |-> p]),
         groups' = groups
  PROVE  D!Open(n, p)
<1> DEFINE e == [username |-> n, uid |-> uid, groups |-> <<>>, password |-> p]
<1>1. e \in User BY EmptySeq DEF User
<1>2. e.username = n /\ e.password = p /\ e.groups = <<>> OBVIOUS
<1> HIDE DEF e
<1>3. users \in Seq(User) /\ UsersNamedOnce(users) BY DEF Promised
<1>4. users' \in Seq(User) /\ UsersNamedOnce(users') BY DEF Promised
<1>5. DOMAIN users = 1 .. Len(users) /\ Len(users) \in Nat BY PromisedTypes
<1>6. users' = Append(users, e) BY DEF e
<1>7. /\ DOMAIN users' = 1 .. Len(users) + 1
      /\ \A i \in 1 .. Len(users) : users'[i] = users[i]
      /\ users'[Len(users) + 1] = e
  BY <1>1, <1>3, <1>6, AppendElements
<1>8. ~\E i \in DOMAIN users : users[i].username = n BY <1>3, UserLookup, PromisedIndexes
<1>9. \A j \in DOMAIN users' : users'[j] = e \/ (j \in DOMAIN users /\ users'[j] = users[j])
  BY <1>5, <1>7
<1>10. \A i \in DOMAIN users : i \in DOMAIN users' /\ users'[i] = users[i] BY <1>5, <1>7
<1>11. Len(users) + 1 \in DOMAIN users' /\ users'[Len(users) + 1] = e BY <1>5, <1>7
<1>12. PasswordIn(users)[n] = NoAccount BY <1>3, <1>8, PasswordLookup
<1>13. PasswordIn(users')[n] = p
  <2>1. \A j \in DOMAIN users' : PasswordIn(users')[users'[j].username] = users'[j].password
    BY <1>4, PasswordLookup
  <2>2. QED BY <1>2, <1>11, <2>1
<1>14. AccountSet(users, users', n, p)
  <2>1. OthersKept(users, users', n) BY <1>2, <1>9, <1>10 DEF OthersKept
  <2>2. QED BY <1>3, <1>4, <1>13, <2>1, PasswordChange
<1>15. NamesKept BY DEF NamesKept, NamesOf
<1>16. MembersKept
  <2>1. \A gid : ~user_has_group(e, gid) BY <1>2 DEF user_has_group, Contains
  <2>2. ASSUME NEW u \in Usernames, NEW g \in Groupnames
        PROVE  Belongs(users', groups, u, g) <=> Belongs(users, groups, u, g)
    BY <1>9, <1>10, <2>1 DEF Belongs
  <2>3. QED BY <2>2 DEF MembersKept
<1>17. QED BY <1>12, <1>14, <1>15, <1>16, OpenView

LEMMA SetPasswordView ==
  ASSUME Promised, Promised', IndexesExact,
         NEW n \in Usernames, NEW p \in Passwords, username_to_idx[n] # 0,
         users' = [users EXCEPT ![username_to_idx[n]].password = p], groups' = groups
  PROVE  D!ChangePassword(n, p)
<1> DEFINE k == username_to_idx[n]
<1>1. users \in Seq(User) /\ UsersNamedOnce(users) BY DEF Promised
<1>2. users' \in Seq(User) /\ UsersNamedOnce(users') BY DEF Promised
<1>3. /\ DOMAIN users = 1 .. Len(users)
      /\ \A i \in DOMAIN users : users[i] \in User
  BY PromisedTypes
<1>4. k \in DOMAIN users /\ users[k].username = n
  BY <1>1, <1>3, UserLookup, PromisedIndexes
<1> HIDE DEF k
<1>5. users' = [users EXCEPT ![k].password = p] BY DEF k
<1>6. DOMAIN users' = DOMAIN users BY <1>5
<1>7. \A i \in DOMAIN users :
        /\ users'[i].username = users[i].username /\ users'[i].groups = users[i].groups
        /\ users'[i].password = IF i = k THEN p ELSE users[i].password
  BY <1>3, <1>5 DEF User
<1>8. PasswordIn(users)[n] # NoAccount BY <1>1, <1>4, PasswordLookup
<1>9. AccountSet(users, users', n, p)
  <2>1. OthersKept(users, users', n) BY <1>4, <1>6, <1>7 DEF OthersKept
  <2>3. \A j \in DOMAIN users' : PasswordIn(users')[users'[j].username] = users'[j].password
    BY <1>2, PasswordLookup
  <2>4. k \in DOMAIN users' /\ users'[k].username = n /\ users'[k].password = p
    BY <1>4, <1>6, <1>7
  <2>5. PasswordIn(users')[n] = p BY <2>3, <2>4
  <2>6. QED BY <1>1, <1>2, <2>1, <2>5, PasswordChange
<1>10. NamesKept BY DEF NamesKept, NamesOf
<1>11. MembersKept BY <1>6, <1>7 DEF MembersKept, Belongs, user_has_group
<1>12. QED BY <1>8, <1>9, <1>10, <1>11, ChangeView

LEMMA DelUserView ==
  ASSUME Promised, Promised', IndexesExact, NEW n \in Usernames, username_to_idx[n] # 0,
         users' = RemoveAt(users, username_to_idx[n]), NEW uid,
         groups' = [j \in DOMAIN groups |-> remove_uid_from_group(groups[j], uid)]
  PROVE  D!Close(n)
<1> DEFINE k == username_to_idx[n]
<1>1. users \in Seq(User) /\ UsersNamedOnce(users) BY DEF Promised
<1>2. users' \in Seq(User) /\ UsersNamedOnce(users') BY DEF Promised
<1>3. /\ DOMAIN users = 1 .. Len(users)
      /\ \A j \in DOMAIN groups : groups[j] \in Group
  BY PromisedTypes
<1>4. k \in 1 .. Len(users) /\ k \in DOMAIN users /\ users[k].username = n
  BY <1>1, <1>3, UserLookup, PromisedIndexes
<1> HIDE DEF k
<1>5. PICK f \in [DOMAIN users' -> DOMAIN users \ {k}] :
        /\ \A i \in DOMAIN users' : users'[i] = users[f[i]]
        /\ \A i, j \in DOMAIN users' : f[i] = f[j] => i = j
        /\ \A m \in DOMAIN users \ {k} : \E i \in DOMAIN users' : f[i] = m
  BY <1>1, <1>4, RemoveAtBijection, SMTT(30) DEF k
<1>6. \A i \in DOMAIN users' : \E m \in DOMAIN users :
        users'[i] = users[m] /\ users[m].username # n
  BY <1>1, <1>4, <1>5 DEF UsersNamedOnce
<1>7. \A m \in DOMAIN users : users[m].username # n =>
        \E i \in DOMAIN users' : users'[i] = users[m]
  BY <1>4, <1>5
<1>8. /\ DOMAIN groups' = DOMAIN groups
      /\ \A j \in DOMAIN groups :
           groups'[j].groupname = groups[j].groupname /\ groups'[j].gid = groups[j].gid
  BY <1>3, RemoveUid
<1>9. PasswordIn(users)[n] # NoAccount BY <1>1, <1>4, PasswordLookup
<1>10. AccountSet(users, users', n, NoAccount)
  <2>1. OthersKept(users, users', n) BY <1>6, <1>7 DEF OthersKept
  <2>2. PasswordIn(users')[n] = NoAccount BY <1>2, <1>6, PasswordLookup
  <2>3. QED BY <1>1, <1>2, <2>1, <2>2, PasswordChange
<1>11. NamesKept BY <1>8 DEF NamesKept, NamesOf
<1>12. ASSUME NEW u \in Usernames, NEW g \in Groupnames
       PROVE  Belongs(users', groups', u, g) <=> Belongs(users, groups, u, g) /\ u # n
  <2>1. Belongs(users', groups', u, g) => Belongs(users, groups, u, g) /\ u # n
    BY <1>6, <1>8 DEF Belongs
  <2>2. Belongs(users, groups, u, g) /\ u # n => Belongs(users', groups', u, g)
    BY <1>7, <1>8 DEF Belongs
  <2>3. QED BY <2>1, <2>2
<1>13. QED BY <1>9, <1>10, <1>11, <1>12, CloseView

LEMMA AddGroupView ==
  ASSUME Promised, Promised', IndexesExact,
         NEW n \in Groupnames, groupname_to_idx[n] = 0, NEW gid \in Ids,
         groups' = Append(groups, [groupname |-> n, gid |-> gid, members |-> {}]),
         users' = users
  PROVE  D!Found(n)
<1> DEFINE e == [groupname |-> n, gid |-> gid, members |-> {}]
<1>1. e \in Group BY DEF Group
<1>2. e.groupname = n /\ e.gid = gid OBVIOUS
<1> HIDE DEF e
<1>3. groups \in Seq(Group) BY DEF Promised
<1>4. DOMAIN groups = 1 .. Len(groups) /\ Len(groups) \in Nat BY PromisedTypes
<1>5. groups' = Append(groups, e) BY DEF e
<1>6. /\ DOMAIN groups' = 1 .. Len(groups) + 1
      /\ \A i \in 1 .. Len(groups) : groups'[i] = groups[i]
      /\ groups'[Len(groups) + 1] = e
  BY <1>1, <1>3, <1>5, AppendElements
<1>7. ~\E i \in DOMAIN groups : groups[i].groupname = n BY <1>3, GroupLookup, PromisedIndexes
<1>8. \A j \in DOMAIN groups' : groups'[j] = e \/ (j \in DOMAIN groups /\ groups'[j] = groups[j])
  BY <1>4, <1>6
<1>9. \A j \in DOMAIN groups : j \in DOMAIN groups' /\ groups'[j] = groups[j] BY <1>4, <1>6
<1>10. Len(groups) + 1 \in DOMAIN groups' /\ Len(groups) + 1 \notin DOMAIN groups
       /\ groups'[Len(groups) + 1] = e
  BY <1>4, <1>6
<1>11. \A j \in DOMAIN groups : groups[j].gid # gid
  <2>1. GidsOnce(groups)' BY DEF Promised
  <2>2. QED BY <1>2, <1>9, <1>10, <2>1 DEF GidsOnce
<1>12. \A i \in DOMAIN users : ~user_has_group(users[i], gid)
  <2>1. Resolves(users, groups) BY DEF Promised
  <2>2. \A i \in DOMAIN users : \A k \in DOMAIN users[i].groups :
          \E j \in DOMAIN groups : groups[j].gid = users[i].groups[k]
    BY <2>1 DEF Resolves
  <2>3. QED BY <1>11, <2>2 DEF user_has_group, Contains
<1>13. n \notin NamesOf(groups) BY <1>7 DEF NamesOf
<1>14. NamesOf(groups') = NamesOf(groups) \cup {n}
  BY <1>2, <1>8, <1>9, <1>10 DEF NamesOf
<1>15. PasswordsKept BY DEF PasswordsKept
<1>16. MembersKept
  <2>1. ASSUME NEW u \in Usernames, NEW g \in Groupnames
        PROVE  Belongs(users, groups', u, g) <=> Belongs(users, groups, u, g)
    BY <1>2, <1>8, <1>9, <1>12 DEF Belongs
  <2>2. QED BY <2>1 DEF MembersKept
<1>17. QED BY <1>13, <1>14, <1>15, <1>16, FoundView


LEMMA SamePasswords ==
  ASSUME Promised, Promised', DOMAIN users' = DOMAIN users,
         \A i \in DOMAIN users :
           users'[i].username = users[i].username /\ users'[i].password = users[i].password
  PROVE  PasswordsKept
<1>1. users \in Seq(User) /\ UsersNamedOnce(users) BY DEF Promised
<1>2. users' \in Seq(User) /\ UsersNamedOnce(users') BY DEF Promised
<1>3. /\ PasswordIn(users) \in [Usernames -> Passwords \cup {NoAccount}]
      /\ \A i \in DOMAIN users : PasswordIn(users)[users[i].username] = users[i].password
      /\ \A n \in Usernames :
           PasswordIn(users)[n] # NoAccount <=> \E i \in DOMAIN users : users[i].username = n
  BY <1>1, PasswordLookup
<1>4. /\ PasswordIn(users') \in [Usernames -> Passwords \cup {NoAccount}]
      /\ \A i \in DOMAIN users' : PasswordIn(users')[users'[i].username] = users'[i].password
      /\ \A n \in Usernames :
           PasswordIn(users')[n] # NoAccount <=> \E i \in DOMAIN users' : users'[i].username = n
  BY <1>2, PasswordLookup
<1>5. ASSUME NEW n \in Usernames PROVE PasswordIn(users')[n] = PasswordIn(users)[n]
  <2>1. CASE \E i \in DOMAIN users : users[i].username = n BY <1>3, <1>4, <2>1
  <2>2. CASE ~\E i \in DOMAIN users : users[i].username = n BY <1>3, <1>4, <2>2
  <2>3. QED BY <2>1, <2>2
<1>6. QED BY <1>3, <1>4, <1>5 DEF PasswordsKept

LEMMA DelGroupView ==
  ASSUME Promised, Promised', IndexesExact, NEW n \in Groupnames, groupname_to_idx[n] # 0,
         users' = [i \in DOMAIN users |->
                     remove_gid_from_user(users[i], groups[groupname_to_idx[n]].gid)],
         groups' = RemoveAt(groups, groupname_to_idx[n])
  PROVE  D!Dissolve(n)
<1> DEFINE k   == groupname_to_idx[n]
           gid == groups[k].gid
<1>1. groups \in Seq(Group) /\ GroupsNamedOnce(groups) /\ GidsOnce(groups) BY DEF Promised
<1>2. /\ DOMAIN groups = 1 .. Len(groups)
      /\ \A i \in DOMAIN users : users[i] \in User /\ Distinct(users[i].groups)
  BY PromisedTypes
<1>3. k \in 1 .. Len(groups) /\ k \in DOMAIN groups /\ groups[k].groupname = n
  BY <1>1, <1>2, GroupLookup, PromisedIndexes
<1>4. /\ DOMAIN users' = DOMAIN users
      /\ \A i \in DOMAIN users : users'[i] = remove_gid_from_user(users[i], gid)
      /\ groups' = RemoveAt(groups, k)
  OBVIOUS
<1> HIDE DEF k, gid
<1>5. \A i \in DOMAIN users :
        users'[i].username = users[i].username /\ users'[i].password = users[i].password
  BY <1>2, <1>4, RemoveGid
<1>6. \A i \in DOMAIN users : \A g :
        user_has_group(users'[i], g) <=> user_has_group(users[i], g) /\ g # gid
  <2>1. ASSUME NEW i \in DOMAIN users
        PROVE  \A g : Contains(users'[i].groups, g) <=> Contains(users[i].groups, g) /\ g # gid
    BY <1>2, <1>4, RemoveGid
  <2>2. QED BY <2>1 DEF user_has_group
<1>7. PICK f \in [DOMAIN groups' -> DOMAIN groups \ {k}] :
        /\ \A i \in DOMAIN groups' : groups'[i] = groups[f[i]]
        /\ \A i, j \in DOMAIN groups' : f[i] = f[j] => i = j
        /\ \A m \in DOMAIN groups \ {k} : \E i \in DOMAIN groups' : f[i] = m
  BY <1>1, <1>3, <1>4, RemoveAtBijection
<1>8. \A j \in DOMAIN groups' : \E m \in DOMAIN groups :
        groups'[j] = groups[m] /\ groups[m].groupname # n /\ groups[m].gid # gid
  BY <1>1, <1>3, <1>7 DEF GroupsNamedOnce, GidsOnce, gid
<1>9. \A m \in DOMAIN groups : groups[m].groupname # n =>
        \E j \in DOMAIN groups' : groups'[j] = groups[m]
  BY <1>3, <1>7
<1>10. PasswordsKept BY <1>4, <1>5, SamePasswords
<1>11. n \in NamesOf(groups) BY <1>3 DEF NamesOf
<1>12. NamesOf(groups') = NamesOf(groups) \ {n} BY <1>8, <1>9 DEF NamesOf
<1>13. \A m \in DOMAIN groups : groups[m].groupname # n => groups[m].gid # gid
  BY <1>1, <1>3 DEF GidsOnce, gid
<1>14. ASSUME NEW u \in Usernames, NEW h \in Groupnames
       PROVE  Belongs(users', groups', u, h) <=> Belongs(users, groups, u, h) /\ h # n
  <2>1. Belongs(users', groups', u, h) => Belongs(users, groups, u, h) /\ h # n
    <3> SUFFICES ASSUME Belongs(users', groups', u, h)
                 PROVE  Belongs(users, groups, u, h) /\ h # n
      OBVIOUS
    <3>1. PICK i \in DOMAIN users', j \in DOMAIN groups' :
            /\ users'[i].username = u /\ groups'[j].groupname = h
            /\ user_has_group(users'[i], groups'[j].gid)
      BY DEF Belongs
    <3>2. PICK m \in DOMAIN groups : groups'[j] = groups[m] /\ groups[m].groupname # n
      BY <1>8
    <3>3. user_has_group(users[i], groups[m].gid) BY <1>4, <1>6, <3>1, <3>2
    <3>4. QED BY <1>4, <1>5, <3>1, <3>2, <3>3 DEF Belongs
  <2>2. Belongs(users, groups, u, h) /\ h # n => Belongs(users', groups', u, h)
    <3> SUFFICES ASSUME Belongs(users, groups, u, h), h # n
                 PROVE  Belongs(users', groups', u, h)
      OBVIOUS
    <3>1. PICK i \in DOMAIN users, m \in DOMAIN groups :
            /\ users[i].username = u /\ groups[m].groupname = h
            /\ user_has_group(users[i], groups[m].gid)
      BY DEF Belongs
    <3>2. PICK j \in DOMAIN groups' : groups'[j] = groups[m] BY <1>9, <3>1
    <3>3. user_has_group(users'[i], groups[m].gid) BY <1>6, <1>13, <3>1
    <3>4. QED BY <1>4, <1>5, <3>1, <3>2, <3>3 DEF Belongs
  <2>3. QED BY <2>1, <2>2
<1>15. QED BY <1>10, <1>11, <1>12, <1>14, DissolveView

(* Changing the list of one user and the members of one group in place: the *)
(* relation changes at the pair of their names.                            *)
PairBecomes(a, b, now) ==
  \A i \in DOMAIN users, j \in DOMAIN groups :
    user_has_group(users'[i], groups[j].gid)
      <=> IF i = a /\ j = b THEN now = "in" ELSE user_has_group(users[i], groups[j].gid)
NamesBecome(n, g, now) ==
  \A u \in Usernames, h \in Groupnames :
    Belongs(users', groups', u, h)
      <=> IF u = n /\ h = g THEN now = "in" ELSE Belongs(users, groups, u, h)

LEMMA PairView ==
  ASSUME Promised, Promised', NEW a \in DOMAIN users, NEW b \in DOMAIN groups,
         DOMAIN users' = DOMAIN users, DOMAIN groups' = DOMAIN groups,
         \A i \in DOMAIN users :
           users'[i].username = users[i].username /\ users'[i].password = users[i].password,
         \A j \in DOMAIN groups :
           groups'[j].groupname = groups[j].groupname /\ groups'[j].gid = groups[j].gid,
         NEW now, PairBecomes(a, b, now)
  PROVE  /\ users[a].username \in Usernames /\ groups[b].groupname \in Groupnames
         /\ PasswordIn(users)[users[a].username] # NoAccount
         /\ groups[b].groupname \in NamesOf(groups)
         /\ PasswordsKept /\ NamesKept
         /\ NamesBecome(users[a].username, groups[b].groupname, now)
<1>1. users \in Seq(User) /\ UsersNamedOnce(users) /\ GroupsNamedOnce(groups) BY DEF Promised
<1>2. UsersNamedOnce(users') /\ GroupsNamedOnce(groups') BY DEF Promised
<1>3. /\ users[a].username \in Usernames /\ groups[b].groupname \in Groupnames
      /\ \A i \in DOMAIN users : users[i].username \in Usernames
  BY PromisedTypes DEF User, Group
<1>4. PasswordIn(users)[users[a].username] # NoAccount BY <1>1, <1>3, PasswordLookup
<1>5. groups[b].groupname \in NamesOf(groups) BY DEF NamesOf
<1>6. PasswordsKept BY SamePasswords
<1>7. NamesKept BY DEF NamesKept, NamesOf
<1>8. ASSUME NEW u \in Usernames, NEW h \in Groupnames
      PROVE  Belongs(users', groups', u, h)
               <=> IF u = users[a].username /\ h = groups[b].groupname THEN now = "in"
                   ELSE Belongs(users, groups, u, h)
  <2>1. CASE \E i \in DOMAIN users, j \in DOMAIN groups :
               users[i].username = u /\ groups[j].groupname = h
    <3>1. PICK i \in DOMAIN users, j \in DOMAIN groups :
            users[i].username = u /\ groups[j].groupname = h
      BY <2>1
    <3>2. u = users[a].username /\ h = groups[b].groupname <=> i = a /\ j = b
      BY <1>1, <3>1 DEF UsersNamedOnce, GroupsNamedOnce
    <3>3. Belongs(users, groups, u, h) <=> user_has_group(users[i], groups[j].gid)
      BY <1>1, <3>1, BelongsAt
    <3>4. /\ i \in DOMAIN users' /\ users'[i].username = u
          /\ j \in DOMAIN groups' /\ groups'[j].groupname = h /\ groups'[j].gid = groups[j].gid
      BY <3>1
    <3>5. Belongs(users', groups', users'[i].username, groups'[j].groupname)
            <=> user_has_group(users'[i], groups'[j].gid)
      BY <1>2, <3>4, BelongsAt
    <3>6. Belongs(users', groups', u, h) <=> user_has_group(users'[i], groups[j].gid)
      BY <3>4, <3>5
    <3>7. user_has_group(users'[i], groups[j].gid)
            <=> IF i = a /\ j = b THEN now = "in" ELSE user_has_group(users[i], groups[j].gid)
      BY DEF PairBecomes
    <3>8. CASE i = a /\ j = b BY <3>2, <3>6, <3>7, <3>8
    <3>9. CASE ~(i = a /\ j = b) BY <3>2, <3>3, <3>6, <3>7, <3>9
    <3>10. QED BY <3>8, <3>9
  <2>2. CASE ~\E i \in DOMAIN users, j \in DOMAIN groups :
               users[i].username = u /\ groups[j].groupname = h
    <3>1. ~(u = users[a].username /\ h = groups[b].groupname) BY <2>2
    <3>2. ~Belongs(users, groups, u, h) BY <2>2 DEF Belongs
    <3>3. ~Belongs(users', groups', u, h) BY <2>2 DEF Belongs
    <3>4. QED BY <3>1, <3>2, <3>3
  <2>3. QED BY <2>1, <2>2
<1>9. NamesBecome(users[a].username, groups[b].groupname, now) BY <1>8 DEF NamesBecome
<1>10. QED BY <1>3, <1>4, <1>5, <1>6, <1>7, <1>9


LEMMA JoinStep ==
  ASSUME Promised, Promised', IndexesExact, NEW uid \in Ids, NEW gid \in Ids,
         uid_to_idx[uid] # 0, gid_to_idx[gid] # 0,
         users' = [users EXCEPT ![uid_to_idx[uid]].groups =
                     joined_groups(users[uid_to_idx[uid]], gid)],
         groups' = [groups EXCEPT ![gid_to_idx[gid]].members = @ \cup {uid}]
  PROVE  Operation
<1> DEFINE a == uid_to_idx[uid]
           b == gid_to_idx[gid]
           joined == joined_groups(users[a], gid)
<1>1. users \in Seq(User) /\ groups \in Seq(Group) /\ GidsOnce(groups) BY DEF Promised
<1>2. /\ DOMAIN users = 1 .. Len(users) /\ DOMAIN groups = 1 .. Len(groups)
      /\ \A i \in DOMAIN users : users[i] \in User /\ Distinct(users[i].groups)
      /\ \A j \in DOMAIN groups : groups[j] \in Group
  BY PromisedTypes
<1>3. a \in DOMAIN users /\ b \in DOMAIN groups /\ groups[b].gid = gid
  BY <1>1, <1>2, UserLookup, GroupLookup, PromisedIndexes
<1>4. /\ users' = [users EXCEPT ![a].groups = joined]
      /\ groups' = [groups EXCEPT ![b].members = @ \cup {uid}]
  OBVIOUS
<1>5. \A g : Contains(joined, g) <=> Contains(users[a].groups, g) \/ g = gid
  BY <1>2, <1>3, JoinedGroups
<1> HIDE DEF a, b, joined
<1>6. /\ DOMAIN users' = DOMAIN users
      /\ \A i \in DOMAIN users :
           /\ users'[i].username = users[i].username /\ users'[i].password = users[i].password
           /\ users'[i].groups = IF i = a THEN joined ELSE users[i].groups
  BY <1>2, <1>3, <1>4 DEF User
<1>7. /\ DOMAIN groups' = DOMAIN groups
      /\ \A j \in DOMAIN groups :
           groups'[j].groupname = groups[j].groupname /\ groups'[j].gid = groups[j].gid
  BY <1>2, <1>3, <1>4 DEF Group
<1>8. PairBecomes(a, b, "in")
  BY <1>1, <1>3, <1>5, <1>6 DEF user_has_group, GidsOnce, PairBecomes
<1>9. /\ users[a].username \in Usernames /\ groups[b].groupname \in Groupnames
      /\ PasswordIn(users)[users[a].username] # NoAccount
      /\ groups[b].groupname \in NamesOf(groups)
      /\ PasswordsKept /\ NamesKept
      /\ NamesBecome(users[a].username, groups[b].groupname, "in")
  <2>1. \A i \in DOMAIN users :
          users'[i].username = users[i].username /\ users'[i].password = users[i].password
    BY <1>6
  <2>2. DOMAIN users' = DOMAIN users BY <1>6
  <2>3. QED BY <1>3, <1>7, <1>8, <2>1, <2>2, PairView
<1>10. D!Join(users[a].username, groups[b].groupname) BY <1>9, JoinView DEF NamesBecome
<1>11. QED BY <1>9, <1>10 DEF Operation

LEMMA LeaveStep ==
  ASSUME Promised, Promised', IndexesExact, NEW uid \in Ids, NEW gid \in Ids,
         uid_to_idx[uid] # 0, gid_to_idx[gid] # 0,
         users' = [users EXCEPT ![uid_to_idx[uid]] = remove_gid_from_user(@, gid)],
         groups' = [groups EXCEPT ![gid_to_idx[gid]] = remove_uid_from_group(@, uid)]
  PROVE  Operation
<1> DEFINE a == uid_to_idx[uid]
           b == gid_to_idx[gid]
           e == remove_gid_from_user(users[a], gid)
           h == remove_uid_from_group(groups[b], uid)
<1>1. users \in Seq(User) /\ groups \in Seq(Group) /\ GidsOnce(groups) BY DEF Promised
<1>2. /\ DOMAIN users = 1 .. Len(users) /\ DOMAIN groups = 1 .. Len(groups)
      /\ \A i \in DOMAIN users : users[i] \in User /\ Distinct(users[i].groups)
      /\ \A j \in DOMAIN groups : groups[j] \in Group
  BY PromisedTypes
<1>3. a \in DOMAIN users /\ b \in DOMAIN groups /\ groups[b].gid = gid
  BY <1>1, <1>2, UserLookup, GroupLookup, PromisedIndexes
<1>4. users' = [users EXCEPT ![a] = e] /\ groups' = [groups EXCEPT ![b] = h] OBVIOUS
<1>5. /\ e.username = users[a].username /\ e.password = users[a].password
      /\ \A g : Contains(e.groups, g) <=> Contains(users[a].groups, g) /\ g # gid
  BY <1>2, <1>3, RemoveGid
<1>6. h.groupname = groups[b].groupname /\ h.gid = groups[b].gid BY <1>2, <1>3, RemoveUid
<1> HIDE DEF a, b, e, h
<1>7. /\ DOMAIN users' = DOMAIN users
      /\ \A i \in DOMAIN users : users'[i] = IF i = a THEN e ELSE users[i]
  BY <1>3, <1>4
<1>8. \A i \in DOMAIN users :
        users'[i].username = users[i].username /\ users'[i].password = users[i].password
  BY <1>5, <1>7
<1>9. /\ DOMAIN groups' = DOMAIN groups
      /\ \A j \in DOMAIN groups :
           groups'[j].groupname = groups[j].groupname /\ groups'[j].gid = groups[j].gid
  BY <1>3, <1>4, <1>6
<1>10. PairBecomes(a, b, "out")
  BY <1>1, <1>3, <1>5, <1>7 DEF user_has_group, GidsOnce, PairBecomes
<1>11. /\ users[a].username \in Usernames /\ groups[b].groupname \in Groupnames
       /\ PasswordIn(users)[users[a].username] # NoAccount
       /\ groups[b].groupname \in NamesOf(groups)
       /\ PasswordsKept /\ NamesKept
       /\ NamesBecome(users[a].username, groups[b].groupname, "out")
  BY <1>3, <1>7, <1>8, <1>9, <1>10, PairView
<1>12. D!Leave(users[a].username, groups[b].groupname) BY <1>11, LeaveView DEF NamesBecome
<1>13. QED BY <1>11, <1>12 DEF Operation


(* Every step between two states in which the promise is live. *)
LEMMA NextView ==
  ASSUME Promised, Promised', IInv, DownAfterRestart, [Next]_vars
  PROVE  Operation \/ DirectoryUnchanged
<1> DEFINE Goal == Operation \/ DirectoryUnchanged
<1>1. ASSUME users' = users, groups' = groups PROVE Goal BY <1>1, ArraysKept
<1>2. ASSUME NEW code, Refuse(code) PROVE Goal
  BY <1>1, <1>2 DEF Refuse, memory, userVars, groupVars
<1>3. IndexesExact BY DEF IInv
<1>4. incidents' = {} /\ Indexed /\ Indexed' BY DEF Promised, Indexed
<1>5. ASSUME NEW n \in Usernames \cup {Malformed}, NEW p \in Passwords \cup {Malformed},
             add_user(n, p)
      PROVE  Goal
  <2> DEFINE uid == get_uid(uid_bitmap)
             us  == Append(users, [username |-> n, uid |-> uid, groups |-> <<>>, password |-> p])
  <2>1. CASE users' = users /\ groups' = groups BY <1>1, <2>1
  <2>2. CASE /\ n \in Usernames /\ p \in Passwords /\ username_to_idx[n] = 0
             /\ uid # merr /\ users' = us /\ groups' = groups
    <3>1. uid \in Ids BY <2>2, NewUid
    <3> HIDE DEF uid
    <3>2. D!Open(n, p) BY <1>3, <2>2, <3>1, AddUserView
    <3>3. QED BY <2>2, <3>2 DEF Operation
  <2>3. ~\E u : add_user_unindexed(u) BY <1>4, NoUpdateStopped
  <2> HIDE DEF Goal
  <2>4. QED BY <1>2, <1>5, <2>1, <2>2, <2>3
            DEF add_user, add_user_gives_up, groupVars
<1>6. ASSUME NEW n \in Usernames \cup {Malformed}, del_user(n) PROVE Goal
  <2>1. CASE users' = users /\ groups' = groups BY <1>1, <2>1
  <2>2. CASE /\ n \in Usernames /\ username_to_idx[n] # 0
             /\ users' = RemoveAt(users, username_to_idx[n])
             /\ groups' = [i \in DOMAIN groups |->
                             remove_uid_from_group(groups[i], users[username_to_idx[n]].uid)]
    <3>1. D!Close(n) BY <1>3, <2>2, DelUserView
    <3>2. QED BY <2>2, <3>1 DEF Operation
  <2>3. n \in Usernames => username_to_idx[n] # Len(users) + 1
    BY <1>4, NothingPastTheEnd
  <2> HIDE DEF Goal
  <2>4. CASE Refuse("UG_ERR_INVALID_USERNAME") BY <1>2, <2>4
  <2>5. CASE Refuse("UG_ERR_USER_NOT_FOUND") BY <1>2, <2>5
  <2>6. CASE n \in Usernames /\ ~Refuse("UG_ERR_INVALID_USERNAME")
             /\ ~Refuse("UG_ERR_USER_NOT_FOUND")
    <3>1. 0 \notin DOMAIN users BY PromisedTypes
    <3>2. QED BY <1>6, <2>2, <2>3, <2>6, <3>1 DEF del_user
  <2>7. QED BY <1>6, <2>4, <2>5, <2>6 DEF del_user
<1>7. ASSUME NEW n \in Usernames \cup {Malformed}, NEW old \in Passwords,
             NEW new \in Passwords \cup {Malformed}, set_user_password(n, old, new)
      PROVE  Goal
  <2>1. CASE /\ n \in Usernames /\ new \in Passwords /\ username_to_idx[n] # 0
             /\ users' = [users EXCEPT ![username_to_idx[n]].password = new]
             /\ groups' = groups
    <3>1. D!ChangePassword(n, new) BY <1>3, <2>1, SetPasswordView
    <3>2. QED BY <2>1, <3>1 DEF Operation
  <2>2. n \in Usernames => username_to_idx[n] # Len(users) + 1
    BY <1>4, NothingPastTheEnd
  <2>3. 0 \notin DOMAIN users BY PromisedTypes
  <2> HIDE DEF Goal
  <2>4. QED BY <1>2, <1>7, <2>1, <2>2, <2>3 DEF set_user_password, groupVars
<1>8. ASSUME NEW n \in Groupnames \cup {Malformed}, add_group(n) PROVE Goal
  <2> DEFINE gid == get_gid(gid_bitmap)
             gs  == Append(groups, [groupname |-> n, gid |-> gid, members |-> {}])
  <2>1. CASE users' = users /\ groups' = groups BY <1>1, <2>1
  <2>2. CASE /\ n \in Groupnames /\ groupname_to_idx[n] = 0
             /\ gid # merr /\ groups' = gs /\ users' = users
    <3>1. gid \in Ids BY <2>2, NewGid
    <3> HIDE DEF gid
    <3>2. D!Found(n) BY <1>3, <2>2, <3>1, AddGroupView
    <3>3. QED BY <2>2, <3>2 DEF Operation
  <2>3. ~\E g : add_group_unindexed(g) BY <1>4, NoUpdateStopped
  <2> HIDE DEF Goal
  <2>4. QED BY <1>2, <1>8, <2>1, <2>2, <2>3
            DEF add_group, add_group_gives_up, userVars
<1>9. ASSUME NEW n \in Groupnames \cup {Malformed}, del_group(n) PROVE Goal
  <2>1. CASE /\ n \in Groupnames /\ groupname_to_idx[n] # 0
             /\ users' = [i \in DOMAIN users |->
                            remove_gid_from_user(users[i], groups[groupname_to_idx[n]].gid)]
             /\ groups' = RemoveAt(groups, groupname_to_idx[n])
    <3>1. D!Dissolve(n) BY <1>3, <2>1, DelGroupView
    <3>2. QED BY <2>1, <3>1 DEF Operation
  <2>2. n \in Groupnames => groupname_to_idx[n] # Len(groups) + 1
    BY <1>4, NothingPastTheEnd
  <2>3. 0 \notin DOMAIN groups BY PromisedTypes
  <2> HIDE DEF Goal
  <2>4. QED BY <1>2, <1>9, <2>1, <2>2, <2>3 DEF del_group
<1>10. ASSUME NEW uid \in Ids, NEW gid \in Ids, add_user_to_group(uid, gid) PROVE Goal
  <2>1. CASE /\ uid_to_idx[uid] # 0 /\ gid_to_idx[gid] # 0
             /\ users' = [users EXCEPT ![uid_to_idx[uid]].groups =
                            joined_groups(users[uid_to_idx[uid]], gid)]
             /\ groups' = [groups EXCEPT ![gid_to_idx[gid]].members = @ \cup {uid}]
    BY <1>3, <2>1, JoinStep
  <2>2. incidents' # incidents \cup {"nomem"} BY <1>4
  <2> HIDE DEF Goal
  <2>3. QED BY <1>2, <1>10, <2>1, <2>2 DEF add_user_to_group
<1>11. ASSUME NEW uid \in Ids, NEW gid \in Ids, del_user_from_group(uid, gid) PROVE Goal
  <2>1. CASE /\ uid_to_idx[uid] # 0 /\ gid_to_idx[gid] # 0
             /\ users' = [users EXCEPT ![uid_to_idx[uid]] = remove_gid_from_user(@, gid)]
             /\ groups' = [groups EXCEPT ![gid_to_idx[gid]] = remove_uid_from_group(@, uid)]
    BY <1>3, <2>1, LeaveStep
  <2> HIDE DEF Goal
  <2>2. QED BY <1>2, <1>11, <2>1 DEF del_user_from_group
<1>12. ASSUME Save PROVE Goal BY <1>1, <1>12 DEF Save, memory, userVars, groupVars
<1>13. ASSUME Stop PROVE FALSE BY <1>4, <1>13 DEF Stop, Ended
<1>14. ASSUME init_User_group_manager PROVE FALSE
  BY <1>14 DEF init_User_group_manager, DownAfterRestart, Promised
<1>15. ASSUME UNCHANGED vars PROVE Goal
  BY <1>1, <1>15 DEF vars, memory, userVars, groupVars
<1> HIDE DEF Goal
<1>16. Goal
  BY <1>5, <1>6, <1>7, <1>8, <1>9, <1>10, <1>11, <1>12, <1>13, <1>14, <1>15 DEF Next
<1>17. QED BY <1>16 DEF Goal

(* In an installation whose files use none of the ids that the manager     *)
(* hands out, the arrays, indexes, ids and saves implement the directory   *)
(* of accounts and groups by name: until a restart, or an operation cut    *)
(* short for lack of memory, every operation is the directory's operation  *)
(* of that name or changes nothing.                                        *)
THEOREM ManagerIsADirectory == FreshInstall => (Spec => ImplementsDirectory)
<1> SUFFICES ASSUME FreshInstall PROVE Spec => ImplementsDirectory OBVIOUS
<1>1. Init => D!Init
  <2> SUFFICES ASSUME Init PROVE D!Init OBVIOUS
  <2>1. incidents = {} BY DEF Init
  <2>2. Promised BY <2>1, InitIInv, PromisedState
  <2>3. AbstractPassword \in [Usernames -> Passwords \cup {NoAccount}]
    BY <2>2, PasswordLookup, AbstractView DEF Promised
  <2>4. {groups[i].groupname : i \in DOMAIN groups} \in SUBSET Groupnames
    BY <2>2, PromisedTypes DEF Group
  <2>5. AbstractMember \in SUBSET (Usernames \X Groupnames) BY AbstractView
  <2>6. QED BY <2>1, <2>3, <2>4, <2>5 DEF D!Init
<1>2. IInv /\ DownAfterRestart /\ [Next]_vars => [D!Next]_(D!vars)
  <2> SUFFICES ASSUME IInv, DownAfterRestart, [Next]_vars PROVE [D!Next]_(D!vars)
    OBVIOUS
  <2>1. CASE incidents' # {} BY <2>1 DEF D!Next, D!End
  <2>2. CASE incidents' = {}
    <3>1. incidents = {} BY <2>2, IncidentsStay
    <3>2. Promised BY <3>1, PromisedState
    <3>3. IInv' BY NextIInv
    <3>4. Promised'
      BY <2>2, <3>3
         DEF IInv, TypeOK, GidsResolve, IdsAccounted, Indexed, FreshInstall, Promised,
             UsersNamedOnce, GroupsNamedOnce, GidsOnce
    <3>5. Operation \/ DirectoryUnchanged BY <3>2, <3>4, NextView
    <3>6. CASE Operation BY <2>2, <3>1, <3>6 DEF Operation, D!Next
    <3>7. CASE DirectoryUnchanged
      BY <2>2, <3>1, <3>7 DEF DirectoryUnchanged, D!vars
    <3>8. QED BY <3>5, <3>6, <3>7
  <2>3. QED BY <2>1, <2>2
<1>3. QED BY <1>1, <1>2, Invariance, PTL DEF Spec, ImplementsDirectory, D!Spec

=============================================================================
