------------------------------ MODULE LogexProof ------------------------------
(***************************************************************************)
(* Theorems about two parts of Logex.  Registry, for every set of users,   *)
(* groups, names, hooks and permission settings: what was registered is    *)
(* found, a handle never dangles, and strangers make nothing that was not  *)
(* opened to them.  Runtime, for every set of variables, addresses,        *)
(* numbers and packages and for both kinds of malloc: what the statements  *)
(* of a session change, and what is left in the table of functions when    *)
(* names clash and the table fills up.                                     *)
(***************************************************************************)
EXTENDS Registry, Runtime, SequenceTheorems, TLAPS

LOCAL Arrays == INSTANCE ListsProof

-----------------------------------------------------------------------------
(* The registry *)

Steps == {"idle", "adds", "tests", "unregisters", "frees", "adding"}
HookType == [name : HookNames, owner : Users, group : UNION {GroupsOf[u] : u \in Users},
             pm_s : SUBSET (Classes \X Modes)]

RegistryTypeOK ==
  /\ hook_map \in [HookNames -> Hooks \cup {NULL}]
  /\ DOMAIN hooks \subseteq Hooks /\ hooks \in [DOMAIN hooks -> HookType]
  /\ registering \in [Users -> [at : Steps, hook : Hooks \cup {NULL}]]
  /\ handle \in [Users -> Hooks \cup {NULL}]
  /\ registered \subseteq Hooks
  /\ opened \subseteq Hooks \X Modes /\ made \subseteq Hooks \X Users

(* A client between the creation of its hook and the end of the call.      *)
Pending(u) == registering[u].at \in {"adds", "tests", "unregisters", "frees"}

(* The hooks that somebody else may know of are allocated.                 *)
KnownLive ==
  /\ registered \subseteq DOMAIN hooks
  /\ \A u \in Users : StandsAt(u, "adding") => Mine(u) \in DOMAIN hooks
  /\ \A entry \in made : entry[1] \in DOMAIN hooks

(* A hook that is not registered yet is its maker's alone, who may free it.*)
PendingPrivate ==
  \A u \in Users : Pending(u) =>
    /\ Mine(u) \in DOMAIN hooks \ registered
    /\ \A v \in Users : handle[v] # Mine(u)
    /\ \A v \in Users \ {u} : ~StandsAt(v, "idle") => Mine(v) # Mine(u)
    /\ \A entry \in made : entry[1] # Mine(u)

(* The table leads to registered hooks of the name, and to all of them.    *)
MapLeads ==
  \A name \in HookNames : hook_map[name] # NULL =>
    hook_map[name] \in registered /\ hooks[hook_map[name]].name = name

(* What others may do with a hook its owner or root has opened to them.    *)
OthersOpened ==
  \A h \in DOMAIN hooks, m \in Modes : <<"other", m>> \in hooks[h].pm_s => <<h, m>> \in opened

(* Who has passed the first test may be a stranger only if add was opened. *)
AddersAllowed ==
  \A u \in Users : StandsAt(u, "adding") =>
    u = Root \/ ClassOf(Mine(u), u) # "other" \/ <<Mine(u), "add">> \in opened

(* StrangersKeptOut without the quantifier over its witness.               *)
MakersAllowed ==
  \A entry \in made :
    \/ entry[2] = Root
    \/ <<entry[1], "add">> \in opened /\ <<entry[1], "change">> \in opened
    \/ ClassOf(entry[1], entry[2]) # "other"

Memory == KnownLive /\ HandlesLive /\ PendingPrivate
Names == MapLeads /\ RegisteredIsFound
Permissions == OthersOpened /\ AddersAllowed /\ MakersAllowed

(* The inductive invariant. *)
RegistryInv == RegistryTypeOK /\ Memory /\ Names /\ Permissions

-----------------------------------------------------------------------------
(* Lemmas: the invariant holds at first, and each action preserves it.     *)

LEMMA PrimaryIsAGroup ==
  ASSUME NEW u \in Users PROVE PrimaryGroup[u] \in UNION {GroupsOf[v] : v \in Users}
BY RegistryAssumption

LEMMA RegistryInit == reg_init => RegistryInv
<1> SUFFICES ASSUME reg_init PROVE RegistryInv OBVIOUS
<1> USE DEF reg_init
<1>1. RegistryTypeOK BY DEF RegistryTypeOK, Idle, Steps
<1>2. Memory
  BY RegistryAssumption DEF Memory, KnownLive, HandlesLive, PendingPrivate, Pending,
     StandsAt, Idle
<1>3. Names BY DEF Names, MapLeads, RegisteredIsFound
<1>4. Permissions
  BY DEF Permissions, OthersOpened, AddersAllowed, MakersAllowed, StandsAt, Idle
<1>5. QED BY <1>1, <1>2, <1>3, <1>4 DEF RegistryInv

(* A step that keeps a hook's owner and group keeps everybody's class.     *)
LEMMA SameClass ==
  ASSUME NEW h, hooks'[h].owner = hooks[h].owner, hooks'[h].group = hooks[h].group
  PROVE  \A u \in Users : ClassOf(h, u)' = ClassOf(h, u)
BY DEF ClassOf

LEMMA NobodyMoves ==
  ASSUME UNCHANGED hooks, NEW h
  PROVE  \A u \in Users : ClassOf(h, u)' = ClassOf(h, u)
BY DEF ClassOf

LEMMA FindStep ==
  ASSUME RegistryInv, NEW u \in Users, NEW name \in HookNames, reg_find_hook(u, name)
  PROVE  RegistryInv'
<1> USE DEF RegistryInv, reg_find_hook, histories
<1>1. RegistryTypeOK' BY DEF RegistryTypeOK, Steps
<1>2. Memory'
  <2>1. hook_map[name] \in registered \cup {NULL} BY DEF Names, MapLeads
  <2>2. QED
    BY <2>1, RegistryAssumption DEF RegistryTypeOK, Memory, KnownLive, HandlesLive,
       PendingPrivate, Pending, StandsAt, Mine
<1>3. Names'
  BY RegistryAssumption DEF RegistryTypeOK, Names, MapLeads, RegisteredIsFound
<1>4. Permissions'
  BY DEF RegistryTypeOK, Permissions, OthersOpened, AddersAllowed, MakersAllowed, StandsAt,
     Mine, ClassOf
<1>5. QED BY <1>1, <1>2, <1>3, <1>4

LEMMA LogoutStep ==
  ASSUME RegistryInv, NEW u \in Users, HOOK_logout(u)
  PROVE  RegistryInv'
<1> USE DEF RegistryInv, HOOK_logout, Goes, GivesUp, histories, StandsAt, Mine
<1>1. RegistryTypeOK' BY DEF RegistryTypeOK, Steps
<1>2. Memory'
  BY DEF RegistryTypeOK, Memory, KnownLive, HandlesLive, PendingPrivate, Pending, StandsAt,
     Mine
<1>3. Names'
  BY RegistryAssumption DEF RegistryTypeOK, Names, MapLeads, RegisteredIsFound
<1>4. Permissions'
  BY DEF RegistryTypeOK, Permissions, OthersOpened, AddersAllowed, MakersAllowed, StandsAt,
     Mine, ClassOf
<1>5. QED BY <1>1, <1>2, <1>3, <1>4

LEMMA UnregisterStep ==
  ASSUME RegistryInv, NEW u \in Users, NEW name \in HookNames, reg_unregister_hook(u, name)
  PROVE  RegistryInv'
<1> USE DEF RegistryInv, reg_unregister_hook, Removed, histories
<1>1. RegistryTypeOK' BY DEF RegistryTypeOK, Steps
<1>2. Memory'
  BY DEF RegistryTypeOK, Memory, KnownLive, HandlesLive, PendingPrivate, Pending, StandsAt,
     Mine
<1>3. Names'
  BY RegistryAssumption DEF RegistryTypeOK, Names, MapLeads, RegisteredIsFound
<1>4. Permissions'
  BY DEF RegistryTypeOK, Permissions, OthersOpened, AddersAllowed, MakersAllowed, StandsAt,
     Mine, ClassOf
<1>5. QED BY <1>1, <1>2, <1>3, <1>4

LEMMA LogoutUnregistersStep ==
  ASSUME RegistryInv, NEW u \in Users, LogoutUnregisters(u)
  PROVE  RegistryInv'
<1> DEFINE name == hooks[Mine(u)].name
<1>1. Mine(u) \in DOMAIN hooks
  BY DEF LogoutUnregisters, StandsAt, RegistryInv, Memory, PendingPrivate, Pending
<1>2. name \in HookNames BY <1>1 DEF RegistryInv, RegistryTypeOK, HookType
<1>3. /\ Removed(name) /\ Goes(u, "frees", Mine(u)) /\ StandsAt(u, "unregisters")
      /\ UNCHANGED <<hooks, handle>>
  BY DEF LogoutUnregisters
<1> HIDE DEF name
<1> USE <1>1, <1>2, <1>3, RegistryAssumption DEF RegistryInv, Removed, Goes
<1>4. RegistryTypeOK' BY DEF RegistryTypeOK, Steps, Mine
<1>5. Memory'
  BY DEF RegistryTypeOK, Memory, KnownLive, HandlesLive, PendingPrivate, Pending,
     StandsAt, Mine
<1>6. Names' BY DEF RegistryTypeOK, Names, MapLeads, RegisteredIsFound, Memory, KnownLive
<1>7. Permissions'
  BY DEF RegistryTypeOK, Permissions, OthersOpened, AddersAllowed, MakersAllowed,
     StandsAt, Mine, ClassOf
<1>8. QED BY <1>4, <1>5, <1>6, <1>7

LEMMA FreeStep ==
  ASSUME RegistryInv, NEW u \in Users, RegisterFrees(u)
  PROVE  RegistryInv'
<1> DEFINE mine == Mine(u)
<1>1. /\ mine \in Hooks \ registered
      /\ \A v \in Users : handle[v] # mine
      /\ \A v \in Users \ {u} : ~StandsAt(v, "idle") => Mine(v) # mine
      /\ \A entry \in made : entry[1] # mine
  BY DEF RegisterFrees, StandsAt, RegistryInv, RegistryTypeOK, Memory, PendingPrivate, Pending
<1>2. /\ DOMAIN hooks' = DOMAIN hooks \ {mine}
      /\ \A h \in DOMAIN hooks' : hooks'[h] = hooks[h]
      /\ hooks' = [h \in DOMAIN hooks \ {mine} |-> hooks[h]]
  BY DEF RegisterFrees, Frees
<1>3. /\ StandsAt(u, "frees") /\ Goes(u, "idle", NULL)
      /\ UNCHANGED <<hook_map, handle, registered, opened, made>>
  BY DEF RegisterFrees, histories
<1> HIDE DEF mine
<1>4. RegistryTypeOK' BY <1>2, <1>3 DEF RegistryInv, RegistryTypeOK, Steps, Goes
<1>5. Memory'
  BY <1>1, <1>2, <1>3 DEF RegistryInv, RegistryTypeOK, Memory, KnownLive, HandlesLive,
     PendingPrivate,
     Pending, StandsAt, Mine, Goes
<1>6. Names'
  BY <1>1, <1>2, <1>3 DEF RegistryInv, RegistryTypeOK, Names, MapLeads, RegisteredIsFound,
     Memory, KnownLive
<1>7. Permissions'
  <2>1. OthersOpened' BY <1>2, <1>3 DEF RegistryInv, Permissions, OthersOpened
  <2>2. \A h \in DOMAIN hooks', v \in Users : ClassOf(h, v)' = ClassOf(h, v)
    BY <1>2, SameClass
  <2>3. AddersAllowed'
    <3>1. ASSUME NEW v \in Users, StandsAt(v, "adding")'
          PROVE  StandsAt(v, "adding") /\ Mine(v)' = Mine(v) /\ Mine(v) \in DOMAIN hooks'
      BY <1>1, <1>2, <1>3, <3>1
      DEF RegistryInv, RegistryTypeOK, Memory, KnownLive, StandsAt, Mine, Goes
    <3>2. QED BY <1>3, <2>2, <3>1 DEF RegistryInv, Permissions, AddersAllowed, StandsAt
  <2>4. MakersAllowed'
    <3>1. ASSUME NEW entry \in made
          PROVE  entry[1] \in DOMAIN hooks' /\ entry[2] \in Users
      BY <1>1, <1>2 DEF RegistryInv, RegistryTypeOK, Memory, KnownLive
    <3>2. \A entry \in made : ClassOf(entry[1], entry[2])' = ClassOf(entry[1], entry[2])
      BY <2>2, <3>1
    <3>3. QED BY <1>3, <3>2 DEF RegistryInv, Permissions, MakersAllowed
  <2>5. QED BY <2>1, <2>3, <2>4 DEF Permissions
<1>8. QED BY <1>4, <1>5, <1>6, <1>7 DEF RegistryInv

LEMMA RegisterStep ==
  ASSUME RegistryInv, NEW u \in Users, reg_register_hook(u)
  PROVE  RegistryInv'
<1> DEFINE mine == Mine(u)
           name == hooks[mine].name
<1>1. /\ mine \in DOMAIN hooks /\ mine \in Hooks \ registered
      /\ \A v \in Users : handle[v] # mine
      /\ \A v \in Users \ {u} : ~StandsAt(v, "idle") => Mine(v) # mine
      /\ name \in HookNames /\ StandsAt(u, "adds")
  BY DEF reg_register_hook, StandsAt, RegistryInv, RegistryTypeOK, HookType, Memory,
     PendingPrivate, Pending
<1>2. CASE ~Taken(u) /\ Publishes(u)
  <2>1. /\ hook_map' = [hook_map EXCEPT ![name] = mine] /\ hook_map[name] = NULL
        /\ handle' = [handle EXCEPT ![u] = mine] /\ registered' = registered \cup {mine}
        /\ Goes(u, "idle", NULL) /\ UNCHANGED <<hooks, opened, made>>
    BY <1>2 DEF Taken, Publishes
  <2> HIDE DEF mine, name
  <2>2. RegistryTypeOK' BY <1>1, <2>1 DEF RegistryInv, RegistryTypeOK, Steps, Goes
  <2>3. Memory'
    BY <1>1, <2>1 DEF RegistryInv, RegistryTypeOK, Memory, KnownLive, HandlesLive, PendingPrivate,
       Pending, StandsAt, Mine, Goes, mine
  <2>4. Names'
    BY <1>1, <2>1, RegistryAssumption
    DEF RegistryInv, RegistryTypeOK, Names, MapLeads, RegisteredIsFound, Memory, KnownLive, name
  <2>5. Permissions'
    BY <1>1, <2>1 DEF RegistryInv, RegistryTypeOK, Permissions, OthersOpened, AddersAllowed,
       MakersAllowed, StandsAt, Mine, Goes, ClassOf
  <2>6. QED BY <2>2, <2>3, <2>4, <2>5 DEF RegistryInv
<1>3. CASE GivesUp(u, "tests")
  <2>1. /\ Goes(u, "tests", mine)
        /\ UNCHANGED <<hook_map, hooks, handle, registered, opened, made>>
    BY <1>3 DEF GivesUp, histories
  <2> HIDE DEF mine, name
  <2>2. RegistryTypeOK' BY <1>1, <2>1 DEF RegistryInv, RegistryTypeOK, Steps, Goes
  <2>3. Memory'
    BY <1>1, <2>1 DEF RegistryInv, RegistryTypeOK, Memory, KnownLive, HandlesLive, PendingPrivate,
       Pending, StandsAt, Mine, Goes, mine
  <2>4. Names' BY <2>1 DEF RegistryInv, Names, MapLeads, RegisteredIsFound
  <2>5. Permissions'
    BY <1>1, <2>1 DEF RegistryInv, RegistryTypeOK, Permissions, OthersOpened, AddersAllowed,
       MakersAllowed, StandsAt, Mine, Goes, ClassOf
  <2>6. QED BY <2>2, <2>3, <2>4, <2>5 DEF RegistryInv
<1>4. QED BY <1>2, <1>3 DEF reg_register_hook

LEMMA LoginStep ==
  ASSUME RegistryInv, NEW u \in Users, NEW name \in HookNames, HOOK_login(u, name)
  PROVE  RegistryInv'
<1>1. PICK h \in Hooks \ DOMAIN hooks :
        /\ hooks' = [g \in DOMAIN hooks \cup {h} |->
                      IF g # h THEN hooks[g]
                      ELSE [name |-> name, owner |-> u, group |-> PrimaryGroup[u],
                            pm_s |-> DefaultPermissions]]
        /\ Goes(u, "adds", h)
  BY DEF HOOK_login
<1>2. /\ DOMAIN hooks' = DOMAIN hooks \cup {h} /\ h \notin DOMAIN hooks /\ h \in Hooks
      /\ \A g \in DOMAIN hooks : hooks'[g] = hooks[g]
      /\ hooks'[h].pm_s = DefaultPermissions
  BY <1>1
<1>3. StandsAt(u, "idle") /\ UNCHANGED <<hook_map, handle, registered, opened, made>>
  BY DEF HOOK_login, histories
<1>4. RegistryTypeOK'
  <2>1. DefaultPermissions \in SUBSET (Classes \X Modes) BY DEF DefaultPermissions, Classes
  <2>2. [name |-> name, owner |-> u, group |-> PrimaryGroup[u], pm_s |-> DefaultPermissions]
          \in HookType
    BY <2>1, PrimaryIsAGroup DEF HookType
  <2>3. DOMAIN hooks' \subseteq Hooks /\ hooks' \in [DOMAIN hooks' -> HookType]
    BY <1>1, <1>2, <2>2 DEF RegistryInv, RegistryTypeOK
  <2>4. registering' \in [Users -> [at : Steps, hook : Hooks \cup {NULL}]]
    BY <1>1 DEF RegistryInv, RegistryTypeOK, Steps, Goes
  <2>5. QED BY <1>3, <2>3, <2>4 DEF RegistryInv, RegistryTypeOK
<1>5. Memory'
  <2>1. KnownLive'
    BY <1>1, <1>2, <1>3 DEF RegistryInv, RegistryTypeOK, Memory, KnownLive, StandsAt, Mine, Goes
  <2>2. HandlesLive' BY <1>2, <1>3 DEF RegistryInv, Memory, HandlesLive
  <2>3. PendingPrivate'
    <3>1. \A v \in Users : handle[v] # h
      BY <1>2, RegistryAssumption DEF RegistryInv, Memory, HandlesLive
    <3>2. \A v \in Users : ~StandsAt(v, "idle") => Mine(v) \in DOMAIN hooks
      BY DEF RegistryInv, RegistryTypeOK, Memory, KnownLive, PendingPrivate, Pending, StandsAt,
         Steps
    <3>3. h \notin registered /\ \A entry \in made : entry[1] # h
      BY <1>2 DEF RegistryInv, Memory, KnownLive
    <3>4. /\ Pending(u)' /\ Mine(u)' = h
          /\ \A v \in Users \ {u} : registering'[v] = registering[v]
      BY <1>1 DEF RegistryInv, RegistryTypeOK, Goes, Pending, Mine
    <3>5. QED BY <1>2, <1>3, <3>1, <3>2, <3>3, <3>4
          DEF RegistryInv, Memory, PendingPrivate, Pending, StandsAt, Mine
  <2>4. QED BY <2>1, <2>2, <2>3 DEF Memory
<1>6. Names' BY <1>2, <1>3 DEF RegistryInv, Memory, KnownLive, Names, MapLeads, RegisteredIsFound
<1>7. Permissions'
  <2>1. OthersOpened' BY <1>2, <1>3 DEF RegistryInv, Permissions, OthersOpened, DefaultPermissions
  <2>2. \A g \in DOMAIN hooks, v \in Users : ClassOf(g, v)' = ClassOf(g, v)
    BY <1>2, SameClass
  <2>3. AddersAllowed'
    <3>1. ASSUME NEW v \in Users, StandsAt(v, "adding")'
          PROVE  StandsAt(v, "adding") /\ Mine(v)' = Mine(v) /\ Mine(v) \in DOMAIN hooks
      BY <1>1, <3>1 DEF RegistryInv, RegistryTypeOK, Memory, KnownLive, StandsAt, Mine, Goes
    <3>2. QED BY <1>3, <2>2, <3>1 DEF RegistryInv, Permissions, AddersAllowed
  <2>4. MakersAllowed'
    <3>1. ASSUME NEW entry \in made
          PROVE  entry[1] \in DOMAIN hooks /\ entry[2] \in Users
      BY DEF RegistryInv, RegistryTypeOK, Memory, KnownLive
    <3>2. \A entry \in made : ClassOf(entry[1], entry[2])' = ClassOf(entry[1], entry[2])
      BY <2>2, <3>1
    <3>3. QED BY <1>3, <3>2 DEF RegistryInv, Permissions, MakersAllowed
  <2>5. QED BY <2>1, <2>3, <2>4 DEF Permissions
<1>8. QED BY <1>4, <1>5, <1>6, <1>7 DEF RegistryInv

(* Who is entitled to something is not a stranger, or others were let in.  *)
LEMMA EntitledAreLetIn ==
  ASSUME RegistryInv, NEW h \in DOMAIN hooks, NEW u \in Users, NEW m \in Modes, is_entitled(h, u, m)
  PROVE  ClassOf(h, u) # "other" \/ <<h, m>> \in opened
BY DEF RegistryInv, Permissions, OthersOpened, is_entitled

LEMMA NewObjStep ==
  ASSUME RegistryInv, NEW u \in Users, hook_new_obj(u)
  PROVE  RegistryInv'
<1>1. /\ handle[u] \in DOMAIN hooks /\ handle[u] \in Hooks /\ StandsAt(u, "idle")
      /\ Goes(u, "adding", handle[u])
      /\ UNCHANGED <<hook_map, hooks, handle, registered, opened, made>>
  BY DEF hook_new_obj, Uses, histories, RegistryInv, RegistryTypeOK
<1>2. RegistryTypeOK' BY <1>1 DEF RegistryInv, RegistryTypeOK, Steps, Goes
<1>3. Memory'
  BY <1>1 DEF RegistryInv, RegistryTypeOK, Memory, KnownLive, HandlesLive, PendingPrivate,
     Pending, StandsAt, Mine, Goes
<1>4. Names' BY <1>1 DEF RegistryInv, Names, MapLeads, RegisteredIsFound
<1>5. Permissions'
  <2>1. u = Root \/ ClassOf(handle[u], u) # "other" \/ <<handle[u], "add">> \in opened
    BY <1>1, EntitledAreLetIn DEF hook_new_obj, Modes
  <2>2. registering' = [registering EXCEPT ![u] = [at |-> "adding", hook |-> handle[u]]]
    BY <1>1 DEF Goes
  <2>3. AddersAllowed'
    BY <1>1, <2>1, <2>2 DEF RegistryInv, RegistryTypeOK, Permissions, AddersAllowed, StandsAt,
       Mine, ClassOf
  <2>4. QED BY <1>1, <2>3 DEF RegistryInv, Permissions, OthersOpened, MakersAllowed, ClassOf
<1>6. QED BY <1>2, <1>3, <1>4, <1>5 DEF RegistryInv

LEMMA NewObjChangesStep ==
  ASSUME RegistryInv, NEW u \in Users, NewObjChanges(u)
  PROVE  RegistryInv'
<1> DEFINE h == Mine(u)
<1>1. /\ h \in DOMAIN hooks /\ h \in Hooks /\ StandsAt(u, "adding") /\ Goes(u, "idle", NULL)
      /\ UNCHANGED <<hook_map, hooks, handle, registered, opened>>
      /\ made' = IF u = Root \/ is_entitled(h, u, "change") THEN made \cup {<<h, u>>} ELSE made
      /\ \A v \in Users \ {u} : Pending(v) => Mine(v) # h
  BY DEF NewObjChanges, StandsAt, RegistryInv, RegistryTypeOK, Memory, KnownLive, PendingPrivate
<1>2. u = Root \/ ClassOf(h, u) # "other" \/ <<h, "add">> \in opened
  BY <1>1 DEF RegistryInv, Permissions, AddersAllowed
<1> HIDE DEF h
<1>3. RegistryTypeOK' BY <1>1 DEF RegistryInv, RegistryTypeOK, Steps, Goes
<1>4. Memory'
  BY <1>1 DEF RegistryInv, RegistryTypeOK, Memory, KnownLive, HandlesLive, PendingPrivate,
     Pending, StandsAt, Mine, Goes
<1>5. Names' BY <1>1 DEF RegistryInv, Names, MapLeads, RegisteredIsFound
<1>6. Permissions'
  <2>1. AddersAllowed'
    BY <1>1 DEF RegistryInv, RegistryTypeOK, Permissions, AddersAllowed, StandsAt, Mine, Goes,
       ClassOf
  <2>2. \A g : \A v \in Users : ClassOf(g, v)' = ClassOf(g, v) BY <1>1, NobodyMoves
  <2>3. u = Root \/ is_entitled(h, u, "change")
          => u = Root \/ ClassOf(h, u) # "other"
             \/ (<<h, "add">> \in opened /\ <<h, "change">> \in opened)
    BY <1>1, <1>2, EntitledAreLetIn DEF Modes
  <2>4. ASSUME NEW entry \in made'
        PROVE  \/ entry[2] = Root
               \/ <<entry[1], "add">> \in opened' /\ <<entry[1], "change">> \in opened'
               \/ ClassOf(entry[1], entry[2])' # "other"
    <3>1. CASE entry \in made
      BY <1>1, <2>2, <3>1 DEF RegistryInv, RegistryTypeOK, Permissions, MakersAllowed
    <3>2. CASE entry \notin made
      <4>1. entry = <<h, u>> /\ (u = Root \/ is_entitled(h, u, "change")) BY <1>1, <3>2
      <4>2. entry[1] = h /\ entry[2] = u BY <4>1
      <4>3. QED BY <1>1, <2>2, <2>3, <4>1, <4>2
    <3>3. QED BY <3>1, <3>2
  <2>5. MakersAllowed' BY <2>4 DEF MakersAllowed
  <2>6. QED BY <1>1, <2>1, <2>5 DEF RegistryInv, Permissions, OthersOpened
<1>7. QED BY <1>3, <1>4, <1>5, <1>6 DEF RegistryInv

LEMMA ResetStep ==
  ASSUME RegistryInv, NEW u \in Users, hook_reset_pm(u)
  PROVE  RegistryInv'
<1> DEFINE h == handle[u]
<1>1. PICK setting \in PermissionSettings : Resets(u, setting) BY DEF hook_reset_pm
<1>2. /\ h \in DOMAIN hooks /\ h \in Hooks /\ setting \in SUBSET (Classes \X Modes)
      /\ hooks' = [hooks EXCEPT ![h].pm_s = setting]
      /\ opened' = opened \cup {entry \in {h} \X Modes : <<"other", entry[2]>> \in setting}
      /\ UNCHANGED <<hook_map, registering, handle, registered, made>>
  BY <1>1, RegistryAssumption DEF hook_reset_pm, Uses, MayReset, Resets, RegistryInv,
     RegistryTypeOK
<1> HIDE DEF h
<1>3. /\ DOMAIN hooks' = DOMAIN hooks /\ hooks'[h].pm_s = setting
      /\ \A g \in DOMAIN hooks : /\ g # h => hooks'[g] = hooks[g]
                                 /\ hooks'[g].name = hooks[g].name
                                 /\ hooks'[g].owner = hooks[g].owner
                                 /\ hooks'[g].group = hooks[g].group
  BY <1>2 DEF RegistryInv, RegistryTypeOK, HookType
<1>4. RegistryTypeOK'
  <2>1. hooks' \in [DOMAIN hooks' -> HookType]
    BY <1>2, <1>3 DEF RegistryInv, RegistryTypeOK, HookType
  <2>2. opened' \subseteq Hooks \X Modes
    <3>1. {h} \X Modes \subseteq Hooks \X Modes BY <1>2
    <3>2. QED BY <1>2, <3>1 DEF RegistryInv, RegistryTypeOK
  <2>3. QED BY <1>2, <1>3, <2>1, <2>2 DEF RegistryInv, RegistryTypeOK
<1>5. Memory'
  BY <1>2, <1>3 DEF RegistryInv, Memory, KnownLive, HandlesLive, PendingPrivate, Pending,
     StandsAt, Mine
<1>6. Names'
  BY <1>2, <1>3 DEF RegistryInv, Memory, KnownLive, Names, MapLeads, RegisteredIsFound
<1>7. Permissions'
  <2>1. OthersOpened'
    <3>1. ASSUME NEW g \in DOMAIN hooks', NEW m \in Modes, <<"other", m>> \in hooks'[g].pm_s
          PROVE  <<g, m>> \in opened'
      <4>1. CASE g = h BY <1>2, <1>3, <3>1, <4>1
      <4>2. CASE g # h BY <1>2, <1>3, <3>1, <4>2 DEF RegistryInv, Permissions, OthersOpened
      <4>3. QED BY <4>1, <4>2
    <3>2. QED BY <3>1 DEF OthersOpened
  <2>2. \A g \in DOMAIN hooks, v \in Users : ClassOf(g, v)' = ClassOf(g, v)
    BY <1>3, SameClass
  <2>3. opened \subseteq opened' BY <1>2
  <2>4. AddersAllowed'
    BY <1>2, <2>2, <2>3 DEF RegistryInv, Memory, KnownLive, Permissions, AddersAllowed, StandsAt,
       Mine
  <2>5. MakersAllowed'
    <3>1. ASSUME NEW entry \in made
          PROVE  entry[1] \in DOMAIN hooks /\ entry[2] \in Users
      BY DEF RegistryInv, RegistryTypeOK, Memory, KnownLive
    <3>2. \A entry \in made : ClassOf(entry[1], entry[2])' = ClassOf(entry[1], entry[2])
      BY <2>2, <3>1
    <3>3. QED BY <1>2, <2>3, <3>2 DEF RegistryInv, Permissions, MakersAllowed
  <2>6. QED BY <2>1, <2>4, <2>5 DEF Permissions
<1>8. QED BY <1>4, <1>5, <1>6, <1>7 DEF RegistryInv

LEMMA RegistryStep ==
  ASSUME RegistryInv, [RegistryNext]_registryVars
  PROVE  RegistryInv'
<1>1. CASE UNCHANGED registryVars
  BY <1>1 DEF registryVars, RegistryInv, RegistryTypeOK, Memory, KnownLive, HandlesLive,
     PendingPrivate,
     Pending, StandsAt, Mine, Names, MapLeads, RegisteredIsFound, Permissions, OthersOpened,
     AddersAllowed, MakersAllowed, ClassOf
<1>2. CASE RegistryNext
  BY <1>2, LoginStep, UnregisterStep, FindStep, RegisterStep, LogoutStep,
     LogoutUnregistersStep,
     FreeStep, NewObjStep, NewObjChangesStep, ResetStep DEF RegistryNext
<1>3. QED BY <1>1, <1>2

-----------------------------------------------------------------------------
(* Theorems *)

(* The invariant above holds however the steps of clients interleave       *)
(* (registry.c, lib/hook.c).                                               *)
THEOREM RegistryInvariant == RegistrySpec => []RegistryInv
<1>1. reg_init => RegistryInv BY RegistryInit
<1>2. RegistryInv /\ [RegistryNext]_registryVars => RegistryInv' BY RegistryStep
<1>3. QED BY <1>1, <1>2, PTL DEF RegistrySpec

(* Whatever names clients register at the same time, and however the undo  *)
(* of a refused registration interferes, a name leads to the hook that was *)
(* registered under it until somebody unregisters the name (registry.c).   *)
THEOREM RegisteredIsAlwaysFound == RegistrySpec => []RegisteredIsFound
<1>1. RegistryInv => RegisteredIsFound BY DEF RegistryInv, Names
<1>2. QED BY <1>1, RegistryInvariant, PTL

(* No handle that reg_find has given out ever points to freed memory: what *)
(* is freed was known to its maker only (registry.c, lib/hook.c).          *)
THEOREM HandlesStayLive == RegistrySpec => []HandlesLive
<1>1. RegistryInv => HandlesLive BY DEF RegistryInv, Memory
<1>2. QED BY <1>1, RegistryInvariant, PTL

(* Permissions tested one after the other let no stranger in whom the owner *)
(* or root did not let in (lib/hook.c).                                     *)
THEOREM StrangersStayOut == RegistrySpec => []StrangersKeptOut
<1>1. RegistryInv => StrangersKeptOut
  BY DEF RegistryInv, RegistryTypeOK, Memory, KnownLive, Permissions, MakersAllowed,
     StrangersKeptOut
<1>2. QED BY <1>1, RegistryInvariant, PTL

-----------------------------------------------------------------------------
(* The runtime *)

AllValues ==
  [type : {"undefined", "null", "number", "list"}, n : Int, items : Seq(Cells)]

(* The elements of a variable's list are allocated. *)
ElementsAllocated(v) == \A i \in DOMAIN ctx[v].items : ctx[v].items[i] \in DOMAIN heap

(* The inductive invariant for the variables: only a pop frees an element. *)
ContextTypeOK ==
  /\ ctx \in [VarNames -> AllValues]
  /\ heap \in [DOMAIN heap -> Numbers] /\ DOMAIN heap \subseteq Cells
  /\ popped \in BOOLEAN /\ misread \in BOOLEAN
ListsInv == ContextTypeOK /\ (popped \/ \A v \in VarNames : ElementsAllocated(v))

-----------------------------------------------------------------------------
(* Lemmas about values and assignments *)

LEMMA ValuesTyped ==
  /\ Undefined \in AllValues /\ NoValue \in AllValues
  /\ \A n \in Int : NumberValue(n) \in AllValues
  /\ \A items \in Seq(Cells) : ListValue(items) \in AllValues
  /\ Undefined.items = <<>> /\ NoValue.items = <<>>
  /\ \A n \in Int : NumberValue(n).items = <<>>
  /\ \A items \in Seq(Cells) : ListValue(items).items = items
<1>1. /\ Undefined \in AllValues /\ NoValue \in AllValues
      /\ Undefined.items = <<>> /\ NoValue.items = <<>>
  BY DEF Undefined, NoValue, OfType, AllValues
<1>2. ASSUME NEW n \in Int
      PROVE  NumberValue(n) \in AllValues /\ NumberValue(n).items = <<>>
  <2>1. NumberValue(n) = [type |-> "number", n |-> n, items |-> <<>>]
    BY DEF NumberValue, OfType
  <2>2. QED BY <2>1 DEF AllValues
<1>3. ASSUME NEW items \in Seq(Cells)
      PROVE  ListValue(items) \in AllValues /\ ListValue(items).items = items
  <2>1. ListValue(items) = [type |-> "list", n |-> 0, items |-> items]
    BY DEF ListValue, OfType
  <2>2. QED BY <2>1 DEF AllValues
<1>4. QED BY <1>1, <1>2, <1>3

(* An assignment leaves the variables that it does not name alone; one that *)
(* it names has the value, its old one, or none.                            *)
LEMMA AssignmentProperties ==
  ASSUME NEW targets, NEW value \in AllValues,
         ctx \in [VarNames -> AllValues], AllSet(targets, value)
  PROVE  /\ ctx' \in [VarNames -> AllValues]
         /\ \A v \in VarNames \ targets : ctx'[v] = ctx[v]
         /\ \A v \in VarNames : ctx'[v] \in {ctx[v], value, NoValue}
BY ValuesTyped DEF AllSet

(* A heap with one more element keeps the others. *)
LEMMA HeapWithProperties ==
  ASSUME NEW cell \in Cells \ DOMAIN heap, NEW n \in Numbers,
         ContextTypeOK, heap' = HeapWith(cell, n)
  PROVE  /\ DOMAIN heap' = DOMAIN heap \cup {cell} /\ DOMAIN heap' \subseteq Cells
         /\ \A c \in DOMAIN heap : heap'[c] = heap[c]
         /\ heap' \in [DOMAIN heap' -> Numbers]
BY DEF HeapWith, ContextTypeOK

(* The list with one more element holds what it held, and the element. *)
LEMMA WithElementProperties ==
  ASSUME NEW w \in VarNames, NEW cell \in Cells, NEW side, ContextTypeOK
  PROVE  /\ WithElement(w, cell, side) \in AllValues
         /\ \A i \in DOMAIN WithElement(w, cell, side).items :
              \/ WithElement(w, cell, side).items[i] = cell
              \/ \E j \in DOMAIN ctx[w].items :
                   WithElement(w, cell, side).items[i] = ctx[w].items[j]
<1> DEFINE s == ctx[w].items
<1> DEFINE t == IF side = "l" THEN <<cell>> \o s ELSE Append(s, cell)
<1>1. s \in Seq(Cells) BY DEF ContextTypeOK, AllValues
<1>2. WithElement(w, cell, side) = ListValue(t) BY DEF WithElement
<1> HIDE DEF s
<1>3. t \in Seq(Cells) BY <1>1
<1>4. \A i \in DOMAIN t : t[i] = cell \/ \E j \in DOMAIN s : t[i] = s[j]
  <2>1. CASE side = "l"
    <3>1. t = <<cell>> \o s BY <2>1
    <3> HIDE DEF t
    <3>2. ASSUME NEW i \in DOMAIN t, i # 1
          PROVE  i - 1 \in DOMAIN s /\ t[i] = s[i - 1]
      BY <1>1, <3>1, <3>2
    <3>3. 1 \in DOMAIN t => t[1] = cell BY <1>1, <3>1
    <3>4. QED BY <3>2, <3>3
  <2>2. CASE side # "l"
    <3>1. t = Append(s, cell) BY <2>2
    <3> HIDE DEF t
    <3>2. ASSUME NEW i \in DOMAIN t
          PROVE  t[i] = cell \/ (i \in DOMAIN s /\ t[i] = s[i])
      <4>1. DOMAIN t = 1 .. Len(s) + 1 /\ DOMAIN s = 1 .. Len(s) /\ Len(s) \in Nat
        BY <1>1, <3>1
      <4>2. CASE i = Len(s) + 1 BY <1>1, <3>1, <4>2
      <4>3. CASE i # Len(s) + 1
        <5>1. i \in 1 .. Len(s) BY <4>1, <4>3
        <5>2. QED BY <1>1, <3>1, <4>1, <5>1
      <4>4. QED BY <4>2, <4>3
    <3>3. QED BY <3>2
  <2>3. QED BY <2>1, <2>2
<1> HIDE DEF t
<1>5. WithElement(w, cell, side) \in AllValues /\ WithElement(w, cell, side).items = t
  BY <1>2, <1>3, ValuesTyped
<1>6. QED BY <1>4, <1>5 DEF s

-----------------------------------------------------------------------------
(* What each kind of statement does to the variables and the heap *)

(* No variable reads differently than before, except target. *)
OthersRead(target) == \A v \in VarNames \ {target} : Reading(v)' = Reading(v)

(* An assignment to v of a value whose elements are allocated, while the    *)
(* heap only grows.                                                         *)
LEMMA AssignStep ==
  ASSUME NEW v, NEW value \in AllValues, ListsInv, context_set(v, value),
         popped' = popped, misread' \in BOOLEAN,
         heap' \in [DOMAIN heap' -> Numbers], DOMAIN heap' \subseteq Cells,
         DOMAIN heap \subseteq DOMAIN heap',
         \A c \in DOMAIN heap : heap'[c] = heap[c],
         popped \/ \A i \in DOMAIN value.items : value.items[i] \in DOMAIN heap'
  PROVE  ListsInv' /\ (popped' \/ OthersRead(v))
<1>1. ctx \in [VarNames -> AllValues] BY DEF ListsInv, ContextTypeOK
<1>2. /\ ctx' \in [VarNames -> AllValues]
      /\ \A u \in VarNames \ {v} : ctx'[u] = ctx[u]
      /\ \A u \in VarNames : ctx'[u] \in {ctx[u], value, NoValue}
  BY <1>1, AssignmentProperties DEF context_set
<1>3. ContextTypeOK' BY <1>2 DEF ListsInv, ContextTypeOK
<1>4. CASE popped BY <1>3, <1>4 DEF ListsInv
<1>5. CASE ~popped
  <2>1. ASSUME NEW u \in VarNames PROVE ElementsAllocated(u)'
    <3>1. CASE ctx'[u] = ctx[u]
      BY <1>5, <3>1 DEF ListsInv, ElementsAllocated
    <3>2. CASE ctx'[u] = value BY <1>5, <3>2 DEF ElementsAllocated
    <3>3. CASE ctx'[u] = NoValue BY <3>3, ValuesTyped DEF ElementsAllocated
    <3>4. QED BY <1>2, <3>1, <3>2, <3>3
  <2>2. ASSUME NEW u \in VarNames \ {v} PROVE Reading(u)' = Reading(u)
    <3>1. ctx'[u] = ctx[u] BY <1>2
    <3>2. \A i \in DOMAIN ctx[u].items :
             /\ ctx[u].items[i] \in DOMAIN heap /\ ctx[u].items[i] \in DOMAIN heap'
             /\ heap'[ctx[u].items[i]] = heap[ctx[u].items[i]]
      BY <1>5 DEF ListsInv, ElementsAllocated
    <3>3. \A i \in DOMAIN ctx[u].items :
             ElementAt(ctx[u].items[i])' = ElementAt(ctx[u].items[i])
      BY <3>1, <3>2 DEF ElementAt
    <3>4. QED BY <3>1, <3>3 DEF Reading
  <2>3. QED BY <1>3, <2>1, <2>2 DEF ListsInv, OthersRead
<1>6. QED BY <1>4, <1>5

LEMMA LiteralStep ==
  ASSUME NEW v, NEW n \in Int, ListsInv, context_set(v, NumberValue(n)),
         UNCHANGED heap, popped' = popped, misread' \in BOOLEAN
  PROVE  ListsInv' /\ (popped' \/ OthersRead(v))
<1>1. NumberValue(n) \in AllValues /\ NumberValue(n).items = <<>> BY ValuesTyped
<1>2. /\ heap' \in [DOMAIN heap' -> Numbers] /\ DOMAIN heap' \subseteq Cells
      /\ DOMAIN heap \subseteq DOMAIN heap' /\ \A c \in DOMAIN heap : heap'[c] = heap[c]
  BY DEF ListsInv, ContextTypeOK
<1>3. \A i \in DOMAIN NumberValue(n).items : NumberValue(n).items[i] \in DOMAIN heap'
  BY <1>1
<1>4. QED BY <1>1, <1>2, <1>3, AssignStep

LEMMA CopyStep ==
  ASSUME NEW v \in VarNames, NEW w \in VarNames, ListsInv, LetsVariable(v, w)
  PROVE  ListsInv' /\ (popped' \/ OthersRead(v))
<1>1. ctx[w] \in AllValues BY DEF ListsInv, ContextTypeOK
<1>2. /\ heap' \in [DOMAIN heap' -> Numbers] /\ DOMAIN heap' \subseteq Cells
      /\ DOMAIN heap \subseteq DOMAIN heap' /\ \A c \in DOMAIN heap : heap'[c] = heap[c]
      /\ popped' = popped /\ misread' \in BOOLEAN
  BY DEF ListsInv, ContextTypeOK, LetsVariable
<1>3. popped \/ \A i \in DOMAIN ctx[w].items : ctx[w].items[i] \in DOMAIN heap'
  BY DEF ListsInv, ElementsAllocated, LetsVariable
<1>4. context_set(v, ctx[w]) BY DEF LetsVariable
<1>5. QED BY <1>1, <1>2, <1>3, <1>4, AssignStep

LEMMA EmptyListStep ==
  ASSUME NEW v \in VarNames, ListsInv, builtin_list(v)
  PROVE  ListsInv' /\ (popped' \/ OthersRead(v))
<1>1. <<>> \in Seq(Cells) OBVIOUS
<1>2. ListValue(<<>>) \in AllValues /\ ListValue(<<>>).items = <<>> BY <1>1, ValuesTyped
<1>3. /\ heap' \in [DOMAIN heap' -> Numbers] /\ DOMAIN heap' \subseteq Cells
      /\ DOMAIN heap \subseteq DOMAIN heap' /\ \A c \in DOMAIN heap : heap'[c] = heap[c]
      /\ popped' = popped /\ misread' \in BOOLEAN
  BY DEF ListsInv, ContextTypeOK, builtin_list
<1>4. \A i \in DOMAIN ListValue(<<>>).items : ListValue(<<>>).items[i] \in DOMAIN heap'
  BY <1>2
<1>5. context_set(v, ListValue(<<>>)) BY DEF builtin_list
<1>6. QED BY <1>2, <1>3, <1>4, <1>5, AssignStep

LEMMA PushStep ==
  ASSUME NEW v \in VarNames, NEW w \in VarNames, NEW side, ListsInv, builtin_push(v, w, side)
  PROVE  ListsInv' /\ (popped' \/ OthersRead(v))
<1>1. PICK cell \in Cells \ DOMAIN heap, n \in Numbers :
         heap' = HeapWith(cell, n) /\ context_set(v, WithElement(w, cell, side))
  BY DEF builtin_push
<1>2. ContextTypeOK BY DEF ListsInv
<1>3. /\ DOMAIN heap' = DOMAIN heap \cup {cell} /\ DOMAIN heap' \subseteq Cells
      /\ \A c \in DOMAIN heap : heap'[c] = heap[c]
      /\ heap' \in [DOMAIN heap' -> Numbers]
  BY <1>1, <1>2, HeapWithProperties
<1> DEFINE value == WithElement(w, cell, side)
<1>4. /\ value \in AllValues
      /\ \A i \in DOMAIN value.items :
           value.items[i] = cell \/ \E j \in DOMAIN ctx[w].items : value.items[i] = ctx[w].items[j]
  BY <1>2, WithElementProperties
<1> HIDE DEF value
<1>5. popped \/ \A j \in DOMAIN ctx[w].items : ctx[w].items[j] \in DOMAIN heap
  BY DEF ListsInv, ElementsAllocated
<1>6. popped \/ \A i \in DOMAIN value.items : value.items[i] \in DOMAIN heap'
  BY <1>3, <1>4, <1>5
<1>7. popped' = popped /\ misread' \in BOOLEAN BY <1>2 DEF builtin_push, ContextTypeOK
<1>8. context_set(v, value) BY <1>1 DEF value
<1>9. DOMAIN heap \subseteq DOMAIN heap' BY <1>3
<1>10. QED BY <1>3, <1>4, <1>6, <1>7, <1>8, <1>9, AssignStep

(* Something that is only printed changes no variable. *)
LEMMA PrintStep ==
  ASSUME ListsInv, UNCHANGED <<ctx, heap, popped>>, misread' \in BOOLEAN
  PROVE  ListsInv' /\ \A target : OthersRead(target)
<1>1. ListsInv' BY DEF ListsInv, ContextTypeOK, ElementsAllocated
<1>2. \A v \in VarNames : Reading(v)' = Reading(v) BY DEF Reading, ElementAt
<1>3. QED BY <1>1, <1>2 DEF OthersRead

(* lpop and rpop: the variables stay typed. *)
LEMMA PopStep ==
  ASSUME NEW v, NEW w \in VarNames, NEW side, ListsInv, builtin_pop(v, w, side)
  PROVE  ListsInv' /\ popped'
<1>1. popped' = TRUE BY DEF builtin_pop
<1> DEFINE cell == EndCell(w, side)
<1> HIDE DEF cell
<1>2. CASE cell \in DOMAIN heap
  <2>1. /\ heap' = [c \in DOMAIN heap \ {cell} |-> heap[c]]
        /\ Deliver(v, NumberValue(heap[cell])) /\ misread' = misread
    BY <1>2 DEF builtin_pop, cell
  <2>2. heap' \in [DOMAIN heap' -> Numbers] /\ DOMAIN heap' \subseteq Cells /\ misread' \in BOOLEAN
    BY <2>1 DEF ListsInv, ContextTypeOK
  <2>3. heap[cell] \in Int BY <1>2, RuntimeAssumption DEF ListsInv, ContextTypeOK
  <2>4. NumberValue(heap[cell]) \in AllValues BY <2>3, ValuesTyped
  <2>5. ctx \in [VarNames -> AllValues] BY DEF ListsInv, ContextTypeOK
  <2>6. ctx' \in [VarNames -> AllValues]
    BY <2>1, <2>4, <2>5, AssignmentProperties DEF Deliver, context_set
  <2>7. QED BY <1>1, <2>2, <2>6 DEF ListsInv, ContextTypeOK
<1>3. CASE cell \notin DOMAIN heap
  <2>1. misread' = TRUE /\ UNCHANGED <<ctx, heap>> BY <1>3 DEF builtin_pop, cell
  <2>2. QED BY <1>1, <2>1 DEF ListsInv, ContextTypeOK
<1>4. QED BY <1>2, <1>3

(* lget reads the element where it lies. *)
LEMMA GetStep ==
  ASSUME NEW v \in Targets, NEW w \in VarNames, ListsInv, builtin_lget(v, w)
  PROVE  ListsInv' /\ (popped' \/ \E target \in VarNames : OthersRead(target))
<1>1. UNCHANGED <<heap, popped>> BY DEF builtin_lget
<1>2. PICK i \in DOMAIN ctx[w].items :
        LET cell == ctx[w].items[i]
        IN IF cell \in DOMAIN heap THEN Deliver(v, NumberValue(heap[cell])) /\ UNCHANGED misread
           ELSE misread' = TRUE /\ UNCHANGED ctx
  BY DEF builtin_lget
<1> DEFINE cell == ctx[w].items[i]
<1>3. misread' \in BOOLEAN BY <1>2 DEF ListsInv, ContextTypeOK
<1>4. CASE UNCHANGED ctx
  BY <1>1, <1>3, <1>4, PrintStep
<1>5. CASE cell \in DOMAIN heap /\ v # NULL
  <2>1. context_set(v, NumberValue(heap[cell])) BY <1>2, <1>5 DEF Deliver
  <2>2. heap[cell] \in Int BY <1>5, RuntimeAssumption DEF ListsInv, ContextTypeOK
  <2>3. ListsInv' /\ (popped' \/ OthersRead(v))
    BY <1>1, <1>3, <2>1, <2>2, LiteralStep
  <2>4. v \in VarNames BY <1>5 DEF Targets
  <2>5. QED BY <2>3, <2>4
<1>6. cell \notin DOMAIN heap \/ v = NULL => UNCHANGED ctx BY <1>2 DEF Deliver
<1>7. QED BY <1>4, <1>5, <1>6

LEMMA LengthStep ==
  ASSUME NEW v \in VarNames, NEW w \in VarNames, ListsInv, builtin_llen(v, w)
  PROVE  ListsInv' /\ (popped' \/ OthersRead(v))
<1>1. Len(ctx[w].items) \in Int BY DEF ListsInv, ContextTypeOK, AllValues
<1>2. v # NULL BY RuntimeAssumption
<1>3. context_set(v, NumberValue(Len(ctx[w].items))) BY <1>2 DEF builtin_llen, Deliver
<1>4. UNCHANGED heap /\ popped' = popped /\ misread' \in BOOLEAN
  BY DEF builtin_llen, ListsInv, ContextTypeOK
<1>5. QED BY <1>1, <1>3, <1>4, LiteralStep

LEMMA NumberStep ==
  ASSUME NEW v \in VarNames, ListsInv, LetsNumber(v)
  PROVE  ListsInv' /\ (popped' \/ OthersRead(v))
<1>1. PICK n \in Numbers : context_set(v, NumberValue(n)) BY DEF LetsNumber
<1>2. n \in Int BY RuntimeAssumption
<1>3. UNCHANGED heap /\ popped' = popped /\ misread' \in BOOLEAN
  BY DEF LetsNumber, ListsInv, ContextTypeOK
<1>4. QED BY <1>1, <1>2, <1>3, LiteralStep

(* A package that is imported may set several variables. *)
LEMMA ImportStep ==
  ASSUME NEW p, ListsInv, package_load(p)
  PROVE  ListsInv' /\ packages' # packages
<1>1. Constant \in Int BY RuntimeAssumption
<1> DEFINE value == NumberValue(Constant)
<1>2. value \in AllValues /\ value.items = <<>> BY <1>1, ValuesTyped
<1>3. AllSet(ConstantsOf[p], value) /\ UNCHANGED <<heap, popped, misread>>
  BY DEF package_load
<1> HIDE DEF value
<1>4. ctx \in [VarNames -> AllValues] BY DEF ListsInv, ContextTypeOK
<1>5. /\ ctx' \in [VarNames -> AllValues]
      /\ \A u \in VarNames : ctx'[u] \in {ctx[u], value, NoValue}
  BY <1>2, <1>3, <1>4, AssignmentProperties
<1>6. ContextTypeOK' BY <1>3, <1>5 DEF ListsInv, ContextTypeOK
<1>7. popped' \/ \A u \in VarNames : ElementsAllocated(u)'
  <2> SUFFICES ASSUME ~popped', NEW u \in VarNames PROVE ElementsAllocated(u)' OBVIOUS
  <2>1. ElementsAllocated(u) BY <1>3 DEF ListsInv
  <2>2. CASE ctx'[u] = ctx[u] BY <1>3, <2>1, <2>2 DEF ElementsAllocated
  <2>3. CASE ctx'[u] \in {value, NoValue} BY <1>2, <2>3, ValuesTyped DEF ElementsAllocated
  <2>4. QED BY <1>5, <2>2, <2>3
<1>8. packages' # packages BY DEF package_load
<1>9. QED BY <1>6, <1>7, <1>8 DEF ListsInv

LEMMA ListsInit == interpreter_create => ListsInv
<1> SUFFICES ASSUME interpreter_create PROVE ListsInv OBVIOUS
<1>1. ctx \in [VarNames -> AllValues] /\ \A v \in VarNames : ctx[v].items = <<>>
  BY ValuesTyped DEF interpreter_create
<1>2. heap = <<>> /\ DOMAIN heap = {} /\ heap \in [DOMAIN heap -> Numbers]
  BY DEF interpreter_create
<1>3. QED BY <1>1, <1>2 DEF interpreter_create, ListsInv, ContextTypeOK, ElementsAllocated

LEMMA EndStep ==
  ASSUME interpreter_destroy
  PROVE  ListsInv' /\ Ends'
<1>1. /\ ctx' \in [VarNames -> AllValues]
      /\ \A v \in VarNames : ctx'[v].items = <<>> /\ ctx'[v] = Undefined
  BY ValuesTyped DEF interpreter_destroy
<1>2. heap' = <<>> /\ DOMAIN heap' = {} /\ heap' \in [DOMAIN heap' -> Numbers]
  BY DEF interpreter_destroy
<1>3. popped' = FALSE /\ misread' = FALSE BY DEF interpreter_destroy
<1>4. QED BY <1>1, <1>2, <1>3 DEF ListsInv, ContextTypeOK, ElementsAllocated, Ends

(* The action of the property: one variable is assigned at most. *)
OneVariableChanges ==
  ~popped' /\ ~Ends' /\ packages' = packages =>
    \E target \in VarNames : \A v \in VarNames \ {target} : Reading(v)' = Reading(v)

LEMMA RuntimeStep ==
  ASSUME ListsInv, [RuntimeNext]_runtimeVars
  PROVE  ListsInv' /\ [OneVariableChanges]_runtimeVars
<1>1. CASE \E v \in VarNames : LetsNumber(v) \/ builtin_list(v)
  BY <1>1, NumberStep, EmptyListStep DEF OneVariableChanges, OthersRead
<1>2. CASE \E v, w \in VarNames : LetsVariable(v, w) \/ builtin_llen(v, w)
  BY <1>2, CopyStep, LengthStep DEF OneVariableChanges, OthersRead
<1>3. CASE \E v, w \in VarNames, side \in {"l", "r"} : builtin_push(v, w, side)
  BY <1>3, PushStep DEF OneVariableChanges, OthersRead
<1>4. CASE \E v \in Targets, w \in VarNames, side \in {"l", "r"} : builtin_pop(v, w, side)
  BY <1>4, PopStep DEF OneVariableChanges
<1>5. CASE \E v \in Targets, w \in VarNames : builtin_lget(v, w)
  BY <1>5, GetStep DEF OneVariableChanges, OthersRead
<1>6. CASE \E p \in DOMAIN FunctionsOf : package_load(p)
  BY <1>6, ImportStep DEF OneVariableChanges
<1>7. CASE interpreter_destroy
  BY <1>7, EndStep DEF OneVariableChanges
<1>8. CASE UNCHANGED runtimeVars
  BY <1>8 DEF runtimeVars, ListsInv, ContextTypeOK, ElementsAllocated
<1>9. QED BY <1>1, <1>2, <1>3, <1>4, <1>5, <1>6, <1>7, <1>8 DEF RuntimeNext, Statement

-----------------------------------------------------------------------------
(* The table of functions *)

FunctionNames == UNION {Range(FunctionsOf[p]) : p \in DOMAIN FunctionsOf}
Entries == [name : FunctionNames, package : DOMAIN FunctionsOf]

(* A table within its size whose names differ and whose packages are loaded. *)
NamesDiffer(fs) == \A i, j \in DOMAIN fs : fs[i].name = fs[j].name => i = j
Backed(fs, loaded) ==
  /\ fs \in Seq(Entries) /\ Len(fs) <= MAX_FUNCTIONS
  /\ \A i \in DOMAIN fs : fs[i].package \in loaded
  /\ NamesDiffer(fs)

(* A name enters the table once, and only while there is room. *)
LEMMA RegisterBacked ==
  ASSUME NEW fs, NEW loaded, NEW p \in DOMAIN FunctionsOf, p \in loaded,
         NEW name \in FunctionNames, Backed(fs, loaded)
  PROVE  Backed(function_register(fs, name, p), loaded)
<1> DEFINE gs == function_register(fs, name, p)
<1>1. CASE Len(fs) >= MAX_FUNCTIONS \/ \E i \in DOMAIN fs : fs[i].name = name
  BY <1>1 DEF function_register
<1>2. CASE ~(Len(fs) >= MAX_FUNCTIONS \/ \E i \in DOMAIN fs : fs[i].name = name)
  <2> DEFINE e == [name |-> name, package |-> p]
  <2>1. gs = Append(fs, e) BY <1>2 DEF function_register
  <2>2. e \in Entries /\ e.name = name /\ e.package = p BY DEF Entries
  <2> HIDE DEF gs, e
  <2>3. fs \in Seq(Entries) /\ Len(fs) \in Nat /\ DOMAIN fs = 1 .. Len(fs)
    BY DEF Backed
  <2>4. /\ gs \in Seq(Entries) /\ Len(gs) = Len(fs) + 1 /\ DOMAIN gs = 1 .. Len(fs) + 1
        /\ gs[Len(fs) + 1] = e
    BY <2>1, <2>2, <2>3
  <2>5. ASSUME NEW i \in DOMAIN fs PROVE i \in DOMAIN gs /\ gs[i] = fs[i] /\ i # Len(fs) + 1
    BY <2>1, <2>2, <2>3, <2>4
  <2>6. ASSUME NEW i \in DOMAIN gs, i # Len(fs) + 1 PROVE i \in DOMAIN fs
    BY <2>3, <2>4, <2>6
  <2>7. Len(gs) <= MAX_FUNCTIONS BY <1>2, <2>3, <2>4, RuntimeAssumption
  <2>8. \A i \in DOMAIN gs : gs[i].package \in loaded
    BY <2>2, <2>4, <2>5, <2>6 DEF Backed
  <2>9. NamesDiffer(gs)
    <3>1. ASSUME NEW i \in DOMAIN fs PROVE gs[i].name # gs[Len(fs) + 1].name
      BY <1>2, <2>2, <2>4, <2>5
    <3>2. \A i, j \in DOMAIN fs : gs[i].name = gs[j].name => i = j
      BY <2>5 DEF Backed, NamesDiffer
    <3>3. QED BY <2>6, <3>1, <3>2 DEF NamesDiffer
  <2>10. Backed(gs, loaded) BY <2>4, <2>7, <2>8, <2>9 DEF Backed
  <2>11. QED BY <2>10 DEF gs
<1>3. QED BY <1>1, <1>2

(* The tables that the fold over a package's functions goes through: one    *)
(* for each set of positions of the first k.                                *)
After(fs, p, g, s) ==
  IF s = {} THEN fs
  ELSE function_register(g[s \ {Max(s)}], FunctionsOf[p][Max(s)], p)
Registering(fs, p, g, S) == g = [s \in SUBSET S |-> After(fs, p, g, s)]

LEMMA GreatestIs ==
  ASSUME NEW k \in Nat, NEW s \in SUBSET (1 .. k + 1), k + 1 \in s
  PROVE  Max(s) = k + 1 /\ s \ {k + 1} \in SUBSET (1 .. k)
<1>1. \A y \in s : k + 1 >= y OBVIOUS
<1>2. Max(s) \in s /\ \A y \in s : Max(s) >= y BY <1>1, Zenon DEF Max
<1>3. Max(s) \in 1 .. k + 1 /\ Max(s) >= k + 1 BY <1>2
<1>4. QED BY <1>3

LEMMA RestIs ==
  ASSUME NEW k \in Nat, NEW s \in SUBSET (1 .. k + 1), k + 1 \notin s
  PROVE  s \in SUBSET (1 .. k)
OBVIOUS

(* The fold over one more function than g goes through is g extended by it. *)
LEMMA OneMoreFunction ==
  ASSUME NEW fs, NEW p, NEW k \in Nat, NEW g, Registering(fs, p, g, 1 .. k)
  PROVE  \E h : Registering(fs, p, h, 1 .. k + 1)
<1> DEFINE h == [s \in SUBSET (1 .. k + 1) |->
                   IF k + 1 \in s
                   THEN function_register(g[s \ {k + 1}], FunctionsOf[p][k + 1], p)
                   ELSE g[s]]
<1>1. ASSUME NEW s \in SUBSET (1 .. k) PROVE g[s] = After(fs, p, g, s)
  BY DEF Registering
<1>2. ASSUME NEW s \in SUBSET (1 .. k + 1) PROVE h[s] = After(fs, p, h, s)
  <2>1. CASE k + 1 \in s
    <3>1. Max(s) = k + 1 /\ s \ {k + 1} \in SUBSET (1 .. k) BY <2>1, GreatestIs
    <3>2. s \ {k + 1} \in SUBSET (1 .. k + 1) /\ k + 1 \notin s \ {k + 1} /\ s # {}
      BY <2>1
    <3>3. h[s \ {k + 1}] = g[s \ {k + 1}] BY <3>2
    <3>4. h[s] = function_register(g[s \ {k + 1}], FunctionsOf[p][k + 1], p) BY <2>1
    <3> HIDE DEF h
    <3>5. QED BY <3>1, <3>2, <3>3, <3>4 DEF After
  <2>2. CASE k + 1 \notin s
    <3>1. s \in SUBSET (1 .. k) BY <2>2, RestIs
    <3>2. h[s] = g[s] /\ g[s] = After(fs, p, g, s) BY <1>1, <2>2, <3>1
    <3>3. s \ {Max(s)} \in SUBSET (1 .. k + 1) /\ k + 1 \notin s \ {Max(s)} BY <2>2
    <3>4. h[s \ {Max(s)}] = g[s \ {Max(s)}] BY <3>3
    <3> HIDE DEF h
    <3>5. QED BY <3>2, <3>4 DEF After
  <2>3. QED BY <2>1, <2>2
<1>3. h = [s \in SUBSET (1 .. k + 1) |-> h[s]] OBVIOUS
<1> HIDE DEF h
<1>4. h = [s \in SUBSET (1 .. k + 1) |-> After(fs, p, h, s)] BY <1>2, <1>3
<1>5. QED BY <1>4 DEF Registering

LEMMA FoldExists ==
  ASSUME NEW fs, NEW p, NEW n \in Nat
  PROVE  \E g : Registering(fs, p, g, 1 .. n)
<1> DEFINE good == {k \in Nat : \E g : Registering(fs, p, g, 1 .. k)}
<1>1. 0 \in good
  <2> DEFINE g == [s \in SUBSET (1 .. 0) |-> fs]
  <2>1. \A s \in SUBSET (1 .. 0) : s = {} OBVIOUS
  <2>2. ASSUME NEW s \in SUBSET (1 .. 0) PROVE After(fs, p, g, s) = fs
    BY <2>1 DEF After
  <2>3. Registering(fs, p, g, 1 .. 0) BY <2>2 DEF Registering
  <2>4. QED BY <2>3
<1>2. ASSUME NEW k \in 0 .. n - 1, k \in good PROVE k + 1 \in good
  <2>1. k \in Nat /\ k + 1 \in Nat OBVIOUS
  <2>2. PICK g : Registering(fs, p, g, 1 .. k) BY <1>2
  <2>3. \E h : Registering(fs, p, h, 1 .. k + 1) BY <2>1, <2>2, OneMoreFunction
  <2>4. QED BY <2>1, <2>3
<1> HIDE DEF good
<1>3. n \in good BY <1>1, <1>2, Arrays!UpTo
<1>4. QED BY <1>3 DEF good

(* Every table that the fold goes through is backed if the first one is. *)
LEMMA FoldBacked ==
  ASSUME NEW fs, NEW loaded, NEW p \in DOMAIN FunctionsOf, p \in loaded,
         Backed(fs, loaded), NEW g,
         Registering(fs, p, g, DOMAIN FunctionsOf[p])
  PROVE  Backed(g[DOMAIN FunctionsOf[p]], loaded)
<1> DEFINE n == Len(FunctionsOf[p])
<1>1. n \in Nat /\ DOMAIN FunctionsOf[p] = 1 .. n BY RuntimeAssumption
<1>2. \A i \in 1 .. n : FunctionsOf[p][i] \in FunctionNames
  BY <1>1 DEF FunctionNames, Range
<1> HIDE DEF n
<1>3. \A s \in SUBSET (1 .. n) : g[s] = After(fs, p, g, s) BY <1>1 DEF Registering
<1> DEFINE good == {k \in Nat : \A s \in SUBSET (1 .. k) : Backed(g[s], loaded)}
<1>4. 0 \in good
  <2>1. \A s \in SUBSET (1 .. 0) : s = {} /\ s \in SUBSET (1 .. n) OBVIOUS
  <2>2. QED BY <1>3, <2>1 DEF After
<1>5. ASSUME NEW k \in 0 .. n - 1, k \in good PROVE k + 1 \in good
  <2>1. k \in Nat /\ k + 1 \in Nat /\ k + 1 \in 1 .. n BY <1>1
  <2>2. ASSUME NEW s \in SUBSET (1 .. k + 1) PROVE Backed(g[s], loaded)
    <3>1. CASE k + 1 \in s
      <4>1. Max(s) = k + 1 /\ s \ {k + 1} \in SUBSET (1 .. k) /\ s # {}
        BY <2>1, <3>1, GreatestIs
      <4>2. s \in SUBSET (1 .. n) BY <1>1, <2>1
      <4>3. Backed(g[s \ {k + 1}], loaded) BY <1>5, <4>1
      <4>4. g[s] = function_register(g[s \ {k + 1}], FunctionsOf[p][k + 1], p)
        BY <1>3, <4>1, <4>2 DEF After
      <4>5. FunctionsOf[p][k + 1] \in FunctionNames BY <1>2, <2>1
      <4>6. QED BY <4>3, <4>4, <4>5, RegisterBacked
    <3>2. CASE k + 1 \notin s
      <4>1. s \in SUBSET (1 .. k) BY <2>1, <3>2, RestIs
      <4>2. QED BY <1>5, <4>1
    <3>3. QED BY <3>1, <3>2
  <2>3. QED BY <2>1, <2>2
<1>6. n \in good
  <2> HIDE DEF good
  <2>1. n \in Nat BY <1>1
  <2>2. \A k \in 0 .. n : k \in good BY <1>4, <1>5, <2>1, Arrays!UpTo
  <2>3. QED BY <2>1, <2>2
<1>7. 1 .. n \in SUBSET (1 .. n) OBVIOUS
<1>8. QED BY <1>1, <1>6, <1>7

(* A package leaves the table backed by the packages loaded then. *)
LEMMA PackageBacked ==
  ASSUME NEW fs, NEW loaded, NEW p \in DOMAIN FunctionsOf, p \in loaded, Backed(fs, loaded)
  PROVE  Backed(package_register(fs, p), loaded)
<1> DEFINE S == DOMAIN FunctionsOf[p]
<1> DEFINE iter == CHOOSE g : Registering(fs, p, g, S)
<1>1. S = 1 .. Len(FunctionsOf[p]) /\ Len(FunctionsOf[p]) \in Nat BY RuntimeAssumption
<1>2. \E g : Registering(fs, p, g, S) BY <1>1, FoldExists
<1>3. Registering(fs, p, iter, S) BY <1>2
<1>4. package_register(fs, p) = iter[S]
  BY DEF package_register, FoldLeft, MapThenFoldSet, Registering, After
<1> HIDE DEF iter
<1>5. QED BY <1>3, <1>4, FoldBacked

(* The inductive invariant for the table. *)
TableBacked == Backed(functions, packages)

LEMMA TableStep ==
  ASSUME TableBacked, [RuntimeNext]_runtimeVars
  PROVE  TableBacked'
<1>1. CASE \E p \in DOMAIN FunctionsOf : package_load(p)
  <2>1. PICK p \in DOMAIN FunctionsOf : package_load(p) BY <1>1
  <2>2. /\ packages' = packages \cup {p}
        /\ functions' = package_register(functions, p)
    BY <2>1 DEF package_load
  <2>3. Backed(functions, packages') BY <2>2 DEF TableBacked, Backed
  <2>4. Backed(package_register(functions, p), packages')
    BY <2>2, <2>3, PackageBacked
  <2>5. QED BY <2>2, <2>4 DEF TableBacked
<1>2. CASE interpreter_destroy
  <2>1. functions' = <<>> BY <1>2 DEF interpreter_destroy
  <2>2. QED BY <2>1, RuntimeAssumption DEF TableBacked, Backed, NamesDiffer
<1>3. CASE UNCHANGED <<functions, packages>> BY <1>3 DEF TableBacked
<1>4. QED
  BY <1>1, <1>2, <1>3
  DEF RuntimeNext, Statement, runtimeVars, LetsNumber, builtin_list, LetsVariable,
      builtin_llen, builtin_push, builtin_pop, builtin_lget

-----------------------------------------------------------------------------
(* Theorems *)

(* The variables, the elements and the two histories stay what the code     *)
(* takes them for, and a list whose session has popped nothing holds only   *)
(* elements that are allocated (context.c, builtin.c).                      *)
THEOREM ListsStayAllocated == RuntimeSpec => []ListsInv
<1>1. interpreter_create => ListsInv BY ListsInit
<1>2. ListsInv /\ [RuntimeNext]_runtimeVars => ListsInv' BY RuntimeStep
<1>3. QED BY <1>1, <1>2, PTL DEF RuntimeSpec

(* Though copies of a list share its elements, a statement that pops nothing *)
(* and imports nothing changes what is read from one variable at most, also *)
(* when memory runs out in the middle of its assignment (context_set of     *)
(* context.c, list_copy of lib/list.c, builtin.c).                          *)
THEOREM NoAliasingWithoutPop == RuntimeSpec => StatementsChangeOneVariable
<1>1. ListsInv /\ [RuntimeNext]_runtimeVars => [OneVariableChanges]_runtimeVars BY RuntimeStep
<1>2. RuntimeSpec => []ListsInv BY ListsStayAllocated
<1>3. QED BY <1>1, <1>2, PTL
  DEF RuntimeSpec, StatementsChangeOneVariable, OneVariableChanges

(* However the names of packages clash and wherever the table fills up,     *)
(* every function that can be called has a name of its own and the code of  *)
(* a loaded package behind it (function_register of function.c and          *)
(* package_load of package.c).                                              *)
THEOREM FunctionsStayBacked == RuntimeSpec => []FunctionsBacked
<1>1. interpreter_create => TableBacked
  <2>1. interpreter_create => functions = <<>> BY DEF interpreter_create
  <2>2. QED BY <2>1, RuntimeAssumption DEF TableBacked, Backed, NamesDiffer
<1>2. TableBacked /\ [RuntimeNext]_runtimeVars => TableBacked' BY TableStep
<1>3. TableBacked => FunctionsBacked
  BY DEF TableBacked, Backed, NamesDiffer, FunctionsBacked
<1>4. QED BY <1>1, <1>2, <1>3, PTL DEF RuntimeSpec
==============================================================================
