------------------------------- MODULE Registry -------------------------------
(***************************************************************************)
(* The registry of hooks (registry.c, lib/hook.c): clients register names, *)
(* look them up, set permissions and make objects, each in a thread of its *)
(* own.  What runs under Reg.lock is one step; a registration is several,  *)
(* and so is the test of two permissions, which takes no lock.  A hook is  *)
(* never freed once it has been in the table, and its object never made:   *)
(* hook_new_obj checks the permissions only.                               *)
(*                                                                         *)
(* A definition whose name says what it does wrong is a faulty variant of  *)
(* the one after it, which the specification does not use.                 *)
(***************************************************************************)
EXTENDS Stores

CONSTANTS
  Users,               (* one thread each                                   *)
  Root,                (* the user with uid 0                               *)
  GroupsOf,            (* each user's groups                                *)
  PrimaryGroup,        (* and the one of them that comes first              *)
  HookNames,
  Hooks,               (* addresses for hooks                               *)
  PermissionSettings   (* what the strings of hook_set_permission mean, with *)
                       (* the unfinished line for other_change completed    *)

Classes == {"owner", "group", "other"}
Modes == {"read", "add", "change"}

ASSUME RegistryAssumption ==
  /\ \A u \in Users : PrimaryGroup[u] \in GroupsOf[u]
  /\ NULL \notin Hooks /\ PermissionSettings \subseteq SUBSET (Classes \X Modes)

VARIABLES
  hook_map,     (* the hook under each name, or NULL                        *)
  hooks,        (* the hooks that are allocated                             *)
  registering,  (* how far each client's call has come, and with which hook *)
  handle,       (* the handle that each client holds                        *)
  registered,   (* history: hooks registered and not unregistered since     *)
  opened,       (* history: what owner or root have opened to others        *)
  made          (* history: who has made objects with which hook            *)

registryVars == <<hook_map, hooks, registering, handle, registered, opened, made>>
histories == <<registered, opened, made>>

Idle == [at |-> "idle", hook |-> NULL]
DefaultPermissions == {"owner", "group"} \X Modes

reg_init ==
  /\ hook_map = [name \in HookNames |-> NULL] /\ hooks = <<>>
  /\ registering = [u \in Users |-> Idle] /\ handle = [u \in Users |-> NULL]
  /\ registered = {} /\ opened = {} /\ made = {}

Goes(u, at, hook) == registering' = [registering EXCEPT ![u] = [at |-> at, hook |-> hook]]
StandsAt(u, at) == registering[u].at = at
Mine(u) == registering[u].hook

(* reg_register_hook begins: a hook of the caller's primary group. *)
HOOK_login(u, name) ==
  /\ StandsAt(u, "idle")
  /\ \E h \in Hooks \ DOMAIN hooks :
       /\ hooks' = [g \in DOMAIN hooks \cup {h} |->
                     IF g # h THEN hooks[g]
                     ELSE [name |-> name, owner |-> u, group |-> PrimaryGroup[u],
                           pm_s |-> DefaultPermissions]]
       /\ Goes(u, "adds", h)
  /\ UNCHANGED <<hook_map, handle, histories>>

(* The name is free and hash_put succeeds: the client gets its handle. *)
Publishes(u) ==
  /\ hook_map' = [hook_map EXCEPT ![hooks[Mine(u)].name] = Mine(u)]
  /\ handle' = [handle EXCEPT ![u] = Mine(u)]
  /\ registered' = registered \cup {Mine(u)}
  /\ Goes(u, "idle", NULL)
  /\ UNCHANGED <<hooks, opened, made>>
Taken(u) == hook_map[hooks[Mine(u)].name] # NULL
GivesUp(u, at) ==
  /\ Goes(u, at, Mine(u))
  /\ UNCHANGED <<hook_map, hooks, handle, histories>>

(* The faulty variant tests the name and adds it under two locks. *)
reg_register_hook_unlocks_between(u) ==
  \/ StandsAt(u, "adds") /\ GivesUp(u, IF Taken(u) THEN "tests" ELSE "puts")
  \/ StandsAt(u, "puts") /\ Publishes(u)
reg_register_hook(u) ==
  /\ StandsAt(u, "adds")
  /\ \/ ~Taken(u) /\ Publishes(u)
     \/ (Taken(u) \/ AllocFails) /\ GivesUp(u, "tests")

(* HOOK_logout asks whether the name is registered, not whether this hook   *)
(* is, and unregisters the name: it may be another client's.                *)
HOOK_logout(u) ==
  /\ StandsAt(u, "tests")
  /\ GivesUp(u, IF Taken(u) THEN "unregisters" ELSE "frees")

Removed(name) ==
  /\ hook_map' = [hook_map EXCEPT ![name] = NULL]
  /\ registered' = registered \ {hook_map[name]}
  /\ UNCHANGED <<opened, made>>
LogoutUnregisters(u) ==
  /\ StandsAt(u, "unregisters")
  /\ Removed(hooks[Mine(u)].name) /\ Goes(u, "frees", Mine(u))
  /\ UNCHANGED <<hooks, handle>>

Frees(h) == hooks' = [g \in DOMAIN hooks \ {h} |-> hooks[g]]
RegisterFrees(u) ==
  /\ StandsAt(u, "frees") /\ Frees(Mine(u)) /\ Goes(u, "idle", NULL)
  /\ UNCHANGED <<hook_map, handle, histories>>

(* A client's other calls, between its registrations. *)
reg_unregister_hook_frees(u, name) ==
  /\ StandsAt(u, "idle") /\ hook_map[name] # NULL
  /\ Removed(name) /\ Frees(hook_map[name])
  /\ UNCHANGED <<registering, handle>>
reg_unregister_hook(u, name) ==
  /\ StandsAt(u, "idle") /\ hook_map[name] # NULL
  /\ Removed(name)
  /\ UNCHANGED <<hooks, registering, handle>>

reg_find_hook(u, name) ==
  /\ StandsAt(u, "idle")
  /\ handle' = [handle EXCEPT ![u] = hook_map[name]]
  /\ UNCHANGED <<hook_map, hooks, registering, histories>>

(* The owner's permissions, else the group's for its members, else those of *)
(* the others.                                                              *)
ClassOf(h, u) ==
  IF hooks[h].owner = u THEN "owner"
  ELSE IF hooks[h].group \in GroupsOf[u] THEN "group" ELSE "other"
is_entitled(h, u, mode) == <<ClassOf(h, u), mode>> \in hooks[h].pm_s

Uses(u) == StandsAt(u, "idle") /\ handle[u] \in DOMAIN hooks

(* The permissions are tested one after the other, add first. *)
hook_new_obj(u) ==
  /\ Uses(u)
  /\ u = Root \/ is_entitled(handle[u], u, "add")
  /\ Goes(u, "adding", handle[u])
  /\ UNCHANGED <<hook_map, hooks, handle, histories>>
NewObjChanges(u) ==
  /\ StandsAt(u, "adding")
  /\ made' = IF u = Root \/ is_entitled(Mine(u), u, "change")
             THEN made \cup {<<Mine(u), u>>} ELSE made
  /\ Goes(u, "idle", NULL)
  /\ UNCHANGED <<hook_map, hooks, handle, registered, opened>>

MayReset(u, h) == u \in {Root, hooks[h].owner}
Resets(u, setting) ==
  /\ hooks' = [hooks EXCEPT ![handle[u]].pm_s = setting]
  /\ opened' = IF MayReset(u, handle[u])
               THEN opened \cup {entry \in {handle[u]} \X Modes : <<"other", entry[2]>> \in setting}
               ELSE opened
  /\ UNCHANGED <<hook_map, registering, handle, registered, made>>
hook_reset_pm_for_anyone(u) ==
  Uses(u) /\ \E setting \in PermissionSettings : Resets(u, setting)
hook_reset_pm(u) ==
  /\ Uses(u) /\ MayReset(u, handle[u])
  /\ \E setting \in PermissionSettings : Resets(u, setting)

RegistryNext ==
  \E u \in Users :
    \/ \E name \in HookNames :
         HOOK_login(u, name) \/ reg_unregister_hook(u, name) \/ reg_find_hook(u, name)
    \/ reg_register_hook(u) \/ HOOK_logout(u) \/ LogoutUnregisters(u) \/ RegisterFrees(u)
    \/ hook_new_obj(u) \/ NewObjChanges(u) \/ hook_reset_pm(u)

RegistrySpec == reg_init /\ [][RegistryNext]_registryVars

-----------------------------------------------------------------------------
(* Of clients that register one name at the same time one succeeds: a hook  *)
(* whose registration succeeded is found under its name until somebody      *)
(* unregisters the name, never displaced by a later one.                    *)
RegisteredIsFound == \A h \in registered : hook_map[hooks[h].name] = h

(* reg_find gives the pointer away and then unlocks; whatever other clients *)
(* unregister after that, the memory behind a handle is not freed.          *)
HandlesLive == \A u \in Users : handle[u] \in DOMAIN hooks \cup {NULL}

(* Who is not of a hook's group makes objects with it only if its owner or  *)
(* root has opened it to others, adding and changing at least one after the *)
(* other, whoever held handles to it in between.                            *)
StrangersKeptOut ==
  \A entry \in made :
    \/ entry[2] = Root
    \/ {<<entry[1], "add">>, <<entry[1], "change">>} \subseteq opened
    \/ \E h \in DOMAIN hooks : h = entry[1] /\ ClassOf(h, entry[2]) # "other"
==============================================================================
