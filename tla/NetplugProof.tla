----------------------------- MODULE NetplugProof -----------------------------
(***************************************************************************)
(* Theorems about Netplug, for every number of sessions, clients and       *)
(* packets: the pool of sessions is exact, sessions change hands clean, no *)
(* thread sleeps over work, and no packet is skipped, repeated or          *)
(* overtaken on its way through the queues.                                *)
(***************************************************************************)
EXTENDS Netplug, ListsProof, FiniteSetTheorems

LEMMA IdSets == Ids \subseteq Nat /\ 0 \in Ids /\ merr \notin Ids
BY IdAssumption DEF Ids, merr

(* The inductive invariant in three parts: sessions, queues, threads. *)

PoolType ==
  /\ state \in [Sessions -> {"IDLE", "USING", "ALIVE"}]
  /\ idle_sessions \in Seq(Sessions)
  /\ session_id \in [Sessions -> Ids \cup {merr}]
  /\ user_id \in [Sessions -> UserIds \cup {RootUid, NoUser}]
  /\ backlog \in [Sessions -> 0 .. MaxSent]
  /\ conn \in [Sessions -> Clients \cup {NoClient}]
  /\ closing \subseteq Sessions
  /\ accepting \in Sessions \cup {NoSession} /\ listening \in BOOLEAN
  /\ client \in [Clients -> {"new", "queued", "open", "expired", "gone"}]
  /\ sent \in [Clients -> 0 .. MaxSent]
  /\ sid_bitmap \subseteq Ids
  /\ logged_in \subseteq Clients

(* A client in a session has left the queue of connections; a buffer holds *)
(* no more than its client sent, and nothing outside a live session; the   *)
(* ids of live sessions are marked in the bitmap.                          *)
Linked ==
  /\ \A s \in Sessions : conn[s] # NoClient => client[conn[s]] \notin {"new", "queued"}
  /\ \A s \in Sessions : state[s] = "ALIVE" => backlog[s] <= sent[conn[s]]
  /\ \A s \in Sessions : state[s] # "ALIVE" => backlog[s] = 0
  /\ \A s \in Sessions : state[s] = "ALIVE" => session_id[s] \in sid_bitmap \cup {merr}

PoolInv == PoolType /\ PoolExact /\ Linked /\ SidsDistinct /\ NoInheritedLogin

Owner(q) == IF q = "command" THEN "executor" ELSE "responder"

QueueInv ==
  /\ list \in [Queues -> Seq(Message)]
  /\ shutdown \in [Queues -> BOOLEAN] /\ sleeping \in [Queues -> SUBSET Threads]
  /\ \A q \in Queues : sleeping[q] \subseteq {Owner(q)}
  /\ NoSleepOverWork

WorkInv ==
  /\ executing \in Message \cup {Nothing} /\ resp \in Message \cup {Nothing}
  /\ responder \in {"test", "dequeue", "validate", "send", "ended"}
  /\ responder \in {"validate", "send"} => resp \in Message
  /\ stage \in {"running", "flagged", "commands shut", "responses shut", "closing", "down"}
  /\ answered \in [Clients -> Seq(Packet)] /\ lost \subseteq Packet

IInv == PoolInv /\ QueueInv /\ WorkInv

(* What each part depends on. *)
poolPart == <<poolVars, lobbyVars, logged_in>>
workPart == <<workVars, stage, answered, lost>>

LEMMA PoolUnchanged == ASSUME PoolInv, UNCHANGED poolPart PROVE PoolInv'
BY DEF PoolInv, PoolType, PoolExact, Linked, SidsDistinct, NoInheritedLogin, poolPart,
       poolVars, lobbyVars

LEMMA QueueUnchanged == ASSUME QueueInv, UNCHANGED queueVars PROVE QueueInv'
BY DEF QueueInv, NoSleepOverWork, queueVars

LEMMA WorkUnchanged == ASSUME WorkInv, UNCHANGED workPart PROVE WorkInv'
BY DEF WorkInv, workPart, workVars

-----------------------------------------------------------------------------
(* Queues *)

(* With one consumer per queue, any signal wakes it. *)
LEMMA SignalsWake ==
  ASSUME QueueInv, NEW q \in Queues, NEW n \in Nat, Signals(q, n)
  PROVE  /\ sleeping' \in [Queues -> SUBSET Threads]
         /\ \A r \in Queues : sleeping'[r] \subseteq sleeping[r]
         /\ n > 0 => sleeping'[q] = {}
<1>1. PICK woken \in SUBSET sleeping[q] :
        /\ Cardinality(woken) = n \/ (Cardinality(woken) < n /\ woken = sleeping[q])
        /\ sleeping' = [sleeping EXCEPT ![q] = @ \ woken]
  BY DEF Signals
<1>2. sleeping \in [Queues -> SUBSET Threads] /\ sleeping[q] \subseteq {Owner(q)}
  BY DEF QueueInv
<1>3. n > 0 => woken = sleeping[q]
  <2>1. SUFFICES ASSUME n > 0, woken # sleeping[q] PROVE FALSE OBVIOUS
  <2>2. woken = {} BY <1>1, <1>2, <2>1
  <2>3. Cardinality(woken) = 0 BY <2>2, FS_EmptySet
  <2>4. QED BY <1>1, <2>1, <2>3
<1>4. QED BY <1>1, <1>2, <1>3

LEMMA EnqueueStep ==
  ASSUME QueueInv, NEW q \in Queues, NEW entries \in Seq(Message),
         list_queue_enqueue(q, entries)
  PROVE  QueueInv'
<1>1. /\ ~shutdown[q]
      /\ list' = [list EXCEPT ![q] = @ \o entries]
      /\ Signals(q, Len(entries))
      /\ shutdown' = shutdown
  BY DEF list_queue_enqueue, Accepts
<1>2. Len(entries) \in Nat OBVIOUS
<1>3. /\ sleeping' \in [Queues -> SUBSET Threads]
      /\ \A r \in Queues : sleeping'[r] \subseteq sleeping[r]
      /\ Len(entries) > 0 => sleeping'[q] = {}
  BY <1>1, <1>2, SignalsWake
<1>4. list[q] \in Seq(Message) /\ list[q] \o entries \in Seq(Message) BY DEF QueueInv
<1>5. list' \in [Queues -> Seq(Message)] BY <1>1, <1>4 DEF QueueInv
<1>6. ASSUME NEW r \in Queues, sleeping'[r] # {} PROVE list'[r] = <<>> /\ ~shutdown'[r]
  <2>1. sleeping[r] # {} BY <1>3, <1>6
  <2>2. list[r] = <<>> /\ ~shutdown[r] BY <2>1 DEF QueueInv, NoSleepOverWork
  <2>3. CASE r # q BY <1>1, <2>2, <2>3 DEF QueueInv
  <2>4. CASE r = q
    <3>1. Len(entries) = 0 BY <1>2, <1>3, <1>6, <2>4
    <3>2. entries = <<>> BY <3>1
    <3>3. list'[r] = <<>> BY <1>1, <2>2, <2>4, <3>2 DEF QueueInv
    <3>4. QED BY <1>1, <2>2, <3>3
  <2>5. QED BY <2>3, <2>4
<1>7. QED BY <1>1, <1>3, <1>5, <1>6 DEF QueueInv, NoSleepOverWork

LEMMA SleepStep ==
  ASSUME QueueInv, NEW q \in Queues, SleepOn(q, Owner(q))
  PROVE  QueueInv'
BY NetplugAssumption DEF QueueInv, NoSleepOverWork, SleepOn, Owner

LEMMA TakeStep ==
  ASSUME QueueInv, NEW q \in Queues, NEW t, ReturnsOldest(q, t)
  PROVE  QueueInv' /\ Head(list[q]) \in Message
<1>1. list[q] \in Seq(Message) /\ list[q] # <<>> BY DEF QueueInv, ReturnsOldest
<1>2. Head(list[q]) \in Message /\ Tail(list[q]) \in Seq(Message) BY <1>1
<1>3. list' \in [Queues -> Seq(Message)]
  BY <1>2 DEF QueueInv, ReturnsOldest
<1>4. \A r \in Queues : sleeping[r] # {} => list'[r] = list[r]
  BY <1>1 DEF QueueInv, ReturnsOldest, NoSleepOverWork
<1>5. QED BY <1>2, <1>3, <1>4 DEF QueueInv, ReturnsOldest, NoSleepOverWork

LEMMA WakeStep ==
  ASSUME QueueInv, NEW q \in Queues, NEW t, WakeSpuriously(q, t)
  PROVE  QueueInv'
BY DEF QueueInv, WakeSpuriously, NoSleepOverWork

LEMMA ShutdownStep ==
  ASSUME QueueInv, NEW q \in Queues, list_queue_shutdown(q)
  PROVE  QueueInv'
BY DEF QueueInv, list_queue_shutdown, NoSleepOverWork

-----------------------------------------------------------------------------
(* The stack of idle sessions *)

(* A stack without duplicates that misses a session is not full: the test  *)
(* of free_session never fails.                                            *)
LEMMA StackNotFull ==
  ASSUME NEW n \in Nat, NEW q \in Seq(1 .. n), Distinct(q),
         NEW s \in 1 .. n, ~Contains(q, s)
  PROVE  Len(q) < n
<1>1. DOMAIN q = 1 .. Len(q) /\ Len(q) \in Nat BY LenProperties
<1>2. \A i \in 1 .. Len(q) : q[i] \in (1 .. n) \ {s}
  BY <1>1, ElementOfSeq DEF Contains
<1>3. q \in [1 .. Len(q) -> (1 .. n) \ {s}] BY <1>1, <1>2
<1>4. q \in Injection(1 .. Len(q), (1 .. n) \ {s})
  BY <1>1, <1>3 DEF Injection, IsInjective, Distinct
<1>5. IsFiniteSet(1 .. n) /\ Cardinality(1 .. n) = n BY FS_Interval
<1>6. IsFiniteSet((1 .. n) \ {s}) /\ Cardinality((1 .. n) \ {s}) = n - 1
  BY <1>5, FS_RemoveElement
<1>7. Cardinality(1 .. Len(q)) <= n - 1 BY <1>4, <1>6, FS_Injection
<1>8. Cardinality(1 .. Len(q)) = Len(q)
  <2> DEFINE l == Len(q)
  <2>1. l \in Nat BY <1>1
  <2> HIDE DEF l
  <2>2. Cardinality(1 .. l) = IF 1 > l THEN 0 ELSE l - 1 + 1 BY <2>1, FS_Interval
  <2>3. QED BY <2>1, <2>2 DEF l
<1>9. QED BY <1>1, <1>7, <1>8

LEMMA PopProperties ==
  ASSUME NEW S, NEW q \in Seq(S), q # <<>>, Distinct(q)
  PROVE  /\ q[Len(q)] \in S /\ Contains(q, q[Len(q)])
         /\ SubSeq(q, 1, Len(q) - 1) \in Seq(S)
         /\ Distinct(SubSeq(q, 1, Len(q) - 1))
         /\ \A e : Contains(SubSeq(q, 1, Len(q) - 1), e)
                     <=> Contains(q, e) /\ e # q[Len(q)]
<1> DEFINE r == SubSeq(q, 1, Len(q) - 1)
<1>1. DOMAIN q = 1 .. Len(q) /\ Len(q) \in Nat /\ Len(q) > 0
  BY LenProperties, EmptySeq
<1>2. \A i \in 1 .. Len(q) : q[i] \in S BY <1>1, ElementOfSeq
<1>3. r \in Seq(S) /\ Len(r) = Len(q) - 1 /\ \A i \in 1 .. Len(q) - 1 : r[i] = q[i]
  BY <1>1, <1>2, SubSeqProperties
<1>4. DOMAIN r = 1 .. Len(q) - 1 BY <1>3, LenProperties
<1> HIDE DEF r
<1>5. Distinct(r) BY <1>1, <1>3, <1>4 DEF Distinct
<1>6. ASSUME NEW e PROVE Contains(r, e) <=> Contains(q, e) /\ e # q[Len(q)]
  BY <1>1, <1>3, <1>4 DEF Contains, Distinct
<1>7. Contains(q, q[Len(q)]) BY <1>1 DEF Contains
<1>8. QED BY <1>1, <1>2, <1>3, <1>5, <1>6, <1>7 DEF r

(* PoolExact in the terms of Lists. *)
StackExact ==
  Distinct(idle_sessions)
  /\ \A s \in Sessions : state[s] = "IDLE" <=> Contains(idle_sessions, s)
Owned ==
  /\ \A s \in Sessions : state[s] = "USING" <=> s = accepting
  /\ \A s \in Sessions : state[s] = "ALIVE" <=> conn[s] # NoClient
  /\ \A s \in closing : state[s] = "ALIVE"
  /\ \A s, t \in Sessions : conn[s] = conn[t] /\ conn[s] # NoClient => s = t

LEMMA PoolExactParts == PoolExact <=> StackExact /\ Owned
BY DEF PoolExact, StackExact, Owned, Distinct, Contains

LEMMA NextPoolExactParts == PoolExact' <=> (StackExact /\ Owned)'
BY DEF PoolExact, StackExact, Owned, Distinct, Contains

(* Freeing a session that is not idle puts it on the stack. *)
LEMMA FreeSession ==
  ASSUME PoolType, StackExact, NEW s \in Sessions, state[s] # "IDLE", free_session(s)
  PROVE  idle_sessions' \in Seq(Sessions) /\ StackExact'
<1>1. idle_sessions \in Seq(1 .. MAX_SESSIONS) /\ MAX_SESSIONS \in Nat
  BY NetplugAssumption DEF PoolType, Sessions
<1>2. ~Contains(idle_sessions, s) /\ Distinct(idle_sessions) BY DEF StackExact
<1>3. Len(idle_sessions) < MAX_SESSIONS BY <1>1, <1>2, StackNotFull DEF Sessions
<1>4. idle_sessions' = Append(idle_sessions, s) BY <1>3 DEF free_session
<1>5. /\ idle_sessions' \in Seq(Sessions)
      /\ Distinct(idle_sessions')
      /\ \A x : Contains(idle_sessions', x) <=> Contains(idle_sessions, x) \/ x = s
  <2>1. idle_sessions \in Seq(Sessions) BY DEF PoolType
  <2>2. QED BY <1>2, <1>4, <2>1, AppendElements
<1>6. state' = [state EXCEPT ![s] = "IDLE"] /\ DOMAIN state = Sessions
  BY DEF free_session, PoolType
<1>7. QED BY <1>5, <1>6 DEF StackExact

-----------------------------------------------------------------------------
(* The callbacks keep the pool in order *)

LEMMA PoolParts ==
  PoolInv <=> PoolType /\ StackExact /\ Owned /\ Linked /\ SidsDistinct /\ NoInheritedLogin
BY PoolExactParts DEF PoolInv

LEMMA NextPoolParts ==
  PoolInv' <=> (PoolType /\ StackExact /\ Owned /\ Linked /\ SidsDistinct
                /\ NoInheritedLogin)'
BY NextPoolExactParts DEF PoolInv

LEMMA ConnectPool ==
  ASSUME PoolInv, NEW c \in Clients, Connect(c) PROVE PoolInv'
<1>1. /\ client[c] = "new" /\ client' = [client EXCEPT ![c] = "queued"]
      /\ UNCHANGED <<poolVars, accepting, listening, sent, sid_bitmap, logged_in>>
  BY DEF Connect, historyVars
<1>2. PoolType' BY <1>1 DEF PoolInv, PoolType, poolVars
<1>3. PoolExact' BY <1>1 DEF PoolInv, PoolExact, poolVars
<1>4. Linked' BY <1>1 DEF PoolInv, PoolType, Linked, poolVars
<1>5. SidsDistinct' /\ NoInheritedLogin'
  BY <1>1 DEF PoolInv, SidsDistinct, NoInheritedLogin, poolVars
<1>6. QED BY <1>2, <1>3, <1>4, <1>5 DEF PoolInv

(* Taking the top of the stack empties no live session. *)
LEMMA AllocPool ==
  ASSUME PoolInv, accepting = NoSession, alloc_session,
         UNCHANGED <<conn, closing, listening, client, sent, sid_bitmap, logged_in>>
  PROVE  PoolInv'
<1> DEFINE s == idle_sessions[Len(idle_sessions)]
<1>1. /\ idle_sessions # <<>>
      /\ idle_sessions' = SubSeq(idle_sessions, 1, Len(idle_sessions) - 1)
      /\ state' = [state EXCEPT ![s] = "USING"]
      /\ session_id' = [session_id EXCEPT ![s] = 0]
      /\ user_id' = [user_id EXCEPT ![s] = RootUid]
      /\ backlog' = [backlog EXCEPT ![s] = 0]
      /\ accepting' = s
  BY DEF alloc_session, reset_session
<1>2. PoolType /\ StackExact /\ Owned /\ Linked /\ SidsDistinct /\ NoInheritedLogin
  BY PoolParts
<1>3. /\ s \in Sessions /\ Contains(idle_sessions, s)
      /\ idle_sessions' \in Seq(Sessions) /\ Distinct(idle_sessions')
      /\ \A e : Contains(idle_sessions', e) <=> Contains(idle_sessions, e) /\ e # s
  BY <1>1, <1>2, PopProperties DEF PoolType, StackExact
<1> HIDE DEF s
<1>4. state[s] = "IDLE" /\ conn[s] = NoClient BY <1>2, <1>3 DEF StackExact, Owned
<1>5. PoolType'
  BY <1>1, <1>2, <1>3, IdSets, NetplugAssumption DEF PoolType, RootUid
<1>6. StackExact' BY <1>1, <1>2, <1>3 DEF StackExact, PoolType
<1>7. NoSession \notin Sessions BY DEF NoSession, Sessions
<1>8. Owned' BY <1>1, <1>2, <1>3, <1>4, <1>7 DEF Owned, PoolType
<1>9. Linked' BY <1>1, <1>2, <1>3, <1>4 DEF Linked, PoolType
<1>10. SidsDistinct' BY <1>1, <1>2, <1>3, <1>4 DEF SidsDistinct, PoolType
<1>11. NoInheritedLogin' BY <1>1, <1>2, <1>3, <1>4 DEF NoInheritedLogin, PoolType
<1>12. QED BY <1>5, <1>6, <1>8, <1>9, <1>10, <1>11, NextPoolParts

LEMMA ConnectionPool == ASSUME PoolInv, on_connection PROVE PoolInv'
<1>1. accepting = NoSession
      /\ UNCHANGED <<client, sent, sid_bitmap, logged_in>>
  BY DEF on_connection, Loop, historyVars
<1>2. CASE alloc_session /\ UNCHANGED <<conn, closing, listening>>
  BY <1>1, <1>2, AllocPool
<1>3. CASE listening' = FALSE /\ UNCHANGED <<poolVars, accepting>>
  BY <1>1, <1>3, ZenonT(40) DEF PoolInv, PoolType, PoolExact, Linked, SidsDistinct, NoInheritedLogin,
                    poolVars
<1>4. QED BY <1>2, <1>3 DEF on_connection

(* The id of a new session is free, so no live session has it. *)
LEMMA NewSid ==
  ASSUME PoolInv
  PROVE  get_sid(sid_bitmap) = merr \/ get_sid(sid_bitmap) \in Ids \ sid_bitmap
<1>1. CASE Ids \subseteq sid_bitmap BY <1>1 DEF get_sid, FirstFree
<1>2. CASE ~(Ids \subseteq sid_bitmap)
  <2>1. Ids \ sid_bitmap \in SUBSET Nat /\ Ids \ sid_bitmap # {} BY <1>2, IdSets
  <2>2. \E x \in Ids \ sid_bitmap : \A y \in Ids \ sid_bitmap : x <= y
    BY <2>1, LeastExists
  <2>3. get_sid(sid_bitmap) =
          CHOOSE x \in Ids \ sid_bitmap : \A y \in Ids \ sid_bitmap : x <= y
    BY <1>2 DEF get_sid, FirstFree
  <2>4. QED BY <2>2, <2>3, Zenon
<1>3. QED BY <1>1, <1>2

(* The accept that succeeds. *)
LEMMA AcceptedPool ==
  ASSUME PoolInv, NEW c \in Clients, client[c] = "queued",
         NEW s \in Sessions, accepting = s, accepting' = NoSession,
         NEW sid, sid = merr \/ sid \in Ids \ sid_bitmap,
         conn' = [conn EXCEPT ![s] = c],
         state' = [state EXCEPT ![s] = "ALIVE"],
         session_id' = [session_id EXCEPT ![s] = sid],
         user_id' = [user_id EXCEPT ![s] = NoUser],
         sid_bitmap' = IF sid = merr THEN sid_bitmap ELSE sid_bitmap \cup {sid},
         \/ client' = [client EXCEPT ![c] = "open"] /\ closing' = closing
         \/ client' = [client EXCEPT ![c] = "gone"] /\ closing' = closing \cup {s},
         UNCHANGED <<idle_sessions, backlog, listening, sent, logged_in>>
  PROVE  PoolInv'
<1>1. PoolType /\ StackExact /\ Owned /\ Linked /\ SidsDistinct /\ NoInheritedLogin
  BY PoolParts
<1>2. state[s] = "USING" /\ conn[s] = NoClient /\ backlog[s] = 0
  BY <1>1 DEF Owned, Linked
<1>3. \A t \in Sessions : conn[t] # c
  BY <1>1, NetplugAssumption DEF Linked
<1>4. NoSession \notin Sessions /\ NoClient # c
  BY NetplugAssumption DEF NoSession, Sessions
<1>5. PoolType' BY <1>1 DEF PoolType
<1>6. StackExact' BY <1>1, <1>2 DEF StackExact, PoolType
<1>7. Owned'
  <2>1. \A t \in Sessions : state'[t] = "USING" <=> t = accepting'
    BY <1>1, <1>2, <1>4 DEF Owned, PoolType
  <2>2. \A t \in Sessions : state'[t] = "ALIVE" <=> conn'[t] # NoClient
    BY <1>1, <1>2, <1>4 DEF Owned, PoolType
  <2>3. \A t \in closing' : state'[t] = "ALIVE"
    BY <1>1, <1>2 DEF Owned, PoolType
  <2>4. \A t, u \in Sessions : conn'[t] = conn'[u] /\ conn'[t] # NoClient => t = u
    BY <1>1, <1>3, <1>4 DEF Owned, PoolType
  <2>5. QED BY <2>1, <2>2, <2>3, <2>4 DEF Owned
<1>8. Linked'
  <2>1. \A t \in Sessions : conn'[t] # NoClient => client'[conn'[t]] \notin {"new", "queued"}
    <3> TAKE t \in Sessions
    <3>1. CASE t = s BY <1>1, <3>1 DEF PoolType
    <3>2. CASE t # s
      <4>1. conn'[t] = conn[t] /\ conn[t] # c BY <1>1, <1>3, <3>2 DEF PoolType
      <4>2. conn[t] # NoClient => conn[t] \in Clients /\ client'[conn[t]] = client[conn[t]]
        BY <1>1, <4>1 DEF PoolType
      <4>3. QED BY <1>1, <4>1, <4>2 DEF Linked
    <3>3. QED BY <3>1, <3>2
  <2>2. \A t \in Sessions : state'[t] = "ALIVE" => backlog'[t] <= sent'[conn'[t]]
    BY <1>1, <1>2 DEF Linked, PoolType
  <2>3. \A t \in Sessions : state'[t] # "ALIVE" => backlog'[t] = 0
    BY <1>1, <1>2 DEF Linked, PoolType
  <2>4. \A t \in Sessions : state'[t] = "ALIVE" => session_id'[t] \in sid_bitmap' \cup {merr}
    BY <1>1, <1>2 DEF Linked, PoolType
  <2>5. QED BY <2>1, <2>2, <2>3, <2>4 DEF Linked
<1>9. SidsDistinct' BY <1>1, <1>2 DEF SidsDistinct, Linked, PoolType
<1>10. NoInheritedLogin' BY <1>1, <1>2 DEF NoInheritedLogin, PoolType
<1>11. QED BY <1>5, <1>6, <1>7, <1>8, <1>9, <1>10, NextPoolParts

(* Freeing a session whose socket is gone. *)
LEMMA FreedPool ==
  ASSUME PoolInv, NEW s \in Sessions, state[s] # "IDLE", free_session(s),
         conn' = [conn EXCEPT ![s] = NoClient], closing' = closing \ {s},
         accepting' = NoSession, accepting \in {NoSession, s},
         client' \in [Clients -> {"new", "queued", "open", "expired", "gone"}],
         \A c \in Clients : client[c] \notin {"new", "queued"}
                              => client'[c] \notin {"new", "queued"},
         listening' \in BOOLEAN, UNCHANGED <<sent, sid_bitmap, logged_in>>
  PROVE  PoolInv'
<1>1. /\ state' = [state EXCEPT ![s] = "IDLE"]
      /\ session_id' = [session_id EXCEPT ![s] = 0]
      /\ user_id' = [user_id EXCEPT ![s] = RootUid]
      /\ backlog' = [backlog EXCEPT ![s] = 0]
  BY DEF free_session, reset_session
<1>2. PoolType /\ StackExact /\ Owned /\ Linked /\ SidsDistinct /\ NoInheritedLogin
  BY PoolParts
<1>3. idle_sessions' \in Seq(Sessions) /\ StackExact' BY <1>2, FreeSession
<1>4. NoSession \notin Sessions BY DEF NoSession, Sessions
<1>5. PoolType'
  BY <1>1, <1>2, <1>3, IdSets, NetplugAssumption DEF PoolType, RootUid
<1>6. Owned'
  <2>1. \A t \in Sessions : state'[t] = "USING" <=> t = accepting'
    BY <1>1, <1>2, <1>4 DEF Owned, PoolType
  <2>2. \A t \in Sessions : state'[t] = "ALIVE" <=> conn'[t] # NoClient
    BY <1>1, <1>2 DEF Owned, PoolType
  <2>3. \A t \in closing' : state'[t] = "ALIVE"
    BY <1>1, <1>2 DEF Owned, PoolType
  <2>4. \A t, u \in Sessions : conn'[t] = conn'[u] /\ conn'[t] # NoClient => t = u
    BY <1>2 DEF Owned, PoolType
  <2>5. QED BY <2>1, <2>2, <2>3, <2>4 DEF Owned
<1>7. Linked'
  <2>1. \A t \in Sessions : conn'[t] # NoClient => client'[conn'[t]] \notin {"new", "queued"}
    BY <1>2 DEF Linked, PoolType
  <2>2. \A t \in Sessions : state'[t] = "ALIVE" => backlog'[t] <= sent'[conn'[t]]
    BY <1>1, <1>2 DEF Linked, PoolType
  <2>3. \A t \in Sessions : state'[t] # "ALIVE" => backlog'[t] = 0
    BY <1>1, <1>2 DEF Linked, PoolType
  <2>4. \A t \in Sessions : state'[t] = "ALIVE" => session_id'[t] \in sid_bitmap' \cup {merr}
    BY <1>1, <1>2 DEF Linked, PoolType
  <2>5. QED BY <2>1, <2>2, <2>3, <2>4 DEF Linked
<1>8. SidsDistinct' BY <1>1, <1>2 DEF SidsDistinct, PoolType
<1>9. NoInheritedLogin' BY <1>1, <1>2 DEF NoInheritedLogin, PoolType
<1>10. QED BY <1>3, <1>5, <1>6, <1>7, <1>8, <1>9, NextPoolParts

LEMMA AcceptPool ==
  ASSUME PoolInv, NEW c \in Clients, on_connection_accept(c) PROVE PoolInv'
<1> DEFINE s == accepting
           sid == get_sid(sid_bitmap)
<1>1. s \in Sessions /\ client[c] = "queued" /\ state[s] = "USING" /\ conn[s] = NoClient
      /\ s \notin closing
  BY PoolParts DEF on_connection_accept, PoolType, Owned
<1>2. accepting' = NoSession /\ UNCHANGED <<sent, logged_in>>
  BY DEF on_connection_accept, historyVars
<1>3. sid = merr \/ sid \in Ids \ sid_bitmap BY NewSid
<1>4. CASE /\ conn' = [conn EXCEPT ![s] = c]
           /\ state' = [state EXCEPT ![s] = "ALIVE"]
           /\ session_id' = [session_id EXCEPT ![s] = sid]
           /\ user_id' = [user_id EXCEPT ![s] = NoUser]
           /\ sid_bitmap' = IF sid = merr THEN sid_bitmap ELSE sid_bitmap \cup {sid}
           /\ \/ client' = [client EXCEPT ![c] = "open"] /\ UNCHANGED closing
              \/ client' = [client EXCEPT ![c] = "gone"] /\ closing' = closing \cup {s}
           /\ UNCHANGED <<idle_sessions, backlog, listening>>
  <2> HIDE DEF sid
  <2>1. QED BY <1>1, <1>2, <1>3, <1>4, AcceptedPool
<1>5. CASE /\ free_session(s)
           /\ \/ client' = [client EXCEPT ![c] = "gone"] /\ UNCHANGED listening
              \/ listening' = FALSE /\ UNCHANGED client
           /\ UNCHANGED <<conn, closing, sid_bitmap>>
  <2>1. PoolType BY PoolParts
  <2>2. conn' = [conn EXCEPT ![s] = NoClient] /\ closing' = closing \ {s}
    BY <1>1, <1>5, <2>1 DEF PoolType
  <2>3. /\ client' \in [Clients -> {"new", "queued", "open", "expired", "gone"}]
        /\ \A d \in Clients : client[d] \notin {"new", "queued"}
                                => client'[d] \notin {"new", "queued"}
        /\ listening' \in BOOLEAN
    BY <1>5, <2>1 DEF PoolType
  <2>4. s \in Sessions /\ state[s] # "IDLE" /\ accepting \in {NoSession, s} /\ free_session(s)
        /\ UNCHANGED <<sent, sid_bitmap, logged_in>>
    BY <1>1, <1>2, <1>5
  <2> HIDE DEF s
  <2>5. QED BY <1>2, <2>2, <2>3, <2>4, FreedPool DEF s
<1>6. QED BY <1>4, <1>5 DEF on_connection_accept

LEMMA ClosePool == ASSUME PoolInv, NEW s \in Sessions, on_close(s) PROVE PoolInv'
<1>1. /\ accepting = NoSession /\ accepting' = NoSession /\ s \in closing
      /\ closing' = closing \ {s} /\ conn' = [conn EXCEPT ![s] = NoClient]
      /\ free_session(s)
      /\ UNCHANGED <<listening, client, sent, sid_bitmap, logged_in>>
  BY DEF on_close, lobbyVars, historyVars
<1>2. PoolType /\ Owned BY PoolParts
<1>3. state[s] = "ALIVE" BY <1>1, <1>2 DEF Owned
<1>4. /\ client' \in [Clients -> {"new", "queued", "open", "expired", "gone"}]
      /\ listening' \in BOOLEAN
  BY <1>1, <1>2 DEF PoolType
<1>5. QED BY <1>1, <1>3, <1>4, FreedPool

(* Closing sessions that are alive. *)
LEMMA ClosingPool ==
  ASSUME PoolInv, NEW S \in SUBSET Sessions, \A s \in S : state[s] = "ALIVE",
         NEW why \in {"expired", "gone"}, uv_close(S, why),
         UNCHANGED <<state, idle_sessions, session_id, user_id, backlog, conn, accepting,
                     sent, sid_bitmap, logged_in>>,
         listening' \in BOOLEAN
  PROVE  PoolInv'
<1>1. PoolType /\ StackExact /\ Owned /\ Linked /\ SidsDistinct /\ NoInheritedLogin
  BY PoolParts
<1>2. closing' = closing \cup S
      /\ client' = [c \in Clients |-> IF \E s \in S : conn[s] = c THEN why ELSE client[c]]
  BY DEF uv_close
<1>3. PoolType' BY <1>1, <1>2 DEF PoolType
<1>4. StackExact' BY <1>1 DEF StackExact
<1>5. Owned' BY <1>1, <1>2 DEF Owned
<1>6. Linked' BY <1>1, <1>2 DEF Linked, PoolType
<1>7. SidsDistinct' /\ NoInheritedLogin' BY <1>1 DEF SidsDistinct, NoInheritedLogin
<1>8. QED BY <1>3, <1>4, <1>5, <1>6, <1>7, NextPoolParts

LEMMA EndPool == ASSUME PoolInv, NEW s \in Sessions, on_read_end(s) PROVE PoolInv'
<1>1. /\ \A t \in {s} : state[t] = "ALIVE"
      /\ uv_close({s}, "gone")
      /\ UNCHANGED <<state, idle_sessions, session_id, user_id, backlog, conn, accepting,
                     listening, sent, sid_bitmap, logged_in>>
  BY DEF on_read_end, Connected, historyVars
<1>2. listening' \in BOOLEAN BY <1>1 DEF PoolInv, PoolType
<1>3. QED BY <1>1, <1>2, ClosingPool

LEMMA ExpiryPool ==
  ASSUME PoolInv, NEW S \in SUBSET Sessions, cleanup_expired_sessions(S) PROVE PoolInv'
<1>1. /\ \A t \in S : state[t] = "ALIVE"
      /\ uv_close(S, "expired")
      /\ UNCHANGED <<state, idle_sessions, session_id, user_id, backlog, conn, accepting,
                     listening, sent, sid_bitmap, logged_in>>
  BY DEF cleanup_expired_sessions, historyVars
<1>2. listening' \in BOOLEAN BY <1>1 DEF PoolInv, PoolType
<1>3. QED BY <1>1, <1>2, ClosingPool

LEMMA JoinPool == ASSUME PoolInv, JoinResponder PROVE PoolInv'
<1> DEFINE S == {s \in Sessions : state[s] = "ALIVE"}
<1>1. /\ S \in SUBSET Sessions /\ \A t \in S : state[t] = "ALIVE"
      /\ uv_close(S, "gone")
      /\ UNCHANGED <<state, idle_sessions, session_id, user_id, backlog, conn, accepting,
                     sent, sid_bitmap, logged_in>>
      /\ listening' \in BOOLEAN
  BY DEF JoinResponder, historyVars
<1> HIDE DEF S
<1>2. QED BY <1>1, ClosingPool

(* The packets of a read are well formed, and so are their commands. *)
LEMMA OldestTyped ==
  ASSUME PoolInv, NEW s \in Sessions, conn[s] \in Clients,
         NEW total \in 0 .. MaxSent, NEW unhandled \in 0 .. total, NEW n \in 0 .. unhandled
  PROVE  Oldest(s, n, unhandled, total) \in Seq(Packet)
<1>1. total \in Nat /\ unhandled \in Nat /\ n \in Nat /\ MaxSent \in Nat
      /\ unhandled <= total /\ total <= MaxSent /\ n <= unhandled
  BY NetplugAssumption
<1>2. ASSUME NEW i \in 1 .. n PROVE total - unhandled + i \in 1 .. MaxSent
  BY <1>1
<1>3. \A i \in 1 .. n : <<conn[s], total - unhandled + i>> \in Packet
  BY <1>2 DEF Packet
<1>4. QED BY <1>1, <1>3, IsASeq DEF Oldest

LEMMA CommandsTyped ==
  ASSUME NEW s \in Sessions, NEW p \in Seq(Packet)
  PROVE  /\ Commands(s, p) \in Seq(Message) /\ PacketsOf(Commands(s, p)) = p
         /\ \A m : Contains(Commands(s, p), m) => m.session = s /\ Contains(p, m.packet)
<1>1. DOMAIN p = 1 .. Len(p) /\ Len(p) \in Nat /\ \A i \in 1 .. Len(p) : p[i] \in Packet
  BY LenProperties, ElementOfSeq
<1>2. \A i \in 1 .. Len(p) : [session |-> s, packet |-> p[i]] \in Message
  BY <1>1 DEF Message
<1>3. Commands(s, p) = [i \in 1 .. Len(p) |-> [session |-> s, packet |-> p[i]]]
  BY <1>1 DEF Commands
<1>4. Commands(s, p) \in Seq(Message) BY <1>1, <1>2, <1>3, IsASeq
<1>5. PacketsOf(Commands(s, p)) = [i \in 1 .. Len(p) |-> p[i]] BY <1>3 DEF PacketsOf
<1>6. p = [i \in 1 .. Len(p) |-> p[i]] BY <1>1
<1>7. \A m : Contains(Commands(s, p), m) => m.session = s /\ Contains(p, m.packet)
  BY <1>1, <1>3 DEF Contains
<1>8. QED BY <1>4, <1>5, <1>6, <1>7

(* Of the packets handled, those skipped are lost and the others queued. *)
Queued(s, packets, K) == Commands(s, Only(packets, Packet \ K))

LEMMA HandlesSome ==
  ASSUME NEW s \in Sessions, NEW packets \in Seq(Packet), Handles(s, packets)
  PROVE  \E K \in SUBSET Packet :
           /\ \A p \in K : Contains(packets, p)
           /\ Queued(s, packets, K) \in Seq(Message)
           /\ list_queue_enqueue("command", Queued(s, packets, K))
           /\ lost' = lost \cup K
<1>1. PICK K \in SUBSET {packets[i] : i \in DOMAIN packets} :
        /\ list_queue_enqueue("command", Queued(s, packets, K))
        /\ lost' = lost \cup K
  BY DEF Handles, Queued
<1>2. \A p \in K : Contains(packets, p) BY <1>1 DEF Contains
<1>3. K \in SUBSET Packet BY <1>1, LenProperties, ElementOfSeq
<1>4. Queued(s, packets, K) \in Seq(Message)
  <2> DEFINE M == Packet \ K
             N == Packet \cap M
  <2>1. Only(packets, M) \in Seq(N)
    <3> HIDE DEF M
    <3>1. QED BY OnlyTyped
  <2>2. N \subseteq Packet OBVIOUS
  <2> HIDE DEF N
  <2>3. Only(packets, M) \in Seq(Packet) BY <2>1, <2>2, SeqMonotonic
  <2>4. QED BY <2>3, CommandsTyped DEF Queued
<1>5. QED BY <1>1, <1>2, <1>3, <1>4

(* What a read leaves behind, what it queues, and what it loses. *)
LEMMA ProcessBuffer ==
  ASSUME PoolInv, NEW s \in Sessions, conn[s] \in Clients,
         NEW total \in 0 .. MaxSent, NEW unhandled \in 0 .. total,
         process_buffer(s, unhandled, total)
  PROVE  /\ \E left \in 0 .. unhandled : backlog' = [backlog EXCEPT ![s] = left]
         /\ \E entries \in Seq(Message) : list_queue_enqueue("command", entries)
         /\ \E K \in SUBSET Packet : lost' = lost \cup K
         /\ UNCHANGED <<closing, client>> \/ uv_close({s}, "gone")
<1> DEFINE handled == Least(unhandled, MAX_PACKETS_PER_CALL)
<1>1. unhandled \in Nat /\ handled \in 0 .. unhandled
  BY NetplugAssumption DEF Least
<1> HIDE DEF handled
<1>2. ASSUME NEW m \in 0 .. unhandled, Handles(s, Oldest(s, m, unhandled, total))
      PROVE  /\ \E entries \in Seq(Message) : list_queue_enqueue("command", entries)
             /\ \E K \in SUBSET Packet : lost' = lost \cup K
  BY <1>2, OldestTyped, HandlesSome
<1>3. CASE /\ Handles(s, Oldest(s, handled, unhandled, total))
           /\ backlog' = [backlog EXCEPT ![s] = unhandled - handled]
           /\ UNCHANGED <<closing, client>>
  <2>1. unhandled - handled \in 0 .. unhandled BY <1>1
  <2>2. QED BY <1>1, <1>2, <1>3, <2>1
<1>4. ASSUME NEW m \in 0 .. handled - 1,
             Handles(s, Oldest(s, m, unhandled, total)),
             backlog' = [backlog EXCEPT ![s] = unhandled - m],
             uv_close({s}, "gone")
      PROVE  /\ \E left \in 0 .. unhandled : backlog' = [backlog EXCEPT ![s] = left]
             /\ \E entries \in Seq(Message) : list_queue_enqueue("command", entries)
             /\ \E K \in SUBSET Packet : lost' = lost \cup K
             /\ uv_close({s}, "gone")
  <2>1. unhandled - m \in 0 .. unhandled /\ m \in 0 .. unhandled BY <1>1
  <2>2. QED BY <1>2, <1>4, <2>1
<1>5. QED BY <1>3, <1>4 DEF process_buffer, handled

(* A read: the length of a buffer and the count of its client's packets    *)
(* move together.                                                          *)
LEMMA ReadStep ==
  ASSUME PoolInv, QueueInv, NEW s \in Sessions, NEW n \in 1 .. MaxSent, on_read(s, n)
  PROVE  PoolInv' /\ QueueInv' /\ \E K \in SUBSET Packet : lost' = lost \cup K
<1> DEFINE c == conn[s]
           total == sent[c] + n
<1>1. PoolType /\ StackExact /\ Owned /\ Linked /\ SidsDistinct /\ NoInheritedLogin
  BY PoolParts
<1>2. /\ state[s] = "ALIVE" /\ total <= MaxSent
      /\ sent' = [sent EXCEPT ![c] = total]
      /\ process_buffer(s, backlog[s] + n, total)
      /\ UNCHANGED <<state, idle_sessions, session_id, user_id, conn, accepting, listening,
                     sid_bitmap, logged_in>>
  BY DEF on_read, Connected
<1>3. c \in Clients BY <1>1, <1>2 DEF Owned, PoolType
<1>4. sent[c] \in 0 .. MaxSent /\ backlog[s] \in 0 .. MaxSent /\ backlog[s] <= sent[c]
  BY <1>1, <1>2, <1>3 DEF Linked, PoolType
<1>5. total \in 0 .. MaxSent /\ backlog[s] + n \in 0 .. total
  BY <1>2, <1>4, NetplugAssumption
<1>6. sent[c] <= total BY <1>4
<1> HIDE DEF total
<1>7. /\ \E left \in 0 .. backlog[s] + n : backlog' = [backlog EXCEPT ![s] = left]
      /\ \E entries \in Seq(Message) : list_queue_enqueue("command", entries)
      /\ \E K \in SUBSET Packet : lost' = lost \cup K
      /\ UNCHANGED <<closing, client>> \/ uv_close({s}, "gone")
  BY <1>2, <1>3, <1>5, ProcessBuffer
<1>8. QueueInv' BY <1>7, EnqueueStep, NetplugAssumption
<1>9. PICK left \in 0 .. backlog[s] + n : backlog' = [backlog EXCEPT ![s] = left]
  BY <1>7
<1>10. left \in 0 .. MaxSent /\ left <= total BY <1>4, <1>5, <1>9, NetplugAssumption
<1>11. /\ closing' \subseteq closing \cup {s}
       /\ client' \in [Clients -> {"new", "queued", "open", "expired", "gone"}]
       /\ \A d \in Clients : client[d] \notin {"new", "queued"}
                               => client'[d] \notin {"new", "queued"}
  BY <1>1, <1>7 DEF uv_close, PoolType
<1>12. PoolType' BY <1>1, <1>2, <1>3, <1>5, <1>9, <1>10, <1>11 DEF PoolType
<1>13. StackExact' BY <1>1, <1>2 DEF StackExact
<1>14. Owned' BY <1>1, <1>2, <1>11 DEF Owned
<1>15. Linked'
  <2>1. \A t \in Sessions : conn'[t] # NoClient => client'[conn'[t]] \notin {"new", "queued"}
    BY <1>1, <1>2, <1>11 DEF Linked, PoolType
  <2>2. \A t \in Sessions : state'[t] = "ALIVE" => backlog'[t] <= sent'[conn'[t]]
    <3> SUFFICES ASSUME NEW t \in Sessions, state[t] = "ALIVE"
                 PROVE  backlog'[t] <= sent'[conn[t]]
      BY <1>2
    <3>1. CASE t = s BY <1>1, <1>2, <1>3, <1>9, <1>10, <3>1 DEF PoolType
    <3>2. CASE t # s
      <4>1. conn[t] \in Clients /\ conn[t] # c
        BY <1>1, <1>2, <1>3, <3>2 DEF Owned, PoolType
      <4>2. sent'[conn[t]] = sent[conn[t]] /\ backlog'[t] = backlog[t]
        BY <1>1, <1>2, <1>9, <3>2, <4>1 DEF PoolType
      <4>3. QED BY <1>1, <4>2 DEF Linked
    <3>3. QED BY <3>1, <3>2
  <2>3. \A t \in Sessions : state'[t] # "ALIVE" => backlog'[t] = 0
    BY <1>1, <1>2, <1>9 DEF Linked, PoolType
  <2>4. \A t \in Sessions : state'[t] = "ALIVE" => session_id'[t] \in sid_bitmap' \cup {merr}
    BY <1>1, <1>2 DEF Linked
  <2>5. QED BY <2>1, <2>2, <2>3, <2>4 DEF Linked
<1>16. SidsDistinct' /\ NoInheritedLogin'
  BY <1>1, <1>2 DEF SidsDistinct, NoInheritedLogin
<1>17. QED BY <1>7, <1>8, <1>12, <1>13, <1>14, <1>15, <1>16, NextPoolParts

(* A login touches one live session, whose connection is recorded. *)
LEMMA LoginPool == ASSUME PoolInv, Login PROVE PoolInv'
<1>1. PICK uid \in UserIds : auth_session(session_id[executing.session], uid)
  BY DEF Login
<1> DEFINE found == {s \in Sessions : session_id[s] = session_id[executing.session]
                                      /\ state[s] = "ALIVE"}
           s == CHOOSE x \in found : \A y \in found : x <= y
<1>2. found # {} /\ user_id' = [user_id EXCEPT ![s] = uid]
      /\ logged_in' = logged_in \cup {conn[s]}
  BY <1>1 DEF auth_session
<1>3. found \in SUBSET Nat BY NetplugAssumption DEF Sessions
<1>4. \E x \in found : \A y \in found : x <= y BY <1>2, <1>3, LeastExists
<1>5. s \in found BY <1>4, Zenon
<1>6. s \in Sessions /\ state[s] = "ALIVE" BY <1>5
<1> HIDE DEF s, found
<1>7. UNCHANGED <<state, idle_sessions, session_id, backlog, conn, closing, lobbyVars>>
  BY DEF Login
<1>8. PoolType /\ Owned BY PoolParts
<1>9. conn[s] \in Clients BY <1>6, <1>8 DEF Owned, PoolType
<1>10. PoolType' BY <1>2, <1>6, <1>7, <1>8, <1>9 DEF PoolType, lobbyVars
<1>11. PoolExact' /\ Linked' /\ SidsDistinct'
  BY <1>7 DEF PoolInv, PoolExact, Linked, SidsDistinct, lobbyVars
<1>12. NoInheritedLogin'
  BY <1>2, <1>6, <1>7, <1>8 DEF PoolInv, NoInheritedLogin, PoolType
<1>13. QED BY <1>10, <1>11, <1>12 DEF PoolInv

-----------------------------------------------------------------------------
(* The threads *)

LEMMA NothingIsNoMessage == Nothing \notin Message /\ NoSession \notin Sessions
BY DEF Nothing, Message, NoSession, Sessions

LEMMA ExecuteStep == ASSUME QueueInv, WorkInv, Execute PROVE QueueInv' /\ WorkInv'
<1>1. "command" \in Queues /\ Owner("command") = "executor"
  BY NetplugAssumption DEF Owner
<1>2. CASE SleepOn("command", "executor") /\ UNCHANGED executing
  <2>1. QueueInv' BY <1>1, <1>2, SleepStep
  <2>2. UNCHANGED workPart BY <1>2 DEF Execute, workPart, workVars, historyVars
  <2>3. QED BY <2>1, <2>2, WorkUnchanged
<1>3. CASE ReturnsOldest("command", "executor") /\ executing' = Head(list["command"])
  <2>1. QueueInv' /\ executing' \in Message BY <1>1, <1>3, TakeStep
  <2>2. UNCHANGED <<responder, resp, stage, answered, lost>>
    BY DEF Execute, historyVars
  <2>3. QED BY <2>1, <2>2 DEF WorkInv
<1>4. QED BY <1>2, <1>3 DEF Execute

LEMMA LoginStep == ASSUME QueueInv, WorkInv, Login PROVE QueueInv' /\ WorkInv'
<1>1. UNCHANGED queueVars /\ UNCHANGED workPart BY DEF Login, workPart
<1>2. QED BY <1>1, QueueUnchanged, WorkUnchanged

LEMMA AnswerStep == ASSUME QueueInv, WorkInv, Answer PROVE QueueInv' /\ WorkInv'
<1>1. executing \in Message /\ "response" \in Queues
  BY NetplugAssumption DEF WorkInv, Answer
<1>2. executing' = Nothing /\ UNCHANGED <<responder, resp, stage, answered>>
  BY DEF Answer
<1>3. CASE list_queue_enqueue("response", <<executing>>) /\ UNCHANGED lost
  <2>1. <<executing>> \in Seq(Message) BY <1>1
  <2>2. QueueInv' BY <1>1, <1>3, <2>1, EnqueueStep
  <2>3. QED BY <1>2, <1>3, <2>2 DEF WorkInv
<1>4. CASE lost' = lost \cup {executing.packet} /\ UNCHANGED queueVars
  <2>1. executing.packet \in Packet BY <1>1 DEF Message
  <2>2. WorkInv' BY <1>2, <1>4, <2>1 DEF WorkInv
  <2>3. QED BY <1>4, <2>2, QueueUnchanged
<1>5. QED BY <1>3, <1>4 DEF Answer

LEMMA AwaitStep == ASSUME QueueInv, WorkInv, AwaitResponse PROVE QueueInv' /\ WorkInv'
<1>1. "response" \in Queues /\ Owner("response") = "responder"
  BY NetplugAssumption DEF Owner
<1>2. UNCHANGED <<executing, stage, answered, lost>> BY DEF AwaitResponse, historyVars
<1>3. CASE SleepOn("response", "responder") /\ UNCHANGED <<responder, resp>>
  <2>1. QueueInv' BY <1>1, <1>3, SleepStep
  <2>2. QED BY <1>2, <1>3, <2>1 DEF WorkInv
<1>4. CASE ReturnsNothing("response", "responder") /\ responder' = "test" /\ UNCHANGED resp
  <2>1. QueueInv' BY <1>4, QueueUnchanged DEF ReturnsNothing
  <2>2. QED BY <1>2, <1>4, <2>1 DEF WorkInv
<1>5. CASE ReturnsOldest("response", "responder") /\ resp' = Head(list["response"])
           /\ responder' = "validate"
  <2>1. QueueInv' /\ resp' \in Message BY <1>1, <1>5, TakeStep
  <2>2. QED BY <1>2, <1>5, <2>1 DEF WorkInv
<1>6. QED BY <1>3, <1>4, <1>5 DEF AwaitResponse

LEMMA SendStep == ASSUME QueueInv, WorkInv, send_response PROVE QueueInv' /\ WorkInv'
<1>1. resp \in Message /\ resp.packet \in Packet
  BY DEF WorkInv, send_response, Message
<1>2. UNCHANGED queueVars /\ UNCHANGED <<executing, stage>>
      /\ responder' = "test" /\ resp' = Nothing
  BY DEF send_response
<1>3. answered' \in [Clients -> Seq(Packet)] /\ lost' \subseteq Packet
  <2>1. \A c \in Clients : answered[c] \in Seq(Packet)
                           /\ Append(answered[c], resp.packet) \in Seq(Packet)
    BY <1>1, AppendProperties DEF WorkInv
  <2>2. QED BY <1>1, <2>1 DEF WorkInv, send_response
<1>4. WorkInv' BY <1>2, <1>3 DEF WorkInv
<1>5. QED BY <1>2, <1>4, QueueUnchanged

LEMMA ResponderKeeps == ASSUME QueueInv, WorkInv, ResponderStep PROVE QueueInv' /\ WorkInv'
<1>1. CASE TestFlag
  <2>1. UNCHANGED queueVars /\ WorkInv' BY <1>1 DEF TestFlag, WorkInv, historyVars
  <2>2. QED BY <2>1, QueueUnchanged
<1>2. CASE AwaitResponse BY <1>2, AwaitStep
<1>3. CASE ValidateResponse
  <2>1. UNCHANGED queueVars /\ WorkInv' BY <1>3 DEF ValidateResponse, WorkInv, historyVars
  <2>2. QED BY <2>1, QueueUnchanged
<1>4. CASE send_response BY <1>4, SendStep
<1>5. QED BY <1>1, <1>2, <1>3, <1>4 DEF ResponderStep

LEMMA ShutdownKeeps == ASSUME QueueInv, WorkInv, netplug_shutdown PROVE QueueInv' /\ WorkInv'
<1>1. /\ stage' \in {"running", "flagged", "commands shut", "responses shut", "closing", "down"}
      /\ UNCHANGED <<workVars, answered, lost>>
  BY DEF netplug_shutdown, RaiseFlag, ShutDownCommands, ShutDownResponses, JoinResponder,
         Release, Advance, historyVars
<1>2. WorkInv' BY <1>1 DEF WorkInv, workVars
<1>3. CASE RaiseFlag \/ JoinResponder
  BY <1>2, <1>3, QueueUnchanged DEF RaiseFlag, JoinResponder
<1>4. CASE ShutDownCommands BY <1>2, <1>4, ShutdownStep, NetplugAssumption DEF ShutDownCommands
<1>5. CASE ShutDownResponses BY <1>2, <1>5, ShutdownStep, NetplugAssumption DEF ShutDownResponses
<1>6. CASE Release
  <2>1. list' = [q \in Queues |-> <<>>] /\ UNCHANGED <<shutdown, sleeping>>
    BY <1>6 DEF Release
  <2>2. <<>> \in Seq(Message) OBVIOUS
  <2>3. QED BY <1>2, <2>1, <2>2 DEF QueueInv, NoSleepOverWork
<1>7. QED BY <1>2, <1>3, <1>4, <1>5, <1>6 DEF netplug_shutdown

-----------------------------------------------------------------------------
(* The invariant *)

LEMMA InitIInv == Init => IInv
<1> SUFFICES ASSUME Init PROVE IInv OBVIOUS
<1>1. MAX_SESSIONS \in Nat /\ MaxSent \in Nat /\ 0 \in 0 .. MaxSent
      /\ NoSession \notin Sessions
  BY NetplugAssumption DEF NoSession, Sessions
<1>2. idle_sessions \in Seq(Sessions) /\ DOMAIN idle_sessions = Sessions
      /\ \A i \in Sessions : idle_sessions[i] = i
  BY <1>1, IsASeq DEF Init, Sessions
<1>3. PoolType
  BY <1>1, <1>2, IdSets, NetplugAssumption DEF PoolType, Init
<1>4. PoolExact BY <1>1, <1>2 DEF PoolExact, Init
<1>5. Linked /\ SidsDistinct /\ NoInheritedLogin
  BY DEF Linked, SidsDistinct, NoInheritedLogin, Init
<1>6. QueueInv BY DEF QueueInv, NoSleepOverWork, Init, list_queue_init
<1>7. WorkInv BY DEF WorkInv, Init
<1>8. QED BY <1>3, <1>4, <1>5, <1>6, <1>7 DEF IInv, PoolInv

LEMMA LoopKeeps == ASSUME IInv, LoopStep PROVE IInv'
<1>1. PoolInv /\ QueueInv /\ WorkInv BY DEF IInv
<1>2. ASSUME UNCHANGED queueVars, UNCHANGED workPart, PoolInv' PROVE IInv'
  BY <1>1, <1>2, QueueUnchanged, WorkUnchanged DEF IInv
<1>3. CASE on_connection
  BY <1>1, <1>2, <1>3, ConnectionPool DEF on_connection, workPart, historyVars
<1>4. ASSUME NEW c \in Clients, on_connection_accept(c) PROVE IInv'
  BY <1>1, <1>2, <1>4, AcceptPool DEF on_connection_accept, workPart, historyVars
<1>5. ASSUME NEW s \in Sessions, NEW n \in 1 .. MaxSent, on_read(s, n) PROVE IInv'
  <2>1. PoolInv' /\ QueueInv' /\ \E K \in SUBSET Packet : lost' = lost \cup K
    BY <1>1, <1>5, ReadStep
  <2>2. UNCHANGED <<workVars, stage, answered>> BY <1>5 DEF on_read
  <2>3. WorkInv' BY <1>1, <2>1, <2>2 DEF WorkInv, workVars
  <2>4. QED BY <2>1, <2>3 DEF IInv
<1>6. ASSUME NEW s \in Sessions, on_read_end(s) PROVE IInv'
  BY <1>1, <1>2, <1>6, EndPool DEF on_read_end, workPart, historyVars
<1>7. ASSUME NEW s \in Sessions, on_close(s) PROVE IInv'
  BY <1>1, <1>2, <1>7, ClosePool DEF on_close, workPart, historyVars
<1>8. ASSUME NEW S \in SUBSET Sessions, cleanup_expired_sessions(S) PROVE IInv'
  BY <1>1, <1>2, <1>8, ExpiryPool DEF cleanup_expired_sessions, workPart, historyVars
<1>9. QED BY <1>3, <1>4, <1>5, <1>6, <1>7, <1>8 DEF LoopStep

LEMMA NextIInv == IInv /\ [Next]_vars => IInv'
<1> SUFFICES ASSUME IInv, [Next]_vars PROVE IInv' OBVIOUS
<1>1. PoolInv /\ QueueInv /\ WorkInv BY DEF IInv
<1>2. ASSUME UNCHANGED poolPart, QueueInv', WorkInv' PROVE IInv'
  BY <1>1, <1>2, PoolUnchanged DEF IInv
<1>3. ASSUME NEW c \in Clients, Connect(c) PROVE IInv'
  <2>1. PoolInv' BY <1>1, <1>3, ConnectPool
  <2>2. UNCHANGED queueVars /\ UNCHANGED workPart
    BY <1>3 DEF Connect, workPart, historyVars
  <2>3. QED BY <1>1, <2>1, <2>2, QueueUnchanged, WorkUnchanged DEF IInv
<1>4. CASE LoopStep BY <1>4, LoopKeeps
<1>5. CASE Execute
  BY <1>1, <1>2, <1>5, ExecuteStep DEF Execute, poolPart, historyVars
<1>6. CASE Login
  BY <1>1, <1>6, LoginStep, LoginPool DEF IInv
<1>7. CASE Answer
  BY <1>1, <1>2, <1>7, AnswerStep DEF Answer, poolPart
<1>8. CASE ResponderStep
  <2>1. UNCHANGED poolPart
    BY <1>8 DEF ResponderStep, TestFlag, AwaitResponse, ValidateResponse, send_response,
                poolPart, historyVars
  <2>2. QED BY <1>1, <1>2, <1>8, <2>1, ResponderKeeps
<1>9. CASE Spurious
  <2>1. QueueInv' BY <1>1, <1>9, WakeStep, NetplugAssumption DEF Spurious
  <2>2. UNCHANGED poolPart /\ UNCHANGED workPart
    BY <1>9 DEF Spurious, poolPart, workPart, historyVars
  <2>3. QED BY <1>1, <1>2, <2>1, <2>2, WorkUnchanged
<1>10. CASE netplug_shutdown
  <2>1. QueueInv' /\ WorkInv' BY <1>1, <1>10, ShutdownKeeps
  <2>2. CASE JoinResponder BY <1>1, <2>1, <2>2, JoinPool DEF IInv
  <2>3. CASE RaiseFlag \/ ShutDownCommands \/ ShutDownResponses \/ Release
    BY <1>2, <2>1, <2>3 DEF RaiseFlag, ShutDownCommands, ShutDownResponses, Release,
                            poolPart, historyVars
  <2>4. QED BY <1>10, <2>2, <2>3 DEF netplug_shutdown
<1>11. CASE UNCHANGED vars
  <2>1. UNCHANGED poolPart /\ UNCHANGED queueVars /\ UNCHANGED workPart
    BY <1>11 DEF vars, poolPart, workPart, historyVars
  <2>2. QED BY <1>1, <1>2, <2>1, QueueUnchanged, WorkUnchanged
<1>12. QED
  BY <1>3, <1>4, <1>5, <1>6, <1>7, <1>8, <1>9, <1>10, <1>11 DEF Next, ExecutorStep

LEMMA InvariantHolds == Spec => []IInv
<1>1. Init => IInv BY InitIInv
<1>2. IInv /\ [Next]_vars => IInv' BY NextIInv
<1>3. QED BY <1>1, <1>2, PTL DEF Spec

-----------------------------------------------------------------------------
(* The account of a client's packets: those answered and those on the way   *)
(* are, in order, the first n without the ones that were lost.              *)

OfClient(c) == {c} \X (1 .. MaxSent)
Track(c, w) == Under(c, PacketsOf(w))
FirstOf(c, n) == [k \in 1 .. n |-> <<c, k>>]
Account(c, n, a, w, l) == Under(c, a) \o Track(c, w) = Only(FirstOf(c, n), Packet \ l)

LEMMA PacketsTyped ==
  ASSUME NEW w \in Seq(Message)
  PROVE  /\ PacketsOf(w) \in Seq(Packet) /\ Len(PacketsOf(w)) = Len(w)
         /\ DOMAIN PacketsOf(w) = 1 .. Len(w) /\ DOMAIN w = 1 .. Len(w) /\ Len(w) \in Nat
         /\ \A i \in 1 .. Len(w) : PacketsOf(w)[i] = w[i].packet /\ w[i] \in Message
<1>1. DOMAIN w = 1 .. Len(w) /\ Len(w) \in Nat /\ \A i \in 1 .. Len(w) : w[i] \in Message
  BY LenProperties, ElementOfSeq
<1>2. \A i \in 1 .. Len(w) : w[i].packet \in Packet BY <1>1 DEF Message
<1>3. PacketsOf(w) = [i \in 1 .. Len(w) |-> w[i].packet] BY <1>1 DEF PacketsOf
<1>4. PacketsOf(w) \in [1 .. Len(w) -> Packet] BY <1>2, <1>3
<1>5. PacketsOf(w) \in Seq(Packet) BY <1>1, <1>4, IsASeq
<1>6. Len(PacketsOf(w)) = Len(w) BY <1>1, <1>3, <1>5, LenProperties, SameBound
<1>7. QED BY <1>1, <1>3, <1>5, <1>6

LEMMA PacketsConcat ==
  ASSUME NEW x \in Seq(Message), NEW y \in Seq(Message)
  PROVE  PacketsOf(x \o y) = PacketsOf(x) \o PacketsOf(y)
<1> DEFINE z == x \o y
           p == PacketsOf(x)
           q == PacketsOf(y)
           r == p \o q
<1>1. /\ z \in Seq(Message) /\ Len(z) = Len(x) + Len(y)
      /\ \A i \in 1 .. Len(x) + Len(y) : z[i] = IF i <= Len(x) THEN x[i] ELSE y[i - Len(x)]
  BY ConcatProperties
<1>2. /\ p \in Seq(Packet) /\ Len(p) = Len(x) /\ Len(x) \in Nat
      /\ \A i \in 1 .. Len(x) : p[i] = x[i].packet
  BY PacketsTyped
<1>3. /\ q \in Seq(Packet) /\ Len(q) = Len(y) /\ Len(y) \in Nat
      /\ \A i \in 1 .. Len(y) : q[i] = y[i].packet
  BY PacketsTyped
<1>4. /\ PacketsOf(z) \in Seq(Packet) /\ Len(PacketsOf(z)) = Len(z)
      /\ \A i \in 1 .. Len(z) : PacketsOf(z)[i] = z[i].packet
  BY <1>1, PacketsTyped
<1> HIDE DEF z, p, q
<1>5. /\ r \in Seq(Packet) /\ Len(r) = Len(p) + Len(q)
      /\ \A i \in 1 .. Len(p) + Len(q) : r[i] = IF i <= Len(p) THEN p[i] ELSE q[i - Len(p)]
  <2>1. p \in Seq(Packet) /\ q \in Seq(Packet) BY <1>2, <1>3
  <2>2. QED BY ONLY <2>1, ConcatProperties
<1> HIDE DEF r
<1>6. ASSUME NEW i \in 1 .. Len(z) PROVE PacketsOf(z)[i] = r[i]
  <2>1. CASE i <= Len(x) BY <1>1, <1>2, <1>3, <1>4, <1>5, <2>1
  <2>2. CASE ~(i <= Len(x))
    <3>1. i - Len(x) \in 1 .. Len(y) BY <1>1, <1>2, <1>3, <2>2
    <3>2. QED BY <1>1, <1>2, <1>3, <1>4, <1>5, <2>2, <3>1
  <2>3. QED BY <2>1, <2>2
<1>7. Len(PacketsOf(z)) = Len(r) BY <1>1, <1>2, <1>3, <1>4, <1>5
<1>8. PacketsOf(z) = r BY <1>4, <1>5, <1>6, <1>7, SeqEqual
<1>9. QED BY <1>8 DEF z, r, p, q

LEMMA TrackConcat ==
  ASSUME NEW c, NEW x \in Seq(Message), NEW y \in Seq(Message)
  PROVE  Track(c, x \o y) = Track(c, x) \o Track(c, y)
<1>1. PacketsOf(x) \in Seq(Packet) /\ PacketsOf(y) \in Seq(Packet) BY PacketsTyped
<1>2. PacketsOf(x \o y) = PacketsOf(x) \o PacketsOf(y) BY PacketsConcat
<1> DEFINE p == PacketsOf(x)
           q == PacketsOf(y)
           S == OfClient(c)
<1> HIDE DEF p, q, S
<1>3. Only(p \o q, S) = Only(p, S) \o Only(q, S) BY <1>1, OnlyConcat DEF p, q
<1>4. QED BY <1>2, <1>3 DEF Track, Under, p, q, S, OfClient

LEMMA UnderTyped ==
  ASSUME NEW c, NEW a \in Seq(Packet)
  PROVE  Under(c, a) \in Seq(Packet)
<1> DEFINE S == OfClient(c)
<1> HIDE DEF S
<1>1. Only(a, S) \in Seq(Packet \cap S) BY OnlyTyped
<1>2. Packet \cap S \subseteq Packet OBVIOUS
<1> DEFINE R == Packet \cap S
<1> HIDE DEF R
<1>3. Only(a, S) \in Seq(R) /\ R \subseteq Packet BY <1>1, <1>2 DEF R
<1>4. Only(a, S) \in Seq(Packet) BY <1>3, SeqMonotonic
<1>5. QED BY <1>4 DEF Under, S, OfClient

LEMMA TrackTyped ==
  ASSUME NEW c, NEW w \in Seq(Message)
  PROVE  Track(c, w) \in Seq(Packet)
BY PacketsTyped, UnderTyped DEF Track

LEMMA PacketOwner ==
  ASSUME NEW p \in Packet, NEW c
  PROVE  (p \in OfClient(c) <=> p[1] = c) /\ p = <<p[1], p[2]>> /\ p[2] \in 1 .. MaxSent
BY DEF Packet, OfClient

LEMMA TrackOne ==
  ASSUME NEW c, NEW m \in Message
  PROVE  Track(c, <<m>>) = IF m.packet[1] = c THEN <<m.packet>> ELSE <<>>
<1> DEFINE p == m.packet
           S == OfClient(c)
<1>1. p \in Packet BY DEF Message
<1>2. PacketsOf(<<m>>) = <<p>> BY DEF PacketsOf
<1>3. p \in S <=> p[1] = c BY <1>1, PacketOwner
<1> HIDE DEF S, p
<1>4. Only(<<p>>, S) = IF p \in S THEN <<p>> ELSE <<>> BY <1>1, OnlyOfOne
<1>5. QED BY <1>2, <1>3, <1>4 DEF Track, Under, S, OfClient, p

LEMMA TrackEmpty == \A c : Track(c, <<>>) = <<>> /\ Under(c, <<>>) = <<>>
<1>1. PacketsOf(<<>>) = <<>> BY DEF PacketsOf
<1>2. QED BY <1>1, OnlyOfEmpty DEF Track, Under

(* The packets of a list of messages are those of its elements. *)
LEMMA PacketsContain ==
  ASSUME NEW w \in Seq(Message), NEW p
  PROVE  Contains(PacketsOf(w), p) <=> \E m \in Message : Contains(w, m) /\ m.packet = p
BY PacketsTyped DEF Contains

LEMMA TrackNone ==
  ASSUME NEW c, NEW w \in Seq(Message), \A m \in Message : Contains(w, m) => m.packet[1] # c
  PROVE  Track(c, w) = <<>>
<1> DEFINE p == PacketsOf(w)
           S == OfClient(c)
<1>1. p \in Seq(Packet) BY PacketsTyped
<1>2. ASSUME NEW e, Contains(p, e) PROVE e \notin S
  <2>1. PICK m \in Message : Contains(w, m) /\ m.packet = e BY <1>2, PacketsContain
  <2>2. e \in Packet /\ e[1] # c BY <2>1 DEF Message
  <2>3. QED BY <2>2, PacketOwner
<1> HIDE DEF p, S
<1>3. Only(p, S) = <<>> BY <1>1, <1>2, OnlyNone
<1>4. QED BY <1>3 DEF Track, Under, p, S, OfClient

LEMMA UnderNone ==
  ASSUME NEW c, NEW a \in Seq(Packet), \A i \in DOMAIN a : a[i][1] # c
  PROVE  Under(c, a) = <<>>
<1> DEFINE S == OfClient(c)
<1>1. ASSUME NEW e, Contains(a, e) PROVE e \notin S
  <2>1. e \in Packet /\ e[1] # c BY <1>1, LenProperties, ElementOfSeq DEF Contains
  <2>2. QED BY <2>1, PacketOwner
<1> HIDE DEF S
<1>2. Only(a, S) = <<>> BY <1>1, OnlyNone
<1>3. QED BY <1>2 DEF Under, S, OfClient

LEMMA UnderAppend ==
  ASSUME NEW c, NEW a \in Seq(Packet), NEW p \in Packet
  PROVE  Under(c, Append(a, p)) = IF p[1] = c THEN Append(Under(c, a), p) ELSE Under(c, a)
<1> DEFINE S == OfClient(c)
<1>1. p \in S <=> p[1] = c BY PacketOwner
<1> HIDE DEF S
<1>2. Only(Append(a, p), S) = IF p \in S THEN Append(Only(a, S), p) ELSE Only(a, S)
  BY OnlyOfAppend
<1>3. QED BY <1>1, <1>2 DEF Under, S, OfClient

LEMMA FirstTyped ==
  ASSUME NEW c \in Clients, NEW n \in 0 .. MaxSent
  PROVE  /\ FirstOf(c, n) \in Seq(Packet) /\ Len(FirstOf(c, n)) = n
         /\ \A k \in 1 .. n : FirstOf(c, n)[k] = <<c, k>>
         /\ Distinct(FirstOf(c, n))
         /\ \A p : Contains(FirstOf(c, n), p) <=> \E k \in 1 .. n : p = <<c, k>>
<1>1. n \in Nat /\ \A k \in 1 .. n : k \in 1 .. MaxSent BY NetplugAssumption
<1>2. FirstOf(c, n) \in [1 .. n -> Packet] BY <1>1 DEF FirstOf, Packet
<1>3. FirstOf(c, n) \in Seq(Packet) BY <1>1, <1>2, IsASeq
<1>4. DOMAIN FirstOf(c, n) = 1 .. n BY DEF FirstOf
<1>5. Len(FirstOf(c, n)) = n BY <1>1, <1>3, <1>4, LenProperties, SameBound
<1>6. \A k \in 1 .. n : FirstOf(c, n)[k] = <<c, k>> BY DEF FirstOf
<1>7. Distinct(FirstOf(c, n)) BY <1>4, <1>6 DEF Distinct
<1>8. ASSUME NEW p PROVE Contains(FirstOf(c, n), p) <=> \E k \in 1 .. n : p = <<c, k>>
  BY <1>4, <1>6 DEF Contains
<1>9. QED BY <1>3, <1>5, <1>6, <1>7, <1>8

(* A packet on the way is one of the first n. *)
LEMMA AccountBounds ==
  ASSUME NEW c \in Clients, NEW n \in 0 .. MaxSent, NEW a \in Seq(Packet),
         NEW w \in Seq(Message), NEW l \in SUBSET Packet, Account(c, n, a, w, l),
         NEW m \in Message, Contains(w, m), m.packet[1] = c
  PROVE  m.packet[2] <= n
<1> DEFINE p == m.packet
           u == Under(c, a)
           t == Track(c, w)
           f == FirstOf(c, n)
           L == Packet \ l
<1>1. p \in Packet BY DEF Message
<1>2. Contains(PacketsOf(w), p) /\ PacketsOf(w) \in Seq(Packet)
  BY PacketsContain, PacketsTyped
<1>3. p \in OfClient(c) BY <1>1, PacketOwner
<1>4. Contains(t, p)
  <2> DEFINE S == OfClient(c)
             q == PacketsOf(w)
  <2>1. q \in Seq(Packet) /\ Contains(q, p) /\ p \in S BY <1>2, <1>3
  <2> HIDE DEF S, p, q
  <2>2. Contains(Only(q, S), p) BY <2>1, OnlyElements
  <2>3. QED BY <2>2 DEF Track, Under, S, OfClient, q
<1>5. u \in Seq(Packet) /\ t \in Seq(Packet) BY UnderTyped, TrackTyped
<1>6. u \o t = Only(f, L) BY DEF Account
<1>7. f \in Seq(Packet) /\ \A x : Contains(f, x) => \E k \in 1 .. n : x = <<c, k>>
  BY FirstTyped
<1> HIDE DEF p, u, t, f, L
<1>8. Contains(u \o t, p) BY <1>4, <1>5, ContainsConcat
<1>9. Contains(f, p) BY <1>6, <1>7, <1>8, OnlyElements
<1>10. PICK k \in 1 .. n : p = <<c, k>> BY <1>7, <1>9
<1>11. p[2] <= n BY <1>10
<1>12. QED BY <1>11 DEF p

(* The account when the message between x and y is dropped and its packet   *)
(* counted as lost, or is another client's.                                 *)
LEMMA AccountLoses ==
  ASSUME NEW c \in Clients, NEW n \in 0 .. MaxSent, NEW a \in Seq(Packet),
         NEW x \in Seq(Message), NEW y \in Seq(Message), NEW m \in Message,
         NEW l \in SUBSET Packet, Account(c, n, a, (x \o <<m>>) \o y, l)
  PROVE  Account(c, n, a, x \o y, l \cup {m.packet})
<1> DEFINE p == m.packet
           u == Under(c, a)
           tx == Track(c, x)
           ty == Track(c, y)
           f == FirstOf(c, n)
           L == Packet \ l
           M == Packet \ (l \cup {p})
<1>1. p \in Packet BY DEF Message
<1>2. <<m>> \in Seq(Message) /\ x \o <<m>> \in Seq(Message) BY ConcatProperties
<1>3. /\ Track(c, (x \o <<m>>) \o y) = Track(c, x \o <<m>>) \o ty
      /\ Track(c, x \o <<m>>) = tx \o Track(c, <<m>>)
      /\ Track(c, x \o y) = tx \o ty
  BY <1>2, TrackConcat
<1>4. Track(c, <<m>>) = IF p[1] = c THEN <<p>> ELSE <<>> BY TrackOne
<1>5. u \in Seq(Packet) /\ tx \in Seq(Packet) /\ ty \in Seq(Packet)
  BY UnderTyped, TrackTyped
<1>6. f \in Seq(Packet) /\ Distinct(f) /\ \A e : Contains(f, e) => e[1] = c
  BY FirstTyped
<1>7. u \o Track(c, (x \o <<m>>) \o y) = Only(f, L) BY DEF Account
<1>8. SUFFICES u \o (tx \o ty) = Only(f, M) BY <1>3 DEF Account
<1>9. L \cap (Packet \ {p}) = M OBVIOUS
<1>10. \A e : e # p => (e \in L <=> e \in M) OBVIOUS
<1> HIDE DEF u, tx, ty, f, p
<1>11. CASE p[1] = c
  <2> DEFINE g == Only(f, L)
  <2>1. g = Within(u, tx, p, ty) BY <1>3, <1>4, <1>7, <1>11 DEF Within, Around
  <2> HIDE DEF L, M
  <2>2. Distinct(g) BY <1>6, OnlyElements
  <2>3. Only(g, Packet \ {p}) = Only(f, M) BY <1>6, <1>9, OnlyTwice
  <2> HIDE DEF g
  <2>4. Distinct(Within(u, tx, p, ty)) BY <2>1, <2>2
  <2>5. Only(Within(u, tx, p, ty), Packet \ {p}) = Beside(u, tx, ty)
    BY <1>1, <1>5, <2>4, OnlyDrops
  <2>6. QED BY <2>1, <2>3, <2>5 DEF Beside
<1>12. CASE p[1] # c
  <2>1. tx \o <<>> = tx BY <1>5, ConcatEmptySeq
  <2>2. u \o (tx \o ty) = Only(f, L) BY <1>3, <1>4, <1>7, <1>12, <2>1
  <2>3. \A e : Contains(f, e) => (e \in L <=> e \in M) BY <1>6, <1>10, <1>12
  <2> HIDE DEF L, M
  <2>4. Only(f, L) = Only(f, M) BY <1>6, <2>3, OnlyAgrees
  <2>5. QED BY <2>2, <2>4
<1>13. QED BY <1>11, <1>12

(* The account when the foremost packet is answered to its client. *)
LEMMA AccountAnswers ==
  ASSUME NEW c \in Clients, NEW n \in 0 .. MaxSent, NEW a \in Seq(Packet),
         NEW y \in Seq(Message), NEW m \in Message, m.packet[1] = c,
         NEW l \in SUBSET Packet, Account(c, n, a, <<m>> \o y, l)
  PROVE  Account(c, n, Append(a, m.packet), y, l)
<1> DEFINE p == m.packet
           u == Under(c, a)
           ty == Track(c, y)
<1>1. p \in Packet BY DEF Message
<1>2. <<m>> \in Seq(Message) OBVIOUS
<1>3. Track(c, <<m>> \o y) = <<p>> \o ty BY <1>2, TrackConcat, TrackOne, ZenonT(40)
<1>4. Under(c, Append(a, p)) = Append(u, p) BY <1>1, UnderAppend
<1>5. u \in Seq(Packet) /\ ty \in Seq(Packet) BY UnderTyped, TrackTyped
<1>6. u \o (<<p>> \o ty) = Only(FirstOf(c, n), Packet \ l) BY <1>3 DEF Account
<1> HIDE DEF p, u, ty
<1>7. u \o (<<p>> \o ty) = Append(u, p) \o ty
  <2>1. <<p>> \in Seq(Packet) /\ Append(u, p) = u \o <<p>> BY <1>1, <1>5, AppendIsConcat
  <2>2. QED BY <1>5, <2>1, ConcatAssociative, SMTT(30)
<1>8. QED BY <1>4, <1>6, <1>7 DEF Account, p, ty

(* Another client's account does not notice. *)
LEMMA AccountOther ==
  ASSUME NEW c \in Clients, NEW n \in 0 .. MaxSent, NEW a \in Seq(Packet),
         NEW y \in Seq(Message), NEW m \in Message, m.packet[1] # c,
         NEW l \in SUBSET Packet, Account(c, n, a, <<m>> \o y, l)
  PROVE  Account(c, n, a, y, l) /\ Account(c, n, Append(a, m.packet), y, l)
<1>1. m.packet \in Packet BY DEF Message
<1>2. <<m>> \in Seq(Message) /\ Track(c, y) \in Seq(Packet) BY TrackTyped
<1>3. Track(c, <<m>> \o y) = <<>> \o Track(c, y)
  <2>1. Track(c, <<m>> \o y) = Track(c, <<m>>) \o Track(c, y) BY <1>2, TrackConcat
  <2>2. Track(c, <<m>>) = <<>> BY TrackOne
  <2>3. QED BY <2>1, <2>2
<1>4. <<>> \o Track(c, y) = Track(c, y) BY <1>2, ConcatEmptySeq
<1>5. Under(c, Append(a, m.packet)) = Under(c, a) BY <1>1, UnderAppend
<1>6. QED BY <1>3, <1>4, <1>5 DEF Account

LEMMA AccountUnmoved ==
  ASSUME NEW c \in Clients, NEW n \in 0 .. MaxSent, NEW a \in Seq(Packet),
         NEW w \in Seq(Message), NEW e \in Seq(Message),
         \A m \in Message : Contains(e, m) => m.packet[1] # c,
         NEW l \in SUBSET Packet, NEW K \in SUBSET Packet, \A p \in K : p[1] # c,
         Account(c, n, a, w, l)
  PROVE  Account(c, n, a, w \o e, l \cup K)
<1>1. Track(c, w \o e) = Track(c, w) \o <<>>
  <2>1. Track(c, w \o e) = Track(c, w) \o Track(c, e) BY TrackConcat
  <2>2. Track(c, e) = <<>> BY TrackNone
  <2>3. QED BY <2>1, <2>2
<1>2. Track(c, w) \in Seq(Packet) BY TrackTyped
<1>3. Track(c, w) \o <<>> = Track(c, w) BY <1>2, ConcatEmptySeq
<1>4. Only(FirstOf(c, n), Packet \ l) = Only(FirstOf(c, n), Packet \ (l \cup K))
  <2> DEFINE f == FirstOf(c, n)
             L == Packet \ l
             M == Packet \ (l \cup K)
  <2>1. f \in Seq(Packet) /\ \A p : Contains(f, p) => p[1] = c BY FirstTyped
  <2>2. \A p : Contains(f, p) => (p \in L <=> p \in M) BY <2>1
  <2> HIDE DEF f, L, M
  <2>3. Only(f, L) = Only(f, M) BY <2>1, <2>2, OnlyAgrees
  <2>4. QED BY <2>3 DEF f, L, M
<1>5. QED BY <1>1, <1>3, <1>4 DEF Account

(* The account of a client of whom nothing is known. *)
LEMMA AccountOpens ==
  ASSUME NEW c \in Clients, NEW a \in Seq(Packet), \A i \in DOMAIN a : a[i][1] # c,
         NEW w \in Seq(Message), \A m \in Message : Contains(w, m) => m.packet[1] # c,
         NEW l \in SUBSET Packet
  PROVE  Account(c, 0, a, w, l)
<1>1. Under(c, a) = <<>> /\ Track(c, w) = <<>> BY UnderNone, TrackNone
<1>2. FirstOf(c, 0) = <<>> BY DEF FirstOf
<1>3. Only(<<>>, Packet \ l) = <<>> BY OnlyOfEmpty
<1>4. <<>> \o <<>> = <<>> OBVIOUS
<1>5. QED BY <1>1, <1>2, <1>3, <1>4 DEF Account

(* What a read for client c in session s handles after n packets: h more,  *)
(* of which those of K are skipped and the messages e are queued.          *)
More(c, n, h) == [i \in 1 .. h |-> <<c, n + i>>]

LEMMA MoreTyped ==
  ASSUME NEW c \in Clients, NEW n \in Nat, NEW h \in Nat, n + h <= MaxSent
  PROVE  /\ More(c, n, h) \in Seq(Packet) /\ Len(More(c, n, h)) = h
         /\ \A i \in 1 .. h : More(c, n, h)[i] = <<c, n + i>>
         /\ \A p : Contains(More(c, n, h), p)
                    => p \in Packet /\ p[1] = c /\ p[2] > n /\ p[2] <= n + h
<1>1. MaxSent \in Nat BY NetplugAssumption
<1>2. \A i \in 1 .. h : n + i \in 1 .. MaxSent BY <1>1
<1>3. More(c, n, h) \in [1 .. h -> Packet] BY <1>2 DEF More, Packet
<1>4. More(c, n, h) \in Seq(Packet) BY <1>3, IsASeq
<1>5. DOMAIN More(c, n, h) = 1 .. h BY DEF More
<1>6. Len(More(c, n, h)) = h BY <1>4, <1>5, LenProperties, SameBound
<1>7. \A i \in 1 .. h : More(c, n, h)[i] = <<c, n + i>> BY DEF More
<1>8. ASSUME NEW p, Contains(More(c, n, h), p)
      PROVE  p \in Packet /\ p[1] = c /\ p[2] > n /\ p[2] <= n + h
  <2>1. PICK i \in 1 .. h : p = <<c, n + i>> BY <1>5, <1>7, <1>8 DEF Contains
  <2>2. n + i \in 1 .. MaxSent /\ n + i > n /\ n + i <= n + h BY <1>2
  <2>3. QED BY <2>1, <2>2 DEF Packet
<1>9. QED BY <1>4, <1>6, <1>7, <1>8

IsRead(s, c, n, h, e, K) ==
  /\ e \in Seq(Message) /\ K \in SUBSET Packet
  /\ \A m \in Message : Contains(e, m) => m.session = s /\ m.packet[1] = c
  /\ PacketsOf(e) = Only(More(c, n, h), Packet \ K)
  /\ \A p \in K : p[1] = c /\ p[2] > n /\ p[2] <= n + h

LEMMA QueuedIsRead ==
  ASSUME NEW c \in Clients, NEW n \in Nat, NEW h \in Nat, n + h <= MaxSent,
         NEW s \in Sessions, NEW K \in SUBSET Packet,
         \A p \in K : Contains(More(c, n, h), p)
  PROVE  IsRead(s, c, n, h, Queued(s, More(c, n, h), K), K)
<1> DEFINE q == More(c, n, h)
           M == Packet \ K
           N == Packet \cap M
           u == Only(q, M)
<1>1. q \in Seq(Packet)
      /\ \A p : Contains(q, p) => p \in Packet /\ p[1] = c /\ p[2] > n /\ p[2] <= n + h
  BY MoreTyped
<1>2. \A p \in K : p[1] = c /\ p[2] > n /\ p[2] <= n + h BY <1>1
<1>3. N \subseteq Packet OBVIOUS
<1> HIDE DEF q
<1>4. u \in Seq(N) /\ \A p : Contains(u, p) => Contains(q, p)
  <2> HIDE DEF M
  <2>1. QED BY <1>1, OnlyTyped, OnlyElements
<1> HIDE DEF N, u
<1>5. u \in Seq(Packet) BY <1>3, <1>4, SeqMonotonic
<1>6. /\ Commands(s, u) \in Seq(Message) /\ PacketsOf(Commands(s, u)) = u
      /\ \A m : Contains(Commands(s, u), m) => m.session = s /\ Contains(u, m.packet)
  BY <1>5, CommandsTyped
<1>7. \A m \in Message : Contains(Commands(s, u), m) => m.session = s /\ m.packet[1] = c
  BY <1>1, <1>4, <1>6
<1>8. QED BY <1>2, <1>6, <1>7 DEF IsRead, Queued, u, q

LEMMA FirstExtends ==
  ASSUME NEW c \in Clients, NEW n \in Nat, NEW h \in Nat, n + h <= MaxSent
  PROVE  FirstOf(c, n + h) = FirstOf(c, n) \o More(c, n, h)
<1> DEFINE f == FirstOf(c, n)
           g == FirstOf(c, n + h)
           k == n + h
           q == More(c, n, h)
           r == f \o q
<1>1. MaxSent \in Nat /\ n \in 0 .. MaxSent /\ k \in 0 .. MaxSent BY NetplugAssumption
<1>2. f \in Seq(Packet) /\ Len(f) = n /\ \A i \in 1 .. n : f[i] = <<c, i>>
  BY <1>1, FirstTyped
<1>3. g \in Seq(Packet) /\ Len(g) = k /\ \A i \in 1 .. k : g[i] = <<c, i>>
  <2> HIDE DEF k
  <2>1. QED BY <1>1, FirstTyped DEF k
<1>4. q \in Seq(Packet) /\ Len(q) = h /\ \A i \in 1 .. h : q[i] = <<c, n + i>>
  BY MoreTyped
<1> HIDE DEF f, g, q
<1>5. /\ r \in Seq(Packet) /\ Len(r) = Len(f) + Len(q)
      /\ \A i \in 1 .. Len(f) + Len(q) : r[i] = IF i <= Len(f) THEN f[i] ELSE q[i - Len(f)]
  BY <1>2, <1>4, ConcatProperties
<1> HIDE DEF r
<1>6. ASSUME NEW i \in 1 .. k PROVE g[i] = r[i]
  <2>1. CASE i <= n
    <3>1. i \in 1 .. n /\ i \in 1 .. n + h BY <1>1, <2>1
    <3>2. r[i] = f[i] BY <1>2, <1>4, <1>5, <3>1
    <3>3. QED BY <1>2, <1>3, <3>1, <3>2
  <2>2. CASE ~(i <= n)
    <3>1. i - n \in 1 .. h /\ n + (i - n) = i BY <2>2
    <3>2. q[i - n] = <<c, i>> BY <1>4, <3>1
    <3>3. r[i] = q[i - n] BY <1>2, <1>4, <1>5, <2>2
    <3>4. QED BY <1>3, <3>2, <3>3
  <2>3. QED BY <2>1, <2>2
<1>7. Len(g) = Len(r) /\ Len(g) = k BY <1>2, <1>3, <1>4, <1>5
<1>8. g = r BY <1>3, <1>5, <1>6, <1>7, SeqEqual
<1>9. QED BY <1>8 DEF f, g, q, r

(* The account after h more packets of the client are handled. *)
LEMMA AccountHandles ==
  ASSUME NEW c \in Clients, NEW n \in Nat, NEW h \in Nat, n + h <= MaxSent,
         NEW s \in Sessions, NEW a \in Seq(Packet), NEW w \in Seq(Message),
         NEW l \in SUBSET Packet, \A p \in l : p[1] = c => p[2] <= n,
         Account(c, n, a, w, l), NEW e, NEW K, IsRead(s, c, n, h, e, K)
  PROVE  Account(c, n + h, a, w \o e, l \cup K)
<1> DEFINE g == More(c, n, h)
           P == Packet \ K
           q == Only(g, P)
           u == Under(c, a)
           t == Track(c, w)
           f == FirstOf(c, n)
           L == Packet \ l
           M == Packet \ (l \cup K)
           S == OfClient(c)
<1>1. e \in Seq(Message) /\ PacketsOf(e) = q BY DEF IsRead
<1>2. g \in Seq(Packet) /\ \A p : Contains(g, p) => p \in Packet /\ p[1] = c /\ p[2] > n
  BY MoreTyped
<1>3. q \in Seq(Packet) /\ \A p : Contains(q, p) => Contains(g, p)
  <2> DEFINE N == Packet \cap P
  <2>1. q \in Seq(N) /\ \A p : Contains(q, p) => Contains(g, p)
    <3> HIDE DEF g, P
    <3>1. QED BY <1>2, OnlyTyped, OnlyElements
  <2>2. N \subseteq Packet OBVIOUS
  <2> HIDE DEF N, q
  <2>3. q \in Seq(Packet) BY <2>1, <2>2, SeqMonotonic
  <2>4. QED BY <2>1, <2>3
<1>4. \A p : Contains(g, p) => p \in S /\ p \in L
  <2> SUFFICES ASSUME NEW p, Contains(g, p) PROVE p \in S /\ p \in L OBVIOUS
  <2>1. p \in Packet /\ p[1] = c /\ p[2] > n BY <1>2
  <2>2. p[2] \in Nat BY <2>1, PacketOwner
  <2>3. p \notin l BY <2>1, <2>2
  <2>4. QED BY <2>1, <2>3, PacketOwner
<1>5. Track(c, w \o e) = t \o q
  <2>1. Track(c, e) = q
    <3> HIDE DEF S, q, g
    <3>1. Only(q, S) = q BY <1>3, <1>4, OnlyAll
    <3>2. QED BY <1>1, <3>1 DEF Track, Under, S, OfClient
  <2> HIDE DEF q
  <2>2. QED BY <1>1, <2>1, TrackConcat
<1>6. u \in Seq(Packet) /\ t \in Seq(Packet) BY UnderTyped, TrackTyped
<1>7. u \o t = Only(f, L) BY DEF Account
<1>8. f \in Seq(Packet)
  <2>1. n \in 0 .. MaxSent BY NetplugAssumption
  <2>2. QED BY <2>1, FirstTyped
<1>9. FirstOf(c, n + h) = f \o g BY FirstExtends
<1>10. Only(f \o g, M) = Only(f, L) \o q
  <2>1. Only(f, M) = Only(f, L)
    <3>1. ASSUME NEW p, Contains(f, p) PROVE p \in M <=> p \in L
      <4>1. n \in 0 .. MaxSent BY NetplugAssumption
      <4>2. PICK k \in 1 .. n : p = <<c, k>> BY <3>1, <4>1, FirstTyped
      <4>3. p[2] <= n /\ p[2] \in Nat BY <4>2
      <4>4. p \notin K BY <4>3 DEF IsRead
      <4>5. QED BY <4>4
    <3> HIDE DEF f, M, L
    <3>2. QED BY <1>8, <3>1, OnlyAgrees
  <2>2. Only(g, M) = q
    <3>1. \A p : Contains(g, p) => (p \in M <=> p \in P) BY <1>4
    <3> HIDE DEF g, M, P
    <3>2. QED BY <1>2, <3>1, OnlyAgrees
  <2> HIDE DEF f, g, q, L, M
  <2>3. Only(f \o g, M) = Only(f, M) \o Only(g, M) BY <1>2, <1>8, OnlyConcat
  <2>4. QED BY <2>1, <2>2, <2>3
<1>11. u \o (t \o q) = (u \o t) \o q
  <2> HIDE DEF u, t, q
  <2>1. QED BY <1>3, <1>6, Reassociate, SMTT(30)
<1>12. u \o Track(c, w \o e) = Only(FirstOf(c, n + h), M)
  <2> HIDE DEF u, t, q, g, f, L, M
  <2>1. QED BY <1>5, <1>7, <1>9, <1>10, <1>11
<1>13. QED BY <1>12 DEF Account

-----------------------------------------------------------------------------
(* The account of every connection, and the silence of clients that have   *)
(* none: of the connection c of session s, n of whose packets are handled, *)
(* and of a client c that is not yet accepted.                             *)

Told(s, c, n, a, w, l) ==
  /\ Account(c, n, a, w, l)
  /\ \A p \in l : p[1] = c => p[2] <= n
  /\ \A m \in Message : Contains(w, m) /\ m.packet[1] = c => m.session = s

Untold(c, a, w, l) ==
  /\ a = <<>>
  /\ \A p \in l : p[1] # c
  /\ \A m \in Message : Contains(w, m) => m.packet[1] # c

LEMMA ContainsOne == \A m, x : Contains(<<m>>, x) <=> x = m
BY DEF Contains

LEMMA AroundElements ==
  ASSUME NEW x \in Seq(Message), NEW y \in Seq(Message), NEW m \in Message
  PROVE  /\ Around(x, m, y) \in Seq(Message) /\ x \o y \in Seq(Message)
         /\ \A k : Contains(Around(x, m, y), k) <=> Contains(x \o y, k) \/ k = m
<1>1. <<m>> \in Seq(Message) /\ x \o <<m>> \in Seq(Message) /\ x \o y \in Seq(Message)
  BY ConcatProperties
<1>2. Around(x, m, y) \in Seq(Message) BY <1>1, ConcatProperties DEF Around
<1>3. ASSUME NEW k PROVE Contains(Around(x, m, y), k) <=> Contains(x \o y, k) \/ k = m
  <2>1. Contains(x \o <<m>>, k) <=> Contains(x, k) \/ Contains(<<m>>, k)
    BY <1>1, ContainsConcat
  <2>2. Contains(Around(x, m, y), k) <=> Contains(x \o <<m>>, k) \/ Contains(y, k)
    BY <1>1, ContainsConcat DEF Around
  <2>3. Contains(x \o y, k) <=> Contains(x, k) \/ Contains(y, k) BY ContainsConcat
  <2>4. QED BY <2>1, <2>2, <2>3, ContainsOne
<1>4. QED BY <1>1, <1>2, <1>3

LEMMA ToldLoses ==
  ASSUME NEW s, NEW c \in Clients, NEW n \in 0 .. MaxSent, NEW a \in Seq(Packet),
         NEW x \in Seq(Message), NEW y \in Seq(Message), NEW m \in Message,
         NEW l \in SUBSET Packet, Told(s, c, n, a, Around(x, m, y), l)
  PROVE  Told(s, c, n, a, x \o y, l \cup {m.packet})
<1>1. Account(c, n, a, Around(x, m, y), l) BY DEF Told
<1>2. Account(c, n, a, x \o y, l \cup {m.packet})
  <2>1. Account(c, n, a, (x \o <<m>>) \o y, l) BY <1>1 DEF Around
  <2>2. QED BY <2>1, AccountLoses
<1> DEFINE w == Around(x, m, y)
           v == x \o y
<1>3. w \in Seq(Message) /\ \A k : Contains(w, k) <=> Contains(v, k) \/ k = m
  BY AroundElements
<1> HIDE DEF w, v
<1>4. m.packet[1] = c => m.packet[2] <= n BY <1>1, <1>3, AccountBounds DEF w
<1>5. \A p \in l \cup {m.packet} : p[1] = c => p[2] <= n BY <1>4 DEF Told
<1>6. \A k \in Message : Contains(v, k) /\ k.packet[1] = c => k.session = s
  BY <1>3 DEF Told, w
<1>7. QED BY <1>2, <1>5, <1>6 DEF Told, v

LEMMA UntoldLoses ==
  ASSUME NEW c, NEW a, NEW x \in Seq(Message), NEW y \in Seq(Message), NEW m \in Message,
         NEW l, Untold(c, a, Around(x, m, y), l)
  PROVE  Untold(c, a, x \o y, l \cup {m.packet}) /\ Untold(c, a, x \o y, l)
         /\ m.packet[1] # c
<1>1. \A k : Contains(Around(x, m, y), k) <=> Contains(x \o y, k) \/ k = m
  BY AroundElements
<1>2. QED BY <1>1 DEF Untold

(* The foremost message, <<m>> \o y. *)
LEMMA FrontElements ==
  ASSUME NEW y \in Seq(Message), NEW m \in Message
  PROVE  /\ <<m>> \o y = Around(<<>>, m, y) /\ <<>> \o y = y
         /\ \A k : Contains(<<m>> \o y, k) <=> Contains(y, k) \/ k = m
<1>1. <<>> \in Seq(Message) /\ <<m>> \in Seq(Message) OBVIOUS
<1>2. <<>> \o <<m>> = <<m>> /\ <<>> \o y = y BY <1>1, ConcatEmptySeq
<1>3. <<m>> \o y = Around(<<>>, m, y) BY <1>2 DEF Around
<1>4. \A k : Contains(Around(<<>>, m, y), k) <=> Contains(<<>> \o y, k) \/ k = m
  BY <1>1, AroundElements
<1>5. QED BY <1>2, <1>3, <1>4

LEMMA ToldAnswers ==
  ASSUME NEW s, NEW c \in Clients, NEW n \in 0 .. MaxSent, NEW a \in Seq(Packet),
         NEW y \in Seq(Message), NEW m \in Message, m.packet[1] = c,
         NEW l \in SUBSET Packet, Told(s, c, n, a, <<m>> \o y, l)
  PROVE  Told(s, c, n, Append(a, m.packet), y, l)
<1>1. Account(c, n, Append(a, m.packet), y, l) BY AccountAnswers DEF Told
<1>2. \A k : Contains(y, k) => Contains(<<m>> \o y, k) BY FrontElements
<1>3. QED BY <1>1, <1>2 DEF Told

LEMMA ToldOther ==
  ASSUME NEW s, NEW c \in Clients, NEW n \in 0 .. MaxSent, NEW a \in Seq(Packet),
         NEW y \in Seq(Message), NEW m \in Message, m.packet[1] # c,
         NEW l \in SUBSET Packet, Told(s, c, n, a, <<m>> \o y, l)
  PROVE  Told(s, c, n, a, y, l) /\ Told(s, c, n, Append(a, m.packet), y, l)
<1>1. Account(c, n, a, y, l) /\ Account(c, n, Append(a, m.packet), y, l)
  BY AccountOther DEF Told
<1>2. \A k : Contains(y, k) => Contains(<<m>> \o y, k) BY FrontElements
<1>3. QED BY <1>1, <1>2 DEF Told

LEMMA ToldOpens ==
  ASSUME NEW s, NEW c \in Clients, NEW a \in Seq(Packet), NEW w \in Seq(Message),
         NEW l \in SUBSET Packet, Untold(c, a, w, l)
  PROVE  Told(s, c, 0, a, w, l)
<1>1. a = <<>> /\ \A i \in DOMAIN a : a[i][1] # c BY DEF Untold
<1>2. Account(c, 0, a, w, l) BY <1>1, AccountOpens DEF Untold
<1>3. QED BY <1>2 DEF Told, Untold

(* Session s reads for its client d. *)
LEMMA ToldReads ==
  ASSUME NEW s \in Sessions, NEW d \in Clients, NEW k \in Nat, NEW h \in Nat,
         k + h <= MaxSent, NEW e, NEW K, IsRead(s, d, k, h, e, K),
         NEW w \in Seq(Message), NEW l \in SUBSET Packet,
         NEW t, NEW c \in Clients, NEW n \in 0 .. MaxSent, NEW a \in Seq(Packet),
         Told(t, c, n, a, w, l)
  PROVE  /\ t = s /\ c = d /\ n = k => Told(t, c, k + h, a, w \o e, l \cup K)
         /\ c # d => Told(t, c, n, a, w \o e, l \cup K)
<1>1. /\ e \in Seq(Message) /\ K \in SUBSET Packet
      /\ \A m \in Message : Contains(e, m) => m.session = s /\ m.packet[1] = d
      /\ \A p \in K : p[1] = d /\ p[2] <= k + h
  BY DEF IsRead
<1>2. \A m : Contains(w \o e, m) <=> Contains(w, m) \/ Contains(e, m)
  BY <1>1, ContainsConcat
<1>3. CASE t = s /\ c = d /\ n = k
  <2>1. Account(c, k + h, a, w \o e, l \cup K) BY <1>3, AccountHandles DEF Told
  <2>2. \A p \in l : p[1] = c => p[2] <= k + h
    <3> SUFFICES ASSUME NEW p \in l, p[1] = c PROVE p[2] <= k + h OBVIOUS
    <3>1. p[2] <= k BY <1>3 DEF Told
    <3>2. p[2] \in Nat BY PacketOwner
    <3>3. QED BY <3>1, <3>2
  <2>3. QED BY <1>1, <1>2, <1>3, <2>1, <2>2 DEF Told
<1>4. CASE c # d
  <2>1. \A m \in Message : Contains(e, m) => m.packet[1] # c BY <1>1, <1>4
  <2>2. \A p \in K : p[1] # c BY <1>1, <1>4
  <2>3. Account(c, n, a, w \o e, l \cup K) BY <1>1, <2>1, <2>2, AccountUnmoved DEF Told
  <2>4. QED BY <1>2, <1>4, <2>1, <2>2, <2>3 DEF Told
<1>5. QED BY <1>3, <1>4

LEMMA UntoldReads ==
  ASSUME NEW s \in Sessions, NEW d \in Clients, NEW k \in Nat, NEW h \in Nat,
         k + h <= MaxSent, NEW e, NEW K, IsRead(s, d, k, h, e, K), NEW w \in Seq(Message),
         NEW c, c # d, NEW a, NEW l, Untold(c, a, w, l)
  PROVE  Untold(c, a, w \o e, l \cup K)
<1>1. /\ e \in Seq(Message) /\ \A m \in Message : Contains(e, m) => m.packet[1] = d
      /\ \A p \in K : p[1] = d
  BY DEF IsRead
<1>2. \A m : Contains(w \o e, m) <=> Contains(w, m) \/ Contains(e, m)
  BY <1>1, ContainsConcat
<1>3. QED BY <1>1, <1>2 DEF Untold

-----------------------------------------------------------------------------
(* The books of all connections and of all clients still to be accepted,   *)
(* and what else a step relies on: the response thread has nothing in hand *)
(* before a response is taken, and nobody is connected once the sessions   *)
(* are closed for the shutdown.                                            *)

Open == {s \in Sessions : Connected(s)}
Fresh == {c \in Clients : client[c] \in {"new", "queued"}}
Done == [s \in Sessions |-> sent[conn[s]] - backlog[s]]
Way(r, R, e, C) == ((r \o R) \o e) \o C
TheWay == Way(InHand(resp), list["response"], InHand(executing), list["command"])

Ledger(open, who, done, fresh, w, a, l) ==
  /\ \A s \in open : Told(s, who[s], done[s], a[who[s]], w, l)
  /\ \A c \in fresh : Untold(c, a[c], w, l)

ControlInv ==
  /\ responder \in {"test", "dequeue", "ended"} => resp = Nothing
  /\ stage # "running" => accepting = NoSession
  /\ stage \in {"closing", "down"} => \A s \in Sessions : state[s] = "ALIVE" => s \in closing
  /\ \A c \in Fresh : sent[c] = 0

TransitInv == ControlInv /\ Ledger(Open, conn, Done, Fresh, TheWay, answered, lost)

(* The types the lemmas about the ledger need. *)
LedgerType(open, who, done, a, w, l) ==
  /\ \A s \in open : who[s] \in Clients /\ done[s] \in 0 .. MaxSent
  /\ \A s, t \in open : who[s] = who[t] => s = t
  /\ \A c \in Clients : a[c] \in Seq(Packet)
  /\ w \in Seq(Message) /\ l \in SUBSET Packet

LEMMA LedgerShrinks ==
  ASSUME NEW open, NEW who, NEW done, NEW fresh, NEW a, NEW w, NEW l,
         Ledger(open, who, done, fresh, w, a, l),
         NEW open2 \in SUBSET open, NEW fresh2 \in SUBSET fresh, NEW who2, NEW done2,
         \A s \in open2 : who2[s] = who[s] /\ done2[s] = done[s]
  PROVE  Ledger(open2, who2, done2, fresh2, w, a, l)
BY DEF Ledger

LEMMA LedgerAccepts ==
  ASSUME NEW open, NEW who, NEW done, NEW fresh \in SUBSET Clients, NEW a, NEW w, NEW l,
         LedgerType(open, who, done, a, w, l),
         Ledger(open, who, done, fresh, w, a, l),
         NEW x, NEW c \in fresh, NEW who2, NEW done2, NEW fresh2 \in SUBSET fresh,
         who2[x] = c, done2[x] = 0,
         \A s \in open : who2[s] = who[s] /\ done2[s] = done[s]
  PROVE  Ledger(open \cup {x}, who2, done2, fresh2, w, a, l)
<1>1. c \in Clients /\ a[c] \in Seq(Packet) /\ w \in Seq(Message) /\ l \in SUBSET Packet
  BY DEF LedgerType
<1>2. Untold(c, a[c], w, l) BY DEF Ledger
<1>3. Told(x, c, 0, a[c], w, l) BY <1>1, <1>2, ToldOpens
<1>4. QED BY <1>3 DEF Ledger

(* Session x reads and handles h packets. *)
LEMMA LedgerReads ==
  ASSUME NEW open \in SUBSET Sessions, NEW who, NEW done, NEW fresh, NEW a, NEW w, NEW l,
         LedgerType(open, who, done, a, w, l),
         Ledger(open, who, done, fresh, w, a, l),
         NEW x \in open, who[x] \notin fresh, NEW h \in Nat, done[x] + h <= MaxSent,
         NEW done2, done2[x] = done[x] + h,
         \A s \in open : s # x => done2[s] = done[s],
         NEW e, NEW K, IsRead(x, who[x], done[x], h, e, K)
  PROVE  Ledger(open, who, done2, fresh, w \o e, a, l \cup K)
<1> DEFINE d == who[x]
           k == done[x]
<1>1. d \in Clients /\ k \in 0 .. MaxSent /\ w \in Seq(Message) /\ l \in SUBSET Packet
      /\ MaxSent \in Nat /\ x \in Sessions
  BY NetplugAssumption DEF LedgerType
<1>2. k \in Nat /\ k + h <= MaxSent /\ IsRead(x, d, k, h, e, K) BY <1>1
<1>3. ASSUME NEW s \in open
      PROVE  Told(s, who[s], done2[s], a[who[s]], w \o e, l \cup K)
  <2> DEFINE c == who[s]
             n == done[s]
             b == a[c]
  <2>1. c \in Clients /\ n \in 0 .. MaxSent /\ b \in Seq(Packet) BY <1>3 DEF LedgerType
  <2>2. Told(s, c, n, b, w, l) BY <1>3 DEF Ledger
  <2>3. CASE s = x
    <3>1. s = x /\ c = d /\ n = k /\ done2[s] = k + h BY <2>3
    <3> HIDE DEF c, d, k, n, b
    <3>2. Told(s, c, k + h, b, w \o e, l \cup K)
      BY <1>1, <1>2, <2>1, <2>2, <3>1, ToldReads
    <3>3. QED BY <3>1, <3>2 DEF c, b
  <2>4. CASE s # x
    <3>1. c # d /\ done2[s] = n BY <1>3, <2>4 DEF LedgerType
    <3> HIDE DEF c, d, k, n, b
    <3>2. Told(s, c, n, b, w \o e, l \cup K)
      BY <1>1, <1>2, <2>1, <2>2, <3>1, ToldReads
    <3>3. QED BY <3>1, <3>2 DEF c, b
  <2>5. QED BY <2>3, <2>4
<1>4. ASSUME NEW c \in fresh PROVE Untold(c, a[c], w \o e, l \cup K)
  <2>1. Untold(c, a[c], w, l) /\ c # d BY DEF Ledger
  <2> HIDE DEF d, k
  <2>2. QED BY <1>1, <1>2, <2>1, UntoldReads
<1>5. QED BY <1>3, <1>4 DEF Ledger

LEMMA LedgerLoses ==
  ASSUME NEW open, NEW who, NEW done, NEW fresh, NEW a, NEW l,
         NEW x \in Seq(Message), NEW y \in Seq(Message), NEW m \in Message,
         LedgerType(open, who, done, a, Around(x, m, y), l),
         Ledger(open, who, done, fresh, Around(x, m, y), a, l)
  PROVE  Ledger(open, who, done, fresh, x \o y, a, l \cup {m.packet})
<1>1. ASSUME NEW s \in open
      PROVE  Told(s, who[s], done[s], a[who[s]], x \o y, l \cup {m.packet})
  <2> DEFINE c == who[s]
             n == done[s]
             b == a[c]
  <2>1. c \in Clients /\ n \in 0 .. MaxSent /\ b \in Seq(Packet) /\ l \in SUBSET Packet
    BY <1>1 DEF LedgerType
  <2>2. Told(s, c, n, b, Around(x, m, y), l) BY <1>1 DEF Ledger
  <2> HIDE DEF c, n, b
  <2>3. Told(s, c, n, b, x \o y, l \cup {m.packet}) BY <2>1, <2>2, ToldLoses
  <2>4. QED BY <2>3 DEF c, n, b
<1>2. ASSUME NEW c \in fresh PROVE Untold(c, a[c], x \o y, l \cup {m.packet})
  <2>1. Untold(c, a[c], Around(x, m, y), l) BY DEF Ledger
  <2>2. QED BY <2>1, UntoldLoses
<1>3. QED BY <1>1, <1>2 DEF Ledger

(* The foremost message leaves: a2 has its packet at the client of session *)
(* x, when that one is open, and nowhere else.                             *)
LEMMA LedgerSends ==
  ASSUME NEW open, NEW who, NEW done, NEW fresh, NEW a, NEW l,
         NEW y \in Seq(Message), NEW m \in Message,
         LedgerType(open, who, done, a, <<m>> \o y, l),
         Ledger(open, who, done, fresh, <<m>> \o y, a, l),
         NEW a2,
         \A s \in open : a2[who[s]] = IF s = m.session THEN Append(a[who[s]], m.packet)
                                      ELSE a[who[s]],
         \A c \in fresh : a2[c] = a[c]
  PROVE  Ledger(open, who, done, fresh, y, a2, l)
<1>1. \A k : Contains(<<m>> \o y, k) <=> Contains(y, k) \/ k = m BY FrontElements
<1>2. ASSUME NEW s \in open PROVE Told(s, who[s], done[s], a2[who[s]], y, l)
  <2> DEFINE c == who[s]
             n == done[s]
             b == a[c]
  <2>1. c \in Clients /\ n \in 0 .. MaxSent /\ b \in Seq(Packet) /\ l \in SUBSET Packet
    BY <1>2 DEF LedgerType
  <2>2. Told(s, c, n, b, <<m>> \o y, l) BY <1>2 DEF Ledger
  <2>3. a2[c] = IF s = m.session THEN Append(b, m.packet) ELSE b BY <1>2
  <2> HIDE DEF c, n, b
  <2>4. m.packet[1] = c => m.session = s BY <1>1, <2>2 DEF Told
  <2>5. CASE m.packet[1] = c
    <3>1. Told(s, c, n, Append(b, m.packet), y, l) BY <2>1, <2>2, <2>5, ToldAnswers
    <3>2. QED BY <2>3, <2>4, <2>5, <3>1 DEF c, n
  <2>6. CASE m.packet[1] # c
    <3>1. Told(s, c, n, b, y, l) /\ Told(s, c, n, Append(b, m.packet), y, l)
      BY <2>1, <2>2, <2>6, ToldOther
    <3>2. QED BY <2>3, <3>1 DEF c, n
  <2>7. QED BY <2>5, <2>6
<1>3. ASSUME NEW c \in fresh PROVE Untold(c, a2[c], y, l)
  BY <1>1, <1>3 DEF Ledger, Untold
<1>4. QED BY <1>2, <1>3 DEF Ledger

(* The foremost message leaves, and no open session waits for it. *)
LEMMA LedgerDrops ==
  ASSUME NEW open, NEW who, NEW done, NEW fresh, NEW a, NEW l,
         NEW y \in Seq(Message), NEW m \in Message, m.session \notin open,
         LedgerType(open, who, done, a, <<m>> \o y, l),
         Ledger(open, who, done, fresh, <<m>> \o y, a, l)
  PROVE  Ledger(open, who, done, fresh, y, a, l)
<1>1. \A s \in open : a[who[s]] = IF s = m.session THEN Append(a[who[s]], m.packet)
                                  ELSE a[who[s]]
  OBVIOUS
<1>2. QED BY <1>1, LedgerSends

-----------------------------------------------------------------------------
(* The way of a message: from the command queue to the executor, to the    *)
(* response queue, to the response thread.                                 *)

LEMMA WayTyped ==
  ASSUME NEW r \in Seq(Message), NEW R \in Seq(Message), NEW e \in Seq(Message),
         NEW C \in Seq(Message)
  PROVE  /\ Way(r, R, e, C) \in Seq(Message)
         /\ r \o R \in Seq(Message) /\ (R \o e) \o C \in Seq(Message)
<1>1. r \o R \in Seq(Message) /\ R \o e \in Seq(Message) BY ConcatProperties
<1>2. \A u, v \in Seq(Message) : u \o v \in Seq(Message) BY ConcatProperties
<1>3. (r \o R) \o e \in Seq(Message) BY <1>1, <1>2
<1>4. QED BY <1>1, <1>2, <1>3 DEF Way

(* A step of the way changes nothing of the whole. *)
LEMMA WayMoves ==
  ASSUME NEW r \in Seq(Message), NEW R \in Seq(Message), NEW e \in Seq(Message),
         NEW C \in Seq(Message), NEW m \in Message
  PROVE  /\ Way(r, R, <<>>, <<m>> \o C) = Way(r, R, <<m>>, C)
         /\ Way(<<>>, <<m>> \o R, e, C) = Way(<<m>>, R, e, C)
         /\ Way(r, R \o <<m>>, <<>>, C) = Way(r, R, <<m>>, C)
<1>1. <<m>> \in Seq(Message) /\ r \o R \in Seq(Message) /\ R \o <<m>> \in Seq(Message)
      /\ <<m>> \o R \in Seq(Message)
  BY ConcatProperties
<1>2. \A u \in Seq(Message) : u \o <<>> = u /\ <<>> \o u = u BY ConcatEmptySeq
<1>3. \A u, v \in Seq(Message) : u \o v \in Seq(Message) BY ConcatProperties
<1>4. ASSUME NEW u \in Seq(Message), NEW v \in Seq(Message)
      PROVE  u \o (v \o C) = (u \o v) \o C
  BY Reassociate, SMTT(30)
<1>5. (r \o R) \o (<<m>> \o C) = ((r \o R) \o <<m>>) \o C BY <1>1, <1>4
<1>6. r \o (R \o <<m>>) = (r \o R) \o <<m>> BY <1>1, Reassociate
<1>7. Way(r, R, <<>>, <<m>> \o C) = Way(r, R, <<m>>, C) BY <1>1, <1>2, <1>5 DEF Way
<1>8. Way(<<>>, <<m>> \o R, e, C) = Way(<<m>>, R, e, C) BY <1>1, <1>2 DEF Way
<1>9. Way(r, R \o <<m>>, <<>>, C) = Way(r, R, <<m>>, C)
  <2>1. r \o (R \o <<m>>) \in Seq(Message) BY <1>1, <1>3
  <2>2. (r \o (R \o <<m>>)) \o <<>> = r \o (R \o <<m>>) BY <1>2, <2>1
  <2>3. QED BY <1>6, <2>2 DEF Way
<1>10. QED BY <1>7, <1>8, <1>9

(* The message in the executor's hands, and without it. *)
LEMMA WayAround ==
  ASSUME NEW r \in Seq(Message), NEW R \in Seq(Message), NEW C \in Seq(Message),
         NEW m \in Message
  PROVE  /\ Way(r, R, <<m>>, C) = Around(r \o R, m, C)
         /\ Way(r, R, <<>>, C) = (r \o R) \o C
<1>1. r \o R \in Seq(Message) BY ConcatProperties
<1>2. (r \o R) \o <<>> = r \o R BY <1>1, ConcatEmptySeq
<1>3. QED BY <1>2 DEF Way, Around

(* The response in the response thread's hands, and without it. *)
LEMMA WayFront ==
  ASSUME NEW R \in Seq(Message), NEW e \in Seq(Message), NEW C \in Seq(Message),
         NEW m \in Message
  PROVE  /\ Way(<<m>>, R, e, C) = <<m>> \o ((R \o e) \o C)
         /\ Way(<<>>, R, e, C) = (R \o e) \o C
<1>1. <<m>> \in Seq(Message) /\ R \o e \in Seq(Message) BY ConcatProperties
<1>2. <<>> \o R = R BY ConcatEmptySeq
<1>3. (<<m>> \o R) \o e = <<m>> \o (R \o e) BY <1>1, Reassociate
<1>4. ASSUME NEW u \in Seq(Message) PROVE (<<m>> \o u) \o C = <<m>> \o (u \o C)
  BY <1>1, Reassociate
<1>5. QED BY <1>1, <1>2, <1>3, <1>4 DEF Way

Grown(w, x) == w \o x

LEMMA WayGrows ==
  ASSUME NEW r \in Seq(Message), NEW R \in Seq(Message), NEW e \in Seq(Message),
         NEW C \in Seq(Message), NEW x \in Seq(Message)
  PROVE  Way(r, R, e, Grown(C, x)) = Grown(Way(r, R, e, C), x)
<1>1. ASSUME NEW u \in Seq(Message) PROVE u \o (C \o x) = (u \o C) \o x BY Reassociate, SMTT(30)
<1>2. \A u, v \in Seq(Message) : u \o v \in Seq(Message) BY ConcatProperties
<1>3. (r \o R) \o e \in Seq(Message) BY <1>2
<1>4. QED BY <1>1, <1>3 DEF Way, Grown

LEMMA HandTyped ==
  /\ InHand(Nothing) = <<>>
  /\ \A m \in Message : InHand(m) = <<m>>
  /\ \A m \in Message \cup {Nothing} : InHand(m) \in Seq(Message)
BY NothingIsNoMessage DEF InHand

(* What the invariant of the threads and queues says of the parts. *)
LEMMA PartsTyped ==
  ASSUME IInv
  PROVE  /\ InHand(resp) \in Seq(Message) /\ InHand(executing) \in Seq(Message)
         /\ list["response"] \in Seq(Message) /\ list["command"] \in Seq(Message)
         /\ TheWay \in Seq(Message)
         /\ DOMAIN list = {"command", "response"}
<1>1. InHand(resp) \in Seq(Message) /\ InHand(executing) \in Seq(Message)
  BY HandTyped DEF IInv, WorkInv
<1>2. list["response"] \in Seq(Message) /\ list["command"] \in Seq(Message)
      /\ DOMAIN list = {"command", "response"}
  BY NetplugAssumption DEF IInv, QueueInv
<1>3. TheWay \in Seq(Message) BY <1>1, <1>2, WayTyped DEF TheWay
<1>4. QED BY <1>1, <1>2, <1>3

LEMMA LedgerTyped ==
  ASSUME IInv
  PROVE  /\ LedgerType(Open, conn, Done, answered, TheWay, lost)
         /\ Open \in SUBSET Sessions /\ Fresh \in SUBSET Clients
         /\ \A s \in Open : conn[s] \notin Fresh
<1>1. PoolType /\ Owned /\ Linked /\ WorkInv BY PoolParts DEF IInv
<1>2. \A s \in Open : conn[s] \in Clients /\ conn[s] # NoClient /\ s \in Sessions
  BY <1>1 DEF Open, Connected, Owned, PoolType
<1>3. ASSUME NEW s \in Open PROVE Done[s] \in 0 .. MaxSent
  <2>1. sent[conn[s]] \in 0 .. MaxSent /\ backlog[s] \in 0 .. MaxSent
        /\ backlog[s] <= sent[conn[s]] /\ Done[s] = sent[conn[s]] - backlog[s]
    BY <1>1, <1>2, <1>3 DEF Done, Open, Connected, Linked, PoolType
  <2>2. QED BY <2>1, NetplugAssumption
<1>4. \A s, t \in Open : conn[s] = conn[t] => s = t BY <1>1, <1>2 DEF Owned
<1>5. TheWay \in Seq(Message) BY PartsTyped
<1>6. \A c \in Clients : answered[c] \in Seq(Packet) BY <1>1 DEF WorkInv
<1>7. lost \in SUBSET Packet BY <1>1 DEF WorkInv
<1>8. \A s \in Open : conn[s] \notin Fresh BY <1>1, <1>2 DEF Fresh, Linked
<1>9. Fresh \in SUBSET Clients BY DEF Fresh
<1>10. QED BY <1>2, <1>3, <1>4, <1>5, <1>6, <1>7, <1>8, <1>9 DEF LedgerType

-----------------------------------------------------------------------------
(* The steps of the threads *)

LEMMA SamePool ==
  ASSUME UNCHANGED <<state, closing, conn, sent, backlog, client>>
  PROVE  Open' = Open /\ Done' = Done /\ Fresh' = Fresh /\ conn' = conn
BY DEF Open, Connected, Done, Fresh

LEMMA KeepsWay ==
  ASSUME TransitInv, ControlInv', TheWay' = TheWay,
         UNCHANGED <<state, closing, conn, sent, backlog, client, answered, lost>>
  PROVE  TransitInv'
<1>1. Open' = Open /\ Done' = Done /\ Fresh' = Fresh /\ conn' = conn BY SamePool
<1>2. QED BY <1>1 DEF TransitInv

LEMMA SameControl ==
  ASSUME ControlInv,
         UNCHANGED <<responder, resp, stage, accepting, state, closing, client, sent>>
  PROVE  ControlInv'
BY DEF ControlInv, Fresh

LEMMA ExecuteTransit == ASSUME IInv, TransitInv, Execute PROVE TransitInv'
<1>1. UNCHANGED <<state, closing, conn, sent, backlog, client, answered, lost, responder,
                  resp, stage, accepting>>
  BY DEF Execute, poolVars, lobbyVars, historyVars
<1>2. ControlInv' BY <1>1, SameControl DEF TransitInv
<1>3. CASE SleepOn("command", "executor") /\ UNCHANGED executing
  <2>1. TheWay' = TheWay BY <1>1, <1>3 DEF TheWay, SleepOn
  <2>2. QED BY <1>1, <1>2, <2>1, KeepsWay
<1>4. CASE ReturnsOldest("command", "executor") /\ executing' = Head(list["command"])
  <2> DEFINE C == list["command"]
             R == list["response"]
             r == InHand(resp)
             m == Head(C)
             D == Tail(C)
  <2>1. r \in Seq(Message) /\ R \in Seq(Message) /\ C \in Seq(Message)
        /\ DOMAIN list = {"command", "response"}
    BY PartsTyped
  <2>2. C # <<>> /\ list' = [list EXCEPT !["command"] = D]
    BY <1>4 DEF ReturnsOldest
  <2>3. m \in Message /\ D \in Seq(Message) /\ C = <<m>> \o D BY <2>1, <2>2, HeadAndTail
  <2>4. list'["command"] = D /\ list'["response"] = R BY <2>1, <2>2
  <2>5. TheWay = Way(r, R, <<>>, C) BY HandTyped DEF TheWay, Execute
  <2>6. executing' = m BY <1>4
  <2> HIDE DEF m, D, C, R, r
  <2>7. InHand(executing') = <<m>> BY <2>3, <2>6, HandTyped
  <2>8. TheWay' = Way(r, R, <<m>>, D) BY <1>1, <2>4, <2>7 DEF TheWay, r
  <2>9. Way(r, R, <<>>, <<m>> \o D) = Way(r, R, <<m>>, D) BY <2>1, <2>3, WayMoves
  <2>10. TheWay' = TheWay BY <2>3, <2>5, <2>8, <2>9
  <2>11. QED BY <1>1, <1>2, <2>10, KeepsWay
<1>5. QED BY <1>3, <1>4 DEF Execute

LEMMA AnswerTransit == ASSUME IInv, TransitInv, Answer PROVE TransitInv'
<1> DEFINE C == list["command"]
           R == list["response"]
           r == InHand(resp)
           m == executing
<1>1. UNCHANGED <<state, closing, conn, sent, backlog, client, answered, responder,
                  resp, stage, accepting>>
      /\ m # Nothing /\ executing' = Nothing
  BY DEF Answer, poolVars, lobbyVars
<1>2. ControlInv' BY <1>1, SameControl DEF TransitInv
<1>3. r \in Seq(Message) /\ R \in Seq(Message) /\ C \in Seq(Message)
      /\ DOMAIN list = {"command", "response"}
  BY PartsTyped
<1>4. m \in Message BY <1>1 DEF IInv, WorkInv
<1>5. TheWay = Way(r, R, <<m>>, C) BY <1>4, HandTyped DEF TheWay
<1>6. InHand(executing') = <<>> BY <1>1, HandTyped
<1>7. CASE list_queue_enqueue("response", <<executing>>) /\ UNCHANGED lost
  <2>1. list' = [list EXCEPT !["response"] = R \o <<m>>]
    BY <1>7 DEF list_queue_enqueue
  <2>2. list'["command"] = C /\ list'["response"] = R \o <<m>> BY <1>3, <2>1
  <2> HIDE DEF m, C, R, r
  <2>3. TheWay' = Way(r, R \o <<m>>, <<>>, C) BY <1>1, <1>6, <2>2 DEF TheWay, r
  <2>4. Way(r, R \o <<m>>, <<>>, C) = Way(r, R, <<m>>, C) BY <1>3, <1>4, WayMoves
  <2>5. TheWay' = TheWay BY <1>5, <2>3, <2>4
  <2>6. QED BY <1>1, <1>2, <1>7, <2>5, KeepsWay
<1>8. CASE lost' = lost \cup {executing.packet} /\ UNCHANGED queueVars
  <2>1. list' = list BY <1>8 DEF queueVars
  <2> HIDE DEF m
  <2>2. TheWay' = Way(r, R, <<>>, C) BY <1>1, <1>6, <2>1 DEF TheWay
  <2> HIDE DEF C, R, r
  <2> DEFINE x == r \o R
  <2>3. TheWay = Around(x, m, C) /\ TheWay' = x \o C BY <1>3, <1>4, <1>5, <2>2, WayAround, ZenonT(40)
  <2>4. x \in Seq(Message) BY <1>3, ConcatProperties
  <2> HIDE DEF x
  <2>5. LedgerType(Open, conn, Done, answered, Around(x, m, C), lost)
    BY <2>3, LedgerTyped
  <2>6. Ledger(Open, conn, Done, Fresh, Around(x, m, C), answered, lost)
    BY <2>3 DEF TransitInv
  <2>7. Ledger(Open, conn, Done, Fresh, x \o C, answered, lost \cup {m.packet})
    BY <1>3, <1>4, <2>4, <2>5, <2>6, LedgerLoses
  <2>8. lost' = lost \cup {m.packet} BY <1>8 DEF m
  <2>9. Open' = Open /\ Done' = Done /\ Fresh' = Fresh /\ conn' = conn BY <1>1, SamePool
  <2>10. QED BY <1>1, <1>2, <2>3, <2>7, <2>8, <2>9 DEF TransitInv
<1>9. QED BY <1>7, <1>8 DEF Answer

LEMMA SentTo ==
  ASSUME IInv, NEW s \in Open
  PROVE  answered[conn[s]] \in Seq(Packet) /\ conn[s] \in Clients /\ s \in Sessions
BY LedgerTyped DEF LedgerType

LEMMA AwaitTransit == ASSUME IInv, TransitInv, AwaitResponse PROVE TransitInv'
<1>1. UNCHANGED <<state, closing, conn, sent, backlog, client, answered, lost,
                  stage, accepting, executing>>
      /\ responder = "dequeue"
  BY DEF AwaitResponse, poolVars, lobbyVars, historyVars
<1>2. resp = Nothing BY <1>1 DEF TransitInv, ControlInv
<1>3. CASE SleepOn("response", "responder") /\ UNCHANGED <<responder, resp>>
  <2>1. TheWay' = TheWay BY <1>1, <1>3 DEF TheWay, SleepOn
  <2>2. ControlInv' BY <1>1, <1>3, SameControl DEF TransitInv
  <2>3. QED BY <1>1, <2>1, <2>2, KeepsWay
<1>4. CASE ReturnsNothing("response", "responder") /\ responder' = "test" /\ UNCHANGED resp
  <2>1. TheWay' = TheWay BY <1>1, <1>4 DEF TheWay, ReturnsNothing, queueVars
  <2>2. ControlInv' BY <1>1, <1>2, <1>4 DEF TransitInv, ControlInv, Fresh
  <2>3. QED BY <1>1, <2>1, <2>2, KeepsWay
<1>5. CASE ReturnsOldest("response", "responder") /\ resp' = Head(list["response"])
           /\ responder' = "validate"
  <2> DEFINE C == list["command"]
             R == list["response"]
             e == InHand(executing)
             m == Head(R)
             D == Tail(R)
  <2>1. e \in Seq(Message) /\ R \in Seq(Message) /\ C \in Seq(Message)
        /\ DOMAIN list = {"command", "response"}
    BY PartsTyped
  <2>2. R # <<>> /\ list' = [list EXCEPT !["response"] = D]
    BY <1>5 DEF ReturnsOldest
  <2>3. m \in Message /\ D \in Seq(Message) /\ R = <<m>> \o D BY <2>1, <2>2, HeadAndTail
  <2>4. list'["command"] = C /\ list'["response"] = D BY <2>1, <2>2
  <2>5. TheWay = Way(<<>>, R, e, C) BY <1>2, HandTyped DEF TheWay
  <2>6. resp' = m BY <1>5
  <2>7. ControlInv' BY <1>1, <1>5 DEF TransitInv, ControlInv, Fresh
  <2> HIDE DEF m, D, C, R, e
  <2>8. InHand(resp') = <<m>> BY <2>3, <2>6, HandTyped
  <2>9. TheWay' = Way(<<m>>, D, e, C) BY <1>1, <2>4, <2>8 DEF TheWay, e
  <2>10. Way(<<>>, <<m>> \o D, e, C) = Way(<<m>>, D, e, C) BY <2>1, <2>3, WayMoves
  <2>11. TheWay' = TheWay BY <2>3, <2>5, <2>9, <2>10
  <2>12. QED BY <1>1, <2>7, <2>11, KeepsWay
<1>6. QED BY <1>3, <1>4, <1>5 DEF AwaitResponse

(* What the response thread does with the response in its hands. *)
LEMMA HandedOver ==
  ASSUME IInv, TransitInv, resp \in Message, resp' = Nothing, responder' = "test",
         UNCHANGED <<state, closing, conn, sent, backlog, client, stage, accepting,
                     executing, list>>,
         \/ /\ resp.session \notin Open
            /\ UNCHANGED <<answered, lost>>
         \/ /\ \A s \in Open : answered'[conn[s]] =
                 IF s = resp.session THEN Append(answered[conn[s]], resp.packet)
                 ELSE answered[conn[s]]
            /\ \A c \in Fresh : answered'[c] = answered[c]
            /\ UNCHANGED lost
         \/ lost' = lost \cup {resp.packet} /\ UNCHANGED answered
  PROVE  TransitInv'
<1> DEFINE C == list["command"]
           R == list["response"]
           e == InHand(executing)
           y == (R \o e) \o C
<1>1. e \in Seq(Message) /\ R \in Seq(Message) /\ C \in Seq(Message) BY PartsTyped
<1>2. ControlInv' BY DEF TransitInv, ControlInv, Fresh
<1>3. Open' = Open /\ Done' = Done /\ Fresh' = Fresh /\ conn' = conn BY SamePool
<1>4. TheWay = Way(<<resp>>, R, e, C) /\ TheWay' = Way(<<>>, R, e, C)
  BY HandTyped DEF TheWay
<1>5. LedgerType(Open, conn, Done, answered, TheWay, lost) BY LedgerTyped
<1>6. Ledger(Open, conn, Done, Fresh, TheWay, answered, lost) BY DEF TransitInv
<1> HIDE DEF C, R, e
<1>7. TheWay = <<resp>> \o y /\ TheWay' = y
  <2>1. \A k \in Message : Way(<<k>>, R, e, C) = <<k>> \o y /\ Way(<<>>, R, e, C) = y
    BY <1>1, WayFront, ZenonT(40)
  <2>2. QED BY <1>4, <2>1
<1>8. y \in Seq(Message) BY <1>1, WayTyped
<1> HIDE DEF y
<1>9. CASE resp.session \notin Open /\ UNCHANGED <<answered, lost>>
  <2>1. Ledger(Open, conn, Done, Fresh, y, answered, lost)
    BY <1>5, <1>6, <1>7, <1>8, <1>9, LedgerDrops
  <2>2. QED BY <1>2, <1>3, <1>7, <1>9, <2>1 DEF TransitInv
<1>10. CASE /\ \A s \in Open : answered'[conn[s]] =
                 IF s = resp.session THEN Append(answered[conn[s]], resp.packet)
                 ELSE answered[conn[s]]
            /\ \A c \in Fresh : answered'[c] = answered[c]
            /\ UNCHANGED lost
  <2>1. Ledger(Open, conn, Done, Fresh, y, answered', lost)
    BY <1>5, <1>6, <1>7, <1>8, <1>10, LedgerSends
  <2>2. QED BY <1>2, <1>3, <1>7, <1>10, <2>1 DEF TransitInv
<1>11. CASE lost' = lost \cup {resp.packet} /\ UNCHANGED answered
  <2>1. TheWay = Around(<<>>, resp, y) /\ <<>> \o y = y BY <1>7, <1>8, FrontElements
  <2>2. <<>> \in Seq(Message) OBVIOUS
  <2>3. LedgerType(Open, conn, Done, answered, Around(<<>>, resp, y), lost)
        /\ Ledger(Open, conn, Done, Fresh, Around(<<>>, resp, y), answered, lost)
    BY <1>5, <1>6, <2>1
  <2>4. Ledger(Open, conn, Done, Fresh, <<>> \o y, answered, lost \cup {resp.packet})
    BY <1>8, <2>2, <2>3, LedgerLoses
  <2>5. QED BY <1>2, <1>3, <1>7, <1>11, <2>1, <2>4 DEF TransitInv
<1>12. QED BY <1>9, <1>10, <1>11

LEMMA ValidateTransit == ASSUME IInv, TransitInv, ValidateResponse PROVE TransitInv'
<1>1. UNCHANGED <<state, closing, conn, sent, backlog, client, answered, lost,
                  stage, accepting, executing, list>>
      /\ responder = "validate"
  BY DEF ValidateResponse, poolVars, lobbyVars, historyVars, queueVars
<1>2. resp \in Message BY <1>1 DEF IInv, WorkInv
<1>3. CASE responder' = "send" /\ UNCHANGED resp
  <2>1. TheWay' = TheWay BY <1>1, <1>3 DEF TheWay
  <2>2. ControlInv' BY <1>1, <1>3 DEF TransitInv, ControlInv, Fresh
  <2>3. QED BY <1>1, <2>1, <2>2, KeepsWay
<1>4. CASE ~validate_session(resp.session) /\ responder' = "test" /\ resp' = Nothing
  <2>1. resp.session \notin Open BY <1>4 DEF validate_session, Open, Connected
  <2>2. QED BY <1>1, <1>2, <1>4, <2>1, HandedOver
<1>5. QED BY <1>3, <1>4 DEF ValidateResponse

LEMMA SendTransit == ASSUME IInv, TransitInv, send_response PROVE TransitInv'
<1>1. UNCHANGED <<state, closing, conn, sent, backlog, client,
                  stage, accepting, executing, list>>
      /\ responder = "send" /\ responder' = "test" /\ resp' = Nothing
  BY DEF send_response, poolVars, lobbyVars, queueVars
<1>2. resp \in Message BY <1>1 DEF IInv, WorkInv
<1>3. resp.session \in Sessions BY <1>2 DEF Message
<1>4. CASE /\ answered' = [c \in Clients |->
                IF Connected(resp.session) /\ conn[resp.session] = c
                THEN Append(answered[c], resp.packet) ELSE answered[c]]
           /\ UNCHANGED lost
  <2>1. ASSUME NEW s \in Open
        PROVE  answered'[conn[s]] =
                 IF s = resp.session THEN Append(answered[conn[s]], resp.packet)
                 ELSE answered[conn[s]]
    <3>1. conn[s] \in Clients BY SentTo
    <3>2. Connected(resp.session) <=> resp.session \in Open BY <1>3 DEF Open
    <3>3. resp.session \in Open => (conn[resp.session] = conn[s] <=> resp.session = s)
      BY LedgerTyped DEF LedgerType
    <3>4. QED BY <1>4, <2>1, <3>1, <3>2, <3>3
  <2>2. ASSUME NEW c \in Fresh PROVE answered'[c] = answered[c]
    <3>1. c \in Clients BY DEF Fresh
    <3>2. Connected(resp.session) => conn[resp.session] # c
      BY <1>3, <2>2, LedgerTyped DEF Open
    <3>3. QED BY <1>4, <3>1, <3>2
  <2>3. QED BY <1>1, <1>2, <1>4, <2>1, <2>2, HandedOver
<1>5. CASE lost' = lost \cup {resp.packet} /\ UNCHANGED answered
  BY <1>1, <1>2, <1>5, HandedOver
<1>6. QED BY <1>4, <1>5 DEF send_response

LEMMA TestTransit == ASSUME IInv, TransitInv, TestFlag PROVE TransitInv'
<1>1. UNCHANGED <<state, closing, conn, sent, backlog, client, answered, lost,
                  stage, accepting, executing, list, resp>>
      /\ responder = "test" /\ responder' \in {"dequeue", "ended"}
  BY DEF TestFlag, poolVars, lobbyVars, historyVars, queueVars
<1>2. TheWay' = TheWay BY <1>1 DEF TheWay
<1>3. ControlInv' BY <1>1 DEF TransitInv, ControlInv, Fresh
<1>4. QED BY <1>1, <1>2, <1>3, KeepsWay

(* A step that leaves the whole way, the books and the clients alone. *)
LEMMA AsideTransit ==
  ASSUME TransitInv,
         UNCHANGED <<state, closing, conn, sent, backlog, client, answered, lost,
                     stage, accepting, executing, list, resp, responder>>
  PROVE  TransitInv'
<1>1. TheWay' = TheWay BY DEF TheWay
<1>2. ControlInv' BY SameControl DEF TransitInv
<1>3. QED BY <1>1, <1>2, KeepsWay

LEMMA ThreadTransit ==
  ASSUME IInv, TransitInv, ExecutorStep \/ ResponderStep \/ Spurious
  PROVE  TransitInv'
<1>1. CASE Execute BY <1>1, ExecuteTransit
<1>2. CASE Login
  BY <1>2, AsideTransit DEF Login, lobbyVars, queueVars, workVars
<1>3. CASE Answer BY <1>3, AnswerTransit
<1>4. CASE ResponderStep
  BY <1>4, TestTransit, AwaitTransit, ValidateTransit, SendTransit DEF ResponderStep
<1>5. CASE Spurious
  BY <1>5, AsideTransit DEF Spurious, WakeSpuriously, poolVars, lobbyVars, workVars,
                            historyVars
<1>6. QED BY <1>1, <1>2, <1>3, <1>4, <1>5 DEF ExecutorStep

-----------------------------------------------------------------------------
(* The steps of the loop and of the shutdown *)

(* Nothing moves; sessions may close and clients may be turned away. *)
LEMMA ShrinkTransit ==
  ASSUME TransitInv, ControlInv', UNCHANGED <<resp, executing, list, answered, lost>>,
         \A s \in Open' : s \in Open /\ conn'[s] = conn[s] /\ Done'[s] = Done[s],
         Fresh' \subseteq Fresh
  PROVE  TransitInv'
<1>1. TheWay' = TheWay BY DEF TheWay
<1>2. Ledger(Open, conn, Done, Fresh, TheWay, answered, lost) BY DEF TransitInv
<1>3. Open' \in SUBSET Open /\ Fresh' \in SUBSET Fresh OBVIOUS
<1>4. Ledger(Open', conn', Done', Fresh', TheWay, answered, lost)
  BY <1>2, <1>3, LedgerShrinks
<1>5. QED BY <1>1, <1>4 DEF TransitInv

(* What closing sessions means. *)
LEMMA ClosingTransit ==
  ASSUME IInv, TransitInv, NEW S \in SUBSET Sessions, NEW why \in {"expired", "gone"},
         uv_close(S, why),
         UNCHANGED <<state, conn, sent, backlog, accepting, resp, responder, executing, list,
                     answered, lost>>,
         stage' = stage \/ (stage' = "closing" /\ S = {s \in Sessions : state[s] = "ALIVE"}
                            /\ stage # "running")
  PROVE  TransitInv'
<1>1. closing' = closing \cup S
      /\ client' = [c \in Clients |-> IF \E s \in S : conn[s] = c THEN why ELSE client[c]]
  BY DEF uv_close
<1>2. Fresh' \subseteq Fresh BY <1>1 DEF Fresh
<1>3. Done' = Done BY DEF Done
<1>4. \A s \in Open' : s \in Open BY <1>1 DEF Open, Connected
<1>5. ControlInv'
  <2>1. stage' # "running" => accepting' = NoSession BY DEF TransitInv, ControlInv
  <2>2. stage' \in {"closing", "down"}
          => \A s \in Sessions : state'[s] = "ALIVE" => s \in closing'
    BY <1>1 DEF TransitInv, ControlInv
  <2>3. \A c \in Fresh' : sent'[c] = 0 BY <1>2 DEF TransitInv, ControlInv
  <2>4. QED BY <2>1, <2>2, <2>3 DEF TransitInv, ControlInv
<1>6. QED BY <1>2, <1>3, <1>4, <1>5, ShrinkTransit

LEMMA ConnectTransit ==
  ASSUME IInv, TransitInv, NEW c \in Clients, Connect(c) PROVE TransitInv'
<1>1. /\ client[c] = "new" /\ client' = [client EXCEPT ![c] = "queued"]
      /\ UNCHANGED <<state, closing, conn, sent, backlog, answered, lost,
                     stage, accepting, executing, list, resp, responder>>
  BY DEF Connect, poolVars, queueVars, workVars, historyVars
<1>2. DOMAIN client = Clients BY DEF IInv, PoolInv, PoolType
<1>3. Fresh' = Fresh BY <1>1, <1>2 DEF Fresh
<1>4. Open' = Open /\ Done' = Done BY <1>1 DEF Open, Connected, Done
<1>5. ControlInv' BY <1>1, <1>3 DEF TransitInv, ControlInv
<1>6. QED BY <1>1, <1>3, <1>4, <1>5, ShrinkTransit

LEMMA ConnectionTransit == ASSUME IInv, TransitInv, on_connection PROVE TransitInv'
<1>1. /\ Loop
      /\ UNCHANGED <<client, sent, resp, responder, executing, list, stage, answered, lost>>
  BY DEF on_connection, queueVars, workVars, historyVars
<1>2. Fresh' = Fresh BY <1>1 DEF Fresh
<1>3. stage = "running" /\ stage' = "running" BY <1>1 DEF Loop
<1>4. ControlInv' BY <1>1, <1>2, <1>3 DEF TransitInv, ControlInv
<1>5. CASE alloc_session /\ UNCHANGED <<conn, closing, listening>>
  <2> DEFINE s == idle_sessions[Len(idle_sessions)]
  <2>1. idle_sessions # <<>> /\ state' = [state EXCEPT ![s] = "USING"]
        /\ backlog' = [backlog EXCEPT ![s] = 0]
    BY <1>5 DEF alloc_session, reset_session
  <2>2. PoolType /\ StackExact BY PoolParts DEF IInv
  <2>3. s \in Sessions /\ Contains(idle_sessions, s)
    BY <2>1, <2>2, PopProperties DEF PoolType, StackExact
  <2> HIDE DEF s
  <2>4. state[s] = "IDLE" BY <2>2, <2>3 DEF StackExact
  <2>5. \A t \in Open' : t \in Open /\ t # s /\ t \in Sessions
    BY <1>5, <2>1, <2>2, <2>3, <2>4 DEF Open, Connected, PoolType
  <2>6. \A t \in Open' : Done'[t] = Done[t]
    BY <1>1, <1>5, <2>1, <2>2, <2>5 DEF Done, PoolType
  <2>7. QED BY <1>1, <1>2, <1>4, <1>5, <2>5, <2>6, ShrinkTransit
<1>6. CASE UNCHANGED <<poolVars, accepting>>
  <2>1. Open' = Open /\ Done' = Done /\ conn' = conn
    BY <1>1, <1>6 DEF Open, Connected, Done, poolVars
  <2>2. QED BY <1>1, <1>2, <1>4, <2>1, ShrinkTransit
<1>7. QED BY <1>5, <1>6 DEF on_connection

LEMMA CloseTransit ==
  ASSUME IInv, TransitInv, NEW s \in Sessions, on_close(s) PROVE TransitInv'
<1>1. /\ s \in closing /\ closing' = closing \ {s} /\ conn' = [conn EXCEPT ![s] = NoClient]
      /\ state' = [state EXCEPT ![s] = "IDLE"] /\ backlog' = [backlog EXCEPT ![s] = 0]
      /\ UNCHANGED <<accepting, client, sent, resp, responder, executing, list, stage,
                     answered, lost>>
  BY DEF on_close, free_session, reset_session, lobbyVars, queueVars, workVars, historyVars
<1>2. PoolType BY PoolParts DEF IInv
<1>3. Fresh' = Fresh BY <1>1 DEF Fresh
<1>4. \A t \in Open' : t \in Open /\ t # s /\ t \in Sessions
  BY <1>1, <1>2 DEF Open, Connected, PoolType
<1>5. \A t \in Open' : conn'[t] = conn[t] /\ Done'[t] = Done[t]
  BY <1>1, <1>2, <1>4 DEF Done, PoolType
<1>6. ControlInv' BY <1>1, <1>2, <1>3 DEF TransitInv, ControlInv, PoolType
<1>7. QED BY <1>1, <1>3, <1>4, <1>5, <1>6, ShrinkTransit

LEMMA EndTransit ==
  ASSUME IInv, TransitInv, NEW s \in Sessions, on_read_end(s) PROVE TransitInv'
<1>1. /\ uv_close({s}, "gone") /\ {s} \in SUBSET Sessions
      /\ UNCHANGED <<state, conn, sent, backlog, accepting, resp, responder, executing, list,
                     answered, lost, stage>>
  BY DEF on_read_end, queueVars, workVars, historyVars
<1>2. QED BY <1>1, ClosingTransit

LEMMA ExpiryTransit ==
  ASSUME IInv, TransitInv, NEW S \in SUBSET Sessions, cleanup_expired_sessions(S)
  PROVE  TransitInv'
<1>1. /\ uv_close(S, "expired")
      /\ UNCHANGED <<state, conn, sent, backlog, accepting, resp, responder, executing, list,
                     answered, lost, stage>>
  BY DEF cleanup_expired_sessions, queueVars, workVars, historyVars
<1>2. QED BY <1>1, ClosingTransit

LEMMA AcceptTransit ==
  ASSUME IInv, TransitInv, NEW c \in Clients, on_connection_accept(c) PROVE TransitInv'
<1> DEFINE s == accepting
<1>1. PoolType /\ Owned /\ Linked BY PoolParts DEF IInv
<1>2. s # NoSession /\ s \in Sessions /\ client[c] = "queued"
  BY <1>1 DEF on_connection_accept, PoolType
<1>3. state[s] = "USING" /\ conn[s] = NoClient /\ backlog[s] = 0 /\ s \notin closing
      /\ s \notin Open
  BY <1>1, <1>2 DEF Owned, Linked, Open, Connected
<1>4. c \in Fresh /\ sent[c] = 0 BY <1>2 DEF TransitInv, ControlInv, Fresh
<1>5. accepting' = NoSession
      /\ UNCHANGED <<sent, resp, responder, executing, list, stage, answered, lost>>
  BY DEF on_connection_accept, queueVars, workVars, historyVars
<1>6. stage = "running" BY <1>2 DEF TransitInv, ControlInv
<1>7. /\ client' = client \/ \E k \in {"open", "gone"} : client' = [client EXCEPT ![c] = k]
      /\ \/ /\ conn' = [conn EXCEPT ![s] = c] /\ state' = [state EXCEPT ![s] = "ALIVE"]
            /\ closing' \in {closing, closing \cup {s}} /\ backlog' = backlog
            /\ \E k \in {"open", "gone"} : client' = [client EXCEPT ![c] = k]
         \/ /\ free_session(s) /\ UNCHANGED <<conn, closing>>
  BY DEF on_connection_accept
<1> HIDE DEF s
<1>8. Fresh' \in SUBSET Fresh BY <1>1, <1>7 DEF Fresh, PoolType
<1>9. ControlInv' BY <1>5, <1>6, <1>8 DEF TransitInv, ControlInv
<1>10. CASE /\ conn' = [conn EXCEPT ![s] = c] /\ state' = [state EXCEPT ![s] = "ALIVE"]
            /\ closing' \in {closing, closing \cup {s}} /\ backlog' = backlog
            /\ \E k \in {"open", "gone"} : client' = [client EXCEPT ![c] = k]
  <2>1. conn'[s] = c BY <1>1, <1>2, <1>10 DEF PoolType
  <2>2. Done'[s] = 0 BY <1>2, <1>3, <1>4, <1>5, <1>10, <2>1 DEF Done
  <2>3. \A t \in Open : t \in Sessions /\ t # s BY <1>3 DEF Open
  <2>4. \A t \in Open : conn'[t] = conn[t] /\ Done'[t] = Done[t]
    BY <1>1, <1>5, <1>10, <2>3 DEF Done, PoolType
  <2>5. LedgerType(Open, conn, Done, answered, TheWay, lost) /\ Fresh \in SUBSET Clients
    BY LedgerTyped
  <2>6. Ledger(Open, conn, Done, Fresh, TheWay, answered, lost) BY DEF TransitInv
  <2>7. Ledger(Open \cup {s}, conn', Done', Fresh', TheWay, answered, lost)
    BY <1>4, <1>8, <2>1, <2>2, <2>4, <2>5, <2>6, LedgerAccepts
  <2>8. Open' \in SUBSET (Open \cup {s})
    BY <1>1, <1>2, <1>10 DEF Open, Connected, PoolType
  <2>9. Ledger(Open', conn', Done', Fresh', TheWay, answered, lost)
    BY <2>7, <2>8, LedgerShrinks
  <2>10. TheWay' = TheWay BY <1>5 DEF TheWay
  <2>11. QED BY <1>5, <1>9, <2>9, <2>10 DEF TransitInv
<1>11. CASE free_session(s) /\ UNCHANGED <<conn, closing>>
  <2>1. state' = [state EXCEPT ![s] = "IDLE"] /\ backlog' = [backlog EXCEPT ![s] = 0]
    BY <1>11 DEF free_session, reset_session
  <2>2. \A t \in Open' : t \in Open /\ t # s /\ t \in Sessions
    BY <1>1, <1>2, <1>11, <2>1 DEF Open, Connected, PoolType
  <2>3. \A t \in Open' : conn'[t] = conn[t] /\ Done'[t] = Done[t]
    BY <1>1, <1>5, <1>11, <2>1, <2>2 DEF Done, PoolType
  <2>4. QED BY <1>5, <1>8, <1>9, <2>2, <2>3, ShrinkTransit
<1>12. QED BY <1>7, <1>10, <1>11

(* Handling the h oldest packets of a buffer that has just grown by n.     *)
Queueing(s, n, h) ==
  /\ sent[conn[s]] + n <= MaxSent
  /\ sent' = [sent EXCEPT ![conn[s]] = sent[conn[s]] + n]
  /\ Handles(s, Oldest(s, h, backlog[s] + n, sent[conn[s]] + n))
  /\ backlog' = [backlog EXCEPT ![s] = (backlog[s] + n) - h]
  /\ UNCHANGED <<state, conn, accepting, resp, responder, executing, stage, answered>>
  /\ UNCHANGED <<closing, client>> \/ uv_close({s}, "gone")

LEMMA ReadQueues ==
  ASSUME IInv, TransitInv, NEW s \in Open, NEW n \in 1 .. MaxSent,
         NEW h \in 0 .. backlog[s] + n, Queueing(s, n, h)
  PROVE  TransitInv'
<1> USE DEF Queueing
<1> DEFINE c == conn[s]
           k == Done[s]
           g == More(c, k, h)
<1>1. PoolType /\ Owned /\ Linked BY PoolParts DEF IInv
<1>2. s \in Sessions /\ c \in Clients /\ state[s] = "ALIVE"
  BY SentTo DEF Open, Connected
<1>3. backlog[s] \in 0 .. MaxSent /\ sent[c] \in 0 .. MaxSent /\ backlog[s] <= sent[c]
      /\ MaxSent \in Nat
  BY <1>1, <1>2, NetplugAssumption DEF PoolType, Linked
<1>4. k = sent[c] - backlog[s] /\ k \in Nat BY <1>2, <1>3 DEF Done
<1>5. h \in Nat /\ k + h <= MaxSent BY <1>3, <1>4
<1>6. PICK K \in SUBSET Packet : /\ \A p \in K : Contains(g, p)
                                 /\ Queued(s, g, K) \in Seq(Message)
                                 /\ list_queue_enqueue("command", Queued(s, g, K))
                                 /\ lost' = lost \cup K
  <2>1. (sent[c] + n) - (backlog[s] + n) = k BY <1>3, <1>4
  <2>2. Oldest(s, h, backlog[s] + n, sent[c] + n) = g BY <2>1 DEF Oldest, More
  <2>3. Handles(s, g) BY <2>2
  <2>4. g \in Seq(Packet)
    <3> HIDE DEF c, k
    <3>1. QED BY <1>2, <1>4, <1>5, MoreTyped
  <2> HIDE DEF g
  <2>5. QED BY <1>2, <2>3, <2>4, HandlesSome
<1> DEFINE x == Queued(s, g, K)
<1>7. Done'[s] = k + h
  <2>1. sent'[c] = sent[c] + n /\ backlog'[s] = backlog[s] + n - h
    BY <1>1, <1>2 DEF PoolType
  <2>2. Done'[s] = sent'[c] - backlog'[s] BY <1>2 DEF Done
  <2>3. QED BY <1>3, <1>4, <1>5, <2>1, <2>2
<1>8. \A t \in Open : t # s => Done'[t] = Done[t]
  <2> SUFFICES ASSUME NEW t \in Open, t # s PROVE Done'[t] = Done[t] OBVIOUS
  <2>1. t \in Sessions /\ conn[t] # c /\ conn[t] \in Clients
    BY SentTo, LedgerTyped DEF LedgerType
  <2>2. QED BY <1>1, <2>1 DEF Done, PoolType
<1>9. Fresh' \in SUBSET Fresh /\ Open' \in SUBSET Open
  <2>1. CASE UNCHANGED <<closing, client>> BY <2>1 DEF Fresh, Open, Connected
  <2>2. CASE uv_close({s}, "gone") BY <2>2 DEF uv_close, Fresh, Open, Connected
  <2>3. QED BY <2>1, <2>2
<1>10. c \notin Fresh BY LedgerTyped
<1>11. ControlInv'
  <2>1. \A d \in Fresh' : sent'[d] = 0
    BY <1>1, <1>9, <1>10 DEF TransitInv, ControlInv, Fresh, PoolType
  <2>2. closing \subseteq closing' BY DEF uv_close
  <2>3. QED BY <2>1, <2>2 DEF TransitInv, ControlInv
<1>12. TheWay' = TheWay \o x /\ x \in Seq(Message)
  <2> DEFINE C == list["command"]
             R == list["response"]
             r == InHand(resp)
             e == InHand(executing)
  <2>1. /\ r \in Seq(Message) /\ R \in Seq(Message) /\ e \in Seq(Message)
        /\ C \in Seq(Message) /\ DOMAIN list = {"command", "response"}
    BY PartsTyped
  <2>2. x \in Seq(Message) BY <1>6
  <2>3. list' = [list EXCEPT !["command"] = C \o x] BY <1>6 DEF list_queue_enqueue
  <2> HIDE DEF x, c, k
  <2>4. list'["command"] = C \o x /\ list'["response"] = R BY <2>1, <2>3
  <2>5. TheWay = Way(r, R, e, C) BY DEF TheWay
  <2>6. TheWay' = Way(r, R, e, C \o x) BY <2>4 DEF TheWay
  <2> HIDE DEF C, R, r, e
  <2>7. Way(r, R, e, Grown(C, x)) = Grown(Way(r, R, e, C), x) BY <2>1, <2>2, WayGrows
  <2>8. QED BY <2>2, <2>5, <2>6, <2>7 DEF Grown
<1>13. Ledger(Open, conn, Done', Fresh, TheWay \o x, answered, lost \cup K)
  <2>1. LedgerType(Open, conn, Done, answered, TheWay, lost) /\ Open \in SUBSET Sessions
    BY LedgerTyped
  <2>2. Ledger(Open, conn, Done, Fresh, TheWay, answered, lost) BY DEF TransitInv
  <2>3. IsRead(s, c, k, h, x, K)
    <3> HIDE DEF c, k
    <3>1. QED BY <1>2, <1>4, <1>5, <1>6, QueuedIsRead
  <2> HIDE DEF x
  <2>4. QED BY <1>5, <1>7, <1>8, <1>10, <2>1, <2>2, <2>3, LedgerReads
<1> HIDE DEF x, c, k
<1>14. Ledger(Open', conn', Done', Fresh', TheWay \o x, answered, lost \cup K)
  BY <1>9, <1>13, LedgerShrinks
<1>15. QED BY <1>6, <1>11, <1>12, <1>14 DEF TransitInv

LEMMA ReadTransit ==
  ASSUME IInv, TransitInv, NEW s \in Sessions, NEW n \in 1 .. MaxSent, on_read(s, n)
  PROVE  TransitInv'
<1> DEFINE handled == Least(backlog[s] + n, MAX_PACKETS_PER_CALL)
<1>1. /\ Connected(s) /\ sent[conn[s]] + n <= MaxSent
      /\ sent' = [sent EXCEPT ![conn[s]] = sent[conn[s]] + n]
      /\ process_buffer(s, backlog[s] + n, sent[conn[s]] + n)
      /\ UNCHANGED <<state, conn, accepting, resp, responder, executing, stage, answered>>
  BY DEF on_read, workVars
<1>2. s \in Open BY <1>1 DEF Open
<1>3. backlog[s] + n \in Nat
  <2>1. backlog[s] \in 0 .. MaxSent BY PoolParts DEF IInv, PoolType
  <2>2. QED BY <2>1, NetplugAssumption
<1>4. handled \in 0 .. backlog[s] + n BY <1>3, NetplugAssumption DEF Least
<1> HIDE DEF handled
<1>5. CASE /\ Handles(s, Oldest(s, handled, backlog[s] + n, sent[conn[s]] + n))
           /\ backlog' = [backlog EXCEPT ![s] = (backlog[s] + n) - handled]
           /\ UNCHANGED <<closing, client>>
  <2>1. Queueing(s, n, handled) BY <1>1, <1>5 DEF Queueing
  <2>2. QED BY <1>2, <1>4, <2>1, ReadQueues
<1>6. ASSUME NEW m \in 0 .. handled - 1,
             Handles(s, Oldest(s, m, backlog[s] + n, sent[conn[s]] + n)),
             backlog' = [backlog EXCEPT ![s] = (backlog[s] + n) - m],
             uv_close({s}, "gone")
      PROVE  TransitInv'
  <2>1. m \in 0 .. backlog[s] + n BY <1>3, <1>4
  <2>2. Queueing(s, n, m) BY <1>1, <1>6 DEF Queueing
  <2>3. QED BY <1>2, <2>1, <2>2, ReadQueues
<1>7. QED BY <1>1, <1>5, <1>6 DEF process_buffer, handled

LEMMA LoopTransit == ASSUME IInv, TransitInv, LoopStep PROVE TransitInv'
BY ConnectionTransit, AcceptTransit, ReadTransit, EndTransit, CloseTransit, ExpiryTransit
   DEF LoopStep

(* Nobody is connected when everything is released. *)
LEMMA ReleaseTransit == ASSUME IInv, TransitInv, Release PROVE TransitInv'
<1> DEFINE C == list["command"]
           R == list["response"]
           r == InHand(resp)
           e == InHand(executing)
<1>1. /\ closing = {} /\ stage = "closing" /\ stage' = "down"
      /\ list' = [q \in Queues |-> <<>>]
      /\ UNCHANGED <<state, closing, conn, sent, backlog, client, accepting, resp, responder,
                     executing, answered, lost>>
  BY DEF Release, Advance, poolVars, lobbyVars, workVars, historyVars
<1>2. Open = {} BY <1>1 DEF TransitInv, ControlInv, Open, Connected
<1>3. Open' = Open /\ Done' = Done /\ Fresh' = Fresh /\ conn' = conn BY <1>1, SamePool
<1>4. ControlInv' BY <1>1, <1>3 DEF TransitInv, ControlInv
<1>5. r \in Seq(Message) /\ R \in Seq(Message) /\ e \in Seq(Message) /\ C \in Seq(Message)
  BY PartsTyped
<1>6. list'["command"] = <<>> /\ list'["response"] = <<>> BY <1>1, NetplugAssumption
<1>7. TheWay = Way(r, R, e, C) BY DEF TheWay
<1>8. TheWay' = Way(r, <<>>, e, <<>>) BY <1>1, <1>6 DEF TheWay
<1> HIDE DEF C, R, r, e
<1>9. ASSUME NEW m, Contains(TheWay', m) PROVE Contains(TheWay, m)
  <2>1. Contains(r, m) \/ Contains(e, m)
    <3>1. r \o <<>> = r /\ (r \o e) \in Seq(Message) /\ \A u \in Seq(Message) : u \o <<>> = u
      BY <1>5, ConcatEmptySeq, ConcatProperties
    <3>2. TheWay' = r \o e BY <1>8, <3>1 DEF Way
    <3>3. QED BY <1>5, <1>9, <3>2, ContainsConcat
  <2>2. r \o R \in Seq(Message) /\ \A u \in Seq(Message) : u \o e \in Seq(Message)
    BY <1>5, ConcatProperties
  <2>3. Contains(r \o R, m) \/ Contains(e, m) BY <1>5, <2>1, ContainsConcat
  <2>4. Contains((r \o R) \o e, m) BY <1>5, <2>2, <2>3, ContainsConcat
  <2>5. Contains(((r \o R) \o e) \o C, m) BY <1>5, <2>2, <2>4, ContainsConcat
  <2>6. QED BY <1>7, <2>5 DEF Way
<1>10. ASSUME NEW c \in Fresh PROVE Untold(c, answered[c], TheWay', lost)
  <2>1. Untold(c, answered[c], TheWay, lost) BY DEF TransitInv, Ledger
  <2>2. QED BY <1>9, <2>1 DEF Untold
<1>11. Ledger({}, conn, Done, Fresh, TheWay', answered, lost) BY <1>10 DEF Ledger
<1>12. QED BY <1>1, <1>2, <1>3, <1>4, <1>11 DEF TransitInv

LEMMA ShutdownTransit == ASSUME IInv, TransitInv, netplug_shutdown PROVE TransitInv'
<1>1. CASE RaiseFlag \/ ShutDownCommands \/ ShutDownResponses
  <2>1. /\ UNCHANGED <<state, closing, conn, sent, backlog, client, accepting, resp, responder,
                       executing, list, answered, lost>>
        /\ stage' \in {"flagged", "commands shut", "responses shut"}
        /\ stage # "running" \/ accepting = NoSession
    BY <1>1 DEF RaiseFlag, ShutDownCommands, ShutDownResponses, Advance, list_queue_shutdown,
                poolVars, lobbyVars, queueVars, workVars, historyVars
  <2>2. Fresh' = Fresh /\ Open' = Open /\ Done' = Done BY <2>1, SamePool
  <2>3. ControlInv' BY <2>1, <2>2 DEF TransitInv, ControlInv
  <2>4. QED BY <2>1, <2>2, <2>3, ShrinkTransit
<1>2. CASE JoinResponder
  <2> DEFINE S == {s \in Sessions : state[s] = "ALIVE"}
  <2>1. /\ uv_close(S, "gone") /\ S \in SUBSET Sessions
        /\ stage = "responses shut" /\ stage' = "closing"
        /\ UNCHANGED <<state, conn, sent, backlog, accepting, resp, responder, executing, list,
                       answered, lost>>
    BY <1>2 DEF JoinResponder, Advance, queueVars, workVars, historyVars
  <2>2. QED BY <2>1, ClosingTransit
<1>3. CASE Release BY <1>3, ReleaseTransit
<1>4. QED BY <1>1, <1>2, <1>3 DEF netplug_shutdown

LEMMA InitTransit == Init => TransitInv
<1> SUFFICES ASSUME Init PROVE TransitInv OBVIOUS
<1>1. Open = {} BY DEF Init, Open, Connected
<1>2. ControlInv BY DEF Init, ControlInv, Fresh
<1>3. TheWay = <<>>
  <2>1. list["response"] = <<>> /\ list["command"] = <<>>
    BY NetplugAssumption DEF Init, list_queue_init
  <2>2. InHand(resp) = <<>> /\ InHand(executing) = <<>> BY HandTyped DEF Init
  <2>3. <<>> \o <<>> = <<>> OBVIOUS
  <2>4. QED BY <2>1, <2>2, <2>3 DEF TheWay, Way
<1>4. \A c \in Fresh : answered[c] = <<>> /\ lost = {} BY DEF Init, Fresh
<1>5. \A m : ~Contains(<<>>, m) BY DEF Contains
<1>6. \A c \in Fresh : Untold(c, answered[c], TheWay, lost)
  BY <1>3, <1>4, <1>5 DEF Untold
<1>7. QED BY <1>1, <1>2, <1>6 DEF TransitInv, Ledger

LEMMA NextTransit == IInv /\ TransitInv /\ [Next]_vars => TransitInv'
<1> SUFFICES ASSUME IInv, TransitInv, [Next]_vars PROVE TransitInv' OBVIOUS
<1>1. ASSUME NEW c \in Clients, Connect(c) PROVE TransitInv' BY <1>1, ConnectTransit
<1>2. CASE LoopStep BY <1>2, LoopTransit
<1>3. CASE ExecutorStep \/ ResponderStep \/ Spurious BY <1>3, ThreadTransit
<1>4. CASE netplug_shutdown BY <1>4, ShutdownTransit
<1>5. CASE UNCHANGED vars
  BY <1>5, AsideTransit DEF vars, poolVars, lobbyVars, queueVars, workVars, historyVars
<1>6. QED BY <1>1, <1>2, <1>3, <1>4, <1>5 DEF Next

LEMMA TransitHolds == Spec => []TransitInv
<1>1. Init => TransitInv BY InitTransit
<1>2. IInv /\ TransitInv /\ [Next]_vars => TransitInv' BY NextTransit
<1>3. QED BY <1>1, <1>2, InvariantHolds, PTL DEF Spec

-----------------------------------------------------------------------------
(* The theorems *)

(* Every variable keeps its type: a message in a queue or in a thread's    *)
(* hands names a session and a packet, a buffer never holds more than its  *)
(* client has sent, whatever the order of reads, closes and allocations.   *)
THEOREM TypeCorrect == Spec => []TypeOK
<1>1. IInv => TypeOK BY DEF IInv, PoolInv, PoolType, QueueInv, WorkInv, TypeOK
<1>2. QED BY <1>1, InvariantHolds, PTL

(* The pool of sessions is exact: alloc_session and free_session keep the  *)
(* stack the list of the idle sessions, and no two sessions hold a socket. *)
THEOREM PoolStaysExact == Spec => []PoolExact
<1>1. IInv => PoolExact BY DEF IInv, PoolInv
<1>2. QED BY <1>1, InvariantHolds, PTL

(* Live sessions have different ids while ids last, so auth_session finds  *)
(* the session it is asked for.                                            *)
THEOREM SidsStayDistinct == Spec => []SidsDistinct
<1>1. IInv => SidsDistinct BY DEF IInv, PoolInv
<1>2. QED BY <1>1, InvariantHolds, PTL

(* A session that changes hands starts without a user.                     *)
THEOREM SessionsStartClean == Spec => []NoInheritedLogin
<1>1. IInv => NoInheritedLogin BY DEF IInv, PoolInv
<1>2. QED BY <1>1, InvariantHolds, PTL

(* The signals of list_queue_enqueue and list_queue_shutdown suffice: no   *)
(* thread sleeps on a queue with an entry or on one that is shut down.     *)
THEOREM NoWakeUpLost == Spec => []NoSleepOverWork
<1>1. IInv => NoSleepOverWork BY DEF IInv, QueueInv
<1>2. QED BY <1>1, InvariantHolds, PTL

(* Through the command queue, the executor, the response queue and the     *)
(* response thread nothing of an open connection is skipped, repeated or   *)
(* overtaken: what was answered to it and what is on its way are the       *)
(* packets process_buffer handled for it, in their order, without those    *)
(* for which no memory was found.                                          *)
THEOREM EveryPacketGoesOnce == Spec => []EveryPacketOnce
<1>1. TransitInv => EveryPacketOnce
  <2> SUFFICES ASSUME TransitInv, NEW s \in Sessions, Connected(s)
               PROVE  LET c == conn[s]
                          upTo == [k \in 1 .. sent[c] - backlog[s] |-> <<c, k>>]
                      IN Under(c, answered[c]) \o InTransit(c) = Only(upTo, Packet \ lost)
    BY DEF EveryPacketOnce
  <2>1. s \in Open /\ Done[s] = sent[conn[s]] - backlog[s] BY DEF Open, Done
  <2>2. Account(conn[s], Done[s], answered[conn[s]], TheWay, lost)
    BY <2>1 DEF TransitInv, Ledger, Told
  <2>3. Track(conn[s], TheWay) = InTransit(conn[s])
    BY DEF Track, TheWay, Way, InTransit
  <2>4. QED BY <2>1, <2>2, <2>3 DEF Account, FirstOf
<1>2. QED BY <1>1, TransitHolds, PTL
==============================================================================
