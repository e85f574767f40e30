------------------------------- MODULE Netplug -------------------------------
(***************************************************************************)
(* The network front of netplug.c: a pool of sessions with a stack of idle *)
(* ones, the callbacks of the event loop that open, read and close         *)
(* sessions, the command queue to an executor thread, the response queue   *)
(* to the response thread, and the shutdown.                               *)
(*                                                                         *)
(* Three threads run: the event loop, one executor and the response        *)
(* thread.  A callback is one step, except on_connection, which is split   *)
(* where it releases pool_mutex.  A client is one connection.  A packet of *)
(* client c is a pair <<c, k>>, k its place in the stream; every packet    *)
(* carries a command id.  Packets cut by a read boundary and bytes between *)
(* packets are left out: a buffer is the number of its complete packets.   *)
(* A command and a response hold, as in the code, the session and nothing  *)
(* that tells its users apart; the packet in them is a history variable.   *)
(*                                                                         *)
(* External: libuv (uv_accept, uv_close, uv_write, uv_stop) and the        *)
(* executor, of which src/ holds only the two ends of the queues.          *)
(*                                                                         *)
(* A definition whose name says what it does wrong is a faulty variant of  *)
(* the one after it, which the specification does not use.                 *)
(***************************************************************************)
EXTENDS IdAlloc, Queue, Lists

CONSTANTS
  MAX_SESSIONS,          (* size of the pool                               *)
  MAX_PACKETS_PER_CALL,  (* packets handled by one read, 10 in netplug.c   *)
  Clients,               (* the connections                                *)
  UserIds,               (* uids that can log in                           *)
  NoClient, NoUser,      (* nobody; uid 65536 of an unauthenticated client *)
  NoPacket,              (* nothing at hand                                *)
  MallocFails,           (* whether an allocation may fail                 *)
  MaxSent,               (* bound: packets a client sends                  *)
  EarlierSids            (* what connections before these may have used of *)
                         (* the session ids, which are never given back    *)

ASSUME NetplugAssumption ==
  /\ MAX_SESSIONS \in Nat \ {0} /\ MAX_PACKETS_PER_CALL \in Nat \ {0}
  /\ MaxSent \in Nat /\ MallocFails \in BOOLEAN
  /\ EarlierSids \subseteq SUBSET Ids
  /\ NoClient \notin Clients /\ NoUser \notin UserIds
  /\ Queues = {"command", "response"} /\ Threads = {"executor", "responder"}
  /\ NoPacket \notin Clients \X (Nat \ {0})

Sessions == 1 .. MAX_SESSIONS
NoSession == 0
RootUid == 0
Packet == Clients \X (1 .. MaxSent)
Message == [session : Sessions, packet : Packet]
Nothing == [session |-> NoSession, packet |-> NoPacket]

VARIABLES
  state,           (* of each session: "IDLE", "USING" or "ALIVE"          *)
  idle_sessions,   (* the stack of idle sessions, its top last             *)
  session_id, user_id,  (* of each session                                 *)
  backlog,         (* of each session: packets received and not handled    *)
  conn,            (* of each session: whose socket its handle is          *)
  closing,         (* sessions whose handle is closed, on_close pending    *)
  accepting,       (* the session that on_connection is setting up         *)
  listening,       (* libuv reports connections                            *)
  client,          (* of each client: "new", "queued", "open", "expired"   *)
                   (* when closed for silence, else "gone"                 *)
  sent,            (* of each client: packets received from it             *)
  sid_bitmap,
  executing,       (* the command in the executor's hands                  *)
  responder,       (* where the response thread is                         *)
  resp,            (* the response in its hands                            *)
  stage,           (* of the shutdown                                      *)
  answered,        (* history: of each client, the packets answered to it  *)
  lost,            (* history: packets skipped or without memory           *)
  logged_in        (* history: clients that auth_session was called for    *)

poolVars == <<state, idle_sessions, session_id, user_id, backlog, conn, closing>>
lobbyVars == <<accepting, listening, client, sent, sid_bitmap>>
workVars == <<executing, responder, resp>>
historyVars == <<answered, lost, logged_in>>
vars == <<poolVars, lobbyVars, queueVars, workVars, stage, historyVars>>

(* The handle of session s is an open socket. *)
Connected(s) == state[s] = "ALIVE" /\ s \notin closing

Loop == stage = "running" /\ accepting = NoSession

-----------------------------------------------------------------------------
(* Sessions *)

(* The user id of a reset session is 0. *)
reset_session_keeps_buffer(s) ==
  /\ session_id' = [session_id EXCEPT ![s] = 0]
  /\ user_id' = [user_id EXCEPT ![s] = RootUid]
  /\ UNCHANGED backlog
reset_session(s) ==
  /\ session_id' = [session_id EXCEPT ![s] = 0]
  /\ user_id' = [user_id EXCEPT ![s] = RootUid]
  /\ backlog' = [backlog EXCEPT ![s] = 0]

free_session(s) ==
  /\ reset_session(s)
  /\ state' = [state EXCEPT ![s] = "IDLE"]
  /\ idle_sessions' = IF Len(idle_sessions) < MAX_SESSIONS
                      THEN Append(idle_sessions, s) ELSE idle_sessions

alloc_session ==
  LET s == idle_sessions[Len(idle_sessions)] IN
  /\ idle_sessions # <<>>
  /\ idle_sessions' = SubSeq(idle_sessions, 1, Len(idle_sessions) - 1)
  /\ state' = [state EXCEPT ![s] = "USING"]
  /\ reset_session(s)
  /\ accepting' = s

(* Session s is in use by a connection that can be read. *)
validate_session(s) == state[s] \in {"ALIVE", "USING"}

(* uv_close: no read follows, on_close comes before the next timer. *)
uv_close(S, why) ==
  /\ closing' = closing \cup S
  /\ client' = [c \in Clients |-> IF \E s \in S : conn[s] = c THEN why ELSE client[c]]

-----------------------------------------------------------------------------
(* Callbacks of the event loop *)

(* A client asks for a connection (external). *)
Connect(c) ==
  /\ client[c] = "new"
  /\ client' = [client EXCEPT ![c] = "queued"]
  /\ UNCHANGED <<poolVars, accepting, listening, sent, sid_bitmap, queueVars, workVars,
                 stage, historyVars>>

(* Without an idle session on_connection returns without uv_accept, and    *)
(* libuv reports no connection until uv_accept is called.                  *)
on_connection ==
  /\ Loop /\ listening /\ \E c \in Clients : client[c] = "queued"
  /\ \/ alloc_session /\ UNCHANGED <<conn, closing, listening>>
     \/ /\ idle_sessions = <<>>
        /\ listening' = FALSE
        /\ UNCHANGED <<poolVars, accepting>>
  /\ UNCHANGED <<client, sent, sid_bitmap, queueVars, workVars, stage, historyVars>>

(* The rest of on_connection: the accept succeeds, and then starting to    *)
(* read may fail; or the accept fails; or uv_tcp_init fails before it, so  *)
(* that the connection waits and libuv reports no other.                   *)
on_connection_accept_root(c) ==
  LET s == accepting
      sid == get_sid(sid_bitmap)
  IN
  /\ accepting # NoSession /\ client[c] = "queued"
  /\ conn' = [conn EXCEPT ![s] = c]
  /\ state' = [state EXCEPT ![s] = "ALIVE"]
  /\ session_id' = [session_id EXCEPT ![s] = sid]
  /\ sid_bitmap' = IF sid = merr THEN sid_bitmap ELSE sid_bitmap \cup {sid}
  /\ client' = [client EXCEPT ![c] = "open"]
  /\ accepting' = NoSession
  /\ UNCHANGED <<user_id, closing, idle_sessions, backlog, listening, sent, queueVars, workVars,
                 stage, historyVars>>
on_connection_accept(c) ==
  LET s == accepting
      sid == get_sid(sid_bitmap)
  IN
  /\ accepting # NoSession /\ client[c] = "queued"
  /\ \/ /\ conn' = [conn EXCEPT ![s] = c]
        /\ state' = [state EXCEPT ![s] = "ALIVE"]
        /\ session_id' = [session_id EXCEPT ![s] = sid]
        /\ user_id' = [user_id EXCEPT ![s] = NoUser]
        /\ sid_bitmap' = IF sid = merr THEN sid_bitmap ELSE sid_bitmap \cup {sid}
        /\ \/ client' = [client EXCEPT ![c] = "open"] /\ UNCHANGED closing
           \/ client' = [client EXCEPT ![c] = "gone"] /\ closing' = closing \cup {s}
        /\ UNCHANGED <<idle_sessions, backlog, listening>>
     \/ /\ free_session(s)
        /\ \/ client' = [client EXCEPT ![c] = "gone"] /\ UNCHANGED listening
           \/ listening' = FALSE /\ UNCHANGED client
        /\ UNCHANGED <<conn, closing, sid_bitmap>>
  /\ accepting' = NoSession
  /\ UNCHANGED <<sent, queueVars, workVars, stage, historyVars>>

(* The n oldest packets in the buffer of session s, which holds the last   *)
(* `unhandled' of the `total' packets of its client, and their commands.   *)
Oldest(s, n, unhandled, total) ==
  [i \in 1 .. n |-> <<conn[s], total - unhandled + i>>]
Commands(s, packets) == [i \in DOMAIN packets |-> [session |-> s, packet |-> packets[i]]]

Least(m, n) == IF m < n THEN m ELSE n

(* A packet that does not unpack is skipped without a word.  (unpacking    *)
(* finds no memory; a packet too short for a command id is skipped alike.) *)
Handles(s, packets) ==
  \E skipped \in IF MallocFails THEN SUBSET {packets[i] : i \in DOMAIN packets} ELSE {{}} :
    /\ list_queue_enqueue("command", Commands(s, Only(packets, Packet \ skipped)))
    /\ lost' = lost \cup skipped

(* At most MAX_PACKETS_PER_CALL packets are handled, the rest waits for    *)
(* the next read.  When there is no memory for a command, handling stops   *)
(* and the session is closed.                                              *)
process_buffer_newest_first(s, unhandled, total) ==
  LET handled == Least(unhandled, MAX_PACKETS_PER_CALL) IN
  /\ list_queue_enqueue("command", Commands(s, Oldest(s, handled, handled, total)))
  /\ backlog' = [backlog EXCEPT ![s] = unhandled - handled]
  /\ UNCHANGED <<closing, client, lost>>
process_buffer(s, unhandled, total) ==
  LET handled == Least(unhandled, MAX_PACKETS_PER_CALL) IN
  \/ /\ Handles(s, Oldest(s, handled, unhandled, total))
     /\ backlog' = [backlog EXCEPT ![s] = unhandled - handled]
     /\ UNCHANGED <<closing, client>>
  \/ /\ MallocFails
     /\ \E m \in 0 .. handled - 1 :
          /\ Handles(s, Oldest(s, m, unhandled, total))
          /\ backlog' = [backlog EXCEPT ![s] = unhandled - m]
     /\ uv_close({s}, "gone")

(* A read delivers n packets. *)
on_read(s, n) ==
  LET total == sent[conn[s]] + n IN
  /\ Loop /\ Connected(s) /\ total <= MaxSent
  /\ sent' = [sent EXCEPT ![conn[s]] = total]
  /\ process_buffer(s, backlog[s] + n, total)
  /\ UNCHANGED <<state, idle_sessions, session_id, user_id, conn, accepting, listening,
                 sid_bitmap, workVars, stage, answered, logged_in>>

(* The client ends the connection, the read fails, or the buffer is full. *)
on_read_end(s) ==
  /\ Loop /\ Connected(s)
  /\ uv_close({s}, "gone")
  /\ UNCHANGED <<state, idle_sessions, session_id, user_id, backlog, conn, accepting,
                 listening, sent, sid_bitmap, queueVars, workVars, stage, historyVars>>

on_close(s) ==
  /\ stage \in {"running", "closing"} /\ accepting = NoSession
  /\ s \in closing
  /\ closing' = closing \ {s}
  /\ conn' = [conn EXCEPT ![s] = NoClient]
  /\ free_session(s)
  /\ UNCHANGED <<lobbyVars, queueVars, workVars, stage, historyVars>>

(* Which sessions have been silent too long is left open.  The loop runs   *)
(* pending close callbacks before it runs timers.                          *)
cleanup_expired_sessions_of_any_state(S) ==
  /\ Loop /\ closing = {} /\ S # {}
  /\ uv_close(S, "expired")
  /\ UNCHANGED <<state, idle_sessions, session_id, user_id, backlog, conn, accepting,
                 listening, sent, sid_bitmap, queueVars, workVars, stage, historyVars>>
cleanup_expired_sessions(S) ==
  /\ Loop /\ closing = {} /\ S # {}
  /\ \A s \in S : state[s] = "ALIVE"
  /\ uv_close(S, "expired")
  /\ UNCHANGED <<state, idle_sessions, session_id, user_id, backlog, conn, accepting,
                 listening, sent, sid_bitmap, queueVars, workVars, stage, historyVars>>

-----------------------------------------------------------------------------
(* The executor (external): takes a command, may authenticate the session  *)
(* of the command, and answers it.                                         *)

Execute ==
  /\ stage # "down" /\ executing = Nothing
  /\ \/ SleepOn("command", "executor") /\ UNCHANGED executing
     \/ ReturnsOldest("command", "executor") /\ executing' = Head(list["command"])
  /\ UNCHANGED <<poolVars, lobbyVars, responder, resp, stage, historyVars>>

(* The first session in the pool with that id. *)
auth_session(sid, uid) ==
  LET found == {s \in Sessions : session_id[s] = sid /\ state[s] = "ALIVE"}
      s     == CHOOSE x \in found : \A y \in found : x <= y
  IN
  /\ sid # 0 /\ found # {}
  /\ user_id' = [user_id EXCEPT ![s] = uid]
  /\ logged_in' = logged_in \cup {conn[s]}

Login ==
  /\ stage # "down" /\ executing # Nothing
  /\ \E uid \in UserIds : auth_session(session_id[executing.session], uid)
  /\ UNCHANGED <<state, idle_sessions, session_id, backlog, conn, closing, lobbyVars,
                 queueVars, workVars, stage, answered, lost>>

Answer ==
  /\ stage # "down" /\ executing # Nothing
  /\ \/ list_queue_enqueue("response", <<executing>>) /\ UNCHANGED lost
     \/ /\ ~Accepts("response") \/ MallocFails
        /\ lost' = lost \cup {executing.packet}
        /\ UNCHANGED queueVars
  /\ executing' = Nothing
  /\ UNCHANGED <<poolVars, lobbyVars, responder, resp, stage, answered, logged_in>>

-----------------------------------------------------------------------------
(* The response thread *)

(* response_thread_func: test the flag, wait for a response, test its      *)
(* session, write.                                                         *)
TestFlag_ignored ==
  /\ stage # "down" /\ responder = "test"
  /\ responder' = "dequeue"
  /\ UNCHANGED <<poolVars, lobbyVars, queueVars, executing, resp, stage, historyVars>>
TestFlag ==
  /\ stage # "down" /\ responder = "test"
  /\ responder' = IF stage = "running" THEN "dequeue" ELSE "ended"
  /\ UNCHANGED <<poolVars, lobbyVars, queueVars, executing, resp, stage, historyVars>>

AwaitResponse ==
  /\ responder = "dequeue"
  /\ \/ SleepOn("response", "responder") /\ UNCHANGED <<responder, resp>>
     \/ /\ ReturnsNothing("response", "responder")
        /\ responder' = "test" /\ UNCHANGED resp
     \/ /\ ReturnsOldest("response", "responder")
        /\ resp' = Head(list["response"])
        /\ responder' = "validate"
  /\ UNCHANGED <<poolVars, lobbyVars, executing, stage, historyVars>>

ValidateResponse ==
  /\ responder = "validate"
  /\ \/ validate_session(resp.session) /\ responder' = "send" /\ UNCHANGED resp
     \/ ~validate_session(resp.session) /\ responder' = "test" /\ resp' = Nothing
  /\ UNCHANGED <<poolVars, lobbyVars, queueVars, executing, stage, historyVars>>

(* uv_write goes to the socket the handle has now, and is refused when it  *)
(* has none.                                                               *)
send_response ==
  LET s == resp.session IN
  /\ responder = "send"
  /\ \/ /\ answered' = [c \in Clients |->
             IF Connected(s) /\ conn[s] = c THEN Append(answered[c], resp.packet)
             ELSE answered[c]]
        /\ UNCHANGED lost
     \/ MallocFails /\ lost' = lost \cup {resp.packet} /\ UNCHANGED answered
  /\ responder' = "test" /\ resp' = Nothing
  /\ UNCHANGED <<poolVars, lobbyVars, queueVars, executing, stage, logged_in>>

Spurious ==
  /\ stage # "down"
  /\ \/ WakeSpuriously("command", "executor")
     \/ WakeSpuriously("response", "responder")
  /\ UNCHANGED <<poolVars, lobbyVars, workVars, stage, historyVars>>

-----------------------------------------------------------------------------
(* netplug_shutdown, called once the loop has been stopped; a loop stops   *)
(* when no close callback is pending.                                      *)

Advance(from, to) == stage = from /\ stage' = to

RaiseFlag ==
  /\ accepting = NoSession /\ closing = {} /\ Advance("running", "flagged")
  /\ UNCHANGED <<poolVars, lobbyVars, queueVars, workVars, historyVars>>

ShutDownCommands ==
  /\ Advance("flagged", "commands shut") /\ list_queue_shutdown("command")
  /\ UNCHANGED <<poolVars, lobbyVars, workVars, historyVars>>

ShutDownResponses ==
  /\ Advance("commands shut", "responses shut") /\ list_queue_shutdown("response")
  /\ UNCHANGED <<poolVars, lobbyVars, workVars, historyVars>>

JoinResponder ==
  /\ responder = "ended" /\ Advance("responses shut", "closing")
  /\ listening' = FALSE
  /\ uv_close({s \in Sessions : state[s] = "ALIVE"}, "gone")
  /\ UNCHANGED <<state, idle_sessions, session_id, user_id, backlog, conn, accepting, sent,
                 sid_bitmap, queueVars, workVars, historyVars>>

(* The loop has run all close callbacks, and everything is released. *)
Release ==
  /\ closing = {} /\ Advance("closing", "down")
  /\ list' = [q \in Queues |-> <<>>]
  /\ UNCHANGED <<poolVars, lobbyVars, shutdown, sleeping, workVars, historyVars>>

netplug_shutdown ==
  RaiseFlag \/ ShutDownCommands \/ ShutDownResponses \/ JoinResponder \/ Release

-----------------------------------------------------------------------------
Init ==
  /\ list_queue_init
  /\ state = [s \in Sessions |-> "IDLE"]
  /\ idle_sessions = [i \in Sessions |-> i]
  /\ session_id = [s \in Sessions |-> 0] /\ user_id = [s \in Sessions |-> RootUid]
  /\ backlog = [s \in Sessions |-> 0]
  /\ conn = [s \in Sessions |-> NoClient] /\ closing = {}
  /\ accepting = NoSession /\ listening = TRUE
  /\ client = [c \in Clients |-> "new"] /\ sent = [c \in Clients |-> 0]
  /\ sid_bitmap \in EarlierSids
  /\ executing = Nothing /\ responder = "test" /\ resp = Nothing
  /\ stage = "running"
  /\ answered = [c \in Clients |-> <<>>] /\ lost = {} /\ logged_in = {}

LoopStep ==
  \/ on_connection
  \/ \E c \in Clients : on_connection_accept(c)
  \/ \E s \in Sessions, n \in 1 .. MaxSent : on_read(s, n)
  \/ \E s \in Sessions : on_read_end(s)
  \/ \E s \in Sessions : on_close(s)
  \/ \E S \in SUBSET Sessions : cleanup_expired_sessions(S)

ExecutorStep == Execute \/ Login \/ Answer
ResponderStep == TestFlag \/ AwaitResponse \/ ValidateResponse \/ send_response

Next ==
  \/ \E c \in Clients : Connect(c)
  \/ LoopStep \/ ExecutorStep \/ ResponderStep \/ Spurious \/ netplug_shutdown

(* The threads run; the loop runs callbacks that are due.  Nothing makes a *)
(* client connect, send or leave, or anybody call netplug_shutdown.        *)
Fairness ==
  /\ WF_vars(Execute) /\ WF_vars(Answer)
  /\ WF_vars(ResponderStep)
  /\ WF_vars(on_connection) /\ \A c \in Clients : WF_vars(on_connection_accept(c))
  /\ \A s \in Sessions : WF_vars(on_close(s))
  /\ WF_vars(ShutDownCommands \/ ShutDownResponses \/ JoinResponder \/ Release)

Spec == Init /\ [][Next]_vars /\ Fairness
-----------------------------------------------------------------------------
(* Properties *)

(* Every variable keeps its type. *)
TypeOK ==
  /\ state \in [Sessions -> {"IDLE", "USING", "ALIVE"}]
  /\ idle_sessions \in Seq(Sessions)
  /\ session_id \in [Sessions -> Ids \cup {merr}]
  /\ user_id \in [Sessions -> UserIds \cup {RootUid, NoUser}]
  /\ backlog \in [Sessions -> 0 .. MaxSent]
  /\ conn \in [Sessions -> Clients \cup {NoClient}]
  /\ closing \subseteq Sessions
  /\ accepting \in Sessions \cup {NoSession} /\ listening \in BOOLEAN
  /\ client \in [Clients -> {"new", "queued", "open", "expired", "gone"}]
  /\ sent \in [Clients -> 0 .. MaxSent]
  /\ sid_bitmap \subseteq Ids
  /\ list \in [Queues -> Seq(Message)]
  /\ shutdown \in [Queues -> BOOLEAN] /\ sleeping \in [Queues -> SUBSET Threads]
  /\ executing \in Message \cup {Nothing} /\ resp \in Message \cup {Nothing}
  /\ responder \in {"test", "dequeue", "validate", "send", "ended"}
  /\ stage \in {"running", "flagged", "commands shut", "responses shut", "closing", "down"}
  /\ answered \in [Clients -> Seq(Packet)] /\ lost \subseteq Packet
  /\ logged_in \subseteq Clients

(* The stack holds every idle session once and no other, so no session is  *)
(* given to two connections and none is lost, although free_session only   *)
(* tests that the stack is not full; a session has a socket exactly while  *)
(* it is alive, and no socket is in two sessions.                          *)
PoolExact ==
  /\ \A i, j \in DOMAIN idle_sessions : idle_sessions[i] = idle_sessions[j] => i = j
  /\ \A s \in Sessions :
       state[s] = "IDLE" <=> \E i \in DOMAIN idle_sessions : idle_sessions[i] = s
  /\ \A s \in Sessions : state[s] = "USING" <=> s = accepting
  /\ \A s \in Sessions : state[s] = "ALIVE" <=> conn[s] # NoClient
  /\ \A s \in closing : state[s] = "ALIVE"
  /\ \A s, t \in Sessions : conn[s] = conn[t] /\ conn[s] # NoClient => s = t

(* While ids last, two live sessions have different ids, on which          *)
(* auth_session relies when it takes the first match.                      *)
SidsDistinct ==
  \A s, t \in Sessions :
    (state[s] = "ALIVE" /\ state[t] = "ALIVE" /\ session_id[s] = session_id[t])
      => s = t \/ session_id[s] = merr

(* A connection that takes over a used session starts unauthenticated: a   *)
(* live session has a user only after auth_session hit that connection.    *)
NoInheritedLogin ==
  \A s \in Sessions :
    state[s] = "ALIVE" /\ user_id[s] # NoUser => conn[s] \in logged_in

(* The packets of client c on their way, the foremost first, from the      *)
(* response thread's hands back to the command queue.                      *)
InHand(m) == IF m = Nothing THEN <<>> ELSE <<m>>
Under(c, packets) == Only(packets, {c} \X (1 .. MaxSent))
PacketsOf(messages) == [i \in DOMAIN messages |-> messages[i].packet]
InTransit(c) ==
  Under(c, PacketsOf(InHand(resp) \o list["response"] \o InHand(executing) \o list["command"]))

(* While a connection is open, each packet handled for it is answered once *)
(* and in order, or on its way once and in order, or was lost because it   *)
(* did not unpack or memory ran out: through two queues and three threads  *)
(* nothing else is skipped, repeated or overtaken.                         *)
EveryPacketOnce ==
  \A s \in Sessions : Connected(s) =>
    LET c == conn[s]
        upTo == [k \in 1 .. sent[c] - backlog[s] |-> <<c, k>>]
    IN Under(c, answered[c]) \o InTransit(c) = Only(upTo, Packet \ lost)

(* No thread sleeps on a queue that has an entry or is shut down: no       *)
(* wake-up is lost.                                                        *)
NoSleepOverWork ==
  \A q \in Queues : sleeping[q] # {} => list[q] = <<>> /\ ~shutdown[q]

(* A command that was queued does not stay on its way for ever: it is      *)
(* answered, its answer dropped with its session, or the server goes down. *)
OnItsWay(p) == \E i \in DOMAIN InTransit(p[1]) : InTransit(p[1])[i] = p
CommandsLeave == \A p \in Packet : OnItsWay(p) ~> (~OnItsWay(p) \/ stage = "down")

(* netplug_shutdown ends: the response thread, wherever it is when the     *)
(* flag is raised, sees it and can be joined.                              *)
ShutdownCompletes == stage = "flagged" ~> stage = "down"

(* A response is written to the connection whose command it answers: the   *)
(* response thread cleans up the ones whose session is no longer valid     *)
(* (netplug.c:743).                                                        *)
AnswersReachAsker ==
  \A c \in Clients : \A i \in DOMAIN answered[c] : answered[c][i][1] = c

(* The limit on packets per call spreads them over several calls           *)
(* (netplug.c:640): no session is closed for silence while packets it      *)
(* received are not handled.                                               *)
NoPacketAbandoned ==
  \A s \in closing : client[conn[s]] = "expired" => backlog[s] = 0
==============================================================================
