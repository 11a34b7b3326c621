------------------------------ MODULE Session ------------------------------
(***************************************************************************)
(* A remote agent's connection to the hub: the per-connection server state *)
(* machine (transport-ws Session), the RemoteAgentParticipant it registers *)
(* and its pending calls, the admission gate, and the client library that  *)
(* connects, serves tasks and reconnects (sdk-node SessionImpl).           *)
(*                                                                         *)
(* Every client declares the same agent id (an agent started twice, or     *)
(* connected again): the agents of one HELLO are registered together or    *)
(* not at all, so one id stands for the list.  Its API key is accepted.    *)
(*                                                                         *)
(* Each end of a connection learns that the other is gone on its own time. *)
(* Frames arrive in order while the connection lasts; a reset or a silent  *)
(* cut loses what is on the wire, and a silent cut is noticed only by an   *)
(* end that writes.  Frames that change no modelled state (MESSAGE, CANCEL,*)
(* the GOODBYE and ERROR answers, SERVICE_CALL) are left out.              *)
(***************************************************************************)
EXTENDS Naturals, Sequences, FiniteSets

CONSTANTS
  Client,        \* SessionImpl instances: one per connect() call
  Conn,          \* connections, each used once
  Task,          \* tasks the hub dispatches to the agent
  NoConn, NoClient,
  MaxMissed,     \* MAX_MISSED_PINGS
  Slow,          \* connections whose `authenticate' hook is asynchronous
  Gated,         \* gating: 'admin-approval'
  Cuts,          \* how a connection may be lost: "reset", "silent"
  MaxCut,        \* bound on the connections that are lost
  Prompt         \* the server hears of a lost connection before the client
                 \* has waited out its back-off

ASSUME SessionAssumption ==
  /\ NoConn \notin Conn /\ NoClient \notin Client
  /\ MaxMissed \in Nat /\ MaxCut \in Nat
  /\ Slow \subseteq Conn /\ Gated \in BOOLEAN /\ Prompt \in BOOLEAN
  /\ Cuts \subseteq {"reset", "silent"}

VARIABLES
  sess,        \* the server session's state, by connection
  authing,     \* sessions that await `authenticate'
  app,         \* the session's admission application
  hosts,       \* sessions whose participants map holds the agent
  missed,      \* missedPings
  registered,  \* the session whose participant holds the agent's id
  task,        \* what the dispatch of each task has come to
  at,          \* the session whose participant has the task pending
  open,        \* connections whose server end is open
  lost,        \* how the connection was cut, if it was
  poked,       \* connections cut silently with client writes unacknowledged
  toServer, toClient,  \* frames on the wire
  owner,       \* the client that opened the connection
  cstate,      \* SessionImpl.state
  ws,          \* the client's socket
  waiter,      \* the promise connect() returned
  closedBy,    \* why the client stopped (closeRequested), for the properties
  working      \* tasks the client's agent is handling

server == <<sess, authing, app, hosts, missed>>
hub    == <<registered, task, at>>
wire   == <<open, lost, poked, toServer, toClient, owner>>
client == <<cstate, ws, waiter, closedBy, working>>
vars   == <<server, hub, wire, client>>

Frame == [type : {"HELLO", "GOODBYE", "PONG"}] \cup [type : {"RESULT"}, task : Task]
           \cup [type : {"WELCOME", "REJECT", "PING"}]
           \cup [type : {"TASK"}, task : Task]

TypeOK ==
  /\ sess \in [Conn -> {"NONE", "AWAIT_HELLO", "AWAIT_APPROVAL", "READY",
                        "CLOSING", "DEAD"}]
  /\ authing \in SUBSET Conn
  /\ app \in [Conn -> {"none", "pending", "approved", "rejected"}]
  /\ hosts \in SUBSET Conn
  /\ missed \in [Conn -> 0..MaxMissed]
  /\ registered \in Conn \cup {NoConn}
  /\ task \in [Task -> {"new", "flight", "ok", "failed", "cancelled"}]
  /\ at \in [Task -> Conn \cup {NoConn}]
  /\ open \in SUBSET Conn
  /\ lost \in [Conn -> {"no", "reset", "silent"}]
  /\ poked \in SUBSET Conn
  /\ toServer \in [Conn -> Seq(Frame)] /\ toClient \in [Conn -> Seq(Frame)]
  /\ owner \in [Conn -> Client \cup {NoClient}]
  /\ cstate \in [Client -> {"connecting", "ready", "reconnecting", "closed"}]
  /\ ws \in [Client -> Conn \cup {NoConn}]
  /\ waiter \in [Client -> {"waiting", "resolved", "rejected"}]
  /\ closedBy \in [Client -> {"nobody", "user", "timeout", "reject"}]
  /\ working \in [Client -> SUBSET Task]

Init ==
  /\ sess = [c \in Conn |-> "NONE"] /\ authing = {} /\ hosts = {}
  /\ app = [c \in Conn |-> "none"]
  /\ missed = [c \in Conn |-> 0]
  /\ registered = NoConn
  /\ task = [t \in Task |-> "new"] /\ at = [t \in Task |-> NoConn]
  /\ open = {} /\ lost = [c \in Conn |-> "no"] /\ poked = {}
  /\ toServer = [c \in Conn |-> <<>>] /\ toClient = [c \in Conn |-> <<>>]
  /\ owner = [c \in Conn |-> NoClient]
  /\ cstate = [k \in Client |-> "connecting"]
  /\ ws = [k \in Client |-> NoConn]
  /\ waiter = [k \in Client |-> "waiting"]
  /\ closedBy = [k \in Client |-> "nobody"]
  /\ working = [k \in Client |-> {}]

-----------------------------------------------------------------------------
(* The wire                                                                *)

Sig(type) == [type |-> type]
For(type, t) == [type |-> type, task |-> t]

ClientEnd(c) == owner[c] # NoClient /\ ws[owner[c]] = c
Alive(c) == c \in open /\ ClientEnd(c) /\ lost[c] = "no"

(* A write into a socket that is not open, or cut, is dropped silently.    *)
ToClient(c, f) ==
  IF Alive(c) THEN [toClient EXCEPT ![c] = Append(@, f)] ELSE toClient
ToServer(c, f) ==
  IF Alive(c) THEN [toServer EXCEPT ![c] = Append(@, f)] ELSE toServer

Cut(c, how) ==
  /\ sess[c] # "NONE" /\ lost[c] = "no" /\ (c \in open \/ ClientEnd(c))
  /\ Cardinality({d \in Conn : lost[d] # "no"}) < MaxCut
  /\ lost' = [lost EXCEPT ![c] = how]
  /\ toServer' = [toServer EXCEPT ![c] = <<>>]
  /\ toClient' = [toClient EXCEPT ![c] = <<>>]
  /\ poked' = IF how = "silent" /\ toServer[c] # <<>> THEN poked \cup {c} ELSE poked
  /\ UNCHANGED <<server, hub, open, owner, client>>

(* The server reads frames until its end is closed.                        *)
Reads(c, f) ==
  /\ c \in open /\ toServer[c] # <<>> /\ Head(toServer[c]) = f
  /\ toServer' = [toServer EXCEPT ![c] = Tail(@)]

-----------------------------------------------------------------------------
(* The server session                                                      *)

Pending(c) == {t \in Task : at[t] = c}

(* Mutant: the calls that were pending are forgotten.                      *)
FailAllPending_Not(c) == task' = task

FailAllPending(c) ==
  task' = [t \in Task |-> IF t \in Pending(c) THEN "failed" ELSE task[t]]

(* Mutant: the agent stays in the registry.                                *)
Unregister_Not(c) == registered' = registered

(* hub.unregister goes by id, whoever holds it.                            *)
Unregister(c) == registered' = IF c \in hosts THEN NoConn ELSE registered

(* terminate() and cleanup(), or the close event of the socket.            *)
Cleanup(c) ==
  /\ sess' = [sess EXCEPT ![c] = "DEAD"]
  /\ open' = open \ {c}
  /\ hosts' = hosts \ {c}
  /\ FailAllPending(c)
  /\ at' = [t \in Task |-> IF t \in Pending(c) THEN NoConn ELSE at[t]]
  /\ Unregister(c)

(* Mutant: the application stays before the administrator.                 *)
Withdraw_Not(c) == app' = app

(* cleanup() takes back the application nobody has decided.                *)
Withdraw(c) ==
  app' = [app EXCEPT ![c] = IF @ = "pending" THEN "rejected" ELSE @]

(* sendReject() and terminate(); terminate() leaves a DEAD session alone.  *)
Refuse(c) ==
  /\ toClient' = ToClient(c, Sig("REJECT"))
  /\ IF sess[c] = "DEAD" THEN UNCHANGED <<sess, open, hosts, hub>>
                         ELSE Cleanup(c)

(* Mutant: the registry is not asked.                                      *)
Taken_Unasked(c) == FALSE

Taken(c) == registered # NoConn

(* The end of handleHello: register the agents, or refuse them all.        *)
Register(c) ==
  \/ /\ ~Taken(c)
     /\ registered' = c
     /\ hosts' = hosts \cup {c}
     /\ sess' = [sess EXCEPT ![c] = "READY"]
     /\ toClient' = ToClient(c, Sig("WELCOME"))
     /\ UNCHANGED <<task, at, open>>
  \/ Taken(c) /\ Refuse(c)

(* handleHello after the key: ask for admission, or register at once.      *)
Admit(c) ==
  \/ /\ Gated
     /\ sess' = [sess EXCEPT ![c] = "AWAIT_APPROVAL"]
     /\ app' = [app EXCEPT ![c] = "pending"]
     /\ UNCHANGED <<hosts, hub, open, toClient>>
  \/ ~Gated /\ Register(c) /\ UNCHANGED app

HelloArrives(c) ==
  /\ sess[c] = "AWAIT_HELLO" /\ c \notin authing
  /\ Reads(c, Sig("HELLO"))
  /\ \/ /\ c \in Slow
        /\ authing' = authing \cup {c}
        /\ UNCHANGED <<sess, app, hosts, hub, open, toClient>>
     \/ c \notin Slow /\ Admit(c) /\ UNCHANGED authing
  /\ UNCHANGED <<missed, lost, poked, owner, client>>

(* The state is not looked at again after the await.                       *)
AuthReturns(c) ==
  /\ c \in authing
  /\ authing' = authing \ {c}
  /\ Admit(c)
  /\ UNCHANGED <<missed, lost, poked, toServer, owner, client>>

(* Any other frame before the HELLO has been dealt with; or none for       *)
(* HELLO_TIMEOUT_MS, which a working connection does not take.             *)
BadHello(c) ==
  /\ sess[c] = "AWAIT_HELLO" /\ c \in open
  /\ \/ toServer[c] # <<>> /\ Head(toServer[c]).type # "HELLO"
     \/ c \notin authing /\ ~Alive(c) /\ toServer[c] = <<>>
  /\ Refuse(c) /\ Withdraw(c)
  /\ toServer' = [toServer EXCEPT ![c] = <<>>]
  /\ UNCHANGED <<authing, missed, lost, poked, owner, client>>

(* The decision resumes handleHello in the same turn.                      *)
Approve(c) ==
  /\ app[c] = "pending"
  /\ app' = [app EXCEPT ![c] = "approved"]
  /\ Register(c)
  /\ UNCHANGED <<authing, missed, lost, poked, toServer, owner, client>>

(* The administrator says no, or nothing for AWAIT_APPROVAL_TIMEOUT_MS.    *)
Reject(c) ==
  /\ app[c] = "pending"
  /\ Refuse(c) /\ Withdraw(c)
  /\ UNCHANGED <<authing, missed, lost, poked, toServer, owner, client>>

(* RESULT: the session's participants are asked for the pending call; a    *)
(* result nobody waits for is answered with an ERROR.                      *)
ResultArrives(c, t) ==
  /\ sess[c] = "READY"
  /\ Reads(c, For("RESULT", t))
  /\ IF at[t] = c
     THEN /\ task' = [task EXCEPT ![t] = "ok"]
          /\ at' = [at EXCEPT ![t] = NoConn]
     ELSE UNCHANGED <<task, at>>
  /\ UNCHANGED <<server, registered, open, lost, poked, toClient, owner, client>>

PongArrives(c) ==
  /\ sess[c] = "READY"
  /\ Reads(c, Sig("PONG"))
  /\ missed' = [missed EXCEPT ![c] = 0]
  /\ UNCHANGED <<sess, authing, app, hosts, hub, open, lost, poked, toClient,
                 owner, client>>

GoodbyeArrives(c) ==
  /\ sess[c] = "READY"
  /\ Reads(c, Sig("GOODBYE"))
  /\ sess' = [sess EXCEPT ![c] = "CLOSING"]
  /\ UNCHANGED <<authing, app, hosts, missed, hub, open, lost, poked,
                 toClient, owner, client>>

(* Whatever comes while the session waits for approval or is closing.      *)
IgnoresFrame(c) ==
  /\ sess[c] \in {"AWAIT_APPROVAL", "CLOSING"}
  /\ c \in open /\ toServer[c] # <<>>
  /\ toServer' = [toServer EXCEPT ![c] = Tail(@)]
  /\ UNCHANGED <<server, hub, open, lost, poked, toClient, owner, client>>

Terminate(c) ==
  /\ Cleanup(c) /\ Withdraw(c)
  /\ toServer' = [toServer EXCEPT ![c] = <<>>]
  /\ UNCHANGED <<authing, missed, lost, poked, toClient, owner, client>>

(* The 100 ms after a GOODBYE are over.                                    *)
GoodbyeOver(c) == sess[c] = "CLOSING" /\ Terminate(c)

(* The socket's close event, after all that was sent before it; a silent   *)
(* cut gives none.                                                         *)
ServerHears(c) ==
  /\ c \in open /\ toServer[c] = <<>>
  /\ lost[c] = "reset" \/ (lost[c] = "no" /\ ~ClientEnd(c))
  /\ Terminate(c)

(* A tick of the heartbeat.  On a connection that works the PONG is back   *)
(* before the next tick.                                                   *)
PingUnderWay(c) ==
  \/ \E i \in DOMAIN toClient[c] : toClient[c][i].type = "PING"
  \/ \E i \in DOMAIN toServer[c] : toServer[c][i].type = "PONG"

(* Mutant: the timer is gone once the count is full.                       *)
Heartbeat_Stops(c) ==
  /\ sess[c] = "READY" /\ ~(Alive(c) /\ PingUnderWay(c))
  /\ missed[c] < MaxMissed
  /\ missed' = [missed EXCEPT ![c] = @ + 1]
  /\ toClient' = ToClient(c, Sig("PING"))
  /\ UNCHANGED <<sess, authing, app, hosts, hub, open, lost, poked,
                 toServer, owner, client>>

Heartbeat(c) ==
  /\ sess[c] = "READY" /\ ~(Alive(c) /\ PingUnderWay(c))
  /\ \/ missed[c] >= MaxMissed /\ Terminate(c)
     \/ /\ missed[c] < MaxMissed
        /\ missed' = [missed EXCEPT ![c] = @ + 1]
        /\ toClient' = ToClient(c, Sig("PING"))
        /\ UNCHANGED <<sess, authing, app, hosts, hub, open, lost, poked,
                       toServer, owner, client>>

-----------------------------------------------------------------------------
(* The hub: RemoteAgentParticipant.onTask and onTaskCancelled              *)

Dispatch(t) ==
  /\ task[t] = "new" /\ registered # NoConn
  /\ task' = [task EXCEPT ![t] = "flight"]
  /\ at' = [at EXCEPT ![t] = registered]
  /\ toClient' = ToClient(registered, For("TASK", t))
  /\ UNCHANGED <<server, registered, open, lost, poked, toServer, owner, client>>

(* Another candidate of a broadcast has won.                               *)
Cancel(t) ==
  /\ at[t] # NoConn
  /\ task' = [task EXCEPT ![t] = "cancelled"]
  /\ at' = [at EXCEPT ![t] = NoConn]
  /\ UNCHANGED <<server, registered, wire, client>>

-----------------------------------------------------------------------------
(* The client                                                              *)

(* The back-off is over and the socket opens: HELLO.                       *)
Connect(k, c) ==
  /\ cstate[k] = "connecting" /\ ws[k] = NoConn
  /\ sess[c] = "NONE"
  /\ Prompt => \A d \in open : owner[d] # k
  /\ sess' = [sess EXCEPT ![c] = "AWAIT_HELLO"]
  /\ open' = open \cup {c}
  /\ owner' = [owner EXCEPT ![c] = k]
  /\ ws' = [ws EXCEPT ![k] = c]
  /\ toServer' = [toServer EXCEPT ![c] = <<Sig("HELLO")>>]
  /\ UNCHANGED <<authing, app, hosts, missed, hub, lost, poked, toClient,
                 cstate, waiter, closedBy, working>>

(* The promise of connect(), settled while it is still waited for.         *)
Wakes(k, with) ==
  waiter' = [waiter EXCEPT ![k] = IF @ = "waiting" THEN with ELSE @]

(* The socket does not open: its error rejects connect(), its close event  *)
(* goes on to reconnect.                                                   *)
ConnectFails(k) ==
  /\ cstate[k] = "connecting" /\ ws[k] = NoConn
  /\ Wakes(k, "rejected")
  /\ cstate' = [cstate EXCEPT ![k] = "reconnecting"]
  /\ UNCHANGED <<server, hub, wire, ws, closedBy, working>>

(* The back-off timer.                                                     *)
BackoffOver(k) ==
  /\ cstate[k] = "reconnecting"
  /\ cstate' = [cstate EXCEPT ![k] = "connecting"]
  /\ UNCHANGED <<server, hub, wire, ws, waiter, closedBy, working>>

(* handleDisconnect; an error event comes before the close event of a      *)
(* connection that was reset.                                              *)
ClientHears(k) ==
  LET c == ws[k] IN
  /\ c # NoConn /\ toClient[c] = <<>>
  /\ \/ lost[c] = "no" /\ c \notin open
     \/ lost[c] = "reset"
     \/ lost[c] = "silent" /\ c \in poked
  /\ ws' = [ws EXCEPT ![k] = NoConn]
  /\ cstate' = [cstate EXCEPT ![k] = "reconnecting"]
  /\ IF cstate[k] = "connecting" /\ lost[c] # "no" THEN Wakes(k, "rejected")
                                                  ELSE UNCHANGED waiter
  /\ UNCHANGED <<server, hub, wire, closedBy, working>>

(* The client's next frame.                                                *)
Gets(k, f) ==
  /\ ws[k] # NoConn /\ toClient[ws[k]] # <<>> /\ Head(toClient[ws[k]]) = f
  /\ toClient' = [toClient EXCEPT ![ws[k]] = Tail(@)]

Welcomed(k) ==
  /\ Gets(k, Sig("WELCOME"))
  /\ cstate' = [cstate EXCEPT ![k] = "ready"]
  /\ Wakes(k, "resolved")
  /\ UNCHANGED <<server, hub, open, lost, poked, toServer, owner, ws,
                 closedBy, working>>

(* The client closes its end and does not come back.                       *)
Stops(k, why) ==
  /\ cstate' = [cstate EXCEPT ![k] = "closed"]
  /\ closedBy' = [closedBy EXCEPT ![k] = why]
  /\ ws' = [ws EXCEPT ![k] = NoConn]

Rejected(k) ==
  /\ Gets(k, Sig("REJECT"))
  /\ Stops(k, "reject") /\ Wakes(k, "rejected")
  /\ UNCHANGED <<server, hub, open, lost, poked, toServer, owner, working>>

(* connectTimeoutMs without a WELCOME.                                     *)
ConnectTimeout(k) ==
  /\ waiter[k] = "waiting" /\ cstate[k] # "closed"
  /\ Stops(k, "timeout") /\ Wakes(k, "rejected")
  /\ toClient' = IF ws[k] = NoConn THEN toClient
                 ELSE [toClient EXCEPT ![ws[k]] = <<>>]
  /\ UNCHANGED <<server, hub, open, lost, poked, toServer, owner, working>>

(* session.close(), which the caller has once connect() has returned.      *)
UserCloses(k) ==
  /\ waiter[k] = "resolved" /\ cstate[k] # "closed"
  /\ Stops(k, "user")
  /\ IF ws[k] = NoConn THEN UNCHANGED <<toServer, toClient>>
     ELSE /\ toServer' = ToServer(ws[k], Sig("GOODBYE"))
          /\ toClient' = [toClient EXCEPT ![ws[k]] = <<>>]
  /\ UNCHANGED <<server, hub, open, lost, poked, owner, waiter, working>>

(* Writing into a silently cut connection is how the client finds out.     *)
ClientWrites(k, f) ==
  LET c == ws[k] IN
  IF c = NoConn THEN UNCHANGED <<toServer, poked>>
  ELSE /\ toServer' = ToServer(c, f)
       /\ poked' = IF lost[c] = "silent" THEN poked \cup {c} ELSE poked

Pinged(k) ==
  /\ Gets(k, Sig("PING"))
  /\ ClientWrites(k, Sig("PONG"))
  /\ UNCHANGED <<server, hub, open, lost, owner, client>>

TaskArrives(k, t) ==
  /\ Gets(k, For("TASK", t))
  /\ working' = [working EXCEPT ![k] = @ \cup {t}]
  /\ UNCHANGED <<server, hub, open, lost, poked, toServer, owner, cstate, ws,
                 waiter, closedBy>>

(* The handler returns: RESULT, on whatever socket is there now.           *)
TaskReturns(k, t) ==
  /\ t \in working[k]
  /\ working' = [working EXCEPT ![k] = @ \ {t}]
  /\ ClientWrites(k, For("RESULT", t))
  /\ UNCHANGED <<server, hub, open, lost, toClient, owner, cstate, ws, waiter,
                 closedBy>>

-----------------------------------------------------------------------------
Serves(c) ==
  \/ HelloArrives(c) \/ AuthReturns(c) \/ BadHello(c)
  \/ PongArrives(c) \/ GoodbyeArrives(c) \/ IgnoresFrame(c)
  \/ GoodbyeOver(c) \/ ServerHears(c)
  \/ \E t \in Task : ResultArrives(c, t)

Runs(k) ==
  \/ \E c \in Conn : Connect(k, c)
  \/ BackoffOver(k) \/ ClientHears(k)
  \/ Welcomed(k) \/ Rejected(k) \/ Pinged(k)
  \/ \E t \in Task : TaskArrives(k, t)

Next ==
  \/ \E c \in Conn : \/ Serves(c) \/ Heartbeat(c)
                     \/ Approve(c) \/ Reject(c)
                     \/ \E how \in Cuts : Cut(c, how)
  \/ \E t \in Task : Dispatch(t) \/ Cancel(t)
  \/ \E k \in Client : \/ Runs(k) \/ ConnectFails(k)
                       \/ ConnectTimeout(k) \/ UserCloses(k)
                       \/ \E t \in Task : TaskReturns(k, t)

Spec == Init /\ [][Next]_vars

(* Sockets deliver, timers fire, handlers return, and a client that keeps  *)
(* trying finds the hub reachable in the end; administrators, users and    *)
(* the network's cuts owe nothing.                                         *)
Fairness ==
  /\ \A c \in Conn : WF_vars(Serves(c)) /\ WF_vars(Heartbeat(c))
  /\ \A k \in Client :
       /\ WF_vars(Runs(k)) /\ SF_vars(\E c \in Conn : Connect(k, c))
       /\ \A t \in Task : WF_vars(TaskReturns(k, t))

FairSpec == Spec /\ Fairness

-----------------------------------------------------------------------------
(* Properties                                                              *)

(* A dispatch that awaits a remote agent awaits a call that a live session *)
(* still holds: no reconnect, cut, cancel or refusal strands it.           *)
NoStrandedTask ==
  \A t \in Task : task[t] = "flight" =>
    at[t] \in hosts /\ sess[at[t]] \in {"READY", "CLOSING"}

(* An id is hosted by one session at most, the registered one, whoever     *)
(* reconnects before whom is missed.                                       *)
HostsAgree ==
  \A c \in Conn : c \in hosts <=> registered = c

(* Hub-side cleanup when a connection drops unregisters "every participant *)
(* the connection hosted": no agent is registered on a connection whose    *)
(* close the server has handled.  A HELLO whose key is checked             *)
(* asynchronously is outside this promise: it goes on whatever has become  *)
(* of its connection.                                                      *)
NoGhostAgent == registered \notin Slow \cup {NoConn} => registered \in open

(* An application the administrator is shown belongs to a connection the   *)
(* server still holds and has not let in, with the same reservation:       *)
(* whichever of decision, time-out and departure comes first settles it,   *)
(* and the later ones find nothing to decide.                              *)
ApplicationIsLive ==
  \A c \in Conn : app[c] = "pending" => c \in open \cup Slow /\ c \notin hosts

(* With admission gating nobody serves who was not approved.               *)
ServesApproved ==
  Gated /\ registered # NoConn => app[registered] = "approved"

(* The registry, the sessions, the sockets and the administrator's         *)
(* decisions agree about who serves, whichever end notices a loss first.   *)
RegistryAgrees == HostsAgree /\ NoGhostAgent /\ ServesApproved

(* Every call to a remote agent comes back: with its result, or because    *)
(* its connection is found dead.                                           *)
CallComesBack == \A t \in Task : task[t] = "flight" ~> task[t] # "flight"

(* A client that was connected and was not closed comes back: again and    *)
(* again it is ready on a connection that works.  One whose link falls     *)
(* silent while it has nothing to send never learns of it.                 *)
Serving(k) ==
  /\ cstate[k] = "ready" /\ ws[k] # NoConn
  /\ registered = ws[k] /\ lost[ws[k]] = "no"
Stranded(k) == ws[k] # NoConn /\ lost[ws[k]] = "silent" /\ ws[k] \notin poked

ClientComesBack ==
  \A k \in Client :
    waiter[k] = "resolved" ~> (Serving(k) \/ Stranded(k) \/ closedBy[k] = "user")
=============================================================================
