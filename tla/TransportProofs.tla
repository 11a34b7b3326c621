-------------------------- MODULE TransportProofs --------------------------
(***************************************************************************)
(* Proofs about the two components of the WebSocket transport.             *)
(*                                                                         *)
(* Session, for any number of clients, connections and calls, any way of   *)
(* losing connections, with and without admission.  What is on the wire    *)
(* and in the clients does not matter to them: the server may read any     *)
(* frame at any time and still keeps its books.                            *)
(*                                                                         *)
(* Peering, for any number of connections between two hubs and any number  *)
(* of edits, losses and crashes.  Here the wire matters: what an end may   *)
(* still have to read tells how far its handshake is.                      *)
(***************************************************************************)
EXTENDS Session, Peering, TLAPS, FiniteSetTheorems

ServerTypeOK ==
  /\ sess \in [Conn -> {"NONE", "AWAIT_HELLO", "AWAIT_APPROVAL", "READY",
                        "CLOSING", "DEAD"}]
  /\ authing \in SUBSET Slow
  /\ app \in [Conn -> {"none", "pending", "approved", "rejected"}]
  /\ hosts \in SUBSET Conn
  /\ registered \in Conn \cup {NoConn}
  /\ task \in [Task -> {"new", "flight", "ok", "failed", "cancelled"}]
  /\ at \in [Task -> Conn \cup {NoConn}]

(* The state of a session tells what it may hold.                          *)
HostsServe   == \A c \in hosts : sess[c] \in {"READY", "CLOSING"}
AuthingWaits == \A c \in authing : sess[c] \in {"AWAIT_HELLO", "DEAD"}
PendingWaits == \A c \in Conn : app[c] = "pending" => sess[c] = "AWAIT_APPROVAL"

CallsAreHeld  == \A t \in Task : task[t] = "flight" => at[t] \in hosts
HostsApproved == Gated => \A c \in hosts : app[c] = "approved"
HeldIsOpen ==
  \A c \in Conn \ Slow : c \in hosts \/ app[c] = "pending" => c \in open

IInv ==
  /\ ServerTypeOK /\ HostsAgree
  /\ HostsServe /\ AuthingWaits /\ PendingWaits
  /\ CallsAreHeld /\ HostsApproved /\ HeldIsOpen

(* The variables IInv speaks of.                                           *)
books == <<sess, authing, app, hosts, registered, task, at, open>>

-----------------------------------------------------------------------------
(* The server starts with empty books.                                     *)
LEMMA InitIInv == Init => IInv
<1> SUFFICES ASSUME Init PROVE IInv
  OBVIOUS
<1>1. ServerTypeOK
  BY DEF Init, ServerTypeOK
<1>2. HostsAgree
  BY SessionAssumption DEF Init, HostsAgree
<1>3. HostsServe /\ AuthingWaits /\ PendingWaits
  BY DEF Init, HostsServe, AuthingWaits, PendingWaits
<1>4. CallsAreHeld /\ HostsApproved /\ HeldIsOpen
  BY DEF Init, CallsAreHeld, HostsApproved, HeldIsOpen
<1> QED
  BY <1>1, <1>2, <1>3, <1>4 DEF IInv

(* Tear-down of a session: it holds nothing afterwards, whatever state it  *)
(* was in, provided its application is withdrawn or was not pending.       *)
LEMMA CleanupKeeps ==
  ASSUME IInv, NEW c \in Conn, Cleanup(c),
         app' \in [Conn -> {"none", "pending", "approved", "rejected"}],
         app'[c] # "pending",
         \A d \in Conn \ {c} : app'[d] = app[d],
         authing' \subseteq authing
  PROVE  IInv'
<1> USE DEF IInv, ServerTypeOK, Cleanup, Pending
<1>1. /\ sess' = [sess EXCEPT ![c] = "DEAD"] /\ open' = open \ {c}
      /\ hosts' = hosts \ {c}
      /\ registered' = IF c \in hosts THEN NoConn ELSE registered
  BY DEF Unregister
<1>2. /\ \A t \in Task : task'[t] = IF at[t] = c THEN "failed" ELSE task[t]
      /\ \A t \in Task : at'[t] = IF at[t] = c THEN NoConn ELSE at[t]
  BY DEF FailAllPending
<1>3. ServerTypeOK'
  <2>1. task' \in [Task -> {"new", "flight", "ok", "failed", "cancelled"}]
    BY DEF FailAllPending
  <2>2. at' \in [Task -> Conn \cup {NoConn}]
    OBVIOUS
  <2> QED
    BY <1>1, <2>1, <2>2
<1>4. HostsAgree'
  BY <1>1, SessionAssumption DEF HostsAgree
<1>5. HostsServe' /\ AuthingWaits' /\ PendingWaits'
  BY <1>1, SessionAssumption DEF HostsServe, AuthingWaits, PendingWaits
<1>6. CallsAreHeld'
  BY <1>1, <1>2 DEF CallsAreHeld
<1>7. HostsApproved' /\ HeldIsOpen'
  BY <1>1 DEF HostsApproved, HeldIsOpen
<1> QED
  BY <1>3, <1>4, <1>5, <1>6, <1>7

-----------------------------------------------------------------------------
(* The end of a HELLO, on a session that serves nobody yet.                *)
LEMMA RegisterKeeps ==
  ASSUME IInv, NEW c \in Conn, Register(c),
         c \notin hosts,
         app' \in [Conn -> {"none", "pending", "approved", "rejected"}],
         app'[c] # "pending",
         Gated => app'[c] = "approved",
         \A d \in Conn \ {c} : app'[d] = app[d],
         authing' \subseteq authing \ {c},
         c \in open \cup Slow
  PROVE  IInv'
<1>1. CASE Taken(c) /\ Refuse(c) /\ sess[c] # "DEAD"
  BY <1>1, CleanupKeeps DEF Refuse
<1>2. CASE Taken(c) /\ Refuse(c) /\ sess[c] = "DEAD"
  <2> USE <1>2 DEF IInv, Refuse, hub
  <2>1. ServerTypeOK'
    BY DEF ServerTypeOK
  <2>2. HostsAgree' /\ HostsServe' /\ CallsAreHeld'
    BY DEF HostsAgree, HostsServe, CallsAreHeld
  <2>3. AuthingWaits' /\ PendingWaits'
    BY DEF AuthingWaits, PendingWaits
  <2>4. HostsApproved' /\ HeldIsOpen'
    BY DEF HostsApproved, HeldIsOpen, ServerTypeOK
  <2> QED
    BY <2>1, <2>2, <2>3, <2>4
<1>3. CASE /\ ~Taken(c) /\ registered' = c /\ hosts' = hosts \cup {c}
           /\ sess' = [sess EXCEPT ![c] = "READY"]
           /\ UNCHANGED <<task, at, open>>
  <2> USE <1>3 DEF IInv
  <2>1. ServerTypeOK'
    BY DEF ServerTypeOK
  <2>2. HostsAgree'
    BY SessionAssumption DEF HostsAgree, Taken, ServerTypeOK
  <2>3. HostsServe' /\ AuthingWaits' /\ PendingWaits'
    BY SessionAssumption DEF HostsServe, AuthingWaits, PendingWaits, ServerTypeOK
  <2>4. CallsAreHeld' /\ HostsApproved' /\ HeldIsOpen'
    BY DEF CallsAreHeld, HostsApproved, HeldIsOpen, ServerTypeOK
  <2> QED
    BY <2>1, <2>2, <2>3, <2>4
<1> QED
  BY <1>1, <1>2, <1>3 DEF Register

-----------------------------------------------------------------------------
(* The handlers of the server                                              *)

(* After the key: the application is filed, or the HELLO ends at once.     *)
LEMMA AdmitKeeps ==
  ASSUME IInv, NEW c \in Conn, Admit(c),
         c \in open \cup Slow, c \notin hosts, app[c] # "pending",
         authing' \subseteq authing \ {c}
  PROVE  IInv'
<1>1. CASE ~Gated /\ Register(c) /\ UNCHANGED app
  BY <1>1, RegisterKeeps DEF IInv, ServerTypeOK
<1>2. CASE /\ Gated
           /\ sess' = [sess EXCEPT ![c] = "AWAIT_APPROVAL"]
           /\ app' = [app EXCEPT ![c] = "pending"]
           /\ UNCHANGED <<hosts, hub, open, toClient>>
  <2> USE <1>2 DEF IInv, hub
  <2>1. ServerTypeOK'
    BY DEF ServerTypeOK
  <2>2. HostsAgree' /\ HostsServe' /\ CallsAreHeld'
    BY DEF HostsAgree, HostsServe, CallsAreHeld, ServerTypeOK
  <2>3. AuthingWaits' /\ PendingWaits'
    BY SessionAssumption DEF AuthingWaits, PendingWaits, ServerTypeOK
  <2>4. HostsApproved' /\ HeldIsOpen'
    BY DEF HostsApproved, HeldIsOpen, ServerTypeOK
  <2> QED
    BY <2>1, <2>2, <2>3, <2>4
<1> QED
  BY <1>1, <1>2 DEF Admit

(* A HELLO, or the end of the check of its key, finds a session that holds *)
(* nothing yet, also when it has been cleaned up meanwhile.                *)
LEMMA HelloKeeps ==
  ASSUME IInv, NEW c \in Conn, HelloArrives(c) \/ AuthReturns(c)
  PROVE  IInv'
<1>1. CASE HelloArrives(c)
  <2>1. sess[c] = "AWAIT_HELLO" /\ c \notin authing /\ c \in open
    BY <1>1 DEF HelloArrives, Reads
  <2>2. c \notin hosts /\ app[c] # "pending"
    BY <2>1 DEF IInv, HostsServe, PendingWaits
  <2>3. CASE Admit(c) /\ UNCHANGED authing
    BY <2>1, <2>2, <2>3, AdmitKeeps
  <2>4. CASE /\ c \in Slow
             /\ authing' = authing \cup {c}
             /\ UNCHANGED <<sess, app, hosts, hub, open, toClient>>
    BY <2>1, <2>4
       DEF IInv, ServerTypeOK, HostsAgree, HostsServe, AuthingWaits,
           PendingWaits, CallsAreHeld, HostsApproved, HeldIsOpen, hub
  <2> QED
    BY <1>1, <2>3, <2>4 DEF HelloArrives
<1>2. CASE AuthReturns(c)
  <2>1. c \in Slow /\ sess[c] \in {"AWAIT_HELLO", "DEAD"}
    BY <1>2 DEF AuthReturns, IInv, ServerTypeOK, AuthingWaits
  <2>2. c \notin hosts /\ app[c] # "pending"
    BY <2>1 DEF IInv, HostsServe, PendingWaits
  <2> QED
    BY <1>2, <2>1, <2>2, AdmitKeeps DEF AuthReturns
<1> QED
  BY <1>1, <1>2

(* Withdrawing leaves no application pending.                              *)
LEMMA WithdrawSettles ==
  ASSUME IInv, NEW c \in Conn, Withdraw(c)
  PROVE  /\ app' \in [Conn -> {"none", "pending", "approved", "rejected"}]
         /\ app'[c] # "pending"
         /\ \A d \in Conn \ {c} : app'[d] = app[d]
BY DEF IInv, ServerTypeOK, Withdraw

(* The administrator's decision meets a session that still waits for it.   *)
LEMMA DecisionKeeps ==
  ASSUME IInv, NEW c \in Conn, Approve(c) \/ Reject(c)
  PROVE  IInv'
<1>1. app[c] = "pending" /\ sess[c] = "AWAIT_APPROVAL"
  BY DEF Approve, Reject, IInv, PendingWaits
<1>2. c \notin hosts /\ c \notin authing /\ c \in open \cup Slow
  BY <1>1 DEF IInv, HostsServe, AuthingWaits, HeldIsOpen
<1>3. CASE Approve(c)
  <2>1. /\ app' \in [Conn -> {"none", "pending", "approved", "rejected"}]
        /\ app'[c] = "approved"
        /\ \A d \in Conn \ {c} : app'[d] = app[d]
    BY <1>3 DEF Approve, IInv, ServerTypeOK
  <2> QED
    BY <1>2, <1>3, <2>1, RegisterKeeps DEF Approve
<1>4. CASE Reject(c)
  BY <1>1, <1>4, CleanupKeeps, WithdrawSettles DEF Reject, Refuse
<1> QED
  BY <1>3, <1>4

(* Every way a session ends: a bad frame, a goodbye, a close, the          *)
(* heartbeat.                                                              *)
LEMMA EndKeeps ==
  ASSUME IInv, NEW c \in Conn,
         \/ BadHello(c) \/ GoodbyeOver(c) \/ ServerHears(c) \/ Heartbeat(c)
  PROVE  IInv'
<1>1. CASE BadHello(c)
  BY <1>1, CleanupKeeps, WithdrawSettles DEF BadHello, Refuse
<1>2. CASE Terminate(c)
  BY <1>2, CleanupKeeps, WithdrawSettles DEF Terminate
<1>3. CASE UNCHANGED books
  BY <1>3 DEF books, IInv, ServerTypeOK, HostsAgree, HostsServe,
     AuthingWaits, PendingWaits, CallsAreHeld, HostsApproved, HeldIsOpen
<1> QED
  BY <1>1, <1>2, <1>3 DEF GoodbyeOver, ServerHears, Heartbeat, books, hub

(* A GOODBYE leaves the agent and its calls in place for 100 ms.           *)
LEMMA GoodbyeKeeps ==
  ASSUME IInv, NEW c \in Conn, GoodbyeArrives(c)
  PROVE  IInv'
BY SessionAssumption
   DEF GoodbyeArrives, hub, IInv, ServerTypeOK, HostsAgree, HostsServe,
       AuthingWaits, PendingWaits, CallsAreHeld, HostsApproved, HeldIsOpen

-----------------------------------------------------------------------------
(* A call is handed to the registered agent, and ends once.                *)
LEMMA CallKeeps ==
  ASSUME IInv, NEW t \in Task,
         Dispatch(t) \/ Cancel(t) \/ \E c \in Conn : ResultArrives(c, t)
  PROVE  IInv'
<1> USE DEF IInv, server
<1>1. CASE Dispatch(t)
  <2>1. registered \in hosts
    BY <1>1 DEF Dispatch, ServerTypeOK, HostsAgree
  <2>2. ServerTypeOK'
    BY <1>1 DEF Dispatch, ServerTypeOK
  <2>3. CallsAreHeld'
    BY <1>1, <2>1 DEF Dispatch, CallsAreHeld, ServerTypeOK
  <2> QED
    BY <1>1, <2>2, <2>3
       DEF Dispatch, HostsAgree, HostsServe, AuthingWaits, PendingWaits,
           HostsApproved, HeldIsOpen
<1>2. CASE Cancel(t) \/ \E c \in Conn : ResultArrives(c, t)
  <2> USE <1>2 DEF Cancel, ResultArrives, wire
  <2>1. ServerTypeOK'
    BY DEF ServerTypeOK
  <2>2. CallsAreHeld'
    BY DEF CallsAreHeld, ServerTypeOK
  <2> QED
    BY <2>1, <2>2
       DEF HostsAgree, HostsServe, AuthingWaits, PendingWaits,
           HostsApproved, HeldIsOpen
<1> QED
  BY <1>1, <1>2

(* A new connection: its session waits for a HELLO.                        *)
LEMMA ConnectKeeps ==
  ASSUME IInv, NEW k \in Client, NEW c \in Conn, Connect(k, c)
  PROVE  IInv'
BY DEF Connect, hub, IInv, ServerTypeOK, HostsAgree, HostsServe,
       AuthingWaits, PendingWaits, CallsAreHeld, HostsApproved, HeldIsOpen

(* Everything else happens on the wire and in the clients.                 *)
LEMMA OutsideKeeps == IInv /\ UNCHANGED books => IInv'
BY DEF books, IInv, ServerTypeOK, HostsAgree, HostsServe, AuthingWaits,
       PendingWaits, CallsAreHeld, HostsApproved, HeldIsOpen

(* The steps of the client that touch none of the books.                   *)
LEMMA OutsideSteps ==
  ASSUME NEW k \in Client,
         \/ BackoffOver(k) \/ ClientHears(k) \/ Welcomed(k) \/ Rejected(k)
         \/ Pinged(k) \/ ConnectFails(k) \/ ConnectTimeout(k) \/ UserCloses(k)
         \/ \E t \in Task : TaskArrives(k, t) \/ TaskReturns(k, t)
  PROVE  UNCHANGED books
BY DEF books, server, hub, wire, BackoffOver, ClientHears, Welcomed, Rejected,
       Pinged, ConnectFails, ConnectTimeout, UserCloses, TaskArrives, TaskReturns

(* One step of anybody.                                                    *)
LEMMA NextKeeps == IInv /\ [Next]_vars => IInv'
<1> SUFFICES ASSUME IInv, [Next]_vars PROVE IInv'
  OBVIOUS
<1>1. ASSUME NEW c \in Conn, Serves(c) PROVE IInv'
  <2>1. CASE PongArrives(c) \/ IgnoresFrame(c)
    BY <2>1, OutsideKeeps DEF PongArrives, IgnoresFrame, books, server, hub
  <2> QED
    BY <1>1, <2>1, HelloKeeps, EndKeeps, GoodbyeKeeps, CallKeeps DEF Serves
<1>2. ASSUME NEW c \in Conn, NEW how \in Cuts, Cut(c, how) PROVE IInv'
  BY <1>2, OutsideKeeps DEF Cut, books, server, hub
<1>3. ASSUME NEW k \in Client, Runs(k) \/ ConnectFails(k) \/ ConnectTimeout(k)
               \/ UserCloses(k) \/ \E t \in Task : TaskReturns(k, t)
      PROVE  IInv'
  BY <1>3, ConnectKeeps, OutsideKeeps, OutsideSteps DEF Runs
<1>4. CASE UNCHANGED vars
  BY <1>4, OutsideKeeps DEF vars, books, server, hub, wire
<1> QED
  BY <1>1, <1>2, <1>3, <1>4, EndKeeps, DecisionKeeps, CallKeeps DEF Next

(* The invariant the theorems below rest on: what the registry, the        *)
(* sessions, the applications and the pending calls say of each other.     *)
THEOREM BooksKept == Spec => []IInv
BY InitIInv, NextKeeps, PTL DEF Spec

-----------------------------------------------------------------------------
(* A call in flight is pending at an agent of a live session: cleanup fails *)
(* the calls of a session before it lets go of its agents.                  *)
THEOREM NoCallStranded == Spec => []NoStrandedTask
<1>1. IInv => NoStrandedTask
  BY DEF IInv, CallsAreHeld, HostsServe, NoStrandedTask
<1> QED
  BY <1>1, BooksKept, PTL

(* With gating: 'admin-approval' an agent that is registered was approved. *)
THEOREM OnlyApprovedServe == Spec => []ServesApproved
<1>1. IInv => ServesApproved
  BY DEF IInv, ServerTypeOK, HostsAgree, HostsApproved, ServesApproved
<1> QED
  BY <1>1, BooksKept, PTL

(* A pending application is one the administrator can still act on: its    *)
(* session is held and hosts nothing (Withdraw in cleanup), if the check   *)
(* of its key did not give up control.                                     *)
THEOREM ApplicationsAreLive == Spec => []ApplicationIsLive
<1>1. IInv => ApplicationIsLive
  BY DEF IInv, ServerTypeOK, HostsServe, PendingWaits, HeldIsOpen,
         ApplicationIsLive
<1> QED
  BY <1>1, BooksKept, PTL

(* An id is hosted by one session at most, and that is the registered one, *)
(* on a socket that is open and, with gating, of an approved application:  *)
(* through every reconnect, refusal and clean-up (handleHello, cleanup).   *)
THEOREM OneHostPerAgent == Spec => []RegistryAgrees
<1>1. IInv => HostsAgree /\ NoGhostAgent
  BY DEF IInv, ServerTypeOK, HostsAgree, HostsServe, HeldIsOpen, NoGhostAgent
<1> QED
  BY <1>1, BooksKept, OnlyApprovedServe, PTL DEF RegistryAgrees

-----------------------------------------------------------------------------
(* Types of the rest                                                       *)

Queues == [Conn -> Seq(Frame)]

WireTypeOK ==
  /\ missed \in [Conn -> 0..MaxMissed]
  /\ open \in SUBSET Conn
  /\ lost \in [Conn -> {"no", "reset", "silent"}]
  /\ poked \in SUBSET Conn
  /\ toServer \in Queues /\ toClient \in Queues

ClientTypeOK ==
  /\ owner \in [Conn -> Client \cup {NoClient}]
  /\ cstate \in [Client -> {"connecting", "ready", "reconnecting", "closed"}]
  /\ ws \in [Client -> Conn \cup {NoConn}]
  /\ waiter \in [Client -> {"waiting", "resolved", "rejected"}]
  /\ closedBy \in [Client -> {"nobody", "user", "timeout", "reject"}]
  /\ working \in [Client -> SUBSET Task]

RestTypeOK == WireTypeOK /\ ClientTypeOK

(* TypeOK in two halves: the server's books, and the rest.                 *)
LEMMA TypeOKHalves == ServerTypeOK /\ RestTypeOK => TypeOK
BY SessionAssumption DEF ServerTypeOK, RestTypeOK, WireTypeOK, ClientTypeOK, Queues, TypeOK

(* What is written is a frame.                                             *)
LEMMA FramesAreFrames ==
  /\ \A type \in {"HELLO", "GOODBYE", "PONG", "WELCOME", "REJECT", "PING"} : Sig(type) \in Frame
  /\ \A type \in {"RESULT", "TASK"}, t \in Task : For(type, t) \in Frame
BY DEF Sig, For, Frame

(* A queue stays a queue of frames when one is written, read or dropped.   *)
LEMMA QueueKeeps ==
  ASSUME NEW q \in Queues, NEW c \in Conn, NEW f \in Frame
  PROVE  /\ [q EXCEPT ![c] = Append(@, f)] \in Queues
         /\ q[c] # <<>> => [q EXCEPT ![c] = Tail(@)] \in Queues
         /\ [q EXCEPT ![c] = <<>>] \in Queues
         /\ [q EXCEPT ![c] = <<f>>] \in Queues
<1>1. q[c] \in Seq(Frame)
  BY DEF Queues
<1>2. Append(q[c], f) \in Seq(Frame) /\ <<f>> \in Seq(Frame) /\ <<>> \in Seq(Frame)
      /\ (q[c] # <<>> => Tail(q[c]) \in Seq(Frame))
  BY <1>1
<1> QED
  BY <1>2 DEF Queues

(* A write keeps the queues.                                               *)
LEMMA WritesKeep ==
  ASSUME WireTypeOK, NEW c \in Conn, NEW f \in Frame
  PROVE  ToClient(c, f) \in Queues /\ ToServer(c, f) \in Queues
BY QueueKeeps DEF WireTypeOK, ToClient, ToServer

(* So does refusing a session, whose socket may be closed.                 *)
LEMMA RefuseTypes ==
  ASSUME WireTypeOK, NEW c \in Conn, Refuse(c)
  PROVE  toClient' \in Queues /\ open' \in SUBSET Conn
<1>1. Sig("REJECT") \in Frame
  BY FramesAreFrames
<1>2. toClient' \in Queues
  BY <1>1, WritesKeep DEF Refuse
<1>3. open' = open \/ open' = open \ {c}
  BY DEF Refuse, Cleanup
<1> QED
  BY <1>2, <1>3 DEF WireTypeOK

(* And the end of a HELLO.                                                 *)
LEMMA AdmitTypes ==
  ASSUME WireTypeOK, NEW c \in Conn, Admit(c) \/ Register(c)
  PROVE  toClient' \in Queues /\ open' \in SUBSET Conn
<1>1. ASSUME toClient' = ToClient(c, Sig("WELCOME")), open' = open
      PROVE  toClient' \in Queues /\ open' \in SUBSET Conn
  <2>1. Sig("WELCOME") \in Frame
    BY FramesAreFrames
  <2> QED
    BY <1>1, <2>1, WritesKeep DEF WireTypeOK
<1>2. ASSUME UNCHANGED <<open, toClient>>
      PROVE  toClient' \in Queues /\ open' \in SUBSET Conn
  BY <1>2 DEF WireTypeOK
<1> QED
  BY <1>1, <1>2, RefuseTypes DEF Admit, Register

(* The server's steps, apart from the heartbeat.                           *)
LEMMA ServerTypes ==
  ASSUME RestTypeOK, NEW c \in Conn, Serves(c) \/ Approve(c) \/ Reject(c)
  PROVE  RestTypeOK'
<1>0. WireTypeOK /\ ClientTypeOK
  BY DEF RestTypeOK
<1>1. /\ UNCHANGED <<lost, poked, owner, client>>
      /\ missed' = missed \/ (missed' = [missed EXCEPT ![c] = 0])
  BY DEF Serves, HelloArrives, AuthReturns, BadHello, PongArrives, GoodbyeArrives, IgnoresFrame,
         GoodbyeOver, ServerHears, Terminate, ResultArrives, Approve, Reject, server
<1>2. toServer' \in Queues
  <2>1. \/ toServer' = toServer
        \/ toServer[c] # <<>> /\ toServer' = [toServer EXCEPT ![c] = Tail(@)]
        \/ toServer' = [toServer EXCEPT ![c] = <<>>]
    BY DEF Serves, HelloArrives, AuthReturns, BadHello, PongArrives, GoodbyeArrives, IgnoresFrame,
           GoodbyeOver, ServerHears, Terminate, ResultArrives, Approve, Reject, Reads
  <2>2. Sig("PING") \in Frame
    BY FramesAreFrames
  <2> QED
    BY <1>0, <2>1, <2>2, QueueKeeps DEF WireTypeOK
<1>3. toClient' \in Queues /\ open' \in SUBSET Conn
  <2>1. \/ Admit(c) \/ Register(c) \/ Refuse(c)
        \/ toClient' = toClient /\ open' \in {open, open \ {c}}
    BY DEF Serves, HelloArrives, AuthReturns, BadHello, PongArrives, GoodbyeArrives, IgnoresFrame,
           GoodbyeOver, ServerHears, Terminate, Cleanup, ResultArrives, Approve, Reject
  <2> QED
    BY <1>0, <2>1, AdmitTypes, RefuseTypes DEF WireTypeOK
<1>4. missed' \in [Conn -> 0..MaxMissed]
  BY <1>0, <1>1, SessionAssumption DEF WireTypeOK, SessionAssumption
<1>5. ClientTypeOK'
  BY <1>0, <1>1 DEF ClientTypeOK, client
<1> QED
  BY <1>0, <1>1, <1>2, <1>3, <1>4, <1>5 DEF RestTypeOK, WireTypeOK

(* The heartbeat counts up to MaxMissed.                                   *)
LEMMA HeartbeatTypes ==
  ASSUME RestTypeOK, NEW c \in Conn, Heartbeat(c)
  PROVE  RestTypeOK'
<1>0. WireTypeOK /\ ClientTypeOK /\ Sig("PING") \in Frame
  BY FramesAreFrames DEF RestTypeOK
<1>1. ClientTypeOK' /\ UNCHANGED <<lost, poked>>
  BY <1>0 DEF Heartbeat, Terminate, ClientTypeOK, client
<1>2. CASE Terminate(c)
  <2>1. toServer' \in Queues
    BY <1>0, <1>2, QueueKeeps DEF Terminate, WireTypeOK
  <2>2. open' \in SUBSET Conn
    BY <1>0, <1>2 DEF Terminate, Cleanup, WireTypeOK
  <2> QED
    BY <1>0, <1>1, <1>2, <2>1, <2>2 DEF Terminate, RestTypeOK, WireTypeOK
<1>3. CASE missed[c] < MaxMissed /\ missed' = [missed EXCEPT ![c] = @ + 1]
           /\ toClient' = ToClient(c, Sig("PING")) /\ UNCHANGED <<open, toServer>>
  <2>1. missed' \in [Conn -> 0..MaxMissed]
    BY <1>0, <1>3, SessionAssumption DEF WireTypeOK, SessionAssumption
  <2>2. toClient' \in Queues
    BY <1>0, <1>3, WritesKeep
  <2> QED
    BY <1>0, <1>1, <1>3, <2>1, <2>2 DEF RestTypeOK, WireTypeOK
<1> QED
  BY <1>2, <1>3 DEF Heartbeat

(* A cut empties the wire.                                                 *)
LEMMA CutTypes ==
  ASSUME RestTypeOK, NEW c \in Conn, NEW how \in Cuts, Cut(c, how)
  PROVE  RestTypeOK'
<1>0. WireTypeOK /\ ClientTypeOK /\ Sig("PING") \in Frame
  BY FramesAreFrames DEF RestTypeOK
<1>1. toServer' \in Queues /\ toClient' \in Queues
  BY <1>0, QueueKeeps DEF Cut, WireTypeOK
<1>2. lost' \in [Conn -> {"no", "reset", "silent"}] /\ poked' \in SUBSET Conn
  BY <1>0, SessionAssumption DEF Cut, WireTypeOK, SessionAssumption
<1>3. ClientTypeOK'
  BY <1>0 DEF Cut, ClientTypeOK, client
<1> QED
  BY <1>0, <1>1, <1>2, <1>3 DEF Cut, server, RestTypeOK, WireTypeOK

(* The hub hands a call to the session that is registered.                 *)
LEMMA HubTypes ==
  ASSUME ServerTypeOK, RestTypeOK, NEW t \in Task, Dispatch(t) \/ Cancel(t)
  PROVE  RestTypeOK'
<1>0. WireTypeOK /\ ClientTypeOK /\ For("TASK", t) \in Frame
  BY FramesAreFrames DEF RestTypeOK
<1>1. ClientTypeOK' /\ UNCHANGED <<missed, open, lost, poked, toServer>>
  BY <1>0 DEF Dispatch, Cancel, ClientTypeOK, client, server, wire
<1>2. toClient' \in Queues
  <2>1. CASE Dispatch(t)
    <3>1. registered \in Conn
      BY <2>1 DEF Dispatch, ServerTypeOK
    <3> QED
      BY <1>0, <2>1, <3>1, WritesKeep DEF Dispatch
  <2>2. CASE Cancel(t)
    BY <1>0, <2>2 DEF Cancel, wire, WireTypeOK
  <2> QED
    BY <2>1, <2>2
<1> QED
  BY <1>0, <1>1, <1>2 DEF RestTypeOK, WireTypeOK

(* What a step of a client does to the wire ...                            *)
LEMMA ClientWireTypes ==
  ASSUME RestTypeOK, NEW k \in Client,
         Runs(k) \/ ConnectFails(k) \/ ConnectTimeout(k) \/ UserCloses(k)
           \/ \E t \in Task : TaskReturns(k, t)
  PROVE  WireTypeOK'
<1>0. WireTypeOK /\ ClientTypeOK
  BY DEF RestTypeOK
<1>1. ws[k] \in Conn \cup {NoConn}
  BY <1>0 DEF ClientTypeOK
<1>2. ASSUME UNCHANGED wire, UNCHANGED missed PROVE WireTypeOK'
  BY <1>0, <1>2 DEF wire, WireTypeOK
<1>3. ASSUME NEW c \in Conn, Connect(k, c) PROVE WireTypeOK'
  <2>1. toServer' \in Queues
    BY <1>0, <1>3, FramesAreFrames, QueueKeeps DEF Connect, WireTypeOK
  <2> QED
    BY <1>0, <1>3, <2>1 DEF Connect, WireTypeOK
<1>4. ASSUME NEW f \in Frame, Gets(k, f) PROVE toClient' \in Queues
  BY <1>0, <1>1, <1>4, QueueKeeps DEF Gets, WireTypeOK
<1>5. ASSUME NEW f \in Frame, ClientWrites(k, f)
      PROVE  toServer' \in Queues /\ poked' \in SUBSET Conn
  <2>1. CASE ws[k] = NoConn
    BY <1>0, <1>5, <2>1 DEF ClientWrites, WireTypeOK
  <2>2. CASE ws[k] \in Conn
    <3>1. ToServer(ws[k], f) \in Queues
      BY <1>0, <2>2, WritesKeep
    <3>2. /\ toServer' = ToServer(ws[k], f)
          /\ poked' = IF lost[ws[k]] = "silent" THEN poked \cup {ws[k]} ELSE poked
      BY <1>5, <2>2, SessionAssumption DEF ClientWrites, SessionAssumption
    <3> QED
      BY <1>0, <2>2, <3>1, <3>2 DEF WireTypeOK
  <2> QED
    BY <1>1, <2>1, <2>2
<1>6. ASSUME Welcomed(k) \/ Rejected(k) \/ \E t \in Task : TaskArrives(k, t) PROVE WireTypeOK'
  <2>1. toClient' \in Queues
    BY <1>4, <1>6, FramesAreFrames DEF Welcomed, Rejected, TaskArrives
  <2> QED
    BY <1>0, <1>6, <2>1 DEF Welcomed, Rejected, TaskArrives, server, WireTypeOK
<1>7. CASE Pinged(k)
  <2>1. Sig("PING") \in Frame /\ Sig("PONG") \in Frame
    BY FramesAreFrames
  <2>2. toClient' \in Queues /\ toServer' \in Queues /\ poked' \in SUBSET Conn
    BY <1>4, <1>5, <1>7, <2>1 DEF Pinged
  <2> QED
    BY <1>0, <1>7, <2>2 DEF Pinged, server, WireTypeOK
<1>8. ASSUME NEW t \in Task, TaskReturns(k, t) PROVE WireTypeOK'
  <2>1. toServer' \in Queues /\ poked' \in SUBSET Conn
    BY <1>5, <1>8, FramesAreFrames DEF TaskReturns
  <2> QED
    BY <1>0, <1>8, <2>1 DEF TaskReturns, server, WireTypeOK
<1>9. ASSUME ConnectTimeout(k) \/ UserCloses(k) PROVE WireTypeOK'
  <2>1. \/ UNCHANGED <<toServer, toClient>>
        \/ /\ ws[k] \in Conn
           /\ toClient' = [toClient EXCEPT ![ws[k]] = <<>>]
           /\ toServer' \in {toServer, ToServer(ws[k], Sig("GOODBYE"))}
    BY <1>1, <1>9 DEF ConnectTimeout, UserCloses
  <2>2. Sig("GOODBYE") \in Frame
    BY FramesAreFrames
  <2>3. toServer \in Queues /\ toClient \in Queues
    BY <1>0 DEF WireTypeOK
  <2>4. ASSUME ws[k] \in Conn
        PROVE  /\ [toClient EXCEPT ![ws[k]] = <<>>] \in Queues
               /\ ToServer(ws[k], Sig("GOODBYE")) \in Queues
    <3>1. [toClient EXCEPT ![ws[k]] = <<>>] \in Queues
      BY <2>2, <2>3, <2>4, QueueKeeps
    <3>2. ToServer(ws[k], Sig("GOODBYE")) \in Queues
      BY <1>0, <2>2, <2>4, WritesKeep
    <3> QED
      BY <3>1, <3>2
  <2>5. toServer' \in Queues /\ toClient' \in Queues
    BY <2>1, <2>3, <2>4
  <2> QED
    BY <1>0, <1>9, <2>5 DEF ConnectTimeout, UserCloses, server, WireTypeOK
<1>10. ASSUME BackoffOver(k) \/ ClientHears(k) \/ ConnectFails(k) PROVE WireTypeOK'
  BY <1>2, <1>10 DEF BackoffOver, ClientHears, ConnectFails, server
<1> QED
  BY <1>3, <1>6, <1>7, <1>8, <1>9, <1>10 DEF Runs

(* ... and to the client itself.                                           *)
LEMMA ClientOwnTypes ==
  ASSUME ClientTypeOK, NEW k \in Client,
         Runs(k) \/ ConnectFails(k) \/ ConnectTimeout(k) \/ UserCloses(k)
           \/ \E t \in Task : TaskReturns(k, t)
  PROVE  ClientTypeOK'
<1>1. ASSUME NEW c \in Conn, Connect(k, c) PROVE ClientTypeOK'
  BY <1>1 DEF Connect, ClientTypeOK
<1>2. ASSUME NEW v \in {"resolved", "rejected"}, Wakes(k, v)
      PROVE  waiter' \in [Client -> {"waiting", "resolved", "rejected"}]
  BY <1>2 DEF Wakes, ClientTypeOK
<1>3. CASE BackoffOver(k)
  BY <1>3 DEF BackoffOver, wire, ClientTypeOK
<1>4. CASE ConnectFails(k)
  BY <1>2, <1>4 DEF ConnectFails, wire, ClientTypeOK
<1>5. CASE ClientHears(k)
  <2>1. waiter' \in [Client -> {"waiting", "resolved", "rejected"}]
    BY <1>2, <1>5 DEF ClientHears, ClientTypeOK
  <2> QED
    BY <1>5, <2>1 DEF ClientHears, wire, ClientTypeOK
<1>6. CASE Welcomed(k)
  BY <1>2, <1>6 DEF Welcomed, ClientTypeOK
<1>7. CASE Pinged(k)
  BY <1>7 DEF Pinged, client, ClientTypeOK
<1>8. ASSUME NEW why \in {"user", "timeout", "reject"}, Stops(k, why)
      PROVE  /\ cstate' \in [Client -> {"connecting", "ready", "reconnecting", "closed"}]
             /\ closedBy' \in [Client -> {"nobody", "user", "timeout", "reject"}]
             /\ ws' \in [Client -> Conn \cup {NoConn}]
  BY <1>8 DEF Stops, ClientTypeOK
<1>9. CASE Rejected(k)
  BY <1>2, <1>8, <1>9 DEF Rejected, ClientTypeOK
<1>10. CASE ConnectTimeout(k)
  BY <1>2, <1>8, <1>10 DEF ConnectTimeout, ClientTypeOK
<1>11. CASE UserCloses(k)
  BY <1>8, <1>11 DEF UserCloses, ClientTypeOK
<1>12. ASSUME NEW t \in Task, TaskArrives(k, t) \/ TaskReturns(k, t) PROVE ClientTypeOK'
  BY <1>12 DEF TaskArrives, TaskReturns, ClientTypeOK
<1> QED
  BY <1>1, <1>3, <1>4, <1>5, <1>6, <1>7, <1>9, <1>10, <1>11, <1>12 DEF Runs

(* One step of anybody keeps the types.                                    *)
LEMMA NextTypes == ServerTypeOK /\ RestTypeOK /\ [Next]_vars => RestTypeOK'
<1> SUFFICES ASSUME ServerTypeOK, RestTypeOK, [Next]_vars PROVE RestTypeOK'
  OBVIOUS
<1>1. ASSUME NEW k \in Client, Runs(k) \/ ConnectFails(k) \/ ConnectTimeout(k)
               \/ UserCloses(k) \/ \E t \in Task : TaskReturns(k, t)
      PROVE  RestTypeOK'
  BY <1>1, ClientWireTypes, ClientOwnTypes DEF RestTypeOK
<1>2. CASE UNCHANGED vars
  BY <1>2 DEF vars, server, wire, client, RestTypeOK, WireTypeOK, ClientTypeOK
<1> QED
  BY <1>1, <1>2, ServerTypes, HeartbeatTypes, CutTypes, HubTypes DEF Next

(* Types are as declared, on the wire and in the clients too.              *)
THEOREM TypeCorrect == Spec => []TypeOK
<1>1. Init => RestTypeOK
  BY SessionAssumption
     DEF Init, RestTypeOK, WireTypeOK, ClientTypeOK, Queues, SessionAssumption
<1>2. IInv => ServerTypeOK
  BY DEF IInv
<1>3. Spec => []RestTypeOK
  BY <1>1, <1>2, BooksKept, NextTypes, PTL DEF Spec
<1> QED
  BY <1>2, <1>3, BooksKept, TypeOKHalves, PTL

-----------------------------------------------------------------------------
(* Links between hubs                                                      *)

Lacks(s, frame) == \A i \in DOMAIN s : s[i] # frame

(* What is under way to one end.  A closed end has nothing to read; the    *)
(* frame that opens an end comes once, to an end that waits for it, and    *)
(* only one end of a connection waits for a HELLO.                         *)
WireOK(k, h) ==
  /\ k.end[h] = "none" => k.to[h] = <<>>
  /\ k.end[h] # "hello" => Lacks(k.to[h], "HELLO") /\ Lacks(k.to[h], "ACK")
  /\ Lacks(k.to[h], "HELLO") \/ Lacks(k.to[h], "ACK")
  /\ k.to[h] # <<>> => Lacks(Tail(k.to[h]), "HELLO")
  /\ k.to[h] # <<>> /\ Head(k.to[h]) = "ACK" => Lacks(Tail(k.to[h]), "ACK")
  /\ \/ k.end[h] # "open" /\ Lacks(k.to[h], "HELLO") /\ Lacks(k.to[h], "ACK")
     \/ \A g \in Hub \ {h} : Lacks(k.to[g], "HELLO")

(* Whoever has opened an end serves the peer's tasks on it.                *)
EndOK(k, h) == WireOK(k, h) /\ (k.end[h] = "open" <=> k.serves[h] # None)

(* The memory of a hub agrees with its ends of the connections.            *)
MemoryOK(w, r, h) ==
  LET mem == w.host[h] IN
  /\ mem.wrapper = mem.installed
  /\ mem.installed # NoLink =>
       w.link[mem.installed].end[h] = IF mem.stillborn THEN "none" ELSE "open"
  /\ mem.installed # NoLink /\ ~mem.stillborn /\ ~mem.outdated =>
       w.link[mem.installed].serves[h] = r[h].policy
  /\ mem.installed = NoLink => ~mem.stillborn /\ ~mem.outdated
  /\ mem.dial # NoLink =>
       w.link[mem.dial].end[h] = "hello" /\ Lacks(w.link[mem.dial].to[h], "HELLO")
  /\ ~mem.up => /\ mem.installed = NoLink /\ mem.dial = NoLink
              /\ \A l \in Link : w.link[l].end[h] = "none"

Worlds == [host : [Hub -> Memory], link : [Link -> Connection]]

WorldOK(w, r) ==
  /\ w \in Worlds
  /\ \A l \in Link, h \in Hub : EndOK(w.link[l], h)
  /\ \A h \in Hub : MemoryOK(w, r, h)

(* What the methods do to one connection.                                  *)
Sent(k, g, frame) ==
  IF k.lost \/ k.end[g] = "none" THEN k ELSE [k EXCEPT !.to[g] = Append(@, frame)]

IPeer ==
  /\ row \in [Hub -> Row]
  /\ spent \in [edit : 0..MaxEdit, loss : 0..MaxLoss, crash : 0..MaxCrash]
  /\ \A h \in Hub : row[h].policy <= spent.edit
  /\ WorldOK(World, row)

LinkFrame == {"HELLO", "ACK", "BYE"}

-----------------------------------------------------------------------------
(* There is one other hub.                                                 *)
LEMMA PeerIsOther ==
  ASSUME NEW h \in Hub
  PROVE  Peer(h) \in Hub /\ Peer(h) # h /\ Hub = {h, Peer(h)}
<1>1. PICK p : Hub \ {h} = {p}
  <2>1. IsFiniteSet(Hub \ {h}) /\ Cardinality(Hub \ {h}) = 1
    BY FS_RemoveElement, PeeringAssumption
  <2> QED
    BY <2>1, FS_Singleton
<1>2. p \in Hub /\ p # h /\ Hub = {h, p}
  BY <1>1
<1>3. Peer(h) = p
  BY <1>2 DEF Peer
<1> QED
  BY <1>2, <1>3

(* `No handler' is not a policy.                                           *)
LEMMA NoneIsNoPolicy == None \notin Policy
BY PeeringAssumption DEF None, Policy

(* What a frame queue lacks, after a frame came or went.                   *)
LEMMA EmptyLacks == ASSUME NEW f PROVE Lacks(<<>>, f)
BY DEF Lacks

LEMMA AppendLacks ==
  ASSUME NEW s \in Seq(LinkFrame), NEW f \in LinkFrame, NEW g \in LinkFrame
  PROVE  Lacks(Append(s, f), g) <=> Lacks(s, g) /\ f # g
<1>1. Append(s, f)[Len(s) + 1] = f /\ Len(s) + 1 \in DOMAIN Append(s, f)
  OBVIOUS
<1>2. \A i \in DOMAIN s : i \in DOMAIN Append(s, f) /\ Append(s, f)[i] = s[i]
  OBVIOUS
<1>3. \A i \in DOMAIN Append(s, f) : i \in DOMAIN s \/ i = Len(s) + 1
  OBVIOUS
<1> QED
  BY <1>1, <1>2, <1>3 DEF Lacks

LEMMA TailLacks ==
  ASSUME NEW s \in Seq(LinkFrame), s # <<>>, NEW g
  PROVE  Lacks(s, g) <=> Head(s) # g /\ Lacks(Tail(s), g)
<1>1. \A i \in DOMAIN Tail(s) : i + 1 \in DOMAIN s /\ Tail(s)[i] = s[i + 1]
  OBVIOUS
<1>2. \A i \in DOMAIN s : i = 1 \/ (i - 1 \in DOMAIN Tail(s) /\ s[i] = Tail(s)[i - 1])
  OBVIOUS
<1>3. 1 \in DOMAIN s /\ Head(s) = s[1]
  OBVIOUS
<1> QED
  BY <1>1, <1>2, <1>3 DEF Lacks

LEMMA AppendQueue ==
  ASSUME NEW s \in Seq(LinkFrame), NEW f \in LinkFrame
  PROVE  /\ Append(s, f) \in Seq(LinkFrame) /\ Append(s, f) # <<>>
         /\ s = <<>> => Head(Append(s, f)) = f /\ Tail(Append(s, f)) = <<>>
         /\ s # <<>> => /\ Head(Append(s, f)) = Head(s)
                        /\ Tail(Append(s, f)) = Append(Tail(s), f)
                        /\ Tail(s) \in Seq(LinkFrame)
OBVIOUS

(* The queue of one end is all that changes.                               *)
LEMMA QueueFields ==
  ASSUME NEW k \in Connection, NEW g \in Hub, NEW q \in Seq(LinkFrame),
         NEW n, n = [k EXCEPT !.to[g] = q]
  PROVE  /\ n \in Connection /\ n.end = k.end /\ n.serves = k.serves /\ n.lost = k.lost
         /\ n.to[g] = q /\ \A h \in Hub \ {g} : n.to[h] = k.to[h]
BY DEF Connection, LinkFrame

(* A frame joins the queue.  A BYE opens nothing; an ACK answers the HELLO *)
(* that was the only one.                                                  *)
LEMMA SentOK ==
  ASSUME NEW k \in Connection, NEW g \in Hub, \A h \in Hub : WireOK(k, h),
         NEW f \in {"ACK", "BYE"},
         f = "ACK" =>
           /\ k.end[g] # "open" /\ Lacks(k.to[g], "ACK")
           /\ \A h \in Hub : Lacks(k.to[h], "HELLO"),
         NEW n, n = Sent(k, g, f)
  PROVE  /\ n \in Connection /\ n.end = k.end /\ n.serves = k.serves /\ n.lost = k.lost
         /\ \A h \in Hub : WireOK(n, h)
         /\ \A h \in Hub : Lacks(n.to[h], "HELLO") <=> Lacks(k.to[h], "HELLO")
         /\ \A h \in Hub \ {g} : n.to[h] = k.to[h]
<1> DEFINE s == k.to[g]
<1>1. CASE k.lost \/ k.end[g] = "none"
  BY <1>1 DEF Sent
<1>2. CASE ~(k.lost \/ k.end[g] = "none")
  <2>1. /\ s \in Seq(LinkFrame) /\ f \in LinkFrame /\ "ACK" \in LinkFrame /\ "HELLO" \in LinkFrame
        /\ f # "HELLO"
    BY DEF Connection, LinkFrame
  <2>2. n = [k EXCEPT !.to[g] = Append(s, f)]
    BY <1>2 DEF Sent
  <2>3. Append(s, f) \in Seq(LinkFrame)
    BY <2>1, AppendQueue
  <2>4. /\ n \in Connection /\ n.end = k.end /\ n.serves = k.serves /\ n.lost = k.lost
        /\ n.to[g] = Append(s, f) /\ \A h \in Hub \ {g} : n.to[h] = k.to[h]
    <3>1. PICK q \in Seq(LinkFrame) : q = Append(s, f)
      BY <2>3
    <3>2. n = [k EXCEPT !.to[g] = q]
      BY <2>2, <3>1
    <3>3. /\ n \in Connection /\ n.end = k.end /\ n.serves = k.serves /\ n.lost = k.lost
          /\ n.to[g] = q /\ \A h \in Hub \ {g} : n.to[h] = k.to[h]
      <4> k \in Connection /\ g \in Hub /\ q \in Seq(LinkFrame)
        OBVIOUS
      <4> HIDE DEF s
      <4> QED
        BY ONLY k \in Connection, g \in Hub, q \in Seq(LinkFrame), <3>2 DEF Connection, LinkFrame
    <3> QED
      BY <3>1, <3>3
  <2>5. /\ Lacks(n.to[g], "HELLO") <=> Lacks(s, "HELLO")
        /\ Lacks(n.to[g], "ACK") <=> Lacks(s, "ACK") /\ f # "ACK"
    <3>1. /\ Lacks(Append(s, f), "HELLO") <=> Lacks(s, "HELLO") /\ f # "HELLO"
          /\ Lacks(Append(s, f), "ACK") <=> Lacks(s, "ACK") /\ f # "ACK"
      <4> HIDE DEF s
      <4> QED
        BY <2>1, AppendLacks
    <3> QED
      BY <2>1, <2>4, <3>1
  <2>6. /\ Lacks(Tail(n.to[g]), "HELLO")
        /\ Head(n.to[g]) = "ACK" => Lacks(Tail(n.to[g]), "ACK")
    <3>0. /\ s # <<>> => Lacks(Tail(s), "HELLO")
          /\ s # <<>> /\ Head(s) = "ACK" => Lacks(Tail(s), "ACK")
          /\ f = "ACK" => Lacks(s, "ACK")
      BY DEF WireOK
    <3> HIDE DEF s
    <3>1. CASE s = <<>>
      <4>1. Tail(n.to[g]) = <<>>
        BY <3>1, <2>1, <2>4, AppendQueue
      <4> QED
        BY <4>1, EmptyLacks
    <3>2. CASE s # <<>>
      <4>1. /\ Head(n.to[g]) = Head(s) /\ Tail(n.to[g]) = Append(Tail(s), f)
            /\ Tail(s) \in Seq(LinkFrame)
        BY <3>2, <2>1, <2>4, AppendQueue
      <4>2. f = "ACK" => Head(s) # "ACK"
        BY <3>0, <3>2, <2>1, TailLacks
      <4>3. /\ Lacks(Append(Tail(s), f), "HELLO") <=> Lacks(Tail(s), "HELLO") /\ f # "HELLO"
            /\ Lacks(Append(Tail(s), f), "ACK") <=> Lacks(Tail(s), "ACK") /\ f # "ACK"
        BY <4>1, <2>1, AppendLacks
      <4>4. Lacks(Append(Tail(s), f), "HELLO")
        BY <4>3, <3>0, <3>2, <2>1
      <4>5. ASSUME Head(s) = "ACK" PROVE Lacks(Append(Tail(s), f), "ACK")
        BY <4>3, <4>2, <4>5, <3>0, <3>2
      <4> QED
        BY <4>1, <4>4, <4>5
    <3> QED
      BY <3>1, <3>2
  <2> HIDE DEF s
  <2>7. \A h \in Hub : Lacks(n.to[h], "HELLO") <=> Lacks(k.to[h], "HELLO")
    BY <2>4, <2>5 DEF s
  <2>8. WireOK(n, g)
    <3>1. WireOK(k, g)
      OBVIOUS
    <3>2. n.end[g] = k.end[g] /\ k.end[g] # "none"
      BY <1>2, <2>4
    <3>3. f = "ACK" => /\ k.end[g] # "open" /\ Lacks(s, "ACK") /\ Lacks(s, "HELLO")
                       /\ \A h \in Hub \ {g} : Lacks(n.to[h], "HELLO")
      BY <2>4 DEF s
    <3>4. (\A h \in Hub \ {g} : Lacks(k.to[h], "HELLO")) =>
            \A h \in Hub \ {g} : Lacks(n.to[h], "HELLO")
      BY <2>4
    <3>5. CASE f = "ACK"
      <4>1. k.end[g] = "hello"
        BY <3>2, <3>3, <3>5 DEF Connection
      <4> QED
        BY <3>2, <3>3, <3>5, <4>1, <2>5, <2>6 DEF WireOK
    <3>6. CASE f # "ACK"
      BY <3>1, <3>2, <3>4, <3>6, <2>5, <2>6 DEF WireOK, s
    <3> QED
      BY <3>5, <3>6
  <2>9. \A h \in Hub \ {g} : WireOK(n, h)
    BY <2>4, <2>7 DEF WireOK
  <2> QED
    BY <2>4, <2>7, <2>8, <2>9
<1> QED
  BY <1>1, <1>2

(* An end that is shut reads and serves nothing.                           *)
LEMMA ShutOK ==
  ASSUME NEW k \in Connection, NEW g \in Hub, \A h \in Hub : WireOK(k, h),
         NEW n, n = Shut(k, g)
  PROVE  /\ n \in Connection
         /\ \A h \in Hub : WireOK(n, h)
         /\ n.end[g] = "none" /\ n.to[g] = <<>> /\ n.serves[g] = None
         /\ \A h \in Hub \ {g} : /\ n.end[h] = k.end[h] /\ n.serves[h] = k.serves[h]
                                 /\ n.to[h] = k.to[h]
<1>1. /\ n.end = [k.end EXCEPT ![g] = "none"] /\ n.to = [k.to EXCEPT ![g] = <<>>]
      /\ n.serves = [k.serves EXCEPT ![g] = None] /\ n.lost = k.lost
  BY DEF Shut, Connection
<1>2. n \in Connection
  <2>1. /\ n.end \in [Hub -> {"none", "hello", "open"}]
        /\ n.serves \in [Hub -> Policy \cup {None}] /\ n.lost \in BOOLEAN
    BY <1>1 DEF Connection
  <2>2. <<>> \in Seq(LinkFrame) /\ k.to \in [Hub -> Seq(LinkFrame)]
    BY DEF Connection, LinkFrame
  <2>3. n.to \in [Hub -> Seq(LinkFrame)]
    BY <1>1, <2>2
  <2>4. n = [end |-> n.end, serves |-> n.serves, to |-> n.to, lost |-> n.lost]
    BY DEF Shut, Connection
  <2> QED
    BY <2>1, <2>3, <2>4 DEF Connection, LinkFrame
<1>3. /\ n.end[g] = "none" /\ n.to[g] = <<>> /\ n.serves[g] = None
      /\ \A h \in Hub \ {g} : n.end[h] = k.end[h] /\ n.serves[h] = k.serves[h] /\ n.to[h] = k.to[h]
  BY <1>1 DEF Connection
<1>4. \A h \in Hub : WireOK(n, h)
  BY <1>3, EmptyLacks DEF WireOK
<1> QED
  BY <1>2, <1>3, <1>4

(* A method that touches one hub's memory and one connection has to answer *)
(* for these.                                                              *)
LEMMA TouchOK ==
  ASSUME NEW w, NEW r, WorldOK(w, r), NEW h \in Hub, NEW l \in Link,
         NEW v \in Worlds,
         \A g \in Hub \ {h} : v.host[g] = w.host[g],
         \A j \in Link \ {l} : v.link[j] = w.link[j],
         \A g \in Hub : EndOK(v.link[l], g),
         \A g \in Hub \ {h} :
           /\ v.link[l].end[g] = w.link[l].end[g] /\ v.link[l].serves[g] = w.link[l].serves[g]
           /\ Lacks(w.link[l].to[g], "HELLO") => Lacks(v.link[l].to[g], "HELLO"),
         MemoryOK(v, r, h)
  PROVE  WorldOK(v, r)
<1>1. \A j \in Link, g \in Hub : EndOK(v.link[j], g)
  BY DEF WorldOK
<1>2. ASSUME NEW g \in Hub \ {h}
      PROVE  MemoryOK(v, r, g)
  <2>1. MemoryOK(w, r, g) /\ w.host[g] \in Memory
    BY DEF WorldOK, Worlds
  <2>2. \A j \in Link : /\ v.link[j].end[g] = w.link[j].end[g]
                        /\ v.link[j].serves[g] = w.link[j].serves[g]
                        /\ Lacks(w.link[j].to[g], "HELLO") => Lacks(v.link[j].to[g], "HELLO")
    OBVIOUS
  <2>3. /\ w.host[g].installed \in Link \cup {NoLink}
        /\ w.host[g].dial \in Link \cup {NoLink}
    BY <2>1 DEF Memory
  <2>4. v.host[g] = w.host[g]
    OBVIOUS
  <2>5. ~w.host[g].up => \A j \in Link : v.link[j].end[g] = "none"
    <3>1. ~w.host[g].up => \A j \in Link : w.link[j].end[g] = "none"
      BY <2>1 DEF MemoryOK
    <3> QED
      BY <2>2, <3>1
  <2>6. w.host[g].installed # NoLink =>
          /\ v.link[w.host[g].installed].end[g] = w.link[w.host[g].installed].end[g]
          /\ v.link[w.host[g].installed].serves[g] = w.link[w.host[g].installed].serves[g]
    BY <2>2, <2>3
  <2>7. w.host[g].dial # NoLink =>
          /\ v.link[w.host[g].dial].end[g] = "hello"
          /\ Lacks(v.link[w.host[g].dial].to[g], "HELLO")
    <3>1. w.host[g].dial # NoLink =>
            /\ w.link[w.host[g].dial].end[g] = "hello"
            /\ Lacks(w.link[w.host[g].dial].to[g], "HELLO")
      BY <2>1 DEF MemoryOK
    <3> QED
      BY <2>2, <2>3, <3>1
  <2> QED
    BY <2>1, <2>4, <2>5, <2>6, <2>7 DEF MemoryOK
<1> QED
  BY <1>1, <1>2 DEF WorldOK

-----------------------------------------------------------------------------
(* The methods keep worlds in order                                        *)

(* A dial that fails waits for nothing.                                    *)
LEMMA DialFailsOK ==
  ASSUME NEW w \in Worlds, NEW h \in Hub, NEW l \in Link,
         NEW v, v = DialFails(w, h, l)
  PROVE  /\ v \in Worlds /\ v.link = w.link
         /\ \A g \in Hub \ {h} : v.host[g] = w.host[g]
         /\ v.host[h] = IF w.host[h].dial = l THEN [w.host[h] EXCEPT !.dial = NoLink]
                        ELSE w.host[h]
<1>1. CASE w.host[h].dial # l
  BY <1>1 DEF DialFails
<1>2. CASE w.host[h].dial = l
  <2>1. PICK m : m = [w.host[h] EXCEPT !.dial = NoLink]
    OBVIOUS
  <2>2. v = [w EXCEPT !.host[h] = m]
    BY <1>2, <2>1 DEF DialFails
  <2>3. w.host[h] \in Memory /\ w.host \in [Hub -> Memory]
    BY DEF Worlds
  <2>4. m \in Memory
    BY <2>1, <2>3 DEF Memory
  <2>5. /\ v \in Worlds /\ v.link = w.link /\ v.host[h] = m
        /\ \A g \in Hub \ {h} : v.host[g] = w.host[g]
    BY <2>2, <2>4 DEF Worlds
  <2> QED
    BY <1>2, <2>1, <2>5
<1> QED
  BY <1>1, <1>2

(* The listener takes the link off the registry, with all that is known    *)
(* about it.                                                               *)
LEMMA OnLinkClosedOK ==
  ASSUME NEW w \in Worlds, NEW h \in Hub, NEW l \in Link,
         NEW v, v = OnLinkClosed(w, h, l)
  PROVE  /\ v \in Worlds /\ v.link = w.link
         /\ \A g \in Hub \ {h} : v.host[g] = w.host[g]
         /\ w.host[h].installed # l => v.host[h] = w.host[h]
         /\ w.host[h].installed = l =>
              /\ v.host[h].installed = NoLink /\ v.host[h].wrapper = NoLink
              /\ ~v.host[h].outdated /\ ~v.host[h].stillborn
              /\ v.host[h].up = w.host[h].up /\ v.host[h].dial = w.host[h].dial
<1>1. CASE w.host[h].installed # l
  BY <1>1 DEF OnLinkClosed
<1>2. CASE w.host[h].installed = l
  <2>1. PICK m : m = [w.host[h] EXCEPT !.installed = NoLink, !.wrapper = NoLink,
                                       !.outdated = FALSE, !.stillborn = FALSE]
    OBVIOUS
  <2>2. /\ m \in Memory /\ m.installed = NoLink /\ m.wrapper = NoLink /\ ~m.outdated
        /\ ~m.stillborn /\ m.up = w.host[h].up /\ m.dial = w.host[h].dial
    BY <2>1 DEF Worlds, Memory
  <2>3. v = [w EXCEPT !.host[h] = m]
    BY <1>2, <2>1 DEF OnLinkClosed
  <2>4. /\ v \in Worlds /\ v.link = w.link /\ v.host[h] = m
        /\ \A g \in Hub \ {h} : v.host[g] = w.host[g]
    BY <2>2, <2>3 DEF Worlds
  <2> QED
    BY <1>2, <2>2, <2>4
<1> QED
  BY <1>1, <1>2

(* What it is for h to have closed its end of l, as v has it and w had not.*)
Closed(w, v, h, l) ==
  /\ v \in Worlds
  /\ \A g \in Hub \ {h} : v.host[g] = w.host[g]
  /\ \A j \in Link \ {l} : v.link[j] = w.link[j]
  /\ v.link[l].end[h] = "none" /\ v.link[l].serves[h] = None
  /\ \A g \in Hub : WireOK(v.link[l], g)
  /\ \A g \in Hub \ {h} :
       /\ v.link[l].end[g] = w.link[l].end[g] /\ v.link[l].serves[g] = w.link[l].serves[g]
       /\ Lacks(w.link[l].to[g], "HELLO") => Lacks(v.link[l].to[g], "HELLO")
  /\ v.host[h].up = w.host[h].up
  /\ v.host[h].dial = IF w.host[h].dial = l THEN NoLink ELSE w.host[h].dial
  /\ IF w.host[h].installed = l
     THEN /\ v.host[h].installed = NoLink /\ v.host[h].wrapper = NoLink
          /\ ~v.host[h].outdated /\ ~v.host[h].stillborn
     ELSE /\ v.host[h].installed = w.host[h].installed /\ v.host[h].wrapper = w.host[h].wrapper
          /\ v.host[h].outdated = w.host[h].outdated
          /\ v.host[h].stillborn = w.host[h].stillborn

LEMMA ClosedOK ==
  ASSUME NEW w, NEW r, WorldOK(w, r), NEW h \in Hub, NEW l \in Link,
         NEW v, Closed(w, v, h, l)
  PROVE  WorldOK(v, r) /\ v \in Worlds
<1>1. v \in Worlds /\ NoLink \notin Link
  BY PeeringAssumption DEF Closed
<1>2. \A g \in Hub : EndOK(v.link[l], g)
  BY DEF Closed, EndOK, WorldOK
<1>3. MemoryOK(v, r, h)
  <2>1. MemoryOK(w, r, h)
    BY DEF WorldOK
  <2>2. w.host[h].installed \in Link \cup {NoLink} /\ w.host[h].dial \in Link \cup {NoLink}
    BY DEF WorldOK, Worlds, Memory
  <2>3. \A j \in Link : j # l => v.link[j] = w.link[j]
    BY DEF Closed
  <2>4. /\ v.host[h].up = w.host[h].up /\ v.link[l].end[h] = "none"
        /\ v.host[h].dial = IF w.host[h].dial = l THEN NoLink ELSE w.host[h].dial
    BY DEF Closed
  <2>5. v.host[h].dial # NoLink =>
          v.link[v.host[h].dial].end[h] = "hello" /\ Lacks(v.link[v.host[h].dial].to[h], "HELLO")
    <3>1. w.host[h].dial # NoLink =>
            w.link[w.host[h].dial].end[h] = "hello" /\ Lacks(w.link[w.host[h].dial].to[h], "HELLO")
      BY <2>1 DEF MemoryOK
    <3> QED
      BY <2>2, <2>3, <2>4, <3>1
  <2>6. ~v.host[h].up => /\ w.host[h].installed = NoLink /\ v.host[h].dial = NoLink
                         /\ \A j \in Link : v.link[j].end[h] = "none"
    <3>1. ~w.host[h].up => /\ w.host[h].installed = NoLink /\ w.host[h].dial = NoLink
                           /\ \A j \in Link : w.link[j].end[h] = "none"
      BY <2>1 DEF MemoryOK
    <3> QED
      BY <2>3, <2>4, <3>1
  <2>7. CASE w.host[h].installed = l
    <3>1. /\ v.host[h].installed = NoLink /\ v.host[h].wrapper = NoLink
          /\ ~v.host[h].outdated /\ ~v.host[h].stillborn
      BY <2>7 DEF Closed
    <3> QED
      BY <2>5, <2>6, <3>1 DEF MemoryOK
  <2>8. CASE w.host[h].installed # l
    <3>1. /\ v.host[h].installed = w.host[h].installed
          /\ v.host[h].wrapper = w.host[h].wrapper
          /\ v.host[h].outdated = w.host[h].outdated
          /\ v.host[h].stillborn = w.host[h].stillborn
      BY <2>8 DEF Closed
    <3>2. w.host[h].installed # NoLink =>
            v.link[w.host[h].installed] = w.link[w.host[h].installed]
      BY <2>2, <2>3, <2>8
    <3> QED
      BY <2>1, <2>5, <2>6, <3>1, <3>2 DEF MemoryOK
  <2> QED
    BY <2>7, <2>8
<1> QED
  BY <1>1, <1>2, <1>3, TouchOK DEF Closed

(* transitionToClosed: the end is shut, its dial fails, its link is taken  *)
(* off the registry.                                                       *)
LEMMA TransitionCloses ==
  ASSUME NEW w \in Worlds, NEW h \in Hub, NEW l \in Link,
         \A g \in Hub : WireOK(w.link[l], g)
  PROVE  Closed(w, TransitionToClosed(w, h, l), h, l)
<1>1. PICK k : k = Shut(w.link[l], h)
  OBVIOUS
<1>2. w.link[l] \in Connection /\ w.host[h] \in Memory
  BY DEF Worlds
<1>3. /\ k \in Connection /\ k.end[h] = "none" /\ k.serves[h] = None
      /\ \A g \in Hub : WireOK(k, g)
      /\ \A g \in Hub \ {h} : /\ k.end[g] = w.link[l].end[g] /\ k.to[g] = w.link[l].to[g]
                              /\ k.serves[g] = w.link[l].serves[g]
  BY <1>1, <1>2, ShutOK
<1>4. PICK a : a = [w EXCEPT !.link[l] = k]
  OBVIOUS
<1>5. /\ a \in Worlds /\ a.host = w.host /\ a.link[l] = k
      /\ \A j \in Link \ {l} : a.link[j] = w.link[j]
  BY <1>3, <1>4 DEF Worlds
<1>6. PICK b : b = DialFails(a, h, l)
  OBVIOUS
<1>7. /\ b \in Worlds /\ b.link = a.link
      /\ \A g \in Hub \ {h} : b.host[g] = a.host[g]
      /\ b.host[h] = IF a.host[h].dial = l THEN [a.host[h] EXCEPT !.dial = NoLink]
                     ELSE a.host[h]
  BY <1>5, <1>6, DialFailsOK
<1>8. /\ b.host[h].up = w.host[h].up
      /\ b.host[h].dial = IF w.host[h].dial = l THEN NoLink ELSE w.host[h].dial
      /\ b.host[h].installed = w.host[h].installed /\ b.host[h].wrapper = w.host[h].wrapper
      /\ b.host[h].outdated = w.host[h].outdated
      /\ b.host[h].stillborn = w.host[h].stillborn
  BY <1>2, <1>5, <1>7 DEF Memory
<1>9. PICK v : v = OnLinkClosed(b, h, l)
  OBVIOUS
<1>10. /\ v \in Worlds /\ v.link = b.link
       /\ \A g \in Hub \ {h} : v.host[g] = b.host[g]
       /\ b.host[h].installed # l => v.host[h] = b.host[h]
       /\ b.host[h].installed = l =>
            /\ v.host[h].installed = NoLink /\ v.host[h].wrapper = NoLink
            /\ ~v.host[h].outdated /\ ~v.host[h].stillborn
            /\ v.host[h].up = b.host[h].up /\ v.host[h].dial = b.host[h].dial
  <2>1. b \in Worlds
    BY <1>7
  <2> QED
    BY <2>1, <1>9, OnLinkClosedOK
<1>11. v = TransitionToClosed(w, h, l)
  BY <1>1, <1>4, <1>6, <1>9 DEF TransitionToClosed
<1>12. /\ v.link = a.link /\ v.link[l] = k
       /\ \A g \in Hub \ {h} : v.host[g] = w.host[g]
  BY <1>5, <1>7, <1>10
<1>13. /\ v.host[h].up = w.host[h].up
       /\ v.host[h].dial = IF w.host[h].dial = l THEN NoLink ELSE w.host[h].dial
       /\ IF w.host[h].installed = l
          THEN /\ v.host[h].installed = NoLink /\ v.host[h].wrapper = NoLink
               /\ ~v.host[h].outdated /\ ~v.host[h].stillborn
          ELSE /\ v.host[h].installed = w.host[h].installed
               /\ v.host[h].wrapper = w.host[h].wrapper
               /\ v.host[h].outdated = w.host[h].outdated
               /\ v.host[h].stillborn = w.host[h].stillborn
  BY <1>8, <1>10
<1>14. Closed(w, v, h, l)
  BY <1>3, <1>5, <1>10, <1>12, <1>13 DEF Closed
<1> QED
  BY <1>11, <1>14

(* sendFrame, on a world.                                                  *)
LEMMA SendFrameOK ==
  ASSUME NEW w \in Worlds, NEW l \in Link, NEW g \in Hub, NEW f \in {"ACK", "BYE"},
         \A h \in Hub : WireOK(w.link[l], h),
         f = "ACK" =>
           /\ w.link[l].end[g] # "open" /\ Lacks(w.link[l].to[g], "ACK")
           /\ \A h \in Hub : Lacks(w.link[l].to[h], "HELLO"),
         NEW v, v = SendFrame(w, l, g, f)
  PROVE  /\ v \in Worlds /\ v.host = w.host
         /\ \A j \in Link \ {l} : v.link[j] = w.link[j]
         /\ v.link[l].end = w.link[l].end /\ v.link[l].serves = w.link[l].serves
         /\ \A h \in Hub : WireOK(v.link[l], h)
         /\ \A h \in Hub : Lacks(v.link[l].to[h], "HELLO") <=> Lacks(w.link[l].to[h], "HELLO")
<1>1. PICK n : n = Sent(w.link[l], g, f)
  OBVIOUS
<1>2. w.link[l] \in Connection
  BY DEF Worlds
<1>3. /\ n \in Connection /\ n.end = w.link[l].end /\ n.serves = w.link[l].serves
      /\ \A h \in Hub : WireOK(n, h)
      /\ \A h \in Hub : Lacks(n.to[h], "HELLO") <=> Lacks(w.link[l].to[h], "HELLO")
  BY <1>1, <1>2, SentOK
<1>4. v = [w EXCEPT !.link[l] = n]
  BY <1>1 DEF SendFrame, Sent, Worlds
<1> QED
  BY <1>3, <1>4 DEF Worlds

(* close: a BYE, then the end is shut; one that is shut already is left.   *)
LEMMA CloseOK ==
  ASSUME NEW w \in Worlds, NEW h \in Hub, NEW l \in Link,
         \A g \in Hub : WireOK(w.link[l], g),
         NEW v, v = Close(w, h, l)
  PROVE  IF w.link[l].end[h] = "none" THEN v = w ELSE Closed(w, v, h, l)
<1>1. CASE w.link[l].end[h] = "none"
  BY <1>1 DEF Close
<1>2. CASE w.link[l].end[h] # "none"
  <2>1. PICK x : x = SendFrame(w, l, Peer(h), "BYE")
    OBVIOUS
  <2>2. /\ x \in Worlds /\ x.host = w.host
        /\ \A j \in Link \ {l} : x.link[j] = w.link[j]
        /\ x.link[l].end = w.link[l].end /\ x.link[l].serves = w.link[l].serves
        /\ \A g \in Hub : WireOK(x.link[l], g)
        /\ \A g \in Hub : Lacks(x.link[l].to[g], "HELLO") <=> Lacks(w.link[l].to[g], "HELLO")
    <3>1. Peer(h) \in Hub
      BY PeerIsOther
    <3> QED
      BY <2>1, <3>1, SendFrameOK
  <2>3. v = TransitionToClosed(x, h, l)
    BY <1>2, <2>1 DEF Close
  <2>4. Closed(x, v, h, l)
    <3>1. x \in Worlds /\ \A g \in Hub : WireOK(x.link[l], g)
      BY <2>2
    <3> QED
      BY <2>3, <3>1, TransitionCloses
  <2>5. Closed(w, v, h, l)
    BY <2>2, <2>4 DEF Closed
  <2> QED
    BY <1>2, <2>5
<1> QED
  BY <1>1, <1>2

(* teardown: the registry knows no link any more; its dial goes on.        *)
LEMMA TeardownOK ==
  ASSUME NEW w, NEW r, WorldOK(w, r), NEW h \in Hub, NEW v, v = Teardown(w, h)
  PROVE  /\ WorldOK(v, r) /\ v.host[h].installed = NoLink
         /\ v.host[h].up = w.host[h].up /\ v.host[h].dial = w.host[h].dial
<1> DEFINE l == w.host[h].installed
<1>0. /\ w \in Worlds /\ l \in Link \cup {NoLink} /\ MemoryOK(w, r, h)
      /\ \A j \in Link, g \in Hub : EndOK(w.link[j], g)
  BY DEF WorldOK, Worlds, Memory
<1>1. CASE l = NoLink
  BY <1>1 DEF Teardown
<1>2. CASE l # NoLink
  <2>1. l \in Link /\ \A g \in Hub : WireOK(w.link[l], g)
    BY <1>0, <1>2 DEF EndOK
  <2>2. w.host[h].dial # l
    BY <1>0, <1>2 DEF MemoryOK
  <2>3. PICK x : x = Close(w, h, l)
    OBVIOUS
  <2>4. v = OnLinkClosed(x, h, l)
    BY <1>2, <2>3 DEF Teardown
  <2>5. IF w.link[l].end[h] = "none" THEN x = w ELSE Closed(w, x, h, l)
    BY <1>0, <2>1, <2>3, CloseOK
  <2>6. CASE w.link[l].end[h] = "none"
    <3>0. v = OnLinkClosed(w, h, l)
      BY <2>4, <2>5, <2>6
    <3>1. /\ v \in Worlds /\ v.link = w.link
          /\ \A g \in Hub \ {h} : v.host[g] = w.host[g]
          /\ v.host[h].installed = NoLink /\ v.host[h].wrapper = NoLink
          /\ ~v.host[h].outdated /\ ~v.host[h].stillborn
          /\ v.host[h].up = w.host[h].up /\ v.host[h].dial = w.host[h].dial
      <4>1. w \in Worlds /\ l \in Link /\ w.host[h].installed = l
        BY <1>0, <2>1
      <4> HIDE DEF l
      <4> QED
        BY <3>0, <4>1, OnLinkClosedOK, SMTT(30)
    <3>2. MemoryOK(v, r, h)
      <4>1. /\ w.host[h].dial # NoLink =>
                 w.link[w.host[h].dial].end[h] = "hello" /\ Lacks(w.link[w.host[h].dial].to[h], "HELLO")
            /\ ~w.host[h].up => /\ w.host[h].dial = NoLink
                                /\ \A j \in Link : w.link[j].end[h] = "none"
        BY <1>0 DEF MemoryOK
      <4>2. /\ v.host[h].dial # NoLink =>
                 v.link[v.host[h].dial].end[h] = "hello" /\ Lacks(v.link[v.host[h].dial].to[h], "HELLO")
            /\ ~v.host[h].up => /\ v.host[h].installed = NoLink /\ v.host[h].dial = NoLink
                                /\ \A j \in Link : v.link[j].end[h] = "none"
        BY <3>1, <4>1
      <4>3. /\ v.host[h].installed = NoLink /\ v.host[h].wrapper = NoLink
            /\ ~v.host[h].outdated /\ ~v.host[h].stillborn
        BY <3>1
      <4> QED
        BY <4>2, <4>3 DEF MemoryOK
    <3>3. WorldOK(v, r)
      <4>1. \A g \in Hub : EndOK(w.link[l], g)
        BY <1>0, <2>1
      <4> HIDE DEF l
      <4>2. /\ v \in Worlds /\ \A g \in Hub \ {h} : v.host[g] = w.host[g]
            /\ \A j \in Link \ {l} : v.link[j] = w.link[j]
            /\ \A g \in Hub : EndOK(v.link[l], g)
            /\ \A g \in Hub \ {h} :
                 /\ v.link[l].end[g] = w.link[l].end[g] /\ v.link[l].serves[g] = w.link[l].serves[g]
                 /\ Lacks(w.link[l].to[g], "HELLO") => Lacks(v.link[l].to[g], "HELLO")
        BY <3>1, <4>1
      <4> QED
        BY <2>1, <3>2, <4>2, TouchOK, SMTT(30)
    <3> QED
      BY <3>1, <3>3
  <2>7. CASE w.link[l].end[h] # "none"
    <3>1. Closed(w, x, h, l)
      BY <2>5, <2>7
    <3>2. WorldOK(x, r)
      BY <2>1, <3>1, ClosedOK
    <3>3. /\ x.host[h].installed = NoLink
          /\ x.host[h].up = w.host[h].up /\ x.host[h].dial = w.host[h].dial
      BY <2>2, <3>1 DEF Closed
    <3>4. v = x
      BY <1>2, <2>4, <3>3 DEF OnLinkClosed
    <3> QED
      BY <3>2, <3>3, <3>4
  <2> QED
    BY <2>6, <2>7
<1> QED
  BY <1>1, <1>2

(* installPeerLink: an end that is open serves the peer's tasks, and the   *)
(* registry knows the link unless it had one.                              *)
LEMMA InstallOK ==
  ASSUME NEW w \in Worlds, NEW h \in Hub, NEW l \in Link, NEW policy \in Policy,
         NEW v, v = Install(w, h, l, policy)
  PROVE  /\ v \in Worlds
         /\ \A g \in Hub \ {h} : v.host[g] = w.host[g]
         /\ \A j \in Link \ {l} : v.link[j] = w.link[j]
         /\ v.link[l].end = w.link[l].end /\ v.link[l].to = w.link[l].to
         /\ v.link[l].serves[h] = IF w.link[l].end[h] = "open" THEN policy
                                  ELSE w.link[l].serves[h]
         /\ \A g \in Hub \ {h} : v.link[l].serves[g] = w.link[l].serves[g]
         /\ w.host[h].wrapper # NoLink => v.host[h] = w.host[h]
         /\ w.host[h].wrapper = NoLink =>
              /\ v.host[h].up = w.host[h].up /\ v.host[h].dial = w.host[h].dial
              /\ v.host[h].installed = l /\ v.host[h].wrapper = l
              /\ v.host[h].outdated = (policy # row[h].policy)
              /\ v.host[h].stillborn = (w.link[l].end[h] = "none")
<1>1. PICK n : n = IF w.link[l].end[h] = "open" THEN [w.link[l] EXCEPT !.serves[h] = policy]
                   ELSE w.link[l]
  OBVIOUS
<1>2. w.link[l] \in Connection /\ w.host[h] \in Memory
  BY DEF Worlds
<1>3. /\ n \in Connection /\ n.end = w.link[l].end /\ n.to = w.link[l].to
      /\ n.serves[h] = IF w.link[l].end[h] = "open" THEN policy ELSE w.link[l].serves[h]
      /\ \A g \in Hub \ {h} : n.serves[g] = w.link[l].serves[g]
  BY <1>1, <1>2 DEF Connection
<1>4. PICK x : x = [w EXCEPT !.link[l] = n]
  OBVIOUS
<1>5. /\ x \in Worlds /\ x.host = w.host /\ x.link[l] = n
      /\ \A j \in Link \ {l} : x.link[j] = w.link[j]
  BY <1>3, <1>4 DEF Worlds
<1>6. x = IF w.link[l].end[h] = "open"
          THEN [w EXCEPT !.link[l].serves[h] = policy] ELSE w
  BY <1>1, <1>4 DEF Worlds
<1>7. CASE w.host[h].wrapper # NoLink
  <2>1. v = x
    BY <1>6, <1>7 DEF Install
  <2> QED
    BY <1>3, <1>5, <1>7, <2>1
<1>8. CASE w.host[h].wrapper = NoLink
  <2>1. PICK m : m = [w.host[h] EXCEPT
          !.installed = l, !.wrapper = l, !.outdated = policy # row[h].policy,
          !.stillborn = w.link[l].end[h] = "none"]
    OBVIOUS
  <2>2. /\ m \in Memory /\ m.installed = l /\ m.wrapper = l
        /\ m.outdated = (policy # row[h].policy)
        /\ m.stillborn = (w.link[l].end[h] = "none")
        /\ m.up = w.host[h].up /\ m.dial = w.host[h].dial
    BY <1>2, <2>1 DEF Memory
  <2>3. v = [x EXCEPT !.host[h] = m]
    BY <1>5, <1>6, <1>8, <2>1 DEF Install
  <2>4. /\ v \in Worlds /\ v.link = x.link /\ v.host[h] = m
        /\ \A g \in Hub \ {h} : v.host[g] = x.host[g]
    BY <1>5, <2>2, <2>3 DEF Worlds
  <2> QED
    BY <1>3, <1>5, <1>8, <2>2, <2>4
<1> QED
  BY <1>7, <1>8

(* A dial takes a connection nobody uses, and finds the peer or does not.  *)
LEMMA DialOK ==
  ASSUME NEW w, NEW r, WorldOK(w, r), NEW h \in Hub, w.host[h].up,
         NEW l \in Idle(w), NEW read \in Row,
         NEW v, v = Dial(w, h, l, read)
  PROVE  WorldOK(v, r)
<1> DEFINE p == Peer(h)
           e == [g \in Hub |-> IF g = h \/ w.host[p].up THEN "hello" ELSE "none"]
           q == IF w.host[p].up THEN <<"HELLO">> ELSE <<>>
<1>0. /\ w \in Worlds /\ l \in Link /\ NoLink \notin Link
      /\ p \in Hub /\ p # h /\ Hub = {h, p}
      /\ \A g \in Hub : /\ w.link[l].end[g] = "none" /\ w.host[g].installed # l
                        /\ w.host[g] \in Memory /\ MemoryOK(w, r, g)
  BY PeerIsOther, PeeringAssumption DEF WorldOK, Worlds, Idle
<1>1. PICK n : n = [Unused EXCEPT !.end = e, !.to[p] = q, !.lost = ~w.host[p].up]
  OBVIOUS
<1>2. /\ n \in Connection /\ n.end = e /\ n.to[p] = q /\ \A g \in Hub \ {p} : n.to[g] = <<>>
      /\ \A g \in Hub : n.serves[g] = None
  <2>1. n = [end |-> e, serves |-> [g \in Hub |-> None],
             to |-> [g \in Hub |-> IF g = p THEN q ELSE <<>>], lost |-> ~w.host[p].up]
    BY <1>1 DEF Unused
  <2>2. q \in Seq(LinkFrame) /\ <<>> \in Seq(LinkFrame)
    <3>1. <<"HELLO">> \in Seq(LinkFrame) /\ <<>> \in Seq(LinkFrame)
      BY DEF LinkFrame
    <3> QED
      BY <3>1
  <2>3. [g \in Hub |-> IF g = p THEN q ELSE <<>>] \in [Hub -> Seq(LinkFrame)]
    BY <2>2
  <2>4. e \in [Hub -> {"none", "hello", "open"}] /\ w.host[p].up \in BOOLEAN
    BY <1>0 DEF Memory
  <2>5. [g \in Hub |-> None] \in [Hub -> Policy \cup {None}]
    OBVIOUS
  <2>6. n \in Connection
    BY <2>1, <2>3, <2>4, <2>5 DEF Connection, LinkFrame
  <2> QED
    BY <1>0, <2>1, <2>6
<1>3. PICK m : m = [w.host[h] EXCEPT !.dial = l, !.asked = read.policy]
  OBVIOUS
<1>4. /\ m \in Memory /\ m.up /\ m.dial = l /\ m.installed = w.host[h].installed
      /\ m.wrapper = w.host[h].wrapper /\ m.outdated = w.host[h].outdated
      /\ m.stillborn = w.host[h].stillborn
  BY <1>0, <1>3 DEF Memory, Row
<1>5. v = [w EXCEPT !.host[h] = m, !.link[l] = n]
  BY <1>1, <1>3 DEF Dial
<1>6. /\ v \in Worlds /\ v.host[h] = m /\ v.link[l] = n
      /\ \A g \in Hub \ {h} : v.host[g] = w.host[g]
      /\ \A j \in Link \ {l} : v.link[j] = w.link[j]
  <2>1. PICK x : x = [w EXCEPT !.host[h] = m]
    OBVIOUS
  <2>2. /\ x \in Worlds /\ x.host[h] = m /\ x.link = w.link
        /\ \A g \in Hub \ {h} : x.host[g] = w.host[g]
    BY <1>0, <1>4, <2>1 DEF Worlds
  <2>3. v = [x EXCEPT !.link[l] = n]
    BY <1>5, <2>1
  <2> HIDE DEF p, e, q
  <2>4. l \in Link /\ n \in Connection /\ x \in Worlds
    BY <1>0, <1>2, <2>2
  <2>5. /\ v \in Worlds /\ v.host = x.host /\ v.link[l] = n
        /\ \A j \in Link \ {l} : v.link[j] = x.link[j]
    BY <2>3, <2>4 DEF Worlds
  <2> QED
    BY <2>2, <2>5
<1>7. ASSUME NEW g \in Hub
      PROVE  EndOK(n, g)
  <2>1. /\ Lacks(<<>>, "HELLO") /\ Lacks(<<>>, "ACK")
        /\ Lacks(<<"HELLO">>, "ACK") /\ Tail(<<"HELLO">>) = <<>>
    BY DEF Lacks
  <2>2. n.end[g] # "open" /\ n.serves[g] = None
    BY <1>2
  <2>3. CASE g = p /\ w.host[p].up
    <3>1. n.to[g] = <<"HELLO">> /\ n.end[g] = "hello"
      BY <1>2, <2>3
    <3>2. \A f \in Hub \ {g} : Lacks(n.to[f], "HELLO")
      BY <1>2, <2>1, <2>3
    <3>3. Head(<<"HELLO">>) = "HELLO"
      OBVIOUS
    <3>4. Lacks(n.to[g], "ACK") /\ Lacks(Tail(n.to[g]), "HELLO") /\ Head(n.to[g]) # "ACK"
      BY <2>1, <3>1, <3>3
    <3>5. WireOK(n, g)
      BY <3>1, <3>2, <3>4 DEF WireOK
    <3> QED
      BY <2>2, <3>5 DEF EndOK
  <2>4. CASE ~(g = p /\ w.host[p].up)
    <3>1. n.to[g] = <<>>
      BY <1>2, <2>4
    <3>2. WireOK(n, g)
      BY <2>1, <2>2, <3>1 DEF WireOK
    <3> QED
      BY <2>2, <3>2 DEF EndOK
  <2> QED
    BY <2>3, <2>4
<1>8. ASSUME NEW g \in Hub \ {h}
      PROVE  MemoryOK(v, r, g)
  <2>1. /\ MemoryOK(w, r, g) /\ v.host[g] = w.host[g] /\ w.host[g].installed # l
        /\ w.host[g].installed \in Link \cup {NoLink} /\ w.host[g].dial \in Link \cup {NoLink}
    BY <1>0, <1>6 DEF Memory
  <2>2. w.host[g].dial # l
    <3>1. w.host[g].dial # NoLink => w.link[w.host[g].dial].end[g] = "hello"
      BY <2>1 DEF MemoryOK
    <3> QED
      BY <1>0, <3>1
  <2>3. g = p
    BY <1>0
  <2>4. ~w.host[g].up => n.end[g] = "none"
    BY <1>2, <2>3
  <2>5. \A j \in Link : j # l => v.link[j] = w.link[j]
    BY <1>6
  <2>6. ~v.host[g].up => /\ v.host[g].installed = NoLink /\ v.host[g].dial = NoLink
                         /\ \A j \in Link : v.link[j].end[g] = "none"
    <3>1. ~w.host[g].up => /\ w.host[g].installed = NoLink /\ w.host[g].dial = NoLink
                           /\ \A j \in Link : w.link[j].end[g] = "none"
      BY <2>1 DEF MemoryOK
    <3>2. v.link[l] = n
      BY <1>6
    <3> QED
      BY <2>1, <2>4, <2>5, <3>1, <3>2
  <2>7. /\ v.host[g].installed # NoLink => v.link[v.host[g].installed] = w.link[w.host[g].installed]
        /\ v.host[g].dial # NoLink => v.link[v.host[g].dial] = w.link[w.host[g].dial]
    BY <2>1, <2>2, <2>5
  <2> QED
    BY <2>1, <2>6, <2>7 DEF MemoryOK
<1>9. MemoryOK(v, r, h)
  <2>1. MemoryOK(w, r, h) /\ w.host[h].installed \in Link \cup {NoLink}
    BY <1>0 DEF Memory
  <2>2. n.end[h] = "hello" /\ Lacks(n.to[h], "HELLO")
    BY <1>0, <1>2, EmptyLacks
  <2>3. w.host[h].installed # NoLink =>
          v.link[w.host[h].installed] = w.link[w.host[h].installed]
    BY <1>0, <1>6, <2>1
  <2>4. /\ v.host[h].up /\ v.host[h].dial = l /\ v.link[l] = n
        /\ v.host[h].installed = w.host[h].installed /\ v.host[h].wrapper = w.host[h].wrapper
        /\ v.host[h].outdated = w.host[h].outdated
        /\ v.host[h].stillborn = w.host[h].stillborn
    BY <1>4, <1>6
  <2>5. /\ v.host[h].dial # NoLink =>
             v.link[v.host[h].dial].end[h] = "hello" /\ Lacks(v.link[v.host[h].dial].to[h], "HELLO")
        /\ ~v.host[h].up => /\ v.host[h].installed = NoLink /\ v.host[h].dial = NoLink
                            /\ \A j \in Link : v.link[j].end[h] = "none"
    BY <2>2, <2>4
  <2>6. LET mem == w.host[h] IN
        /\ mem.wrapper = mem.installed
        /\ mem.installed # NoLink =>
             v.link[mem.installed].end[h] = IF mem.stillborn THEN "none" ELSE "open"
        /\ mem.installed # NoLink /\ ~mem.stillborn /\ ~mem.outdated =>
             v.link[mem.installed].serves[h] = r[h].policy
        /\ mem.installed = NoLink => ~mem.stillborn /\ ~mem.outdated
    BY <2>1, <2>3 DEF MemoryOK
  <2> QED
    BY <2>4, <2>5, <2>6 DEF MemoryOK
<1> QED
  BY <1>6, <1>7, <1>8, <1>9 DEF WorldOK

(* A tick tears down, dials or leaves all as it is.                        *)
LEMMA TickOK ==
  ASSUME NEW w, NEW r, WorldOK(w, r), NEW h \in Hub, w.host[h].up,
         NEW read \in Row, NEW v \in Tick(w, h, read)
  PROVE  WorldOK(v, r)
<1>1. \/ v = w
      \/ v = Teardown(w, h)
      \/ Idle(w) # {} /\ v = Dial(w, h, CHOOSE l \in Idle(w) : TRUE, read)
  BY DEF Tick
<1>2. CASE v = Teardown(w, h)
  BY <1>2, TeardownOK
<1>3. CASE Idle(w) # {} /\ v = Dial(w, h, CHOOSE l \in Idle(w) : TRUE, read)
  <2>1. (CHOOSE l \in Idle(w) : TRUE) \in Idle(w)
    BY <1>3
  <2> QED
    BY <1>3, <2>1, DialOK
<1> QED
  BY <1>1, <1>2, <1>3

(* The rows may change where no link is installed; whether a peer is       *)
(* enabled does not matter to the links.                                   *)
LEMMA RowsOK ==
  ASSUME NEW w, NEW r, WorldOK(w, r), NEW r2,
         \A h \in Hub : r2[h].policy = r[h].policy \/ w.host[h].installed = NoLink
  PROVE  WorldOK(w, r2)
<1>1. ASSUME NEW h \in Hub
      PROVE  MemoryOK(w, r2, h)
  BY DEF WorldOK, MemoryOK
<1> QED
  BY <1>1 DEF WorldOK

(* HELLO and ACK come to an end that waits for them, and open it.          *)
LEMMA OpenedOK ==
  ASSUME NEW w \in Worlds, NEW h \in Hub, NEW l \in Link,
         \A g \in Hub : WireOK(w.link[l], g),
         w.link[l].to[h] # <<>>, Head(w.link[l].to[h]) \in {"HELLO", "ACK"},
         NEW v, v = Opened(Read(w, h, l), h, l)
  PROVE  /\ w.link[l].end[h] = "hello"
         /\ v \in Worlds /\ v.host = w.host /\ \A j \in Link \ {l} : v.link[j] = w.link[j]
         /\ v.link[l].end[h] = "open" /\ v.link[l].serves = w.link[l].serves
         /\ \A g \in Hub \ {h} : v.link[l].end[g] = w.link[l].end[g]
         /\ \A g \in Hub : WireOK(v.link[l], g) /\ Lacks(v.link[l].to[g], "HELLO")
         /\ Head(w.link[l].to[h]) = "HELLO" =>
              /\ ~Lacks(w.link[l].to[h], "HELLO")
              /\ \A g \in Hub \ {h} : /\ v.link[l].end[g] # "open"
                                      /\ Lacks(v.link[l].to[g], "ACK")
<1>1. PICK k : k = w.link[l]
  OBVIOUS
<1>2. PICK s : s = k.to[h]
  OBVIOUS
<1>3. /\ k \in Connection /\ s \in Seq(LinkFrame) /\ s # <<>> /\ Head(s) \in {"HELLO", "ACK"}
      /\ \A g \in Hub : WireOK(k, g)
  BY <1>1, <1>2 DEF Worlds, Connection, LinkFrame
<1>4. /\ Lacks(s, "HELLO") <=> Head(s) # "HELLO" /\ Lacks(Tail(s), "HELLO")
      /\ Lacks(s, "ACK") <=> Head(s) # "ACK" /\ Lacks(Tail(s), "ACK")
  BY <1>3, TailLacks
<1>5. k.end[h] = "hello"
  BY <1>2, <1>3, <1>4 DEF WireOK, Connection
<1>6. /\ Lacks(Tail(s), "HELLO") /\ Lacks(Tail(s), "ACK")
      /\ \A g \in Hub \ {h} : Lacks(k.to[g], "HELLO")
  BY <1>2, <1>3, <1>4, <1>5 DEF WireOK
<1>7. PICK q : q = Tail(s)
  OBVIOUS
<1>8. PICK n : n = [k EXCEPT !.to[h] = q, !.end[h] = "open"]
  OBVIOUS
<1>9. /\ n \in Connection /\ n.end[h] = "open" /\ n.serves = k.serves /\ n.to[h] = q
      /\ \A g \in Hub \ {h} : n.end[g] = k.end[g] /\ n.to[g] = k.to[g]
  <2>1. q \in Seq(LinkFrame)
    BY <1>3, <1>7
  <2>2. /\ n.end = [k.end EXCEPT ![h] = "open"] /\ n.to = [k.to EXCEPT ![h] = q]
        /\ n.serves = k.serves /\ n.lost = k.lost
    BY <1>3, <1>8 DEF Connection
  <2>3. n = [end |-> n.end, serves |-> n.serves, to |-> n.to, lost |-> n.lost]
    BY <1>3, <1>8 DEF Connection
  <2>4. /\ n.end \in [Hub -> {"none", "hello", "open"}] /\ n.to \in [Hub -> Seq(LinkFrame)]
        /\ n.serves \in [Hub -> Policy \cup {None}] /\ n.lost \in BOOLEAN
    BY <1>3, <2>1, <2>2 DEF Connection, LinkFrame
  <2> QED
    BY <1>3, <2>2, <2>3, <2>4 DEF Connection, LinkFrame
<1>10. ASSUME NEW g \in Hub
       PROVE  WireOK(n, g) /\ Lacks(n.to[g], "HELLO")
  <2>1. \A f \in Hub : Lacks(n.to[f], "HELLO")
    BY <1>6, <1>7, <1>9
  <2>2. CASE g = h
    <3>0. q \in Seq(LinkFrame) /\ Lacks(q, "HELLO") /\ Lacks(q, "ACK")
      BY <1>3, <1>6, <1>7
    <3>1. q # <<>> => Lacks(Tail(q), "HELLO") /\ Head(q) # "ACK"
      BY ONLY <3>0, TailLacks
    <3> QED
      BY <1>6, <1>7, <1>9, <2>1, <2>2, <3>1 DEF WireOK
  <2>3. CASE g # h
    BY <1>3, <1>9, <2>1, <2>3 DEF WireOK
  <2> QED
    BY <2>1, <2>2, <2>3
<1>11. Head(s) = "HELLO" =>
         /\ ~Lacks(s, "HELLO")
         /\ \A g \in Hub \ {h} : n.end[g] # "open" /\ Lacks(n.to[g], "ACK")
  BY <1>2, <1>3, <1>4, <1>9 DEF WireOK
<1>12. PICK k1 : k1 = [k EXCEPT !.to[h] = q]
  OBVIOUS
<1>13. PICK x : x = [w EXCEPT !.link[l] = k1]
  OBVIOUS
<1>14. k1 \in Connection
  <2>1. q \in Seq(LinkFrame) /\ k \in Connection
    BY <1>3, <1>7
  <2> QED
    BY <2>1, <1>12 DEF Connection, LinkFrame
<1>15. x \in Worlds /\ x.host = w.host /\ x.link[l] = k1
       /\ \A j \in Link \ {l} : x.link[j] = w.link[j]
  BY <1>13, <1>14 DEF Worlds
<1>16. x = Read(w, h, l)
  BY <1>1, <1>2, <1>7, <1>12, <1>13 DEF Read, Worlds
<1>17. n = [k1 EXCEPT !.end[h] = "open"]
  BY <1>3, <1>8, <1>12 DEF Connection
<1>18. v = [x EXCEPT !.link[l] = n]
  BY <1>15, <1>16, <1>17 DEF Opened, Worlds
<1>19. v \in Worlds /\ v.host = x.host /\ v.link[l] = n
       /\ \A j \in Link \ {l} : v.link[j] = x.link[j]
  BY <1>9, <1>15, <1>18 DEF Worlds
<1> QED
  BY <1>1, <1>2, <1>5, <1>9, <1>10, <1>11, <1>15, <1>19

-----------------------------------------------------------------------------
(* The steps keep the world in order                                       *)

LEMMA WorldFields ==
  /\ World.host = host /\ World.link = link
  /\ \A w \in Worlds : Becomes(w) => World' = w
BY DEF World, Becomes, Worlds

LEMMA WorldHolds ==
  ASSUME IPeer
  PROVE  /\ World \in Worlds /\ \A l \in Link, h \in Hub : WireOK(World.link[l], h)
         /\ \A h \in Hub : host[h] \in Memory /\ MemoryOK(World, row, h) /\ row[h] \in Row
BY WorldFields DEF IPeer, WorldOK, EndOK, Worlds

(* The frames that are only heard of: BYE, and silence.                    *)
LEMMA GoesDownOK ==
  ASSUME IPeer, NEW h \in Hub, NEW l \in Link, ReadBye(h, l) \/ Hears(h, l)
  PROVE  WorldOK(World', row')
<1>1. PICK v : v = TransitionToClosed(World, h, l)
  OBVIOUS
<1>2. Closed(World, v, h, l)
  BY <1>1, WorldHolds, TransitionCloses
<1>3. WorldOK(v, row)
  BY <1>2, ClosedOK DEF IPeer
<1>4. v \in Worlds
  BY <1>2 DEF Closed
<1>5. Becomes(v) /\ row' = row
  BY <1>1 DEF ReadBye, Hears
<1> QED
  BY <1>3, <1>4, <1>5, WorldFields

(* A HELLO: the connection is closed, or accepted and answered, and then   *)
(* closed again or installed.                                              *)
LEMMA ReadHelloOK ==
  ASSUME IPeer, NEW h \in Hub, NEW l \in Link, ReadHello(h, l)
  PROVE  WorldOK(World', row')
<1>0. /\ World \in Worlds /\ \A g \in Hub : WireOK(World.link[l], g)
      /\ MemoryOK(World, row, h) /\ row[h] \in Row /\ row' = row
      /\ host[h] \in Memory /\ host[h].up
      /\ World.host = host /\ World.link = link
      /\ World.link[l].to[h] # <<>> /\ Head(World.link[l].to[h]) = "HELLO"
      /\ WorldOK(World, row)
  BY WorldHolds, WorldFields DEF ReadHello, Arrives, IPeer
<1>1. PICK x : x = Opened(Read(World, h, l), h, l)
  OBVIOUS
<1>2. /\ World.link[l].end[h] = "hello"
      /\ x \in Worlds /\ x.host = World.host
      /\ \A j \in Link \ {l} : x.link[j] = World.link[j]
      /\ x.link[l].end[h] = "open" /\ x.link[l].serves = World.link[l].serves
      /\ \A g \in Hub \ {h} : x.link[l].end[g] = World.link[l].end[g]
      /\ \A g \in Hub : WireOK(x.link[l], g) /\ Lacks(x.link[l].to[g], "HELLO")
      /\ ~Lacks(World.link[l].to[h], "HELLO")
      /\ \A g \in Hub \ {h} : x.link[l].end[g] # "open" /\ Lacks(x.link[l].to[g], "ACK")
  BY <1>0, <1>1, OpenedOK
<1>3. PICK y : y = SendFrame(x, l, Peer(h), "ACK")
  OBVIOUS
<1>4. /\ y \in Worlds /\ y.host = x.host
      /\ \A j \in Link \ {l} : y.link[j] = x.link[j]
      /\ y.link[l].end = x.link[l].end /\ y.link[l].serves = x.link[l].serves
      /\ \A g \in Hub : WireOK(y.link[l], g)
      /\ \A g \in Hub : Lacks(y.link[l].to[g], "HELLO") <=> Lacks(x.link[l].to[g], "HELLO")
  <2>1. Peer(h) \in Hub /\ Peer(h) # h
    BY PeerIsOther
  <2>2. /\ x \in Worlds /\ \A g \in Hub : WireOK(x.link[l], g) /\ Lacks(x.link[l].to[g], "HELLO")
        /\ x.link[l].end[Peer(h)] # "open" /\ Lacks(x.link[l].to[Peer(h)], "ACK")
    BY <1>2, <2>1
  <2> QED
    BY <1>3, <2>1, <2>2, SendFrameOK
<1>5. CASE ~row[h].enabled
  <2>1. PICK v : v = Close(World, h, l)
    OBVIOUS
  <2>2. Closed(World, v, h, l)
    <3>1. /\ World \in Worlds /\ (\A g \in Hub : WireOK(World.link[l], g))
          /\ World.link[l].end[h] # "none"
      BY <1>0, <1>2
    <3> QED
      BY <2>1, <3>1, CloseOK
  <2>3. WorldOK(v, row) /\ v \in Worlds
    BY <1>0, <2>2, ClosedOK
  <2>4. Becomes(v)
    BY <1>5, <2>1 DEF ReadHello
  <2> QED
    BY <1>0, <2>3, <2>4, WorldFields
<1>6. CASE row[h].enabled /\ host[h].installed # NoLink
  <2>1. PICK v : v = Close(y, h, l)
    OBVIOUS
  <2>2. Closed(y, v, h, l)
    <3>1. y \in Worlds /\ (\A g \in Hub : WireOK(y.link[l], g)) /\ y.link[l].end[h] # "none"
      BY <1>2, <1>4
    <3> QED
      BY <2>1, <3>1, CloseOK
  <2>3. Closed(World, v, h, l)
    <3>1. /\ y.host = World.host /\ y.link[l].serves = World.link[l].serves
          /\ \A j \in Link \ {l} : y.link[j] = World.link[j]
          /\ \A g \in Hub \ {h} : y.link[l].end[g] = World.link[l].end[g]
          /\ \A g \in Hub : Lacks(y.link[l].to[g], "HELLO")
      BY <1>2, <1>4
    <3> QED
      BY <2>2, <3>1 DEF Closed
  <2>4. WorldOK(v, row) /\ v \in Worlds
    BY <1>0, <2>3, ClosedOK
  <2>5. v = InstallInboundLink(y, h, l)
    BY <1>0, <1>2, <1>4, <1>6, <2>1 DEF InstallInboundLink
  <2>6. Becomes(v)
    BY <1>1, <1>3, <1>6, <2>5 DEF ReadHello
  <2> QED
    BY <1>0, <2>4, <2>6, WorldFields
<1>7. CASE row[h].enabled /\ host[h].installed = NoLink
  <2>0. PICK policy \in Policy : policy = row[h].policy
    BY <1>0 DEF Row
  <2>1. PICK v : v = Install(y, h, l, policy)
    OBVIOUS
  <2>2. y.host[h] = host[h] /\ y.host[h].wrapper = NoLink /\ y.link[l].end[h] = "open"
    BY <1>0, <1>2, <1>4, <1>7 DEF MemoryOK
  <2>3. y \in Worlds
    BY <1>4
  <2>4. /\ v \in Worlds
        /\ \A g \in Hub \ {h} : v.host[g] = y.host[g]
        /\ \A j \in Link \ {l} : v.link[j] = y.link[j]
        /\ v.link[l].end = y.link[l].end /\ v.link[l].to = y.link[l].to
        /\ v.link[l].serves[h] = policy
        /\ \A g \in Hub \ {h} : v.link[l].serves[g] = y.link[l].serves[g]
        /\ v.host[h].up = y.host[h].up /\ v.host[h].dial = y.host[h].dial
        /\ v.host[h].installed = l /\ v.host[h].wrapper = l
        /\ v.host[h].outdated = (policy # row[h].policy)
        /\ v.host[h].stillborn = (y.link[l].end[h] = "none")
    BY <2>1, <2>2, <2>3, InstallOK, SMTT(30)
  <2>5. ASSUME NEW g \in Hub
        PROVE  EndOK(v.link[l], g)
    <3>0. /\ WireOK(y.link[l], g)
          /\ v.link[l].end = y.link[l].end /\ v.link[l].to = y.link[l].to
      BY <1>4, <2>4
    <3>1. WireOK(v.link[l], g)
      BY <3>0 DEF WireOK
    <3>2. CASE g = h
      BY <2>2, <2>4, <3>1, <3>2, NoneIsNoPolicy DEF EndOK
    <3>3. CASE g # h
      <4>1. EndOK(World.link[l], g)
        BY <1>0 DEF WorldOK
      <4> QED
        BY <1>2, <1>4, <2>4, <3>1, <3>3, <4>1 DEF EndOK
    <3> QED
      BY <3>2, <3>3
  <2>6. MemoryOK(v, row, h)
    <3>1. host[h].dial # l /\ host[h].dial \in Link \cup {NoLink}
      BY <1>0, <1>2, PeeringAssumption DEF MemoryOK, Memory
    <3>2. host[h].dial # NoLink => v.link[host[h].dial] = World.link[host[h].dial]
      BY <1>2, <1>4, <2>4, <3>1
    <3>3. /\ v.host[h].dial = host[h].dial /\ v.host[h].up /\ v.link[l].end[h] = "open"
          /\ ~v.host[h].outdated /\ ~v.host[h].stillborn
      BY <1>0, <2>0, <2>2, <2>4
    <3>4. /\ v.host[h].dial # NoLink =>
               v.link[host[h].dial].end[h] = "hello" /\ Lacks(v.link[host[h].dial].to[h], "HELLO")
          /\ v.host[h].wrapper = l /\ v.host[h].installed = l /\ l # NoLink
          /\ v.link[l].serves[h] = row[h].policy
      <4>1. host[h].dial # NoLink =>
              World.link[host[h].dial].end[h] = "hello" /\ Lacks(World.link[host[h].dial].to[h], "HELLO")
        BY <1>0, <2>0 DEF MemoryOK
      <4> QED
        BY <2>4, <3>2, <3>3, <4>1, PeeringAssumption
    <3> QED
      BY <3>3, <3>4 DEF MemoryOK
  <2>7. WorldOK(v, row)
    <3>1. /\ \A g \in Hub \ {h} : v.host[g] = World.host[g]
          /\ \A j \in Link \ {l} : v.link[j] = World.link[j]
          /\ \A g \in Hub \ {h} :
               /\ v.link[l].end[g] = World.link[l].end[g]
               /\ v.link[l].serves[g] = World.link[l].serves[g]
               /\ Lacks(v.link[l].to[g], "HELLO")
      BY <1>2, <1>4, <2>4, SMTT(30)
    <3>2. v \in Worlds /\ WorldOK(World, row)
      BY <1>0, <2>4
    <3> QED
      BY ONLY <3>1, <3>2, <2>5, <2>6, TouchOK, h \in Hub, l \in Link
  <2>8. v = InstallInboundLink(y, h, l)
    BY <2>0, <2>1, <2>2, <1>0, <1>7 DEF InstallInboundLink, MemoryOK
  <2>9. Becomes(v)
    BY <1>1, <1>3, <1>7, <2>8 DEF ReadHello
  <2> QED
    BY <1>0, <2>4, <2>7, <2>9, WorldFields
<1> QED
  BY <1>5, <1>6, <1>7

(* What is left to show of a hub that waits for no dial and has a link.    *)
LEMMA InstalledMemory ==
  ASSUME NEW v, NEW r, NEW h \in Hub,
         v.host[h].up, v.host[h].dial = NoLink, v.host[h].installed # NoLink,
         v.host[h].wrapper = v.host[h].installed,
         v.link[v.host[h].installed].end[h] = IF v.host[h].stillborn THEN "none" ELSE "open",
         ~v.host[h].stillborn /\ ~v.host[h].outdated =>
           v.link[v.host[h].installed].serves[h] = r[h].policy
  PROVE  MemoryOK(v, r, h)
BY DEF MemoryOK

(* A dial goes on with an end that was opened, or was shut meanwhile: the  *)
(* link is installed, or serves without being installed if the registry    *)
(* has got another one.                                                    *)
LEMMA DialOneOK ==
  ASSUME NEW w, WorldOK(w, row), NEW h \in Hub, NEW l \in Link,
         w.host[h].up, w.link[l].end[h] = "hello",
         NEW x \in Worlds, x.host = w.host,
         \A j \in Link \ {l} : x.link[j] = w.link[j],
         x.link[l].end[h] \in {"open", "none"}, x.link[l].serves[h] = None,
         \A g \in Hub : WireOK(x.link[l], g),
         \A g \in Hub \ {h} :
           /\ x.link[l].end[g] = w.link[l].end[g] /\ x.link[l].serves[g] = w.link[l].serves[g]
           /\ Lacks(w.link[l].to[g], "HELLO") => Lacks(x.link[l].to[g], "HELLO"),
         NEW v, v = DialOne(x, h, l)
  PROVE  WorldOK(v, row) /\ v \in Worlds
<1>1. PICK m : m = [x.host[h] EXCEPT !.dial = NoLink]
  OBVIOUS
<1>2. /\ m \in Memory /\ m.up /\ m.dial = NoLink /\ m.installed = w.host[h].installed
      /\ m.wrapper = w.host[h].wrapper /\ m.outdated = w.host[h].outdated
      /\ m.stillborn = w.host[h].stillborn /\ m.asked \in Policy
  BY <1>1 DEF Worlds, Memory
<1>3. PICK y : y = [x EXCEPT !.host[h] = m]
  OBVIOUS
<1>4. /\ y \in Worlds /\ y.link = x.link /\ y.host[h] = m
      /\ \A g \in Hub \ {h} : y.host[g] = x.host[g]
  BY <1>2, <1>3 DEF Worlds
<1>5. PICK policy \in Policy : policy = m.asked
  BY <1>2
<1>6. v = Install(y, h, l, policy)
  <2>1. x.host[h].asked = m.asked
    BY <1>1 DEF Worlds, Memory
  <2>2. y = [x EXCEPT !.host[h].dial = NoLink]
    BY <1>1, <1>3 DEF Worlds
  <2> QED
    BY <1>5, <2>1, <2>2 DEF DialOne
<1>7. /\ v \in Worlds
      /\ \A g \in Hub \ {h} : v.host[g] = y.host[g]
      /\ \A j \in Link \ {l} : v.link[j] = y.link[j]
      /\ v.link[l].end = y.link[l].end /\ v.link[l].to = y.link[l].to
      /\ v.link[l].serves[h] = IF y.link[l].end[h] = "open" THEN policy
                               ELSE y.link[l].serves[h]
      /\ \A g \in Hub \ {h} : v.link[l].serves[g] = y.link[l].serves[g]
      /\ y.host[h].wrapper # NoLink => v.host[h] = y.host[h]
      /\ y.host[h].wrapper = NoLink =>
           /\ v.host[h].up = y.host[h].up /\ v.host[h].dial = y.host[h].dial
           /\ v.host[h].installed = l /\ v.host[h].wrapper = l
           /\ v.host[h].outdated = (policy # row[h].policy)
           /\ v.host[h].stillborn = (y.link[l].end[h] = "none")
  <2>1. y \in Worlds
    BY <1>4
  <2> QED
    BY <1>6, <2>1, InstallOK, SMTT(30)
<1>8. ASSUME NEW g \in Hub
      PROVE  EndOK(v.link[l], g)
  <2>0. /\ WireOK(x.link[l], g)
        /\ v.link[l].end = x.link[l].end /\ v.link[l].to = x.link[l].to
    BY <1>4, <1>7
  <2>1. WireOK(v.link[l], g)
    BY <2>0 DEF WireOK
  <2>2. CASE g = h
    <3>1. /\ v.link[l].end[h] \in {"open", "none"}
          /\ v.link[l].serves[h] = IF v.link[l].end[h] = "open" THEN policy ELSE None
      BY <1>4, <1>7
    <3> QED
      BY <2>1, <2>2, <3>1, NoneIsNoPolicy DEF EndOK
  <2>3. CASE g # h
    <3>1. EndOK(w.link[l], g)
      BY DEF WorldOK
    <3>2. v.link[l].end[g] = w.link[l].end[g] /\ v.link[l].serves[g] = w.link[l].serves[g]
      BY <1>4, <1>7, <2>3
    <3> QED
      BY <2>1, <3>1, <3>2 DEF EndOK
  <2> QED
    BY <2>2, <2>3
<1>9. MemoryOK(w, row, h) /\ NoLink \notin Link
  BY PeeringAssumption DEF WorldOK
<1>10. MemoryOK(v, row, h)
  <2>1. CASE m.wrapper # NoLink
    <3>1. v.host[h] = m /\ m.installed # NoLink /\ m.installed \in Link
      <4>1. w.host[h].wrapper = w.host[h].installed
        BY <1>9 DEF MemoryOK
      <4>2. v.host[h] = m
        BY <1>4, <1>7, <2>1
      <4>3. m.installed \in Link \cup {NoLink}
        BY <1>2 DEF Memory
      <4> QED
        BY <1>2, <2>1, <4>1, <4>2, <4>3
    <3>2. m.installed # l
      <4>1. m.installed = w.host[h].installed
        BY <1>2
      <4>2. w.host[h].installed # NoLink => w.link[w.host[h].installed].end[h] # "hello"
        BY <1>9 DEF MemoryOK
      <4> QED
        BY <3>1, <4>1, <4>2
    <3>3. v.link[m.installed] = w.link[m.installed]
      BY <1>4, <1>7, <3>1, <3>2
    <3>4. /\ m.wrapper = m.installed
          /\ v.link[m.installed].end[h] = IF m.stillborn THEN "none" ELSE "open"
          /\ ~m.stillborn /\ ~m.outdated =>
               v.link[m.installed].serves[h] = row[h].policy
      <4>1. w.host[h].installed = m.installed /\ w.host[h].installed # NoLink
        BY <1>2, <3>1
      <4>2. /\ w.host[h].wrapper = m.installed
            /\ w.link[m.installed].end[h] = IF w.host[h].stillborn THEN "none" ELSE "open"
            /\ ~w.host[h].stillborn /\ ~w.host[h].outdated =>
                 w.link[m.installed].serves[h] = row[h].policy
        BY <1>9, <4>1 DEF MemoryOK
      <4> QED
        BY <1>2, <3>3, <4>2
    <3>5. /\ v.host[h].up /\ v.host[h].dial = NoLink /\ v.host[h].installed # NoLink
          /\ v.host[h].wrapper = v.host[h].installed
          /\ v.link[v.host[h].installed].end[h] =
               IF v.host[h].stillborn THEN "none" ELSE "open"
          /\ ~v.host[h].stillborn /\ ~v.host[h].outdated =>
               v.link[v.host[h].installed].serves[h] = row[h].policy
      BY <1>2, <3>1, <3>4
    <3> QED
      BY ONLY <3>5, InstalledMemory, h \in Hub
  <2>2. CASE m.wrapper = NoLink
    <3>1. /\ v.host[h].up /\ v.host[h].dial = NoLink /\ v.host[h].installed = l
          /\ v.host[h].wrapper = v.host[h].installed
          /\ v.host[h].outdated = (policy # row[h].policy)
          /\ v.host[h].stillborn = (v.link[l].end[h] = "none")
          /\ v.link[l].end[h] \in {"open", "none"}
          /\ v.link[l].end[h] = "open" => v.link[l].serves[h] = policy
      BY <1>2, <1>4, <1>7, <2>2
    <3>2. v.host[h].installed # NoLink
      BY <1>9, <3>1
    <3>3. v.link[v.host[h].installed].end[h] = IF v.host[h].stillborn THEN "none" ELSE "open"
      BY <3>1
    <3>4. ASSUME ~v.host[h].stillborn, ~v.host[h].outdated
          PROVE  v.link[v.host[h].installed].serves[h] = row[h].policy
      BY <3>1, <3>4
    <3> QED
      BY ONLY <3>1, <3>2, <3>3, <3>4, InstalledMemory, h \in Hub
  <2> QED
    BY <2>1, <2>2
<1>11. /\ \A g \in Hub \ {h} : v.host[g] = w.host[g]
       /\ \A j \in Link \ {l} : v.link[j] = w.link[j]
       /\ \A g \in Hub \ {h} :
            /\ v.link[l].end[g] = w.link[l].end[g] /\ v.link[l].serves[g] = w.link[l].serves[g]
            /\ Lacks(w.link[l].to[g], "HELLO") => Lacks(v.link[l].to[g], "HELLO")
  BY <1>4, <1>7
<1>12. v \in Worlds
  BY <1>7
<1> QED
  BY ONLY <1>8, <1>10, <1>11, <1>12, TouchOK, WorldOK(w, row), h \in Hub, l \in Link

LEMMA ReadAckOK ==
  ASSUME IPeer, NEW h \in Hub, NEW l \in Link, ReadAck(h, l) \/ ReadAckAndBye(h, l)
  PROVE  WorldOK(World', row')
<1>0. /\ World \in Worlds /\ \A g \in Hub : WireOK(World.link[l], g)
      /\ row' = row /\ host[h].up
      /\ World.host = host /\ World.link = link
      /\ World.link[l].to[h] # <<>> /\ Head(World.link[l].to[h]) = "ACK"
      /\ WorldOK(World, row)
  BY WorldHolds, WorldFields DEF ReadAck, ReadAckAndBye, Arrives, IPeer
<1>1. PICK x : x = Opened(Read(World, h, l), h, l)
  OBVIOUS
<1>2. /\ World.link[l].end[h] = "hello"
      /\ x \in Worlds /\ x.host = World.host
      /\ \A j \in Link \ {l} : x.link[j] = World.link[j]
      /\ x.link[l].end[h] = "open" /\ x.link[l].serves = World.link[l].serves
      /\ \A g \in Hub \ {h} : x.link[l].end[g] = World.link[l].end[g]
      /\ \A g \in Hub : WireOK(x.link[l], g) /\ Lacks(x.link[l].to[g], "HELLO")
  BY <1>0, <1>1, OpenedOK
<1>3. World.link[l].serves[h] = None
  BY <1>0, <1>2 DEF WorldOK, EndOK
<1>4. CASE ReadAck(h, l)
  <2>1. PICK v : v = DialOne(x, h, l)
    OBVIOUS
  <2>2. WorldOK(v, row) /\ v \in Worlds
    <3>1. /\ x \in Worlds /\ World.host[h].up /\ x.link[l].end[h] \in {"open", "none"}
          /\ x.link[l].serves[h] = None
          /\ \A g \in Hub : WireOK(x.link[l], g)
          /\ \A g \in Hub \ {h} :
               /\ x.link[l].end[g] = World.link[l].end[g]
               /\ x.link[l].serves[g] = World.link[l].serves[g]
               /\ Lacks(World.link[l].to[g], "HELLO") => Lacks(x.link[l].to[g], "HELLO")
      BY <1>0, <1>2, <1>3
    <3> QED
      BY <1>0, <1>2, <2>1, <3>1, DialOneOK
  <2>3. Becomes(v)
    BY <1>1, <1>4, <2>1 DEF ReadAck
  <2> QED
    BY <1>0, <2>2, <2>3, WorldFields
<1>5. CASE ReadAckAndBye(h, l)
  <2>1. PICK k : k = Shut(World.link[l], h)
    OBVIOUS
  <2>2. /\ k \in Connection
        /\ \A g \in Hub : WireOK(k, g)
        /\ k.end[h] = "none" /\ k.serves[h] = None
        /\ \A g \in Hub \ {h} : /\ k.end[g] = World.link[l].end[g]
                                /\ k.serves[g] = World.link[l].serves[g]
                                /\ k.to[g] = World.link[l].to[g]
    <3>1. World.link[l] \in Connection
      BY <1>0 DEF Worlds
    <3> QED
      BY <1>0, <2>1, <3>1, ShutOK
  <2>3. PICK z : z = [World EXCEPT !.link[l] = k]
    OBVIOUS
  <2>4. /\ z \in Worlds /\ z.host = World.host /\ z.link[l] = k
        /\ \A j \in Link \ {l} : z.link[j] = World.link[j]
    BY <1>0, <2>2, <2>3 DEF Worlds
  <2>5. PICK v : v = DialOne(z, h, l)
    OBVIOUS
  <2>6. WorldOK(v, row) /\ v \in Worlds
    <3>1. /\ z \in Worlds /\ World.host[h].up /\ z.link[l].end[h] \in {"open", "none"}
          /\ z.link[l].serves[h] = None
          /\ \A g \in Hub : WireOK(z.link[l], g)
          /\ \A g \in Hub \ {h} :
               /\ z.link[l].end[g] = World.link[l].end[g]
               /\ z.link[l].serves[g] = World.link[l].serves[g]
               /\ Lacks(World.link[l].to[g], "HELLO") => Lacks(z.link[l].to[g], "HELLO")
      BY <1>0, <2>2, <2>4
    <3> QED
      BY <1>0, <1>2, <2>4, <2>5, <3>1, DialOneOK, SMTT(30)
  <2>7. Becomes(v)
    BY <1>5, <2>1, <2>3, <2>5 DEF ReadAckAndBye
  <2> QED
    BY <1>0, <2>6, <2>7, WorldFields
<1> QED
  BY <1>4, <1>5

LEMMA SeveredOK ==
  ASSUME NEW k \in Connection, NEW n, n = Severed(k)
  PROVE  /\ n \in Connection /\ n.end = k.end /\ n.serves = k.serves
         /\ \A g \in Hub : n.to[g] = <<>> /\ WireOK(n, g)
<1>1. /\ n.end = k.end /\ n.serves = k.serves /\ n.lost = TRUE
      /\ n.to = [g \in Hub |-> <<>>]
  BY DEF Severed, Connection
<1>2. n = [end |-> n.end, serves |-> n.serves, to |-> n.to, lost |-> n.lost]
  BY DEF Severed, Connection
<1>3. n.to \in [Hub -> Seq(LinkFrame)]
  BY <1>1
<1>4. \A g \in Hub : WireOK(n, g)
  BY <1>1, EmptyLacks DEF WireOK
<1>5. n.end \in [Hub -> {"none", "hello", "open"}] /\ n.serves \in [Hub -> Policy \cup {None}]
  BY <1>1 DEF Connection
<1>6. n \in Connection
  BY <1>1, <1>2, <1>3, <1>5 DEF Connection, LinkFrame
<1> QED
  BY <1>1, <1>4, <1>6

(* A connection that is lost changes no end.                               *)
LEMMA LoseOK ==
  ASSUME IPeer, NEW l \in Link, Lose(l)
  PROVE  WorldOK(World', row')
<1>1. /\ WorldOK(World, row) /\ row' = row /\ host' = host
      /\ World.host = host /\ World.link = link
      /\ host \in [Hub -> Memory] /\ link \in [Link -> Connection]
  BY WorldHolds, WorldFields DEF Lose, IPeer, Worlds
<1>2. PICK k : k = Severed(link[l])
  OBVIOUS
<1>3. /\ k \in Connection /\ k.end = link[l].end /\ k.serves = link[l].serves
      /\ \A g \in Hub : k.to[g] = <<>> /\ WireOK(k, g)
  BY <1>1, <1>2, SeveredOK
<1>4. link' = [link EXCEPT ![l] = k]
  BY <1>2 DEF Lose
<1>5. PICK v : v = [host |-> host, link |-> link']
  OBVIOUS
<1>6. World' = v
  BY <1>1, <1>5 DEF World
<1>7. /\ v \in Worlds /\ v.host = host /\ v.link[l] = k
      /\ \A j \in Link \ {l} : v.link[j] = link[j]
  BY <1>1, <1>3, <1>4, <1>5 DEF Worlds
<1>8. \A j \in Link, g \in Hub :
        /\ v.link[j].end = link[j].end /\ v.link[j].serves = link[j].serves
        /\ Lacks(link[j].to[g], "HELLO") => Lacks(v.link[j].to[g], "HELLO")
  BY <1>3, <1>7, EmptyLacks
<1>9. ASSUME NEW j \in Link, NEW g \in Hub
      PROVE  EndOK(v.link[j], g)
  <2>1. EndOK(link[j], g)
    BY <1>1 DEF WorldOK
  <2>2. CASE j = l
    BY <1>3, <1>7, <2>1, <2>2 DEF EndOK
  <2> QED
    BY <1>7, <2>1, <2>2
<1>10. ASSUME NEW g \in Hub
       PROVE  MemoryOK(v, row, g)
  <2>1. /\ MemoryOK(World, row, g) /\ host[g] \in Memory
    BY <1>1 DEF WorldOK
  <2>2. host[g].installed \in Link \cup {NoLink} /\ host[g].dial \in Link \cup {NoLink}
    BY <2>1 DEF Memory
  <2> QED
    BY <1>1, <1>7, <1>8, <2>1, <2>2 DEF MemoryOK
<1> QED
  BY <1>1, <1>6, <1>7, <1>9, <1>10 DEF WorldOK

(* A hub that dies takes all its ends and its memory with it.              *)
LEMMA CrashOK ==
  ASSUME IPeer, NEW h \in Hub, Crash(h)
  PROVE  WorldOK(World', row')
<1>1. /\ WorldOK(World, row) /\ row' = row
      /\ World.host = host /\ World.link = link
      /\ host \in [Hub -> Memory] /\ link \in [Link -> Connection]
  BY WorldHolds, WorldFields DEF Crash, IPeer, Worlds
<1>2. PICK m : m = [Blank EXCEPT !.up = FALSE]
  OBVIOUS
<1>3. /\ m \in Memory /\ ~m.up /\ m.installed = NoLink /\ m.wrapper = NoLink
      /\ m.dial = NoLink /\ ~m.outdated /\ ~m.stillborn
  <2>1. 0 \in Policy
    BY PeeringAssumption DEF Policy
  <2>2. m = [up |-> FALSE, installed |-> NoLink, wrapper |-> NoLink, dial |-> NoLink,
             asked |-> 0, outdated |-> FALSE, stillborn |-> FALSE]
    BY <1>2 DEF Blank
  <2> QED
    BY <2>1, <2>2 DEF Memory
<1>4. host' = [host EXCEPT ![h] = m]
  BY <1>2 DEF Crash
<1>5. ASSUME NEW j \in Link
      PROVE  /\ link'[j] \in Connection /\ link'[j].end[h] = "none"
             /\ link'[j].serves[h] = None
             /\ \A g \in Hub : WireOK(link'[j], g)
             /\ \A g \in Hub \ {h} :
                  /\ link'[j].end[g] = link[j].end[g] /\ link'[j].serves[g] = link[j].serves[g]
                  /\ Lacks(link[j].to[g], "HELLO") => Lacks(link'[j].to[g], "HELLO")
  <2>1. /\ link[j] \in Connection /\ \A g \in Hub : EndOK(link[j], g)
    BY <1>1 DEF WorldOK
  <2>2. CASE link[j].end[h] = "none"
    <3>1. link'[j] = link[j]
      BY <2>2 DEF Crash
    <3>2. link[j].serves[h] = None
      BY <2>1, <2>2 DEF EndOK
    <3> QED
      BY <2>1, <2>2, <3>1, <3>2 DEF EndOK
  <2>3. CASE link[j].end[h] # "none"
    <3>1. PICK k : k = Severed(link[j])
      OBVIOUS
    <3>2. /\ k \in Connection /\ k.end = link[j].end /\ k.serves = link[j].serves
          /\ \A g \in Hub : k.to[g] = <<>> /\ WireOK(k, g)
      BY <2>1, <3>1, SeveredOK
    <3>3. PICK n : n = Shut(k, h)
      OBVIOUS
    <3>4. /\ n \in Connection
          /\ \A g \in Hub : WireOK(n, g)
          /\ n.end[h] = "none" /\ n.serves[h] = None
          /\ \A g \in Hub \ {h} : /\ n.end[g] = k.end[g] /\ n.serves[g] = k.serves[g]
                                  /\ n.to[g] = k.to[g]
      BY <3>2, <3>3, ShutOK
    <3>5. link'[j] = n
      BY <2>3, <3>1, <3>3 DEF Crash
    <3> QED
      BY <3>2, <3>4, <3>5, EmptyLacks
  <2> QED
    BY <2>2, <2>3
<1>6. DOMAIN link' = Link /\ link' = [j \in Link |-> link'[j]]
  BY DEF Crash
<1>7. PICK v : v = [host |-> host', link |-> link']
  OBVIOUS
<1>8. World' = v
  BY <1>7 DEF World
<1>9. /\ v \in Worlds /\ v.link = link' /\ v.host[h] = m
      /\ \A g \in Hub \ {h} : v.host[g] = host[g]
  <2>1. host' \in [Hub -> Memory] /\ host'[h] = m /\ \A g \in Hub \ {h} : host'[g] = host[g]
    BY <1>1, <1>3, <1>4
  <2>2. link' \in [Link -> Connection]
    BY <1>5, <1>6
  <2> QED
    BY <1>7, <2>1, <2>2 DEF Worlds
<1>10. ASSUME NEW j \in Link, NEW g \in Hub
       PROVE  EndOK(v.link[j], g)
  <2>1. EndOK(link[j], g)
    BY <1>1 DEF WorldOK
  <2>2. CASE g = h
    BY <1>5, <1>9, <2>2 DEF EndOK
  <2>3. CASE g # h
    BY <1>5, <1>9, <2>1, <2>3 DEF EndOK
  <2> QED
    BY <2>2, <2>3
<1>11. ASSUME NEW g \in Hub
       PROVE  MemoryOK(v, row, g)
  <2>1. CASE g = h
    BY <1>3, <1>5, <1>9, <2>1 DEF MemoryOK
  <2>2. CASE g # h
    <3>1. /\ MemoryOK(World, row, g) /\ host[g] \in Memory /\ v.host[g] = host[g]
      BY <1>1, <1>9, <2>2 DEF WorldOK
    <3>2. host[g].installed \in Link \cup {NoLink} /\ host[g].dial \in Link \cup {NoLink}
      BY <3>1 DEF Memory
    <3>3. \A j \in Link :
            /\ v.link[j].end[g] = link[j].end[g] /\ v.link[j].serves[g] = link[j].serves[g]
            /\ Lacks(link[j].to[g], "HELLO") => Lacks(v.link[j].to[g], "HELLO")
      BY <1>5, <1>9, <2>2
    <3> QED
      BY <1>1, <3>1, <3>2, <3>3 DEF MemoryOK
  <2> QED
    BY <2>1, <2>2
<1> QED
  BY <1>1, <1>8, <1>9, <1>10, <1>11 DEF WorldOK

(* A hub comes back with an empty memory.                                  *)
LEMMA RestartOK ==
  ASSUME IPeer, NEW h \in Hub, Restart(h)
  PROVE  WorldOK(World', row')
<1>1. /\ WorldOK(World, row) /\ row' = row /\ link' = link
      /\ World.host = host /\ World.link = link
      /\ host \in [Hub -> Memory] /\ link \in [Link -> Connection]
  BY WorldHolds, WorldFields DEF Restart, IPeer, Worlds
<1>2. PICK m : m = [host[h] EXCEPT !.up = TRUE]
  OBVIOUS
<1>3. /\ m \in Memory /\ m.up /\ m.installed = host[h].installed
      /\ m.wrapper = host[h].wrapper /\ m.dial = host[h].dial
      /\ m.outdated = host[h].outdated /\ m.stillborn = host[h].stillborn
  BY <1>1, <1>2 DEF Memory
<1>4. host' = [host EXCEPT ![h] = m]
  BY <1>1, <1>2 DEF Restart
<1>5. PICK v : v = [host |-> host', link |-> link']
  OBVIOUS
<1>6. World' = v
  BY <1>5 DEF World
<1>7. /\ v \in Worlds /\ v.link = link /\ v.host[h] = m
      /\ \A g \in Hub \ {h} : v.host[g] = host[g]
  BY <1>1, <1>3, <1>4, <1>5 DEF Worlds
<1>8. ASSUME NEW g \in Hub
      PROVE  MemoryOK(v, row, g)
  <2>1. MemoryOK(World, row, g)
    BY <1>1 DEF WorldOK
  <2>2. CASE g = h
    <3>1. /\ v.host[h].installed = host[h].installed /\ v.host[h].wrapper = host[h].wrapper
          /\ v.host[h].dial = host[h].dial /\ v.host[h].outdated = host[h].outdated
          /\ v.host[h].stillborn = host[h].stillborn /\ v.host[h].up
          /\ v.link = link /\ World.link = link /\ World.host = host
      BY <1>1, <1>3, <1>7
    <3> QED
      BY <2>1, <2>2, <3>1 DEF MemoryOK
  <2>3. CASE g # h
    BY <1>1, <1>7, <2>1, <2>3 DEF MemoryOK
  <2> QED
    BY <2>2, <2>3
<1> QED
  BY <1>1, <1>6, <1>7, <1>8 DEF WorldOK

(* A tick, before or after an edit of the row.                             *)
LEMMA PollTickOK ==
  ASSUME IPeer, NEW h \in Hub, PollTick(h)
  PROVE  WorldOK(World', row')
<1>1. PICK v \in Tick(World, h, row[h]) : Becomes(v)
  BY DEF PollTick
<1>2. WorldOK(v, row)
  <2>1. WorldOK(World, row) /\ World.host[h].up /\ row[h] \in Row
    BY WorldHolds, WorldFields DEF PollTick, IPeer
  <2> QED
    BY <1>1, <2>1, TickOK
<1>3. v \in Worlds /\ row' = row
  BY <1>2 DEF WorldOK, PollTick
<1> QED
  BY <1>1, <1>2, <1>3, WorldFields

LEMMA ToggleOK ==
  ASSUME IPeer, NEW h \in Hub, Toggle(h)
  PROVE  WorldOK(World', row')
<1>1. /\ row' \in [Hub -> Row] /\ \A g \in Hub : row'[g].policy = row[g].policy
  BY DEF Toggle, IPeer, Row
<1>2. PICK v \in Tick(World, h, row'[h]) : Becomes(v)
  BY DEF Toggle
<1>3. WorldOK(v, row)
  <2>1. WorldOK(World, row) /\ World.host[h].up /\ row'[h] \in Row
    BY <1>1, WorldHolds, WorldFields DEF Toggle, IPeer
  <2> QED
    BY <1>2, <2>1, TickOK
<1>4. v \in Worlds /\ WorldOK(v, row')
  <2>1. v \in Worlds
    BY <1>3 DEF WorldOK
  <2>2. \A g \in Hub : row'[g].policy = row[g].policy \/ v.host[g].installed = NoLink
    BY <1>1
  <2> QED
    BY <1>3, <2>1, <2>2, RowsOK
<1> QED
  BY <1>2, <1>4, WorldFields

(* The link is torn down before the tick: the new row finds none.          *)
LEMMA EditOK ==
  ASSUME IPeer, NEW h \in Hub, Edit(h)
  PROVE  WorldOK(World', row')
<1>1. /\ row' \in [Hub -> Row] /\ \A g \in Hub \ {h} : row'[g] = row[g]
  <2>1. row[h].policy + 1 \in Policy /\ row[h] \in Row /\ row \in [Hub -> Row]
    <3>1. row[h].policy <= spent.edit /\ spent.edit < MaxEdit /\ spent.edit \in 0..MaxEdit
      BY DEF IPeer, Edit
    <3>2. row \in [Hub -> Row] /\ row[h].policy \in 0..MaxEdit
      BY DEF IPeer, Row, Policy
    <3> QED
      BY <3>1, <3>2, PeeringAssumption DEF Policy
  <2>2. PICK p \in Policy : p = row[h].policy + 1
    BY <2>1
  <2>3. PICK m : m = [row[h] EXCEPT !.policy = p]
    OBVIOUS
  <2>4. m \in Row
    BY <2>1, <2>3 DEF Row
  <2>5. row' = [row EXCEPT ![h] = m]
    BY <2>1, <2>2, <2>3 DEF Edit
  <2> QED
    BY <2>1, <2>4, <2>5
<1>2. PICK t : t = Teardown(World, h)
  OBVIOUS
<1>3. WorldOK(t, row) /\ t.host[h].installed = NoLink /\ t.host[h].up
  <2>1. WorldOK(World, row) /\ World.host[h].up
    BY WorldFields DEF IPeer, Edit
  <2> QED
    BY <1>2, <2>1, TeardownOK
<1>4. WorldOK(t, row')
  <2>1. \A g \in Hub : row'[g].policy = row[g].policy \/ t.host[g].installed = NoLink
    BY <1>1, <1>3
  <2> QED
    BY <1>3, <2>1, RowsOK
<1>5. PICK v \in Tick(t, h, row'[h]) : Becomes(v)
  BY <1>2 DEF Edit, RefreshPolicy
<1>6. WorldOK(v, row')
  <2>1. row'[h] \in Row
    BY <1>1
  <2> QED
    BY <1>3, <1>4, <1>5, <2>1, TickOK
<1>7. v \in Worlds
  BY <1>6 DEF WorldOK
<1> QED
  BY <1>5, <1>6, <1>7, WorldFields

-----------------------------------------------------------------------------
(* The invariant                                                           *)

LEMMA PeerInitHolds == PeerInit => IPeer
<1> SUFFICES ASSUME PeerInit PROVE IPeer
  OBVIOUS
<1>1. 0 \in Policy /\ 0 \in 0..MaxEdit /\ 0 \in 0..MaxLoss /\ 0 \in 0..MaxCrash
  BY PeeringAssumption DEF Policy
<1>2. Blank \in Memory
  BY <1>1 DEF Blank, Memory
<1>3. Unused \in Connection
  <2>1. [g \in Hub |-> <<>>] \in [Hub -> Seq(LinkFrame)]
    OBVIOUS
  <2> QED
    BY <2>1 DEF Unused, Connection, LinkFrame
<1>4. /\ \A h \in Hub : host[h] = Blank /\ row[h] = [enabled |-> TRUE, policy |-> 0]
      /\ \A l \in Link : link[l] = Unused
      /\ World.host = host /\ World.link = link
  BY WorldFields DEF PeerInit
<1>5. World \in Worlds
  BY <1>2, <1>3 DEF PeerInit, World, Worlds
<1>6. ASSUME NEW l \in Link, NEW h \in Hub
      PROVE  EndOK(link[l], h)
  <2>1. /\ link[l].end[h] = "none" /\ \A g \in Hub : link[l].to[g] = <<>>
        /\ link[l].serves[h] = None
    BY <1>4 DEF Unused
  <2> QED
    BY <2>1, EmptyLacks DEF EndOK, WireOK
<1>7. ASSUME NEW h \in Hub
      PROVE  MemoryOK(World, row, h)
  <2>1. /\ host[h].wrapper = NoLink /\ host[h].installed = NoLink /\ host[h].dial = NoLink
        /\ host[h].up /\ ~host[h].outdated /\ ~host[h].stillborn
    BY <1>4 DEF Blank
  <2> QED
    BY <1>4, <2>1 DEF MemoryOK
<1>8. WorldOK(World, row)
  BY <1>4, <1>5, <1>6, <1>7 DEF WorldOK
<1>9. /\ row \in [Hub -> Row] /\ \A h \in Hub : row[h].policy <= spent.edit
      /\ spent \in [edit : 0..MaxEdit, loss : 0..MaxLoss, crash : 0..MaxCrash]
  BY <1>1 DEF PeerInit, Row
<1> QED
  BY <1>8, <1>9 DEF IPeer

(* What is spent, and that a policy is a number of edits.                  *)
LEMMA RowsAndBounds ==
  ASSUME IPeer, PeerNext
  PROVE  /\ row' \in [Hub -> Row]
         /\ spent' \in [edit : 0..MaxEdit, loss : 0..MaxLoss, crash : 0..MaxCrash]
         /\ \A h \in Hub : row'[h].policy <= spent'.edit
<1> DEFINE Goal ==
      /\ row' \in [Hub -> Row]
      /\ spent' \in [edit : 0..MaxEdit, loss : 0..MaxLoss, crash : 0..MaxCrash]
      /\ \A h \in Hub : row'[h].policy <= spent'.edit
<1>0. /\ row \in [Hub -> Row]
      /\ spent \in [edit : 0..MaxEdit, loss : 0..MaxLoss, crash : 0..MaxCrash]
      /\ \A h \in Hub : row[h].policy <= spent.edit
      /\ MaxEdit \in Nat /\ MaxLoss \in Nat /\ MaxCrash \in Nat
  BY PeeringAssumption DEF IPeer
<1>1. CASE UNCHANGED <<row, spent>>
  BY <1>0, <1>1
<1>2. ASSUME NEW h \in Hub, Toggle(h)
      PROVE  Goal
  <2>1. /\ row' \in [Hub -> Row] /\ \A g \in Hub : row'[g].policy = row[g].policy
    BY <1>0, <1>2 DEF Toggle, Row
  <2>2. /\ spent' \in [edit : 0..MaxEdit, loss : 0..MaxLoss, crash : 0..MaxCrash]
        /\ spent'.edit = spent.edit + 1
    BY <1>0, <1>2 DEF Toggle
  <2>3. \A g \in Hub : row'[g].policy <= spent'.edit
    BY <1>0, <2>1, <2>2 DEF Row, Policy
  <2> QED
    BY <2>1, <2>2, <2>3
<1>3. ASSUME NEW h \in Hub, Edit(h)
      PROVE  Goal
  <2>1. row[h].policy <= spent.edit /\ spent.edit < MaxEdit /\ row[h].policy \in 0..MaxEdit
    BY <1>0, <1>3 DEF Edit, Row, Policy
  <2>2. PICK p \in Policy : p = row[h].policy + 1
    BY <1>0, <2>1 DEF Policy
  <2>3. PICK m : m = [row[h] EXCEPT !.policy = p]
    OBVIOUS
  <2>4. m \in Row /\ m.policy = p
    BY <1>0, <2>3 DEF Row
  <2>5. row' = [row EXCEPT ![h] = m]
    BY <1>0, <1>3, <2>2, <2>3 DEF Edit
  <2>6. /\ spent' \in [edit : 0..MaxEdit, loss : 0..MaxLoss, crash : 0..MaxCrash]
        /\ spent'.edit = spent.edit + 1
    BY <1>0, <1>3 DEF Edit
  <2>7. row' \in [Hub -> Row] /\ row'[h] = m /\ \A g \in Hub \ {h} : row'[g] = row[g]
    BY <1>0, <2>4, <2>5
  <2>8. ASSUME NEW g \in Hub PROVE row'[g].policy <= spent'.edit
    <3>1. row[g].policy <= spent.edit /\ row[g].policy \in 0..MaxEdit /\ spent.edit \in 0..MaxEdit
      BY <1>0 DEF Row, Policy
    <3>2. row'[g].policy = row[g].policy \/ (g = h /\ row'[g].policy = row[g].policy + 1)
      BY <2>2, <2>4, <2>7
    <3> QED
      BY <1>0, <2>6, <3>1, <3>2
  <2> QED
    BY <2>6, <2>7, <2>8
<1>4. ASSUME NEW l \in Link, Lose(l)
      PROVE  Goal
  BY <1>0, <1>4 DEF Lose
<1>5. ASSUME NEW h \in Hub, Crash(h)
      PROVE  Goal
  BY <1>0, <1>5 DEF Crash
<1> HIDE DEF Goal
<1>6. Goal
  <2>1. ASSUME NEW h \in Hub, PollTick(h) \/ Restart(h) PROVE UNCHANGED <<row, spent>>
    BY <2>1 DEF PollTick, Restart
  <2>2. ASSUME NEW h \in Hub, NEW l \in Link, PeerReads(h, l) \/ Hears(h, l)
        PROVE  UNCHANGED <<row, spent>>
    BY <2>2 DEF PeerReads, ReadHello, ReadAck, ReadAckAndBye, ReadBye, Hears
  <2>3. UNCHANGED <<row, spent>> => Goal
    BY <1>1 DEF Goal
  <2> QED
    BY <1>2, <1>3, <1>4, <1>5, <2>1, <2>2, <2>3 DEF PeerNext
<1> QED
  BY <1>6 DEF Goal

LEMMA PeerNextKeeps == IPeer /\ [PeerNext]_peerVars => IPeer'
<1> SUFFICES ASSUME IPeer, [PeerNext]_peerVars PROVE IPeer'
  OBVIOUS
<1>1. CASE UNCHANGED peerVars
  BY <1>1 DEF peerVars, IPeer, WorldOK, World, Worlds, EndOK, WireOK, MemoryOK
<1>2. CASE PeerNext
  <2>1. WorldOK(World', row')
    <3>1. ASSUME NEW h \in Hub, PollTick(h) \/ Toggle(h) \/ Edit(h) \/ Crash(h) \/ Restart(h)
          PROVE  WorldOK(World', row')
      BY <3>1, PollTickOK, ToggleOK, EditOK, CrashOK, RestartOK
    <3>2. ASSUME NEW h \in Hub, NEW l \in Link, PeerReads(h, l) \/ Hears(h, l)
          PROVE  WorldOK(World', row')
      BY <3>2, ReadHelloOK, ReadAckOK, GoesDownOK DEF PeerReads
    <3>3. ASSUME NEW l \in Link, Lose(l)
          PROVE  WorldOK(World', row')
      BY <3>3, LoseOK
    <3> QED
      BY <1>2, <3>1, <3>2, <3>3 DEF PeerNext
  <2> QED
    BY <1>2, <2>1, RowsAndBounds DEF IPeer
<1> QED
  BY <1>1, <1>2

(* The invariant of two hubs and the links between them.                   *)
THEOREM PeerInvariant == PeerSpec => []IPeer
<1> QED
  BY PeerInitHolds, PeerNextKeeps, PTL DEF PeerSpec

(* Rows, the memory of the hubs, the connections and what is under way are *)
(* well-typed; an end that is closed has nothing to read and serves no     *)
(* task.                                                                   *)
THEOREM PeerTypeCorrect == PeerSpec => []PeerTypeOK
<1>1. IPeer => PeerTypeOK
  <2> SUFFICES ASSUME IPeer PROVE PeerTypeOK
    OBVIOUS
  <2>1. /\ host \in [Hub -> Memory] /\ link \in [Link -> Connection]
        /\ \A l \in Link, h \in Hub : EndOK(link[l], h)
    BY WorldHolds, WorldFields DEF IPeer, WorldOK, Worlds
  <2>2. ASSUME NEW l \in Link, NEW h \in Hub, link[l].end[h] = "none"
        PROVE  link[l].to[h] = <<>> /\ link[l].serves[h] = None
    BY <2>1, <2>2 DEF EndOK, WireOK
  <2> QED
    BY <2>1, <2>2 DEF IPeer, PeerTypeOK
<1> QED
  BY <1>1, PeerInvariant, PTL

(* The hub routes the peer's tasks into the link the registry knows, and   *)
(* that link's end is open, or was closed before it was installed.         *)
THEOREM WrapperLive == PeerSpec => []WrapperIsLive
<1>1. IPeer => WrapperIsLive
  <2> SUFFICES ASSUME IPeer, NEW h \in Hub
               PROVE  /\ host[h].wrapper = host[h].installed
                      /\ \/ host[h].installed = NoLink \/ host[h].stillborn
                         \/ host[h].installed \in Open(h)
    BY DEF WrapperIsLive
  <2>1. MemoryOK(World, row, h) /\ host[h].installed \in Link \cup {NoLink}
    BY WorldHolds DEF Memory
  <2> QED
    BY <2>1, WorldFields DEF MemoryOK, Open
<1> QED
  BY <1>1, PeerInvariant, PTL

(* An installed link serves the peer under the policy of its row, unless   *)
(* the policy was edited while the link was being dialled.                 *)
THEOREM PolicyInForce == PeerSpec => []ServesRowPolicy
<1>1. IPeer => ServesRowPolicy
  <2> SUFFICES ASSUME IPeer, NEW h \in Hub,
                      host[h].installed \in Open(h), ~host[h].outdated
               PROVE  link[host[h].installed].serves[h] = row[h].policy
    BY DEF ServesRowPolicy
  <2>1. MemoryOK(World, row, h) /\ host[h].installed # NoLink
    BY WorldHolds, PeeringAssumption DEF Open
  <2>2. ~host[h].stillborn
    BY <2>1, WorldFields DEF MemoryOK, Open
  <2> QED
    BY <2>1, <2>2, WorldFields DEF MemoryOK
<1> QED
  BY <1>1, PeerInvariant, PTL

(* What the registry knows about a peer is so: its link is open, and under *)
(* the row's policy.                                                       *)
THEOREM RegistryRight == PeerSpec => []RegistryIsRight
<1>1. WrapperIsLive /\ ServesRowPolicy => RegistryIsRight
  BY DEF RegistryIsRight
<1> QED
  BY <1>1, WrapperLive, PolicyInForce, PTL

(* An end is open exactly if it serves the peer's tasks: a link that lost  *)
(* its place to another one keeps serving, and no end that is closed does. *)
THEOREM OpenServes ==
  PeerSpec => [](\A l \in Link, h \in Hub : link[l].end[h] = "open" <=> link[l].serves[h] # None)
<1>1. IPeer => \A l \in Link, h \in Hub : link[l].end[h] = "open" <=> link[l].serves[h] # None
  BY WorldFields DEF IPeer, WorldOK, EndOK
<1> QED
  BY <1>1, PeerInvariant, PTL
=============================================================================
