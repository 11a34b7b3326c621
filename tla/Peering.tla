------------------------------- MODULE Peering -------------------------------
(* Two hubs that are registered as each other's peer (PeerRegistry of the   *)
(* host, WebSocketHubLink of the transport, installPeerLink of the core).   *)
(* Each has a row for the other in its peers table.  A tick of the registry *)
(* compares the row with the links and dials; the other side accepts.  Both *)
(* may dial at once, either may lose the link without being told, and the   *)
(* administrator edits the rows meanwhile.                                  *)
(*                                                                          *)
(* An action is what runs without giving up control.  The functions on a    *)
(* `world' (both hubs and all links) are the code's methods; an action      *)
(* applies the ones its handler calls, one after the other.                 *)
EXTENDS Naturals, Sequences, FiniteSets

CONSTANTS
  Hub,       \* the two hubs
  Link,      \* connections; one that both ends have dropped is used again
  NoLink,
  MaxEdit,   \* bound: edits of rows
  MaxLoss,   \* bound: connections that go dead
  MaxCrash,  \* bound: hubs that die
  Burst      \* may two frames of one packet be handled in one go

ASSUME PeeringAssumption ==
  /\ IsFiniteSet(Hub) /\ Cardinality(Hub) = 2 /\ NoLink \notin Link
  /\ MaxEdit \in Nat /\ MaxLoss \in Nat /\ MaxCrash \in Nat /\ Burst \in BOOLEAN

VARIABLES
  row,    \* the peers table: is the peer enabled, which policy does it have
  host,   \* memory of each hub
  link,   \* both ends of each connection, and the frames under way
  spent   \* how much of the bounds is used

peerVars == <<row, host, link, spent>>

Peer(h) == CHOOSE p \in Hub : p # h

Policy == 0..MaxEdit
None == MaxEdit + 1     \* an end whose 'task' handler is not set

Row == [enabled : BOOLEAN, policy : Policy]

(* installed: the registry's map.  wrapper: the link behind the participant *)
(* that stands for the peer on this hub.  dial, asked: the dial a tick is   *)
(* waiting for and the row it read.  outdated and stillborn are history of  *)
(* the installed link: its policy was edited during the dial; it was closed *)
(* before it was installed.                                                 *)
Memory == [up : BOOLEAN, installed : Link \cup {NoLink}, wrapper : Link \cup {NoLink},
           dial : Link \cup {NoLink}, asked : Policy, outdated : BOOLEAN, stillborn : BOOLEAN]

Connection == [end : [Hub -> {"none", "hello", "open"}], serves : [Hub -> Policy \cup {None}],
               to : [Hub -> Seq({"HELLO", "ACK", "BYE"})], lost : BOOLEAN]

Blank == [up |-> TRUE, installed |-> NoLink, wrapper |-> NoLink, dial |-> NoLink,
          asked |-> 0, outdated |-> FALSE, stillborn |-> FALSE]

Unused == [end |-> [h \in Hub |-> "none"], serves |-> [h \in Hub |-> None],
           to |-> [h \in Hub |-> <<>>], lost |-> FALSE]

PeerInit ==
  /\ row = [h \in Hub |-> [enabled |-> TRUE, policy |-> 0]]
  /\ host = [h \in Hub |-> Blank]
  /\ link = [l \in Link |-> Unused]
  /\ spent = [edit |-> 0, loss |-> 0, crash |-> 0]

World == [host |-> host, link |-> link]
Becomes(w) == host' = w.host /\ link' = w.link

-----------------------------------------------------------------------------
(* The two ends of a connection                                            *)

SendFrame_Blind(w, l, to, frame) ==
  IF w.link[l].lost THEN w ELSE [w EXCEPT !.link[l].to[to] = Append(@, frame)]

(* A frame written to a socket that is not open is dropped without a word. *)
SendFrame(w, l, to, frame) ==
  IF w.link[l].lost \/ w.link[l].end[to] = "none" THEN w
  ELSE [w EXCEPT !.link[l].to[to] = Append(@, frame)]

OnLinkClosed_KeepsWrapper(w, h, l) ==
  IF w.host[h].installed # l THEN w
  ELSE [w EXCEPT !.host[h].installed = NoLink]

(* The listener that evicts a closed link; it also takes the wrapper off   *)
(* the hub.                                                                *)
OnLinkClosed(w, h, l) ==
  IF w.host[h].installed # l THEN w
  ELSE [w EXCEPT !.host[h] = [@ EXCEPT !.installed = NoLink, !.wrapper = NoLink,
                                       !.outdated = FALSE, !.stillborn = FALSE]]

DialFails_InFlight(w, h, l) == w

(* A dial that is waiting on the link fails with it, and so ends its tick. *)
DialFails(w, h, l) ==
  IF w.host[h].dial # l THEN w ELSE [w EXCEPT !.host[h].dial = NoLink]

(* An end that is closed reads and serves nothing.                         *)
Shut(k, h) == [k EXCEPT !.end[h] = "none", !.to[h] = <<>>, !.serves[h] = None]

TransitionToClosed(w, h, l) ==
  OnLinkClosed(DialFails([w EXCEPT !.link[l] = Shut(@, h)], h, l), h, l)

Close(w, h, l) ==
  IF w.link[l].end[h] = "none" THEN w
  ELSE TransitionToClosed(SendFrame(w, l, Peer(h), "BYE"), h, l)

Teardown(w, h) ==
  LET l == w.host[h].installed IN
  IF l = NoLink THEN w ELSE OnLinkClosed(Close(w, h, l), h, l)

(* The handler for the peer's tasks is set before the wrapper is           *)
(* registered, which throws if the hub already has one for this peer.  The *)
(* link is then neither installed nor closed.                              *)
Install(w, h, l, policy) ==
  LET handles == IF w.link[l].end[h] = "open"
                 THEN [w EXCEPT !.link[l].serves[h] = policy] ELSE w IN
  IF w.host[h].wrapper # NoLink THEN handles
  ELSE [handles EXCEPT !.host[h] = [@ EXCEPT
          !.installed = l, !.wrapper = l, !.outdated = policy # row[h].policy,
          !.stillborn = w.link[l].end[h] = "none"]]

-----------------------------------------------------------------------------
(* The registry's tick                                                     *)

Idle(w) ==
  {l \in Link : \A h \in Hub : /\ w.link[l].end[h] = "none"
                               /\ l \notin {w.host[h].installed, w.host[h].wrapper}}

(* A connection to a hub that is down is never opened.                     *)
Dial(w, h, l, r) ==
  LET p == Peer(h) IN
  [w EXCEPT
    !.host[h] = [@ EXCEPT !.dial = l, !.asked = r.policy],
    !.link[l] = [Unused EXCEPT
      !.end = [g \in Hub |-> IF g = h \/ w.host[p].up THEN "hello" ELSE "none"],
      !.to[p] = IF w.host[p].up THEN <<"HELLO">> ELSE <<>>,
      !.lost = ~w.host[p].up]]

Tick_Connected(w, h, r) ==
  IF w.host[h].dial # NoLink \/ w.host[h].installed # NoLink THEN {w}
  ELSE IF ~r.enabled \/ Idle(w) = {} THEN {w}
  ELSE {w, Dial(w, h, CHOOSE l \in Idle(w) : TRUE, r)}

(* What a tick may do, with the back-off of an earlier failure or without. *)
Tick(w, h, r) ==
  IF w.host[h].dial # NoLink THEN {w}
  ELSE IF ~r.enabled THEN {Teardown(w, h)}
  ELSE IF w.host[h].installed # NoLink \/ Idle(w) = {} THEN {w}
  ELSE {w, Dial(w, h, CHOOSE l \in Idle(w) : TRUE, r)}

(* Polls are seconds apart and a BYE takes milliseconds: none is under way  *)
(* at a poll.  Ticks after an edit come at any moment.                      *)
ByeUnderWay == \E l \in Link, g \in Hub : \E i \in DOMAIN link[l].to[g] : link[l].to[g][i] = "BYE"

PollTick(h) ==
  /\ host[h].up /\ ~ByeUnderWay
  /\ \E w \in Tick(World, h, row[h]) : w # World /\ Becomes(w)
  /\ UNCHANGED <<row, spent>>

(* invalidate() after the row is enabled or disabled.                      *)
Toggle(h) ==
  /\ host[h].up /\ spent.edit < MaxEdit
  /\ row' = [row EXCEPT ![h].enabled = ~@]
  /\ spent' = [spent EXCEPT !.edit = @ + 1]
  /\ \E w \in Tick(World, h, row'[h]) : Becomes(w)

(* refreshPolicy() after the policy is edited.                             *)
RefreshPolicy(w, h) == Teardown(w, h)

Edit(h) ==
  /\ host[h].up /\ spent.edit < MaxEdit
  /\ row' = [row EXCEPT ![h].policy = @ + 1]
  /\ spent' = [spent EXCEPT !.edit = @ + 1]
  /\ \E w \in Tick(RefreshPolicy(World, h), h, row'[h]) : Becomes(w)

-----------------------------------------------------------------------------
(* Frames arrive                                                           *)

Arrives(h, l, frame) ==
  host[h].up /\ link[l].to[h] # <<>> /\ Head(link[l].to[h]) = frame

Read(w, h, l) == [w EXCEPT !.link[l].to[h] = Tail(@)]

Opened(w, h, l) == [w EXCEPT !.link[l].end[h] = "open"]

(* An inbound link is closed again if the registry has one already.        *)
InstallInboundLink(w, h, l) ==
  IF w.host[h].installed # NoLink THEN Close(w, h, l)
  ELSE Install(w, h, l, row[h].policy)

(* The token of a peer that is not enabled does not resolve.               *)
ReadHello(h, l) ==
  /\ Arrives(h, l, "HELLO")
  /\ Becomes(IF row[h].enabled
             THEN InstallInboundLink(
                    SendFrame(Opened(Read(World, h, l), h, l), l, Peer(h), "ACK"), h, l)
             ELSE Close(World, h, l))
  /\ UNCHANGED <<row, spent>>

(* The dial goes on in the same turn of the event loop, with the row its   *)
(* tick has read.                                                          *)
DialOne(w, h, l) ==
  Install([w EXCEPT !.host[h].dial = NoLink], h, l, w.host[h].asked)

ReadAck(h, l) ==
  /\ Arrives(h, l, "ACK")
  /\ Becomes(DialOne(Opened(Read(World, h, l), h, l), h, l))
  /\ UNCHANGED <<row, spent>>

(* The ACK and a BYE in one packet are both handled before the dial goes   *)
(* on: it installs a link that is closed already, whose `closed' listener  *)
(* it attaches too late.                                                   *)
ReadAckAndBye(h, l) ==
  /\ Burst /\ Arrives(h, l, "ACK") /\ link[l].to[h] = <<"ACK", "BYE">>
  /\ Becomes(DialOne([World EXCEPT !.link[l] = Shut(@, h)], h, l))
  /\ UNCHANGED <<row, spent>>

ReadBye(h, l) ==
  /\ Arrives(h, l, "BYE")
  /\ Becomes(TransitionToClosed(World, h, l))
  /\ UNCHANGED <<row, spent>>

(* The end of a lost connection finds out: the socket fails, keepalive     *)
(* pings or the handshake time out.                                        *)
Hears(h, l) ==
  /\ host[h].up /\ link[l].lost /\ link[l].end[h] # "none"
  /\ Becomes(TransitionToClosed(World, h, l))
  /\ UNCHANGED <<row, spent>>

-----------------------------------------------------------------------------
(* Faults                                                                  *)

Severed(k) == [k EXCEPT !.lost = TRUE, !.to = [h \in Hub |-> <<>>]]

Lose(l) ==
  /\ spent.loss < MaxLoss /\ ~link[l].lost /\ \E h \in Hub : link[l].end[h] # "none"
  /\ link' = [link EXCEPT ![l] = Severed(@)]
  /\ spent' = [spent EXCEPT !.loss = @ + 1]
  /\ UNCHANGED <<row, host>>

(* Only the table survives.                                                *)
Crash(h) ==
  /\ host[h].up /\ spent.crash < MaxCrash
  /\ host' = [host EXCEPT ![h] = [Blank EXCEPT !.up = FALSE]]
  /\ link' = [l \in Link |->
       IF link[l].end[h] = "none" THEN link[l]
       ELSE Shut(Severed(link[l]), h)]
  /\ spent' = [spent EXCEPT !.crash = @ + 1]
  /\ UNCHANGED row

Restart(h) ==
  /\ ~host[h].up
  /\ host' = [host EXCEPT ![h].up = TRUE]
  /\ UNCHANGED <<row, link, spent>>

-----------------------------------------------------------------------------
PeerReads(h, l) ==
  ReadHello(h, l) \/ ReadAck(h, l) \/ ReadAckAndBye(h, l) \/ ReadBye(h, l)

PeerNext ==
  \/ \E h \in Hub : PollTick(h) \/ Toggle(h) \/ Edit(h) \/ Crash(h) \/ Restart(h)
  \/ \E h \in Hub, l \in Link : PeerReads(h, l) \/ Hears(h, l)
  \/ \E l \in Link : Lose(l)

PeerSpec == PeerInit /\ [][PeerNext]_peerVars

(* Timers fire, frames of a connection that works arrive, and the end of   *)
(* one that does not is noticed.  Administrators and faults owe nothing.   *)
PeerFairSpec ==
  /\ PeerSpec
  /\ \A h \in Hub : /\ SF_peerVars(PollTick(h)) /\ WF_peerVars(Restart(h))
                    /\ \A l \in Link : WF_peerVars(PeerReads(h, l)) /\ WF_peerVars(Hears(h, l))

-----------------------------------------------------------------------------
(* Properties                                                              *)

PeerTypeOK ==
  /\ row \in [Hub -> Row] /\ host \in [Hub -> Memory]
  /\ link \in [Link -> Connection]
  /\ \A l \in Link, h \in Hub : link[l].end[h] = "none" =>
       link[l].to[h] = <<>> /\ link[l].serves[h] = None
  /\ spent \in [edit : 0..MaxEdit, loss : 0..MaxLoss, crash : 0..MaxCrash]

Open(h) == {l \in Link : link[l].end[h] = "open"}

WrapperIsLive ==
  \A h \in Hub :
    /\ host[h].wrapper = host[h].installed
    /\ host[h].installed = NoLink \/ host[h].stillborn \/ host[h].installed \in Open(h)

ServesRowPolicy ==
  \A h \in Hub :
    LET l == host[h].installed IN
    l \in Open(h) /\ ~host[h].outdated => link[l].serves[h] = row[h].policy

(* What the registry knows about a peer is so.  Tasks for the peer are     *)
(* routed into the link it knows, and that link's end is open: a link that *)
(* closes is evicted with its wrapper, so that `the next tick can redial   *)
(* cleanly'.  And the link serves the peer under the policy of the row: an *)
(* edit tears it down first, and a dial that comes back late puts no link  *)
(* in the place of another.  One that closed before it was installed and a *)
(* policy edited during the dial are the exceptions.                       *)
RegistryIsRight == WrapperIsLive /\ ServesRowPolicy

Settled == \A h \in Hub : host[h].up /\ row[h].enabled

Met == \E l \in Link : \A h \in Hub : host[h].installed = l /\ l \in Open(h)

(* Two hubs that want to be peers become peers and stay it, after whatever *)
(* was lost, crashed and edited before: the registry redials.              *)
PeersMeet == <>[]Settled => <>[]Met

(* An end that serves the peer's tasks and that no registry knows: what is *)
(* left when both hubs have dialled at once.                               *)
Orphaned(h) == Open(h) \ {host[h].installed} # {}

(* The same without the two ways the code has of getting stuck.            *)
PeersMeetUnlessStuck ==
  <>[](Settled /\ \A h \in Hub : ~Orphaned(h) /\ ~host[h].stillborn) => <>[]Met

(* What the administrator saved is in force sooner or later: a peer that   *)
(* is disabled is off, a link is served under the policy of the row.  An   *)
(* edit during a dial is missed; an orphan is missed by everything.        *)
InForce(h) ==
  LET l == host[h].installed IN
  l # NoLink => row[h].enabled /\ link[l].serves[h] = row[h].policy

RowTakesEffect ==
  \A h \in Hub : ~InForce(h) ~> InForce(h) \/ host[h].outdated \/ host[h].stillborn
=============================================================================
