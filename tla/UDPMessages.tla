------------------------------ MODULE UDPMessages ------------------------------
(***************************************************************************)
(* The manager of UDP message flows (go/internal/agent/udpmessage): flows  *)
(* that share message budgets, senders, the one scheduler that hands       *)
(* chunks to the transport, receivers that put chunks together, and what   *)
(* closes a flow (the application, the scheduler after a failure, the      *)
(* manager) while all of them are at work.                                 *)
(*                                                                         *)
(* A section under the manager's mutex is an action.  A flow's sendMu is   *)
(* held while the scheduler transmits for it, its deliveryMu while a       *)
(* delivery runs.  A message counts 1 towards a budget: the byte budgets   *)
(* work the same way, a reservation gives back the bytes it took.  Instants*)
(* are not modelled: what was born first may expire whenever the code      *)
(* looks (the choices of cut).                                             *)
(***************************************************************************)
EXTENDS Integers, FiniteSets, SequencesExt

CONSTANTS Flows,                  \* flows, each opened at most once
          Traffic,                \* [peer, sends, ids, kinds, length]: the flows' peers,
                                  \* bounds on the messages each sends and receives, its
                                  \* kinds of transport, the length of messages sent
          FlowTX, PeerTX, NodeTX, \* messages a flow, a peer, the node may hold
          FlowRX, PeerRX, NodeRX,
          Maximum,                \* the first chunk size
          WindowSize,             \* ids the receiver remembers
          Counts                  \* chunk counts of received messages

ASSUME UDPAssumption ==
    /\ IsFiniteSet(Flows)
    /\ \A n \in {FlowTX, PeerTX, NodeTX, FlowRX, PeerRX, NodeRX, Maximum, WindowSize} :
          n \in Nat \ {0}
    /\ Counts \subseteq Nat \ {0}
    /\ \A t \in Traffic : t.sends \in [Flows -> Nat] /\ t.ids \in [Flows -> Nat] /\ t.length \in Nat \ {0}

VARIABLES
  traffic,     \* what is sent and received in this behaviour (member of Traffic)
  manager,     \* "open", "closing" (Close runs) or "closed" (Close returned)
  flow,        \* flow -> [status, home, attached, chunk]
  closing,     \* flows the manager's Close has still to close, in its order
  sched,       \* the scheduler: [pc, flow, id, chunk, err]
  queue,       \* flow -> outgoing messages [id, index, stride, wait]
  nextID,      \* flow -> id of the next message
  sending,     \* flow -> Sends between their reservation and the queue
  assemblies,  \* incomplete messages, oldest first: [flow, id, count, present]
  states,      \* flow -> window of 0 unseen, 1 assembling, 2 complete, 3 given up
  high,        \* flow -> highest id received
  completed,   \* flow -> complete messages with a reservation
  held,        \* flow -> complete messages their caller has not released
  delivering,  \* flow -> a delivery holds deliveryMu
  rx, tx,      \* messages reserved: [flow, peer, node]
  log,         \* history: flow -> id -> chunks the transport took [stride, index]
  reassembled  \* history: flow -> id -> times it was completed

flowVars == <<traffic, manager, flow, closing>>
sendVars == <<sched, queue, nextID, sending, tx, log>>
recvVars == <<assemblies, states, high, completed, held, delivering, rx, reassembled>>
vars == <<traffic, manager, flow, closing, sched, queue, nextID, sending, tx, log,
          assemblies, states, high, completed, held, delivering, rx, reassembled>>

Homes == 1 .. Cardinality(Flows)   \* peerStates
IDs(e) == 1 .. traffic.ids[e]

Live(e)   == flow[e].status \notin {"new", "retired"}   \* in its peer's list
Closed(e) == flow[e].status # "open"                    \* e.closed, once opened

\* The elements of s at the positions I, in their order, and s without one position.
At(s, I) ==
    [k \in 1 .. Cardinality(I) |-> s[CHOOSE i \in I : Cardinality({j \in I : j <= i}) = k]]

Without(s, i) == At(s, DOMAIN s \ {i})

-----------------------------------------------------------------------------
(* Budgets.  u is rx or tx. *)

Charge(u, e, n) ==
    [flow |-> [u.flow EXCEPT ![e] = @ + n],
     peer |-> [u.peer EXCEPT ![flow[e].home] = @ + n],
     node |-> u.node + n]

hasRoom_lax(u, e, limits) ==
    u.flow[e] <= limits[1] /\ u.peer[flow[e].home] <= limits[2] /\ u.node <= limits[3]

hasRoom(u, e, limits) ==
    u.flow[e] < limits[1] /\ u.peer[flow[e].home] < limits[2] /\ u.node < limits[3]

LimitsTX == <<FlowTX, PeerTX, NodeTX>>
LimitsRX == <<FlowRX, PeerRX, NodeRX>>

-----------------------------------------------------------------------------
(* Opening and closing *)

Open_late(e) ==
    LET mates == {d \in Flows : Live(d) /\ traffic.peer[d] = traffic.peer[e]}
        home  == IF mates # {} THEN flow[CHOOSE d \in mates : TRUE].home
                 ELSE CHOOSE h \in Homes : \A d \in Flows : flow[d].home # h
    IN
    /\ flow[e].status = "new"
    /\ traffic.sends[e] + traffic.ids[e] > 0
    /\ flow' = [flow EXCEPT ![e] = [@ EXCEPT !.status = "open", !.home = home]]
    /\ UNCHANGED <<traffic, manager, closing>> /\ UNCHANGED sendVars /\ UNCHANGED recvVars

Open(e) ==
    LET mates == {d \in Flows : Live(d) /\ traffic.peer[d] = traffic.peer[e]}
        home  == IF mates # {} THEN flow[CHOOSE d \in mates : TRUE].home
                 ELSE CHOOSE h \in Homes : \A d \in Flows : flow[d].home # h
    IN
    /\ manager = "open" /\ flow[e].status = "new"
    /\ traffic.sends[e] + traffic.ids[e] > 0
    /\ flow' = [flow EXCEPT ![e] = [@ EXCEPT !.status = "open", !.home = home]]
    /\ UNCHANGED <<traffic, manager, closing>> /\ UNCHANGED sendVars /\ UNCHANGED recvVars

\* sendMu kept while the scheduler closes the flow.
SendMuHeld_kept(e) == sched.pc \in {"locked", "checked", "closing"} /\ sched.flow = e

SendMuHeld(e) == sched.pc \in {"locked", "checked"} /\ sched.flow = e

\* SetTransport, SetLocalTransport: takes all three locks.
attach(e, kind) ==
    /\ flow[e].status = "open" /\ flow[e].attached = "no"
    /\ traffic.sends[e] > 0 /\ kind \in traffic.kinds[e]
    /\ ~SendMuHeld(e) /\ ~delivering[e]
    /\ flow' = [flow EXCEPT ![e].attached = kind]
    /\ UNCHANGED <<traffic, manager, closing>> /\ UNCHANGED sendVars /\ UNCHANGED recvVars

Close(e) == flow' = [flow EXCEPT ![e].status = "closing"]

\* Somebody closes an open flow.  Whoever comes second waits for its retirement.
CloseFlow(e) ==
    /\ flow[e].status = "open"
    /\ Close(e)
    /\ UNCHANGED <<traffic, manager, closing>> /\ UNCHANGED sendVars /\ UNCHANGED recvVars

\* The closer joins the two admission directions, one after the other.
JoinSend(e) ==
    /\ flow[e].status = "closing" /\ ~SendMuHeld(e)
    /\ flow' = [flow EXCEPT ![e].status = "joined"]
    /\ UNCHANGED <<traffic, manager, closing>> /\ UNCHANGED sendVars /\ UNCHANGED recvVars

JoinDelivery_eager(e) ==
    /\ flow[e].status = "joined"
    /\ flow' = [flow EXCEPT ![e].status = "quiet"]
    /\ UNCHANGED <<traffic, manager, closing>> /\ UNCHANGED sendVars /\ UNCHANGED recvVars

JoinDelivery(e) ==
    /\ flow[e].status = "joined" /\ ~delivering[e]
    /\ flow' = [flow EXCEPT ![e].status = "quiet"]
    /\ UNCHANGED <<traffic, manager, closing>> /\ UNCHANGED sendVars /\ UNCHANGED recvVars

\* Then it releases what the flow reserved, but for the Sends on their way, which
\* release their own.
Of(e) == {i \in DOMAIN assemblies : assemblies[i].flow = e}

Retire(e) ==
    /\ flow[e].status = "quiet"
    /\ flow' = [flow EXCEPT ![e].status = "retired"]
    /\ tx' = Charge(tx, e, -Len(queue[e]))
    /\ rx' = Charge(rx, e, -(Cardinality(Of(e)) + Cardinality(completed[e])))
    /\ queue' = [queue EXCEPT ![e] = <<>>]
    /\ assemblies' = At(assemblies, DOMAIN assemblies \ Of(e))
    /\ completed' = [completed EXCEPT ![e] = {}]
    /\ UNCHANGED <<traffic, manager, closing, sched, nextID, sending, log,
                   states, high, held, delivering, reassembled>>

\* Manager.Close: no flow is opened any more, every flow is closed in turn and
\* waited for, then the scheduler.
CloseManager ==
    /\ manager = "open"
    /\ manager' = "closing"
    /\ closing' \in SetToSeqs({e \in Flows : Live(e)})
    /\ UNCHANGED <<traffic, flow>> /\ UNCHANGED sendVars /\ UNCHANGED recvVars

CloseNext ==
    /\ manager = "closing" /\ closing # <<>>
    /\ LET e == Head(closing) IN
       \/ flow[e].status = "open" /\ Close(e) /\ UNCHANGED closing
       \/ flow[e].status = "retired" /\ closing' = Tail(closing) /\ UNCHANGED flow
    /\ UNCHANGED <<traffic, manager>> /\ UNCHANGED sendVars /\ UNCHANGED recvVars

CloseReturns ==
    /\ manager = "closing" /\ closing = <<>> /\ sched.pc = "stopped"
    /\ manager' = "closed"
    /\ UNCHANGED <<traffic, flow, closing>> /\ UNCHANGED sendVars /\ UNCHANGED recvVars

-----------------------------------------------------------------------------
(* Sending *)

\* Send, first section: the reservation.  A refused one changes nothing.
SendReserve(e) ==
    /\ flow[e].status = "open" /\ hasRoom(tx, e, LimitsTX)
    /\ sending[e] + nextID[e] <= traffic.sends[e]
    /\ tx' = Charge(tx, e, 1)
    /\ sending' = [sending EXCEPT ![e] = @ + 1]
    /\ UNCHANGED <<sched, queue, nextID, log>> /\ UNCHANGED flowVars /\ UNCHANGED recvVars

\* Second section, under the guard: the message is queued, or the flow was closed
\* or authorization refused meanwhile and the reservation is given back.
SendPublish(e) ==
    /\ sending[e] > 0 /\ ~Closed(e)
    /\ queue' = [queue EXCEPT ![e] =
                    Append(@, [id |-> nextID[e], index |-> 0, stride |-> 0, wait |-> FALSE])]
    /\ nextID' = [nextID EXCEPT ![e] = @ + 1]
    /\ sending' = [sending EXCEPT ![e] = @ - 1]
    /\ UNCHANGED <<sched, tx, log>> /\ UNCHANGED flowVars /\ UNCHANGED recvVars

SendFail(e) ==
    /\ sending[e] > 0
    /\ sending' = [sending EXCEPT ![e] = @ - 1]
    /\ tx' = Charge(tx, e, -1)
    /\ UNCHANGED <<sched, queue, nextID, log>> /\ UNCHANGED flowVars /\ UNCHANGED recvVars

\* expireLocked, on the queue: what was born up to the message cut is released.
Fresh(q, cut) == At(q, {i \in DOMAIN q : q[i].id > cut})

Idle == [pc |-> "idle", flow |-> "none", id |-> 0, chunk |-> [stride |-> 0, index |-> 0], err |-> "none"]

Position(q, id) == {i \in DOMAIN q : q[i].id = id}

\* pickLocked: a message of a flow that is due moves to the back of its queue.
\* (Which flow's turn it is, the rotation of peers and flows, is left open.)
pickLocked(e, cut) ==
    LET q   == Fresh(queue[e], cut)
        due == {i \in DOMAIN q : ~q[i].wait}
        i   == CHOOSE k \in due : \A l \in due : k <= l
    IN
    /\ sched.pc = "idle"
    /\ flow[e].status = "open" /\ flow[e].attached # "no"
    /\ due # {}
    /\ queue' = [queue EXCEPT ![e] = Append(Without(q, i), q[i])]
    /\ tx' = Charge(tx, e, Len(q) - Len(queue[e]))
    /\ sched' = [sched EXCEPT !.pc = "picked", !.flow = e, !.id = q[i].id]
    /\ UNCHANGED <<nextID, sending, log>> /\ UNCHANGED flowVars /\ UNCHANGED recvVars

\* step takes sendMu, fixes the message's stride and reads which chunk is next.
stepLock ==
    LET e == sched.flow
        q == queue[e]
        p == Position(q, sched.id)
        m == IF p = {} THEN [stride |-> 0, index |-> 0] ELSE q[CHOOSE i \in p : TRUE]
        stride == IF m.stride = 0 THEN flow[e].chunk ELSE m.stride
    IN
    /\ sched.pc = "picked"
    /\ IF Closed(e)
       THEN sched' = Idle /\ UNCHANGED queue
       ELSE /\ sched' = [sched EXCEPT !.pc = "locked", !.chunk = [stride |-> stride, index |-> m.index]]
            /\ queue' = [queue EXCEPT ![e] = [i \in DOMAIN q |->
                            IF i \in p THEN [q[i] EXCEPT !.stride = stride] ELSE q[i]]]
    /\ UNCHANGED <<nextID, sending, tx, log>> /\ UNCHANGED flowVars /\ UNCHANGED recvVars

\* Under the guard, before the transport: authorization may refuse, the flow may
\* be closed, the message released or expired.
stepCheck ==
    LET e == sched.flow IN
    /\ sched.pc = "locked"
    /\ \E err \in {"none", "refused", "closed", "expired"} :
          /\ err = "closed" <=> Closed(e) /\ err # "refused"
          /\ err = "none" => Position(queue[e], sched.id) # {}
          /\ sched' = IF err = "none" THEN [sched EXCEPT !.pc = "checked"]
                      ELSE [sched EXCEPT !.pc = "settle", !.err = err]
    /\ UNCHANGED <<queue, nextID, sending, tx, log>> /\ UNCHANGED flowVars /\ UNCHANGED recvVars

\* The transport takes the chunk, has no room, finds it too large or fails; then
\* sendMu is free again.
stepSend(err) ==
    LET e == sched.flow IN
    /\ sched.pc = "checked"
    /\ log' = IF err = "none" THEN [log EXCEPT ![e][sched.id] = Append(@, sched.chunk)] ELSE log
    /\ sched' = [sched EXCEPT !.pc = "settle", !.err = err]
    /\ UNCHANGED <<queue, nextID, sending, tx>> /\ UNCHANGED flowVars /\ UNCHANGED recvVars

Count(stride) == (traffic.length + stride - 1) \div stride

removeLocked(e, i) ==
    /\ queue' = [queue EXCEPT ![e] = Without(@, i)]
    /\ tx' = Charge(tx, e, -1)

\* A message is cut anew only if none of its chunks was taken.
mayRecut_always(q) == TRUE

mayRecut(q) == q.index = 0

\* Last section.  A message released meanwhile needs nothing.  A chunk that was
\* taken moves the message on; a full transport delays it; a chunk that is too
\* large for a path of size maximum makes the chunks of the flow smaller.
\* Everything else removes the message, and closes the flow unless the message just
\* was late or too large.
stepSettle(maximum) ==
    LET e == sched.flow
        p == Position(queue[e], sched.id)
        i == CHOOSE k \in p : TRUE
        q == queue[e][i]
        size    == IF maximum < flow[e].chunk THEN maximum ELSE flow[e].chunk
        shrinks == sched.err = "large" /\ flow[e].attached # "local" /\ maximum < q.stride
        whole   == flow[e].attached = "local" \/ q.index + 1 >= Count(q.stride)
        update(m) == queue' = [queue EXCEPT ![e][i] = m] /\ UNCHANGED tx
        remove    == removeLocked(e, i)
        closes == sched.err \notin {"none", "full", "large", "expired"}
    IN
    /\ sched.pc = "settle"
    /\ IF p = {} THEN sched' = Idle /\ UNCHANGED <<queue, tx, flow>>
       ELSE /\ CASE sched.err = "none" /\ ~whole -> update([q EXCEPT !.index = @ + 1, !.wait = FALSE])
                 [] sched.err = "full"           -> update([q EXCEPT !.wait = TRUE])
                 [] shrinks /\ mayRecut(q)       -> update([q EXCEPT !.stride = size])
                 [] OTHER                        -> remove
            /\ flow' = IF shrinks THEN [flow EXCEPT ![e].chunk = size] ELSE flow
            /\ sched' = IF closes THEN [sched EXCEPT !.pc = "closing"] ELSE Idle
    /\ UNCHANGED <<nextID, sending, log, traffic, manager, closing>> /\ UNCHANGED recvVars

\* The scheduler closes the flow itself, or waits for whoever does.
stepClose ==
    /\ sched.pc = "closing"
    /\ \/ flow[sched.flow].status = "open" /\ Close(sched.flow) /\ UNCHANGED sched
       \/ flow[sched.flow].status = "retired" /\ sched' = Idle /\ UNCHANGED flow
    /\ UNCHANGED <<queue, nextID, sending, tx, log, traffic, manager, closing>> /\ UNCHANGED recvVars

\* A message that met a full transport is due again.
RetryDue(e) ==
    /\ \E i \in DOMAIN queue[e] : queue[e][i].wait
    /\ queue' = [queue EXCEPT ![e] = [i \in DOMAIN @ |-> [@[i] EXCEPT !.wait = FALSE]]]
    /\ UNCHANGED <<sched, nextID, sending, tx, log>> /\ UNCHANGED flowVars /\ UNCHANGED recvVars

\* run returns once the manager stops it.
runStops ==
    /\ manager # "open" /\ sched.pc = "idle"
    /\ sched' = [sched EXCEPT !.pc = "stopped"]
    /\ UNCHANGED <<queue, nextID, sending, tx, log>> /\ UNCHANGED flowVars /\ UNCHANGED recvVars

-----------------------------------------------------------------------------
(* Receiving.  A memory m has the fields assemblies, states, high (of all     *)
(* flows) and rx.                                                             *)

Memory == [assemblies |-> assemblies, states |-> states, high |-> high, rx |-> rx]

\* The i-th assembly is given up: it is released and its id not accepted again.
GiveUp(m, i) ==
    LET a == m.assemblies[i] IN
    [m EXCEPT !.assemblies = Without(@, i), !.states[a.flow][a.id % WindowSize] = 3,
              !.rx = Charge(@, a.flow, -1)]

\* Where the assembly of a message is.
Find(m, e, id) == {i \in DOMAIN m.assemblies : m.assemblies[i].flow = e /\ m.assemblies[i].id = id}

\* expireLocked, on the assemblies: those of e among the oldest cut.
Expired(m, e, cut) ==
    LET out == {i \in 1 .. cut : m.assemblies[i].flow = e}
        old == {m.assemblies[i].id % WindowSize : i \in out}
    IN  [m EXCEPT !.assemblies = At(@, DOMAIN @ \ out),
                  !.states[e] = [k \in DOMAIN @ |-> IF k \in old THEN 3 ELSE @[k]],
                  !.rx = Charge(@, e, -Cardinality(out))]

\* advanceLocked: the window moves up to id, and what falls out of it is gone.
advanceLocked_clears(m, e, id) ==
    LET out == {i \in DOMAIN m.assemblies : m.assemblies[i].flow = e /\ m.assemblies[i].id <= id - WindowSize}
    IN  IF id <= m.high[e] THEN m
        ELSE [m EXCEPT !.states[e] = [k \in DOMAIN @ |-> 0],
                       !.high[e] = id,
                       !.assemblies = At(@, DOMAIN @ \ out),
                       !.rx = Charge(@, e, -Cardinality(out))]

advanceLocked(m, e, id) ==
    LET new == {k % WindowSize : k \in m.high[e] + 1 .. id}
        out == {i \in DOMAIN m.assemblies : m.assemblies[i].flow = e /\ m.assemblies[i].id <= id - WindowSize}
    IN  IF id <= m.high[e] THEN m
        ELSE [m EXCEPT !.states[e] = [k \in DOMAIN @ |-> IF k \in new THEN 0 ELSE @[k]],
                       !.high[e] = id,
                       !.assemblies = At(@, DOMAIN @ \ out),
                       !.rx = Charge(@, e, -Cardinality(out))]

\* evictLocked: the oldest assembly of the flow gives way, or else of its peer; when
\* the node is full, or else of a peer that holds much (more than one message), or
\* else of any.
evictLocked(m, e) ==
    LET all     == DOMAIN m.assemblies
        home(i) == flow[m.assemblies[i].flow].home
        full    == m.rx.node >= NodeRX
        ranks   == << {i \in all : m.assemblies[i].flow = e},
                      {i \in all : home(i) = flow[e].home},
                      {i \in all : full /\ m.rx.peer[home(i)] > 1},
                      {i \in all : full} >>
        found   == {k \in DOMAIN ranks : ranks[k] # {}}
        best    == ranks[CHOOSE k \in found : \A l \in found : k <= l]
    IN  IF found = {} THEN m ELSE GiveUp(m, CHOOSE i \in best : \A j \in best : i <= j)

\* Up to four assemblies give way to a new one.
evictOnce(m, e) == IF hasRoom(m.rx, e, LimitsRX) THEN m ELSE evictLocked(m, e)

makeRoom(m, e) == evictOnce(evictOnce(evictOnce(evictOnce(m, e), e), e), e)

\* The frame's message may be refused by the window, be assembled already, or be new.
Located(m, e, f) ==
    IF m.high[e] >= WindowSize /\ f.id <= m.high[e] - WindowSize THEN m
    ELSE LET a == advanceLocked(m, e, f.id)
             w == makeRoom(a, e)
         IN  IF \/ a.states[e][f.id % WindowSize] >= 2
                \/ Find(a, e, f.id) # {} THEN a
             ELSE IF ~hasRoom(w.rx, e, LimitsRX)
             THEN [w EXCEPT !.states[e][f.id % WindowSize] = 3]
             ELSE [w EXCEPT !.states[e][f.id % WindowSize] = 1, !.rx = Charge(@, e, 1),
                            !.assemblies = Append(@, [flow |-> e, id |-> f.id, count |-> f.count, present |-> {}])]

Store(m) ==
    /\ assemblies' = m.assemblies
    /\ states' = m.states
    /\ high' = m.high
    /\ rx' = m.rx

\* ReceiveFrame under the guard.  clash: the chunk is there with other bytes.
ReceiveFrame(e, f, cut, qcut, clash) ==
    LET m    == Located(Expired(Memory, e, cut), e, f)
        here == Find(m, e, f.id)
        i    == CHOOSE k \in here : TRUE
        a    == m.assemblies[i]
        got  == a.present \cup {f.index}
        last == Cardinality(got) = a.count
        bad  == a.count # f.count \/ (f.index \in a.present /\ clash)
    IN
    /\ ~Closed(e)
    /\ queue' = [queue EXCEPT ![e] = Fresh(@, qcut)]
    /\ tx' = Charge(tx, e, Len(queue'[e]) - Len(queue[e]))
    /\ IF here = {} THEN Store(m) /\ UNCHANGED <<completed, held, reassembled>>
       ELSE IF bad THEN Store(GiveUp(m, i)) /\ UNCHANGED <<completed, held, reassembled>>
       ELSE IF ~last
       THEN Store([m EXCEPT !.assemblies[i].present = got]) /\ UNCHANGED <<completed, held, reassembled>>
       ELSE /\ Store([m EXCEPT !.assemblies = Without(@, i), !.states[e][f.id % WindowSize] = 2])
            /\ completed' = [completed EXCEPT ![e] = @ \cup {f.id}]
            /\ held' = [held EXCEPT ![e] = @ \cup {f.id}]
            /\ reassembled' = [reassembled EXCEPT ![e][f.id] = @ + 1]
    /\ UNCHANGED <<sched, nextID, sending, log, delivering>> /\ UNCHANGED flowVars

\* RetainReceived: a message read whole from the local socket, numbered 0 here.
RetainReceived(e) ==
    /\ ~Closed(e) /\ traffic.ids[e] > 0 /\ 0 \notin held[e]
    /\ hasRoom(rx, e, LimitsRX)
    /\ rx' = Charge(rx, e, 1)
    /\ completed' = [completed EXCEPT ![e] = @ \cup {0}]
    /\ held' = [held EXCEPT ![e] = @ \cup {0}]
    /\ UNCHANGED <<assemblies, states, high, delivering, reassembled>>
    /\ UNCHANGED flowVars /\ UNCHANGED sendVars

\* Deliver: deliveryMu is held while the message goes to the local socket.
DeliverBegin_late(e) ==
    /\ Live(e) /\ held[e] # {} /\ ~delivering[e]
    /\ delivering' = [delivering EXCEPT ![e] = TRUE]
    /\ UNCHANGED <<assemblies, states, high, completed, held, rx, reassembled>>
    /\ UNCHANGED flowVars /\ UNCHANGED sendVars

DeliverBegin(e) ==
    /\ ~Closed(e) /\ held[e] # {} /\ ~delivering[e]
    /\ delivering' = [delivering EXCEPT ![e] = TRUE]
    /\ UNCHANGED <<assemblies, states, high, completed, held, rx, reassembled>>
    /\ UNCHANGED flowVars /\ UNCHANGED sendVars

DeliverEnd(e) ==
    /\ delivering[e]
    /\ delivering' = [delivering EXCEPT ![e] = FALSE]
    /\ UNCHANGED <<assemblies, states, high, completed, held, rx, reassembled>>
    /\ UNCHANGED flowVars /\ UNCHANGED sendVars

\* Release gives the reservation back unless the flow's retirement did.
Release_twice(e, id) ==
    /\ id \in held[e]
    /\ held' = [held EXCEPT ![e] = @ \ {id}]
    /\ completed' = [completed EXCEPT ![e] = @ \ {id}]
    /\ rx' = Charge(rx, e, -1)
    /\ UNCHANGED <<assemblies, states, high, delivering, reassembled>>
    /\ UNCHANGED flowVars /\ UNCHANGED sendVars

Release(e, id) ==
    /\ id \in held[e]
    /\ held' = [held EXCEPT ![e] = @ \ {id}]
    /\ completed' = [completed EXCEPT ![e] = @ \ {id}]
    /\ rx' = IF id \in completed[e] THEN Charge(rx, e, -1) ELSE rx
    /\ UNCHANGED <<assemblies, states, high, delivering, reassembled>>
    /\ UNCHANGED flowVars /\ UNCHANGED sendVars

\* The scheduler's periodic pass, for one flow.
expireLocked(e, cut, qcut) ==
    LET m == Expired(Memory, e, cut) IN
    /\ sched.pc = "idle" /\ Live(e)
    /\ queue' = [queue EXCEPT ![e] = Fresh(@, qcut)]
    /\ tx' = Charge(tx, e, Len(queue'[e]) - Len(queue[e]))
    /\ Store(m)
    /\ UNCHANGED <<sched, nextID, sending, log, completed, held, delivering, reassembled>>
    /\ UNCHANGED flowVars

-----------------------------------------------------------------------------
Frames(e) == UNION {[id : IDs(e), count : {n}, index : 0 .. n - 1] : n \in Counts}

Init ==
    /\ traffic \in Traffic
    /\ manager = "open"
    /\ flow = [e \in Flows |-> [status |-> "new", home |-> 0, attached |-> "no", chunk |-> Maximum]]
    /\ closing = <<>>
    /\ sched = Idle
    /\ queue = [e \in Flows |-> <<>>]
    /\ nextID = [e \in Flows |-> 1]
    /\ sending = [e \in Flows |-> 0]
    /\ assemblies = <<>>
    /\ states = [e \in Flows |-> [k \in 0 .. WindowSize - 1 |-> 0]]
    /\ high = [e \in Flows |-> 0]
    /\ completed = [e \in Flows |-> {}]
    /\ held = [e \in Flows |-> {}]
    /\ delivering = [e \in Flows |-> FALSE]
    /\ rx = [flow |-> [e \in Flows |-> 0], peer |-> [h \in Homes |-> 0], node |-> 0]
    /\ tx = [flow |-> [e \in Flows |-> 0], peer |-> [h \in Homes |-> 0], node |-> 0]
    /\ log = [e \in Flows |-> [k \in 1 .. traffic.sends[e] |-> <<>>]]
    /\ reassembled = [e \in Flows |-> [k \in IDs(e) |-> 0]]

step ==
    \/ stepLock \/ stepCheck \/ stepClose
    \/ \E err \in {"none", "full", "large", "failed"} : stepSend(err)
    \/ \E maximum \in 1 .. Maximum : stepSettle(maximum)

FlowStep(e) ==
    \/ Open(e) \/ CloseFlow(e) \/ JoinSend(e) \/ JoinDelivery(e) \/ Retire(e)
    \/ \E kind \in {"local", "remote"} : attach(e, kind)
    \/ SendReserve(e) \/ SendPublish(e) \/ SendFail(e) \/ RetryDue(e)
    \/ \E qcut \in 0 .. nextID[e] - 1 :
          \/ pickLocked(e, qcut)
          \/ \E cut \in 0 .. Len(assemblies) :
                \/ expireLocked(e, cut, qcut)
                \/ \E f \in Frames(e), clash \in BOOLEAN :
                      ReceiveFrame(e, f, cut, qcut, clash)
    \/ RetainReceived(e) \/ DeliverBegin(e) \/ DeliverEnd(e)
    \/ \E id \in held[e] : Release(e, id)

Next ==
    \/ CloseManager \/ CloseNext \/ CloseReturns
    \/ runStops \/ step
    \/ \E e \in Flows : FlowStep(e)

Spec == Init /\ [][Next]_vars

\* Fairness, stated by what does not last.  Each condition is the guard of a step
\* that its goroutine takes next whatever the others do, and after finitely many
\* such steps it is false: that it is false again and again is weak fairness of the
\* step.  The scheduler goes on once it has picked a message (Going) and stops when
\* told to (Stopping), the manager's Close goes on to its next flow (ClosingNext), a
\* delivery ends (guards and callbacks are bounded and do not block), and whoever
\* closes a flow does what it does next (Joining).
Going ==
    \/ sched.pc \in {"picked", "locked", "checked", "settle"}
    \/ sched.pc = "closing" /\ flow[sched.flow].status \in {"open", "retired"}

Stopping == manager # "open" /\ sched.pc = "idle"

ClosingNext ==
    /\ manager = "closing"
    /\ \/ closing = <<>> /\ sched.pc = "stopped"
       \/ closing # <<>> /\ flow[Head(closing)].status \in {"open", "retired"}

Joining(e) ==
    \/ flow[e].status = "closing" /\ ~SendMuHeld(e)
    \/ flow[e].status = "joined" /\ ~delivering[e]
    \/ flow[e].status = "quiet"

Fairness ==
    /\ []<>~Going /\ []<>~Stopping /\ []<>~ClosingNext
    /\ \A e \in Flows : []<>~delivering[e] /\ []<>~Joining(e)

FairSpec == Spec /\ Fairness

-----------------------------------------------------------------------------
(* Properties *)

\* Types, and every budget within its limits.
TypeOK ==
    /\ manager \in {"open", "closing", "closed"}
    /\ \A e \in Flows :
          /\ flow[e].status \in {"new", "open", "closing", "joined", "quiet", "retired"}
          /\ flow[e].home \in Homes \cup {0}
          /\ flow[e].attached \in {"no", "local", "remote"}
          /\ flow[e].chunk \in 1 .. Maximum
          /\ \A i \in DOMAIN queue[e] : queue[e][i].id \in 1 .. nextID[e] - 1
          /\ states[e] \in [0 .. WindowSize - 1 -> 0 .. 3]
          /\ tx.flow[e] \in 0 .. FlowTX /\ rx.flow[e] \in 0 .. FlowRX
    /\ \A h \in Homes : tx.peer[h] \in 0 .. PeerTX /\ rx.peer[h] \in 0 .. PeerRX
    /\ tx.node \in 0 .. NodeTX /\ rx.node \in 0 .. NodeRX
    /\ sched.pc \in {"idle", "picked", "locked", "checked", "settle", "closing", "stopped"}

\* The sum of f over S: the number of pairs of a flow and one of its f[e] messages.
Total(f, S) == Cardinality(UNION {{e} \X (1 .. f[e]) : e \in S})

Out == [e \in Flows |-> Len(queue[e]) + sending[e]]
In  == [e \in Flows |-> Cardinality(Of(e)) + Cardinality(completed[e])]

\* The budgets of a flow, a peer and the node are exactly the messages that hold a
\* reservation: the races of Send, ReceiveFrame, Release, expiry, eviction, the
\* scheduler's removals and Close neither leak one nor give one back twice.
Balanced ==
    LET at(h) == {e \in Flows : flow[e].home = h} IN
    /\ \A e \in Flows : tx.flow[e] = Out[e] /\ rx.flow[e] = In[e]
    /\ \A h \in Homes : tx.peer[h] = Total(Out, at(h)) /\ rx.peer[h] = Total(In, at(h))
    /\ tx.node = Total(Out, Flows) /\ rx.node = Total(In, Flows)

\* A received message is completed at most once, in whatever order and however
\* often its chunks arrive, and although the window reuses its slots.
AtMostOnce == \A e \in Flows : \A id \in DOMAIN reassembled[e] : reassembled[e][id] <= 1

\* Once Close has returned, nothing of the flow goes to the transport or to the
\* local socket any more: the closer joined both directions.
RetiredQuiet ==
    \A e \in Flows : flow[e].status = "retired" => ~SendMuHeld(e) /\ ~delivering[e]

\* "It never retransmits an admitted fragment": the transport takes the chunks of a
\* message in order, each once, and all cut to one size, although chunks are
\* refused, delayed and found too large in between.
ChunksInOrder ==
    \A e \in Flows : \A id \in DOMAIN log[e] : LET c == log[e][id] IN
       \A i \in DOMAIN c : c[i].index = i - 1 /\ c[i].stride = c[1].stride

\* When the manager's Close has returned no flow is left, none can be opened, the
\* scheduler has ended and the only reservations are those of Sends on their way.
ClosedClean ==
    manager = "closed" =>
       /\ \A e \in Flows : ~Live(e)
       /\ rx.node = 0 /\ tx.node = Total(sending, Flows)

\* No Close of a flow lasts for ever, whoever began it (the application, the
\* scheduler after a failure, the manager) and whoever uses the flow or waits for it
\* meanwhile: a flow does not reopen, so out of these states it is retired.
FlowCloseReturns ==
    \A e \in Flows : []<>(flow[e].status \notin {"closing", "joined", "quiet"})

\* Nor does the manager's Close, although it waits for flows that others close and
\* for the scheduler, which may itself be waiting for a flow.
CloseReturned == []<>(manager # "closing")

=============================================================================
