------------------------------ MODULE BabelMesh ------------------------------
(***************************************************************************)
(* Routers running the Babel engine inside the local mesh node: every      *)
(* event is one Engine.Step, followed by the transaction of Routing.Step   *)
(* (apply the forwarding table, commit, persist the checkpoint, and only   *)
(* then send), over carriers that lose, delay and reorder messages.        *)
(*                                                                         *)
(* Other routers see of a step only the datagrams it sends at its end, so  *)
(* a step that completes is one action (Complete).  A crash, a failing     *)
(* Apply and a failing Persist cut it short (Cut) and end in the same      *)
(* state: the process's tunnel devices are gone, nothing was sent, and the *)
(* next start restores the last checkpoint that was saved.                 *)
(***************************************************************************)
EXTENDS BabelEngine

CONSTANTS LinkCosts,    \* costs a carrier link can have
          LocalMetrics, \* metrics the origin may originate the prefix with
          FirstSeq,     \* the origin's sequence number at the start
          MaxBumps,     \* bound: sequence-number increments
          Fragile,      \* links that may go down and come up
          Faults,       \* kinds of environment events considered
          MaxChanges,   \* bound: environment events
          MaxCrashes    \* bound: crashes

ASSUME MeshAssumption ==
    /\ LinkCosts \subseteq 1 .. Infinity - 1
    /\ LocalMetrics \subseteq 0 .. Infinity - 1
    /\ LocalMetrics # {} /\ LinkCosts # {}
    /\ FirstSeq \in Seqnos /\ Fragile \subseteq Links
    /\ Faults \subseteq {"link", "cost", "origin", "expiry", "timeout", "loss", "flap"}
    /\ MaxBumps \in Nat /\ MaxBumps < 32767
    /\ MaxChanges \in Nat /\ MaxCrashes \in Nat

VARIABLES eng,       \* router -> engine memory
          disk,      \* router -> saved checkpoint
          net,       \* messages in flight
          published, \* sequence numbers of the manifests the origin signed
          changes,   \* events used of MaxChanges
          crashes    \* crashes used of MaxCrashes

vars == <<eng, disk, net, published, changes, crashes>>

\* Events used up: crashes count against MaxChanges too.
Spent == changes + crashes

\* How far the origin's sequence number has moved since the start.
Rank(s) == (s - FirstSeq) % SeqSpace

-----------------------------------------------------------------------------
(* One engine step, and the transaction around it *)

\* The origin rejects every update of its own prefix; those are not tracked.
Tracked(msgs) == {m \in msgs : ~(m.type = "update" /\ m.to = Origin)}

Supersedes(k, m) == k.type = m.type /\ k.from = m.from /\ k.to = m.to

\* What is in flight after sending out.  Packets of one link that arrive back to
\* back act as one packet in which the later update or request counts.
Sent(inflight, out) ==
    {m \in inflight : ~\E k \in out : Supersedes(k, m)} \cup Tracked(out)

\* Engine.Step after its event: select routes, run the timers of links in due.
Outcomes(e, r, due) ==
    {dump(selectRoutes(e, r, low), r, due, FALSE) : low \in TieBreaks(e, r)}

\* The rest of Routing.Step, uninterrupted: apply, commit, save the checkpoint,
\* publish the origin's new sequence number (or leave that to the one-second
\* gate), resume, send.
Complete(r, new, inflight) ==
    LET idle == [new EXCEPT !.out = {}] IN
    /\ disk' = [disk EXCEPT ![r] = Checkpoint(new)]
    /\ net' = Sent(inflight, new.out)
    /\ \/ /\ r = Origin /\ new.proof # new.seq
          /\ published' = published \cup {new.seq}
          /\ eng' = [eng EXCEPT ![r] = [idle EXCEPT !.proof = new.seq]]
       \/ /\ published' = published
          /\ eng' = [eng EXCEPT ![r] = idle]
    /\ UNCHANGED crashes

\* The process dies in the middle of it, or Apply or Persist fails and the node
\* stops: before or after the checkpoint was saved, nothing sent either way.
\* The next start restores what was saved and has no links.
Cut(r, new, inflight) ==
    /\ crashes < MaxCrashes /\ Spent < MaxChanges
    /\ crashes' = crashes + 1
    /\ \/ disk' = disk
       \/ disk' = [disk EXCEPT ![r] = Checkpoint(new)]
    /\ eng' = [eng EXCEPT ![r] = Restore(r, disk'[r])]
    /\ net' = {m \in inflight : m.to # r}
    /\ UNCHANGED published

RoutingStep(r, e, due, inflight) ==
    \E new \in Outcomes(e, r, due) : Complete(r, new, inflight) \/ Cut(r, new, inflight)

\* The gate opens: Run's timer publishes the saved sequence number.
PublishLater(r) ==
    /\ r = Origin
    /\ eng[r].proof # disk[r].seq
    /\ published' = published \cup {disk[r].seq}
    /\ eng' = [eng EXCEPT ![r].proof = disk[r].seq]
    /\ UNCHANGED <<disk, net, changes, crashes>>

\* A crash between two steps.
Crash(r) ==
    /\ crashes < MaxCrashes /\ Spent < MaxChanges
    /\ crashes' = crashes + 1
    /\ eng' = [eng EXCEPT ![r] = Restore(r, disk[r])]
    /\ net' = {m \in net : m.to # r}
    /\ UNCHANGED <<disk, published, changes>>

-----------------------------------------------------------------------------
(* Events *)

Free == UNCHANGED changes
Counted(kind) == kind \in Faults /\ Spent < MaxChanges /\ changes' = changes + 1

\* A carrier link comes up: its cost is infinite until Hellos and IHUs have
\* been exchanged, and we ask for a full dump.  The other end may not have noticed
\* that an earlier incarnation was lost (a flap).
AddLink(r, n) ==
    /\ eng[r].cost[n] = NoLink
    /\ RoutingStep(r, queue([eng[r] EXCEPT !.cost[n] = Infinity], {RouteRequest(r, n, TRUE)}), {}, net)
    /\ \/ eng[n].cost[r] = NoLink /\ {r, n} \in Fragile /\ Counted("link")
       \/ eng[n].cost[r] = Infinity /\ Free
       \/ eng[n].cost[r] \notin {NoLink, Infinity} /\ "flap" \in Faults /\ Free

\* A carrier link goes down at this end; packets of its incarnation are stale.
\* Losing it because the other end is gone costs none of the bounded changes.
RemoveLink(r, n) ==
    /\ eng[r].cost[n] # NoLink
    /\ RoutingStep(r, [eng[r] EXCEPT !.cost[n] = NoLink, !.cand[n] = NoCand], {},
          {m \in net : ~(m.to = r /\ m.from = n)})
    /\ IF eng[n].cost[r] = NoLink THEN Free ELSE Counted("link") /\ {r, n} \in Fragile

\* Hello and IHU exchange completes on a link both ends have.
LinkReady(r, n, c) ==
    /\ eng[r].cost[n] = Infinity /\ eng[n].cost[r] # NoLink
    /\ RoutingStep(r, [eng[r] EXCEPT !.cost[n] = c], {}, net)
    /\ Free

\* The cost of a link changes, or Hellos stop arriving.
SetCost(r, n, c) ==
    /\ eng[r].cost[n] \notin {NoLink, Infinity, c}
    /\ RoutingStep(r, [eng[r] EXCEPT !.cost[n] = c], {}, net)
    /\ Counted("cost")

\* A packet arrives.  A sequence-number request that would take the origin past
\* MaxBumps is not explored.
Packet(n, r) == {m \in net : m.from = n /\ m.to = r}

PastBound(e, P) ==
    /\ e.local # Infinity /\ Rank(e.seq) >= MaxBumps
    /\ \E m \in Of(P, "seqreq") : ~atLeast(e.seq, m.seq)

Receive(r, n) ==
    LET P == Packet(n, r) IN
    /\ P # {}
    /\ eng[r].cost[n] # NoLink
    /\ ~PastBound(eng[r], P)
    /\ \E low \in (IF Of(P, "update") = P THEN {NoRouter} ELSE Nbr(r)),
          late \in (IF Of(P, "update") \in {P, {}} THEN {FALSE} ELSE BOOLEAN) :
          RoutingStep(r, receive(eng[r], r, P, low, late), {}, net \ P)
    /\ Free

\* The carrier loses a packet.
Lose(r, n) ==
    /\ Packet(n, r) # {}
    /\ net' = net \ Packet(n, r)
    /\ Counted("loss")
    /\ UNCHANGED <<eng, disk, published, crashes>>

Originate(r, m) ==
    /\ r = Origin /\ eng[r].local # m
    /\ RoutingStep(r, [eng[r] EXCEPT !.local = m, !.drop = FALSE], {}, net)
    /\ IF eng[r].local = Infinity THEN Free ELSE Counted("origin")

Withdraw(r) ==
    /\ r = Origin /\ eng[r].local # Infinity
    /\ RoutingStep(r, [eng[r] EXCEPT !.local = Infinity], {}, net)
    /\ Counted("origin")

\* The directory accepts a newer manifest of the origin and the node ticks.
LearnManifest(r, s) ==
    /\ r # Origin
    /\ eng[r].auth = NoSeq \/ newer(s, eng[r].auth)
    /\ RoutingStep(r, [eng[r] EXCEPT !.auth = s], {}, net)
    /\ Free

-----------------------------------------------------------------------------
(* Timers *)

\* Periodic and triggered updates.
SendUpdates(r) ==
    /\ RoutingStep(r, eng[r], Nbr(r), net)
    /\ Free

\* A pending request is repeated.
ResendRequest(r) ==
    LET q == eng[r].req IN
    /\ q # NoReq
    /\ RoutingStep(r, queue(eng[r], {SeqRequest(r, n, q.seq, q.hops) : n \in q.targets}), {}, net)
    /\ Counted("timeout")

\* The selected candidate is close to expiry: ask its neighbour to refresh it.
Refresh(r) ==
    LET n == eng[r].sel.link IN
    /\ n # NoRouter
    /\ RoutingStep(r, queue(eng[r], {RouteRequest(r, n, FALSE)}), {}, net)
    /\ Counted("timeout")

\* No update refreshed a candidate in time.
ExpireCandidate(r, n) ==
    /\ eng[r].cand[n] # NoCand
    /\ RoutingStep(r, [eng[r] EXCEPT !.cand[n] = NoCand], {}, net)
    /\ Counted("expiry")

\* The source entry is collected.  New requires SourceGC to be at least three
\* minutes and at least the time an advertisement stays valid, so whatever was
\* learnt from this router's advertisements has expired by then.
ExpireSource(r) ==
    /\ eng[r].src # NoSrc
    /\ \A n \in Nbr(r) : eng[n].cand[r] = NoCand
    /\ ~\E m \in net : m.type = "update" /\ m.from = r /\ m.metric # Infinity
    /\ RoutingStep(r, [eng[r] EXCEPT !.src = NoSrc], {}, net)
    /\ Counted("expiry")

ExpireRequest(r) ==
    /\ eng[r].req # NoReq
    /\ RoutingStep(r, [eng[r] EXCEPT !.req = NoReq], {}, net)
    /\ Free

ExpireDrop(r) ==
    /\ eng[r].drop
    /\ RoutingStep(r, [eng[r] EXCEPT !.drop = FALSE], {}, net)
    /\ Counted("expiry")

-----------------------------------------------------------------------------
(* Links are up and Hellos exchanged, the origin's manifest has reached every *)
(* router; nothing has been advertised yet.                                   *)
Init ==
    /\ \E m \in LocalMetrics, cost \in [Routers -> [Routers -> LinkCosts]] :
          eng = [r \in Routers |->
                   [Fresh(r, FirstSeq) EXCEPT
                       !.cost = [n \in Nbr(r) |-> cost[r][n]],
                       !.local = IF r = Origin THEN m ELSE Infinity,
                       !.auth = FirstSeq,
                       !.proof = IF r = Origin THEN FirstSeq ELSE NoSeq]]
    /\ disk = [r \in Routers |-> Checkpoint(Fresh(r, FirstSeq))]
    /\ net = {}
    /\ published = {FirstSeq}
    /\ changes = 0 /\ crashes = 0

Tick(r) ==
    \/ SendUpdates(r) \/ ResendRequest(r) \/ Refresh(r)
    \/ ExpireSource(r) \/ ExpireRequest(r) \/ ExpireDrop(r)
    \/ \E n \in Nbr(r) : ExpireCandidate(r, n)

Next ==
    \/ \E r \in Routers :
          \/ PublishLater(r) \/ Crash(r) \/ Withdraw(r) \/ Tick(r)
          \/ \E n \in Nbr(r) :
                \/ Receive(r, n) \/ Lose(r, n) \/ AddLink(r, n) \/ RemoveLink(r, n)
                \/ \E c \in LinkCosts : LinkReady(r, n, c)
                \/ \E c \in LinkCosts \cup {Infinity} : SetCost(r, n, c)
          \/ \E m \in LocalMetrics : Originate(r, m)
          \/ \E s \in published : LearnManifest(r, s)

Spec == Init /\ [][Next]_vars

\* Fairness, as conditions met again and again.  Each follows from weak fairness
\* of the action it names (after that action it is true, and where the action
\* would change nothing it is true already), so nothing more is assumed.
UpdatesSent(r) == \* SendUpdates
    \A new \in Outcomes(eng[r], r, Nbr(r)) : Tracked(new.out) \subseteq net
PacketTaken(r, n) == \* Receive
    \/ Packet(n, r) = {} \/ eng[r].cost[n] = NoLink
    \/ PastBound(eng[r], Packet(n, r))
LinkMatched(r, n) == \* AddLink, RemoveLink
    eng[r].cost[n] = NoLink <=> eng[n].cost[r] = NoLink
HellosExchanged(r, n) == \* LinkReady
    eng[r].cost[n] # Infinity \/ eng[n].cost[r] = NoLink
ManifestLearnt(r) == \* LearnManifest
    r = Origin \/ \A s \in published : ~newer(s, eng[r].auth)

Fairness ==
    /\ []<>(eng[Origin].proof = disk[Origin].seq) \* PublishLater
    /\ \A r \in Routers :
          /\ []<>UpdatesSent(r)
          /\ []<>(eng[r].req = NoReq) \* ExpireRequest
          /\ []<>ManifestLearnt(r)
          /\ \A n \in Nbr(r) :
                []<>PacketTaken(r, n) /\ []<>LinkMatched(r, n) /\ []<>HellosExchanged(r, n)

FairSpec == Spec /\ Fairness

-----------------------------------------------------------------------------
(* Properties *)

Distances == [seq : Seqnos, metric : Metrics]

MessageOK(m) ==
    /\ m.from \in Routers /\ m.to \in Nbr(m.from)
    /\ CASE m.type = "update"  -> m.seq \in Seqnos /\ m.metric \in Metrics
         [] m.type = "request" -> m.wildcard \in BOOLEAN
         [] m.type = "seqreq"  -> m.seq \in Seqnos /\ m.hops \in 1 .. FirstHops

EngineOK(e, r) ==
    /\ e.seq \in Seqnos /\ e.local \in Metrics
    /\ e.auth = NoSeq \/ e.auth \in Seqnos
    /\ e.proof = NoSeq \/ e.proof \in Seqnos
    /\ e.cost \in [Nbr(r) -> Metrics]
    /\ e.cand \in [Nbr(r) -> [seq : Seqnos, adv : Metrics]]
    /\ e.src \in Distances
    /\ e.sel.kind \in {"none", "unreachable", "local", "via"}
    /\ e.sel.seq \in Seqnos /\ e.sel.metric \in Metrics
    /\ e.sel.link \in (IF e.sel.kind = "via" THEN Nbr(r) ELSE {NoRouter})
    /\ e.drop \in BOOLEAN
    /\ e.req = NoReq \/ e.req.seq \in Seqnos
    /\ e.req.targets \subseteq Nbr(r) /\ e.req.from \in Nbr(r) \cup {NoRouter}
    /\ \A m \in e.out : MessageOK(m) /\ m.from = r

\* Every number stays in its 16-bit range: sequence numbers wrap, metrics saturate.
TypeOK ==
    /\ \A r \in Routers : EngineOK(eng[r], r)
    /\ disk \in [Routers -> [seq : Seqnos, src : Distances, drop : BOOLEAN]]
    /\ \A m \in net : MessageOK(m)
    /\ published \subseteq Seqnos
    /\ changes \in 0 .. MaxChanges /\ crashes \in 0 .. MaxCrashes

\* The neighbour a router forwards the prefix to.
Forward(r) == eng[r].sel.link

\* A path of links that work in both directions leads from r to the origin.
Connected(r) ==
    \A S \in SUBSET (Routers \ {Origin}) : r \in S =>
        \E n \in S : \E k \in Nbr(n) \ S :
            eng[n].cost[k] \in LinkCosts /\ eng[k].cost[n] \in LinkCosts

\* Once the bounded faults are over, every router that links still connect to
\* an origin of the prefix has a route again and keeps it: a router whose only
\* offers are infeasible is not starved, because its sequence-number request is
\* repeated, passed on and answered with a newer, published number.
Recovers ==
    <>[](eng[Origin].local # Infinity =>
           \A r \in Routers \ {Origin} : Connected(r) => eng[r].sel.kind = "via")

\* No set of routers forwards the prefix in a circle, whatever mixture of stale
\* candidates, retractions and restarts the selections were made from.
NoLoop ==
    \A S \in (SUBSET Routers) \ {{}} : \E r \in S : Forward(r) \notin S

\* The distance that [seq, metric] stands for: a newer number is lower, and so
\* is a smaller metric of the same number.
Top == (MaxBumps + 1) * SeqSpace
Height(d) ==
    IF d.metric = Infinity THEN Top ELSE (MaxBumps - Rank(d.seq)) * SeqSpace + d.metric

LF == INSTANCE LoopFree WITH
        hop    <- [r \in Routers |-> Forward(r)],
        height <- [r \in Routers |-> Height(disk[r].src)]

\* The mesh implements the abstract specification of loop-free forwarding, the
\* checkpoints being the heights: a router forwards only to one whose saved
\* feasibility distance is strictly better than its own saved one.
ForwardsDownhill == LF!Spec

\* Every sequence number that anyone may rely on is covered by the number the
\* origin has saved, so an origin that restarts never falls behind its own
\* earlier announcements.
SeqDurable ==
    LET Covered(s) == atLeast(disk[Origin].seq, s) IN
    /\ \A s \in published : Covered(s)
    /\ \A m \in net : m.type = "update" /\ m.metric # Infinity => Covered(m.seq)
    /\ \A r \in Routers :
          /\ eng[r].src.metric # Infinity => Covered(eng[r].src.seq)
          /\ disk[r].src.metric # Infinity => Covered(disk[r].src.seq)
          /\ \A n \in Nbr(r) : eng[r].cand[n].adv # Infinity => Covered(eng[r].cand[n].seq)

=============================================================================
