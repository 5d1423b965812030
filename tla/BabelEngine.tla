----------------------------- MODULE BabelEngine -----------------------------
(***************************************************************************)
(* The decision procedures of the Babel routing engine (go/babel), as      *)
(* operators on one engine's memory.  Each operator takes the memory e and *)
(* returns the memory after the function of the same name has run; what    *)
(* that function queues is added to e.out.                                 *)
(*                                                                         *)
(* One prefix with one origin is modelled: every map of the Go Engine      *)
(* keyed by prefix or by (prefix, router ID) is a single entry here, and   *)
(* loop freedom is a per-source property.  Fields of an engine's memory:   *)
(*   seq    the router's own sequence number (16 bits)                     *)
(*   local  metric of the locally originated route, Infinity when none     *)
(*   cost   per neighbour: NoLink, or what cost() computes for the link    *)
(*   cand   per neighbour: the candidate route [seq, adv] it advertised;   *)
(*          adv = Infinity stands for a retracted or absent candidate      *)
(*   src    the source entry: feasibility distance [seq, metric]; metric = *)
(*          Infinity when there is none                                    *)
(*   sel    the selected route [kind, seq, metric, link]                   *)
(*   drop   the prefix has an unexpired drop hold                          *)
(*   req    the pending sequence-number request [seq, targets, from, hops] *)
(*   auth   the sequence number the origin's signed manifest authorizes,   *)
(*          as this node's directory knows it (AcceptRouteUpdate)          *)
(*   proof  the sequence number of our own published manifest              *)
(*          (AdvertiseLocalRoute), NoSeq before the first publication      *)
(*   out    messages queued by the current step                            *)
(*                                                                         *)
(* Timers are not modelled as clocks.  What a timer decides (which links   *)
(* are due, what has expired) is an argument of the step that it triggers. *)
(***************************************************************************)
EXTENDS Integers, FiniteSets

CONSTANTS Routers,   \* the routers of the mesh
          Origin,    \* the router that originates the prefix
          Links      \* the pairs of routers that may share a carrier link

ASSUME RoutersAssumption ==
    /\ Origin \in Routers
    /\ \A l \in Links : \E a, b \in Routers : a # b /\ l = {a, b}

SeqSpace  == 65536
Infinity  == 65535
NoLink    == 0         \* a value of e.cost no link has: costs are positive
NoSeq     == -1
NoRouter  == "none"
FirstHops == 64        \* hop count of a sequence-number request

ASSUME NoRouterAssumption == NoRouter \notin Routers

Nbr(r) == {n \in Routers : {r, n} \in Links}

Seqnos  == 0 .. SeqSpace - 1
Metrics == 0 .. Infinity

NoCand  == [seq |-> 0, adv |-> Infinity]
NoSrc   == [seq |-> 0, metric |-> Infinity]
NoReq   == [seq |-> NoSeq, targets |-> {}, from |-> NoRouter, hops |-> 0]

NoRoute          == [kind |-> "none", seq |-> 0, metric |-> Infinity, link |-> NoRouter]
UnreachableRoute == [kind |-> "unreachable", seq |-> 0, metric |-> Infinity, link |-> NoRouter]

Reachable(route) == route.kind \in {"local", "via"}

Update(from, to, seq, metric) ==
    [type |-> "update", from |-> from, to |-> to, seq |-> seq, metric |-> metric]
RouteRequest(from, to, wildcard) ==
    [type |-> "request", from |-> from, to |-> to, wildcard |-> wildcard]
SeqRequest(from, to, seq, hops) ==
    [type |-> "seqreq", from |-> from, to |-> to, seq |-> seq, hops |-> hops]

-----------------------------------------------------------------------------
(* Sequence numbers and metrics *)

\* Serial-number comparison: a is at most half the space ahead of b.
newer(a, b)   == LET ahead == (a - b) % SeqSpace IN 0 < ahead /\ ahead < 32768
atLeast(a, b) == a = b \/ newer(a, b)

sum_unsaturated(a, b) == a + b

sum(a, b) == IF a + b >= Infinity THEN Infinity ELSE a + b

NextSeq(s) == (s + 1) % SeqSpace

\* (s, m) is strictly better than the distance d: what the feasibility
\* condition asks of an advertisement.
Better(s, m, d) ==
    \/ d.metric = Infinity
    \/ newer(s, d.seq)
    \/ s = d.seq /\ m < d.metric

linkCost(e, n) == IF e.cost[n] = NoLink THEN Infinity ELSE e.cost[n]

feasible_always(e, c) == TRUE

feasible(e, c) == c.adv = Infinity \/ Better(c.seq, c.adv, e.src)

acceptRouteUpdate(e, seq) == seq = e.auth

metric(e, n) ==
    IF acceptRouteUpdate(e, e.cand[n].seq)
    THEN sum(e.cand[n].adv, linkCost(e, n))
    ELSE Infinity

-----------------------------------------------------------------------------
(* Output *)

\* queue: a message for a link that is gone is not queued.
queue(e, msgs) == [e EXCEPT !.out = @ \cup {m \in msgs : e.cost[m.to] # NoLink}]

\* The feasibility distance after advertising (s, m): it only ever improves.
LowerDistance(d, s, m) ==
    IF Better(s, m, d) THEN [seq |-> s, metric |-> m] ELSE d

\* advertise, to each link in ns: a retraction when there is no route; nothing
\* when the local sequence number is not yet authorized, or where the split
\* horizon hides the route.
advertise(e, r, ns, explicit) ==
    LET served == {n \in ns : e.cost[n] # NoLink /\ (explicit \/ e.sel.link # n)} IN
    IF ~Reachable(e.sel)
    THEN queue(e, {Update(r, n, 0, Infinity) : n \in ns})
    ELSE IF served = {} \/ (e.sel.kind = "local" /\ e.proof # e.sel.seq)
    THEN e
    ELSE [queue(e, {Update(r, n, e.sel.seq, e.sel.metric) : n \in served})
            EXCEPT !.src = LowerDistance(@, e.sel.seq, e.sel.metric)]

\* dump: advertise every prefix that has an entry, drop entries included.
dump(e, r, ns, explicit) ==
    IF e.sel.kind = "none" THEN e ELSE advertise(e, r, ns, explicit)

\* request: one pending request per source; one that already asks for at
\* least seq absorbs the new one.
request(e, r, seq, targets, from, hops) ==
    IF e.req # NoReq /\ atLeast(e.req.seq, seq) THEN e
    ELSE [queue(e, {SeqRequest(r, n, seq, hops) : n \in targets})
            EXCEPT !.req = [seq |-> seq, targets |-> targets, from |-> from, hops |-> hops]]

-----------------------------------------------------------------------------
(* Route selection *)

Usable(e, r) ==
    {n \in Nbr(r) : metric(e, n) # Infinity /\ feasible(e, e.cand[n])}

Cheapest(e, S) == {n \in S : \A k \in S : metric(e, n) <= metric(e, k)}

\* Among equals the first link in ID order wins.  IDs are not modelled: low is
\* the neighbour whose link is the older one.
FirstLink(S, low) == IF low \in S THEN low ELSE CHOOSE n \in S : TRUE

\* The links that can be first among the cheapest.
TieBreaks(e, r) ==
    LET best == Cheapest(e, Usable(e, r)) IN IF best = {} THEN {NoRouter} ELSE best

\* The route the candidates give: local first, then the cheapest feasible
\* candidate, an equally cheap one only if it is on the previous link.
Choice(e, r, low) ==
    IF e.local # Infinity
    THEN [kind |-> "local", seq |-> e.seq, metric |-> e.local, link |-> NoRouter]
    ELSE IF Usable(e, r) = {} THEN NoRoute
    ELSE LET best == Cheapest(e, Usable(e, r))
             n    == IF e.sel.link \in best THEN e.sel.link ELSE FirstLink(best, low)
         IN  [kind |-> "via", seq |-> e.cand[n].seq, metric |-> metric(e, n), link |-> n]

\* A route was lost: hold the prefix unreachable and ask, on every link that
\* still offers an (infeasible) route, for a newer sequence number.
LoseRoute(e, r) ==
    LET targets == {n \in Nbr(r) : e.cand[n].adv # Infinity /\ linkCost(e, n) # Infinity}
        held    == [e EXCEPT !.drop = TRUE]
    IN  IF e.src.metric # Infinity /\ targets # {}
        THEN request(held, r, NextSeq(e.src.seq), targets, NoRouter, FirstHops)
        ELSE held

\* A pending request that the selected route answers is passed back to the
\* neighbour it came from and forgotten.
AnswerRequest(e, r) ==
    IF e.req = NoReq \/ ~Reachable(e.sel) \/ ~atLeast(e.sel.seq, e.req.seq) THEN e
    ELSE LET told == IF e.req.from = NoRouter THEN e ELSE advertise(e, r, {e.req.from}, TRUE)
         IN  [told EXCEPT !.req = NoReq]

selectRoutes(e, r, low) ==
    LET next == Choice(e, r, low)
        lost == IF next = NoRoute /\ Reachable(e.sel) THEN LoseRoute(e, r) ELSE e
        held == [lost EXCEPT !.drop = @ /\ next = NoRoute]
        sel  == IF held.drop THEN UnreachableRoute ELSE next
    IN  AnswerRequest([held EXCEPT !.sel = sel], r)

-----------------------------------------------------------------------------
(* Received messages *)

\* update: a retraction withdraws this neighbour's candidate only; a finite
\* update that is not authorized, or names ourselves as the origin, changes
\* nothing; an infeasible one that would have helped asks for a newer number.
update(e, r, m) ==
    LET n == m.from
        c == [e EXCEPT !.cand[n] = [seq |-> m.seq, adv |-> m.metric]]
        wanted == \/ ~Reachable(e.sel)
                  \/ e.sel.link = n
                  \/ metric(c, n) < e.sel.metric
    IN  CASE m.metric = Infinity -> [e EXCEPT !.cand[n] = NoCand]
          [] m.metric # Infinity /\ (~acceptRouteUpdate(e, m.seq) \/ r = Origin) -> e
          [] OTHER -> IF ~feasible(c, c.cand[n]) /\ wanted
                      THEN request(c, r, NextSeq(c.src.seq), {n}, NoRouter, FirstHops)
                      ELSE c

\* seqRequest: answer it if the selected route is new enough, bump our own
\* number if the prefix is ours, otherwise pass it on towards the origin.
ForwardTo(e, r, from, low) ==
    LET S    == {n \in Nbr(r) \ {from} : metric(e, n) # Infinity}
        F    == {n \in S : feasible(e, e.cand[n])}
    IN  IF S = {} THEN NoRouter
        ELSE FirstLink(Cheapest(e, IF F # {} THEN F ELSE S), low)

Answers(e, m) == Reachable(e.sel) /\ atLeast(e.sel.seq, m.seq)

Bumps_never(e, m) == FALSE

Bumps(e, m) == e.sel.kind = "local" /\ ~Answers(e, m)

seqRequest(e, r, m, low) ==
    LET n == ForwardTo(e, r, m.from, low) IN
    CASE Answers(e, m) -> advertise(e, r, {m.from}, TRUE)
      [] Bumps(e, m) ->
            advertise(selectRoutes([e EXCEPT !.seq = NextSeq(@)], r, low), r, {m.from}, TRUE)
      [] ~Answers(e, m) /\ ~Bumps(e, m) ->
            IF r = Origin \/ m.hops < 2 \/ e.src.metric = Infinity \/ n = NoRouter
            THEN e
            ELSE request(e, r, m.seq, {n}, m.from, m.hops - 1)

Of(P, type) == {m \in P : m.type = type}

ReceiveUpdates(e, r, P) ==
    IF Of(P, "update") = {} THEN e ELSE update(e, r, CHOOSE m \in Of(P, "update") : TRUE)

\* Requests are answered from a fresh selection; a wildcard request dumps only
\* prefixes that have an entry.
ReceiveRequests(e, r, P, low) ==
    LET s == selectRoutes(e, r, low)
        from == {m.from : m \in P}
        a == CASE Of(P, "request") = {} -> s
               [] \E m \in Of(P, "request") : ~m.wildcard -> advertise(s, r, from, TRUE)
               [] OTHER -> dump(s, r, from, TRUE)
    IN  IF Of(P, "seqreq") # {}
        THEN seqRequest(a, r, CHOOSE m \in Of(P, "seqreq") : TRUE, low)
        ELSE IF Of(P, "request") # {} THEN a ELSE e

\* receive, for the messages P of a packet from one neighbour: a packet holds at
\* most one update of the prefix, before its requests or (late) after them.
receive(e, r, P, low, late) ==
    IF late THEN ReceiveUpdates(ReceiveRequests(e, r, P, low), r, P)
    ELSE ReceiveRequests(ReceiveUpdates(e, r, P), r, P, low)

-----------------------------------------------------------------------------
(* Restart *)

Checkpoint_published(e) ==
    [seq |-> IF e.proof = NoSeq THEN e.seq ELSE e.proof, src |-> e.src,
     drop |-> e.drop \/ e.sel.kind # "none"]

\* What Checkpoint saves: own sequence number, feasibility distance, and
\* whether the prefix has an entry that must be suppressed after a restart.
Checkpoint(e) == [seq |-> e.seq, src |-> e.src, drop |-> e.drop \/ e.sel.kind # "none"]

\* The memory of a fresh engine: no link, candidate, route or origination.
Fresh(r, seq) ==
    [seq |-> seq, local |-> Infinity, cost |-> [n \in Nbr(r) |-> NoLink],
     cand |-> [n \in Nbr(r) |-> NoCand], src |-> NoSrc, sel |-> NoRoute,
     drop |-> FALSE, req |-> NoReq, auth |-> NoSeq, proof |-> NoSeq, out |-> {}]

Restore_forgetful(r, cp) == [Fresh(r, cp.seq) EXCEPT !.drop = cp.drop]

Restore(r, cp) == [Fresh(r, cp.seq) EXCEPT !.src = cp.src, !.drop = cp.drop]

=============================================================================
