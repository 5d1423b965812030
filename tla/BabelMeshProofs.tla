--------------------------- MODULE BabelMeshProofs ---------------------------
(***************************************************************************)
(* The routing mesh never forwards in a circle: proofs for any set of      *)
(* routers and links, any costs, and any number of crashes and faults.     *)
(***************************************************************************)
EXTENDS BabelMesh, WellFoundedInduction, NaturalsInduction, TLAPS

-----------------------------------------------------------------------------
(* Serial numbers and heights.  Within MaxBumps steps of FirstSeq the        *)
(* circular comparison is a comparison of ranks, and lexicographic           *)
(* improvement of [seq, metric] is a lower height.                           *)

\* A sequence number within reach of the bound.
Near(s) == s \in Seqnos /\ Rank(s) <= MaxBumps

\* A distance that is infinite or has such a number.
NearDistance(d) == d \in Distances /\ (d.metric # Infinity => Near(d.seq))

\* The two sizes stay symbols in what follows; this is all that is used of them.
LEMMA Space == SeqSpace = 65536 /\ Infinity = 65535 /\ SeqSpace \in Int /\ Infinity \in Int
BY DEF SeqSpace, Infinity

LEMMA SeqRange == \A s : s \in Seqnos <=> s \in Int /\ 0 <= s /\ s < 65536
<1>1. SeqSpace \in Int
  BY Space
<1>2. \A s : s \in Seqnos <=> s \in Int /\ 0 <= s /\ s < SeqSpace
  BY <1>1 DEF Seqnos
<1> QED BY <1>2, Space

LEMMA MetricRange == \A m : m \in Metrics <=> m \in Int /\ 0 <= m /\ m <= 65535
<1>1. Infinity \in Int
  BY Space
<1>2. \A m : m \in Metrics <=> m \in Int /\ 0 <= m /\ m <= Infinity
  BY <1>1 DEF Metrics
<1> QED BY <1>2, Space

LEMMA Wrapped ==
  ASSUME NEW a \in Int, NEW b \in Int, 0 <= a, a < 65536, 0 <= b, b < 65536
  PROVE  (a - b) % 65536 = IF a >= b THEN a - b ELSE (a - b) + 65536
OBVIOUS

LEMMA WrappedNext ==
  ASSUME NEW a \in Int, 0 <= a, a < 65536
  PROVE  (a + 1) % 65536 = IF a = 65535 THEN 0 ELSE a + 1
OBVIOUS

LEMMA Difference ==
  ASSUME NEW s \in Seqnos, NEW t \in Seqnos
  PROVE  (s - t) % SeqSpace = IF s >= t THEN s - t ELSE (s - t) + 65536
BY Wrapped, Space, SeqRange

LEMMA RankValue ==
  ASSUME NEW s \in Seqnos
  PROVE  Rank(s) = IF s >= FirstSeq THEN s - FirstSeq ELSE (s - FirstSeq) + 65536
BY MeshAssumption, Difference DEF Rank

LEMMA RankType == ASSUME NEW s \in Seqnos PROVE Rank(s) \in Nat
<1>1. FirstSeq \in Seqnos
  BY MeshAssumption
<1> QED BY <1>1, RankValue, SeqRange

LEMMA RankOrder ==
  ASSUME NEW s, NEW t, Near(s), Near(t)
  PROVE  /\ newer(s, t) <=> Rank(s) > Rank(t)
         /\ s = t <=> Rank(s) = Rank(t)
<1>1. s \in Seqnos /\ t \in Seqnos /\ FirstSeq \in Seqnos /\ MaxBumps \in Nat /\ MaxBumps < 32767
      /\ Rank(s) <= MaxBumps /\ Rank(t) <= MaxBumps
  BY MeshAssumption DEF Near
<1>2. newer(s, t) <=> LET d == IF s >= t THEN s - t ELSE (s - t) + 65536 IN 0 < d /\ d < 32768
  BY <1>1, Difference DEF newer
<1> QED BY <1>1, <1>2, RankValue, SeqRange

LEMMA RankAtLeast ==
  ASSUME NEW s, NEW t, Near(s), Near(t)
  PROVE  atLeast(s, t) <=> Rank(s) >= Rank(t)
<1>1. Rank(s) \in Nat /\ Rank(t) \in Nat
  BY RankType DEF Near
<1> QED BY <1>1, RankOrder DEF atLeast

LEMMA NextSeqValue ==
  ASSUME NEW s \in Seqnos
  PROVE  NextSeq(s) = IF s = 65535 THEN 0 ELSE s + 1
BY WrappedNext, Space, SeqRange DEF NextSeq

LEMMA NextSeqType == ASSUME NEW s \in Seqnos PROVE NextSeq(s) \in Seqnos
BY NextSeqValue, SeqRange

LEMMA NextRank ==
  ASSUME NEW s, Near(s), Rank(s) < MaxBumps
  PROVE  Rank(NextSeq(s)) = Rank(s) + 1
<1>1. s \in Seqnos /\ FirstSeq \in Seqnos /\ MaxBumps \in Nat /\ MaxBumps < 32767 /\ NextSeq(s) \in Seqnos
  BY MeshAssumption, NextSeqType DEF Near
<1> QED BY <1>1, NextSeqValue, RankValue, SeqRange

LEMMA HeightValue ==
  ASSUME NEW d, d.metric # Infinity
  PROVE  Height(d) = (MaxBumps - Rank(d.seq)) * 65536 + d.metric
BY Space DEF Height

LEMMA HeightType ==
  ASSUME NEW d, d.metric \in Metrics, d.metric # Infinity => Near(d.seq)
  PROVE  /\ Height(d) \in Nat /\ Height(d) <= Top
         /\ d.metric # Infinity => Height(d) < Top
<1>1. MaxBumps \in Nat /\ Top = (MaxBumps + 1) * 65536
  BY MeshAssumption, Space DEF Top
<1>2. CASE d.metric = Infinity
  <2>1. Height(d) = Top
    BY <1>2 DEF Height
  <2>2. Top \in Nat
    BY <1>1
  <2> QED BY <1>2, <2>1, <2>2
<1>3. CASE d.metric # Infinity
  <2>1. Rank(d.seq) \in Nat /\ Rank(d.seq) <= MaxBumps /\ d.metric \in Int /\ 0 <= d.metric /\ d.metric < 65535
    BY <1>3, RankType, MetricRange, Space DEF Near
  <2>2. Height(d) = (MaxBumps - Rank(d.seq)) * 65536 + d.metric
    BY <1>3, HeightValue
  <2> QED BY <1>1, <2>1, <2>2
<1> QED BY <1>2, <1>3

\* An advertisement that is better than d is below d.
LEMMA BetterIsLower ==
  ASSUME NEW c, NEW d, c.metric \in Metrics, c.metric # Infinity, Near(c.seq), NearDistance(d),
         Better(c.seq, c.metric, d)
  PROVE  Height(c) < Height(d)
<1>1. MaxBumps \in Nat
  BY MeshAssumption
<1>2. CASE d.metric = Infinity
  <2>1. Height(d) = Top
    BY <1>2 DEF Height
  <2> QED BY <2>1, HeightType
<1>3. CASE d.metric # Infinity
  <2>1. /\ Rank(c.seq) \in Nat /\ Rank(d.seq) \in Nat /\ Near(d.seq) /\ Rank(d.seq) <= MaxBumps
        /\ c.metric \in Int /\ 0 <= c.metric /\ c.metric < 65535
        /\ d.metric \in Int /\ 0 <= d.metric /\ d.metric < 65535
    BY <1>3, RankType, MetricRange, Space DEF Near, NearDistance, Distances
  <2>2. /\ Height(c) = (MaxBumps - Rank(c.seq)) * 65536 + c.metric
        /\ Height(d) = (MaxBumps - Rank(d.seq)) * 65536 + d.metric
    BY <1>3, HeightValue
  <2>3. Rank(c.seq) > Rank(d.seq) \/ (Rank(c.seq) = Rank(d.seq) /\ c.metric < d.metric)
    BY <1>3, <2>1, RankOrder DEF Better
  <2> QED BY <1>1, <2>1, <2>2, <2>3
<1> QED BY <1>2, <1>3

\* One that is not is at d or above it.
LEMMA OtherwiseNotLower ==
  ASSUME NEW c, NEW d, c.metric \in Metrics, c.metric # Infinity, Near(c.seq), NearDistance(d),
         ~Better(c.seq, c.metric, d)
  PROVE  Height(d) <= Height(c)
<1>1. MaxBumps \in Nat /\ d.metric # Infinity
  BY MeshAssumption DEF Better
<1>2. /\ Rank(c.seq) \in Nat /\ Rank(d.seq) \in Nat /\ Near(d.seq) /\ Rank(c.seq) <= MaxBumps
      /\ c.metric \in Int /\ 0 <= c.metric /\ c.metric < 65535
      /\ d.metric \in Int /\ 0 <= d.metric /\ d.metric < 65535
  BY <1>1, RankType, MetricRange, Space DEF Near, NearDistance, Distances
<1>3. /\ Height(c) = (MaxBumps - Rank(c.seq)) * 65536 + c.metric
      /\ Height(d) = (MaxBumps - Rank(d.seq)) * 65536 + d.metric
  BY <1>1, HeightValue
<1>4. Rank(c.seq) < Rank(d.seq) \/ (Rank(c.seq) = Rank(d.seq) /\ c.metric >= d.metric)
  BY <1>1, <1>2, RankOrder DEF Better
<1> QED BY <1>1, <1>2, <1>3, <1>4

\* The same number with a larger metric is higher.
LEMMA FartherIsHigher ==
  ASSUME NEW c, NEW d, Near(c.seq), d.seq = c.seq, c.metric \in Metrics, d.metric \in Metrics,
         d.metric # Infinity, c.metric < d.metric
  PROVE  Height(c) < Height(d)
<1>1. /\ Rank(c.seq) \in Nat /\ MaxBumps \in Nat /\ c.metric \in Int /\ d.metric \in Int
      /\ d.metric <= 65535
  BY RankType, MeshAssumption, MetricRange DEF Near
<1>2. c.metric # Infinity
  BY <1>1, Space
<1>3. /\ Height(c) = (MaxBumps - Rank(c.seq)) * 65536 + c.metric
      /\ Height(d) = (MaxBumps - Rank(c.seq)) * 65536 + d.metric
  BY <1>2, HeightValue
<1> QED BY <1>1, <1>3

-----------------------------------------------------------------------------
(* The memory of an engine as a record, and what changing one field leaves. *)

Cands     == [seq : Seqnos, adv : Metrics]
Routes(r) == [kind : {"none", "unreachable", "local", "via"}, seq : Seqnos,
              metric : Metrics, link : Nbr(r) \cup {NoRouter}]
Reqs(r)   == [seq : Seqnos \cup {NoSeq}, targets : SUBSET Nbr(r),
              from : Nbr(r) \cup {NoRouter}, hops : 0 .. FirstHops]
Messages(r) ==
       [type : {"update"}, from : {r}, to : Nbr(r), seq : Seqnos, metric : Metrics]
  \cup [type : {"request"}, from : {r}, to : Nbr(r), wildcard : BOOLEAN]
  \cup [type : {"seqreq"}, from : {r}, to : Nbr(r), seq : Seqnos, hops : 1 .. FirstHops]
Engines(r) ==
  [seq : Seqnos, local : Metrics, cost : [Nbr(r) -> Metrics], cand : [Nbr(r) -> Cands],
   src : Distances, sel : Routes(r), drop : BOOLEAN, req : Reqs(r),
   auth : Seqnos \cup {NoSeq}, proof : Seqnos \cup {NoSeq}, out : SUBSET Messages(r)]
Checkpoints == [seq : Seqnos, src : Distances, drop : BOOLEAN]

LEMMA EngineFields ==
  ASSUME NEW r, NEW e \in Engines(r)
  PROVE  /\ e.seq \in Seqnos /\ e.local \in Metrics /\ e.cost \in [Nbr(r) -> Metrics]
         /\ e.cand \in [Nbr(r) -> Cands] /\ e.src \in Distances /\ e.sel \in Routes(r)
         /\ e.drop \in BOOLEAN /\ e.req \in Reqs(r) /\ e.auth \in Seqnos \cup {NoSeq}
         /\ e.proof \in Seqnos \cup {NoSeq} /\ e.out \in SUBSET Messages(r)
BY DEF Engines

LEMMA WithSeq ==
  ASSUME NEW r, NEW e \in Engines(r), NEW v \in Seqnos
  PROVE  /\ [e EXCEPT !.seq = v] \in Engines(r) /\ [e EXCEPT !.seq = v].seq = v
         /\ [e EXCEPT !.seq = v].local = e.local /\ [e EXCEPT !.seq = v].cost = e.cost
         /\ [e EXCEPT !.seq = v].cand = e.cand /\ [e EXCEPT !.seq = v].src = e.src
         /\ [e EXCEPT !.seq = v].sel = e.sel /\ [e EXCEPT !.seq = v].drop = e.drop
         /\ [e EXCEPT !.seq = v].req = e.req /\ [e EXCEPT !.seq = v].auth = e.auth
         /\ [e EXCEPT !.seq = v].proof = e.proof /\ [e EXCEPT !.seq = v].out = e.out
BY DEF Engines

LEMMA WithLocal ==
  ASSUME NEW r, NEW e \in Engines(r), NEW v \in Metrics
  PROVE  /\ [e EXCEPT !.local = v] \in Engines(r) /\ [e EXCEPT !.local = v].local = v
         /\ [e EXCEPT !.local = v].seq = e.seq /\ [e EXCEPT !.local = v].cost = e.cost
         /\ [e EXCEPT !.local = v].cand = e.cand /\ [e EXCEPT !.local = v].src = e.src
         /\ [e EXCEPT !.local = v].sel = e.sel /\ [e EXCEPT !.local = v].drop = e.drop
         /\ [e EXCEPT !.local = v].req = e.req /\ [e EXCEPT !.local = v].auth = e.auth
         /\ [e EXCEPT !.local = v].proof = e.proof /\ [e EXCEPT !.local = v].out = e.out
BY DEF Engines

LEMMA WithCost ==
  ASSUME NEW r, NEW e \in Engines(r), NEW v \in [Nbr(r) -> Metrics]
  PROVE  /\ [e EXCEPT !.cost = v] \in Engines(r) /\ [e EXCEPT !.cost = v].cost = v
         /\ [e EXCEPT !.cost = v].seq = e.seq /\ [e EXCEPT !.cost = v].local = e.local
         /\ [e EXCEPT !.cost = v].cand = e.cand /\ [e EXCEPT !.cost = v].src = e.src
         /\ [e EXCEPT !.cost = v].sel = e.sel /\ [e EXCEPT !.cost = v].drop = e.drop
         /\ [e EXCEPT !.cost = v].req = e.req /\ [e EXCEPT !.cost = v].auth = e.auth
         /\ [e EXCEPT !.cost = v].proof = e.proof /\ [e EXCEPT !.cost = v].out = e.out
BY DEF Engines

LEMMA WithCand ==
  ASSUME NEW r, NEW e \in Engines(r), NEW v \in [Nbr(r) -> Cands]
  PROVE  /\ [e EXCEPT !.cand = v] \in Engines(r) /\ [e EXCEPT !.cand = v].cand = v
         /\ [e EXCEPT !.cand = v].seq = e.seq /\ [e EXCEPT !.cand = v].local = e.local
         /\ [e EXCEPT !.cand = v].cost = e.cost /\ [e EXCEPT !.cand = v].src = e.src
         /\ [e EXCEPT !.cand = v].sel = e.sel /\ [e EXCEPT !.cand = v].drop = e.drop
         /\ [e EXCEPT !.cand = v].req = e.req /\ [e EXCEPT !.cand = v].auth = e.auth
         /\ [e EXCEPT !.cand = v].proof = e.proof /\ [e EXCEPT !.cand = v].out = e.out
BY DEF Engines

LEMMA WithSrc ==
  ASSUME NEW r, NEW e \in Engines(r), NEW v \in Distances
  PROVE  /\ [e EXCEPT !.src = v] \in Engines(r) /\ [e EXCEPT !.src = v].src = v
         /\ [e EXCEPT !.src = v].seq = e.seq /\ [e EXCEPT !.src = v].local = e.local
         /\ [e EXCEPT !.src = v].cost = e.cost /\ [e EXCEPT !.src = v].cand = e.cand
         /\ [e EXCEPT !.src = v].sel = e.sel /\ [e EXCEPT !.src = v].drop = e.drop
         /\ [e EXCEPT !.src = v].req = e.req /\ [e EXCEPT !.src = v].auth = e.auth
         /\ [e EXCEPT !.src = v].proof = e.proof /\ [e EXCEPT !.src = v].out = e.out
BY DEF Engines

LEMMA WithSel ==
  ASSUME NEW r, NEW e \in Engines(r), NEW v \in Routes(r)
  PROVE  /\ [e EXCEPT !.sel = v] \in Engines(r) /\ [e EXCEPT !.sel = v].sel = v
         /\ [e EXCEPT !.sel = v].seq = e.seq /\ [e EXCEPT !.sel = v].local = e.local
         /\ [e EXCEPT !.sel = v].cost = e.cost /\ [e EXCEPT !.sel = v].cand = e.cand
         /\ [e EXCEPT !.sel = v].src = e.src /\ [e EXCEPT !.sel = v].drop = e.drop
         /\ [e EXCEPT !.sel = v].req = e.req /\ [e EXCEPT !.sel = v].auth = e.auth
         /\ [e EXCEPT !.sel = v].proof = e.proof /\ [e EXCEPT !.sel = v].out = e.out
BY DEF Engines

LEMMA WithDrop ==
  ASSUME NEW r, NEW e \in Engines(r), NEW v \in BOOLEAN
  PROVE  /\ [e EXCEPT !.drop = v] \in Engines(r) /\ [e EXCEPT !.drop = v].drop = v
         /\ [e EXCEPT !.drop = v].seq = e.seq /\ [e EXCEPT !.drop = v].local = e.local
         /\ [e EXCEPT !.drop = v].cost = e.cost /\ [e EXCEPT !.drop = v].cand = e.cand
         /\ [e EXCEPT !.drop = v].src = e.src /\ [e EXCEPT !.drop = v].sel = e.sel
         /\ [e EXCEPT !.drop = v].req = e.req /\ [e EXCEPT !.drop = v].auth = e.auth
         /\ [e EXCEPT !.drop = v].proof = e.proof /\ [e EXCEPT !.drop = v].out = e.out
BY DEF Engines

LEMMA WithReq ==
  ASSUME NEW r, NEW e \in Engines(r), NEW v \in Reqs(r)
  PROVE  /\ [e EXCEPT !.req = v] \in Engines(r) /\ [e EXCEPT !.req = v].req = v
         /\ [e EXCEPT !.req = v].seq = e.seq /\ [e EXCEPT !.req = v].local = e.local
         /\ [e EXCEPT !.req = v].cost = e.cost /\ [e EXCEPT !.req = v].cand = e.cand
         /\ [e EXCEPT !.req = v].src = e.src /\ [e EXCEPT !.req = v].sel = e.sel
         /\ [e EXCEPT !.req = v].drop = e.drop /\ [e EXCEPT !.req = v].auth = e.auth
         /\ [e EXCEPT !.req = v].proof = e.proof /\ [e EXCEPT !.req = v].out = e.out
BY DEF Engines

LEMMA WithAuth ==
  ASSUME NEW r, NEW e \in Engines(r), NEW v \in Seqnos \cup {NoSeq}
  PROVE  /\ [e EXCEPT !.auth = v] \in Engines(r) /\ [e EXCEPT !.auth = v].auth = v
         /\ [e EXCEPT !.auth = v].seq = e.seq /\ [e EXCEPT !.auth = v].local = e.local
         /\ [e EXCEPT !.auth = v].cost = e.cost /\ [e EXCEPT !.auth = v].cand = e.cand
         /\ [e EXCEPT !.auth = v].src = e.src /\ [e EXCEPT !.auth = v].sel = e.sel
         /\ [e EXCEPT !.auth = v].drop = e.drop /\ [e EXCEPT !.auth = v].req = e.req
         /\ [e EXCEPT !.auth = v].proof = e.proof /\ [e EXCEPT !.auth = v].out = e.out
BY DEF Engines

LEMMA WithProof ==
  ASSUME NEW r, NEW e \in Engines(r), NEW v \in Seqnos \cup {NoSeq}
  PROVE  /\ [e EXCEPT !.proof = v] \in Engines(r) /\ [e EXCEPT !.proof = v].proof = v
         /\ [e EXCEPT !.proof = v].seq = e.seq /\ [e EXCEPT !.proof = v].local = e.local
         /\ [e EXCEPT !.proof = v].cost = e.cost /\ [e EXCEPT !.proof = v].cand = e.cand
         /\ [e EXCEPT !.proof = v].src = e.src /\ [e EXCEPT !.proof = v].sel = e.sel
         /\ [e EXCEPT !.proof = v].drop = e.drop /\ [e EXCEPT !.proof = v].req = e.req
         /\ [e EXCEPT !.proof = v].auth = e.auth /\ [e EXCEPT !.proof = v].out = e.out
BY DEF Engines

LEMMA WithOut ==
  ASSUME NEW r, NEW e \in Engines(r), NEW v \in SUBSET Messages(r)
  PROVE  /\ [e EXCEPT !.out = v] \in Engines(r) /\ [e EXCEPT !.out = v].out = v
         /\ [e EXCEPT !.out = v].seq = e.seq /\ [e EXCEPT !.out = v].local = e.local
         /\ [e EXCEPT !.out = v].cost = e.cost /\ [e EXCEPT !.out = v].cand = e.cand
         /\ [e EXCEPT !.out = v].src = e.src /\ [e EXCEPT !.out = v].sel = e.sel
         /\ [e EXCEPT !.out = v].drop = e.drop /\ [e EXCEPT !.out = v].req = e.req
         /\ [e EXCEPT !.out = v].auth = e.auth /\ [e EXCEPT !.out = v].proof = e.proof
BY DEF Engines

-----------------------------------------------------------------------------
(* What holds of an engine's memory e in the middle of a step of router r:   *)
(* b bounds the ranks in use, h was the height of its source entry before    *)
(* the step, d holds the checkpoints of all routers.                         *)

\* The distance a candidate was advertised with.
Adv(c) == [seq |-> c.seq, metric |-> c.adv]

\* A finite update is of rank at most b and not below the height h.
Founded(m, b, h) ==
  m.type = "update" /\ m.metric # Infinity => Rank(m.seq) <= b /\ h <= Height(m)

Good(e, r, b, h, d) ==
  /\ e \in Engines(r)
  /\ b \in Nat /\ b <= MaxBumps /\ h \in Nat
  /\ r # Origin => e.local = Infinity
  /\ r = Origin => Rank(e.seq) = b
  /\ e.src.metric # Infinity => Rank(e.src.seq) <= b
  /\ Height(e.src) <= h
  /\ \A n \in Nbr(r) : e.cand[n].adv # Infinity =>
        Rank(e.cand[n].seq) <= b /\ Height(d[n].src) <= Height(Adv(e.cand[n]))
  /\ \A m \in e.out : Founded(m, b, Height(e.src))
  /\ e.req # NoReq => e.req.seq \in Seqnos /\ e.req.hops \in 1 .. FirstHops

\* The route s could have been selected from the memory e: a route through a
\* neighbour is above what that neighbour advertised, and so is the source entry.
Chosen(s, e, r, b) ==
  /\ Reachable(s) => s.metric # Infinity /\ Rank(s.seq) <= b
  /\ s.kind = "local" => e.local # Infinity /\ s.seq = e.seq
  /\ s.kind # "via" => s.link = NoRouter
  /\ s.kind = "via" =>
       /\ s.link \in Nbr(r) /\ e.cand[s.link].adv # Infinity
       /\ Height(Adv(e.cand[s.link])) < Height(e.src)
       /\ Height(Adv(e.cand[s.link])) < Height(s)

\* What selection looks at, besides the source entry.
Keeps(f, e) == f.seq = e.seq /\ f.local = e.local /\ f.cand = e.cand /\ f.sel = e.sel

LEMMA NoValues == /\ NoCand \in Cands /\ NoCand.adv = Infinity
                  /\ NoSrc \in Distances /\ NoSrc.metric = Infinity
                  /\ NoReq.seq = NoSeq
                  /\ \A r : NoReq \in Reqs(r) /\ NoRoute \in Routes(r) /\ UnreachableRoute \in Routes(r)
<1>1. 0 \in Seqnos /\ Infinity \in Metrics /\ 0 \in 0 .. FirstHops
  BY SeqRange, MetricRange, Space DEF FirstHops
<1> QED BY <1>1 DEF NoCand, Cands, NoSrc, Distances, NoReq, Reqs, NoRoute, UnreachableRoute, Routes

LEMMA Hops == FirstHops \in Int /\ FirstHops >= 1
BY DEF FirstHops

LEMMA SourceNear ==
  ASSUME NEW e, NEW r, NEW b, NEW h, NEW d, Good(e, r, b, h, d)
  PROVE  NearDistance(e.src) /\ Height(e.src) \in Nat /\ Height(e.src) <= Top
<1>1. e.src \in Distances /\ MaxBumps \in Nat
  BY EngineFields, MeshAssumption DEF Good
<1>2. e.src.metric \in Metrics /\ e.src.seq \in Seqnos
  BY <1>1 DEF Distances
<1>3. e.src.metric # Infinity => Near(e.src.seq)
  BY <1>1, <1>2, RankType DEF Good, Near
<1> QED BY <1>1, <1>2, <1>3, HeightType DEF NearDistance

LEMMA CandNear ==
  ASSUME NEW e, NEW r, NEW b, NEW h, NEW d, Good(e, r, b, h, d),
         NEW n \in Nbr(r), e.cand[n].adv # Infinity
  PROVE  /\ Near(Adv(e.cand[n]).seq) /\ Adv(e.cand[n]).metric \in Metrics
         /\ Height(Adv(e.cand[n])) \in Nat
<1>1. e.cand[n] \in Cands /\ MaxBumps \in Nat
  BY EngineFields, MeshAssumption DEF Good
<1>2. e.cand[n].seq \in Seqnos /\ e.cand[n].adv \in Metrics
  BY <1>1 DEF Cands
<1>3. Near(e.cand[n].seq)
  BY <1>1, <1>2, RankType DEF Good, Near
<1>4. Adv(e.cand[n]).seq = e.cand[n].seq /\ Adv(e.cand[n]).metric = e.cand[n].adv
  BY DEF Adv
<1> QED BY <1>2, <1>3, <1>4, HeightType

-----------------------------------------------------------------------------
(* Changing one field. *)

LEMMA GoodQueue ==
  ASSUME NEW e, NEW r, NEW b, NEW h, NEW d, Good(e, r, b, h, d),
         NEW msgs \in SUBSET Messages(r), \A m \in msgs : Founded(m, b, Height(e.src))
  PROVE  /\ Good(queue(e, msgs), r, b, h, d) /\ Keeps(queue(e, msgs), e)
         /\ queue(e, msgs).src = e.src /\ queue(e, msgs).cost = e.cost
         /\ queue(e, msgs).req = e.req
<1> DEFINE O == e.out \cup {m \in msgs : e.cost[m.to] # NoLink}
<1>1. O \in SUBSET Messages(r) /\ \A m \in O : Founded(m, b, Height(e.src))
  BY EngineFields DEF Good
<1>2. queue(e, msgs) = [e EXCEPT !.out = O]
  BY DEF queue, Good, Engines
<1> HIDE DEF O
<1> QED BY <1>1, <1>2, WithOut DEF Good, Keeps

LEMMA GoodSrc ==
  ASSUME NEW e, NEW r, NEW b, NEW h, NEW d, Good(e, r, b, h, d),
         NEW msgs \in SUBSET Messages(r), NEW v \in Distances,
         v.metric # Infinity => Rank(v.seq) <= b, Height(v) <= Height(e.src),
         \A m \in msgs : Founded(m, b, Height(v))
  PROVE  /\ Good([queue(e, msgs) EXCEPT !.src = v], r, b, h, d)
         /\ Keeps([queue(e, msgs) EXCEPT !.src = v], e)
         /\ [queue(e, msgs) EXCEPT !.src = v].src = v
<1> DEFINE O == e.out \cup {m \in msgs : e.cost[m.to] # NoLink}
           f == [e EXCEPT !.out = O]
           g == [f EXCEPT !.src = v]
<1>1. v.metric \in Metrics /\ v.seq \in Seqnos /\ MaxBumps \in Nat /\ b \in Nat /\ b <= MaxBumps
  BY MeshAssumption DEF Distances, Good
<1>2. v.metric # Infinity => Near(v.seq)
  BY <1>1, RankType DEF Near
<1>3. Height(v) \in Nat /\ Height(e.src) \in Nat /\ h \in Nat /\ Height(e.src) <= h
  BY <1>1, <1>2, HeightType, SourceNear DEF Good
<1>4. O \in SUBSET Messages(r)
  BY EngineFields DEF Good
<1>5. \A m \in O : Founded(m, b, Height(v))
  <2> SUFFICES ASSUME NEW m \in e.out, m.type = "update" /\ m.metric # Infinity
               PROVE  Rank(m.seq) <= b /\ Height(v) <= Height(m)
    BY DEF Founded
  <2>1. m \in Messages(r) /\ Rank(m.seq) <= b /\ Height(e.src) <= Height(m)
    BY EngineFields DEF Good, Founded
  <2>2. m.seq \in Seqnos /\ m.metric \in Metrics
    BY <2>1 DEF Messages
  <2>3. Height(m) \in Nat
    BY <1>1, <2>1, <2>2, RankType, HeightType DEF Near
  <2> QED BY <1>3, <2>1, <2>3
<1>6. queue(e, msgs) = f
  BY DEF queue, Good, Engines
<1>7. f \in Engines(r) /\ f.out = O /\ f.seq = e.seq /\ f.local = e.local /\ f.cost = e.cost
      /\ f.cand = e.cand /\ f.sel = e.sel /\ f.drop = e.drop /\ f.req = e.req
  <2> HIDE DEF O
  <2> QED BY <1>4, WithOut DEF Good
<1> HIDE DEF O, f
<1>8. g \in Engines(r) /\ g.src = v /\ g.out = O /\ g.seq = e.seq /\ g.local = e.local
      /\ g.cand = e.cand /\ g.sel = e.sel /\ g.req = e.req
  BY <1>7, WithSrc
<1>9. Height(v) <= h
  BY <1>3
<1> HIDE DEF g
<1>10. Good(g, r, b, h, d) /\ Keeps(g, e) /\ g.src = v
  BY <1>5, <1>8, <1>9 DEF Good, Keeps
<1> QED BY <1>6, <1>10 DEF g

LEMMA GoodReq ==
  ASSUME NEW e, NEW r, NEW b, NEW h, NEW d, Good(e, r, b, h, d), NEW q \in Reqs(r),
         q # NoReq => q.seq \in Seqnos /\ q.hops \in 1 .. FirstHops
  PROVE  /\ Good([e EXCEPT !.req = q], r, b, h, d) /\ Keeps([e EXCEPT !.req = q], e)
         /\ [e EXCEPT !.req = q].src = e.src
BY WithReq DEF Good, Keeps

LEMMA GoodDrop ==
  ASSUME NEW e, NEW r, NEW b, NEW h, NEW d, Good(e, r, b, h, d), NEW v \in BOOLEAN
  PROVE  /\ Good([e EXCEPT !.drop = v], r, b, h, d) /\ Keeps([e EXCEPT !.drop = v], e)
         /\ [e EXCEPT !.drop = v].src = e.src /\ [e EXCEPT !.drop = v].drop = v
         /\ [e EXCEPT !.drop = v].req = e.req
BY WithDrop DEF Good, Keeps

LEMMA GoodSel ==
  ASSUME NEW e, NEW r, NEW b, NEW h, NEW d, Good(e, r, b, h, d), NEW v \in Routes(r)
  PROVE  /\ Good([e EXCEPT !.sel = v], r, b, h, d) /\ [e EXCEPT !.sel = v].sel = v
         /\ [e EXCEPT !.sel = v].src = e.src /\ [e EXCEPT !.sel = v].cand = e.cand
         /\ [e EXCEPT !.sel = v].local = e.local /\ [e EXCEPT !.sel = v].seq = e.seq
BY WithSel DEF Good

LEMMA GoodCost ==
  ASSUME NEW e, NEW r, NEW b, NEW h, NEW d, Good(e, r, b, h, d), NEW v \in [Nbr(r) -> Metrics]
  PROVE  Good([e EXCEPT !.cost = v], r, b, h, d)
BY WithCost DEF Good

LEMMA GoodCostAt ==
  ASSUME NEW e, NEW r, NEW b, NEW h, NEW d, Good(e, r, b, h, d), NEW n \in Nbr(r), NEW v \in Metrics
  PROVE  Good([e EXCEPT !.cost[n] = v], r, b, h, d)
<1> DEFINE w == [e.cost EXCEPT ![n] = v]
<1>1. w \in [Nbr(r) -> Metrics]
  BY EngineFields DEF Good
<1>2. [e EXCEPT !.cost[n] = v] = [e EXCEPT !.cost = w]
  BY DEF Good, Engines
<1> HIDE DEF w
<1> QED BY <1>1, <1>2, GoodCost

LEMMA GoodAuth ==
  ASSUME NEW e, NEW r, NEW b, NEW h, NEW d, Good(e, r, b, h, d), NEW v \in Seqnos
  PROVE  Good([e EXCEPT !.auth = v], r, b, h, d)
BY WithAuth DEF Good

LEMMA GoodProof ==
  ASSUME NEW e, NEW r, NEW b, NEW h, NEW d, Good(e, r, b, h, d), NEW v \in Seqnos
  PROVE  /\ Good([e EXCEPT !.proof = v], r, b, h, d) /\ Keeps([e EXCEPT !.proof = v], e)
         /\ [e EXCEPT !.proof = v].src = e.src /\ [e EXCEPT !.proof = v].out = e.out
BY WithProof DEF Good, Keeps

LEMMA GoodLocal ==
  ASSUME NEW e, NEW r, NEW b, NEW h, NEW d, Good(e, r, b, h, d), NEW v \in Metrics,
         r = Origin \/ v = Infinity
  PROVE  Good([e EXCEPT !.local = v], r, b, h, d)
BY WithLocal DEF Good

\* One candidate becomes c, which is infinite or was advertised by n.
LEMMA GoodCand ==
  ASSUME NEW e, NEW r, NEW b, NEW h, NEW d, Good(e, r, b, h, d), NEW n \in Nbr(r), NEW c \in Cands,
         c.adv # Infinity => Rank(c.seq) <= b /\ Height(d[n].src) <= Height(Adv(c))
  PROVE  /\ Good([e EXCEPT !.cand[n] = c], r, b, h, d)
         /\ [e EXCEPT !.cand[n] = c].src = e.src /\ [e EXCEPT !.cand[n] = c].cand[n] = c
         /\ [e EXCEPT !.cand[n] = c].seq = e.seq /\ [e EXCEPT !.cand[n] = c].local = e.local
         /\ [e EXCEPT !.cand[n] = c].sel = e.sel
<1> DEFINE v == [e.cand EXCEPT ![n] = c]
<1>1. v \in [Nbr(r) -> Cands] /\ v[n] = c /\ \A k \in Nbr(r) \ {n} : v[k] = e.cand[k]
  BY EngineFields DEF Good
<1>2. [e EXCEPT !.cand[n] = c] = [e EXCEPT !.cand = v]
  BY DEF Good, Engines
<1> HIDE DEF v
<1>3. \A k \in Nbr(r) : v[k].adv # Infinity =>
        Rank(v[k].seq) <= b /\ Height(d[k].src) <= Height(Adv(v[k]))
  BY <1>1 DEF Good
<1> DEFINE g == [e EXCEPT !.cand = v]
<1>4. g \in Engines(r) /\ g.cand = v /\ g.seq = e.seq /\ g.local = e.local /\ g.src = e.src
      /\ g.sel = e.sel /\ g.req = e.req /\ g.out = e.out
  BY <1>1, WithCand DEF Good
<1> HIDE DEF g
<1>5. Good(g, r, b, h, d)
  BY <1>3, <1>4 DEF Good
<1> QED BY <1>1, <1>2, <1>4, <1>5 DEF g

-----------------------------------------------------------------------------
(* What the functions of the engine do to such a memory. *)

LEMMA UpdateMessages ==
  ASSUME NEW r, NEW S \in SUBSET Nbr(r), NEW s \in Seqnos, NEW m \in Metrics
  PROVE  /\ {Update(r, n, s, m) : n \in S} \in SUBSET Messages(r)
         /\ \A u \in {Update(r, n, s, m) : n \in S} :
               u.type = "update" /\ u.seq = s /\ u.metric = m
BY DEF Update, Messages

LEMMA SeqRequestMessages ==
  ASSUME NEW r, NEW S \in SUBSET Nbr(r), NEW s \in Seqnos, NEW hops \in 1 .. FirstHops
  PROVE  /\ {SeqRequest(r, n, s, hops) : n \in S} \in SUBSET Messages(r)
         /\ \A u \in {SeqRequest(r, n, s, hops) : n \in S} : u.type = "seqreq"
BY DEF SeqRequest, Messages

LEMMA RouteRequestMessage ==
  ASSUME NEW r, NEW n \in Nbr(r), NEW w \in BOOLEAN
  PROVE  /\ {RouteRequest(r, n, w)} \in SUBSET Messages(r)
         /\ \A u \in {RouteRequest(r, n, w)} : u.type = "request"
BY DEF RouteRequest, Messages

\* Advertising never raises the source entry and never sends below it.
LEMMA GoodAdvertise ==
  ASSUME NEW e, NEW r, NEW b, NEW h, NEW d, Good(e, r, b, h, d), Chosen(e.sel, e, r, b),
         NEW ns \in SUBSET Nbr(r), NEW explicit \in BOOLEAN
  PROVE  LET f == advertise(e, r, ns, explicit)
         IN  Good(f, r, b, h, d) /\ Chosen(f.sel, f, r, b) /\ Keeps(f, e)
<1> DEFINE f == advertise(e, r, ns, explicit)
           served == {n \in ns : e.cost[n] # NoLink /\ (explicit \/ e.sel.link # n)}
<1>1. e.sel \in Routes(r) /\ e.sel.seq \in Seqnos /\ e.sel.metric \in Metrics
  BY EngineFields DEF Good, Routes
<1>2. CASE ~Reachable(e.sel)
  <2> DEFINE M == {Update(r, n, 0, Infinity) : n \in ns}
  <2>1. 0 \in Seqnos /\ Infinity \in Metrics
    BY SeqRange, MetricRange, Space
  <2>2. M \in SUBSET Messages(r) /\ \A m \in M : Founded(m, b, Height(e.src))
    BY <2>1, UpdateMessages DEF Founded
  <2>3. f = queue(e, M)
    BY <1>2 DEF advertise
  <2> HIDE DEF M, f
  <2>4. Good(f, r, b, h, d) /\ Keeps(f, e) /\ f.src = e.src
    BY <2>2, <2>3, GoodQueue
  <2> QED BY <2>4 DEF f, Chosen, Keeps
<1>3. CASE Reachable(e.sel) /\ (served = {} \/ (e.sel.kind = "local" /\ e.proof # e.sel.seq))
  <2>1. f = e
    BY <1>3 DEF advertise
  <2> HIDE DEF f
  <2> QED BY <2>1 DEF Keeps, f
<1>4. CASE Reachable(e.sel) /\ ~(served = {} \/ (e.sel.kind = "local" /\ e.proof # e.sel.seq))
  <2> DEFINE M == {Update(r, n, e.sel.seq, e.sel.metric) : n \in served}
             v == LowerDistance(e.src, e.sel.seq, e.sel.metric)
             s == [seq |-> e.sel.seq, metric |-> e.sel.metric]
  <2>1. f = [queue(e, M) EXCEPT !.src = LowerDistance(@, e.sel.seq, e.sel.metric)]
    BY <1>4 DEF advertise
  <2>2. M \in SUBSET Messages(r) /\ \A m \in M : m.seq = e.sel.seq /\ m.metric = e.sel.metric
    BY <1>1, UpdateMessages
  <2>3. queue(e, M) \in Engines(r) /\ queue(e, M).src = e.src
    <3>1. e.out \cup {m \in M : e.cost[m.to] # NoLink} \in SUBSET Messages(r)
      BY <2>2, EngineFields DEF Good
    <3> HIDE DEF M
    <3> QED BY <3>1, WithOut DEF queue, Good
  <2>4. f = [queue(e, M) EXCEPT !.src = v]
    <3> HIDE DEF M
    <3> QED BY <2>1, <2>3 DEF Engines
  <2>5. e.sel.metric # Infinity /\ Rank(e.sel.seq) <= b /\ Near(e.sel.seq)
    <3>1. e.sel.metric # Infinity /\ Rank(e.sel.seq) <= b
      BY <1>4 DEF Chosen
    <3> QED BY <1>1, <3>1, RankType, MeshAssumption DEF Near, Good
  <2>6. Height(s) = Height(e.sel) /\ s.metric = e.sel.metric /\ s.seq = e.sel.seq /\ s \in Distances
    BY <1>1 DEF Height, Distances
  <2>7. v \in Distances /\ (v.metric # Infinity => Rank(v.seq) <= b)
    BY <1>1, <2>5, <2>6, EngineFields DEF LowerDistance, Good
  <2>8. Height(v) <= Height(e.src) /\ Height(v) <= Height(e.sel) /\ v \in {s, e.src}
    <3>1. Height(e.src) \in Nat /\ Height(e.sel) \in Nat /\ NearDistance(e.src)
      BY <1>1, <2>5, SourceNear, HeightType
    <3>2. CASE Better(e.sel.seq, e.sel.metric, e.src)
      <4>1. v = s
        BY <3>2 DEF LowerDistance
      <4>2. Height(e.sel) < Height(e.src)
        BY <1>1, <2>5, <3>1, <3>2, BetterIsLower
      <4> QED BY <2>6, <3>1, <4>1, <4>2
    <3>3. CASE ~Better(e.sel.seq, e.sel.metric, e.src)
      <4>1. v = e.src
        BY <3>3 DEF LowerDistance
      <4>2. Height(e.src) <= Height(e.sel)
        BY <1>1, <2>5, <3>1, <3>3, OtherwiseNotLower
      <4> QED BY <2>6, <3>1, <4>1, <4>2
    <3> QED BY <3>2, <3>3
  <2>9. \A m \in M : Founded(m, b, Height(v))
    <3> SUFFICES ASSUME NEW m \in M PROVE Rank(m.seq) <= b /\ Height(v) <= Height(m)
      BY DEF Founded
    <3>1. m.seq = e.sel.seq /\ m.metric = e.sel.metric
      BY <2>2
    <3>2. Height(m) = Height(e.sel)
      BY <3>1 DEF Height
    <3> QED BY <2>5, <2>8, <3>1, <3>2
  <2> HIDE DEF f, M, v, s
  <2>10. Good(f, r, b, h, d) /\ Keeps(f, e) /\ f.src = v
    BY <2>2, <2>4, <2>7, <2>8, <2>9, GoodSrc
  <2>11. Chosen(f.sel, f, r, b)
    BY <2>6, <2>8, <2>10 DEF Chosen, Keeps
  <2> QED BY <2>10, <2>11 DEF f
<1> QED BY <1>2, <1>3, <1>4

LEMMA GoodDump ==
  ASSUME NEW e, NEW r, NEW b, NEW h, NEW d, Good(e, r, b, h, d), Chosen(e.sel, e, r, b),
         NEW ns \in SUBSET Nbr(r), NEW explicit \in BOOLEAN
  PROVE  LET f == dump(e, r, ns, explicit)
         IN  Good(f, r, b, h, d) /\ Chosen(f.sel, f, r, b) /\ Keeps(f, e)
BY GoodAdvertise DEF dump, Keeps

LEMMA GoodRequest ==
  ASSUME NEW e, NEW r, NEW b, NEW h, NEW d, Good(e, r, b, h, d), NEW seq \in Seqnos,
         NEW targets \in SUBSET Nbr(r), NEW from \in Nbr(r) \cup {NoRouter}, NEW hops \in 1 .. FirstHops
  PROVE  LET f == request(e, r, seq, targets, from, hops)
         IN  Good(f, r, b, h, d) /\ Keeps(f, e) /\ f.src = e.src
<1> DEFINE f == request(e, r, seq, targets, from, hops)
           M == {SeqRequest(r, n, seq, hops) : n \in targets}
           q == [seq |-> seq, targets |-> targets, from |-> from, hops |-> hops]
<1>1. CASE e.req # NoReq /\ atLeast(e.req.seq, seq)
  BY <1>1 DEF request, Keeps
<1>2. CASE ~(e.req # NoReq /\ atLeast(e.req.seq, seq))
  <2>1. f = [queue(e, M) EXCEPT !.req = q]
    BY <1>2 DEF request
  <2>2. M \in SUBSET Messages(r) /\ \A m \in M : Founded(m, b, Height(e.src))
    BY SeqRequestMessages DEF Founded
  <2>3. Good(queue(e, M), r, b, h, d) /\ Keeps(queue(e, M), e) /\ queue(e, M).src = e.src
    <3> HIDE DEF M
    <3> QED BY <2>2, GoodQueue
  <2>4. q \in Reqs(r) /\ q.seq \in Seqnos /\ q.hops \in 1 .. FirstHops
    BY Hops DEF Reqs
  <2> HIDE DEF f, q, M
  <2>5. Good(f, r, b, h, d) /\ Keeps(f, queue(e, M)) /\ f.src = queue(e, M).src
    BY <2>1, <2>3, <2>4, GoodReq
  <2> QED BY <2>3, <2>5 DEF f, Keeps
<1> QED BY <1>1, <1>2

-----------------------------------------------------------------------------
(* Selection. *)

\* A finite metric is that of an authorized candidate, and above what it advertises.
LEMMA MetricOf ==
  ASSUME NEW r, NEW e \in Engines(r), NEW n \in Nbr(r)
  PROVE  /\ metric(e, n) \in Metrics
         /\ metric(e, n) # Infinity =>
              e.cand[n].adv # Infinity /\ e.cand[n].adv < metric(e, n)
<1>1. e.cand[n] \in Cands /\ e.cost[n] \in Metrics
  BY EngineFields
<1>2. e.cand[n].adv \in Metrics
  BY <1>1 DEF Cands
<1>3. linkCost(e, n) \in Metrics /\ linkCost(e, n) > 0
  BY <1>1, MetricRange, Space DEF linkCost, NoLink
<1>4. ASSUME NEW a \in Metrics, NEW c \in Metrics, c > 0
      PROVE  sum(a, c) \in Metrics /\ (sum(a, c) # Infinity => a # Infinity /\ a < sum(a, c))
  BY <1>4, MetricRange, Space DEF sum
<1>5. sum(e.cand[n].adv, linkCost(e, n)) \in Metrics
      /\ (sum(e.cand[n].adv, linkCost(e, n)) # Infinity =>
            e.cand[n].adv # Infinity /\ e.cand[n].adv < sum(e.cand[n].adv, linkCost(e, n)))
  BY <1>2, <1>3, <1>4
<1>6. Infinity \in Metrics
  BY MetricRange, Space
<1> QED BY <1>5, <1>6 DEF metric

\* Some candidate is the cheapest.
LEMMA CheapestExists ==
  ASSUME NEW r, NEW e \in Engines(r), NEW S \in SUBSET Nbr(r), S # {}
  PROVE  Cheapest(e, S) # {}
<1> DEFINE H == {metric(e, n) : n \in S}
<1>1. \A n \in S : metric(e, n) \in Nat
  BY MetricOf, MetricRange
<1>2. PICK x \in H : \A y \in H : ~(<<y, x>> \in OpToRel(<, Nat))
  <2>1. H \subseteq Nat /\ H # {}
    BY <1>1
  <2> HIDE DEF H
  <2> QED BY <2>1, NatLessThanWellFounded, WFMin
<1>3. PICK n \in S : x = metric(e, n)
  OBVIOUS
<1>4. ASSUME NEW k \in S PROVE metric(e, n) <= metric(e, k)
  <2>1. metric(e, k) \in H /\ metric(e, k) \in Nat /\ metric(e, n) \in Nat
    BY <1>1
  <2>2. ~(<<metric(e, k), metric(e, n)>> \in OpToRel(<, Nat))
    BY <1>2, <1>3, <2>1
  <2> QED BY <2>1, <2>2 DEF OpToRel
<1> QED BY <1>4 DEF Cheapest

LEMMA FirstLinkOf ==
  ASSUME NEW S, NEW low, S # {}
  PROVE  FirstLink(S, low) \in S
BY DEF FirstLink

\* A usable candidate is below the source entry (feasible), hence below the route.
LEMMA UsableDescends ==
  ASSUME NEW e, NEW r, NEW b, NEW h, NEW d, Good(e, r, b, h, d), NEW n \in Usable(e, r)
  PROVE  /\ n \in Nbr(r) /\ e.cand[n].adv # Infinity /\ metric(e, n) # Infinity
         /\ Height(Adv(e.cand[n])) < Height(e.src)
         /\ \A s : s.seq = e.cand[n].seq /\ s.metric = metric(e, n)
                     => Height(Adv(e.cand[n])) < Height(s)
<1>1. n \in Nbr(r) /\ metric(e, n) # Infinity /\ feasible(e, e.cand[n])
  BY DEF Usable
<1>2. e.cand[n].adv # Infinity /\ e.cand[n].adv < metric(e, n) /\ metric(e, n) \in Metrics
  BY <1>1, MetricOf DEF Good
<1>3. Adv(e.cand[n]).seq = e.cand[n].seq /\ Adv(e.cand[n]).metric = e.cand[n].adv
  BY DEF Adv
<1>4. Near(Adv(e.cand[n]).seq) /\ Adv(e.cand[n]).metric \in Metrics
  BY <1>1, <1>2, CandNear
<1>5. Better(Adv(e.cand[n]).seq, Adv(e.cand[n]).metric, e.src)
  BY <1>1, <1>2, <1>3 DEF feasible
<1>6. Height(Adv(e.cand[n])) < Height(e.src)
  BY <1>2, <1>3, <1>4, <1>5, SourceNear, BetterIsLower
<1>7. ASSUME NEW s, s.seq = e.cand[n].seq, s.metric = metric(e, n)
      PROVE  Height(Adv(e.cand[n])) < Height(s)
  BY <1>1, <1>2, <1>3, <1>4, <1>7, FartherIsHigher
<1> QED BY <1>1, <1>2, <1>6, <1>7

LEMMA ChoiceChosen ==
  ASSUME NEW e, NEW r, NEW b, NEW h, NEW d, Good(e, r, b, h, d), NEW low
  PROVE  /\ Choice(e, r, low) \in Routes(r)
         /\ Chosen(Choice(e, r, low), e, r, b)
<1> DEFINE s == Choice(e, r, low)
<1>1. CASE e.local # Infinity
  <2>1. s = [kind |-> "local", seq |-> e.seq, metric |-> e.local, link |-> NoRouter]
    BY <1>1 DEF Choice
  <2>2. r = Origin /\ Rank(e.seq) = b /\ b \in Nat /\ e.seq \in Seqnos /\ e.local \in Metrics
    BY <1>1, EngineFields DEF Good
  <2>3. s \in Routes(r)
    BY <2>1, <2>2 DEF Routes
  <2>4. s.kind = "local" /\ s.seq = e.seq /\ s.metric = e.local /\ s.link = NoRouter
    BY <2>1
  <2> HIDE DEF s
  <2>5. Chosen(s, e, r, b)
    BY <1>1, <2>2, <2>4 DEF Chosen
  <2> QED BY <2>3, <2>5 DEF s
<1>2. CASE e.local = Infinity /\ Usable(e, r) = {}
  <2>1. s = NoRoute
    BY <1>2 DEF Choice
  <2>2. Chosen(NoRoute, e, r, b)
    BY DEF Chosen, NoRoute, Reachable
  <2> QED BY <2>1, <2>2, NoValues
<1>3. CASE e.local = Infinity /\ Usable(e, r) # {}
  <2> DEFINE best == Cheapest(e, Usable(e, r))
             n == IF e.sel.link \in best THEN e.sel.link ELSE FirstLink(best, low)
  <2>1. best # {} /\ best \subseteq Usable(e, r)
    <3>1. Usable(e, r) \in SUBSET Nbr(r)
      BY DEF Usable
    <3> QED BY <1>3, <3>1, CheapestExists DEF Good, Cheapest
  <2>2. n \in Usable(e, r)
    <3> HIDE DEF best
    <3> QED BY <2>1, FirstLinkOf
  <2>3. s = [kind |-> "via", seq |-> e.cand[n].seq, metric |-> metric(e, n), link |-> n]
    BY <1>3 DEF Choice
  <2> HIDE DEF n
  <2>4. n \in Nbr(r) /\ e.cand[n].adv # Infinity /\ metric(e, n) \in Metrics /\ e.cand[n].seq \in Seqnos
    <3>1. n \in Nbr(r) /\ e.cand[n].adv # Infinity
      BY <2>2, UsableDescends
    <3> QED BY <3>1, MetricOf, EngineFields DEF Good, Cands
  <2>5. s \in Routes(r)
    BY <2>3, <2>4 DEF Routes
  <2>6. s.kind = "via" /\ s.seq = e.cand[n].seq /\ s.metric = metric(e, n) /\ s.link = n
    BY <2>3
  <2>7. Rank(e.cand[n].seq) <= b
    BY <2>4 DEF Good
  <2> HIDE DEF s
  <2>8. Chosen(s, e, r, b)
    BY <2>2, <2>4, <2>6, <2>7, UsableDescends DEF Chosen
  <2> QED BY <2>5, <2>8 DEF s
<1> QED BY <1>1, <1>2, <1>3

LEMMA GoodLoseRoute ==
  ASSUME NEW e, NEW r, NEW b, NEW h, NEW d, Good(e, r, b, h, d)
  PROVE  LET f == LoseRoute(e, r)
         IN  Good(f, r, b, h, d) /\ Keeps(f, e) /\ f.src = e.src
<1> DEFINE f == LoseRoute(e, r)
           held == [e EXCEPT !.drop = TRUE]
           targets == {n \in Nbr(r) : e.cand[n].adv # Infinity /\ linkCost(e, n) # Infinity}
<1>1. Good(held, r, b, h, d) /\ Keeps(held, e) /\ held.src = e.src
  BY GoodDrop
<1>2. f \in {held, request(held, r, NextSeq(e.src.seq), targets, NoRouter, FirstHops)}
  BY DEF LoseRoute
<1>3. NextSeq(e.src.seq) \in Seqnos /\ FirstHops \in 1 .. FirstHops
  BY EngineFields, NextSeqType, Hops DEF Good, Distances
<1> DEFINE g == request(held, r, NextSeq(e.src.seq), targets, NoRouter, FirstHops)
<1>4. Good(g, r, b, h, d) /\ Keeps(g, held) /\ g.src = held.src
  <2>1. targets \in SUBSET Nbr(r) /\ NoRouter \in Nbr(r) \cup {NoRouter}
    OBVIOUS
  <2> HIDE DEF held, targets
  <2> QED BY <1>1, <1>3, <2>1, GoodRequest
<1> HIDE DEF f, held, g
<1> QED BY <1>1, <1>2, <1>4 DEF Keeps, f, g

LEMMA GoodAnswer ==
  ASSUME NEW e, NEW r, NEW b, NEW h, NEW d, Good(e, r, b, h, d), Chosen(e.sel, e, r, b)
  PROVE  LET f == AnswerRequest(e, r)
         IN  Good(f, r, b, h, d) /\ Chosen(f.sel, f, r, b) /\ Keeps(f, e)
<1> DEFINE f == AnswerRequest(e, r)
           told == IF e.req.from = NoRouter THEN e ELSE advertise(e, r, {e.req.from}, TRUE)
<1>1. e.req \in Reqs(r) /\ e.req.from \in Nbr(r) \cup {NoRouter}
  BY EngineFields DEF Good, Reqs
<1>2. Good(told, r, b, h, d) /\ Chosen(told.sel, told, r, b) /\ Keeps(told, e)
  <2>1. CASE e.req.from = NoRouter
    BY <2>1 DEF Keeps
  <2>2. CASE e.req.from # NoRouter
    <3>1. {e.req.from} \in SUBSET Nbr(r)
      BY <1>1, <2>2
    <3> QED BY <2>2, <3>1, GoodAdvertise
  <2> QED BY <2>1, <2>2
<1> HIDE DEF told
<1>3. Good([told EXCEPT !.req = NoReq], r, b, h, d) /\ Keeps([told EXCEPT !.req = NoReq], told)
      /\ [told EXCEPT !.req = NoReq].src = told.src
  BY <1>2, NoValues, GoodReq
<1>4. f = e \/ f = [told EXCEPT !.req = NoReq]
  BY DEF AnswerRequest, told
<1> HIDE DEF f
<1>5. CASE f = e
  BY <1>5 DEF f, Keeps
<1>6. CASE f = [told EXCEPT !.req = NoReq]
  BY <1>2, <1>3, <1>6 DEF f, Keeps, Chosen
<1> QED BY <1>4, <1>5, <1>6

\* Whatever the memory, selection leaves a route that descends.
LEMMA GoodSelect ==
  ASSUME NEW e, NEW r, NEW b, NEW h, NEW d, Good(e, r, b, h, d), NEW low
  PROVE  LET f == selectRoutes(e, r, low)
         IN  /\ Good(f, r, b, h, d) /\ Chosen(f.sel, f, r, b)
             /\ f.seq = e.seq /\ f.local = e.local /\ f.cand = e.cand
<1> DEFINE next == Choice(e, r, low)
           lost == IF next = NoRoute /\ Reachable(e.sel) THEN LoseRoute(e, r) ELSE e
           held == [lost EXCEPT !.drop = @ /\ next = NoRoute]
           sel == IF held.drop THEN UnreachableRoute ELSE next
           g == [held EXCEPT !.sel = sel]
           f == AnswerRequest(g, r)
<1>1. next \in Routes(r) /\ Chosen(next, e, r, b)
  BY ChoiceChosen
<1>2. Good(lost, r, b, h, d) /\ Keeps(lost, e) /\ lost.src = e.src
  BY GoodLoseRoute DEF Keeps
<1>3. selectRoutes(e, r, low) = f
  BY DEF selectRoutes
<1> HIDE DEF next, lost
<1>4. held = [lost EXCEPT !.drop = lost.drop /\ next = NoRoute] /\ lost.drop \in BOOLEAN
  BY <1>2, EngineFields DEF Good, Engines
<1>5. Good(held, r, b, h, d) /\ Keeps(held, lost) /\ held.src = lost.src
  <2> HIDE DEF held
  <2> QED BY <1>2, <1>4, GoodDrop
<1> HIDE DEF held
<1>6. sel \in Routes(r) /\ Chosen(sel, e, r, b)
  <2>1. Chosen(UnreachableRoute, e, r, b)
    BY DEF Chosen, UnreachableRoute, Reachable
  <2> QED BY <1>1, <2>1, NoValues
<1> HIDE DEF sel
<1>7. Good(g, r, b, h, d) /\ g.sel = sel /\ g.src = e.src /\ g.cand = e.cand
      /\ g.local = e.local /\ g.seq = e.seq
  BY <1>2, <1>5, <1>6, GoodSel DEF Keeps
<1> HIDE DEF g
<1>8. Chosen(g.sel, g, r, b)
  BY <1>6, <1>7 DEF Chosen
<1>9. Good(f, r, b, h, d) /\ Chosen(f.sel, f, r, b) /\ Keeps(f, g)
  BY <1>7, <1>8, GoodAnswer
<1> HIDE DEF f
<1> QED BY <1>3, <1>7, <1>9 DEF Keeps

-----------------------------------------------------------------------------
(* Received messages. *)

\* A message from a neighbour, founded on the neighbour's checkpoint.
Incoming(m, r, b, d) ==
  /\ m.from \in Nbr(r) /\ m \in Messages(m.from)
  /\ Founded(m, b, Height(d[m.from].src))

LEMMA GoodUpdate ==
  ASSUME NEW e, NEW r, NEW b, NEW h, NEW d, Good(e, r, b, h, d),
         NEW m, Incoming(m, r, b, d), m.type = "update"
  PROVE  LET f == update(e, r, m)
         IN  Good(f, r, b, h, d) /\ f.seq = e.seq /\ f.local = e.local
<1> DEFINE f == update(e, r, m)
           n == m.from
           v == [seq |-> m.seq, adv |-> m.metric]
           c == [e EXCEPT !.cand[n] = v]
           g == request(c, r, NextSeq(c.src.seq), {n}, NoRouter, FirstHops)
<1>1. n \in Nbr(r) /\ m.seq \in Seqnos /\ m.metric \in Metrics
  BY DEF Incoming, Messages
<1>2. f = [e EXCEPT !.cand[n] = NoCand] \/ f = e \/ (m.metric # Infinity /\ (f = c \/ f = g))
  BY DEF update
<1>3. CASE f = [e EXCEPT !.cand[n] = NoCand]
  BY <1>1, <1>3, GoodCand, NoValues
<1>4. CASE f = e
  BY <1>4
<1>5. CASE m.metric # Infinity /\ (f = c \/ f = g)
  <2>1. v \in Cands /\ v.seq = m.seq /\ v.adv = m.metric
    BY <1>1 DEF Cands
  <2>2. Height(Adv(v)) = Height(m)
    BY DEF Height, Adv
  <2>3. Rank(v.seq) <= b /\ Height(d[n].src) <= Height(Adv(v))
    BY <1>5, <2>1, <2>2 DEF Incoming, Founded
  <2> HIDE DEF v, n
  <2>4. Good(c, r, b, h, d) /\ c.seq = e.seq /\ c.local = e.local
    BY <1>1, <2>1, <2>3, GoodCand
  <2> HIDE DEF c
  <2>5. NextSeq(c.src.seq) \in Seqnos /\ FirstHops \in 1 .. FirstHops
    BY <2>4, EngineFields, NextSeqType, Hops DEF Good, Distances
  <2>6. Good(g, r, b, h, d) /\ Keeps(g, c)
    BY <1>1, <2>4, <2>5, GoodRequest
  <2> HIDE DEF g, f
  <2> QED BY <1>5, <2>4, <2>6 DEF Keeps, f
<1> QED BY <1>2, <1>3, <1>4, <1>5

\* The bump of the origin's own sequence number raises the bound with it.
LEMMA GoodBump ==
  ASSUME NEW e, NEW b, NEW h, NEW d, Good(e, Origin, b, h, d), b < MaxBumps
  PROVE  b + 1 \in Nat /\ Good([e EXCEPT !.seq = NextSeq(@)], Origin, b + 1, h, d)
<1> DEFINE v == NextSeq(e.seq)
           f == [e EXCEPT !.seq = v]
<1>1. e.seq \in Seqnos /\ b \in Nat /\ MaxBumps \in Nat /\ Rank(e.seq) = b /\ Near(e.seq)
  BY EngineFields, MeshAssumption DEF Good, Near
<1>2. v \in Seqnos /\ Rank(v) = b + 1
  BY <1>1, NextSeqType, NextRank
<1>3. [e EXCEPT !.seq = NextSeq(@)] = f
  BY DEF Good, Engines
<1> HIDE DEF v
<1>4. f \in Engines(Origin) /\ f.seq = v /\ f.local = e.local /\ f.cand = e.cand /\ f.src = e.src
      /\ f.req = e.req /\ f.out = e.out
  BY <1>2, WithSeq DEF Good
<1> HIDE DEF f
<1>5. e.src.metric # Infinity => Rank(e.src.seq) <= b + 1
  <2>1. e.src.seq \in Seqnos
    BY EngineFields DEF Good, Distances
  <2> QED BY <1>1, <2>1, RankType DEF Good
<1>6. \A n \in Nbr(Origin) : e.cand[n].adv # Infinity => Rank(e.cand[n].seq) <= b + 1
  <2>1. \A n \in Nbr(Origin) : e.cand[n].seq \in Seqnos
    BY EngineFields DEF Good, Cands
  <2> QED BY <1>1, <2>1, RankType DEF Good
<1>7. \A m \in e.out : Founded(m, b + 1, Height(e.src))
  <2> SUFFICES ASSUME NEW m \in e.out, m.type = "update" /\ m.metric # Infinity
               PROVE  Rank(m.seq) <= b + 1 /\ Height(e.src) <= Height(m)
    BY DEF Founded
  <2>1. m.seq \in Seqnos
    BY EngineFields DEF Good, Messages
  <2>2. Rank(m.seq) <= b /\ Height(e.src) <= Height(m)
    BY DEF Good, Founded
  <2> QED BY <1>1, <2>1, <2>2, RankType
<1>8. b + 1 \in Nat /\ b + 1 <= MaxBumps
  BY <1>1
<1>9. Good(f, Origin, b + 1, h, d)
  BY <1>2, <1>4, <1>5, <1>6, <1>7, <1>8 DEF Good
<1> QED BY <1>3, <1>8, <1>9

LEMMA ForwardToType ==
  ASSUME NEW e, NEW r, NEW b, NEW h, NEW d, Good(e, r, b, h, d), NEW from, NEW low
  PROVE  ForwardTo(e, r, from, low) \in Nbr(r) \cup {NoRouter}
<1> DEFINE S == {n \in Nbr(r) \ {from} : metric(e, n) # Infinity}
           F == {n \in S : feasible(e, e.cand[n])}
           T == IF F # {} THEN F ELSE S
<1>1. CASE S = {}
  BY <1>1 DEF ForwardTo
<1>2. CASE S # {}
  <2>1. T \in SUBSET Nbr(r) /\ T # {}
    BY <1>2
  <2>2. ForwardTo(e, r, from, low) = FirstLink(Cheapest(e, T), low)
    BY <1>2 DEF ForwardTo
  <2> HIDE DEF T
  <2>3. Cheapest(e, T) # {} /\ Cheapest(e, T) \subseteq T
    BY <2>1, CheapestExists DEF Good, Cheapest
  <2> QED BY <2>1, <2>2, <2>3, FirstLinkOf
<1> QED BY <1>1, <1>2

\* The bound after a step is the same, or the origin's new number.
Raised(c, b, r) == c \in Nat /\ b <= c /\ (r # Origin => c = b)

LEMMA GoodSeqRequest ==
  ASSUME NEW e, NEW r, NEW b, NEW h, NEW d, Good(e, r, b, h, d), Chosen(e.sel, e, r, b),
         NEW m, Incoming(m, r, b, d), m.type = "seqreq", NEW low,
         e.local # Infinity /\ Rank(e.seq) >= MaxBumps => atLeast(e.seq, m.seq)
  PROVE  \E c : Raised(c, b, r) /\ Good(seqRequest(e, r, m, low), r, c, h, d)
<1> DEFINE f == seqRequest(e, r, m, low)
           n == ForwardTo(e, r, m.from, low)
<1>1. m.from \in Nbr(r) /\ {m.from} \in SUBSET Nbr(r) /\ m.seq \in Seqnos /\ m.hops \in 1 .. FirstHops
  BY DEF Incoming, Messages
<1>2. b \in Nat /\ b <= MaxBumps /\ MaxBumps \in Nat
  BY MeshAssumption DEF Good
<1>3. CASE Answers(e, m)
  <2>1. f = advertise(e, r, {m.from}, TRUE)
    BY <1>3 DEF seqRequest, Bumps
  <2>2. Good(f, r, b, h, d)
    BY <1>1, <2>1, GoodAdvertise
  <2> QED BY <1>2, <2>2 DEF Raised
<1>4. CASE Bumps(e, m)
  <2> DEFINE e1 == [e EXCEPT !.seq = NextSeq(@)]
             e2 == selectRoutes(e1, r, low)
  <2>1. f = advertise(e2, r, {m.from}, TRUE)
    BY <1>4 DEF seqRequest, Bumps
  <2>2. e.local # Infinity /\ ~atLeast(e.seq, m.seq) /\ r = Origin
    BY <1>4 DEF Bumps, Answers, Reachable, Chosen, Good
  <2>3. b < MaxBumps
    BY <1>2, <2>2 DEF Good
  <2>4. b + 1 \in Nat /\ Good(e1, r, b + 1, h, d)
    BY <2>2, <2>3, GoodBump
  <2> HIDE DEF e1
  <2>5. Good(e2, r, b + 1, h, d) /\ Chosen(e2.sel, e2, r, b + 1)
    BY <2>4, GoodSelect
  <2> HIDE DEF e2
  <2>6. Good(f, r, b + 1, h, d)
    BY <1>1, <2>1, <2>5, GoodAdvertise
  <2> QED BY <1>2, <2>2, <2>6 DEF Raised
<1>5. CASE ~Answers(e, m) /\ ~Bumps(e, m)
  <2>1. f = e \/ (~(m.hops < 2) /\ n # NoRouter /\ f = request(e, r, m.seq, {n}, m.from, m.hops - 1))
    BY <1>5 DEF seqRequest
  <2>2. n \in Nbr(r) \cup {NoRouter}
    BY ForwardToType
  <2>3. ~(m.hops < 2) => m.hops - 1 \in 1 .. FirstHops
    BY <1>1, Hops
  <2> HIDE DEF n
  <2>4. ~(m.hops < 2) /\ n # NoRouter => Good(request(e, r, m.seq, {n}, m.from, m.hops - 1), r, b, h, d)
    BY <1>1, <2>2, <2>3, GoodRequest
  <2>5. Good(f, r, b, h, d)
    BY <2>1, <2>4
  <2> QED BY <1>2, <2>5 DEF Raised
<1> QED BY <1>3, <1>4, <1>5

LEMMA GoodReceiveUpdates ==
  ASSUME NEW e, NEW r, NEW b, NEW h, NEW d, Good(e, r, b, h, d),
         NEW P, \A m \in P : Incoming(m, r, b, d)
  PROVE  LET f == ReceiveUpdates(e, r, P)
         IN  Good(f, r, b, h, d) /\ f.seq = e.seq /\ f.local = e.local
<1>1. CASE Of(P, "update") = {}
  BY <1>1 DEF ReceiveUpdates
<1>2. CASE Of(P, "update") # {}
  <2> DEFINE m == CHOOSE x \in Of(P, "update") : TRUE
  <2>1. m \in P /\ m.type = "update"
    BY <1>2 DEF Of
  <2>2. ReceiveUpdates(e, r, P) = update(e, r, m)
    BY <1>2 DEF ReceiveUpdates
  <2> HIDE DEF m
  <2> QED BY <2>1, <2>2, GoodUpdate
<1> QED BY <1>1, <1>2

LEMMA GoodReceiveRequests ==
  ASSUME NEW e, NEW r, NEW b, NEW h, NEW d, Good(e, r, b, h, d),
         NEW P, \A m \in P : Incoming(m, r, b, d), ~PastBound(e, P), NEW low
  PROVE  \E c : Raised(c, b, r) /\ Good(ReceiveRequests(e, r, P, low), r, c, h, d)
<1> DEFINE s == selectRoutes(e, r, low)
           from == {m.from : m \in P}
           a == CASE Of(P, "request") = {} -> s
                  [] \E m \in Of(P, "request") : ~m.wildcard -> advertise(s, r, from, TRUE)
                  [] OTHER -> dump(s, r, from, TRUE)
           m == CHOOSE x \in Of(P, "seqreq") : TRUE
           f == ReceiveRequests(e, r, P, low)
<1>1. f = IF Of(P, "seqreq") # {} THEN seqRequest(a, r, m, low)
          ELSE IF Of(P, "request") # {} THEN a ELSE e
  BY DEF ReceiveRequests
<1>2. b \in Nat /\ Raised(b, b, r)
  BY DEF Good, Raised
<1>3. /\ Good(s, r, b, h, d) /\ Chosen(s.sel, s, r, b)
      /\ s.seq = e.seq /\ s.local = e.local
  BY GoodSelect
<1>4. from \in SUBSET Nbr(r)
  BY DEF Incoming
<1>5. a \in {s, advertise(s, r, from, TRUE), dump(s, r, from, TRUE)}
  OBVIOUS
<1> HIDE DEF s, from, a, f
<1>6. /\ Good(a, r, b, h, d) /\ Chosen(a.sel, a, r, b)
      /\ a.seq = e.seq /\ a.local = e.local
  <2>1. CASE a = s
    BY <1>3, <2>1
  <2>2. CASE a = advertise(s, r, from, TRUE)
    <3>1. Good(a, r, b, h, d) /\ Chosen(a.sel, a, r, b) /\ Keeps(a, s)
      BY <1>3, <1>4, <2>2, GoodAdvertise
    <3> QED BY <1>3, <3>1 DEF Keeps
  <2>3. CASE a = dump(s, r, from, TRUE)
    <3>1. Good(a, r, b, h, d) /\ Chosen(a.sel, a, r, b) /\ Keeps(a, s)
      BY <1>3, <1>4, <2>3, GoodDump
    <3> QED BY <1>3, <3>1 DEF Keeps
  <2> QED BY <1>5, <2>1, <2>2, <2>3
<1>7. CASE Of(P, "seqreq") # {}
  <2>1. m \in Of(P, "seqreq") /\ m \in P /\ m.type = "seqreq"
    BY <1>7 DEF Of
  <2> HIDE DEF m
  <2>2. a.local # Infinity /\ Rank(a.seq) >= MaxBumps => atLeast(a.seq, m.seq)
    BY <1>6, <2>1 DEF PastBound
  <2>3. f = seqRequest(a, r, m, low)
    BY <1>1, <1>7 DEF m
  <2>4. Incoming(m, r, b, d)
    BY <2>1
  <2>5. \E c : Raised(c, b, r) /\ Good(f, r, c, h, d)
    BY <1>6, <2>1, <2>2, <2>3, <2>4, GoodSeqRequest
  <2> QED BY <2>5 DEF f
<1>8. CASE Of(P, "seqreq") = {}
  <2>1. f = a \/ f = e
    BY <1>1, <1>8
  <2>2. Good(f, r, b, h, d)
    BY <1>6, <2>1
  <2> QED BY <1>2, <2>2 DEF f
<1> QED BY <1>7, <1>8

LEMMA IncomingRaised ==
  ASSUME NEW m, NEW r, NEW b \in Nat, NEW c, NEW d, Incoming(m, r, b, d), Raised(c, b, r)
  PROVE  Incoming(m, r, c, d)
<1> SUFFICES ASSUME m.type = "update" /\ m.metric # Infinity PROVE Rank(m.seq) <= c
  BY DEF Incoming, Founded
<1>1. m.seq \in Seqnos /\ Rank(m.seq) <= b
  BY DEF Incoming, Messages, Founded
<1> QED BY <1>1, RankType DEF Raised

LEMMA GoodReceive ==
  ASSUME NEW e, NEW r, NEW b, NEW h, NEW d, Good(e, r, b, h, d),
         NEW P, \A m \in P : Incoming(m, r, b, d), ~PastBound(e, P), NEW low, NEW late \in BOOLEAN
  PROVE  \E c : Raised(c, b, r) /\ Good(receive(e, r, P, low, late), r, c, h, d)
<1>1. CASE late
  <2> DEFINE e1 == ReceiveRequests(e, r, P, low)
  <2>1. PICK c : Raised(c, b, r) /\ Good(e1, r, c, h, d)
    BY GoodReceiveRequests
  <2>2. \A m \in P : Incoming(m, r, c, d)
    BY <2>1, IncomingRaised DEF Good
  <2> HIDE DEF e1
  <2>3. Good(ReceiveUpdates(e1, r, P), r, c, h, d)
    BY <2>1, <2>2, GoodReceiveUpdates
  <2> QED BY <1>1, <2>1, <2>3 DEF receive, e1
<1>2. CASE ~late
  <2> DEFINE e1 == ReceiveUpdates(e, r, P)
  <2>1. Good(e1, r, b, h, d) /\ e1.seq = e.seq /\ e1.local = e.local
    BY GoodReceiveUpdates
  <2>2. ~PastBound(e1, P)
    BY <2>1 DEF PastBound
  <2> HIDE DEF e1
  <2>3. \E c : Raised(c, b, r) /\ Good(ReceiveRequests(e1, r, P, low), r, c, h, d)
    BY <2>1, <2>2, GoodReceiveRequests
  <2> QED BY <1>2, <2>3 DEF receive, e1
<1> QED BY <1>1, <1>2

-----------------------------------------------------------------------------
(* The end of a step, and a restart. *)

LEMMA GoodOutcome ==
  ASSUME NEW e, NEW r, NEW b, NEW h, NEW d, Good(e, r, b, h, d), NEW due \in SUBSET Nbr(r),
         NEW new \in Outcomes(e, r, due)
  PROVE  Good(new, r, b, h, d) /\ Chosen(new.sel, new, r, b)
<1>1. PICK low : new = dump(selectRoutes(e, r, low), r, due, FALSE)
  BY DEF Outcomes
<1> DEFINE s == selectRoutes(e, r, low)
<1>2. Good(s, r, b, h, d) /\ Chosen(s.sel, s, r, b)
  BY GoodSelect
<1> HIDE DEF s
<1>3. new = dump(s, r, due, FALSE)
  BY <1>1 DEF s
<1> QED BY <1>2, <1>3, GoodDump

LEMMA CheckpointType ==
  ASSUME NEW r, NEW e \in Engines(r)
  PROVE  /\ Checkpoint(e) \in Checkpoints
         /\ Checkpoint(e).src = e.src /\ Checkpoint(e).seq = e.seq
BY EngineFields DEF Checkpoint, Checkpoints

LEMMA FreshType ==
  ASSUME NEW r, NEW seq \in Seqnos
  PROVE  /\ Fresh(r, seq) \in Engines(r) /\ Fresh(r, seq).seq = seq
         /\ Fresh(r, seq).local = Infinity /\ Fresh(r, seq).src = NoSrc
         /\ Fresh(r, seq).sel = NoRoute /\ Fresh(r, seq).req = NoReq /\ Fresh(r, seq).out = {}
         /\ \A n \in Nbr(r) : Fresh(r, seq).cand[n] = NoCand
<1>1. 0 \in Metrics /\ Infinity \in Metrics
  BY MetricRange, Space
<1> QED BY <1>1, NoValues DEF Fresh, Engines, NoLink

\* A memory without candidates, messages, requests and originations is sound.
LEMMA GoodEmpty ==
  ASSUME NEW r, NEW e \in Engines(r), NEW b \in Nat, b <= MaxBumps, NEW d,
         r # Origin => e.local = Infinity, r = Origin => Rank(e.seq) = b,
         e.src.metric # Infinity => Rank(e.src.seq) <= b,
         \A n \in Nbr(r) : e.cand[n] = NoCand, e.out = {}, e.req = NoReq
  PROVE  Good(e, r, b, Top, d)
<1>1. e.src.seq \in Seqnos /\ e.src.metric \in Metrics /\ MaxBumps \in Nat
  BY EngineFields, MeshAssumption DEF Distances
<1>2. e.src.metric # Infinity => Near(e.src.seq)
  BY <1>1, RankType DEF Near
<1>3. Height(e.src) <= Top /\ Top \in Nat
  BY <1>1, <1>2, HeightType, Space DEF Top
<1> QED BY <1>3, NoValues DEF Good

LEMMA GoodRestore ==
  ASSUME NEW r, NEW cp \in Checkpoints, NEW b \in Nat, b <= MaxBumps, NEW d,
         r = Origin => Rank(cp.seq) = b, cp.src.metric # Infinity => Rank(cp.src.seq) <= b
  PROVE  LET e == Restore(r, cp)
         IN  /\ Good(e, r, b, Top, d) /\ Chosen(e.sel, e, r, b) /\ e.sel.link = NoRouter
             /\ e.out = {} /\ e.src = cp.src /\ e.seq = cp.seq
<1> DEFINE f == Fresh(r, cp.seq)
           g == [f EXCEPT !.src = cp.src]
           e == [g EXCEPT !.drop = cp.drop]
<1>1. cp.seq \in Seqnos /\ cp.src \in Distances /\ cp.drop \in BOOLEAN
  BY DEF Checkpoints
<1>2. /\ f \in Engines(r) /\ f.seq = cp.seq /\ f.local = Infinity /\ f.src = NoSrc
      /\ f.sel = NoRoute /\ f.req = NoReq /\ f.out = {} /\ \A n \in Nbr(r) : f.cand[n] = NoCand
  BY <1>1, FreshType
<1>3. Restore(r, cp) = e
  BY <1>1, <1>2 DEF Restore
<1> HIDE DEF f
<1>4. /\ g \in Engines(r) /\ g.seq = cp.seq /\ g.local = Infinity /\ g.src = cp.src
      /\ g.sel = NoRoute /\ g.req = NoReq /\ g.out = {} /\ g.cand = f.cand
  BY <1>1, <1>2, WithSrc
<1> HIDE DEF g
<1>5. /\ e \in Engines(r) /\ e.seq = cp.seq /\ e.local = Infinity /\ e.src = cp.src
      /\ e.sel = NoRoute /\ e.req = NoReq /\ e.out = {} /\ e.cand = f.cand
  BY <1>1, <1>4, WithDrop
<1> HIDE DEF e
<1>6. Good(e, r, b, Top, d)
  BY <1>2, <1>5, GoodEmpty
<1>7. Chosen(e.sel, e, r, b) /\ e.sel.link = NoRouter
  BY <1>5 DEF Chosen, NoRoute, Reachable
<1> QED BY <1>3, <1>5, <1>6, <1>7

-----------------------------------------------------------------------------
(* The mesh. *)

\* The rank of the sequence number the origin has saved.
Level == Rank(disk[Origin].seq)

\* Between two steps a router's memory agrees with its checkpoint, and its
\* candidates and route rest on the checkpoints of its neighbours.
EngInv(r) ==
  /\ Good(eng[r], r, Level, Top, disk)
  /\ Chosen(eng[r].sel, eng[r], r, Level)
  /\ eng[r].out = {} /\ eng[r].src = disk[r].src /\ eng[r].seq = disk[r].seq

\* Every update in flight rests on the checkpoint of its sender.
NetInv ==
  \A m \in net : /\ m.from \in Routers /\ m \in Messages(m.from)
                 /\ Founded(m, Level, Height(disk[m.from].src))

\* The inductive invariant.
IInv ==
  /\ DOMAIN eng = Routers /\ disk \in [Routers -> Checkpoints]
  /\ \A r \in Routers : EngInv(r)
  /\ NetInv
  /\ published \subseteq Seqnos /\ \A s \in published : Rank(s) <= Level
  /\ changes \in 0 .. MaxChanges /\ crashes \in 0 .. MaxCrashes

\* Nobody holds, or will receive, an advertisement of r.
Alone(r) ==
  /\ \A n \in Nbr(r) : eng[n].cand[r] = NoCand
  /\ ~\E m \in net : m.type = "update" /\ m.from = r /\ m.metric # Infinity

LEMMA Neighbours ==
  ASSUME NEW r \in Routers, NEW n \in Nbr(r)
  PROVE  n \in Routers /\ n # r /\ r \in Nbr(n)
<1>1. n \in Routers /\ {r, n} \in Links
  BY DEF Nbr
<1>2. PICK a \in Routers, b \in Routers : a # b /\ {r, n} = {a, b}
  BY <1>1, RoutersAssumption
<1>3. r # n
  BY <1>2
<1>4. {n, r} = {r, n}
  OBVIOUS
<1> QED BY <1>1, <1>3, <1>4 DEF Nbr

LEMMA GoodOther ==
  ASSUME NEW e, NEW k, NEW b, NEW h, NEW d, Good(e, k, b, h, d), NEW c \in Nat, b <= c, c <= MaxBumps,
         k = Origin => c = b, NEW d2,
         \A n \in Nbr(k) : e.cand[n].adv # Infinity => Height(d2[n].src) <= Height(Adv(e.cand[n]))
  PROVE  Good(e, k, c, h, d2)
<1>1. b \in Nat
  BY DEF Good
<1>2. e.src.metric # Infinity => Rank(e.src.seq) <= c
  <2>1. e.src.seq \in Seqnos
    BY EngineFields DEF Good, Distances
  <2> QED BY <1>1, <2>1, RankType DEF Good
<1>3. \A n \in Nbr(k) : e.cand[n].adv # Infinity => Rank(e.cand[n].seq) <= c
  <2>1. \A n \in Nbr(k) : e.cand[n].seq \in Seqnos
    BY EngineFields DEF Good, Cands
  <2> QED BY <1>1, <2>1, RankType DEF Good
<1>4. \A m \in e.out : Founded(m, c, Height(e.src))
  <2> SUFFICES ASSUME NEW m \in e.out, m.type = "update" /\ m.metric # Infinity
               PROVE  Rank(m.seq) <= c /\ Height(e.src) <= Height(m)
    BY DEF Founded
  <2>1. m.seq \in Seqnos
    BY EngineFields DEF Good, Messages
  <2>2. Rank(m.seq) <= b /\ Height(e.src) <= Height(m)
    BY DEF Good, Founded
  <2> QED BY <1>1, <2>1, <2>2, RankType
<1> QED BY <1>2, <1>3, <1>4 DEF Good

LEMMA ChosenOther ==
  ASSUME NEW e, NEW k, NEW b \in Nat, NEW c \in Nat, b <= c, NEW s \in Routes(k), Chosen(s, e, k, b)
  PROVE  Chosen(s, e, k, c)
<1>1. Rank(s.seq) \in Nat
  BY RankType DEF Routes
<1> QED BY <1>1 DEF Chosen

\* Weakening the bound on the source entry.
LEMMA GoodTop ==
  ASSUME NEW e, NEW r, NEW b, NEW h, NEW d, Good(e, r, b, h, d)
  PROVE  Good(e, r, b, Top, d)
<1>1. Height(e.src) <= Top
  BY SourceNear
<1>2. MaxBumps \in Nat
  BY MeshAssumption
<1>3. Top \in Nat
  BY <1>2, Space DEF Top
<1> QED BY <1>1, <1>3 DEF Good

\* Router r's memory becomes x and its checkpoint cp, and it sends O.
LEMMA Moved ==
  ASSUME IInv, NEW r \in Routers, NEW cp \in Checkpoints, NEW x, NEW c, NEW O \in SUBSET Messages(r),
         Raised(c, Level, r), r = Origin => Rank(cp.seq) = c,
         Good(x, r, c, Top, disk), Chosen(x.sel, x, r, c),
         x.out = {}, x.src = cp.src, x.seq = cp.seq,
         Height(cp.src) <= Height(disk[r].src) \/ Alone(r),
         \A m \in O : Founded(m, c, Height(cp.src)),
         eng' = [eng EXCEPT ![r] = x], disk' = [disk EXCEPT ![r] = cp], net' \subseteq net \cup O,
         published' = published \/ (r = Origin /\ published' = published \cup {cp.seq}),
         changes' \in 0 .. MaxChanges, crashes' \in 0 .. MaxCrashes
  PROVE  IInv'
<1>1. /\ DOMAIN eng' = Routers /\ eng'[r] = x /\ \A k \in Routers \ {r} : eng'[k] = eng[k]
      /\ disk' \in [Routers -> Checkpoints] /\ disk'[r] = cp
      /\ \A k \in Routers \ {r} : disk'[k] = disk[k]
  BY DEF IInv
<1>2. Level' = c /\ c \in Nat /\ c <= MaxBumps /\ Level \in Nat /\ Level <= c
  <2>1. c \in Nat /\ Level <= c /\ c <= MaxBumps
    BY DEF Raised, Good
  <2>2. Level \in Nat
    BY RoutersAssumption DEF IInv, EngInv, Good
  <2>3. Level' = c
    BY <1>1, RoutersAssumption DEF Level, Raised
  <2> QED BY <2>1, <2>2, <2>3
<1>3. \A k \in Routers : Height(disk[k].src) \in Nat
  BY SourceNear DEF IInv, EngInv
<1>4. Height(cp.src) \in Nat
  BY SourceNear
<1>5. ASSUME NEW k \in Routers PROVE EngInv(k)'
  <2>1. CASE k = r
    <3>1. \A n \in Nbr(r) : disk'[n] = disk[n]
      BY <1>1, Neighbours
    <3>2. Good(x, r, c, Top, disk')
      <4>1. c <= c
        BY <1>2
      <4>2. \A n \in Nbr(r) : x.cand[n].adv # Infinity => Height(disk'[n].src) <= Height(Adv(x.cand[n]))
        BY <3>1 DEF Good
      <4> QED BY <1>2, <4>1, <4>2, GoodOther
    <3> QED BY <1>1, <1>2, <2>1, <3>2 DEF EngInv
  <2>2. CASE k # r
    <3>1. Good(eng[k], k, Level, Top, disk) /\ Chosen(eng[k].sel, eng[k], k, Level)
          /\ eng[k].out = {} /\ eng[k].src = disk[k].src /\ eng[k].seq = disk[k].seq
      BY DEF IInv, EngInv
    <3>2. ASSUME NEW n \in Nbr(k), eng[k].cand[n].adv # Infinity
          PROVE  Height(disk'[n].src) <= Height(Adv(eng[k].cand[n]))
      <4>1. Height(disk[n].src) <= Height(Adv(eng[k].cand[n])) /\ Height(Adv(eng[k].cand[n])) \in Nat
        BY <3>1, <3>2, CandNear DEF Good
      <4>2. n \in Routers /\ k \in Nbr(n)
        BY Neighbours
      <4>3. CASE n # r
        BY <1>1, <4>1, <4>2, <4>3
      <4>4. CASE n = r
        <5>1. ~Alone(r)
          BY <3>2, <4>2, <4>4, NoValues DEF Alone
        <5>2. Height(cp.src) <= Height(disk[r].src)
          BY <5>1
        <5> QED BY <1>1, <1>3, <1>4, <4>1, <4>4, <5>2
      <4> QED BY <4>3, <4>4
    <3>3. k = Origin => c = Level
      BY <2>2 DEF Raised
    <3>4. Good(eng[k], k, c, Top, disk')
      BY <1>2, <3>1, <3>2, <3>3, GoodOther
    <3>5. Chosen(eng[k].sel, eng[k], k, c)
      BY <1>2, <3>1, ChosenOther, EngineFields DEF Good
    <3> QED BY <1>1, <1>2, <2>2, <3>1, <3>4, <3>5 DEF EngInv
  <2> QED BY <2>1, <2>2
<1>6. NetInv'
  <2> SUFFICES ASSUME NEW m \in net'
               PROVE  /\ m.from \in Routers /\ m \in Messages(m.from)
                      /\ Founded(m, c, Height(disk'[m.from].src))
    BY <1>2 DEF NetInv
  <2>1. CASE m \in O
    <3>1. m.from = r
      BY <2>1 DEF Messages
    <3> QED BY <1>1, <2>1, <3>1
  <2>2. CASE m \in net
    <3>1. m.from \in Routers /\ m \in Messages(m.from)
          /\ Founded(m, Level, Height(disk[m.from].src))
      BY <2>2 DEF IInv, NetInv
    <3>2. ASSUME m.type = "update" /\ m.metric # Infinity
          PROVE  Rank(m.seq) <= c /\ Height(disk'[m.from].src) <= Height(m)
      <4>1. m.seq \in Seqnos /\ m.metric \in Metrics /\ Rank(m.seq) <= Level
            /\ Height(disk[m.from].src) <= Height(m)
        BY <3>1, <3>2 DEF Messages, Founded
      <4>2. Rank(m.seq) \in Nat /\ Rank(m.seq) <= c
        BY <1>2, <4>1, RankType
      <4>3. Near(m.seq)
        BY <1>2, <4>1, <4>2, MeshAssumption DEF Near
      <4>4. Height(m) \in Nat
        BY <4>1, <4>3, HeightType
      <4>5. CASE m.from # r
        BY <1>1, <3>1, <4>1, <4>2, <4>5
      <4>6. CASE m.from = r
        <5>1. ~Alone(r)
          BY <2>2, <3>2, <4>6 DEF Alone
        <5>2. Height(cp.src) <= Height(disk[r].src)
          BY <5>1
        <5> QED BY <1>1, <1>3, <1>4, <4>1, <4>2, <4>4, <4>6, <5>2
      <4> QED BY <4>5, <4>6
    <3> QED BY <3>1, <3>2 DEF Founded
  <2> QED BY <2>1, <2>2
<1>7. published' \subseteq Seqnos /\ \A s \in published' : Rank(s) <= c
  <2>1. published \subseteq Seqnos /\ \A s \in published : Rank(s) <= Level
    BY DEF IInv
  <2>2. cp.seq \in Seqnos
    BY DEF Checkpoints
  <2>3. \A s \in published : Rank(s) <= c
    BY <1>2, <2>1, RankType
  <2> QED BY <1>2, <2>1, <2>2, <2>3
<1> QED BY <1>1, <1>2, <1>5, <1>6, <1>7 DEF IInv

\* What every step of router r does to the checkpoints and the other routers.
Moves(r) ==
  /\ \A k \in Routers \ {r} : eng'[k] = eng[k] /\ disk'[k] = disk[k]
  /\ Height(disk'[r].src) <= Height(disk[r].src) \/ Alone(r)

\* The memory between two steps, bounded by the router's own checkpoint.
LEMMA GoodNow ==
  ASSUME IInv, NEW r \in Routers
  PROVE  /\ Good(eng[r], r, Level, Height(disk[r].src), disk)
         /\ Height(disk[r].src) \in Nat /\ Level \in Nat /\ Raised(Level, Level, r)
<1>1. Good(eng[r], r, Level, Top, disk) /\ eng[r].src = disk[r].src
  BY DEF IInv, EngInv
<1>2. Height(disk[r].src) \in Nat /\ Height(eng[r].src) <= Height(disk[r].src)
  BY <1>1, SourceNear
<1> QED BY <1>1, <1>2 DEF Good, Raised

\* The restart of r from a checkpoint that the step had saved, or from the last one.
LEMMA RestartInv ==
  ASSUME IInv, NEW r \in Routers, NEW c, NEW cp \in Checkpoints, Raised(c, Level, r), c <= MaxBumps,
         r = Origin => Rank(cp.seq) = c, cp.src.metric # Infinity => Rank(cp.src.seq) <= c,
         Height(cp.src) <= Height(disk[r].src) \/ Alone(r),
         disk' = [disk EXCEPT ![r] = cp], eng' = [eng EXCEPT ![r] = Restore(r, cp)],
         net' \subseteq net, published' = published,
         changes' \in 0 .. MaxChanges, crashes' \in 0 .. MaxCrashes
  PROVE  IInv' /\ Moves(r)
<1> DEFINE x == Restore(r, cp)
<1>1. /\ Good(x, r, c, Top, disk) /\ Chosen(x.sel, x, r, c)
      /\ x.out = {} /\ x.src = cp.src /\ x.seq = cp.seq
  BY GoodRestore DEF Raised
<1>2. eng' = [eng EXCEPT ![r] = x] /\ net' \subseteq net \cup {} /\ {} \in SUBSET Messages(r)
      /\ \A m \in {} : Founded(m, c, Height(cp.src))
  OBVIOUS
<1> HIDE DEF x
<1>3. IInv'
  BY <1>1, <1>2, Moved
<1>4. Moves(r)
  BY DEF Moves, IInv
<1> QED BY <1>3, <1>4

\* A crash between two steps, or in the middle of one before it saved anything.
LEMMA CrashInv ==
  ASSUME IInv, NEW r \in Routers, disk' = disk, eng' = [eng EXCEPT ![r] = Restore(r, disk[r])],
         net' \subseteq net, published' = published,
         changes' \in 0 .. MaxChanges, crashes' \in 0 .. MaxCrashes
  PROVE  IInv' /\ Moves(r)
<1>1. disk[r] \in Checkpoints /\ disk' = [disk EXCEPT ![r] = disk[r]]
  BY DEF IInv
<1>2. Good(eng[r], r, Level, Top, disk) /\ eng[r].src = disk[r].src /\ eng[r].seq = disk[r].seq
  BY DEF IInv, EngInv
<1>3. Raised(Level, Level, r) /\ Level <= MaxBumps /\ Height(disk[r].src) <= Height(disk[r].src)
  BY <1>2, GoodNow DEF Good
<1>4. /\ r = Origin => Rank(disk[r].seq) = Level
      /\ disk[r].src.metric # Infinity => Rank(disk[r].src.seq) <= Level
  BY <1>2 DEF Good
<1> QED BY <1>1, <1>3, <1>4, RestartInv

LEMMA CompleteInv ==
  ASSUME IInv, NEW r \in Routers, NEW c, NEW h, NEW new, Raised(c, Level, r),
         Good(new, r, c, h, disk), Chosen(new.sel, new, r, c),
         h <= Height(disk[r].src) \/ Alone(r),
         NEW inflight \in SUBSET net, Complete(r, new, inflight), changes' \in 0 .. MaxChanges
  PROVE  IInv' /\ Moves(r)
<1> DEFINE cp == Checkpoint(new)
           idle == [new EXCEPT !.out = {}]
           x == IF eng' = [eng EXCEPT ![r] = idle] THEN idle ELSE [idle EXCEPT !.proof = new.seq]
           O == new.out
<1>1. cp \in Checkpoints /\ cp.src = new.src /\ cp.seq = new.seq
  BY CheckpointType DEF Good
<1>2. /\ Good(idle, r, c, h, disk) /\ Chosen(idle.sel, idle, r, c)
      /\ idle.out = {} /\ idle.src = new.src /\ idle.seq = new.seq
  <2>1. {} \in SUBSET Messages(r)
    OBVIOUS
  <2>2. idle \in Engines(r) /\ idle.out = {} /\ idle.src = new.src /\ idle.seq = new.seq
        /\ idle.sel = new.sel /\ idle.cand = new.cand /\ idle.local = new.local /\ idle.req = new.req
    BY <2>1, WithOut DEF Good
  <2> HIDE DEF idle
  <2> QED BY <2>2 DEF Good, Chosen
<1>3. eng' = [eng EXCEPT ![r] = x] /\ disk' = [disk EXCEPT ![r] = cp]
  BY DEF Complete
<1>4. net' \subseteq net \cup O
  BY DEF Complete, Sent, Tracked
<1>5. O \in SUBSET Messages(r) /\ \A m \in O : Founded(m, c, Height(cp.src))
  BY <1>1, EngineFields DEF Good
<1>6. published' = published \/ (r = Origin /\ published' = published \cup {cp.seq})
  BY <1>1 DEF Complete
<1>7. crashes' \in 0 .. MaxCrashes
  BY DEF Complete, IInv
<1>8. new.seq \in Seqnos
  BY EngineFields DEF Good
<1> HIDE DEF idle, cp, O
<1>9. /\ Good(x, r, c, h, disk) /\ Chosen(x.sel, x, r, c)
      /\ x.out = {} /\ x.src = cp.src /\ x.seq = cp.seq
  <2> DEFINE y == [idle EXCEPT !.proof = new.seq]
  <2>1. Good(y, r, c, h, disk) /\ Keeps(y, idle) /\ y.src = idle.src /\ y.out = idle.out
    BY <1>2, <1>8, GoodProof
  <2>2. x = idle \/ x = y
    OBVIOUS
  <2> HIDE DEF x, y
  <2>3. CASE x = idle
    BY <1>1, <1>2, <2>3
  <2>4. CASE x = y
    BY <1>1, <1>2, <2>1, <2>4 DEF Keeps, Chosen
  <2> QED BY <2>2, <2>3, <2>4
<1> HIDE DEF x
<1>10. Height(cp.src) <= Height(disk[r].src) \/ Alone(r)
  <2>1. Height(new.src) \in Nat /\ h \in Nat /\ Height(new.src) <= h /\ Height(disk[r].src) \in Nat
    BY SourceNear, GoodNow DEF Good
  <2> QED BY <1>1, <2>1
<1>11. Good(x, r, c, Top, disk)
  BY <1>9, GoodTop
<1>12. r = Origin => Rank(cp.seq) = c
  BY <1>1 DEF Good
<1>13. IInv'
  BY <1>1, <1>3, <1>4, <1>5, <1>6, <1>7, <1>9, <1>10, <1>11, <1>12, Moved
<1>14. Moves(r)
  BY <1>3, <1>10 DEF Moves, IInv
<1> QED BY <1>13, <1>14

\* Engine.Step on the memory e, and the transaction of Routing.Step around it.
LEMMA RoutingStepInv ==
  ASSUME IInv, NEW r \in Routers, NEW e, NEW c, NEW h, Raised(c, Level, r), Good(e, r, c, h, disk),
         h <= Height(disk[r].src) \/ Alone(r), NEW due \in SUBSET Nbr(r), NEW inflight \in SUBSET net,
         RoutingStep(r, e, due, inflight), changes' \in 0 .. MaxChanges
  PROVE  IInv' /\ Moves(r)
<1>1. PICK new \in Outcomes(e, r, due) : Complete(r, new, inflight) \/ Cut(r, new, inflight)
  BY DEF RoutingStep
<1>2. Good(new, r, c, h, disk) /\ Chosen(new.sel, new, r, c)
  BY GoodOutcome
<1>3. CASE Complete(r, new, inflight)
  BY <1>2, <1>3, CompleteInv
<1>4. CASE Cut(r, new, inflight)
  <2>1. crashes' \in 0 .. MaxCrashes /\ net' \subseteq net /\ published' = published
    BY <1>4, MeshAssumption DEF Cut, IInv
  <2>2. CASE disk' = disk
    BY <1>4, <2>1, <2>2, CrashInv DEF Cut
  <2>3. CASE disk' = [disk EXCEPT ![r] = Checkpoint(new)]
    <3> DEFINE cp == Checkpoint(new)
    <3>1. cp \in Checkpoints /\ cp.src = new.src /\ cp.seq = new.seq
      BY <1>2, CheckpointType DEF Good
    <3>2. disk'[r] = cp
      BY <2>3 DEF IInv
    <3>3. eng' = [eng EXCEPT ![r] = Restore(r, cp)] /\ disk' = [disk EXCEPT ![r] = cp]
      BY <1>4, <2>3, <3>2 DEF Cut
    <3> HIDE DEF cp
    <3>4. Height(cp.src) <= Height(disk[r].src) \/ Alone(r)
      <4>1. Height(new.src) \in Nat /\ h \in Nat /\ Height(new.src) <= h /\ Height(disk[r].src) \in Nat
        BY <1>2, SourceNear, GoodNow DEF Good
      <4> QED BY <3>1, <4>1
    <3>5. c <= MaxBumps /\ (r = Origin => Rank(cp.seq) = c)
          /\ (cp.src.metric # Infinity => Rank(cp.src.seq) <= c)
      BY <1>2, <3>1 DEF Good
    <3> QED BY <2>1, <3>1, <3>3, <3>4, <3>5, RestartInv
  <2> QED BY <1>4, <2>2, <2>3 DEF Cut
<1> QED BY <1>1, <1>3, <1>4

\* The same for an event that leaves the source entry alone.
LEMMA EventInv ==
  ASSUME IInv, NEW r \in Routers, NEW e, NEW c, Raised(c, Level, r),
         Good(e, r, c, Height(disk[r].src), disk),
         NEW due \in SUBSET Nbr(r), NEW inflight \in SUBSET net,
         RoutingStep(r, e, due, inflight), changes' \in 0 .. MaxChanges
  PROVE  IInv' /\ Moves(r)
<1>1. Height(disk[r].src) <= Height(disk[r].src)
  BY GoodNow
<1> QED BY <1>1, RoutingStepInv

-----------------------------------------------------------------------------
(* The events. *)

LEMMA ChangesType ==
  ASSUME IInv, Free \/ \E kind \in Faults : Counted(kind)
  PROVE  changes' \in 0 .. MaxChanges
<1>1. MaxChanges \in Nat /\ changes \in 0 .. MaxChanges /\ crashes \in Nat
  BY MeshAssumption DEF IInv
<1> QED BY <1>1 DEF Free, Counted, Spent

LEMMA LinkInv ==
  ASSUME IInv, NEW r \in Routers, NEW n \in Nbr(r),
         AddLink(r, n) \/ RemoveLink(r, n)
  PROVE  IInv' /\ Moves(r)
<1>1. changes' \in 0 .. MaxChanges
  BY ChangesType DEF AddLink, RemoveLink, Counted
<1>2. Infinity \in Metrics /\ NoLink \in Metrics
  BY MetricRange, Space DEF NoLink
<1>3. /\ Good(eng[r], r, Level, Height(disk[r].src), disk) /\ Raised(Level, Level, r)
  BY GoodNow
<1>4. CASE AddLink(r, n)
  <2> DEFINE e1 == [eng[r] EXCEPT !.cost[n] = Infinity]
             M == {RouteRequest(r, n, TRUE)}
             e2 == queue(e1, M)
  <2>1. Good(e1, r, Level, Height(disk[r].src), disk)
    BY <1>2, <1>3, GoodCostAt
  <2>2. M \in SUBSET Messages(r) /\ \A m \in M : Founded(m, Level, Height(e1.src))
    BY DEF RouteRequest, Messages, Founded
  <2>3. RoutingStep(r, e2, {}, net)
    BY <1>4 DEF AddLink
  <2> HIDE DEF e1, M
  <2>4. Good(e2, r, Level, Height(disk[r].src), disk)
    BY <2>1, <2>2, GoodQueue
  <2> HIDE DEF e2
  <2> QED BY <1>1, <1>3, <2>3, <2>4, EventInv
<1>5. CASE RemoveLink(r, n)
  <2> DEFINE e1 == [eng[r] EXCEPT !.cost[n] = NoLink]
             e2 == [e1 EXCEPT !.cand[n] = NoCand]
             I == {m \in net : ~(m.to = r /\ m.from = n)}
  <2>1. Good(e1, r, Level, Height(disk[r].src), disk)
    BY <1>2, <1>3, GoodCostAt
  <2>2. RoutingStep(r, e2, {}, I)
    BY <1>5 DEF RemoveLink
  <2> HIDE DEF e1
  <2>3. Good(e2, r, Level, Height(disk[r].src), disk)
    BY <2>1, NoValues, GoodCand
  <2>4. I \in SUBSET net
    OBVIOUS
  <2> HIDE DEF e2, I
  <2> QED BY <1>1, <1>3, <2>2, <2>3, <2>4, EventInv
<1> QED BY <1>4, <1>5

LEMMA CostInv ==
  ASSUME IInv, NEW r \in Routers, NEW n \in Nbr(r), NEW v \in LinkCosts \cup {Infinity},
         LinkReady(r, n, v) \/ SetCost(r, n, v)
  PROVE  IInv' /\ Moves(r)
<1>1. changes' \in 0 .. MaxChanges
  BY ChangesType DEF LinkReady, SetCost, Counted
<1>2. v \in Metrics
  <2>1. v \in 1 .. Infinity - 1 \/ v = Infinity
    BY MeshAssumption
  <2>2. Infinity \in Int /\ Infinity \in Nat
    BY Space
  <2> QED BY <2>1, <2>2 DEF Metrics
<1>3. /\ Good(eng[r], r, Level, Height(disk[r].src), disk) /\ Raised(Level, Level, r)
  BY GoodNow
<1> DEFINE e1 == [eng[r] EXCEPT !.cost[n] = v]
<1>4. Good(e1, r, Level, Height(disk[r].src), disk)
  BY <1>2, <1>3, GoodCostAt
<1>5. RoutingStep(r, e1, {}, net)
  BY DEF LinkReady, SetCost
<1> HIDE DEF e1
<1> QED BY <1>1, <1>3, <1>4, <1>5, EventInv

LEMMA ReceiveInv ==
  ASSUME IInv, NEW r \in Routers, NEW n \in Nbr(r), Receive(r, n)
  PROVE  IInv' /\ Moves(r)
<1> DEFINE P == Packet(n, r)
<1>1. changes' \in 0 .. MaxChanges
  BY ChangesType DEF Receive
<1>2. /\ Good(eng[r], r, Level, Height(disk[r].src), disk)
  BY GoodNow
<1>3. \A m \in P : Incoming(m, r, Level, disk)
  BY DEF Packet, IInv, NetInv, Incoming
<1>4. ~PastBound(eng[r], P) /\ net \ P \in SUBSET net
  BY DEF Receive
<1>5. PICK low, late : /\ late \in BOOLEAN
                       /\ RoutingStep(r, receive(eng[r], r, P, low, late), {}, net \ P)
  <2>1. PICK low \in (IF Of(P, "update") = P THEN {NoRouter} ELSE Nbr(r)),
             late \in (IF Of(P, "update") \in {P, {}} THEN {FALSE} ELSE BOOLEAN) :
             RoutingStep(r, receive(eng[r], r, P, low, late), {}, net \ P)
    BY DEF Receive
  <2>2. late \in BOOLEAN
    BY Zenon
  <2> QED BY <2>1, <2>2, Zenon
<1> HIDE DEF P
<1>6. PICK c : Raised(c, Level, r)
               /\ Good(receive(eng[r], r, P, low, late), r, c, Height(disk[r].src), disk)
  BY <1>2, <1>3, <1>4, <1>5, GoodReceive
<1> QED BY <1>1, <1>4, <1>5, <1>6, EventInv

LEMMA OriginInv ==
  ASSUME IInv, NEW r \in Routers,
         Withdraw(r) \/ \E m \in LocalMetrics : Originate(r, m)
  PROVE  IInv' /\ Moves(r)
<1>1. changes' \in 0 .. MaxChanges
  BY ChangesType DEF Withdraw, Originate, Counted
<1>2. /\ Good(eng[r], r, Level, Height(disk[r].src), disk) /\ Raised(Level, Level, r)
  BY GoodNow
<1>3. CASE Withdraw(r)
  <2> DEFINE e1 == [eng[r] EXCEPT !.local = Infinity]
  <2>1. Good(e1, r, Level, Height(disk[r].src), disk)
    BY <1>2, GoodLocal, MetricRange, Space
  <2>2. RoutingStep(r, e1, {}, net)
    BY <1>3 DEF Withdraw
  <2> HIDE DEF e1
  <2> QED BY <1>1, <1>2, <2>1, <2>2, EventInv
<1>4. ASSUME NEW v \in LocalMetrics, Originate(r, v) PROVE IInv' /\ Moves(r)
  <2> DEFINE e1 == [eng[r] EXCEPT !.local = v]
             e2 == [e1 EXCEPT !.drop = FALSE]
  <2>1. v \in Metrics
    <3>1. v \in 0 .. Infinity - 1
      BY MeshAssumption
    <3>2. Infinity \in Int
      BY Space
    <3> QED BY <3>1, <3>2 DEF Metrics
  <2>2. RoutingStep(r, e2, {}, net) /\ r = Origin
    BY <1>4 DEF Originate
  <2>3. Good(e1, r, Level, Height(disk[r].src), disk)
    BY <1>2, <2>1, <2>2, GoodLocal
  <2> HIDE DEF e1
  <2>4. Good(e2, r, Level, Height(disk[r].src), disk)
    BY <2>3, GoodDrop
  <2> HIDE DEF e2
  <2> QED BY <1>1, <1>2, <2>2, <2>4, EventInv
<1> QED BY <1>3, <1>4

LEMMA ManifestInv ==
  ASSUME IInv, NEW r \in Routers, NEW s \in published, LearnManifest(r, s)
  PROVE  IInv' /\ Moves(r)
<1>1. changes' \in 0 .. MaxChanges
  BY ChangesType DEF LearnManifest
<1>2. /\ Good(eng[r], r, Level, Height(disk[r].src), disk) /\ Raised(Level, Level, r)
  BY GoodNow
<1> DEFINE e1 == [eng[r] EXCEPT !.auth = s]
<1>3. Good(e1, r, Level, Height(disk[r].src), disk)
  BY <1>2, GoodAuth DEF IInv
<1>4. RoutingStep(r, e1, {}, net)
  BY DEF LearnManifest
<1> HIDE DEF e1
<1> QED BY <1>1, <1>2, <1>3, <1>4, EventInv

\* The origin signs what it has saved.
LEMMA PublishInv ==
  ASSUME IInv, NEW r \in Routers, PublishLater(r)
  PROVE  IInv' /\ Moves(r)
<1> DEFINE x == [eng[r] EXCEPT !.proof = disk[r].seq]
           cp == disk[r]
<1>1. /\ Good(eng[r], r, Level, Top, disk) /\ Chosen(eng[r].sel, eng[r], r, Level)
      /\ eng[r].out = {} /\ eng[r].src = cp.src /\ eng[r].seq = cp.seq /\ cp \in Checkpoints
  BY DEF IInv, EngInv
<1>2. cp.seq \in Seqnos
  BY <1>1 DEF Checkpoints
<1>3. Good(x, r, Level, Top, disk) /\ Keeps(x, eng[r]) /\ x.src = cp.src /\ x.out = {}
  BY <1>1, <1>2, GoodProof
<1>4. eng' = [eng EXCEPT ![r] = x] /\ disk' = [disk EXCEPT ![r] = cp] /\ net' \subseteq net \cup {}
      /\ published' = published \cup {cp.seq} /\ r = Origin
  BY DEF PublishLater, IInv
<1>5. changes' \in 0 .. MaxChanges /\ crashes' \in 0 .. MaxCrashes
  BY DEF PublishLater, IInv
<1>6. Raised(Level, Level, r) /\ Height(cp.src) <= Height(disk[r].src) /\ Rank(cp.seq) = Level
  BY <1>4, GoodNow DEF Level
<1> HIDE DEF x
<1>7. Chosen(x.sel, x, r, Level) /\ x.seq = cp.seq
  BY <1>1, <1>3 DEF Keeps, Chosen
<1> HIDE DEF cp
<1>8. {} \in SUBSET Messages(r) /\ \A m \in {} : Founded(m, Level, Height(cp.src))
  OBVIOUS
<1>9. IInv'
  BY <1>1, <1>3, <1>4, <1>5, <1>6, <1>7, <1>8, Moved
<1>10. Moves(r)
  BY <1>4, <1>6 DEF Moves, IInv, cp
<1> QED BY <1>9, <1>10

LEMMA TickInv ==
  ASSUME IInv, NEW r \in Routers, Tick(r)
  PROVE  IInv' /\ Moves(r)
<1>1. changes' \in 0 .. MaxChanges
  BY ChangesType
     DEF Tick, SendUpdates, ResendRequest, Refresh, ExpireSource, ExpireRequest, ExpireDrop,
         ExpireCandidate, Counted
<1>2. /\ Good(eng[r], r, Level, Height(disk[r].src), disk) /\ Raised(Level, Level, r)
      /\ eng[r].req \in Reqs(r)
  BY GoodNow, EngineFields DEF Good
<1>3. CASE SendUpdates(r)
  <2>1. RoutingStep(r, eng[r], Nbr(r), net)
    BY <1>3 DEF SendUpdates
  <2> QED BY <1>1, <1>2, <2>1, EventInv
<1>4. CASE ResendRequest(r)
  <2> DEFINE q == eng[r].req
             M == {SeqRequest(r, n, q.seq, q.hops) : n \in q.targets}
             e1 == queue(eng[r], M)
  <2>1. q.seq \in Seqnos /\ q.hops \in 1 .. FirstHops /\ q.targets \in SUBSET Nbr(r)
    BY <1>2, <1>4 DEF ResendRequest, Good, Reqs
  <2>2. RoutingStep(r, e1, {}, net)
    BY <1>4 DEF ResendRequest
  <2>3. M \in SUBSET Messages(r) /\ \A m \in M : Founded(m, Level, Height(eng[r].src))
    <3> HIDE DEF q
    <3>1. M \in SUBSET Messages(r) /\ \A m \in M : m.type = "seqreq"
      BY <2>1, SeqRequestMessages
    <3> HIDE DEF M
    <3> QED BY <3>1 DEF Founded
  <2> HIDE DEF M
  <2>4. Good(e1, r, Level, Height(disk[r].src), disk)
    BY <1>2, <2>3, GoodQueue
  <2> HIDE DEF e1
  <2> QED BY <1>1, <1>2, <2>2, <2>4, EventInv
<1>5. CASE Refresh(r)
  <2> DEFINE n == eng[r].sel.link
             M == {RouteRequest(r, n, FALSE)}
             e1 == queue(eng[r], M)
  <2>1. n \in Nbr(r)
    BY <1>2, <1>5, EngineFields DEF Refresh, Good, Routes
  <2>2. RoutingStep(r, e1, {}, net)
    BY <1>5 DEF Refresh
  <2>3. M \in SUBSET Messages(r) /\ \A m \in M : Founded(m, Level, Height(eng[r].src))
    <3> HIDE DEF n
    <3>1. FALSE \in BOOLEAN
      OBVIOUS
    <3>2. M \in SUBSET Messages(r) /\ \A m \in M : m.type = "request"
      BY <2>1, <3>1, RouteRequestMessage
    <3> HIDE DEF M
    <3> QED BY <3>2 DEF Founded
  <2> HIDE DEF M
  <2>4. Good(e1, r, Level, Height(disk[r].src), disk)
    BY <1>2, <2>3, GoodQueue
  <2> HIDE DEF e1
  <2> QED BY <1>1, <1>2, <2>2, <2>4, EventInv
<1>6. ASSUME NEW n \in Nbr(r), ExpireCandidate(r, n) PROVE IInv' /\ Moves(r)
  <2> DEFINE e1 == [eng[r] EXCEPT !.cand[n] = NoCand]
  <2>1. RoutingStep(r, e1, {}, net)
    BY <1>6 DEF ExpireCandidate
  <2>2. Good(e1, r, Level, Height(disk[r].src), disk)
    BY <1>2, NoValues, GoodCand
  <2> HIDE DEF e1
  <2> QED BY <1>1, <1>2, <2>1, <2>2, EventInv
<1>7. CASE ExpireRequest(r)
  <2> DEFINE e1 == [eng[r] EXCEPT !.req = NoReq]
  <2>1. RoutingStep(r, e1, {}, net)
    BY <1>7 DEF ExpireRequest
  <2>2. Good(e1, r, Level, Height(disk[r].src), disk)
    BY <1>2, NoValues, GoodReq
  <2> HIDE DEF e1
  <2> QED BY <1>1, <1>2, <2>1, <2>2, EventInv
<1>8. CASE ExpireDrop(r)
  <2> DEFINE e1 == [eng[r] EXCEPT !.drop = FALSE]
  <2>1. RoutingStep(r, e1, {}, net)
    BY <1>8 DEF ExpireDrop
  <2>2. Good(e1, r, Level, Height(disk[r].src), disk)
    BY <1>2, GoodDrop
  <2> HIDE DEF e1
  <2> QED BY <1>1, <1>2, <2>1, <2>2, EventInv
\* The source entry goes up to the top, but nobody depends on it.
<1>9. CASE ExpireSource(r)
  <2> DEFINE e1 == [eng[r] EXCEPT !.src = NoSrc]
  <2>1. RoutingStep(r, e1, {}, net) /\ Alone(r)
    BY <1>9 DEF ExpireSource, Alone
  <2>2. eng[r].out = {}
    BY DEF IInv, EngInv
  <2>3. Height(NoSrc) = Top
    BY NoValues DEF Height
  <2>4. Top \in Nat /\ Good(eng[r], r, Level, Top, disk)
    BY <1>2, GoodTop DEF Good
  <2>5. Good(e1, r, Level, Top, disk)
    <3>1. e1 \in Engines(r) /\ e1.src = NoSrc /\ e1.out = {} /\ e1.seq = eng[r].seq
          /\ e1.local = eng[r].local /\ e1.cand = eng[r].cand /\ e1.req = eng[r].req
      BY <2>2, <2>4, NoValues, WithSrc DEF Good
    <3> HIDE DEF e1
    <3> QED BY <2>3, <2>4, <3>1, NoValues DEF Good
  <2> HIDE DEF e1
  <2> QED BY <1>1, <1>2, <2>1, <2>5, RoutingStepInv
<1> QED BY <1>3, <1>4, <1>5, <1>6, <1>7, <1>8, <1>9 DEF Tick

LEMMA CrashStepInv ==
  ASSUME IInv, NEW r \in Routers, Crash(r)
  PROVE  IInv' /\ Moves(r)
<1>1. /\ disk' = disk /\ eng' = [eng EXCEPT ![r] = Restore(r, disk[r])]
      /\ net' \subseteq net /\ published' = published
  BY DEF Crash
<1>2. changes' \in 0 .. MaxChanges /\ crashes' \in 0 .. MaxCrashes
  <2>1. MaxCrashes \in Nat /\ crashes \in 0 .. MaxCrashes /\ changes \in 0 .. MaxChanges
    BY MeshAssumption DEF IInv
  <2> QED BY <2>1 DEF Crash
<1> QED BY <1>1, <1>2, CrashInv

\* Losing packets takes nothing away from the routers.
LEMMA LoseInv ==
  ASSUME IInv, NEW r \in Routers, NEW n \in Nbr(r), Lose(r, n)
  PROVE  IInv' /\ eng' = eng /\ disk' = disk
<1>1. eng' = eng /\ disk' = disk /\ net' \subseteq net /\ published' = published /\ crashes' = crashes
  BY DEF Lose
<1>2. changes' \in 0 .. MaxChanges
  BY ChangesType DEF Lose, Counted
<1>3. Level' = Level
  BY <1>1 DEF Level
<1>4. \A k \in Routers : EngInv(k)'
  BY <1>1, <1>3 DEF IInv, EngInv
<1>5. NetInv'
  BY <1>1, <1>3 DEF IInv, NetInv
<1> QED BY <1>1, <1>2, <1>3, <1>4, <1>5 DEF IInv

\* Every step keeps the invariant, and either it is a move of one router or
\* it leaves the routers alone.
LEMMA StepInv ==
  ASSUME IInv, Next
  PROVE  IInv' /\ ((eng' = eng /\ disk' = disk) \/ \E r \in Routers : Moves(r))
<1>1. PICK r \in Routers :
          \/ PublishLater(r) \/ Crash(r) \/ Withdraw(r) \/ Tick(r)
          \/ \E n \in Nbr(r) :
                \/ Receive(r, n) \/ Lose(r, n) \/ AddLink(r, n) \/ RemoveLink(r, n)
                \/ \E c \in LinkCosts : LinkReady(r, n, c)
                \/ \E c \in LinkCosts \cup {Infinity} : SetCost(r, n, c)
          \/ \E m \in LocalMetrics : Originate(r, m)
          \/ \E s \in published : LearnManifest(r, s)
  BY DEF Next
<1>2. CASE PublishLater(r)
  BY <1>2, PublishInv
<1>3. CASE Crash(r)
  BY <1>3, CrashStepInv
<1>4. CASE Tick(r)
  BY <1>4, TickInv
<1>5. CASE Withdraw(r) \/ \E m \in LocalMetrics : Originate(r, m)
  BY <1>5, OriginInv
<1>6. ASSUME NEW s \in published, LearnManifest(r, s)
      PROVE  IInv' /\ Moves(r)
  BY <1>6, ManifestInv
<1>7. ASSUME NEW n \in Nbr(r), Receive(r, n) PROVE IInv' /\ Moves(r)
  BY <1>7, ReceiveInv
<1>8. ASSUME NEW n \in Nbr(r), Lose(r, n) PROVE IInv' /\ eng' = eng /\ disk' = disk
  BY <1>8, LoseInv
<1>9. ASSUME NEW n \in Nbr(r), AddLink(r, n) \/ RemoveLink(r, n) PROVE IInv' /\ Moves(r)
  BY <1>9, LinkInv
<1>10. ASSUME NEW n \in Nbr(r), NEW c \in LinkCosts \cup {Infinity}, LinkReady(r, n, c) \/ SetCost(r, n, c)
       PROVE  IInv' /\ Moves(r)
  BY <1>10, CostInv
<1> QED BY <1>1, <1>2, <1>3, <1>4, <1>5, <1>6, <1>7, <1>8, <1>9, <1>10

LEMMA InitFacts ==
  ASSUME Init
  PROVE  IInv /\ \A r \in Routers : eng[r].sel = NoRoute /\ disk[r].src = NoSrc
<1>1. PICK m \in LocalMetrics, cost \in [Routers -> [Routers -> LinkCosts]] :
          eng = [r \in Routers |->
                   [Fresh(r, FirstSeq) EXCEPT
                       !.cost = [n \in Nbr(r) |-> cost[r][n]],
                       !.local = IF r = Origin THEN m ELSE Infinity,
                       !.auth = FirstSeq,
                       !.proof = IF r = Origin THEN FirstSeq ELSE NoSeq]]
  BY DEF Init
<1>2. /\ disk = [r \in Routers |-> Checkpoint(Fresh(r, FirstSeq))]
      /\ net = {} /\ published = {FirstSeq} /\ changes = 0 /\ crashes = 0
  BY DEF Init
<1>3. FirstSeq \in Seqnos /\ MaxBumps \in Nat /\ MaxChanges \in Nat /\ MaxCrashes \in Nat
  BY MeshAssumption
<1>4. Rank(FirstSeq) = 0
  BY <1>3, RankValue, SeqRange
<1>5. m \in Metrics /\ Infinity \in Metrics /\ LinkCosts \subseteq Metrics
  <2>1. Infinity \in Int /\ Infinity \in Nat
    BY Space
  <2>2. m \in 0 .. Infinity - 1 /\ LinkCosts \subseteq 1 .. Infinity - 1
    BY MeshAssumption
  <2> QED BY <2>1, <2>2 DEF Metrics
<1>6. \A r \in Routers : /\ Checkpoint(Fresh(r, FirstSeq)) \in Checkpoints
                         /\ Checkpoint(Fresh(r, FirstSeq)).src = NoSrc
                         /\ Checkpoint(Fresh(r, FirstSeq)).seq = FirstSeq
  BY <1>3, FreshType, CheckpointType
<1>7. /\ disk \in [Routers -> Checkpoints]
      /\ \A r \in Routers : disk[r].src = NoSrc /\ disk[r].seq = FirstSeq
  BY <1>2, <1>6
<1>8. Level = 0
  BY <1>4, <1>7, RoutersAssumption DEF Level
<1>9. ASSUME NEW r \in Routers PROVE EngInv(r) /\ eng[r].sel = NoRoute
  <2> DEFINE f == Fresh(r, FirstSeq)
             v == [n \in Nbr(r) |-> cost[r][n]]
             l == IF r = Origin THEN m ELSE Infinity
             p == IF r = Origin THEN FirstSeq ELSE NoSeq
             e1 == [f EXCEPT !.cost = v]
             e2 == [e1 EXCEPT !.local = l]
             e3 == [e2 EXCEPT !.auth = FirstSeq]
             e4 == [e3 EXCEPT !.proof = p]
  <2>1. /\ f \in Engines(r) /\ f.seq = FirstSeq /\ f.src = NoSrc
        /\ f.sel = NoRoute /\ f.req = NoReq /\ f.out = {} /\ \A n \in Nbr(r) : f.cand[n] = NoCand
    BY <1>3, FreshType
  <2>2. eng[r] = e4
    BY <1>1
  <2>3. v \in [Nbr(r) -> Metrics]
    <3>1. \A n \in Nbr(r) : cost[r][n] \in LinkCosts
      BY DEF Nbr
    <3> QED BY <1>5, <3>1
  <2>4. l \in Metrics /\ (r # Origin => l = Infinity) /\ p \in Seqnos \cup {NoSeq}
    BY <1>3, <1>5
  <2> HIDE DEF f, v, l, p
  <2>5. /\ e1 \in Engines(r) /\ e1.seq = FirstSeq /\ e1.src = NoSrc /\ e1.sel = NoRoute
        /\ e1.req = NoReq /\ e1.out = {} /\ e1.cand = f.cand
    BY <2>1, <2>3, WithCost
  <2> HIDE DEF e1
  <2>6. /\ e2 \in Engines(r) /\ e2.seq = FirstSeq /\ e2.src = NoSrc /\ e2.sel = NoRoute
        /\ e2.req = NoReq /\ e2.out = {} /\ e2.cand = f.cand /\ e2.local = l
    BY <2>4, <2>5, WithLocal
  <2> HIDE DEF e2
  <2>7. /\ e3 \in Engines(r) /\ e3.seq = FirstSeq /\ e3.src = NoSrc /\ e3.sel = NoRoute
        /\ e3.req = NoReq /\ e3.out = {} /\ e3.cand = f.cand /\ e3.local = l
    BY <1>3, <2>6, WithAuth
  <2> HIDE DEF e3
  <2>8. /\ e4 \in Engines(r) /\ e4.seq = FirstSeq /\ e4.src = NoSrc /\ e4.sel = NoRoute
        /\ e4.req = NoReq /\ e4.out = {} /\ e4.cand = f.cand /\ e4.local = l
    BY <2>4, <2>7, WithProof
  <2> HIDE DEF e4
  <2>9. Good(e4, r, 0, Top, disk)
    BY <1>3, <1>4, <2>1, <2>4, <2>8, NoValues, GoodEmpty
  <2>10. Chosen(e4.sel, e4, r, 0)
    BY <2>8 DEF Chosen, NoRoute, Reachable
  <2> QED BY <1>7, <1>8, <2>2, <2>8, <2>9, <2>10 DEF EngInv
<1>10. NetInv
  BY <1>2 DEF NetInv
<1>11. DOMAIN eng = Routers
  BY <1>1
<1>12. published \subseteq Seqnos /\ \A s \in published : Rank(s) <= Level
  BY <1>2, <1>3, <1>4, <1>8
<1> QED BY <1>2, <1>3, <1>7, <1>9, <1>10, <1>11, <1>12 DEF IInv

LEMMA InitInv == Init => IInv
BY InitFacts

LEMMA NextInv == IInv /\ [Next]_vars => IInv'
<1> SUFFICES ASSUME IInv, [Next]_vars PROVE IInv'
  OBVIOUS
<1>1. CASE Next
  BY <1>1, StepInv
<1>2. CASE UNCHANGED vars
  <2>1. /\ eng' = eng /\ disk' = disk /\ net' = net /\ published' = published
        /\ changes' = changes /\ crashes' = crashes
    BY <1>2 DEF vars
  <2>2. Level' = Level
    BY <2>1 DEF Level
  <2>3. \A k \in Routers : EngInv(k)'
    BY <2>1, <2>2 DEF IInv, EngInv
  <2>4. NetInv'
    BY <2>1, <2>2 DEF IInv, NetInv
  <2> QED BY <2>1, <2>2, <2>3, <2>4 DEF IInv
<1> QED BY <1>1, <1>2

\* Between any two Routing.Steps, after any crashes, losses and faults, every
\* advertisement that anyone holds or that is in flight is covered by a
\* checkpoint its sender has saved.
THEOREM Invariance == Spec => []IInv
BY InitInv, NextInv, PTL DEF Spec

-----------------------------------------------------------------------------
(* What the invariant says of the mesh. *)

LEMMA MessageTyped ==
  ASSUME NEW r \in Routers, NEW m \in Messages(r)
  PROVE  MessageOK(m) /\ m.from = r
BY DEF Messages, MessageOK

LEMMA TypeOf == IInv => TypeOK
<1> SUFFICES ASSUME IInv PROVE TypeOK
  OBVIOUS
<1>1. ASSUME NEW r \in Routers PROVE EngineOK(eng[r], r)
  <2> DEFINE e == eng[r]
  <2>1. Good(e, r, Level, Top, disk) /\ Chosen(e.sel, e, r, Level) /\ e.out = {}
    BY DEF IInv, EngInv
  <2>2. /\ e.seq \in Seqnos /\ e.local \in Metrics /\ e.cost \in [Nbr(r) -> Metrics]
        /\ e.cand \in [Nbr(r) -> Cands] /\ e.src \in Distances /\ e.sel \in Routes(r)
        /\ e.drop \in BOOLEAN /\ e.req \in Reqs(r) /\ e.auth \in Seqnos \cup {NoSeq}
        /\ e.proof \in Seqnos \cup {NoSeq}
    BY <2>1, EngineFields DEF Good
  <2> HIDE DEF e
  <2>3. /\ e.sel.kind \in {"none", "unreachable", "local", "via"}
        /\ e.sel.seq \in Seqnos /\ e.sel.metric \in Metrics
        /\ e.sel.link \in (IF e.sel.kind = "via" THEN Nbr(r) ELSE {NoRouter})
    BY <2>1, <2>2 DEF Routes, Chosen
  <2>4. /\ e.req = NoReq \/ e.req.seq \in Seqnos
        /\ e.req.targets \subseteq Nbr(r) /\ e.req.from \in Nbr(r) \cup {NoRouter}
    BY <2>1, <2>2 DEF Good, Reqs
  <2>5. EngineOK(e, r)
    BY <2>1, <2>2, <2>3, <2>4 DEF EngineOK, Cands
  <2> QED BY <2>5 DEF e
<1>2. \A m \in net : MessageOK(m)
  BY MessageTyped DEF IInv, NetInv
<1> QED BY <1>1, <1>2 DEF IInv, TypeOK, Checkpoints

\* Sequence numbers wrap and metrics saturate within their 16 bits through every
\* handler of the engine (sum, nextSeq, advertise, update, seqRequest, Restore).
THEOREM TypeCorrect == Spec => []TypeOK
BY Invariance, TypeOf, PTL

LEMMA Durable == IInv => SeqDurable
<1> SUFFICES ASSUME IInv PROVE SeqDurable
  OBVIOUS
<1> DEFINE top == disk[Origin].seq
<1>1. Near(top) /\ Level = Rank(top) /\ Level \in Nat /\ Level <= MaxBumps /\ MaxBumps \in Nat
  <2>1. Good(eng[Origin], Origin, Level, Top, disk) /\ eng[Origin].seq = top
    BY RoutersAssumption DEF IInv, EngInv
  <2>2. top \in Seqnos
    BY <2>1, EngineFields DEF Good
  <2> QED BY <2>1, <2>2, MeshAssumption DEF Near, Good, Level
<1> HIDE DEF top
<1>2. ASSUME NEW s \in Seqnos, Rank(s) <= Level PROVE atLeast(top, s)
  <2>1. Near(s)
    BY <1>1, <1>2, RankType DEF Near
  <2> QED BY <1>1, <1>2, <2>1, RankAtLeast
<1>3. \A s \in published : atLeast(top, s)
  BY <1>2 DEF IInv
<1>4. \A m \in net : m.type = "update" /\ m.metric # Infinity => atLeast(top, m.seq)
  <2> SUFFICES ASSUME NEW m \in net, m.type = "update" /\ m.metric # Infinity
               PROVE  atLeast(top, m.seq)
    OBVIOUS
  <2>1. m \in Messages(m.from) /\ Founded(m, Level, Height(disk[m.from].src))
    BY DEF IInv, NetInv
  <2>2. m.seq \in Seqnos
    BY <2>1 DEF Messages
  <2> QED BY <1>2, <2>1, <2>2 DEF Founded
<1>5. ASSUME NEW r \in Routers
      PROVE  /\ eng[r].src.metric # Infinity => atLeast(top, eng[r].src.seq)
             /\ disk[r].src.metric # Infinity => atLeast(top, disk[r].src.seq)
             /\ \A n \in Nbr(r) : eng[r].cand[n].adv # Infinity => atLeast(top, eng[r].cand[n].seq)
  <2>1. Good(eng[r], r, Level, Top, disk) /\ eng[r].src = disk[r].src
    BY DEF IInv, EngInv
  <2>2. eng[r].src.seq \in Seqnos /\ \A n \in Nbr(r) : eng[r].cand[n].seq \in Seqnos
    BY <2>1, EngineFields DEF Good, Distances, Cands
  <2> QED BY <1>2, <2>1, <2>2 DEF Good
<1> QED BY <1>3, <1>4, <1>5 DEF SeqDurable, top

\* Routing.Step saves the checkpoint before it publishes or sends, so an origin
\* that restarts is never behind a number it announced.
THEOREM NumbersDurable == Spec => []SeqDurable
BY Invariance, Durable, PTL

\* Forwarding goes down the saved feasibility distances.
LEMMA Descent ==
  ASSUME IInv, NEW r \in Routers, Forward(r) # NoRouter
  PROVE  /\ Forward(r) \in Nbr(r) /\ eng[r].cand[Forward(r)] # NoCand
         /\ Height(disk[Forward(r)].src) < Height(disk[r].src)
<1> DEFINE n == eng[r].sel.link
<1>1. /\ Good(eng[r], r, Level, Top, disk) /\ Chosen(eng[r].sel, eng[r], r, Level)
      /\ eng[r].src = disk[r].src
  BY DEF IInv, EngInv
<1>2. /\ n \in Nbr(r) /\ eng[r].cand[n].adv # Infinity
      /\ Height(Adv(eng[r].cand[n])) < Height(disk[r].src)
  BY <1>1 DEF Forward, Chosen
<1>3. Height(disk[n].src) <= Height(Adv(eng[r].cand[n])) /\ Height(Adv(eng[r].cand[n])) \in Nat
  BY <1>1, <1>2, CandNear DEF Good
<1>4. n \in Routers
  BY <1>2, Neighbours
<1>5. Height(disk[n].src) \in Nat /\ Height(disk[r].src) \in Nat
  BY <1>4, GoodNow
<1>6. eng[r].cand[n] # NoCand /\ Height(disk[n].src) < Height(disk[r].src)
  BY <1>2, <1>3, <1>5, NoValues
<1> QED BY <1>2, <1>6 DEF Forward

-----------------------------------------------------------------------------
(* The mesh implements the abstract specification of loop-free forwarding. *)

\* What both ends of a step show of the abstract state.
Downhill ==
  \A r \in Routers :
    /\ Height(disk[r].src) \in Nat
    /\ Forward(r) # NoRouter =>
         Forward(r) \in Nbr(r) /\ Height(disk[Forward(r)].src) < Height(disk[r].src)

LEMMA GoesDownhill == IInv => Downhill
BY Descent, GoodNow DEF Downhill

LEMMA LFInit == Init => LF!Init
<1> SUFFICES ASSUME Init PROVE LF!Init
  OBVIOUS
<1>1. ASSUME NEW r \in Routers PROVE Forward(r) = NoRouter
  BY InitFacts DEF Forward, NoRoute
<1>2. ASSUME NEW r \in Routers PROVE Height(disk[r].src) = Top
  BY InitFacts, NoValues DEF Height
<1> QED BY <1>1, <1>2 DEF LF!Init

LEMMA LFMove ==
  ASSUME IInv, IInv', NEW r \in Routers, Moves(r)
  PROVE  LF!Next
<1> DEFINE hop == [k \in Routers |-> Forward(k)]
           height == [k \in Routers |-> Height(disk[k].src)]
<1>1. /\ \A k \in Routers : hop[k] = Forward(k) /\ height[k] = Height(disk[k].src)
      /\ \A k \in Routers : hop'[k] = eng'[k].sel.link /\ height'[k] = Height(disk'[k].src)
      /\ \A k \in Routers : Forward(k) = eng[k].sel.link
  BY DEF Forward
<1>d. Downhill'
  BY GoesDownhill, PTL
<1>2. hop' \in [Routers -> Routers \cup {NoRouter}] /\ height' \in [Routers -> Nat]
  <2>1. \A k \in Routers : eng'[k].sel.link \in Routers \cup {NoRouter} /\ Height(disk'[k].src) \in Nat
    BY <1>d, Neighbours DEF Downhill, Forward
  <2> QED BY <2>1 DEF Forward
<1>3. \A k \in Routers \ {r} : hop'[k] = hop[k] /\ height'[k] = height[k]
  BY <1>1 DEF Moves
<1>4. ASSUME hop'[r] # NoRouter
      PROVE  hop'[r] # r /\ height[hop'[r]] < height'[r]
  <2>1. hop'[r] \in Nbr(r) /\ Height(disk'[hop'[r]].src) < Height(disk'[r].src)
    BY <1>1, <1>4, <1>d DEF Forward, Downhill
  <2>2. hop'[r] \in Routers /\ hop'[r] # r
    BY <2>1, Neighbours
  <2>3. disk'[hop'[r]] = disk[hop'[r]]
    BY <2>2 DEF Moves
  <2> QED BY <1>1, <2>1, <2>2, <2>3
<1>5. hop'[r] # r
  BY <1>4, NoRouterAssumption
<1>6. height'[r] <= height[r] \/ \A k \in Routers : hop[k] # r
  <2>1. CASE Height(disk'[r].src) <= Height(disk[r].src)
    BY <1>1, <2>1
  <2>2. CASE Alone(r)
    <3>1. ASSUME NEW k \in Routers, hop[k] = r PROVE FALSE
      <4>1. Forward(k) = r /\ Forward(k) # NoRouter
        BY <1>1, <3>1, NoRouterAssumption
      <4>2. r \in Nbr(k) /\ eng[k].cand[r] # NoCand
        BY <4>1, Descent
      <4>3. k \in Nbr(r)
        BY <4>2, Neighbours
      <4> QED BY <2>2, <4>2, <4>3 DEF Alone
    <3> QED BY <3>1
  <2> QED BY <2>1, <2>2 DEF Moves
<1> QED BY <1>2, <1>3, <1>4, <1>5, <1>6 DEF LF!Next, LF!Move

LEMMA LFStep == IInv /\ [Next]_vars => [LF!Next]_(LF!vars)
<1> SUFFICES ASSUME IInv, [Next]_vars PROVE LF!Next \/ UNCHANGED LF!vars
  OBVIOUS
<1>1. IInv'
  BY NextInv
<1>2. CASE eng' = eng /\ disk' = disk
  BY <1>2 DEF LF!vars, Forward
<1>3. CASE \E r \in Routers : Moves(r)
  BY <1>1, <1>3, LFMove
<1>4. (eng' = eng /\ disk' = disk) \/ \E r \in Routers : Moves(r)
  BY StepInv DEF vars
<1> QED BY <1>2, <1>3, <1>4

\* The engine and the transaction around it (feasible, selectRoutes, advertise,
\* the checkpoint saved before anything is sent, ExpireSource only when nothing
\* learnt from the router is left) implement LoopFree step by step.
THEOREM MeshForwardsDownhill == Spec => ForwardsDownhill
BY Invariance, LFInit, LFStep, PTL DEF Spec, ForwardsDownhill, LF!Spec

-----------------------------------------------------------------------------
(* Forwarding that goes downhill never goes in a circle: the heights are   *)
(* natural numbers, so every set of routers has a lowest one, and that one *)
(* forwards out of the set.                                                *)

\* Next hops h that go down the heights g.
Falls(h, g) ==
  /\ h \in [Routers -> Routers \cup {NoRouter}] /\ g \in [Routers -> Nat]
  /\ \A r \in Routers : h[r] # NoRouter => g[h[r]] < g[r]

\* Every set of routers has one that no other of the set is below.
LEMMA LowestExists ==
  ASSUME NEW g \in [Routers -> Nat], NEW S \in SUBSET Routers, S # {}
  PROVE  \E r \in S : \A k \in S : ~(g[k] < g[r])
<1> DEFINE H == {g[r] : r \in S}
<1>1. H \in SUBSET Nat /\ H # {}
  OBVIOUS
<1>2. PICK x \in H : \A y \in H : ~(<<y, x>> \in OpToRel(<, Nat))
  BY <1>1, NatLessThanWellFounded, WFMin
<1>3. PICK r \in S : x = g[r]
  OBVIOUS
<1>4. ASSUME NEW k \in S PROVE ~(g[k] < g[r])
  <2>1. g[k] \in Nat /\ g[r] \in Nat /\ g[k] \in H
    OBVIOUS
  <2>2. ~(<<g[k], g[r]>> \in OpToRel(<, Nat))
    BY <1>2, <1>3, <2>1
  <2> QED BY <2>1, <2>2 DEF OpToRel
<1> QED BY <1>4

LEMMA FallsNoLoop ==
  ASSUME NEW h, NEW g, Falls(h, g), NEW S \in SUBSET Routers, S # {}
  PROVE  \E r \in S : h[r] \notin S
<1>1. PICK r \in S : \A k \in S : ~(g[k] < g[r])
  BY LowestExists DEF Falls
<1>2. CASE h[r] = NoRouter
  BY <1>2, NoRouterAssumption
<1>3. CASE h[r] # NoRouter
  BY <1>1, <1>3 DEF Falls
<1> QED BY <1>2, <1>3

\* A router that moves chooses a lower one, and goes up only when nobody is above it.
LEMMA MoveFalls ==
  ASSUME NEW h, NEW g, Falls(h, g), NEW r \in Routers,
         NEW i \in [Routers -> Routers \cup {NoRouter}], NEW f \in [Routers -> Nat],
         \A k \in Routers \ {r} : i[k] = h[k] /\ f[k] = g[k],
         i[r] # r, i[r] # NoRouter => g[i[r]] < f[r],
         f[r] <= g[r] \/ \A k \in Routers : h[k] # r
  PROVE  Falls(i, f)
<1> SUFFICES ASSUME NEW k \in Routers, i[k] # NoRouter PROVE f[i[k]] < f[k]
  BY DEF Falls
<1>1. i[k] \in Routers
  OBVIOUS
<1>2. CASE k = r
  \* The new next hop of r is another router, whose height has not moved.
  BY <1>1, <1>2
<1>3. CASE k # r
  <2>1. i[k] = h[k] /\ f[k] = g[k] /\ g[h[k]] < g[k]
    BY <1>3 DEF Falls
  <2>2. CASE h[k] # r
    BY <1>1, <2>1, <2>2
  <2>3. CASE h[k] = r
    \* k depends on r, so r has not gone up.
    <3>1. f[r] <= g[r]
      BY <2>3
    <3>2. f[r] \in Nat /\ g[r] \in Nat /\ g[k] \in Nat
      BY DEF Falls
    <3> QED BY <2>1, <2>3, <3>1, <3>2
  <2> QED BY <2>2, <2>3
<1> QED BY <1>2, <1>3

\* The two as the abstract specification sees them.
NextHops == [r \in Routers |-> Forward(r)]
Heights == [r \in Routers |-> Height(disk[r].src)]

\* What implementing LoopFree buys: in no state reachable under the abstract rule
\* does any set of routers, however many there are, forward in a circle.
THEOREM DownhillIsLoopFree == LF!Spec => []LF!NoLoop
<1>1. LF!Init => Falls(NextHops, Heights)
  <2> SUFFICES ASSUME LF!Init PROVE Falls(NextHops, Heights)
    OBVIOUS
  <2>1. NextHops = [r \in Routers |-> NoRouter] /\ Heights = [r \in Routers |-> Top]
    BY DEF LF!Init, NextHops, Heights
  <2>2. MaxBumps \in Nat
    BY MeshAssumption
  <2>3. Top \in Nat
    BY <2>2, Space DEF Top
  <2> QED BY <2>1, <2>3 DEF Falls
<1>2. Falls(NextHops, Heights) /\ [LF!Next]_(LF!vars) => Falls(NextHops, Heights)'
  <2> SUFFICES ASSUME Falls(NextHops, Heights), LF!Next \/ UNCHANGED LF!vars PROVE Falls(NextHops', Heights')
    OBVIOUS
  <2>1. CASE UNCHANGED LF!vars
    <3>1. NextHops' = NextHops /\ Heights' = Heights
      BY <2>1 DEF LF!vars, NextHops, Heights
    <3> QED BY <3>1
  <2>2. CASE LF!Next
    <3>1. PICK h, g, i, f : h = NextHops /\ g = Heights /\ i = NextHops' /\ f = Heights'
      OBVIOUS
    <3>2. /\ i \in [Routers -> Routers \cup {NoRouter}] /\ f \in [Routers -> Nat]
          /\ \E r \in Routers :
               /\ \A k \in Routers \ {r} : i[k] = h[k] /\ f[k] = g[k]
               /\ i[r] # r
               /\ i[r] # NoRouter => g[i[r]] < f[r]
               /\ f[r] <= g[r] \/ \A k \in Routers : h[k] # r
      BY <2>2, <3>1 DEF LF!Next, LF!Move, NextHops, Heights
    <3>3. Falls(h, g)
      BY <3>1
    <3>4. Falls(i, f)
      BY <3>2, <3>3, MoveFalls
    <3> QED BY <3>1, <3>4
  <2> QED BY <2>1, <2>2
<1>3. Falls(NextHops, Heights) => LF!NoLoop
  <2> SUFFICES ASSUME Falls(NextHops, Heights), NEW S \in SUBSET Routers, S # {} PROVE \E r \in S : NextHops[r] \notin S
    BY DEF LF!NoLoop, NextHops
  <2> QED BY FallsNoLoop
<1> QED BY <1>1, <1>2, <1>3, PTL DEF LF!Spec

\* Whatever mixture of stale candidates, retractions, requests and restarts the
\* engines select from, no set of routers forwards the prefix in a circle.
THEOREM LoopFreedom == Spec => []NoLoop
<1>1. LF!NoLoop => NoLoop
  <2> SUFFICES ASSUME LF!NoLoop, NEW S \in SUBSET Routers, S # {} PROVE \E r \in S : Forward(r) \notin S
    BY DEF NoLoop
  <2>1. PICK r \in S : [k \in Routers |-> Forward(k)][r] \notin S
    BY DEF LF!NoLoop
  <2> QED BY <2>1
<1> QED BY <1>1, MeshForwardsDownhill, DownhillIsLoopFree, PTL DEF ForwardsDownhill
=============================================================================
