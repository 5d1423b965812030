--------------------------- MODULE GossipPoolProofs ---------------------------
(***************************************************************************)
(* Proofs about the pool of announcement downloads, for any number of      *)
(* sessions, announcements and chunks and any limits: every claim is one   *)
(* its peer is working on, upload slots are neither lost nor freed twice,  *)
(* and a body under verification keeps its claim.                          *)
(***************************************************************************)
EXTENDS GossipPool, WellFoundedInduction, FiniteSetTheorems, TLAPS

-----------------------------------------------------------------------------
(* Recursion, and finite sets.                                             *)

\* Induction over the naturals, for a set.
LEMMA Induction ==
  ASSUME NEW S, 0 \in S, \A n \in Nat : n \in S => n + 1 \in S
  PROVE  Nat \subseteq S
<1> SUFFICES ASSUME ~(Nat \subseteq S) PROVE FALSE
  OBVIOUS
<1> DEFINE T == Nat \ S
<1>1. T \subseteq Nat /\ T # {}
  OBVIOUS
<1>2. PICK x \in T : \A y \in T : ~(<<y, x>> \in OpToRel(<, Nat))
  BY <1>1, NatLessThanWellFounded, WFMin
<1>3. x \in Nat /\ x # 0 /\ x - 1 \in Nat
  OBVIOUS
<1>4. CASE x - 1 \in S
  <2>1. (x - 1) + 1 = x
    BY <1>3
  <2> QED BY <1>3, <1>4, <2>1
<1>5. CASE x - 1 \notin S
  <2>1. <<x - 1, x>> \in OpToRel(<, Nat)
    BY <1>3 DEF OpToRel
  <2> QED BY <1>2, <1>3, <1>5, <2>1
<1> QED BY <1>4, <1>5

\* The path h starts at b and goes on by D, n times.
Walk(h, b, D, n) == h = [k \in 0 .. n |-> IF k = 0 THEN b ELSE D[<<k, h[k - 1]>>]]

StepOn(S, b, D) == b \in S /\ D \in [Nat \X S -> S]

\* Such a path exists, and stays in S.
LEMMA WalkExists ==
  ASSUME NEW S, NEW b, NEW D, StepOn(S, b, D), NEW n \in Nat
  PROVE  \E h : Walk(h, b, D, n)
<1> DEFINE T == {k \in Nat : \E h \in [0 .. k -> S] : Walk(h, b, D, k)}
<1>1. 0 \in T
  <2>1. Walk([k \in 0 .. 0 |-> b], b, D, 0)
    BY DEF Walk
  <2>2. [k \in 0 .. 0 |-> b] \in [0 .. 0 -> S]
    BY DEF StepOn
  <2> QED BY <2>1, <2>2
<1>2. ASSUME NEW k \in Nat, k \in T PROVE k + 1 \in T
  <2>1. PICK h \in [0 .. k -> S] : Walk(h, b, D, k)
    BY <1>2
  <2> DEFINE g == [i \in 0 .. k + 1 |-> IF i = k + 1 THEN D[<<k + 1, h[k]>>] ELSE h[i]]
  <2>2. g \in [0 .. k + 1 -> S]
    <3>1. D[<<k + 1, h[k]>>] \in S
      BY <2>1 DEF StepOn
    <3> QED BY <2>1, <3>1
  <2>3. ASSUME NEW i \in 0 .. k + 1 PROVE g[i] = IF i = 0 THEN b ELSE D[<<i, g[i - 1]>>]
    <3>1. CASE i = k + 1
      <4>1. i # 0 /\ i - 1 = k /\ k \in 0 .. k + 1 /\ k # k + 1
        BY <3>1
      <4>2. g[i - 1] = h[k]
        BY <4>1
      <4> QED BY <3>1, <4>1, <4>2
    <3>2. CASE i # k + 1 /\ i = 0
      BY <2>1, <3>2 DEF Walk
    <3>3. CASE i # k + 1 /\ i # 0
      <4>1. i \in 0 .. k /\ i - 1 \in 0 .. k /\ i - 1 # k + 1 /\ i - 1 \in 0 .. k + 1
        BY <3>3
      <4>2. g[i] = h[i] /\ g[i - 1] = h[i - 1]
        BY <3>3, <4>1
      <4>3. h[i] = D[<<i, h[i - 1]>>]
        BY <2>1, <3>3, <4>1 DEF Walk
      <4> QED BY <3>3, <4>2, <4>3
    <3> QED BY <3>1, <3>2, <3>3
  <2>4. Walk(g, b, D, k + 1)
    BY <2>2, <2>3 DEF Walk
  <2> HIDE DEF g
  <2> QED BY <2>2, <2>4
<1>3. Nat \subseteq T
  <2> HIDE DEF T
  <2> QED BY <1>1, <1>2, Induction
<1> QED BY <1>3

\* What the steps of a path keep holds along it.
LEMMA PathStays ==
  ASSUME NEW S, NEW n \in Nat, NEW h, h[0] \in S,
         \A k \in 0 .. n - 1 : h[k] \in S => h[k + 1] \in S
  PROVE  \A k \in 0 .. n : h[k] \in S
<1> DEFINE T == {k \in Nat : k <= n => h[k] \in S}
<1>1. 0 \in T
  OBVIOUS
<1>2. ASSUME NEW k \in Nat, k \in T PROVE k + 1 \in T
  <2> SUFFICES ASSUME k + 1 <= n PROVE h[k + 1] \in S
    OBVIOUS
  <2>1. h[k] \in S /\ k \in 0 .. n - 1
    BY <1>2
  <2> QED BY <2>1
<1>3. Nat \subseteq T
  <2> HIDE DEF T
  <2> QED BY <1>1, <1>2, Induction
<1> QED BY <1>3

LEMMA WalkStays ==
  ASSUME NEW S, NEW b, NEW D, StepOn(S, b, D), NEW n \in Nat, NEW h, Walk(h, b, D, n)
  PROVE  \A k \in 0 .. n : h[k] \in S
<1>1. h[0] \in S
  BY DEF Walk, StepOn
<1>2. ASSUME NEW k \in 0 .. n - 1, h[k] \in S PROVE h[k + 1] \in S
  <2>1. k + 1 \in 0 .. n /\ k + 1 # 0 /\ (k + 1) - 1 = k /\ k + 1 \in Nat
    OBVIOUS
  <2>2. h[k + 1] = D[<<k + 1, h[k]>>]
    BY <2>1 DEF Walk
  <2>3. D[<<k + 1, h[k]>>] \in S
    BY <1>2, <2>1 DEF StepOn
  <2> QED BY <2>2, <2>3
<1> QED BY <1>1, <1>2, PathStays

-----------------------------------------------------------------------------
(* Uploads.                                                                *)

Upload == [id : Ids, request : Uploads, left : 1 .. Chunks]

Lines == Seq(Upload)

Line == [out : Lines, serving : Int, sent : Nat]

LEMMA Limits ==
  /\ Chunks \in Nat /\ Chunks >= 1 /\ PollChunks \in Nat /\ PollBudget \in Nat /\ MaxPerPeer \in Nat
  /\ MaxInFlight \in Nat /\ Len(IDs) \in Nat /\ DOMAIN IDs = 1 .. Len(IDs)
  /\ IsFiniteSet(Sessions) /\ None \notin Sessions
BY PoolAssumption

\* A chunk of an upload, or its last one, which frees the slot.
LEMMA ChunkLine ==
  ASSUME NEW u \in Line
  PROVE  chunk(u) \in Line /\ chunk(u).serving - Len(chunk(u).out) = u.serving - Len(u.out)
<1>1. u.out \in Seq(Upload) /\ u.serving \in Int /\ u.sent \in Nat
  BY DEF Line, Lines
<1>2. CASE u.out = <<>>
  BY <1>2 DEF chunk
<1>3. CASE u.out # <<>>
  <2> DEFINE x == Head(u.out)
  <2>1. x \in Upload /\ Tail(u.out) \in Seq(Upload) /\ Len(Tail(u.out)) = Len(u.out) - 1 /\ Len(u.out) \in Nat
    BY <1>1, <1>3
  <2>2. x.left \in 1 .. Chunks
    BY <2>1 DEF Upload
  <2>3. CASE x.left = 1
    <3>1. chunk(u) = [out |-> Tail(u.out), serving |-> u.serving - 1, sent |-> u.sent + 1]
      BY <1>3, <2>3 DEF chunk
    <3> HIDE DEF x
    <3>2. PICK w : w = Tail(u.out)
      OBVIOUS
    <3>3. chunk(u) = [out |-> w, serving |-> u.serving - 1, sent |-> u.sent + 1] /\ w \in Lines
      BY <2>1, <3>1, <3>2 DEF Lines
    <3>4. chunk(u) \in Line
      BY <1>1, <3>3 DEF Line
    <3>5. chunk(u).out = w /\ chunk(u).serving = u.serving - 1 /\ Len(w) = Len(u.out) - 1
      BY <2>1, <3>2, <3>3
    <3>6. chunk(u).serving - Len(chunk(u).out) = u.serving - Len(u.out)
      BY <1>1, <2>1, <3>5
    <3> QED BY <3>4, <3>6
  <2>4. CASE x.left # 1
    <3> DEFINE y == [x EXCEPT !.left = @ - 1]
    <3>1. y \in Upload
      <4>1. x.left - 1 \in 1 .. Chunks
        BY <2>2, <2>4, Limits
      <4> HIDE DEF x
      <4> QED BY <2>1, <4>1 DEF Upload
    <3>2. chunk(u) = [u EXCEPT !.out = Append(Tail(@), y), !.sent = @ + 1]
      BY <1>3, <2>4 DEF chunk
    <3> HIDE DEF x, y
    <3>3. Append(Tail(u.out), y) \in Seq(Upload) /\ Len(Append(Tail(u.out), y)) = Len(u.out)
      BY <2>1, <3>1
    <3>4. PICK w : w = Append(Tail(u.out), y)
      OBVIOUS
    <3>5. chunk(u) = [u EXCEPT !.out = w, !.sent = @ + 1] /\ w \in Seq(Upload) /\ Len(w) = Len(u.out)
      BY <3>2, <3>3, <3>4
    <3>6. chunk(u).serving = u.serving /\ chunk(u).out = w
      BY <3>5 DEF Line
    <3>7. w \in Lines
      BY <3>5 DEF Lines
    <3>8. chunk(u) \in Line
      <4>1. ASSUME NEW v \in Lines, NEW q \in Nat PROVE [u EXCEPT !.out = v, !.sent = q] \in Line
        BY DEF Line
      <4>2. PICK q : q = u.sent + 1
        OBVIOUS
      <4>3. q \in Nat
        BY <1>1, <4>2
      <4>4. chunk(u) = [u EXCEPT !.out = w, !.sent = q]
        BY <3>5, <4>2
      <4> QED BY <3>7, <4>1, <4>3, <4>4, Zenon
    <3> QED BY <3>5, <3>6, <3>8
  <2> QED BY <2>3, <2>4
<1> QED BY <1>2, <1>3

\* The chunks of a poll.
LEMMA SendingLine ==
  ASSUME NEW s, out[s] \in Seq(Upload), serving \in Int, NEW k \in 0 .. PollChunks
  PROVE  /\ Sending(s)[k] \in Line
         /\ Sending(s)[k].serving - Len(Sending(s)[k].out) = serving - Len(out[s])
<1> DEFINE b == [out |-> out[s], serving |-> serving, sent |-> 0]
           S == {u \in Line : u.serving - Len(u.out) = serving - Len(out[s])}
           D == [p \in Nat \X S |-> chunk(p[2])]
           Body(u) == [i \in 0 .. PollChunks |-> IF i = 0 THEN b ELSE chunk(u[i - 1])]
<1>1. b \in S
  BY DEF Line, Lines
<1>2. ASSUME NEW u \in S PROVE chunk(u) \in S
  BY ChunkLine
<1>3. StepOn(S, b, D)
  BY <1>1, <1>2 DEF StepOn
<1>4. \E h : h = Body(h)
  <2>1. PICK h : Walk(h, b, D, PollChunks)
    <3> HIDE DEF S, b, D
    <3> QED BY <1>3, WalkExists, Limits
  <2>2. \A i \in 0 .. PollChunks : h[i] \in S
    <3> HIDE DEF S, b, D
    <3> QED BY <1>3, <2>1, WalkStays, Limits
  <2>3. ASSUME NEW i \in 0 .. PollChunks, i # 0 PROVE D[<<i, h[i - 1]>>] = chunk(h[i - 1])
    <3>1. i - 1 \in 0 .. PollChunks /\ i \in Nat
      BY <2>3, Limits
    <3>2. h[i - 1] \in S
      BY <2>2, <3>1
    <3> HIDE DEF S
    <3> QED BY <3>1, <3>2
  <2> HIDE DEF S, b, D
  <2>4. h = [i \in 0 .. PollChunks |-> IF i = 0 THEN b ELSE D[<<i, h[i - 1]>>]]
    BY <2>1 DEF Walk
  <2>5. h = Body(h)
    BY <2>3, <2>4
  <2> QED BY <2>5
<1>5. Sending(s) = Body(Sending(s))
  BY <1>4 DEF Sending
<1> HIDE DEF b, D
<1>6. Sending(s)[0] \in S
  BY <1>1, <1>5, Limits
<1>7. ASSUME NEW i \in 0 .. PollChunks - 1, Sending(s)[i] \in S PROVE Sending(s)[i + 1] \in S
  <2>1. i + 1 \in 0 .. PollChunks /\ i + 1 # 0 /\ (i + 1) - 1 = i
    BY Limits
  <2>2. Sending(s)[i + 1] = chunk(Sending(s)[i])
    BY <1>5, <2>1
  <2> HIDE DEF S
  <2> QED BY <1>2, <1>7, <2>2
<1>8. Sending(s)[k] \in S
  <2> HIDE DEF S
  <2> QED BY <1>6, <1>7, PathStays, Limits
<1> QED BY <1>8

-----------------------------------------------------------------------------
(* Fetches.                                                                *)

Anyone == Sessions \cup {None}

Fetches == [owner : Anyone, request : Nat, suppliers : SUBSET Sessions, got : 0 .. Chunks,
            received : BOOLEAN, avoid : Anyone, idle : BOOLEAN]

Asks == [id : Ids, request : Nat, next : 0 .. Chunks - 1]

Ask(id, f) == [id |-> id, request |-> f.request, next |-> f.got]

\* A fetch that nobody owns is empty; one that is owned is incomplete and asked for, or
\* complete and under verification.  A are the requests of the peers, V the bodies
\* under verification, O the open sessions.
Sound(f) ==
  /\ f \in Fetches
  /\ f.owner = None => f.got = 0 /\ ~f.received
  /\ ~f.received => f.got < Chunks

Backed(id, f, A, V, O) ==
  /\ f.suppliers \subseteq O
  /\ f.owner # None => /\ f.owner \in O
                       /\ ~f.received => Ask(id, f) \in A[f.owner]
                       /\ f.received => id \in V[f.owner]

Good(id, f, A, V, O) == Sound(f) /\ Backed(id, f, A, V, O)

LEMMA NoFetchGood ==
  ASSUME NEW id, NEW A, NEW V, NEW O
  PROVE  Good(id, NoFetch, A, V, O) /\ NoFetch.owner = None /\ NoFetch.suppliers = {}
<1>1. 0 \in 0 .. Chunks /\ 0 < Chunks
  BY Limits
<1>2. NoFetch \in Fetches
  BY <1>1 DEF NoFetch, Fetches, Anyone
<1> QED BY <1>1, <1>2 DEF Good, Sound, Backed, NoFetch

\* Suppliers come and go.
LEMMA SuppliedGood ==
  ASSUME NEW id, NEW f, NEW A, NEW V, NEW O, Good(id, f, A, V, O), NEW S \in SUBSET Sessions, S \subseteq O
  PROVE  LET g == [f EXCEPT !.suppliers = S] IN
         /\ Good(id, g, A, V, O) /\ g.owner = f.owner /\ g.received = f.received /\ g.suppliers = S
         /\ g.idle = f.idle /\ g.request = f.request /\ g.got = f.got
<1> DEFINE g == [f EXCEPT !.suppliers = S]
<1>1. f \in Fetches
  BY DEF Good, Sound
<1>2. /\ g \in Fetches /\ g.owner = f.owner /\ g.received = f.received /\ g.suppliers = S
      /\ g.request = f.request /\ g.got = f.got /\ g.idle = f.idle
  BY <1>1 DEF Fetches
<1> HIDE DEF g
<1>3. Good(id, g, A, V, O)
  BY <1>2 DEF Good, Sound, Backed, Ask
<1> QED BY <1>2, <1>3 DEF g

\* A claim that is taken away leaves nothing; it was for an incomplete body, or its
\* end is recorded with it.
LEMMA ReleasedGood ==
  ASSUME NEW id, NEW f, NEW A, NEW V, NEW O, Sound(f), f.suppliers \subseteq O, NEW S \in SUBSET Sessions, S \subseteq O,
         NEW a \in Anyone
  PROVE  /\ ~f.received => Good(id, Released(f), A, V, O)
         /\ ~f.received => Good(id, [Released(f) EXCEPT !.avoid = a], A, V, O)
         /\ ~f.received => Good(id, [Released(f) EXCEPT !.suppliers = S], A, V, O)
         /\ Good(id, [Released(f) EXCEPT !.received = FALSE], A, V, O)
         /\ Good(id, [Released(f) EXCEPT !.suppliers = S, !.received = FALSE], A, V, O)
         /\ Released(f).suppliers = f.suppliers
         /\ [Released(f) EXCEPT !.avoid = a].suppliers = f.suppliers
         /\ [Released(f) EXCEPT !.received = FALSE].suppliers = f.suppliers
<1>1. f \in Fetches /\ 0 \in 0 .. Chunks /\ 0 < Chunks /\ None \in Anyone
  BY Limits DEF Sound, Anyone
<1>2. /\ Released(f) \in Fetches /\ Released(f).owner = None /\ Released(f).got = 0
      /\ Released(f).received = f.received /\ Released(f).suppliers = f.suppliers
  BY <1>1 DEF Released, Fetches
<1> DEFINE F(g) == g \in Fetches /\ g.owner = None /\ g.got = 0 /\ ~g.received /\ g.suppliers \subseteq O
<1>3. ASSUME NEW g, F(g) PROVE Good(id, g, A, V, O)
  BY <1>1, <1>3 DEF Good, Sound, Backed
<1>4. ASSUME NEW r \in Fetches, r.owner = None, r.got = 0, r.suppliers \subseteq O
      PROVE  /\ ~r.received => F(r) /\ F([r EXCEPT !.avoid = a]) /\ F([r EXCEPT !.suppliers = S])
             /\ F([r EXCEPT !.received = FALSE]) /\ F([r EXCEPT !.suppliers = S, !.received = FALSE])
             /\ [r EXCEPT !.avoid = a].suppliers = r.suppliers
             /\ [r EXCEPT !.received = FALSE].suppliers = r.suppliers
  BY <1>4 DEF Fetches
<1> HIDE DEF F
<1> QED BY <1>2, <1>3, <1>4

\* The prune that every method begins with.
LEMMA PrunedGood ==
  ASSUME NEW id \in Ids, NEW A, NEW V, NEW O, Good(id, pending[id], A, V, O)
  PROVE  /\ Good(id, prunedFetch(id), A, V, O)
         /\ prunedFetch(id).suppliers \subseteq pending[id].suppliers
         /\ prunedFetch(id).owner \in {pending[id].owner, None}
<1> DEFINE f == pending[id]
           live == {s \in f.suppliers : seen[s][id] # "old"}
           kept == [f EXCEPT !.suppliers = live]
<1>1. f \in Fetches /\ live \in SUBSET Sessions /\ live \subseteq f.suppliers /\ f.suppliers \subseteq O /\ f.owner \in Anyone
  BY DEF Good, Sound, Backed, Fetches
<1>2. Good(id, kept, A, V, O) /\ kept.owner = f.owner /\ kept.received = f.received /\ kept.suppliers = live
  <2>1. live \subseteq O
    BY <1>1
  <2> HIDE DEF live, f
  <2> QED BY <1>1, <2>1, SuppliedGood DEF f
<1>3. prunedFetch(id) = IF live = {} THEN NoFetch
                        ELSE IF f.owner # None /\ ~f.received /\ f.idle
                             THEN [Released(kept) EXCEPT !.avoid = f.owner] ELSE kept
  BY DEF prunedFetch
<1> HIDE DEF live, kept, f
<1>4. CASE live = {}
  BY <1>3, <1>4, NoFetchGood DEF f
<1>5. CASE live # {} /\ f.owner # None /\ ~f.received /\ f.idle
  <2>1. prunedFetch(id) = [Released(kept) EXCEPT !.avoid = f.owner] /\ ~kept.received /\ Sound(kept)
    BY <1>2, <1>3, <1>5 DEF Good
  <2>2. /\ Good(id, [Released(kept) EXCEPT !.avoid = f.owner], A, V, O)
        /\ [Released(kept) EXCEPT !.avoid = f.owner].suppliers = live
    BY <1>1, <1>2, <2>1, ReleasedGood
  <2>3. [Released(kept) EXCEPT !.avoid = f.owner].owner = None
    <3>1. kept \in Fetches /\ None \in Anyone /\ 0 \in 0 .. Chunks
      BY <2>1, Limits DEF Sound, Anyone
    <3> QED BY <3>1 DEF Released, Fetches
  <2> QED BY <1>1, <2>1, <2>2, <2>3 DEF f
<1>6. CASE live # {} /\ ~(f.owner # None /\ ~f.received /\ f.idle)
  <2>1. prunedFetch(id) = kept
    BY <1>3, <1>6
  <2> QED BY <1>1, <1>2, <2>1 DEF f
<1> QED BY <1>4, <1>5, <1>6

-----------------------------------------------------------------------------
(* Claims.                                                                 *)

\* A peer has at most one request of a number in hand for an announcement.
Unique(S) == \A t, u \in S : t.id = u.id /\ t.request = u.request => t = u

AskedOK(S) == S \subseteq Asks /\ IsFiniteSet(S) /\ Unique(S)

\* The number of a new request is none of those.
LEMMA NewRequestFresh ==
  ASSUME NEW s, NEW id, AskedOK(asked[s])
  PROVE  NewRequest(s, id) \in Nat /\ \A t \in asked[s] : t.id = id => t.request # NewRequest(s, id)
<1> DEFINE T == {u \in asked[s] : u.id = id}
           used == {t.request : t \in T}
           n == Cardinality(used)
           R == {r \in 1 .. n + 1 : r \notin used}
<1>1. IsFiniteSet(T)
  BY FS_Subset DEF AskedOK
<1>2. IsFiniteSet(used) /\ n \in Nat
  <2> DEFINE h == [t \in T |-> t.request]
  <2>1. h \in Surjection(T, used)
    BY DEF Surjection
  <2> HIDE DEF h, T, used
  <2> QED BY <1>1, <2>1, FS_Surjection, FS_CardinalityType DEF n
<1>3. R # {}
  <2> SUFFICES ASSUME 1 .. n + 1 \in SUBSET used PROVE FALSE
    OBVIOUS
  <2> HIDE DEF used
  <2>1. Cardinality(1 .. n + 1) = n + 1
    <3> HIDE DEF n
    <3> QED BY <1>2, FS_Interval
  <2>2. Cardinality(1 .. n + 1) <= n
    BY <1>2, FS_Subset
  <2> HIDE DEF n
  <2> QED BY <1>2, <2>1, <2>2
<1> HIDE DEF n, used
<1>4. PICK r \in R : \A y \in R : ~(<<y, r>> \in OpToRel(<, Nat))
  <2>1. R \subseteq Nat
    BY <1>2
  <2> HIDE DEF R
  <2> QED BY <1>3, <2>1, NatLessThanWellFounded, WFMin
<1>5. ASSUME NEW k \in 1 .. r - 1 PROVE k \in used
  <2>1. k \in Nat /\ r \in Nat /\ k < r /\ k \in 1 .. n + 1
    BY <1>2
  <2>2. <<k, r>> \in OpToRel(<, Nat)
    BY <2>1 DEF OpToRel
  <2> QED BY <1>4, <2>1, <2>2
<1>6. \E x \in 1 .. n + 1 : x \notin used /\ \A k \in 1 .. x - 1 : k \in used
  BY <1>4, <1>5
<1>7. NewRequest(s, id) = CHOOSE x \in 1 .. n + 1 : x \notin used /\ \A k \in 1 .. x - 1 : k \in used
  BY DEF NewRequest, n, used
<1>8. NewRequest(s, id) \in 1 .. n + 1 /\ NewRequest(s, id) \notin used
  BY <1>6, <1>7
<1> QED BY <1>2, <1>8 DEF used

Hints == {"none", "fresh", "old"}

Mems == [pending : [Ids -> Fetches], seen : [Ids -> Hints], unavailable : SUBSET Ids, want : SUBSET Asks]

\* What the peers are working on once the requests of m are out.
Asked(s, m) == [asked EXCEPT ![s] = @ \cup m.want]

MemGood(m, s) ==
  /\ m \in Mems
  /\ \A id \in Ids : Good(id, m.pending[id], Asked(s, m), verifying, Open)
  /\ \A w \in m.want : m.pending[w.id].owner # None
  /\ AskedOK(asked[s] \cup m.want)

\* More requests do no harm.
LEMMA GoodGrows ==
  ASSUME NEW id, NEW f, NEW A, NEW B, NEW V, NEW O, Good(id, f, A, V, O),
         f.owner # None => A[f.owner] \subseteq B[f.owner]
  PROVE  Good(id, f, B, V, O)
BY DEF Good, Backed

\* The session joins the suppliers of a fetch, if there is room.
joined(f, s) ==
  IF f # NoFetch /\ (s \in f.suppliers \/ Cardinality(f.suppliers) < MaxSuppliers)
  THEN [f EXCEPT !.suppliers = @ \cup {s}] ELSE f

LEMMA JoinedGood ==
  ASSUME NEW id, NEW f, NEW A, NEW V, NEW s \in Open, Good(id, f, A, V, Open)
  PROVE  /\ Good(id, joined(f, s), A, V, Open) /\ joined(f, s).owner = f.owner
         /\ joined(f, s).received = f.received /\ f.suppliers \subseteq joined(f, s).suppliers
         /\ joined(f, s).got = f.got
<1>1. f.suppliers \cup {s} \in SUBSET Sessions /\ f.suppliers \cup {s} \subseteq Open
  BY DEF Good, Sound, Backed, Fetches, Open
<1> HIDE DEF Open
<1> QED BY <1>1, SuppliedGood DEF joined

\* The fetch of a new claim.
Base(f, s) == IF f = NoFetch THEN [NoFetch EXCEPT !.suppliers = {s}] ELSE joined(f, s)

NewClaim(f, s, r) == [Base(f, s) EXCEPT !.owner = s, !.request = r, !.idle = FALSE]

LEMMA NewClaimGood ==
  ASSUME NEW id \in Ids, NEW f, NEW A, NEW V, NEW s \in Open, Good(id, f, A, V, Open), f.owner = None,
         NEW r \in Nat, NEW B, [id |-> id, request |-> r, next |-> 0] \in B[s]
  PROVE  /\ Good(id, NewClaim(f, s, r), B, V, Open) /\ NewClaim(f, s, r).owner = s
         /\ ~NewClaim(f, s, r).received
         /\ NewClaim(f, s, r).suppliers = Base(f, s).suppliers
<1>1. s \in Sessions /\ s # None
  BY Limits DEF Open
<1>2. Good(id, Base(f, s), A, V, Open) /\ Base(f, s).owner = None
  <2>1. {s} \in SUBSET Sessions /\ {s} \subseteq Open
    BY <1>1
  <2>2. Good(id, [NoFetch EXCEPT !.suppliers = {s}], A, V, Open) /\ [NoFetch EXCEPT !.suppliers = {s}].owner = None
    <3>1. Good(id, NoFetch, A, V, Open) /\ NoFetch.owner = None
      BY NoFetchGood
    <3>2. PICK S \in SUBSET Sessions : S = {s} /\ S \subseteq Open
      BY <2>1
    <3>3. PICK n : n = NoFetch
      OBVIOUS
    <3> HIDE DEF Open
    <3>4. Good(id, [n EXCEPT !.suppliers = S], A, V, Open) /\ [n EXCEPT !.suppliers = S].owner = n.owner
      <4>1. Good(id, n, A, V, Open)
        BY <3>1, <3>3
      <4> QED BY <3>2, <4>1, SuppliedGood
    <3> QED BY <3>1, <3>2, <3>3, <3>4
  <2>3. Good(id, joined(f, s), A, V, Open) /\ joined(f, s).owner = None
    BY JoinedGood
  <2> HIDE DEF Open
  <2> QED BY <2>2, <2>3 DEF Base
<1> DEFINE b == Base(f, s)
           c == NewClaim(f, s, r)
<1>3. b \in Fetches /\ b.got = 0 /\ ~b.received /\ b.suppliers \subseteq Open
  BY <1>2 DEF Good, Sound, Backed
<1>4. c = [b EXCEPT !.owner = s, !.request = r, !.idle = FALSE]
  BY DEF NewClaim
<1> HIDE DEF b, c
<1>5. /\ c \in Fetches /\ c.owner = s /\ c.request = r /\ c.got = 0 /\ ~c.received
      /\ c.suppliers = b.suppliers
  BY <1>1, <1>3, <1>4 DEF Fetches, Anyone
<1>6. Ask(id, c) \in B[s]
  BY <1>5 DEF Ask
<1>7. Good(id, c, B, V, Open)
  BY <1>1, <1>3, <1>5, <1>6, Limits DEF Good, Sound, Backed
<1> QED BY <1>5, <1>7 DEF b, c

\* A claim ends in one of four ways.
Forgets(m, id) == [m EXCEPT !.seen[id] = "none", !.unavailable = @ \ {id}]

Joins(m, s, id) == [m EXCEPT !.pending[id] = joined(m.pending[id], s)]

Takes(m, s, id) ==
  [m EXCEPT !.pending[id] = NewClaim(m.pending[id], s, NewRequest(s, id)),
            !.want = @ \cup {[id |-> id, request |-> NewRequest(s, id), next |-> 0]}]

LEMMA ClaimCases ==
  ASSUME NEW m, NEW s, NEW id
  PROVE  \/ objects[id].known /\ claim(m, s, id) = Forgets(m, id)
         \/ ~objects[id].known /\ id \in m.unavailable /\ claim(m, s, id) = m
         \/ ~objects[id].known /\ claim(m, s, id) = Joins(m, s, id)
         \/ ~objects[id].known /\ m.pending[id].owner = None /\ claim(m, s, id) = Takes(m, s, id)
BY DEF claim, joined, Base, NewClaim, Forgets, Joins, Takes

LEMMA ForgetsGood ==
  ASSUME NEW s, NEW id \in Ids, NEW m, MemGood(m, s)
  PROVE  MemGood(Forgets(m, id), s)
<1>1. /\ m \in Mems /\ m.want \in SUBSET Asks /\ m.pending \in [Ids -> Fetches]
      /\ m.seen \in [Ids -> Hints] /\ m.unavailable \in SUBSET Ids
  BY DEF MemGood, Mems
<1> DEFINE n == [m EXCEPT !.seen[id] = "none", !.unavailable = @ \ {id}]
<1>2. n \in Mems /\ n.pending = m.pending /\ n.want = m.want
  BY <1>1 DEF Mems, Hints
<1> HIDE DEF n
<1>3. MemGood(n, s)
  BY <1>2 DEF MemGood, Asked
<1> QED BY <1>3 DEF n, Forgets

LEMMA ClaimGood ==
  ASSUME NEW s \in Open, NEW id \in Ids, NEW m, MemGood(m, s), AskedOK(asked[s]), asked \in [Sessions -> SUBSET Asks]
  PROVE  MemGood(claim(m, s, id), s)
<1> DEFINE f == m.pending[id]
           r == NewRequest(s, id)
           w == [id |-> id, request |-> r, next |-> 0]
<1>1. /\ m \in Mems /\ f \in Fetches /\ m.want \in SUBSET Asks /\ m.pending \in [Ids -> Fetches]
      /\ m.seen \in [Ids -> Hints] /\ m.unavailable \in SUBSET Ids /\ s \in Sessions
  BY DEF MemGood, Mems, Open
<1>2. \A k \in Ids : Good(k, m.pending[k], Asked(s, m), verifying, Open)
  BY DEF MemGood
<1>3. CASE claim(m, s, id) = Forgets(m, id)
  BY <1>3, ForgetsGood
<1>4. CASE claim(m, s, id) = m
  BY <1>4
<1>5. CASE claim(m, s, id) = Joins(m, s, id)
  <2>1. /\ Good(id, joined(f, s), Asked(s, m), verifying, Open) /\ joined(f, s).owner = f.owner
        /\ joined(f, s) \in Fetches
    <3>1. Good(id, f, Asked(s, m), verifying, Open)
      BY <1>2
    <3> HIDE DEF f
    <3>2. /\ Good(id, joined(f, s), Asked(s, m), verifying, Open) /\ joined(f, s).owner = f.owner
      BY <3>1, JoinedGood
    <3> QED BY <3>2 DEF Good, Sound
  <2>2. PICK g : g = joined(f, s)
    OBVIOUS
  <2> DEFINE n == [m EXCEPT !.pending[id] = g]
  <2>3. n \in Mems /\ n.pending = [m.pending EXCEPT ![id] = g] /\ n.want = m.want
    BY <1>1, <2>1, <2>2 DEF Mems
  <2> HIDE DEF n
  <2>4. \A k \in Ids : n.pending[k] = IF k = id THEN g ELSE m.pending[k]
    BY <1>1, <2>3
  <2>5. \A k \in Ids : Good(k, n.pending[k], Asked(s, n), verifying, Open)
    BY <1>2, <2>1, <2>2, <2>3, <2>4 DEF Asked
  <2>6. \A x \in n.want : n.pending[x.id].owner # None
    <3> SUFFICES ASSUME NEW x \in m.want PROVE n.pending[x.id].owner # None
      BY <2>3
    <3>1. m.pending[x.id].owner # None /\ x.id \in Ids
      BY <1>1 DEF MemGood, Asks
    <3> QED BY <2>1, <2>2, <2>4, <3>1
  <2>7. MemGood(n, s)
    BY <2>3, <2>5, <2>6 DEF MemGood
  <2> QED BY <1>5, <2>2, <2>7 DEF n, Joins
<1>6. CASE m.pending[id].owner = None /\ claim(m, s, id) = Takes(m, s, id)
  <2>1. r \in Nat /\ \A t \in asked[s] : t.id = id => t.request # r
    BY NewRequestFresh
  <2>2. w \in Asks
    <3>1. 0 \in 0 .. Chunks - 1
      BY Limits
    <3> HIDE DEF r
    <3> QED BY <2>1, <3>1 DEF Asks
  <2> HIDE DEF r
  <2>3. PICK B : B = [asked EXCEPT ![s] = @ \cup (m.want \cup {w})]
    OBVIOUS
  <2>4. /\ \A k \in Anyone \ {None} : Asked(s, m)[k] \subseteq B[k]
        /\ w \in B[s]
    BY <1>1, <2>3 DEF Asked, Anyone
  <2>5. /\ Good(id, NewClaim(f, s, r), B, verifying, Open) /\ NewClaim(f, s, r).owner = s
        /\ NewClaim(f, s, r) \in Fetches
    <3>1. Good(id, f, Asked(s, m), verifying, Open) /\ f.owner = None
      BY <1>2, <1>6
    <3> HIDE DEF f
    <3>2. Good(id, NewClaim(f, s, r), B, verifying, Open) /\ NewClaim(f, s, r).owner = s
      BY <2>1, <2>4, <3>1, NewClaimGood
    <3> QED BY <3>2 DEF Good, Sound
  <2>6. PICK g : g = NewClaim(f, s, r)
    OBVIOUS
  <2> DEFINE n == [m EXCEPT !.pending[id] = g, !.want = @ \cup {w}]
  <2>7. n \in Mems /\ n.pending = [m.pending EXCEPT ![id] = g] /\ n.want = m.want \cup {w}
    <3> HIDE DEF w
    <3>1. PICK W \in SUBSET Asks : W = m.want \cup {w}
      BY <1>1, <2>2
    <3>2. n = [m EXCEPT !.pending = [@ EXCEPT ![id] = g], !.want = W]
      BY <1>1, <3>1 DEF Mems
    <3>3. [m.pending EXCEPT ![id] = g] \in [Ids -> Fetches]
      BY <1>1, <2>5, <2>6
    <3> HIDE DEF n
    <3> QED BY <1>1, <3>1, <3>2, <3>3 DEF Mems
  <2>8. claim(m, s, id) = n
    BY <1>6, <2>6 DEF Takes, r
  <2> HIDE DEF n
  <2>9. \A k \in Ids : n.pending[k] = IF k = id THEN g ELSE m.pending[k]
    BY <1>1, <2>7
  <2>10. Asked(s, n) = B
    BY <2>3, <2>7 DEF Asked
  <2>11. \A k \in Ids : Good(k, n.pending[k], Asked(s, n), verifying, Open)
    <3> SUFFICES ASSUME NEW k \in Ids PROVE Good(k, n.pending[k], B, verifying, Open)
      BY <2>10
    <3>1. CASE k = id
      BY <2>5, <2>6, <2>9, <3>1
    <3>2. CASE k # id
      <4>1. PICK h : h = m.pending[k]
        OBVIOUS
      <4>2. Good(k, h, Asked(s, m), verifying, Open)
        BY <1>2, <4>1
      <4>3. h.owner # None => Asked(s, m)[h.owner] \subseteq B[h.owner]
        <5>1. h.owner \in Anyone
          BY <4>2 DEF Good, Sound, Fetches
        <5> QED BY <2>4, <5>1
      <4>4. Good(k, h, B, verifying, Open)
        BY <4>2, <4>3, GoodGrows
      <4> QED BY <2>9, <3>2, <4>1, <4>4
    <3> QED BY <3>1, <3>2
  <2>12. \A x \in n.want : n.pending[x.id].owner # None
    <3> SUFFICES ASSUME NEW x \in n.want PROVE n.pending[x.id].owner # None
      OBVIOUS
    <3>1. CASE x = w
      BY <1>1, <2>5, <2>6, <2>9, <3>1, Limits
    <3>2. CASE x \in m.want
      <4>1. m.pending[x.id].owner # None /\ x.id \in Ids
        BY <1>1, <3>2 DEF MemGood, Asks
      <4>2. x.id # id
        BY <1>6, <4>1
      <4> QED BY <2>9, <4>1, <4>2
    <3> QED BY <2>7, <3>1, <3>2
  <2>13. AskedOK(asked[s] \cup n.want)
    <3> DEFINE S == asked[s] \cup m.want
    <3>1. AskedOK(S)
      BY DEF MemGood
    <3>2. asked[s] \cup n.want = S \cup {w}
      BY <2>7
    <3>3. ASSUME NEW x \in S PROVE x.id = id => x.request # r
      <4>1. CASE x \in asked[s]
        BY <2>1, <4>1
      <4>2. CASE x \in m.want
        BY <1>6, <4>2 DEF MemGood
      <4> QED BY <3>3, <4>1, <4>2
    <3>4. w.id = id /\ w.request = r
      OBVIOUS
    <3> HIDE DEF S, w
    <3>5. Unique(S \cup {w})
      BY <3>1, <3>3, <3>4 DEF AskedOK, Unique
    <3>6. IsFiniteSet(S \cup {w})
      BY <3>1, FS_AddElement DEF AskedOK
    <3> QED BY <2>2, <3>1, <3>2, <3>5, <3>6 DEF AskedOK
  <2> QED BY <2>7, <2>8, <2>11, <2>12, <2>13 DEF MemGood
<1> QED BY <1>3, <1>4, <1>5, <1>6, ClaimCases

\* What every visit of a poll keeps holds at its end.
LEMMA ClaimingStays ==
  ASSUME NEW s, NEW room, NEW S, Memory(s) \in S,
         \A m \in S : \A id \in Ids : visit(m, s, id, room) \in S
  PROVE  Claiming(s, room)[Len(IDs)] \in S
<1> DEFINE N == Len(IDs)
           b == Memory(s)
           D == [p \in Nat \X S |-> IF p[1] \in DOMAIN IDs THEN visit(p[2], s, IDs[p[1]], room) ELSE p[2]]
           Body(m) == [i \in 0 .. N |-> IF i = 0 THEN b ELSE visit(m[i - 1], s, IDs[i], room)]
<1>1. N \in Nat /\ DOMAIN IDs = 1 .. N /\ \A i \in 1 .. N : IDs[i] \in Ids
  BY Limits DEF Ids
<1> HIDE DEF N
<1>2. StepOn(S, b, D)
  BY <1>1 DEF StepOn
<1>3. \E h : h = Body(h)
  <2>1. PICK h : Walk(h, b, D, N)
    <3> HIDE DEF b, D
    <3> QED BY <1>1, <1>2, WalkExists
  <2>2. \A i \in 0 .. N : h[i] \in S
    <3> HIDE DEF b, D
    <3> QED BY <1>1, <1>2, <2>1, WalkStays
  <2>3. ASSUME NEW i \in 0 .. N, i # 0 PROVE D[<<i, h[i - 1]>>] = visit(h[i - 1], s, IDs[i], room)
    <3>1. i - 1 \in 0 .. N /\ i \in Nat /\ i \in DOMAIN IDs
      BY <1>1, <2>3
    <3>2. h[i - 1] \in S
      BY <2>2, <3>1
    <3> QED BY <3>1, <3>2
  <2> HIDE DEF b, D
  <2>4. h = [i \in 0 .. N |-> IF i = 0 THEN b ELSE D[<<i, h[i - 1]>>]]
    BY <2>1 DEF Walk
  <2>5. h = Body(h)
    BY <2>3, <2>4
  <2> QED BY <2>5
<1>4. PICK c : c = Claiming(s, room)
  OBVIOUS
<1>5. c = Body(c)
  BY <1>3, <1>4 DEF Claiming, N
<1> HIDE DEF b, D
<1>6. c[0] \in S
  BY <1>1, <1>5 DEF b
<1>7. ASSUME NEW i \in 0 .. N - 1, c[i] \in S PROVE c[i + 1] \in S
  <2>1. i + 1 \in 0 .. N /\ i + 1 # 0 /\ (i + 1) - 1 = i /\ i + 1 \in 1 .. N
    BY <1>1
  <2>2. c[i + 1] = visit(c[i], s, IDs[i + 1], room)
    BY <1>5, <2>1
  <2> QED BY <1>1, <1>7, <2>1, <2>2
<1>8. \A i \in 0 .. N : c[i] \in S
  BY <1>1, <1>6, <1>7, PathStays
<1> QED BY <1>1, <1>4, <1>8 DEF N

LEMMA VisitGood ==
  ASSUME NEW s \in Open, NEW id \in Ids, NEW room, NEW m, MemGood(m, s), AskedOK(asked[s]),
         asked \in [Sessions -> SUBSET Asks]
  PROVE  MemGood(visit(m, s, id, room), s)
<1>1. visit(m, s, id, room) \in {Forgets(m, id), claim(m, s, id), m}
  BY DEF visit, Forgets
<1> QED BY <1>1, ForgetsGood, ClaimGood

-----------------------------------------------------------------------------
(* Slots.                                                                  *)

Slots(o, S) == UNION {{s} \X DOMAIN o[s] : s \in S}

\* A line of uploads takes as many slots as it is long.
LEMMA LineSlots ==
  ASSUME NEW s, NEW w \in Lines
  PROVE  /\ IsFiniteSet({s} \X DOMAIN w) /\ Cardinality({s} \X DOMAIN w) = Len(w) /\ Len(w) \in Nat
<1>1. DOMAIN w = 1 .. Len(w) /\ Len(w) \in Nat
  BY DEF Lines
<1>2. PICK n \in Nat : n = Len(w)
  BY <1>1
<1>3. IsFiniteSet(1 .. n) /\ Cardinality(1 .. n) = n
  BY FS_Interval
<1>4. PICK E : E = 1 .. n
  OBVIOUS
<1>5. IsFiniteSet({s}) /\ Cardinality({s}) = 1
  BY FS_Singleton
<1>6. IsFiniteSet({s} \X E) /\ Cardinality({s} \X E) = Cardinality({s}) * Cardinality(E)
  BY <1>3, <1>4, <1>5, FS_Product
<1>7. Cardinality({s} \X E) = n
  <2>1. Cardinality({s}) * Cardinality(E) = 1 * n
    BY <1>3, <1>4, <1>5
  <2> QED BY <1>6, <2>1
<1> QED BY <1>1, <1>2, <1>4, <1>6, <1>7

LEMMA FiniteSlots ==
  ASSUME NEW o \in [Sessions -> Lines], NEW S \in SUBSET Sessions
  PROVE  IsFiniteSet(Slots(o, S)) /\ Cardinality(Slots(o, S)) \in Nat
<1> DEFINE U == {{s} \X DOMAIN o[s] : s \in S}
           h == [s \in S |-> {s} \X DOMAIN o[s]]
<1>1. IsFiniteSet(S)
  BY FS_Subset, Limits
<1>2. h \in Surjection(S, U)
  BY DEF Surjection
<1>3. \A T \in U : IsFiniteSet(T)
  BY LineSlots
<1> HIDE DEF U, h
<1>4. IsFiniteSet(U)
  BY <1>1, <1>2, FS_Surjection
<1>5. IsFiniteSet(UNION U)
  BY <1>3, <1>4, FS_UNION
<1> QED BY <1>5, FS_CardinalityType DEF Slots, U

LEMMA SlotsOf ==
  ASSUME NEW o \in [Sessions -> Lines], NEW s \in Sessions
  PROVE  Cardinality(Slots(o, Sessions)) = Cardinality(Slots(o, Sessions \ {s})) + Len(o[s])
<1> DEFINE A == Slots(o, Sessions \ {s})
           B == {s} \X DOMAIN o[s]
<1>1. A \cup B = Slots(o, Sessions)
  BY DEF Slots
<1>2. A \cap B = {}
  BY DEF Slots
<1>3. IsFiniteSet(A) /\ Cardinality(A) \in Nat
  <2>1. Sessions \ {s} \in SUBSET Sessions
    OBVIOUS
  <2> QED BY <2>1, FiniteSlots
<1>4. IsFiniteSet(B) /\ Cardinality(B) = Len(o[s]) /\ Len(o[s]) \in Nat
  BY LineSlots
<1> HIDE DEF A, B
<1>5. Cardinality(A \cup B) = Cardinality(A) + Cardinality(B) - Cardinality(A \cap B)
  BY <1>3, <1>4, FS_Union
<1>6. Cardinality({}) = 0
  BY FS_EmptySet
<1>7. Cardinality(A \cap B) = 0
  BY <1>2, <1>6
<1>8. Cardinality(A \cup B) = Cardinality(A) + Len(o[s])
  BY <1>3, <1>4, <1>5, <1>7
<1> QED BY <1>1, <1>8 DEF A

\* A session's line changes, and so do the slots in use.
LEMMA SlotsChange ==
  ASSUME NEW o \in [Sessions -> Lines], NEW s \in Sessions, NEW w \in Lines
  PROVE  LET p == [o EXCEPT ![s] = w] IN
         /\ p \in [Sessions -> Lines]
         /\ Cardinality(Slots(p, Sessions)) = Cardinality(Slots(o, Sessions)) - Len(o[s]) + Len(w)
<1>1. PICK p : p = [o EXCEPT ![s] = w]
  OBVIOUS
<1>2. p \in [Sessions -> Lines] /\ p[s] = w /\ \A x \in Sessions \ {s} : p[x] = o[x]
  BY <1>1
<1>3. Slots(p, Sessions \ {s}) = Slots(o, Sessions \ {s})
  BY <1>2 DEF Slots
<1>4. /\ Cardinality(Slots(o, Sessions)) = Cardinality(Slots(o, Sessions \ {s})) + Len(o[s])
      /\ Cardinality(Slots(p, Sessions)) = Cardinality(Slots(o, Sessions \ {s})) + Len(w)
  BY <1>2, <1>3, SlotsOf
<1>5. /\ Cardinality(Slots(o, Sessions \ {s})) \in Nat
      /\ Len(o[s]) \in Nat /\ Len(w) \in Nat
  <2>1. Sessions \ {s} \in SUBSET Sessions
    OBVIOUS
  <2>2. o[s] \in Lines
    OBVIOUS
  <2> QED BY <2>1, <2>2, FiniteSlots, LineSlots
<1>6. Cardinality(Slots(p, Sessions)) = Cardinality(Slots(o, Sessions)) - Len(o[s]) + Len(w)
  BY <1>4, <1>5
<1> QED BY <1>1, <1>2, <1>6

-----------------------------------------------------------------------------
(* The inductive invariant.                                                *)

AllGood(P, A, V, O) == P \in [Ids -> Fetches] /\ \A id \in Ids : Good(id, P[id], A, V, O)

Asking(A) == A \in [Sessions -> SUBSET Asks] /\ \A s \in Sessions : AskedOK(A[s])

Objects == [known : BOOLEAN, body : BOOLEAN, load : BOOLEAN]

\* The claims: types, and what backs each fetch.
ClaimInv ==
  /\ objects \in [Ids -> Objects]
  /\ state \in [Sessions -> {"new", "open", "closed"}]
  /\ seen \in [Sessions -> [Ids -> Hints]]
  /\ unavailable \in [Sessions -> SUBSET Ids]
  /\ verifying \in [Sessions -> SUBSET Ids]
  /\ Asking(asked)
  /\ AllGood(pending, asked, verifying, Open)

\* The uploads.
UploadInv ==
  /\ out \in [Sessions -> Lines]
  /\ SlotsBalance

IInv == ClaimInv /\ UploadInv

LEMMA SetGood ==
  ASSUME NEW P, NEW A, NEW V, NEW O, AllGood(P, A, V, O), NEW id \in Ids, NEW g, Good(id, g, A, V, O)
  PROVE  AllGood([P EXCEPT ![id] = g], A, V, O)
<1>1. P \in [Ids -> Fetches] /\ g \in Fetches
  BY DEF AllGood, Good, Sound
<1>2. [P EXCEPT ![id] = g] \in [Ids -> Fetches]
  BY <1>1
<1>3. ASSUME NEW k \in Ids PROVE [P EXCEPT ![id] = g][k] = IF k = id THEN g ELSE P[k]
  BY <1>1
<1>4. ASSUME NEW k \in Ids PROVE Good(k, [P EXCEPT ![id] = g][k], A, V, O)
  BY <1>3 DEF AllGood
<1> QED BY <1>2, <1>4 DEF AllGood

LEMMA AllPruned ==
  ASSUME ClaimInv
  PROVE  /\ AllGood(prunedPending, asked, verifying, Open)
         /\ \A id \in Ids : prunedPending[id] = prunedFetch(id) /\ Good(id, prunedPending[id], asked, verifying, Open)
<1>1. ASSUME NEW id \in Ids PROVE prunedPending[id] = prunedFetch(id)
  BY DEF prunedPending
<1>2. ASSUME NEW id \in Ids PROVE Good(id, prunedFetch(id), asked, verifying, Open)
  <2>1. Good(id, pending[id], asked, verifying, Open)
    BY DEF ClaimInv, AllGood
  <2> QED BY <2>1, PrunedGood
<1>3. prunedPending \in [Ids -> Fetches]
  <2>1. \A id \in Ids : prunedFetch(id) \in Fetches
    BY <1>2 DEF Good, Sound
  <2> QED BY <2>1 DEF prunedPending
<1> QED BY <1>1, <1>2, <1>3 DEF AllGood

LEMMA MemoryGood ==
  ASSUME ClaimInv, NEW s \in Open
  PROVE  /\ MemGood(Memory(s), s) /\ AskedOK(asked[s]) /\ asked \in [Sessions -> SUBSET Asks]
         /\ Memory(s).pending = prunedPending /\ Memory(s).want = {} /\ s \in Sessions
<1>1. s \in Sessions
  BY DEF Open
<1>2. AskedOK(asked[s]) /\ asked \in [Sessions -> SUBSET Asks]
  BY <1>1 DEF ClaimInv, Asking
<1>3. /\ Memory(s).pending = prunedPending /\ Memory(s).want = {} /\ Memory(s).seen = seen[s]
      /\ Memory(s).unavailable = unavailable[s]
  BY DEF Memory
<1>4. Memory(s) \in Mems
  <2>1. prunedPending \in [Ids -> Fetches] /\ seen[s] \in [Ids -> Hints] /\ unavailable[s] \in SUBSET Ids /\ {} \in SUBSET Asks
    BY <1>1, AllPruned DEF ClaimInv, AllGood
  <2> QED BY <2>1 DEF Memory, Mems
<1>5. Asked(s, Memory(s)) = asked /\ asked[s] \cup Memory(s).want = asked[s]
  BY <1>1, <1>2, <1>3 DEF Asked
<1>6. \A id \in Ids : Good(id, Memory(s).pending[id], Asked(s, Memory(s)), verifying, Open)
  BY <1>3, <1>5, AllPruned
<1> QED BY <1>1, <1>2, <1>3, <1>4, <1>5, <1>6 DEF MemGood

\* A memory that is written back.
LEMMA WriteGood ==
  ASSUME ClaimInv, NEW s \in Open, NEW m, MemGood(m, s), Write(s, m), UNCHANGED <<objects, state, verifying>>
  PROVE  ClaimInv'
<1>1. s \in Sessions /\ Open' = Open
  BY DEF Open
<1>2. m.seen \in [Ids -> Hints] /\ m.unavailable \in SUBSET Ids /\ m.want \in SUBSET Asks /\ m.pending \in [Ids -> Fetches]
  BY DEF MemGood, Mems
<1>3. seen' \in [Sessions -> [Ids -> Hints]] /\ unavailable' \in [Sessions -> SUBSET Ids]
  BY <1>1, <1>2 DEF Write, ClaimInv
<1>4. asked' = Asked(s, m)
  BY DEF Write, Asked
<1>5. Asking(asked')
  <2>1. asked \in [Sessions -> SUBSET Asks] /\ \A x \in Sessions : AskedOK(asked[x])
    BY DEF ClaimInv, Asking
  <2>2. Asked(s, m) \in [Sessions -> SUBSET Asks]
    BY <1>1, <1>2, <2>1 DEF Asked
  <2>3. \A x \in Sessions : Asked(s, m)[x] = IF x = s THEN asked[s] \cup m.want ELSE asked[x]
    BY <1>1, <2>1 DEF Asked
  <2>4. AskedOK(asked[s] \cup m.want)
    BY DEF MemGood
  <2> QED BY <1>4, <2>1, <2>2, <2>3, <2>4 DEF Asking
<1>6. AllGood(pending', asked', verifying', Open')
  BY <1>1, <1>2, <1>4 DEF MemGood, AllGood, Write
<1> QED BY <1>3, <1>5, <1>6 DEF ClaimInv

-----------------------------------------------------------------------------
(* The steps.                                                              *)

LEMMA HaveStep ==
  ASSUME ClaimInv, NEW s \in Sessions, NEW id \in Ids, ReceiveHave(s, id)
  PROVE  ClaimInv'
<1>1. s \in Open /\ UNCHANGED <<objects, state, verifying>>
  BY DEF ReceiveHave
<1> DEFINE m == Memory(s)
           n == [m EXCEPT !.seen[id] = "fresh", !.unavailable = @ \ {id}]
<1>2. MemGood(m, s) /\ AskedOK(asked[s]) /\ asked \in [Sessions -> SUBSET Asks]
  BY <1>1, MemoryGood
<1>3. MemGood(n, s)
  <2> HIDE DEF m
  <2>1. m \in Mems
    BY <1>2 DEF MemGood
  <2>2. n \in Mems /\ n.pending = m.pending /\ n.want = m.want
    BY <2>1 DEF Mems, Hints
  <2> HIDE DEF n
  <2> QED BY <1>2, <2>2 DEF MemGood, Asked
<1>4. MemGood(claim(n, s, id), s)
  <2> HIDE DEF m, n
  <2> QED BY <1>1, <1>2, <1>3, ClaimGood
<1>5. Write(s, m) \/ Write(s, claim(n, s, id))
  BY DEF ReceiveHave
<1> HIDE DEF m, n
<1> QED BY <1>1, <1>2, <1>4, <1>5, WriteGood

LEMMA GoneStep ==
  ASSUME ClaimInv, NEW s \in Sessions, NEW id \in Ids, ReceiveGone(s, id)
  PROVE  ClaimInv'
<1>1. s \in Open /\ UNCHANGED <<objects, state, verifying>>
  BY DEF ReceiveGone
<1>2. PICK m : m = Memory(s)
  OBVIOUS
<1>3. PICK e : e = m.pending[id]
  OBVIOUS
<1> DEFINE f == [e EXCEPT !.suppliers = @ \ {s}]
           g == IF f.owner = s /\ ~f.received
                THEN [Released(f) EXCEPT !.avoid = s] ELSE f
           h == IF g.owner = None /\ g.suppliers = {} THEN NoFetch ELSE g
           n == [m EXCEPT !.seen[id] = "none", !.unavailable = @ \ {id}, !.pending[id] = h]
<1>4. MemGood(m, s) /\ m.want = {}
  BY <1>1, <1>2, MemoryGood
<1>5. Good(id, e, Asked(s, m), verifying, Open)
  BY <1>3, <1>4 DEF MemGood
<1>6. Good(id, f, Asked(s, m), verifying, Open)
  <2>1. PICK S \in SUBSET Sessions : S = e.suppliers \ {s} /\ S \subseteq Open
    BY <1>5 DEF Good, Sound, Backed, Fetches
  <2>2. f = [e EXCEPT !.suppliers = S]
    BY <2>1
  <2> HIDE DEF f
  <2> QED BY <1>5, <2>1, <2>2, SuppliedGood
<1>7. Good(id, g, Asked(s, m), verifying, Open)
  <2> HIDE DEF f
  <2>1. Sound(f) /\ f.suppliers \subseteq Open /\ s \in Anyone
    BY <1>6 DEF Good, Backed, Anyone
  <2>2. ~f.received => Good(id, [Released(f) EXCEPT !.avoid = s], Asked(s, m), verifying, Open)
    <3>1. {} \in SUBSET Sessions /\ {} \subseteq Open
      OBVIOUS
    <3> HIDE DEF Open
    <3> QED BY <2>1, <3>1, ReleasedGood
  <2> QED BY <1>6, <2>2
<1>8. Good(id, h, Asked(s, m), verifying, Open)
  <2> HIDE DEF g
  <2> QED BY <1>7, NoFetchGood
<1>9. Write(s, n)
  <2>1. \A x : [e EXCEPT !.suppliers = x] = [m.pending[id] EXCEPT !.suppliers = x]
    BY <1>3
  <2> QED BY <1>2, <1>3 DEF ReceiveGone
<1> HIDE DEF h
<1>10. /\ n \in Mems /\ n.pending = [m.pending EXCEPT ![id] = h] /\ n.want = m.want
  <2>1. m \in Mems /\ h \in Fetches
    BY <1>4, <1>8 DEF MemGood, Good, Sound
  <2> QED BY <2>1 DEF Mems, Hints
<1> HIDE DEF n
<1>11. MemGood(n, s)
  <2>1. AllGood(m.pending, Asked(s, m), verifying, Open)
    BY <1>4 DEF MemGood, AllGood, Mems
  <2>2. AllGood(n.pending, Asked(s, m), verifying, Open)
    BY <1>8, <1>10, <2>1, SetGood
  <2>3. Asked(s, n) = Asked(s, m) /\ AskedOK(asked[s] \cup n.want)
    BY <1>4, <1>10 DEF Asked, MemGood
  <2> QED BY <1>4, <1>10, <2>2, <2>3 DEF MemGood, AllGood
<1> QED BY <1>1, <1>9, <1>11, WriteGood

LEMMA PollStep ==
  ASSUME ClaimInv, NEW s \in Sessions, NEW budget, Poll(s, budget)
  PROVE  ClaimInv'
<1>1. s \in Open /\ UNCHANGED <<objects, state, verifying>>
  BY DEF Poll
<1>2. PICK room : Write(s, Claiming(s, room)[Len(IDs)])
  BY DEF Poll
<1> DEFINE S == {m \in Mems : MemGood(m, s)}
<1>3. \A m : MemGood(m, s) => m \in S
  BY DEF MemGood
<1>4. Memory(s) \in S /\ AskedOK(asked[s]) /\ asked \in [Sessions -> SUBSET Asks]
  BY <1>1, <1>3, MemoryGood
<1>5. \A m \in S : \A id \in Ids : visit(m, s, id, room) \in S
  <2> SUFFICES ASSUME NEW m \in S, NEW id \in Ids PROVE MemGood(visit(m, s, id, room), s)
    BY <1>3
  <2> QED BY <1>1, <1>4, VisitGood
<1>6. Claiming(s, room)[Len(IDs)] \in S
  <2> HIDE DEF S
  <2> QED BY <1>4, <1>5, ClaimingStays
<1> QED BY <1>1, <1>2, <1>6, WriteGood

\* What backs a fetch moves: enough that it is still there for its owner.
LEMMA GoodMoves ==
  ASSUME NEW id, NEW f, NEW A, NEW B, NEW V, NEW W, NEW O, NEW Q, Good(id, f, A, V, O), O \subseteq Q,
         f.owner # None /\ Ask(id, f) \in A[f.owner] => Ask(id, f) \in B[f.owner],
         f.owner # None /\ id \in V[f.owner] => id \in W[f.owner]
  PROVE  Good(id, f, B, W, Q)
BY DEF Good, Backed

\* A peer answers: one of its requests is over, or one chunk on.
LEMMA AskingMoves ==
  ASSUME Asking(asked), NEW s \in Sessions, NEW t \in asked[s],
         NEW R \in SUBSET Asks, IsFiniteSet(R), \A x, y \in R : x = y,
         \A x \in R : x.id = t.id /\ x.request = t.request
  PROVE  Asking([asked EXCEPT ![s] = (@ \ {t}) \cup R])
<1> DEFINE B == [asked EXCEPT ![s] = (@ \ {t}) \cup R]
           T == (asked[s] \ {t}) \cup R
<1>1. asked \in [Sessions -> SUBSET Asks] /\ AskedOK(asked[s]) /\ \A x \in Sessions : AskedOK(asked[x])
  BY DEF Asking
<1>2. IsFiniteSet(T)
  <2>1. IsFiniteSet(asked[s] \ {t})
    BY <1>1, FS_RemoveElement DEF AskedOK
  <2> QED BY <2>1, FS_Union
<1>3. Unique(T)
  <2>1. Unique(asked[s])
    BY <1>1 DEF AskedOK
  <2> SUFFICES ASSUME NEW x \in T, NEW y \in T, x.id = y.id, x.request = y.request PROVE x = y
    BY DEF Unique
  <2>2. CASE x \in R /\ y \in R
    BY <2>2
  <2>3. CASE x \in asked[s] \ {t} /\ y \in asked[s] \ {t}
    BY <2>1, <2>3 DEF Unique
  <2>4. CASE x \in asked[s] \ {t} /\ y \in R
    BY <2>1, <2>4 DEF Unique
  <2>5. CASE x \in R /\ y \in asked[s] \ {t}
    BY <2>1, <2>5 DEF Unique
  <2> QED BY <2>2, <2>3, <2>4, <2>5
<1>4. T \subseteq Asks
  BY <1>1 DEF AskedOK
<1>5. AskedOK(T)
  BY <1>2, <1>3, <1>4 DEF AskedOK
<1>6. \A x \in Sessions : B[x] = IF x = s THEN T ELSE asked[x]
  BY <1>1
<1>7. B \in [Sessions -> SUBSET Asks]
  BY <1>1, <1>4
<1> HIDE DEF B, T
<1>8. Asking(B)
  BY <1>1, <1>5, <1>6, <1>7 DEF Asking
<1> QED BY <1>8 DEF B

\* A fetch that t does not feed is as good as before.
Feeds(t, s, id, f) == id = t.id /\ f.owner = s /\ f.request = t.request /\ ~f.received

LEMMA UnfedGood ==
  ASSUME NEW s \in Sessions, NEW t, NEW B, \A x \in Sessions : asked[x] \ (IF x = s THEN {t} ELSE {}) \subseteq B[x],
         NEW id, NEW f, Good(id, f, asked, verifying, Open), ~Feeds(t, s, id, f)
  PROVE  Good(id, f, B, verifying, Open)
<1>1. f.owner \in Anyone /\ f.received \in BOOLEAN
  BY DEF Good, Sound, Fetches
<1>2. CASE f.owner = None
  BY <1>2, GoodMoves
<1>3. CASE f.owner # None /\ ~f.received
  <2>1. f.owner = s => Ask(id, f) # t
    BY <1>3 DEF Ask, Feeds
  <2>2. Ask(id, f) \in asked[f.owner] => Ask(id, f) \in B[f.owner]
    BY <1>1, <1>3, <2>1 DEF Anyone
  <2> QED BY <2>2, GoodMoves
<1>4. CASE f.owner # None /\ f.received
  BY <1>4 DEF Good, Backed
<1> QED BY <1>1, <1>2, <1>3, <1>4

LEMMA UnavailableStep ==
  ASSUME ClaimInv, NEW s \in Sessions, NEW t \in asked[s], ReceiveUnavailable(s, t)
  PROVE  ClaimInv'
<1>1. /\ s \in Open /\ UNCHANGED <<objects, state, seen, verifying>> /\ Open' = Open
      /\ asked' = [asked EXCEPT ![s] = @ \ {t}]
  BY DEF ReceiveUnavailable, Open
<1>2. t \in Asks /\ t.id \in Ids /\ asked \in [Sessions -> SUBSET Asks] /\ AskedOK(asked[s])
  BY DEF ClaimInv, Asking, Asks
<1>3. Asking(asked')
  <2>1. asked' = [asked EXCEPT ![s] = (@ \ {t}) \cup {}]
    BY <1>1
  <2>2. IsFiniteSet({})
    BY FS_EmptySet
  <2> QED BY <2>1, <2>2, AskingMoves DEF ClaimInv
<1>4. PICK f : f = prunedPending[t.id]
  OBVIOUS
<1> DEFINE g == [Released(f) EXCEPT !.suppliers = @ \ {s}]
<1>5. Good(t.id, f, asked, verifying, Open) /\ AllGood(prunedPending, asked, verifying, Open)
  BY <1>2, <1>4, AllPruned
<1>6. \A x \in Sessions : asked'[x] = IF x = s THEN asked[s] \ {t} ELSE asked[x]
  BY <1>1, <1>2
<1>7. ASSUME NEW k \in Ids, NEW e, Good(k, e, asked, verifying, Open), ~Feeds(t, s, k, e)
      PROVE  Good(k, e, asked', verifying, Open)
  BY <1>6, <1>7, UnfedGood
<1>8. CASE f.owner = s /\ f.request = t.request /\ ~f.received
  <2>1. /\ pending' = [prunedPending EXCEPT ![t.id] = g]
        /\ unavailable' = [unavailable EXCEPT ![s] = @ \cup {t.id}]
    BY <1>4, <1>8 DEF ReceiveUnavailable, Memory
  <2>2. Good(t.id, g, asked', verifying, Open)
    <3>1. PICK S \in SUBSET Sessions : S = f.suppliers \ {s} /\ S \subseteq Open
      BY <1>5 DEF Good, Sound, Backed, Fetches
    <3>2. Sound(f) /\ f.suppliers \subseteq Open /\ s \in Anyone
      BY <1>5 DEF Good, Backed, Anyone
    <3>3. /\ Good(t.id, [Released(f) EXCEPT !.suppliers = S], asked', verifying, Open)
          /\ Released(f).suppliers = f.suppliers
      BY <1>8, <3>1, <3>2, ReleasedGood
    <3>4. g = [Released(f) EXCEPT !.suppliers = S]
      BY <3>1, <3>3
    <3> QED BY <3>3, <3>4
  <2> HIDE DEF g
  <2>3. \A k \in Ids : pending'[k] = IF k = t.id THEN g ELSE prunedPending[k]
    BY <1>2, <1>5, <2>1 DEF AllGood
  <2>4. \A k \in Ids : Good(k, pending'[k], asked', verifying, Open)
    <3> SUFFICES ASSUME NEW k \in Ids PROVE Good(k, pending'[k], asked', verifying, Open)
      OBVIOUS
    <3>1. CASE k = t.id
      BY <2>2, <2>3, <3>1
    <3>2. CASE k # t.id
      BY <1>7, <2>3, <3>2, AllPruned DEF Feeds
    <3> QED BY <3>1, <3>2
  <2>5. pending' \in [Ids -> Fetches]
    BY <1>2, <1>5, <2>1, <2>2 DEF AllGood, Good, Sound
  <2>6. unavailable' \in [Sessions -> SUBSET Ids]
    BY <1>2, <2>1 DEF ClaimInv
  <2> QED BY <1>1, <1>3, <2>4, <2>5, <2>6 DEF ClaimInv, AllGood
<1>9. CASE ~(f.owner = s /\ f.request = t.request /\ ~f.received)
  <2>1. pending' = prunedPending /\ unavailable' = unavailable
    BY <1>4, <1>9 DEF ReceiveUnavailable, Memory
  <2>2. \A k \in Ids : Good(k, pending'[k], asked', verifying, Open)
    <3> SUFFICES ASSUME NEW k \in Ids PROVE Good(k, prunedPending[k], asked', verifying, Open)
      BY <2>1
    <3>1. Good(k, prunedPending[k], asked, verifying, Open)
      BY AllPruned
    <3> QED BY <1>4, <1>7, <1>9, <3>1 DEF Feeds
  <2> QED BY <1>1, <1>3, <1>5, <2>1, <2>2 DEF ClaimInv, AllGood
<1> QED BY <1>8, <1>9

LEMMA LeaveGood ==
  ASSUME NEW s \in Sessions, NEW id, NEW f, Good(id, f, asked, verifying, Open), NEW B, NEW W, NEW Q,
         Q = Open \ {s}, \A x \in Sessions \ {s} : B[x] = asked[x] /\ W[x] = verifying[x]
  PROVE  Good(id, Leave(f, s), B, W, Q)
<1> DEFINE g == [f EXCEPT !.suppliers = @ \ {s}]
           h == IF f.owner = s THEN [Released(g) EXCEPT !.received = FALSE] ELSE g
<1>1. Good(id, g, asked, verifying, Open) /\ g.owner = f.owner /\ g.suppliers \subseteq Q
  <2>0. f.suppliers \in SUBSET Sessions /\ f.suppliers \subseteq Open
    BY DEF Good, Sound, Backed, Fetches
  <2> HIDE DEF Open
  <2>3. PICK S : S = f.suppliers \ {s}
    OBVIOUS
  <2>1. S \in SUBSET Sessions /\ S = f.suppliers \ {s} /\ S \subseteq Open /\ S \subseteq Q
    BY <2>0, <2>3
  <2>2. g = [f EXCEPT !.suppliers = S]
    BY <2>1
  <2> HIDE DEF g
  <2> QED BY <2>1, <2>2, SuppliedGood
<1>2. Leave(f, s) = IF h.suppliers = {} THEN NoFetch ELSE h
  BY DEF Leave
<1> HIDE DEF g
<1>3. Good(id, h, B, W, Q)
  <2>1. CASE f.owner = s
    <3>1. Sound(g) /\ None \in Anyone /\ {} \in SUBSET Sessions /\ {} \subseteq Q
      BY <1>1 DEF Good, Anyone
    <3>2. Good(id, [Released(g) EXCEPT !.received = FALSE], B, W, Q)
      BY <1>1, <3>1, ReleasedGood
    <3> QED BY <2>1, <3>2
  <2>2. CASE f.owner # s
    <3>1. g.owner \in Anyone /\ g.owner # s
      BY <1>1, <2>2 DEF Good, Sound, Fetches
    <3>2. g.owner # None => g.owner \in Q /\ B[g.owner] = asked[g.owner] /\ W[g.owner] = verifying[g.owner]
      BY <1>1, <3>1 DEF Anyone, Good, Backed
    <3>3. Good(id, g, B, W, Q)
      BY <1>1, <3>2 DEF Good, Backed
    <3> QED BY <2>2, <3>3
  <2> QED BY <2>1, <2>2
<1> HIDE DEF h
<1> QED BY <1>2, <1>3, NoFetchGood

LEMMA CloseSessionStep ==
  ASSUME ClaimInv, NEW s \in Sessions, NEW P, AllGood(P, asked, verifying, Open), CloseSession(s, P), UNCHANGED objects
  PROVE  ClaimInv'
<1>1. /\ state' \in [Sessions -> {"new", "open", "closed"}]
      /\ seen' \in [Sessions -> [Ids -> Hints]]
      /\ unavailable' \in [Sessions -> SUBSET Ids]
      /\ verifying' \in [Sessions -> SUBSET Ids]
  BY DEF ClaimInv, CloseSession, Hints
<1>2. Open' = Open \ {s}
  BY DEF Open, CloseSession, ClaimInv
<1>3. asked \in [Sessions -> SUBSET Asks] /\ \A x \in Sessions : AskedOK(asked[x])
  BY DEF ClaimInv, Asking
<1>4. \A x \in Sessions : /\ asked'[x] = IF x = s THEN {} ELSE asked[x]
                          /\ x # s => verifying'[x] = verifying[x]
  BY <1>3 DEF CloseSession, ClaimInv
<1>5. Asking(asked')
  <2>1. AskedOK({})
    BY FS_EmptySet DEF AskedOK, Unique
  <2>2. asked' \in [Sessions -> SUBSET Asks]
    BY <1>3 DEF CloseSession
  <2> QED BY <1>3, <1>4, <2>1, <2>2 DEF Asking
<1>6. \A id \in Ids : pending'[id] = Leave(P[id], s)
  BY DEF CloseSession
<1>7. ASSUME NEW id \in Ids PROVE Good(id, Leave(P[id], s), asked', verifying', Open')
  <2>1. PICK f : f = P[id]
    OBVIOUS
  <2>2. Good(id, f, asked, verifying, Open)
    BY <2>1 DEF AllGood
  <2>3. Good(id, Leave(f, s), asked', verifying', Open')
    BY <1>2, <1>4, <2>2, LeaveGood
  <2> QED BY <2>1, <2>3
<1>8. pending' \in [Ids -> Fetches]
  <2>1. \A id \in Ids : Leave(P[id], s) \in Fetches
    BY <1>7 DEF Good, Sound
  <2> QED BY <2>1 DEF CloseSession
<1>9. AllGood(pending', asked', verifying', Open')
  BY <1>6, <1>7, <1>8 DEF AllGood
<1> QED BY <1>1, <1>5, <1>9 DEF ClaimInv

LEMMA DataStep ==
  ASSUME ClaimInv, NEW s \in Sessions, NEW t \in asked[s], ReceiveData(s, t)
  PROVE  ClaimInv'
<1>1. t \in Asks /\ t.id \in Ids /\ asked \in [Sessions -> SUBSET Asks] /\ AskedOK(asked[s]) /\ s \in Open /\ s # None
  BY Limits DEF ClaimInv, Asking, Asks, ReceiveData
<1>2. PICK f : f = prunedPending[t.id]
  OBVIOUS
<1>3. Good(t.id, f, asked, verifying, Open) /\ AllGood(prunedPending, asked, verifying, Open)
  BY <1>1, <1>2, AllPruned
<1>4. CASE Wanted(f, s, t) /\ t.next # f.got
  <2>1. CloseSession(s, prunedPending) /\ UNCHANGED objects
    BY <1>2, <1>4 DEF ReceiveData
  <2> QED BY <1>3, <2>1, CloseSessionStep
<1> DEFINE rest == IF t.next + 1 = Chunks THEN {} ELSE {[t EXCEPT !.next = @ + 1]}
           done == f.got + 1 = Chunks
           P == IF Wanted(f, s, t) THEN [prunedPending EXCEPT ![t.id] = Accepted(f)] ELSE prunedPending
           B == [asked EXCEPT ![s] = (@ \ {t}) \cup rest]
           W == IF Wanted(f, s, t) /\ done THEN [verifying EXCEPT ![s] = @ \cup {t.id}] ELSE verifying
<1>5. CASE ~(Wanted(f, s, t) /\ t.next # f.got)
  <2>1. pending' = P /\ asked' = B /\ verifying' = W /\ UNCHANGED <<objects, state, seen, unavailable>>
    BY <1>2, <1>5 DEF ReceiveData, sessionVars
  <2>2. Open' = Open
    BY <2>1 DEF Open
  <2>3. /\ rest \in SUBSET Asks /\ IsFiniteSet(rest) /\ \A x, y \in rest : x = y
        /\ \A x \in rest : x.id = t.id /\ x.request = t.request /\ x.next = t.next + 1
    <3>1. CASE t.next + 1 = Chunks
      BY <3>1, FS_EmptySet
    <3>2. CASE t.next + 1 # Chunks
      <4>1. t.next + 1 \in 0 .. Chunks - 1
        BY <1>1, <3>2, Limits DEF Asks
      <4>2. PICK x : x = [t EXCEPT !.next = t.next + 1]
        OBVIOUS
      <4>3. x \in Asks /\ x.id = t.id /\ x.request = t.request /\ x.next = t.next + 1
        BY <1>1, <4>1, <4>2 DEF Asks
      <4>4. rest = {x}
        BY <3>2, <4>2
      <4> QED BY <4>3, <4>4, FS_Singleton
    <3> QED BY <3>1, <3>2
  <2>4. Asking(B)
    <3> HIDE DEF rest
    <3> QED BY <2>3, AskingMoves DEF ClaimInv
  <2>5. \A x \in Sessions : B[x] = IF x = s THEN (asked[s] \ {t}) \cup rest ELSE asked[x]
    BY <1>1
  <2>6. W \in [Sessions -> SUBSET Ids] /\ \A x \in Sessions : verifying[x] \subseteq W[x]
    BY <1>1 DEF ClaimInv
  <2>7. Wanted(f, s, t) => (done => t.id \in W[s])
    BY DEF ClaimInv
  <2> HIDE DEF B, W
  <2>8. ASSUME NEW k \in Ids, NEW e, Good(k, e, asked, verifying, Open), ~Feeds(t, s, k, e)
        PROVE  Good(k, e, B, W, Open)
    <3>1. Good(k, e, B, verifying, Open)
      BY <2>5, <2>8, UnfedGood
    <3>2. e.owner \in Anyone
      BY <2>8 DEF Good, Sound, Fetches
    <3>3. e.owner # None => verifying[e.owner] \subseteq W[e.owner]
      BY <2>6, <3>2 DEF Anyone
    <3> QED BY <3>1, <3>3, GoodMoves
  <2>9. AllGood(P, B, W, Open)
    <3>1. CASE ~Wanted(f, s, t)
      <4>1. ASSUME NEW k \in Ids PROVE Good(k, prunedPending[k], B, W, Open)
        BY <1>2, <2>8, <3>1, AllPruned DEF Feeds, Wanted
      <4> QED BY <1>3, <3>1, <4>1 DEF AllGood
    <3>2. CASE Wanted(f, s, t)
      <4>1. f.owner = s /\ f.request = t.request /\ ~f.received /\ f.got = t.next /\ f \in Fetches /\ f.suppliers \subseteq Open
        BY <1>3, <1>5, <3>2 DEF Wanted, Good, Sound, Backed
      <4>2. f.got \in Nat /\ f.got + 1 \in 0 .. Chunks /\ (f.got + 1 = Chunks) \in BOOLEAN /\ (~done => f.got + 1 < Chunks)
        BY <1>1, <4>1, Limits DEF Asks
      <4>3. PICK a : a = Accepted(f)
        OBVIOUS
      <4>4. /\ a \in Fetches /\ a.owner = s /\ a.request = t.request /\ a.got = f.got + 1 /\ a.suppliers = f.suppliers
            /\ a.received = done
        BY <4>1, <4>2, <4>3 DEF Accepted, Fetches
      <4>5. ~done => Ask(t.id, a) \in B[s]
        <5> SUFFICES ASSUME ~done PROVE Ask(t.id, a) \in B[s]
          OBVIOUS
        <5>1. rest = {[t EXCEPT !.next = @ + 1]}
          BY <4>1
        <5>2. Ask(t.id, a) = [t EXCEPT !.next = @ + 1]
          BY <1>1, <4>1, <4>4 DEF Ask, Asks
        <5> QED BY <2>5, <5>1, <5>2
      <4>6. Good(t.id, a, B, W, Open)
        BY <1>1, <2>7, <3>2, <4>1, <4>2, <4>4, <4>5 DEF Good, Sound, Backed
      <4>7. P = [prunedPending EXCEPT ![t.id] = a] /\ prunedPending \in [Ids -> Fetches]
        BY <1>3, <3>2, <4>3 DEF AllGood
      <4>8. \A k \in Ids : P[k] = IF k = t.id THEN a ELSE prunedPending[k]
        BY <4>7
      <4>9. P \in [Ids -> Fetches]
        BY <1>1, <4>4, <4>7
      <4> HIDE DEF P
      <4>10. ASSUME NEW k \in Ids PROVE Good(k, P[k], B, W, Open)
        <5>1. CASE k = t.id
          BY <4>6, <4>8, <5>1
        <5>2. CASE k # t.id
          BY <2>8, <4>8, <5>2, AllPruned DEF Feeds
        <5> QED BY <5>1, <5>2
      <4> QED BY <4>9, <4>10 DEF AllGood
    <3> QED BY <3>1, <3>2
  <2> HIDE DEF P
  <2> QED BY <2>1, <2>2, <2>4, <2>6, <2>9 DEF ClaimInv
<1> QED BY <1>4, <1>5

LEMMA RememberStep ==
  ASSUME ClaimInv, NEW s \in Sessions, NEW id \in Ids, NEW body \in BOOLEAN, NEW load \in BOOLEAN, remember(id, body, load),
         UNCHANGED <<state, seen, unavailable, asked>>,
         verifying' \in {verifying, [verifying EXCEPT ![s] = @ \ {id}]}
  PROVE  ClaimInv'
<1>1. Open' = Open
  BY DEF Open
<1>2. objects' \in [Ids -> Objects]
  <2> DEFINE objs == [objects EXCEPT ![id] = NoObject]
  <2>1. \E keep : objects' = [k \in Ids |-> IF k = id THEN [known |-> TRUE, body |-> body, load |-> load \/ objects[id].load]
                                            ELSE [objs[k] EXCEPT !.body = k \in keep]]
    BY Zenon DEF remember
  <2>2. objects[id].load \in BOOLEAN
    BY DEF ClaimInv, Objects
  <2>3. [known |-> TRUE, body |-> body, load |-> load \/ objects[id].load] \in Objects
    BY <2>2 DEF Objects
  <2>4. ASSUME NEW keep, NEW k \in Ids, k # id PROVE [objs[k] EXCEPT !.body = k \in keep] \in Objects
    <3>1. objs[k] \in Objects
      BY <2>4 DEF ClaimInv
    <3>2. ASSUME NEW b \in BOOLEAN PROVE [objs[k] EXCEPT !.body = b] \in Objects
      BY <3>1 DEF Objects
    <3>3. (k \in keep) \in BOOLEAN
      OBVIOUS
    <3> QED BY <3>2, <3>3, Zenon
  <2> HIDE DEF objs
  <2> QED BY <2>1, <2>3, <2>4
<1>3. verifying' \in [Sessions -> SUBSET Ids] /\ \A x \in Sessions : \A k \in Ids \ {id} : k \in verifying[x] => k \in verifying'[x]
  BY DEF ClaimInv
<1>4. pending' = [prunedPending EXCEPT ![id] = NoFetch]
  BY DEF remember
<1>5. prunedPending \in [Ids -> Fetches] /\ NoFetch \in Fetches
  BY AllPruned, NoFetchGood DEF AllGood, Good, Sound
<1>6. pending' \in [Ids -> Fetches] /\ \A k \in Ids : pending'[k] = IF k = id THEN NoFetch ELSE prunedPending[k]
  BY <1>4, <1>5
<1>7. ASSUME NEW k \in Ids PROVE Good(k, pending'[k], asked, verifying', Open)
  <2>1. CASE k = id
    BY <1>6, <2>1, NoFetchGood
  <2>2. CASE k # id
    <3>1. PICK e : e = prunedPending[k]
      OBVIOUS
    <3>2. Good(k, e, asked, verifying, Open)
      BY <3>1, AllPruned
    <3>3. e.owner \in Anyone
      BY <3>2 DEF Good, Sound, Fetches
    <3>4. e.owner # None /\ k \in verifying[e.owner] => k \in verifying'[e.owner]
      BY <1>3, <2>2, <3>3 DEF Anyone
    <3>5. Good(k, e, asked, verifying', Open)
      BY <3>2, <3>4, GoodMoves
    <3> QED BY <1>6, <2>2, <3>1, <3>5
  <2> QED BY <2>1, <2>2
<1>8. AllGood(pending', asked', verifying', Open')
  BY <1>1, <1>6, <1>7 DEF AllGood
<1> QED BY <1>2, <1>3, <1>8 DEF ClaimInv

\* Only the fetches change, and stay good.
LEMMA PendingStep ==
  ASSUME ClaimInv, AllGood(pending', asked, verifying, Open),
         UNCHANGED <<objects, state, seen, unavailable, verifying, asked>>
  PROVE  ClaimInv'
<1>1. Open' = Open
  BY DEF Open
<1> QED BY <1>1 DEF ClaimInv

LEMMA DirectoryStep ==
  ASSUME ClaimInv, NEW s \in Sessions, NEW id \in Ids, NEW b \in BOOLEAN,
         Offer(s, id) \/ Lookup(s, id, b) \/ Resolve(s, id, b)
  PROVE  ClaimInv'
<1>1. CASE Offer(s, id)
  BY <1>1, RememberStep DEF Offer, sessionVars
<1>2. CASE Lookup(s, id, b)
  <2>1. CASE remember(id, TRUE, FALSE)
    BY <1>2, <2>1, RememberStep DEF Lookup, sessionVars
  <2>2. CASE UNCHANGED objects /\ pending' = prunedPending
    BY <1>2, <2>2, PendingStep, AllPruned DEF Lookup, sessionVars
  <2> QED BY <1>2, <2>1, <2>2 DEF Lookup
<1>3. CASE Resolve(s, id, b)
  BY <1>3, RememberStep DEF Resolve, sessionVars
<1> QED BY <1>1, <1>2, <1>3

LEMMA WantStep ==
  ASSUME ClaimInv, NEW s \in Sessions, NEW id, NEW request, NEW d, ReceiveWant(s, id, request, d)
  PROVE  ClaimInv'
<1>1. pending' = prunedPending /\ UNCHANGED <<objects, state, seen, unavailable, verifying, asked>>
  BY DEF ReceiveWant
<1> QED BY <1>1, PendingStep, AllPruned

LEMMA DiscardStep ==
  ASSUME ClaimInv, NEW s \in Sessions, NEW id \in Ids, Discard(s, id)
  PROVE  ClaimInv'
<1>1. PICK f : f = pending[id]
  OBVIOUS
<1> DEFINE g == [Released(f) EXCEPT !.suppliers = @ \ {s}, !.received = FALSE]
           h == [f EXCEPT !.suppliers = IF seen[s][id] = "old" THEN @ \ {s} ELSE @]
           e == IF f.owner = s THEN IF g.suppliers = {} THEN NoFetch ELSE g ELSE h
<1>2. Open' = Open /\ UNCHANGED <<objects, state, asked>>
  BY DEF Discard, Open
<1>3. /\ seen' \in [Sessions -> [Ids -> Hints]] /\ unavailable' \in [Sessions -> SUBSET Ids]
      /\ verifying' \in [Sessions -> SUBSET Ids]
      /\ \A x \in Sessions : \A k \in Ids : k \in verifying[x] /\ ~(x = s /\ k = id) => k \in verifying'[x]
  BY DEF Discard, ClaimInv, Hints
<1>4. \A k \in Ids : Good(k, pending[k], asked, verifying, Open)
  BY DEF ClaimInv, AllGood
<1>5. Good(id, f, asked, verifying, Open) /\ pending \in [Ids -> Fetches]
  BY <1>1, <1>4 DEF ClaimInv, AllGood
<1>6. pending' = [pending EXCEPT ![id] = e]
  <2>1. CASE f.owner = s
    BY <1>1, <2>1 DEF Discard
  <2>2. CASE f.owner # s
    <3>1. pending' = [pending EXCEPT ![id].suppliers = IF seen[s][id] = "old" THEN @ \ {s} ELSE @]
      BY <1>1, <2>2 DEF Discard
    <3> QED BY <1>1, <1>5, <2>2, <3>1
  <2> QED BY <2>1, <2>2
<1>7. PICK S : S = f.suppliers \ {s}
  OBVIOUS
<1>8. S \in SUBSET Sessions /\ S \subseteq Open /\ f.suppliers \in SUBSET Sessions /\ f.suppliers \subseteq Open
  BY <1>5, <1>7 DEF Good, Sound, Backed, Fetches
<1>9. Good(id, g, asked, verifying', Open)
  <2>1. None \in Anyone /\ Sound(f)
    BY <1>5 DEF Anyone, Good
  <2>2. /\ Good(id, [Released(f) EXCEPT !.suppliers = S, !.received = FALSE], asked, verifying', Open)
        /\ Released(f).suppliers = f.suppliers
    BY <1>8, <2>1, ReleasedGood
  <2>3. g = [Released(f) EXCEPT !.suppliers = S, !.received = FALSE]
    BY <1>7, <2>2
  <2> QED BY <2>2, <2>3
<1>10. f.owner # s => Good(id, h, asked, verifying', Open)
  <2> SUFFICES ASSUME f.owner # s PROVE Good(id, h, asked, verifying', Open)
    OBVIOUS
  <2>1. PICK T : T = IF seen[s][id] = "old" THEN S ELSE f.suppliers
    OBVIOUS
  <2>2. T \in SUBSET Sessions /\ T \subseteq Open
    BY <1>8, <2>1
  <2>3. h = [f EXCEPT !.suppliers = T]
    BY <1>7, <2>1
  <2> HIDE DEF h
  <2>4. Good(id, h, asked, verifying, Open) /\ h.owner = f.owner
    BY <1>5, <2>2, <2>3, SuppliedGood
  <2>5. f.owner \in Anyone
    BY <1>5 DEF Good, Sound, Fetches
  <2>6. h.owner # None /\ id \in verifying[h.owner] => id \in verifying'[h.owner]
    BY <1>3, <2>4, <2>5 DEF Anyone
  <2> QED BY <2>4, <2>6, GoodMoves
<1> HIDE DEF g, h
<1>11. Good(id, e, asked, verifying', Open)
  BY <1>9, <1>10, NoFetchGood
<1> HIDE DEF e
<1>12. \A k \in Ids : pending'[k] = IF k = id THEN e ELSE pending[k]
  BY <1>5, <1>6
<1>13. pending' \in [Ids -> Fetches]
  BY <1>5, <1>6, <1>11 DEF Good, Sound
<1>14. ASSUME NEW k \in Ids PROVE Good(k, pending'[k], asked, verifying', Open)
  <2>1. CASE k = id
    BY <1>11, <1>12, <2>1
  <2>2. CASE k # id
    <3>1. PICK x : x = pending[k]
      OBVIOUS
    <3>2. Good(k, x, asked, verifying, Open)
      BY <1>4, <3>1
    <3>3. x.owner \in Anyone
      BY <3>2 DEF Good, Sound, Fetches
    <3>4. x.owner # None /\ k \in verifying[x.owner] => k \in verifying'[x.owner]
      BY <1>3, <2>2, <3>3 DEF Anyone
    <3>5. Good(k, x, asked, verifying', Open)
      BY <3>2, <3>4, GoodMoves
    <3> QED BY <1>12, <2>2, <3>1, <3>5
  <2> QED BY <2>1, <2>2
<1>15. AllGood(pending', asked', verifying', Open')
  BY <1>2, <1>13, <1>14 DEF AllGood
<1> QED BY <1>2, <1>3, <1>15 DEF ClaimInv

LEMMA TimeStep ==
  ASSUME ClaimInv, NEW id \in Ids, FetchIdles(id) \/ ObjectExpires(id) \/ Evicted(id)
  PROVE  ClaimInv'
<1>1. CASE FetchIdles(id)
  <2>1. PICK f : f = pending[id]
    OBVIOUS
  <2>2. pending \in [Ids -> Fetches] /\ Good(id, f, asked, verifying, Open)
    BY <2>1 DEF ClaimInv, AllGood
  <2>3. f \in Fetches
    BY <2>2 DEF Good, Sound
  <2>4. PICK g : g = [f EXCEPT !.idle = TRUE]
    OBVIOUS
  <2>5. /\ g \in Fetches /\ g.owner = f.owner /\ g.request = f.request /\ g.got = f.got
        /\ g.received = f.received /\ g.suppliers = f.suppliers
    BY <2>3, <2>4 DEF Fetches
  <2>6. Good(id, g, asked, verifying, Open)
    BY <2>2, <2>5 DEF Good, Sound, Backed, Ask
  <2>7. pending' = [pending EXCEPT ![id] = g]
    BY <1>1, <2>1, <2>2, <2>4 DEF FetchIdles
  <2>8. AllGood(pending', asked, verifying, Open)
    BY <2>6, <2>7, SetGood DEF ClaimInv
  <2> QED BY <1>1, <2>8, PendingStep DEF FetchIdles, sessionVars
<1>2. CASE ObjectExpires(id) \/ Evicted(id)
  <2>1. objects' \in [Ids -> Objects]
    <3>1. objects \in [Ids -> Objects] /\ NoObject \in Objects
      BY DEF ClaimInv, Objects, NoObject
    <3>2. CASE ObjectExpires(id)
      BY <3>1, <3>2 DEF ObjectExpires
    <3>3. CASE Evicted(id)
      <4>1. [objects[id] EXCEPT !.body = FALSE] \in Objects
        BY <3>1 DEF Objects
      <4>2. objects' = [objects EXCEPT ![id] = [objects[id] EXCEPT !.body = FALSE]]
        BY <3>3 DEF Evicted
      <4> QED BY <3>1, <4>1, <4>2
    <3> QED BY <1>2, <3>2, <3>3
  <2>2. UNCHANGED <<pending, state, seen, unavailable, verifying, asked>>
    BY <1>2 DEF ObjectExpires, Evicted, sessionVars
  <2>3. Open' = Open
    BY <2>2 DEF Open
  <2> QED BY <2>1, <2>2, <2>3 DEF ClaimInv
<1> QED BY <1>1, <1>2

LEMMA HintStep ==
  ASSUME ClaimInv, NEW s \in Sessions, NEW id \in Ids, HintAges(s, id)
  PROVE  ClaimInv'
<1>1. UNCHANGED <<objects, state, unavailable, verifying, asked>> /\ Open' = Open
  BY DEF HintAges, Open
<1>2. CASE seen' = [seen EXCEPT ![s][id] = "old"] /\ UNCHANGED pending
  <2>1. seen' \in [Sessions -> [Ids -> Hints]]
    BY <1>2 DEF ClaimInv, Hints
  <2> QED BY <1>1, <1>2, <2>1 DEF ClaimInv
<1>3. CASE pending' = [pending EXCEPT ![id].suppliers = @ \ {s}] /\ UNCHANGED seen
  <2>1. PICK f : f = pending[id]
    OBVIOUS
  <2>2. pending \in [Ids -> Fetches] /\ Good(id, f, asked, verifying, Open)
    BY <2>1 DEF ClaimInv, AllGood
  <2>3. PICK S : S = f.suppliers \ {s}
    OBVIOUS
  <2>4. S \in SUBSET Sessions /\ S \subseteq Open
    BY <2>2, <2>3 DEF Good, Sound, Backed, Fetches
  <2>5. PICK g : g = [f EXCEPT !.suppliers = S]
    OBVIOUS
  <2>6. Good(id, g, asked, verifying, Open)
    BY <2>2, <2>4, <2>5, SuppliedGood
  <2>7. pending' = [pending EXCEPT ![id] = g]
    BY <1>3, <2>1, <2>2, <2>3, <2>5
  <2>8. AllGood(pending', asked, verifying, Open)
    BY <2>6, <2>7, SetGood DEF ClaimInv
  <2> QED BY <1>1, <1>3, <2>8, PendingStep
<1> QED BY <1>2, <1>3 DEF HintAges

LEMMA OpenStep ==
  ASSUME ClaimInv, NEW s \in Sessions, NewSession(s)
  PROVE  ClaimInv'
<1>1. UNCHANGED <<objects, pending, seen, unavailable, verifying, asked>>
  BY DEF NewSession, poolVars
<1>2. state' \in [Sessions -> {"new", "open", "closed"}] /\ Open \subseteq Open'
  BY DEF NewSession, ClaimInv, Open
<1>3. ASSUME NEW k \in Ids PROVE Good(k, pending'[k], asked', verifying', Open')
  <2>1. PICK f : f = pending[k]
    OBVIOUS
  <2>2. Good(k, f, asked, verifying, Open)
    BY <2>1 DEF ClaimInv, AllGood
  <2>3. PICK Q : Q = Open'
    OBVIOUS
  <2>4. Good(k, f, asked, verifying, Q)
    BY <1>2, <2>2, <2>3, GoodMoves
  <2> QED BY <1>1, <2>1, <2>3, <2>4
<1>4. AllGood(pending', asked', verifying', Open')
  BY <1>1, <1>3 DEF AllGood, ClaimInv
<1> QED BY <1>1, <1>2, <1>4 DEF ClaimInv

\* Every step keeps the claims.
LEMMA ClaimStep == ClaimInv /\ [Next]_vars => ClaimInv'
<1> SUFFICES ASSUME ClaimInv, [Next]_vars PROVE ClaimInv'
  OBVIOUS
<1>1. CASE UNCHANGED vars
  <2>1. Open' = Open
    BY <1>1 DEF Open, vars
  <2> QED BY <1>1, <2>1 DEF vars, ClaimInv
<1>2. CASE \E id \in Ids : FetchIdles(id) \/ ObjectExpires(id) \/ Evicted(id)
  BY <1>2, TimeStep
<1>3. ASSUME NEW s \in Sessions, NewSession(s) PROVE ClaimInv'
  BY <1>3, OpenStep
<1>4. ASSUME NEW s \in Sessions, Close(s) PROVE ClaimInv'
  <2>1. AllGood(pending, asked, verifying, Open)
    BY DEF ClaimInv
  <2> QED BY <1>4, <2>1, CloseSessionStep DEF Close
<1>5. ASSUME NEW s \in Sessions, NEW budget, Poll(s, budget) PROVE ClaimInv'
  BY <1>5, PollStep
<1>6. ASSUME NEW s \in Sessions, NEW t \in asked[s], ReceiveUnavailable(s, t) \/ ReceiveData(s, t) PROVE ClaimInv'
  BY <1>6, UnavailableStep, DataStep
<1>7. ASSUME NEW s \in Sessions, NEW id \in Ids,
             ReceiveHave(s, id) \/ ReceiveGone(s, id) \/ HintAges(s, id) \/ Offer(s, id) \/ Discard(s, id)
      PROVE  ClaimInv'
  BY <1>7, HaveStep, GoneStep, HintStep, DirectoryStep, DiscardStep
<1>8. ASSUME NEW s \in Sessions, NEW id \in Ids, NEW b \in BOOLEAN, Resolve(s, id, b) \/ Lookup(s, id, b) PROVE ClaimInv'
  BY <1>8, DirectoryStep
<1>9. ASSUME NEW s \in Sessions, NEW id, NEW request, NEW d, ReceiveWant(s, id, request, d) PROVE ClaimInv'
  BY <1>9, WantStep
<1> QED BY <1>1, <1>2, <1>3, <1>4, <1>5, <1>6, <1>7, <1>8, <1>9 DEF Next

\* A session's uploads change together with the slots in use.
LEMMA LineStep ==
  ASSUME UploadInv, NEW s \in Sessions, NEW w \in Lines, NEW n \in Int, n - Len(w) = serving - Len(out[s]),
         out' = [out EXCEPT ![s] = w], serving' = n
  PROVE  UploadInv'
<1>1. out \in [Sessions -> Lines] /\ serving = Cardinality(Slots(out, Sessions))
  BY DEF UploadInv, SlotsBalance, Slots
<1>2. PICK c : c = Cardinality(Slots(out', Sessions))
  OBVIOUS
<1>3. out' \in [Sessions -> Lines] /\ c = serving - Len(out[s]) + Len(w)
  BY <1>1, <1>2, SlotsChange
<1>4. Len(w) \in Nat /\ Len(out[s]) \in Nat /\ serving \in Nat
  <2>1. out[s] \in Lines /\ Sessions \in SUBSET Sessions
    BY <1>1
  <2> QED BY <1>1, <2>1, LineSlots, FiniteSlots
<1>5. n = c
  BY <1>3, <1>4
<1> QED BY <1>2, <1>3, <1>5 DEF UploadInv, SlotsBalance, Slots

LEMMA ServingNat ==
  ASSUME UploadInv
  PROVE  serving \in Nat /\ \A s \in Sessions : out[s] \in Lines /\ out[s] \in Seq(Upload) /\ Len(out[s]) \in Nat
<1>1. out \in [Sessions -> Lines] /\ serving = Cardinality(Slots(out, Sessions))
  BY DEF UploadInv, SlotsBalance, Slots
<1>2. serving \in Nat
  <2>1. Sessions \in SUBSET Sessions
    OBVIOUS
  <2> QED BY <1>1, <2>1, FiniteSlots
<1>3. \A s \in Sessions : out[s] \in Lines /\ Len(out[s]) \in Nat
  BY <1>1, LineSlots
<1> QED BY <1>2, <1>3 DEF Lines

LEMMA CloseUploads ==
  ASSUME UploadInv, NEW s \in Sessions, NEW P, CloseSession(s, P)
  PROVE  UploadInv'
<1>1. serving - Len(out[s]) \in Int /\ <<>> \in Lines /\ Len(<<>>) = 0
  BY ServingNat DEF Lines
<1>2. PICK n \in Int : n = serving - Len(out[s])
  BY <1>1
<1>3. n - Len(<<>>) = serving - Len(out[s])
  BY <1>1, <1>2
<1>4. out' = [out EXCEPT ![s] = <<>>] /\ serving' = n
  BY <1>2 DEF CloseSession
<1>5. PICK w : w = <<>>
  OBVIOUS
<1>6. w \in Lines /\ n - Len(w) = serving - Len(out[s]) /\ out' = [out EXCEPT ![s] = w]
  BY <1>1, <1>3, <1>4, <1>5
<1> QED BY <1>4, <1>6, LineStep

LEMMA WantUploads ==
  ASSUME UploadInv, NEW s \in Sessions, NEW id \in Ids, NEW request \in Uploads, NEW d \in BOOLEAN,
         ReceiveWant(s, id, request, d)
  PROVE  UploadInv'
<1> DEFINE x == [id |-> id, request |-> request, left |-> Chunks]
           u == [out |-> Append(out[s], x), serving |-> serving + 1, sent |-> 0]
           v == IF d THEN u ELSE chunk(u)
<1>1. x \in Upload
  <2>1. Chunks \in 1 .. Chunks
    BY Limits
  <2> QED BY <2>1 DEF Upload
<1>2. CASE out' = out /\ serving' = serving
  BY <1>2 DEF UploadInv, SlotsBalance
<1>3. CASE out' = [out EXCEPT ![s] = v.out] /\ serving' = v.serving
  <2> HIDE DEF x
  <2>1. /\ Append(out[s], x) \in Lines /\ Len(Append(out[s], x)) = Len(out[s]) + 1
        /\ serving \in Nat /\ Len(out[s]) \in Nat
    BY <1>1, ServingNat DEF Lines
  <2>2. PICK w : w = Append(out[s], x)
    OBVIOUS
  <2>3. u \in Line /\ u.serving - Len(u.out) = serving - Len(out[s])
    <3>1. u = [out |-> w, serving |-> serving + 1, sent |-> 0] /\ w \in Lines /\ Len(w) = Len(out[s]) + 1
      BY <2>1, <2>2
    <3> HIDE DEF u
    <3>2. u \in Line /\ u.out = w /\ u.serving = serving + 1
      BY <2>1, <3>1 DEF Line
    <3> QED BY <2>1, <3>1, <3>2
  <2> HIDE DEF u
  <2>4. v \in Line /\ v.serving - Len(v.out) = serving - Len(out[s])
    BY <2>3, ChunkLine
  <2> HIDE DEF v
  <2>5. v.out \in Lines /\ v.serving \in Int
    BY <2>4 DEF Line
  <2> QED BY <1>3, <2>4, <2>5, LineStep
<1>4. \/ out' = out /\ serving' = serving
      \/ out' = [out EXCEPT ![s] = v.out] /\ serving' = v.serving
  BY DEF ReceiveWant
<1> QED BY <1>2, <1>3, <1>4

LEMMA PollUploads ==
  ASSUME UploadInv, NEW s \in Sessions, NEW budget \in 0 .. PollBudget, Poll(s, budget)
  PROVE  UploadInv'
<1>1. PICK k : k = IF budget < PollChunks THEN budget ELSE PollChunks
  OBVIOUS
<1>2. k \in 0 .. PollChunks
  BY <1>1, Limits
<1>3. PICK u : u = Sending(s)[k]
  OBVIOUS
<1>4. u \in Line /\ u.serving - Len(u.out) = serving - Len(out[s])
  <2>1. out[s] \in Seq(Upload) /\ serving \in Int
    BY ServingNat
  <2> QED BY <1>2, <1>3, <2>1, SendingLine
<1>5. u.out \in Lines /\ u.serving \in Int
  BY <1>4 DEF Line
<1>6. out' = [out EXCEPT ![s] = u.out] /\ serving' = u.serving
  BY <1>1, <1>3 DEF Poll
<1> QED BY <1>4, <1>5, <1>6, LineStep

\* Every step keeps the slots.
LEMMA UploadStep == UploadInv /\ [Next]_vars => UploadInv'
<1> SUFFICES ASSUME UploadInv, [Next]_vars PROVE UploadInv'
  OBVIOUS
<1>1. ASSUME UNCHANGED <<out, serving>> PROVE UploadInv'
  BY <1>1 DEF UploadInv, SlotsBalance
<1>2. CASE UNCHANGED vars
  BY <1>1, <1>2 DEF vars
<1>3. CASE \E id \in Ids : FetchIdles(id) \/ ObjectExpires(id) \/ Evicted(id)
  BY <1>1, <1>3 DEF FetchIdles, ObjectExpires, Evicted, sessionVars
<1>4. ASSUME NEW s \in Sessions, NewSession(s) \/ Close(s) PROVE UploadInv'
  BY <1>1, <1>4, CloseUploads DEF NewSession, Close, poolVars
<1>5. ASSUME NEW s \in Sessions, NEW budget \in 0 .. PollBudget, Poll(s, budget) PROVE UploadInv'
  BY <1>5, PollUploads
<1>6. ASSUME NEW s \in Sessions, NEW t \in asked[s], ReceiveUnavailable(s, t) \/ ReceiveData(s, t) PROVE UploadInv'
  <2>1. CASE CloseSession(s, prunedPending)
    BY <2>1, CloseUploads
  <2>2. CASE UNCHANGED <<out, serving>>
    BY <1>1, <2>2
  <2> QED BY <1>6, <2>1, <2>2 DEF ReceiveUnavailable, ReceiveData, sessionVars
<1>7. ASSUME NEW s \in Sessions, NEW id \in Ids,
             ReceiveHave(s, id) \/ ReceiveGone(s, id) \/ HintAges(s, id) \/ Offer(s, id) \/ Discard(s, id)
      PROVE  UploadInv'
  <2>1. UNCHANGED <<out, serving>>
    BY <1>7 DEF ReceiveHave, ReceiveGone, HintAges, Offer, Discard, sessionVars
  <2> QED BY <1>1, <2>1
<1>8. ASSUME NEW s \in Sessions, NEW id \in Ids, NEW b \in BOOLEAN, Resolve(s, id, b) \/ Lookup(s, id, b) PROVE UploadInv'
  BY <1>1, <1>8 DEF Resolve, Lookup, sessionVars
<1>9. ASSUME NEW s \in Sessions, NEW id \in Ids, NEW request \in Uploads, NEW d \in BOOLEAN, ReceiveWant(s, id, request, d)
      PROVE  UploadInv'
  BY <1>9, WantUploads
<1> QED BY <1>2, <1>3, <1>4, <1>5, <1>6, <1>7, <1>8, <1>9 DEF Next

LEMMA Start == Init => IInv
<1> SUFFICES ASSUME Init PROVE IInv
  OBVIOUS
<1>1. Asking(asked)
  <2>1. AskedOK({})
    BY FS_EmptySet DEF AskedOK, Unique
  <2> QED BY <2>1 DEF Init, Asking
<1>2. AllGood(pending, asked, verifying, Open)
  <2>1. NoFetch \in Fetches
    BY NoFetchGood DEF Good, Sound
  <2> QED BY <2>1, NoFetchGood DEF Init, AllGood
<1>3. ClaimInv
  BY <1>1, <1>2 DEF Init, ClaimInv, Objects, NoObject, Hints
<1>4. UploadInv
  <2>1. out \in [Sessions -> Lines]
    BY DEF Init, Lines
  <2>2. UNION {{s} \X DOMAIN out[s] : s \in Sessions} = {}
    <3>1. \A s \in Sessions : DOMAIN out[s] = {}
      BY DEF Init
    <3> QED BY <3>1
  <2>3. Cardinality({}) = 0
    BY FS_EmptySet
  <2> QED BY <2>1, <2>2, <2>3 DEF UploadInv, SlotsBalance, Init
<1> QED BY <1>3, <1>4 DEF IInv

-----------------------------------------------------------------------------
(* The theorems.                                                           *)

\* What the pool keeps, whatever its sessions and their peers do.
THEOREM PoolInvariance == Spec => []IInv
<1>1. IInv /\ [Next]_vars => IInv'
  BY ClaimStep, UploadStep DEF IInv
<1> QED BY <1>1, Start, PTL DEF Spec

\* Types: no upload without a chunk to send, no download past its body.
THEOREM PoolTypeCorrect == Spec => []TypeOK
<1>1. IInv => TypeOK
  <2> SUFFICES ASSUME IInv PROVE TypeOK
    OBVIOUS
  <2>1. ClaimInv /\ UploadInv
    BY DEF IInv
  <2>2. ASSUME NEW id \in Ids PROVE LET f == pending[id] IN
          /\ f.owner \in Sessions \cup {None} /\ f.avoid \in Sessions \cup {None}
          /\ f.suppliers \subseteq Sessions
          /\ f.request \in Nat /\ f.got \in 0 .. Chunks
          /\ f.received \in BOOLEAN /\ f.idle \in BOOLEAN
    BY <2>1 DEF ClaimInv, AllGood, Fetches, Anyone
  <2>3. ASSUME NEW s \in Sessions, NEW i \in DOMAIN out[s] PROVE out[s][i].left \in 1 .. Chunks
    <3>1. out[s] \in Seq(Upload)
      BY <2>1, ServingNat
    <3>2. out[s][i] \in Upload
      BY <3>1
    <3> QED BY <3>2 DEF Upload
  <2>4. ASSUME NEW s \in Sessions, NEW t \in asked[s] PROVE t.id \in Ids /\ t.next \in 0 .. Chunks - 1
    BY <2>1 DEF ClaimInv, Asking, Asks
  <2>5. serving \in Nat
    BY <2>1, ServingNat
  <2> QED BY <2>1, <2>2, <2>3, <2>4, <2>5 DEF TypeOK, ClaimInv, Objects, Hints
<1> QED BY <1>1, PoolInvariance, PTL

\* Upload slots are neither leaked nor freed twice.
THEOREM SlotsBalanced == Spec => []SlotsBalance
<1>1. IInv => SlotsBalance
  BY DEF IInv, UploadInv
<1> QED BY <1>1, PoolInvariance, PTL

\* A claim is held by an open session whose peer is sending exactly the chunk the pool
\* waits for, or whose adapter is verifying the body.
THEOREM ClaimsBacked == Spec => []ClaimBacked
<1>1. IInv => ClaimBacked
  BY DEF IInv, ClaimInv, AllGood, Good, Backed, Ask, ClaimBacked
<1> QED BY <1>1, PoolInvariance, PTL

-----------------------------------------------------------------------------
(* Claims that are kept.  As long as there is room among its suppliers for *)
(* every open session, the owner of a fetch whose hint is fresh is one of  *)
(* them, so no prune takes the fetch from it.                              *)

Roomy == Cardinality(Open) <= MaxSuppliers

HeldBy(f, id, H) == f.owner # None /\ H[f.owner][id] = "fresh" => f.owner \in f.suppliers

Supplied == \A id \in Ids : HeldBy(pending[id], id, seen)

\* A complete body whose hint is fresh.
Firm(id) == pending[id].owner # None /\ pending[id].received /\ seen[pending[id].owner][id] = "fresh"

Same(f, g) == g.owner = f.owner /\ g.received = f.received

Keeps ==
  \A id \in Ids : Firm(id) /\ id \in verifying'[pending[id].owner] /\ ~objects'[id].known
                  => Same(pending[id], pending'[id])

LEMMA RoomToJoin ==
  ASSUME Roomy, NEW id, NEW f, NEW A, NEW V, Good(id, f, A, V, Open), f # NoFetch, NEW s \in Open
  PROVE  s \in joined(f, s).suppliers
<1>1. f.suppliers \subseteq Open /\ f \in Fetches
  BY DEF Good, Sound, Backed
<1>2. IsFiniteSet(Open) /\ Cardinality(Open) \in Nat /\ MaxSuppliers \in Nat
  <2>1. Open \in SUBSET Sessions
    BY DEF Open
  <2> HIDE DEF Open
  <2> QED BY <2>1, FS_Subset, FS_CardinalityType, Limits, PoolAssumption
<1> HIDE DEF Open
<1>3. CASE s \in f.suppliers
  BY <1>1, <1>3 DEF joined, Fetches
<1>4. CASE s \notin f.suppliers
  <2>1. f.suppliers \in SUBSET Open /\ f.suppliers # Open
    BY <1>1, <1>4
  <2>2. PICK S : S = f.suppliers
    OBVIOUS
  <2>3. IsFiniteSet(S) /\ Cardinality(S) <= Cardinality(Open) /\ Cardinality(S) # Cardinality(Open)
    BY <1>2, <2>1, <2>2, FS_Subset
  <2>4. Cardinality(S) \in Nat
    BY <2>3, FS_CardinalityType
  <2>5. Cardinality(S) < MaxSuppliers
    BY <1>2, <2>3, <2>4 DEF Roomy
  <2> QED BY <1>1, <2>2, <2>5 DEF joined, Fetches
<1> QED BY <1>3, <1>4

LEMMA PrunedHeld ==
  ASSUME ClaimInv, Supplied, NEW id \in Ids
  PROVE  HeldBy(prunedPending[id], id, seen) /\ (Firm(id) => Same(pending[id], prunedPending[id]))
<1> DEFINE f == pending[id]
           live == {s \in f.suppliers : seen[s][id] # "old"}
           kept == [f EXCEPT !.suppliers = live]
<1>1. f \in Fetches /\ HeldBy(f, id, seen)
  BY DEF ClaimInv, AllGood, Supplied
<1>2. prunedPending[id] = IF live = {} THEN NoFetch
                        ELSE IF f.owner # None /\ ~f.received /\ f.idle
                             THEN [Released(kept) EXCEPT !.avoid = f.owner] ELSE kept
  BY DEF prunedFetch, prunedPending
<1>3. f.owner # None /\ seen[f.owner][id] = "fresh" => f.owner \in live
  BY <1>1 DEF HeldBy
<1> HIDE DEF live
<1>4. kept \in Fetches => kept.owner = f.owner /\ kept.suppliers = live /\ kept.received = f.received
  BY <1>1 DEF Fetches
<1>5. kept \in Fetches
  <2>1. live \in SUBSET Sessions
    BY <1>1 DEF live, Fetches
  <2> QED BY <1>1, <2>1 DEF Fetches
<1>6. [Released(kept) EXCEPT !.avoid = f.owner].owner = None
  <2> HIDE DEF kept
  <2> QED BY <1>5 DEF Released, Fetches
<1> HIDE DEF kept
<1>7. HeldBy(prunedPending[id], id, seen)
  BY <1>2, <1>3, <1>4, <1>5, <1>6, NoFetchGood DEF HeldBy
<1>8. Firm(id) => Same(pending[id], prunedPending[id])
  BY <1>2, <1>3, <1>4, <1>5 DEF Firm, Same
<1> QED BY <1>7, <1>8

HintsOf(m, s) == [seen EXCEPT ![s] = m.seen]

MemSame(m) == \A id \in Ids : Firm(id) => Same(pending[id], m.pending[id])

MemHeld(m, s) == MemSame(m) /\ \A id \in Ids : HeldBy(m.pending[id], id, HintsOf(m, s))

\* Forgetting a hint does no harm.
LEMMA ForgetsHeld ==
  ASSUME ClaimInv, NEW s \in Open, NEW id \in Ids, NEW m, MemGood(m, s), MemHeld(m, s)
  PROVE  MemHeld(Forgets(m, id), s)
<1>1. m \in Mems /\ s \in Sessions /\ seen \in [Sessions -> [Ids -> Hints]]
  BY DEF MemGood, Open, ClaimInv
<1> DEFINE n == Forgets(m, id)
<1>2. n.pending = m.pending /\ n.seen = [m.seen EXCEPT ![id] = "none"]
  BY <1>1 DEF Mems, Forgets
<1> HIDE DEF n
<1>3. ASSUME NEW x \in Sessions, NEW k \in Ids, HintsOf(n, s)[x][k] = "fresh" PROVE HintsOf(m, s)[x][k] = "fresh"
  BY <1>1, <1>2, <1>3 DEF HintsOf, Mems
<1>4. ASSUME NEW k \in Ids PROVE HeldBy(n.pending[k], k, HintsOf(n, s))
  <2>1. m.pending[k].owner \in Anyone
    BY <1>1 DEF Mems, Fetches
  <2> QED BY <1>2, <1>3, <2>1 DEF HeldBy, MemHeld, Anyone
<1> QED BY <1>2, <1>4 DEF MemHeld, MemSame, n

\* A session that claims a fetch, or finds it claimed, is one of its suppliers.
LEMMA ClaimHeld ==
  ASSUME ClaimInv, Roomy, NEW s \in Open, NEW id \in Ids, NEW m, MemGood(m, s), MemSame(m),
         \A k \in Ids \ {id} : HeldBy(m.pending[k], k, HintsOf(m, s)),
         \/ HeldBy(m.pending[id], id, HintsOf(m, s))
         \/ m.pending[id].owner = s /\ ~objects[id].known /\ id \notin m.unavailable
  PROVE  MemHeld(claim(m, s, id), s)
<1>1. m \in Mems /\ s \in Sessions /\ s # None
  BY Limits DEF MemGood, Open
<1>2. PICK f : f = m.pending[id]
  OBVIOUS
<1>3. Good(id, f, Asked(s, m), verifying, Open) /\ f \in Fetches
  BY <1>2 DEF MemGood, Good, Sound
<1>4. CASE objects[id].known /\ claim(m, s, id) = Forgets(m, id)
  <2>1. MemHeld(m, s)
    BY <1>4 DEF MemHeld
  <2> QED BY <1>4, <2>1, ForgetsHeld
<1>5. CASE id \in m.unavailable /\ claim(m, s, id) = m
  BY <1>5 DEF MemHeld
<1>6. ASSUME NEW n, NEW g, n.pending = [m.pending EXCEPT ![id] = g], n.seen = m.seen,
             Firm(id) => Same(f, g), HeldBy(g, id, HintsOf(m, s))
      PROVE  MemHeld(n, s)
  <2>1. \A k \in Ids : n.pending[k] = IF k = id THEN g ELSE m.pending[k]
    BY <1>1, <1>6 DEF Mems
  <2>2. HintsOf(n, s) = HintsOf(m, s)
    BY <1>6 DEF HintsOf
  <2>3. \A k \in Ids : HeldBy(n.pending[k], k, HintsOf(n, s))
    BY <1>6, <2>1, <2>2
  <2>4. MemSame(n)
    BY <1>2, <1>6, <2>1 DEF MemSame, Same
  <2> QED BY <2>3, <2>4 DEF MemHeld
<1>7. CASE ~objects[id].known /\ claim(m, s, id) = Joins(m, s, id)
  <2>1. PICK g : g = joined(f, s)
    OBVIOUS
  <2>2. g.owner = f.owner /\ g.received = f.received /\ f.suppliers \subseteq g.suppliers
    BY <1>3, <2>1, JoinedGood
  <2>3. f # NoFetch => s \in g.suppliers
    BY <1>3, <2>1, RoomToJoin
  <2>4. Joins(m, s, id).pending = [m.pending EXCEPT ![id] = g] /\ Joins(m, s, id).seen = m.seen
    BY <1>1, <1>2, <2>1 DEF Joins, Mems
  <2>5. HeldBy(g, id, HintsOf(m, s))
    <3>1. CASE HeldBy(f, id, HintsOf(m, s))
      BY <2>2, <3>1 DEF HeldBy
    <3>2. CASE f.owner = s
      <4>1. f # NoFetch
        BY <1>1, <3>2, NoFetchGood
      <4> QED BY <2>2, <2>3, <3>2, <4>1 DEF HeldBy
    <3> QED BY <1>2, <3>1, <3>2
  <2> QED BY <1>6, <1>7, <2>2, <2>4, <2>5 DEF Same
<1>8. CASE ~objects[id].known /\ m.pending[id].owner = None /\ claim(m, s, id) = Takes(m, s, id)
  <2>1. PICK r : r = NewRequest(s, id)
    OBVIOUS
  <2>2. PICK g : g = NewClaim(f, s, r)
    OBVIOUS
  <2>3. Takes(m, s, id).pending = [m.pending EXCEPT ![id] = g] /\ Takes(m, s, id).seen = m.seen
    BY <1>1, <1>2, <2>1, <2>2 DEF Takes, Mems
  <2>4. g.suppliers = Base(f, s).suppliers /\ g.owner = s
    <3>1. Base(f, s) \in Fetches
      <4>1. CASE f = NoFetch
        BY <1>1, <1>3, <4>1 DEF Base, Fetches
      <4>2. CASE f # NoFetch
        <5>1. Good(id, joined(f, s), Asked(s, m), verifying, Open)
          BY <1>3, JoinedGood
        <5> QED BY <4>2, <5>1 DEF Base, Good, Sound
      <4> QED BY <4>1, <4>2
    <3> QED BY <2>2, <3>1 DEF NewClaim, Fetches
  <2>5. s \in Base(f, s).suppliers
    <3>1. CASE f = NoFetch
      BY <3>1 DEF Base, NoFetch
    <3>2. CASE f # NoFetch
      BY <1>3, <3>2, RoomToJoin DEF Base
    <3> QED BY <3>1, <3>2
  <2>6. ~Firm(id)
    <3>1. Firm(id) => m.pending[id].owner = pending[id].owner
      BY DEF MemSame, Same
    <3> QED BY <1>8, <3>1 DEF Firm
  <2> QED BY <1>6, <1>8, <2>3, <2>4, <2>5, <2>6 DEF HeldBy
<1> QED BY <1>4, <1>5, <1>7, <1>8, ClaimCases

LEMMA WriteHeld ==
  ASSUME NEW s, NEW m, MemHeld(m, s), Write(s, m)
  PROVE  Supplied' /\ Keeps
<1>1. pending' = m.pending /\ seen' = HintsOf(m, s)
  BY DEF Write, HintsOf
<1> QED BY <1>1 DEF MemHeld, MemSame, Supplied, Keeps

LEMMA MemoryHeld ==
  ASSUME ClaimInv, Supplied, NEW s \in Open
  PROVE  MemHeld(Memory(s), s) /\ HintsOf(Memory(s), s) = seen
<1>1. Memory(s).pending = prunedPending /\ Memory(s).seen = seen[s]
  BY DEF Memory
<1>2. HintsOf(Memory(s), s) = seen
  BY <1>1 DEF HintsOf, ClaimInv
<1> QED BY <1>1, <1>2, PrunedHeld DEF MemHeld, MemSame

LEMMA HaveHeld ==
  ASSUME ClaimInv, Supplied, Roomy, NEW s \in Sessions, NEW id \in Ids, ReceiveHave(s, id)
  PROVE  Supplied' /\ Keeps
<1>1. s \in Open
  BY DEF ReceiveHave
<1>2. PICK m : m = Memory(s)
  OBVIOUS
<1>3. MemGood(m, s) /\ MemHeld(m, s) /\ HintsOf(m, s) = seen
  BY <1>1, <1>2, MemoryGood, MemoryHeld
<1>4. CASE objects[id].known
  <2>1. Write(s, m)
    BY <1>2, <1>4 DEF ReceiveHave
  <2> QED BY <1>3, <2>1, WriteHeld
<1>5. CASE ~objects[id].known
  <2>1. PICK n : n = [m EXCEPT !.seen[id] = "fresh", !.unavailable = @ \ {id}]
    OBVIOUS
  <2>2. m \in Mems
    BY <1>3 DEF MemGood
  <2>3. /\ n \in Mems /\ n.pending = m.pending /\ n.want = m.want /\ n.seen = [m.seen EXCEPT ![id] = "fresh"]
        /\ id \notin n.unavailable
    BY <2>1, <2>2 DEF Mems, Hints
  <2>4. MemGood(n, s)
    BY <1>3, <2>3 DEF MemGood, Asked
  <2>5. MemSame(n)
    BY <1>3, <2>3 DEF MemHeld, MemSame
  <2>6. \A x \in Sessions : \A k \in Ids : x # s \/ k # id => HintsOf(n, s)[x][k] = HintsOf(m, s)[x][k]
    BY <2>2, <2>3 DEF HintsOf, ClaimInv, Mems
  <2>7. \A k \in Ids : m.pending[k].owner \in Anyone
    BY <2>2 DEF Mems, Fetches
  <2>8. \A k \in Ids : k # id \/ m.pending[k].owner # s => HeldBy(n.pending[k], k, HintsOf(n, s))
    BY <1>3, <2>3, <2>6, <2>7 DEF MemHeld, HeldBy, Anyone
  <2>9. MemHeld(claim(n, s, id), s)
    BY <1>1, <1>5, <2>3, <2>4, <2>5, <2>8, ClaimHeld
  <2>10. Write(s, claim(n, s, id))
    BY <1>2, <1>5, <2>1 DEF ReceiveHave
  <2> QED BY <2>9, <2>10, WriteHeld
<1> QED BY <1>4, <1>5

LEMMA GoneHeld ==
  ASSUME ClaimInv, Supplied, NEW s \in Sessions, NEW id \in Ids, ReceiveGone(s, id)
  PROVE  Supplied' /\ Keeps
<1>1. s \in Open /\ s # None
  BY Limits DEF ReceiveGone
<1>2. PICK m : m = Memory(s)
  OBVIOUS
<1>3. PICK e : e = m.pending[id]
  OBVIOUS
<1> DEFINE f == [e EXCEPT !.suppliers = @ \ {s}]
           g == IF f.owner = s /\ ~f.received
                THEN [Released(f) EXCEPT !.avoid = s] ELSE f
           h == IF g.owner = None /\ g.suppliers = {} THEN NoFetch ELSE g
           n == [m EXCEPT !.seen[id] = "none", !.unavailable = @ \ {id}, !.pending[id] = h]
<1>4. MemGood(m, s) /\ MemHeld(m, s) /\ HintsOf(m, s) = seen
  BY <1>1, <1>2, MemoryGood, MemoryHeld
<1>5. m \in Mems /\ e \in Fetches /\ HeldBy(e, id, seen) /\ (Firm(id) => Same(pending[id], e))
  BY <1>3, <1>4 DEF MemGood, Mems, MemHeld, MemSame
<1>6. f \in Fetches /\ f.owner = e.owner /\ f.received = e.received /\ f.suppliers = e.suppliers \ {s}
  BY <1>5 DEF Fetches
<1>7. [Released(f) EXCEPT !.avoid = s].owner = None /\ [Released(f) EXCEPT !.avoid = s] \in Fetches
  <2>1. s \in Anyone /\ None \in Anyone /\ 0 \in 0 .. Chunks
    BY Limits DEF Anyone
  <2> HIDE DEF f
  <2> QED BY <1>6, <2>1 DEF Released, Fetches
<1> HIDE DEF f
<1>8. /\ h \in Fetches
      /\ h.owner # None => h.owner = e.owner /\ e.suppliers \ {s} \subseteq h.suppliers
      /\ e.owner # None /\ e.received => Same(e, h)
  BY <1>6, <1>7, NoFetchGood DEF Same, Good, Sound
<1>9. Write(s, n)
  BY <1>2, <1>3 DEF ReceiveGone, f
<1> HIDE DEF h
<1>10. n.pending = [m.pending EXCEPT ![id] = h] /\ n.seen = [m.seen EXCEPT ![id] = "none"]
  BY <1>5 DEF Mems
<1> HIDE DEF n
<1>11. \A k \in Ids : n.pending[k] = IF k = id THEN h ELSE m.pending[k]
  BY <1>5, <1>10 DEF Mems
<1>12. /\ HintsOf(n, s)[s][id] = "none"
       /\ \A x \in Sessions : \A k \in Ids : x # s \/ k # id => HintsOf(n, s)[x][k] = HintsOf(m, s)[x][k]
  BY <1>5, <1>10 DEF HintsOf, ClaimInv, Mems
<1>13. MemHeld(n, s)
  <2>1. MemSame(n)
    BY <1>4, <1>5, <1>8, <1>11 DEF MemHeld, MemSame, Same, Firm
  <2>2. ASSUME NEW k \in Ids, k # id PROVE HeldBy(n.pending[k], k, HintsOf(n, s))
    <3>1. m.pending[k].owner \in Anyone
      BY <1>5 DEF Mems, Fetches
    <3> QED BY <1>4, <1>11, <1>12, <2>2, <3>1 DEF MemHeld, HeldBy, Anyone
  <2>3. HeldBy(h, id, HintsOf(n, s))
    <3>1. h.owner \in Anyone
      BY <1>8 DEF Fetches
    <3> SUFFICES ASSUME h.owner # None, HintsOf(n, s)[h.owner][id] = "fresh" PROVE h.owner \in h.suppliers
      BY DEF HeldBy
    <3>2. h.owner # s /\ h.owner = e.owner /\ seen[e.owner][id] = "fresh" /\ e.suppliers \ {s} \subseteq h.suppliers
      BY <1>4, <1>8, <1>12, <3>1 DEF Anyone
    <3> QED BY <1>5, <3>2 DEF HeldBy
  <2> QED BY <1>11, <2>1, <2>2, <2>3 DEF MemHeld
<1> QED BY <1>9, <1>13, WriteHeld

LEMMA PollHeld ==
  ASSUME ClaimInv, Supplied, Roomy, NEW s \in Sessions, NEW budget, Poll(s, budget)
  PROVE  Supplied' /\ Keeps
<1>1. s \in Open
  BY DEF Poll
<1>2. PICK room : Write(s, Claiming(s, room)[Len(IDs)])
  BY DEF Poll
<1> DEFINE S == {m \in Mems : MemGood(m, s) /\ MemHeld(m, s)}
<1>3. \A m : MemGood(m, s) /\ MemHeld(m, s) => m \in S
  BY DEF MemGood
<1>4. Memory(s) \in S /\ AskedOK(asked[s]) /\ asked \in [Sessions -> SUBSET Asks]
  BY <1>1, <1>3, MemoryGood, MemoryHeld
<1>5. ASSUME NEW m \in S, NEW id \in Ids PROVE visit(m, s, id, room) \in S
  <2>1. MemGood(m, s) /\ MemHeld(m, s)
    BY <1>5
  <2>2. MemGood(visit(m, s, id, room), s)
    BY <1>1, <1>4, <2>1, VisitGood
  <2>3. visit(m, s, id, room) \in {Forgets(m, id), claim(m, s, id), m}
    BY DEF visit, Forgets
  <2>4. MemHeld(claim(m, s, id), s)
    BY <1>1, <2>1, ClaimHeld DEF MemHeld
  <2>5. MemHeld(Forgets(m, id), s)
    BY <1>1, <2>1, ForgetsHeld
  <2> QED BY <1>3, <2>1, <2>2, <2>3, <2>4, <2>5
<1>6. Claiming(s, room)[Len(IDs)] \in S
  <2> HIDE DEF S
  <2> QED BY <1>4, <1>5, ClaimingStays
<1> QED BY <1>2, <1>6, WriteHeld

\* One fetch changes, the others are pruned.
LEMMA ChangeHeld ==
  ASSUME ClaimInv, Supplied, UNCHANGED seen, NEW id \in Ids, NEW g, pending' = [prunedPending EXCEPT ![id] = g],
         HeldBy(g, id, seen), Firm(id) => Same(pending[id], g) \/ objects'[id].known
  PROVE  Supplied' /\ Keeps
<1>1. prunedPending \in [Ids -> Fetches]
  BY AllPruned DEF AllGood
<1>2. \A k \in Ids : pending'[k] = IF k = id THEN g ELSE prunedPending[k]
  BY <1>1
<1>3. Supplied'
  BY <1>2, PrunedHeld DEF Supplied
<1>4. Keeps
  BY <1>2, PrunedHeld DEF Keeps
<1> QED BY <1>3, <1>4

LEMMA PruneHeld ==
  ASSUME ClaimInv, Supplied, UNCHANGED seen, pending' = prunedPending
  PROVE  Supplied' /\ Keeps
BY PrunedHeld DEF Supplied, Keeps

LEMMA CloseHeld ==
  ASSUME ClaimInv, NEW s \in Sessions, NEW P, P \in [Ids -> Fetches], CloseSession(s, P),
         \A id \in Ids : HeldBy(P[id], id, seen) /\ (Firm(id) => Same(pending[id], P[id]))
  PROVE  Supplied' /\ Keeps
<1>1. \A x \in Sessions : /\ x # s => seen'[x] = seen[x]
                          /\ x = s => \A k \in Ids : seen'[x][k] = "none"
                          /\ x = s => verifying'[x] = {}
  BY DEF CloseSession, ClaimInv
<1>2. ASSUME NEW id \in Ids
      PROVE  LET l == Leave(P[id], s) IN
             /\ l.owner # None => l.owner = P[id].owner /\ l.owner # s /\ P[id].suppliers \ {s} \subseteq l.suppliers
             /\ P[id].owner \notin {s, None} /\ P[id].owner \in P[id].suppliers => Same(P[id], l)
  <2>1. PICK f : f = P[id]
    OBVIOUS
  <2> DEFINE g == [f EXCEPT !.suppliers = @ \ {s}]
             h == IF f.owner = s THEN [Released(g) EXCEPT !.received = FALSE] ELSE g
  <2>2. f \in Fetches
    BY <2>1
  <2>3. g \in Fetches /\ g.owner = f.owner /\ g.received = f.received /\ g.suppliers = f.suppliers \ {s}
    BY <2>2 DEF Fetches
  <2>4. Leave(f, s) = IF h.suppliers = {} THEN NoFetch ELSE h
    BY DEF Leave
  <2> HIDE DEF g
  <2>5. [Released(g) EXCEPT !.received = FALSE].owner = None
    BY <2>3 DEF Released, Fetches
  <2>6. CASE f.owner = s
    <3>1. Leave(f, s).owner = None
      BY <2>4, <2>5, <2>6, NoFetchGood
    <3> QED BY <2>1, <2>6, <3>1
  <2>7. CASE f.owner # s
    <3>1. Leave(f, s) = IF g.suppliers = {} THEN NoFetch ELSE g
      BY <2>4, <2>7
    <3> QED BY <2>1, <2>3, <2>7, <3>1, NoFetchGood DEF Same
  <2> QED BY <2>6, <2>7
<1>3. \A id \in Ids : pending'[id] = Leave(P[id], s)
  BY DEF CloseSession
<1>4. Supplied'
  <2> SUFFICES ASSUME NEW id \in Ids, pending'[id].owner # None, seen'[pending'[id].owner][id] = "fresh"
               PROVE  pending'[id].owner \in pending'[id].suppliers
    BY DEF Supplied, HeldBy
  <2>1. PICK l : l = Leave(P[id], s)
    OBVIOUS
  <2>2. l.owner # None /\ l.owner = P[id].owner /\ l.owner # s /\ P[id].suppliers \ {s} \subseteq l.suppliers
    BY <1>2, <1>3, <2>1
  <2>3. l.owner \in Sessions
    BY <2>2 DEF Fetches, Anyone
  <2>4. seen[l.owner][id] = "fresh"
    BY <1>1, <1>3, <2>1, <2>2, <2>3
  <2> QED BY <1>3, <2>1, <2>2, <2>4 DEF HeldBy
<1>5. Keeps
  <2> SUFFICES ASSUME NEW id \in Ids, Firm(id), id \in verifying'[pending[id].owner]
               PROVE  Same(pending[id], pending'[id])
    BY DEF Keeps
  <2>1. P[id].owner = pending[id].owner /\ P[id].received = pending[id].received
    BY DEF Same
  <2>2. pending[id].owner \in Sessions /\ pending[id].owner # None /\ seen[pending[id].owner][id] = "fresh"
    BY DEF Firm, ClaimInv, AllGood, Fetches, Anyone
  <2>3. pending[id].owner # s
    BY <1>1, <2>2
  <2>4. P[id].owner \in P[id].suppliers
    BY <2>1, <2>2 DEF HeldBy
  <2>5. Same(P[id], Leave(P[id], s))
    BY <1>2, <2>1, <2>2, <2>3, <2>4
  <2> QED BY <1>3, <2>1, <2>5 DEF Same
<1> QED BY <1>4, <1>5

LEMMA AnswerHeld ==
  ASSUME ClaimInv, Supplied, NEW s \in Sessions, NEW t \in asked[s], ReceiveUnavailable(s, t) \/ ReceiveData(s, t)
  PROVE  Supplied' /\ Keeps
<1>1. PICK id \in Ids : id = t.id
  BY DEF ClaimInv, Asking, Asks
<1>2. PICK f : f = prunedPending[id]
  OBVIOUS
<1>3. f \in Fetches /\ HeldBy(f, id, seen) /\ (Firm(id) => Same(pending[id], f)) /\ prunedPending \in [Ids -> Fetches]
  BY <1>2, AllPruned, PrunedHeld DEF AllGood
<1>4. CASE pending' = prunedPending /\ UNCHANGED seen
  BY <1>4, PruneHeld
<1>5. CASE ~f.received /\ UNCHANGED seen /\ pending' = [prunedPending EXCEPT ![id] = [Released(f) EXCEPT !.suppliers = @ \ {s}]]
  <2>1. PICK g : g = [Released(f) EXCEPT !.suppliers = @ \ {s}]
    OBVIOUS
  <2>2. g.owner = None
    BY <1>3, <2>1 DEF Released, Fetches
  <2>3. HeldBy(g, id, seen) /\ ~Firm(id)
    BY <1>3, <1>5, <2>2 DEF HeldBy, Firm, Same
  <2> QED BY <1>5, <2>1, <2>3, ChangeHeld
<1>6. CASE ~f.received /\ UNCHANGED seen /\ pending' = [prunedPending EXCEPT ![id] = Accepted(f)]
  <2>1. PICK g : g = Accepted(f)
    OBVIOUS
  <2>2. g.owner = f.owner /\ g.suppliers = f.suppliers
    BY <1>3, <2>1 DEF Accepted, Fetches
  <2>3. HeldBy(g, id, seen) /\ ~Firm(id)
    BY <1>3, <1>6, <2>2 DEF HeldBy, Firm, Same
  <2> QED BY <1>6, <2>1, <2>3, ChangeHeld
<1>7. CASE CloseSession(s, prunedPending)
  BY <1>3, <1>7, CloseHeld, PrunedHeld
<1>8. CASE ReceiveUnavailable(s, t)
  BY <1>1, <1>2, <1>4, <1>5, <1>8 DEF ReceiveUnavailable, Memory
<1>9. CASE ReceiveData(s, t)
  BY <1>1, <1>2, <1>4, <1>6, <1>7, <1>9 DEF ReceiveData, Wanted, sessionVars
<1> QED BY <1>8, <1>9

LEMMA DirectoryHeld ==
  ASSUME ClaimInv, Supplied, NEW s \in Sessions, NEW id \in Ids, NEW b \in BOOLEAN,
         Offer(s, id) \/ Lookup(s, id, b) \/ Resolve(s, id, b)
  PROVE  Supplied' /\ Keeps
<1>1. UNCHANGED seen
  BY DEF Offer, Lookup, Resolve, sessionVars
<1>2. CASE pending' = prunedPending
  BY <1>1, <1>2, PruneHeld
<1>3. ASSUME NEW body, NEW load, remember(id, body, load) PROVE Supplied' /\ Keeps
  <2>1. pending' = [prunedPending EXCEPT ![id] = NoFetch]
    BY <1>3 DEF remember
  <2>2. objects'[id].known
    BY <1>3 DEF remember
  <2>3. HeldBy(NoFetch, id, seen)
    BY NoFetchGood DEF HeldBy
  <2> QED BY <1>1, <2>1, <2>2, <2>3, ChangeHeld
<1> QED BY <1>2, <1>3 DEF Offer, Lookup, Resolve

LEMMA DiscardHeld ==
  ASSUME ClaimInv, Supplied, NEW s \in Sessions, NEW id \in Ids, Discard(s, id)
  PROVE  Supplied' /\ Keeps
<1>1. PICK f : f = pending[id]
  OBVIOUS
<1>2. /\ pending \in [Ids -> Fetches] /\ f \in Fetches /\ HeldBy(f, id, seen) /\ f.owner \in Anyone /\ s # None
  BY <1>1, Limits DEF ClaimInv, AllGood, Supplied, Fetches
<1>3. /\ id \notin verifying'[s] /\ seen'[s][id] = "none"
      /\ \A x \in Sessions : \A k \in Ids : x # s \/ k # id => seen'[x][k] = seen[x][k]
  BY DEF Discard, ClaimInv
<1>4. PICK e : /\ pending' = [pending EXCEPT ![id] = e]
               /\ e.owner # None => e.owner = f.owner /\ f.suppliers \ {s} \subseteq e.suppliers
               /\ f.owner # s => Same(f, e)
               /\ e.owner # s
  <2>1. CASE f.owner = s
    <3>1. PICK g : g = [Released(f) EXCEPT !.suppliers = @ \ {s}, !.received = FALSE]
      OBVIOUS
    <3>2. g.owner = None
      BY <1>2, <3>1 DEF Released, Fetches
    <3>3. pending' = [pending EXCEPT ![id] = IF g.suppliers = {} THEN NoFetch ELSE g]
      BY <1>1, <2>1, <3>1 DEF Discard
    <3>4. PICK e : e = IF g.suppliers = {} THEN NoFetch ELSE g
      OBVIOUS
    <3>5. e.owner = None
      BY <3>2, <3>4, NoFetchGood
    <3> QED BY <1>2, <2>1, <3>3, <3>4, <3>5
  <2>2. CASE f.owner # s
    <3>1. PICK e : e = [f EXCEPT !.suppliers = IF seen[s][id] = "old" THEN f.suppliers \ {s} ELSE f.suppliers]
      OBVIOUS
    <3>2. e.owner = f.owner /\ e.received = f.received /\ f.suppliers \ {s} \subseteq e.suppliers
      BY <1>2, <3>1 DEF Fetches
    <3>3. pending' = [pending EXCEPT ![id].suppliers = IF seen[s][id] = "old" THEN @ \ {s} ELSE @]
      BY <1>1, <2>2 DEF Discard
    <3>4. pending' = [pending EXCEPT ![id] = e]
      BY <1>1, <1>2, <3>1, <3>3
    <3> QED BY <2>2, <3>2, <3>4 DEF Same
  <2> QED BY <2>1, <2>2
<1>5. \A k \in Ids : pending'[k] = IF k = id THEN e ELSE pending[k]
  BY <1>2, <1>4
<1>6. Supplied'
  <2>1. ASSUME NEW k \in Ids PROVE HeldBy(pending'[k], k, seen')
    <3>1. CASE k = id
      BY <1>2, <1>3, <1>4, <1>5, <3>1 DEF HeldBy, Anyone
    <3>2. CASE k # id
      <4>1. pending[k].owner \in Anyone
        BY <1>2 DEF Fetches
      <4> QED BY <1>3, <1>5, <3>2, <4>1 DEF HeldBy, Supplied, Anyone
    <3> QED BY <3>1, <3>2
  <2> QED BY <2>1 DEF Supplied
<1>7. Keeps
  BY <1>1, <1>3, <1>4, <1>5 DEF Keeps, Same
<1> QED BY <1>6, <1>7

LEMMA TimeHeld ==
  ASSUME ClaimInv, Supplied, NEW id \in Ids,
         FetchIdles(id) \/ ObjectExpires(id) \/ Evicted(id) \/ \E s \in Sessions : HintAges(s, id)
  PROVE  Supplied' /\ Keeps
<1>0. pending \in [Ids -> Fetches] /\ seen \in [Sessions -> [Ids -> Hints]]
  BY DEF ClaimInv, AllGood
<1>1. CASE pending' = pending /\ seen' = seen
  BY <1>1 DEF Supplied, Keeps, Same
<1>2. CASE \E s \in Sessions : seen' = [seen EXCEPT ![s][id] = "old"] /\ pending' = pending
  <2>1. \A x \in Sessions : \A k \in Ids : seen'[x][k] = "fresh" => seen[x][k] = "fresh"
    BY <1>0, <1>2
  <2>2. \A k \in Ids : pending[k].owner \in Anyone
    BY <1>0 DEF Fetches
  <2> QED BY <1>2, <2>1, <2>2 DEF Supplied, Keeps, Same, HeldBy, Anyone
<1>3. ASSUME NEW g, pending' = [pending EXCEPT ![id] = g], seen' = seen, Same(pending[id], g), HeldBy(g, id, seen)
      PROVE  Supplied' /\ Keeps
  <2>1. \A k \in Ids : pending'[k] = IF k = id THEN g ELSE pending[k]
    BY <1>0, <1>3
  <2> QED BY <1>3, <2>1 DEF Supplied, Keeps, Same
<1>4. PICK f : f = pending[id]
  OBVIOUS
<1>5. f \in Fetches /\ HeldBy(f, id, seen)
  BY <1>0, <1>4 DEF Supplied
<1>6. ASSUME NEW s \in Sessions, seen[s][id] = "none", seen' = seen, pending' = [pending EXCEPT ![id].suppliers = @ \ {s}]
      PROVE  Supplied' /\ Keeps
  <2>1. PICK g : g = [f EXCEPT !.suppliers = f.suppliers \ {s}]
    OBVIOUS
  <2>2. g.owner = f.owner /\ g.received = f.received /\ g.suppliers = f.suppliers \ {s}
    BY <1>5, <2>1 DEF Fetches
  <2>3. pending' = [pending EXCEPT ![id] = g]
    BY <1>0, <1>4, <1>6, <2>1
  <2> QED BY <1>3, <1>4, <1>5, <1>6, <2>2, <2>3 DEF Same, HeldBy
<1>7. CASE FetchIdles(id)
  <2>1. PICK g : g = [f EXCEPT !.idle = TRUE]
    OBVIOUS
  <2>2. g.owner = f.owner /\ g.received = f.received /\ g.suppliers = f.suppliers
    BY <1>5, <2>1 DEF Fetches
  <2>3. pending' = [pending EXCEPT ![id] = g] /\ seen' = seen
    BY <1>0, <1>4, <1>7, <2>1 DEF FetchIdles, sessionVars
  <2> QED BY <1>3, <1>4, <1>5, <2>2, <2>3 DEF Same, HeldBy
<1>8. CASE ObjectExpires(id) \/ Evicted(id)
  BY <1>1, <1>8 DEF ObjectExpires, Evicted, sessionVars
<1>9. CASE \E s \in Sessions : HintAges(s, id)
  BY <1>2, <1>6, <1>9 DEF HintAges
<1> QED BY <1>7, <1>8, <1>9

\* Every step keeps its owner among the suppliers, and its claim.
LEMMA HeldStep == ClaimInv /\ Roomy /\ Supplied /\ [Next]_vars => Supplied' /\ Keeps
<1> SUFFICES ASSUME ClaimInv, Roomy, Supplied, [Next]_vars PROVE Supplied' /\ Keeps
  OBVIOUS
<1>1. CASE pending' = pending /\ seen' = seen
  BY <1>1 DEF Supplied, Keeps, Same
<1>2. CASE UNCHANGED vars
  BY <1>1, <1>2 DEF vars
<1>3. CASE \E id \in Ids : FetchIdles(id) \/ ObjectExpires(id) \/ Evicted(id)
  BY <1>3, TimeHeld
<1>4. ASSUME NEW s \in Sessions, NewSession(s) PROVE Supplied' /\ Keeps
  BY <1>1, <1>4 DEF NewSession, poolVars
<1>5. ASSUME NEW s \in Sessions, Close(s) PROVE Supplied' /\ Keeps
  <2>1. pending \in [Ids -> Fetches] /\ \A id \in Ids : HeldBy(pending[id], id, seen) /\ Same(pending[id], pending[id])
    BY DEF ClaimInv, AllGood, Supplied, Same
  <2> QED BY <1>5, <2>1, CloseHeld DEF Close
<1>6. ASSUME NEW s \in Sessions, NEW budget, Poll(s, budget) PROVE Supplied' /\ Keeps
  BY <1>6, PollHeld
<1>7. ASSUME NEW s \in Sessions, NEW t \in asked[s], ReceiveUnavailable(s, t) \/ ReceiveData(s, t) PROVE Supplied' /\ Keeps
  BY <1>7, AnswerHeld
<1>8. ASSUME NEW s \in Sessions, NEW id \in Ids,
             ReceiveHave(s, id) \/ ReceiveGone(s, id) \/ HintAges(s, id) \/ Offer(s, id) \/ Discard(s, id)
      PROVE  Supplied' /\ Keeps
  BY <1>8, HaveHeld, GoneHeld, TimeHeld, DirectoryHeld, DiscardHeld
<1>9. ASSUME NEW s \in Sessions, NEW id \in Ids, NEW b \in BOOLEAN, Resolve(s, id, b) \/ Lookup(s, id, b)
      PROVE  Supplied' /\ Keeps
  BY <1>9, DirectoryHeld
<1>10. ASSUME NEW s \in Sessions, NEW id, NEW request, NEW d, ReceiveWant(s, id, request, d) PROVE Supplied' /\ Keeps
  BY <1>10, PruneHeld DEF ReceiveWant
<1> QED BY <1>2, <1>3, <1>4, <1>5, <1>6, <1>7, <1>8, <1>9, <1>10 DEF Next

\* As long as no more than MaxSuppliers sessions are open, a body under verification
\* keeps its claim: neither the idle timer nor another session, request or object
\* makes a second download of it possible.
THEOREM ClaimsKept == Spec /\ []Roomy => ClaimKept
<1>1. Init => Supplied
  BY NoFetchGood DEF Init, Supplied, HeldBy
<1>2. ClaimInv /\ Keeps => (\A s \in Sessions : \A id \in verifying[s] \cap verifying'[s] :
          /\ pending[id].owner = s /\ pending[id].received
          /\ seen[s][id] = "fresh" /\ ~objects'[id].known
          => pending'[id].owner = s /\ pending'[id].received)
  <2> SUFFICES ASSUME ClaimInv, Keeps, NEW s \in Sessions, NEW id \in verifying[s] \cap verifying'[s],
                      pending[id].owner = s, pending[id].received, seen[s][id] = "fresh", ~objects'[id].known
               PROVE  pending'[id].owner = s /\ pending'[id].received
    OBVIOUS
  <2>1. id \in Ids /\ s # None
    BY Limits DEF ClaimInv
  <2> QED BY <2>1 DEF Keeps, Firm, Same
<1>3. IInv => ClaimInv
  BY DEF IInv
<1> QED BY <1>1, <1>2, <1>3, HeldStep, PoolInvariance, PTL DEF Spec, ClaimKept
=============================================================================
