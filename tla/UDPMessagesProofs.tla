-------------------------- MODULE UDPMessagesProofs --------------------------
(***************************************************************************)
(* Proofs about UDPMessages: the safety properties of the manager of UDP   *)
(* flows hold for any number of flows and messages, any limits, window and *)
(* chunk sizes.                                                            *)
(*                                                                         *)
(* The properties are not inductive.  The invariant IInv adds              *)
(*   - Joined: what the closer has joined stays free;                      *)
(*   - Vacant and Closing: a flow that is not live holds nothing, and the  *)
(*     manager's Close has every live flow on its list;                    *)
(*   - Sends: a queued message has sent what its log says, and the chunk   *)
(*     the scheduler carries is the next one, while the queue changes      *)
(*     under it;                                                           *)
(*   - Receives: every assembly lies in its flow's window and is marked    *)
(*     there, and a completed message is remembered as long as the window  *)
(*     can take a frame of it;                                             *)
(*   - the budgets as sums of what the flows hold, within the limits.      *)
(***************************************************************************)
EXTENDS UDPMessages, FiniteSetTheorems, TLAPS

-----------------------------------------------------------------------------
(* Sequences and sums.                                                     *)

\* The positions of a sequence form a finite set, and so do its subsets.
LEMMA Positions ==
  ASSUME NEW X, NEW s \in Seq(X), NEW I \in SUBSET DOMAIN s
  PROVE  /\ I \subseteq Nat /\ I \subseteq 1 .. Len(s)
         /\ IsFiniteSet(I) /\ Cardinality(I) \in Nat
<1>1. DOMAIN s = 1 .. Len(s) /\ Len(s) \in Nat
  OBVIOUS
<1>2. IsFiniteSet(1 .. Len(s))
  BY <1>1, FS_Interval
<1>3. IsFiniteSet(I)
  BY <1>1, <1>2, FS_Subset
<1> QED BY <1>1, <1>3, FS_CardinalityType

\* What At(s, I) is: the elements of s at I, each once.
LEMMA AtFacts ==
  ASSUME NEW X, NEW s \in Seq(X), NEW I \in SUBSET DOMAIN s
  PROVE  /\ At(s, I) \in Seq(X)
         /\ Len(At(s, I)) = Cardinality(I)
         /\ \E p \in Bijection(1 .. Cardinality(I), I) :
               \A k \in 1 .. Cardinality(I) : At(s, I)[k] = s[p[k]]
<1> DEFINE n == Cardinality(I)
           upTo(i) == {j \in I : j <= i}
           rank == [i \in I |-> Cardinality(upTo(i))]
           p == [k \in 1 .. n |-> CHOOSE i \in I : Cardinality(upTo(i)) = k]
<1>1. I \subseteq Nat /\ IsFiniteSet(I) /\ n \in Nat
  BY Positions
<1>2. ASSUME NEW i \in I
      PROVE  IsFiniteSet(upTo(i)) /\ Cardinality(upTo(i)) \in 1 .. n
  <2>1. IsFiniteSet(upTo(i)) /\ Cardinality(upTo(i)) <= n
    BY <1>1, FS_Subset
  <2>2. Cardinality(upTo(i)) \in Nat /\ upTo(i) # {}
    BY <1>1, <2>1, FS_CardinalityType
  <2>3. Cardinality(upTo(i)) # 0
    BY <2>1, <2>2, FS_EmptySet
  <2> QED BY <1>1, <2>1, <2>2, <2>3
<1>3. ASSUME NEW i \in I, NEW j \in I, i < j
      PROVE  Cardinality(upTo(i)) # Cardinality(upTo(j))
  <2>1. upTo(i) \in SUBSET upTo(j) /\ j \in upTo(j) /\ j \notin upTo(i)
    BY <1>1, <1>3
  <2>2. upTo(i) # upTo(j)
    BY <2>1
  <2> QED BY <1>2, <2>1, <2>2, FS_Subset
<1>4. rank \in Injection(I, 1 .. n)
  <2>1. rank \in [I -> 1 .. n]
    BY <1>2
  <2>2. ASSUME NEW i \in I, NEW j \in I, rank[i] = rank[j] PROVE i = j
    <3>1. ~(i < j) /\ ~(j < i)
      BY <1>3, <2>2
    <3> QED BY <1>1, <3>1
  <2> QED BY <2>1, <2>2 DEF Injection, IsInjective
<1>5. rank \in Surjection(I, 1 .. n)
  <2>1. IsFiniteSet(1 .. n) /\ Cardinality(1 .. n) = n
    BY <1>1, FS_Interval
  <2> QED BY <1>4, <2>1, FS_Injection
<1>6. ASSUME NEW k \in 1 .. n PROVE p[k] \in I /\ rank[p[k]] = k
  <2>1. PICK i \in I : rank[i] = k
    BY <1>5 DEF Surjection
  <2> QED BY <2>1
<1>7. p \in Bijection(1 .. n, I)
  <2>1. p \in [1 .. n -> I]
    BY <1>6
  <2>2. ASSUME NEW k \in 1 .. n, NEW l \in 1 .. n, p[k] = p[l] PROVE k = l
    BY <1>6, <2>2
  <2>3. ASSUME NEW i \in I PROVE \E k \in 1 .. n : p[k] = i
    <3>1. rank[i] \in 1 .. n
      BY <1>2
    <3>2. p[rank[i]] \in I /\ rank[p[rank[i]]] = rank[i]
      BY <1>6, <3>1
    <3>3. p[rank[i]] = i
      BY <1>4, <3>2 DEF Injection, IsInjective
    <3> QED BY <3>1, <3>3
  <2> QED BY <2>1, <2>2, <2>3 DEF Bijection, Injection, Surjection, IsInjective
<1>8. At(s, I) = [k \in 1 .. n |-> s[p[k]]]
  BY DEF At
<1>9. ASSUME NEW k \in 1 .. n PROVE s[p[k]] \in X
  <2>1. p[k] \in DOMAIN s
    BY <1>6
  <2> HIDE DEF p
  <2> QED BY <2>1
<1>10. At(s, I) \in Seq(X) /\ Len(At(s, I)) = n
  <2> HIDE DEF n, p
  <2> QED BY <1>1, <1>8, <1>9
<1>11. \A k \in 1 .. n : At(s, I)[k] = s[p[k]]
  BY <1>8
<1> HIDE DEF n, p
<1> QED BY <1>7, <1>10, <1>11 DEF n

\* Its elements are those of s at I.
LEMMA AtElements ==
  ASSUME NEW X, NEW s \in Seq(X), NEW I \in SUBSET DOMAIN s
  PROVE  /\ \A k \in DOMAIN At(s, I) : \E i \in I : At(s, I)[k] = s[i]
         /\ \A i \in I : \E k \in DOMAIN At(s, I) : At(s, I)[k] = s[i]
         /\ \A k, l \in DOMAIN At(s, I) : k # l =>
               \E i, j \in I : i # j /\ At(s, I)[k] = s[i] /\ At(s, I)[l] = s[j]
<1> DEFINE t == At(s, I)
           n == Cardinality(I)
<1>1. t \in Seq(X) /\ Len(t) = n
  BY AtFacts
<1>2. PICK p \in Bijection(1 .. n, I) : \A k \in 1 .. n : t[k] = s[p[k]]
  BY AtFacts
<1>3. DOMAIN t = 1 .. n
  BY <1>1
<1> HIDE DEF t, n
<1>4. /\ p \in [1 .. n -> I] /\ \A i \in I : \E k \in 1 .. n : p[k] = i
      /\ \A k, l \in 1 .. n : p[k] = p[l] => k = l
  BY <1>2 DEF Bijection, Injection, Surjection, IsInjective
<1>5. /\ \A k \in DOMAIN t : \E i \in I : t[k] = s[i]
      /\ \A i \in I : \E k \in DOMAIN t : t[k] = s[i]
  BY <1>2, <1>3, <1>4
<1>6. ASSUME NEW k \in DOMAIN t, NEW l \in DOMAIN t, k # l
      PROVE  \E i, j \in I : i # j /\ t[k] = s[i] /\ t[l] = s[j]
  <2>1. p[k] \in I /\ p[l] \in I /\ p[k] # p[l]
    BY <1>3, <1>4, <1>6
  <2> QED BY <1>2, <1>3, <2>1
<1> QED BY <1>5, <1>6 DEF t

\* How many positions of an assembly sequence belong to flow d.
Held(s, d) == {i \in DOMAIN s : s[i].flow = d}

\* At keeps as many assemblies of d as there are at I.
LEMMA AtCount ==
  ASSUME NEW X, NEW s \in Seq(X), NEW I \in SUBSET DOMAIN s, NEW d
  PROVE  Cardinality(Held(At(s, I), d)) = Cardinality(Held(s, d) \cap I)
<1> DEFINE t == At(s, I)
           n == Cardinality(I)
           S == Held(s, d) \cap I
           T == Held(t, d)
<1>1. t \in Seq(X) /\ Len(t) = n
  BY AtFacts
<1>2. PICK p \in Bijection(1 .. n, I) : \A k \in 1 .. n : t[k] = s[p[k]]
  BY AtFacts
<1>3. DOMAIN t = 1 .. n
  BY <1>1
<1>4. IsFiniteSet(T)
  BY <1>1, Positions DEF Held
<1> HIDE DEF t, n
<1>5. /\ p \in [1 .. n -> I] /\ \A i \in I : \E k \in 1 .. n : p[k] = i
      /\ \A k, l \in 1 .. n : p[k] = p[l] => k = l
  BY <1>2 DEF Bijection, Injection, Surjection, IsInjective
<1> DEFINE q == [k \in T |-> p[k]]
<1>6. T \subseteq 1 .. n
  BY <1>3 DEF Held
<1>7. ASSUME NEW k \in T PROVE p[k] \in S
  <2>1. k \in 1 .. n /\ t[k].flow = d
    BY <1>6 DEF Held
  <2>2. p[k] \in I /\ t[k] = s[p[k]]
    BY <1>2, <1>5, <2>1
  <2> QED BY <2>1, <2>2 DEF Held
<1>8. ASSUME NEW i \in S PROVE \E k \in T : p[k] = i
  <2>1. i \in I /\ s[i].flow = d
    BY DEF Held
  <2>2. PICK k \in 1 .. n : p[k] = i
    BY <1>5, <2>1
  <2>3. t[k].flow = d /\ k \in DOMAIN t
    BY <1>2, <1>3, <2>1, <2>2
  <2> QED BY <2>2, <2>3 DEF Held
<1>9. q \in Bijection(T, S)
  <2>1. q \in [T -> S]
    BY <1>7
  <2>2. ASSUME NEW k \in T, NEW l \in T, q[k] = q[l] PROVE k = l
    BY <1>5, <1>6, <2>2
  <2>3. ASSUME NEW i \in S PROVE \E k \in T : q[k] = i
    BY <1>8
  <2> HIDE DEF q, S, T
  <2> QED BY <2>1, <2>2, <2>3 DEF Bijection, Injection, Surjection, IsInjective
<1>10. Cardinality(S) = Cardinality(T)
  <2> HIDE DEF S, T, q
  <2> QED BY <1>4, <1>9, FS_Bijection DEF ExistsBijection
<1> QED BY <1>10 DEF t

-----------------------------------------------------------------------------
(* Totals and budgets.                                                     *)

Pairs(f, S) == UNION {{e} \X (1 .. f[e]) : e \in S}

\* A total over finitely many flows is a number.
LEMMA PairsFinite ==
  ASSUME NEW S, IsFiniteSet(S), NEW f, \A d \in S : f[d] \in Nat
  PROVE  IsFiniteSet(Pairs(f, S)) /\ Total(f, S) \in Nat
<1> DEFINE U == {{e} \X (1 .. f[e]) : e \in S}
           g == [e \in S |-> {e} \X (1 .. f[e])]
<1>1. ASSUME NEW T \in U PROVE IsFiniteSet(T)
  <2>1. PICK e \in S : T = {e} \X (1 .. f[e])
    OBVIOUS
  <2>2. IsFiniteSet({e}) /\ IsFiniteSet(1 .. f[e])
    <3>1. f[e] \in Int /\ 1 \in Int
      OBVIOUS
    <3> QED BY <3>1, FS_Singleton, FS_Interval
  <2> QED BY <2>1, <2>2, FS_Product
<1>2. g \in Surjection(S, U)
  BY DEF Surjection
<1>3. IsFiniteSet(U)
  <2> HIDE DEF g, U
  <2> QED BY <1>2, FS_Surjection
<1>4. IsFiniteSet(UNION U)
  <2> HIDE DEF U
  <2> QED BY <1>1, <1>3, FS_UNION
<1> QED BY <1>4, FS_CardinalityType DEF Pairs, Total

\* One flow more adds its value.
LEMMA TotalAdd ==
  ASSUME NEW S, IsFiniteSet(S), NEW f, \A d \in S : f[d] \in Nat,
         NEW e, e \notin S, f[e] \in Nat
  PROVE  Total(f, S \cup {e}) = Total(f, S) + f[e]
<1> DEFINE A == Pairs(f, S)
           B == {e} \X (1 .. f[e])
<1>1. IsFiniteSet(A) /\ Total(f, S) \in Nat
  BY PairsFinite
<1>2. IsFiniteSet(B) /\ Cardinality(B) = f[e]
  <2>1. IsFiniteSet({e}) /\ Cardinality({e}) = 1
    BY FS_Singleton
  <2>2. IsFiniteSet(1 .. f[e]) /\ Cardinality(1 .. f[e]) = f[e]
    BY FS_Interval
  <2>3. IsFiniteSet({e} \X (1 .. f[e])) /\ Cardinality({e} \X (1 .. f[e])) = 1 * f[e]
    <3> DEFINE Z == {e}
               R == 1 .. f[e]
    <3>1. IsFiniteSet(Z) /\ Cardinality(Z) = 1 /\ IsFiniteSet(R) /\ Cardinality(R) = f[e]
      BY <2>1, <2>2
    <3> HIDE DEF Z, R
    <3>2. IsFiniteSet(Z \X R) /\ Cardinality(Z \X R) = Cardinality(Z) * Cardinality(R)
      BY <3>1, FS_Product
    <3>3. IsFiniteSet(Z \X R) /\ Cardinality(Z \X R) = 1 * f[e]
      BY <3>1, <3>2
    <3> QED BY <3>3 DEF Z, R
  <2> QED BY <2>3
<1>3. A \cap B = {}
  BY DEF Pairs
<1>4. Pairs(f, S \cup {e}) = A \cup B
  BY DEF Pairs
<1>5. Cardinality(A \cap B) = 0
  BY <1>3, FS_EmptySet
<1>6. Cardinality(A \cup B) = Cardinality(A) + Cardinality(B) - Cardinality(A \cap B)
  <2> HIDE DEF A, B
  <2> QED BY <1>1, <1>2, FS_Union
<1>7. Total(f, S) = Cardinality(A) /\ Total(f, S \cup {e}) = Cardinality(A \cup B)
  BY <1>4 DEF Total, Pairs
<1> HIDE DEF A, B
<1> QED BY <1>1, <1>2, <1>5, <1>6, <1>7

\* The total depends on the values of f on S only.
LEMMA TotalSame ==
  ASSUME NEW S, NEW f, NEW g, \A d \in S : f[d] = g[d]
  PROVE  Total(f, S) = Total(g, S)
<1>1. {{e} \X (1 .. f[e]) : e \in S} = {{e} \X (1 .. g[e]) : e \in S}
  OBVIOUS
<1> QED BY <1>1 DEF Total

\* It changes with them.
LEMMA TotalChange ==
  ASSUME NEW S, IsFiniteSet(S), NEW f, NEW g, NEW e \in S,
         \A d \in S : f[d] \in Nat /\ g[d] \in Nat, \A d \in S \ {e} : f[d] = g[d]
  PROVE  Total(g, S) = Total(f, S) + (g[e] - f[e])
<1> DEFINE R == S \ {e}
<1>1. S = R \cup {e} /\ e \notin R
  OBVIOUS
<1>2. IsFiniteSet(R)
  BY FS_RemoveElement
<1>3. Total(f, R) = Total(g, R) /\ Total(f, R) \in Nat
  BY <1>2, TotalSame, PairsFinite
<1>4. Total(f, R \cup {e}) = Total(f, R) + f[e]
  BY <1>1, <1>2, TotalAdd
<1>5. Total(g, R \cup {e}) = Total(g, R) + g[e]
  BY <1>1, <1>2, TotalAdd
<1>6. Total(f, S) = Total(f, R) + f[e] /\ Total(g, S) = Total(g, R) + g[e]
  BY <1>1, <1>4, <1>5
<1>7. f[e] \in Nat /\ g[e] \in Nat
  OBVIOUS
<1> HIDE DEF R
<1> QED BY <1>3, <1>6, <1>7

\* The total of nothing is 0.
LEMMA TotalZero ==
  ASSUME NEW S, NEW f, \A d \in S : f[d] = 0
  PROVE  Total(f, S) = 0
<1>1. UNION {{e} \X (1 .. f[e]) : e \in S} = {}
  OBVIOUS
<1> QED BY <1>1, FS_EmptySet DEF Total

Usage == [flow : [Flows -> Int], peer : [Homes -> Int], node : Int]

Mates(h) == {e \in Flows : flow[e].home = h}

\* The budgets of u are the sums of f.
Sums(u, f) ==
    /\ \A e \in Flows : u.flow[e] = f[e]
    /\ \A h \in Homes : u.peer[h] = Total(f, Mates(h))
    /\ u.node = Total(f, Flows)

\* What a charge changes: the flow, its peer and the node.
LEMMA ChargeType ==
  ASSUME NEW u \in Usage, NEW e \in Flows, flow[e].home \in Homes, NEW n \in Int
  PROVE  /\ Charge(u, e, n) \in Usage
         /\ \A d \in Flows : Charge(u, e, n).flow[d] = IF d = e THEN u.flow[d] + n ELSE u.flow[d]
         /\ \A h \in Homes : Charge(u, e, n).peer[h] =
               IF h = flow[e].home THEN u.peer[h] + n ELSE u.peer[h]
         /\ Charge(u, e, n).node = u.node + n
<1>1. /\ u.flow \in [Flows -> Int] /\ u.peer \in [Homes -> Int] /\ u.node \in Int
  BY DEF Usage
<1> DEFINE F == [u.flow EXCEPT ![e] = @ + n]
           P == [u.peer EXCEPT ![flow[e].home] = @ + n]
           N == u.node + n
<1>2. F \in [Flows -> Int] /\ \A d \in Flows : F[d] = IF d = e THEN u.flow[d] + n ELSE u.flow[d]
  BY <1>1
<1>3. P \in [Homes -> Int] /\ \A h \in Homes : P[h] = IF h = flow[e].home THEN u.peer[h] + n ELSE u.peer[h]
  BY <1>1
<1>4. N \in Int
  BY <1>1
<1>5. Charge(u, e, n) = [flow |-> F, peer |-> P, node |-> N]
  BY DEF Charge
<1> HIDE DEF F, P
<1> QED BY <1>2, <1>3, <1>4, <1>5 DEF Usage

\* A charge of n goes with a flow that holds n more.
LEMMA ChargeSums ==
  ASSUME NEW u \in Usage, NEW e \in Flows, flow[e].home \in Homes, NEW n \in Int,
         NEW f \in [Flows -> Nat], NEW g \in [Flows -> Nat],
         g[e] = f[e] + n, \A d \in Flows \ {e} : g[d] = f[d], Sums(u, f)
  PROVE  Sums(Charge(u, e, n), g)
<1> DEFINE v == Charge(u, e, n)
<1>1. /\ v \in Usage
      /\ \A d \in Flows : v.flow[d] = IF d = e THEN u.flow[d] + n ELSE u.flow[d]
      /\ \A h \in Homes : v.peer[h] = IF h = flow[e].home THEN u.peer[h] + n ELSE u.peer[h]
      /\ v.node = u.node + n
  BY ChargeType
<1> HIDE DEF v
<1>2. IsFiniteSet(Flows)
  BY UDPAssumption
<1>3. g[e] - f[e] = n
  OBVIOUS
<1>4. v.node = Total(g, Flows)
  <2>1. Total(g, Flows) = Total(f, Flows) + (g[e] - f[e])
    <3>1. (\A d \in Flows : f[d] \in Nat /\ g[d] \in Nat) /\ \A d \in Flows \ {e} : f[d] = g[d]
      OBVIOUS
    <3> QED BY <1>2, <3>1, TotalChange
  <2> QED BY <1>1, <1>3, <2>1 DEF Sums
<1>5. ASSUME NEW h \in Homes PROVE v.peer[h] = Total(g, Mates(h))
  <2>1. IsFiniteSet(Mates(h)) /\ Mates(h) \subseteq Flows
    BY <1>2, FS_Subset DEF Mates
  <2>2. u.peer[h] = Total(f, Mates(h))
    BY DEF Sums
  <2>3. CASE h = flow[e].home
    <3>1. e \in Mates(h)
      BY <2>3 DEF Mates
    <3>2. Total(g, Mates(h)) = Total(f, Mates(h)) + (g[e] - f[e])
      BY <2>1, <3>1, TotalChange
    <3> QED BY <1>1, <1>3, <2>2, <2>3, <3>2
  <2>4. CASE h # flow[e].home
    <3>1. e \notin Mates(h)
      BY <2>4 DEF Mates
    <3>2. Total(g, Mates(h)) = Total(f, Mates(h))
      BY <2>1, <3>1, TotalSame
    <3> QED BY <1>1, <2>2, <2>4, <3>2
  <2> QED BY <2>3, <2>4
<1>6. ASSUME NEW d \in Flows PROVE v.flow[d] = g[d]
  BY <1>1 DEF Sums
<1> QED BY <1>4, <1>5, <1>6 DEF Sums, v
-----------------------------------------------------------------------------
(* The inductive invariant.                                                *)

Statuses == {"new", "open", "closing", "joined", "quiet", "retired"}
PCs      == {"idle", "picked", "locked", "checked", "settle", "closing", "stopped"}

FlowType == [status : Statuses, home : Homes \cup {0},
             attached : {"no", "local", "remote"}, chunk : 1 .. Maximum]
Chunk    == [stride : Nat, index : Nat]
Message  == [id : Nat, index : Nat, stride : Nat, wait : BOOLEAN]
Assembly == [flow : Flows, id : Nat \ {0}, count : Nat, present : SUBSET Nat]
SchedType == [pc : PCs, flow : Flows \cup {"none"}, id : Nat, chunk : Chunk,
              err : {"none", "full", "large", "failed", "refused", "closed", "expired"}]
Marks    == 0 .. 3
Slots    == 0 .. WindowSize - 1

MemoryType == [assemblies : Seq(Assembly), states : [Flows -> [Slots -> Marks]],
               high : [Flows -> Nat], rx : Usage]

\* The types of the manager and its flows, of the sending side, of the receiving side.
FlowTypes ==
    /\ traffic \in Traffic
    /\ manager \in {"open", "closing", "closed"}
    /\ flow \in [Flows -> FlowType]
    /\ \A e \in Flows : flow[e].status # "new" => flow[e].home \in Homes
    /\ closing \in Seq(Flows)

Running == sched.pc \notin {"idle", "stopped"}

SendTypes ==
    /\ sched \in SchedType
    /\ Running => sched.flow \in Flows
    /\ queue \in [Flows -> Seq(Message)]
    /\ nextID \in [Flows -> Nat \ {0}]
    /\ sending \in [Flows -> Nat]
    /\ tx \in Usage
    /\ DOMAIN log = Flows
    /\ \A e \in Flows : log[e] \in [1 .. traffic.sends[e] -> Seq(Chunk)]

RecvTypes ==
    /\ Memory \in MemoryType
    /\ completed \in [Flows -> SUBSET Nat] /\ \A e \in Flows : IsFiniteSet(completed[e])
    /\ held \in [Flows -> SUBSET Nat]
    /\ delivering \in [Flows -> BOOLEAN]
    /\ DOMAIN reassembled = Flows
    /\ \A e \in Flows : reassembled[e] \in [IDs(e) -> Nat]

\* What the closer has joined stays free: no transmission once it has joined the
\* sending direction, no delivery once it has joined the other.
Joined ==
    \A e \in Flows :
       /\ flow[e].status \in {"joined", "quiet", "retired"} => ~SendMuHeld(e)
       /\ flow[e].status \in {"quiet", "retired"} => ~delivering[e]

\* A flow that is not open yet, or retired, holds nothing.
Vacant ==
    \A e \in Flows :
       /\ flow[e].status = "new" => sending[e] = 0 /\ flow[e].home = 0
       /\ ~Live(e) => queue[e] = <<>> /\ completed[e] = {}

\* Once the manager closes, every flow left is one it has still to close.
Closing ==
    /\ manager # "open" => \A e \in Flows : Live(e) => \E i \in DOMAIN closing : closing[i] = e
    /\ manager = "closed" => closing = <<>>

\* The chunk that was taken last is not yet counted in the message.
Taken(e, id) == sched.pc = "settle" /\ sched.flow = e /\ sched.id = id /\ sched.err = "none"

\* A queued message is where its log is, and cut as the chunks in it.
Logged(e, m) ==
    LET c == log[e][m.id] IN
    /\ Len(c) = IF Taken(e, m.id) THEN m.index + 1 ELSE m.index
    /\ \A k \in DOMAIN c : c[k].stride = m.stride

InOrder(c) == \A k \in DOMAIN c : c[k].index = k - 1 /\ c[k].stride = c[1].stride /\ c[k].stride # 0

QueueOK(e) ==
    /\ \A i \in DOMAIN queue[e] : queue[e][i].id \in 1 .. nextID[e] - 1 /\ Logged(e, queue[e][i])
    /\ \A i, j \in DOMAIN queue[e] : queue[e][i].id = queue[e][j].id => i = j

LogOK(e) ==
    /\ sending[e] + nextID[e] <= traffic.sends[e] + 1
    /\ \A id \in DOMAIN log[e] : InOrder(log[e][id]) /\ (id >= nextID[e] => log[e][id] = <<>>)

\* The chunk the scheduler is about to hand over is the message's next one.
SchedOK ==
    LET e == sched.flow
        c == log[e][sched.id] IN
    /\ Running => sched.id \in 1 .. nextID[e] - 1
    /\ sched.pc \in {"locked", "checked"} =>
          /\ sched.chunk.stride # 0
          /\ \A i \in Position(queue[e], sched.id) :
                queue[e][i].stride = sched.chunk.stride /\ queue[e][i].index = sched.chunk.index
    /\ sched.pc = "checked" =>
          Len(c) = sched.chunk.index /\ \A k \in DOMAIN c : c[k].stride = sched.chunk.stride

Sends == SchedOK /\ \A e \in Flows : QueueOK(e) /\ LogOK(e)

\* What the window and the assemblies of a memory say: an assembly is in its
\* flow's window, alone, and marked so; a message completed is marked while the
\* window reaches it.
Windowed(m) ==
    \A i \in DOMAIN m.assemblies : LET a == m.assemblies[i] IN
       /\ Live(a.flow)
       /\ a.id <= m.high[a.flow] /\ m.high[a.flow] - WindowSize < a.id
       /\ m.states[a.flow][a.id % WindowSize] = 1

Alone(m) ==
    \A i, j \in DOMAIN m.assemblies :
       m.assemblies[i].flow = m.assemblies[j].flow /\ m.assemblies[i].id = m.assemblies[j].id => i = j

Remembers(m) ==
    \A e \in Flows : \A id \in IDs(e) :
       reassembled[e][id] # 0 =>
          /\ id <= m.high[e]
          /\ m.high[e] - WindowSize < id => m.states[e][id % WindowSize] = 2

Holding(m) == [e \in Flows |-> Cardinality(Held(m.assemblies, e)) + Cardinality(completed[e])]

Within(u, limits) ==
    /\ \A e \in Flows : u.flow[e] <= limits[1]
    /\ \A h \in Homes : u.peer[h] <= limits[2]
    /\ u.node <= limits[3]

MemoryOK(m) ==
    /\ Windowed(m) /\ Alone(m) /\ Remembers(m)
    /\ Sums(m.rx, Holding(m)) /\ Within(m.rx, LimitsRX)

\* A complete message with a reservation has a holder and was completed here, or
\* else is the one read from the local socket.
Reserved ==
    \A e \in Flows : \A id \in completed[e] :
       id \in held[e] /\ (id # 0 => id \in IDs(e) /\ reassembled[e][id] # 0)

Receives == MemoryOK(Memory) /\ Reserved /\ AtMostOnce

Budget == Sums(tx, Out) /\ Within(tx, LimitsTX)

IInv == /\ FlowTypes /\ SendTypes /\ RecvTypes
        /\ Joined /\ Vacant /\ Closing /\ Sends /\ Receives /\ Budget

-----------------------------------------------------------------------------
(* The memory of the receiving side.                                       *)

\* Two ids less than a window apart have different slots.
LEMMA SlotsDiffer ==
  ASSUME NEW a \in Nat, NEW b \in Nat, a < b, b < a + WindowSize
  PROVE  a % WindowSize # b % WindowSize
<1> DEFINE W == WindowSize
<1>1. W \in Nat \ {0}
  BY UDPAssumption
<1> HIDE DEF W
<1>2. a = (a \div W) * W + (a % W) /\ a \div W \in Int /\ a % W \in 0 .. W - 1
  BY <1>1
<1>3. b = (b \div W) * W + (b % W) /\ b \div W \in Int /\ b % W \in 0 .. W - 1
  BY <1>1
<1> DEFINE q == a \div W
           p == b \div W
           r == a % W
<1>4. SUFFICES ASSUME r = b % W PROVE FALSE
  BY DEF W
<1>5. a < b /\ b < a + W
  BY DEF W
<1>6. /\ q \in Int /\ p \in Int /\ r \in 0 .. W - 1
      /\ q * W + r < p * W + r /\ p * W + r < q * W + r + W
  BY <1>2, <1>3, <1>4, <1>5
<1> HIDE DEF q, p, r
<1> QED BY <1>1, <1>6

\* An id has a slot.
LEMMA SlotType ==
  ASSUME NEW a \in Nat
  PROVE  a % WindowSize \in Slots
<1>1. WindowSize \in Nat \ {0}
  BY UDPAssumption
<1> QED BY <1>1 DEF Slots

\* In one window, the slot tells the id.
LEMMA SlotTellsId ==
  ASSUME NEW a \in Nat, NEW b \in Nat, NEW h \in Nat, a <= h, b <= h,
         h - WindowSize < a, h - WindowSize < b, a % WindowSize = b % WindowSize
  PROVE  a = b
<1>1. WindowSize \in Nat \ {0}
  BY UDPAssumption
<1>2. a < b => b < a + WindowSize
  BY <1>1
<1>3. b < a => a < b + WindowSize
  BY <1>1
<1>4. ~(a < b) /\ ~(b < a)
  BY <1>2, <1>3, SlotsDiffer
<1> QED BY <1>4

\* The types of a memory, field by field.
LEMMA MemoryParts ==
  ASSUME NEW m \in MemoryType
  PROVE  /\ m.assemblies \in Seq(Assembly) /\ m.states \in [Flows -> [Slots -> Marks]]
         /\ m.high \in [Flows -> Nat] /\ m.rx \in Usage
         /\ \A i \in DOMAIN m.assemblies :
               /\ m.assemblies[i] \in Assembly
               /\ m.assemblies[i].flow \in Flows
               /\ m.assemblies[i].id \in Nat /\ m.assemblies[i].id # 0
               /\ m.assemblies[i].id % WindowSize \in Slots
<1>1. /\ m.assemblies \in Seq(Assembly) /\ m.states \in [Flows -> [Slots -> Marks]]
      /\ m.high \in [Flows -> Nat] /\ m.rx \in Usage
  BY DEF MemoryType
<1>2. ASSUME NEW i \in DOMAIN m.assemblies
      PROVE  /\ m.assemblies[i] \in Assembly
             /\ m.assemblies[i].flow \in Flows
             /\ m.assemblies[i].id \in Nat /\ m.assemblies[i].id # 0
  <2>1. m.assemblies[i] \in Assembly
    BY <1>1
  <2> QED BY <2>1 DEF Assembly
<1> QED BY <1>1, <1>2, SlotType

\* What the flows hold are numbers.
LEMMA HoldingType ==
  ASSUME RecvTypes, NEW m \in MemoryType
  PROVE  /\ Holding(m) \in [Flows -> Nat]
         /\ \A e \in Flows : /\ Cardinality(Held(m.assemblies, e)) \in Nat
                             /\ IsFiniteSet(Held(m.assemblies, e))
                             /\ Cardinality(completed[e]) \in Nat
<1>1. ASSUME NEW e \in Flows
      PROVE  /\ Cardinality(Held(m.assemblies, e)) \in Nat
             /\ IsFiniteSet(Held(m.assemblies, e)) /\ Cardinality(completed[e]) \in Nat
  <2>1. m.assemblies \in Seq(Assembly)
    BY MemoryParts
  <2>2. IsFiniteSet(completed[e])
    BY DEF RecvTypes
  <2> QED BY <2>1, <2>2, Positions, FS_CardinalityType DEF Held
<1> QED BY <1>1 DEF Holding

\* Assemblies of one flow go, and their reservations with them.
Dropped(m, e, out, S, H) ==
    [assemblies |-> At(m.assemblies, DOMAIN m.assemblies \ out), states |-> S, high |-> H,
     rx |-> Charge(m.rx, e, -Cardinality(out))]

Subsumed(n, m) ==
    \A k \in DOMAIN n.assemblies : \E i \in DOMAIN m.assemblies : n.assemblies[k] = m.assemblies[i]

\* Assemblies of e may go while the window and its marks move with those that stay.
LEMMA DroppedOK ==
  ASSUME FlowTypes, RecvTypes, NEW m \in MemoryType, MemoryOK(m), NEW e \in Flows,
         flow[e].home \in Homes, NEW out \in SUBSET Held(m.assemblies, e),
         NEW S \in [Flows -> [Slots -> Marks]], NEW H \in [Flows -> Nat],
         \A i \in DOMAIN m.assemblies \ out : LET a == m.assemblies[i] IN
            /\ a.id <= H[a.flow] /\ H[a.flow] - WindowSize < a.id
            /\ S[a.flow][a.id % WindowSize] = 1,
         \A d \in Flows : \A id \in IDs(d) :
            reassembled[d][id] # 0 =>
               /\ id <= H[d]
               /\ H[d] - WindowSize < id => S[d][id % WindowSize] = 2
  PROVE  /\ Dropped(m, e, out, S, H) \in MemoryType
         /\ MemoryOK(Dropped(m, e, out, S, H))
         /\ Subsumed(Dropped(m, e, out, S, H), m)
<1> DEFINE n == Dropped(m, e, out, S, H)
           s == m.assemblies
           I == DOMAIN s \ out
           t == At(s, I)
<1>1. s \in Seq(Assembly) /\ m.rx \in Usage /\ I \in SUBSET DOMAIN s
  BY MemoryParts
<1>2. t \in Seq(Assembly)
  BY <1>1, AtFacts
<1>3. /\ n.assemblies = t /\ n.states = S /\ n.high = H
      /\ n.rx = Charge(m.rx, e, -Cardinality(out))
  BY DEF Dropped
<1>4. IsFiniteSet(out) /\ Cardinality(out) \in Nat /\ -Cardinality(out) \in Int
  <2>1. out \in SUBSET DOMAIN s
    BY DEF Held
  <2> QED BY <1>1, <2>1, Positions
<1>5. n.rx \in Usage
  BY <1>1, <1>3, <1>4, ChargeType
<1>6. n \in MemoryType
  BY <1>2, <1>3, <1>5 DEF MemoryType, Dropped
<1>7. \A k \in DOMAIN t : \E i \in I : t[k] = s[i]
  BY <1>1, AtElements
<1>8. \A k, l \in DOMAIN t : k # l => \E i, j \in I : i # j /\ t[k] = s[i] /\ t[l] = s[j]
  BY <1>1, AtElements
<1>9. Windowed(n)
  <2> SUFFICES ASSUME NEW k \in DOMAIN t
               PROVE  /\ Live(t[k].flow)
                      /\ t[k].id <= H[t[k].flow] /\ H[t[k].flow] - WindowSize < t[k].id
                      /\ S[t[k].flow][t[k].id % WindowSize] = 1
    BY <1>3 DEF Windowed
  <2>1. PICK i \in I : t[k] = s[i]
    BY <1>7
  <2>2. Live(s[i].flow)
    BY DEF MemoryOK, Windowed
  <2> HIDE DEF t
  <2> QED BY <2>1, <2>2
<1>10. Alone(n)
  <2> SUFFICES ASSUME NEW k \in DOMAIN t, NEW l \in DOMAIN t, k # l,
                      t[k].flow = t[l].flow, t[k].id = t[l].id
               PROVE  FALSE
    BY <1>3 DEF Alone
  <2>1. PICK i, j \in I : i # j /\ t[k] = s[i] /\ t[l] = s[j]
    BY <1>8
  <2> HIDE DEF t
  <2> QED BY <2>1 DEF MemoryOK, Alone
<1>11. Remembers(n)
  BY <1>3 DEF Remembers
<1>12. Sums(n.rx, Holding(n))
  <2> DEFINE f == Holding(m)
             g == Holding(n)
  <2>1. f \in [Flows -> Nat] /\ g \in [Flows -> Nat]
    BY <1>6, HoldingType
  <2>2. ASSUME NEW d \in Flows
        PROVE  Cardinality(Held(t, d)) = Cardinality(Held(s, d) \cap I)
    BY <1>1, AtCount
  <2>3. ASSUME NEW d \in Flows \ {e} PROVE g[d] = f[d]
    <3>1. Held(s, d) \cap I = Held(s, d)
      BY DEF Held
    <3>2. Cardinality(Held(t, d)) = Cardinality(Held(s, d))
      BY <2>2, <3>1
    <3> QED BY <1>3, <3>2 DEF Holding
  <2>4. g[e] = f[e] + (-Cardinality(out))
    <3>1. Held(s, e) \cap I = Held(s, e) \ out
      BY DEF Held
    <3>2. IsFiniteSet(Held(s, e)) /\ Cardinality(Held(s, e)) \in Nat /\ Cardinality(completed[e]) \in Nat
      BY HoldingType
    <3>3. Held(s, e) \cap out = out
      OBVIOUS
    <3>4. Cardinality(Held(s, e) \ out) = Cardinality(Held(s, e)) - Cardinality(out)
      BY <3>2, <3>3, FS_Difference
    <3>5. Cardinality(Held(t, e)) = Cardinality(Held(s, e)) - Cardinality(out)
      BY <2>2, <3>1, <3>4
    <3>6. /\ f[e] = Cardinality(Held(s, e)) + Cardinality(completed[e])
          /\ g[e] = Cardinality(Held(t, e)) + Cardinality(completed[e])
      BY <1>3 DEF Holding
    <3> QED BY <1>4, <3>2, <3>5, <3>6
  <2>5. Sums(m.rx, f)
    BY DEF MemoryOK
  <2> DEFINE z == -Cardinality(out)
             u == m.rx
  <2>6. u \in Usage /\ z \in Int /\ g[e] = f[e] + z /\ Sums(u, f)
    BY <1>1, <1>4, <2>4, <2>5
  <2> HIDE DEF f, g, n, u, z
  <2>7. Sums(Charge(u, e, z), g)
    BY <2>1, <2>3, <2>6, ChargeSums
  <2> QED BY <1>3, <2>7 DEF g, u, z
<1>13. Within(n.rx, LimitsRX)
  <2>1. Within(m.rx, LimitsRX)
    BY DEF MemoryOK
  <2>2. /\ \A d \in Flows : n.rx.flow[d] <= m.rx.flow[d]
        /\ \A h \in Homes : n.rx.peer[h] <= m.rx.peer[h]
        /\ n.rx.node <= m.rx.node
    <3>1. /\ \A d \in Flows : n.rx.flow[d] = IF d = e THEN m.rx.flow[d] + (-Cardinality(out)) ELSE m.rx.flow[d]
          /\ \A h \in Homes : n.rx.peer[h] =
                IF h = flow[e].home THEN m.rx.peer[h] + (-Cardinality(out)) ELSE m.rx.peer[h]
          /\ n.rx.node = m.rx.node + (-Cardinality(out))
      <4> DEFINE z == -Cardinality(out)
                 u == m.rx
      <4>1. u \in Usage /\ z \in Int /\ n.rx = Charge(u, e, z)
        BY <1>1, <1>3, <1>4
      <4> HIDE DEF n, u, z
      <4>2. /\ \A d \in Flows : n.rx.flow[d] = IF d = e THEN u.flow[d] + z ELSE u.flow[d]
            /\ \A h \in Homes : n.rx.peer[h] = IF h = flow[e].home THEN u.peer[h] + z ELSE u.peer[h]
            /\ n.rx.node = u.node + z
        BY <4>1, ChargeType
      <4> QED BY <4>2 DEF u, z
    <3>2. m.rx.flow \in [Flows -> Int] /\ m.rx.peer \in [Homes -> Int] /\ m.rx.node \in Int
      BY <1>1 DEF Usage
    <3> HIDE DEF n
    <3> QED BY <1>4, <3>1, <3>2
  <2>3. n.rx.flow \in [Flows -> Int] /\ n.rx.peer \in [Homes -> Int] /\ n.rx.node \in Int
    BY <1>5 DEF Usage
  <2>4. m.rx.flow \in [Flows -> Int] /\ m.rx.peer \in [Homes -> Int] /\ m.rx.node \in Int
    BY <1>1 DEF Usage
  <2>5. FlowRX \in Nat /\ PeerRX \in Nat /\ NodeRX \in Nat
    BY UDPAssumption
  <2> HIDE DEF n
  <2> QED BY <2>1, <2>2, <2>3, <2>4, <2>5 DEF Within, LimitsRX
<1>14. Subsumed(n, m)
  BY <1>3, <1>7 DEF Subsumed
<1> QED BY <1>6, <1>9, <1>10, <1>11, <1>12, <1>13, <1>14 DEF MemoryOK

\* Giving an assembly up keeps a memory in order.
LEMMA GiveUpOK ==
  ASSUME FlowTypes, RecvTypes, NEW m \in MemoryType, MemoryOK(m), NEW i \in DOMAIN m.assemblies
  PROVE  /\ GiveUp(m, i) \in MemoryType /\ MemoryOK(GiveUp(m, i))
         /\ Subsumed(GiveUp(m, i), m) /\ GiveUp(m, i).high = m.high
<1> DEFINE a == m.assemblies[i]
           slot == a.id % WindowSize
           S == [m.states EXCEPT ![a.flow][slot] = 3]
           n == Dropped(m, a.flow, {i}, S, m.high)
<1>1. /\ m.states \in [Flows -> [Slots -> Marks]] /\ m.high \in [Flows -> Nat] /\ m.rx \in Usage
      /\ a.flow \in Flows /\ a.id \in Nat /\ slot \in Slots
      /\ \A j \in DOMAIN m.assemblies :
            /\ m.assemblies[j].flow \in Flows
            /\ m.assemblies[j].id \in Nat /\ m.assemblies[j].id % WindowSize \in Slots
  BY MemoryParts
<1>2. Windowed(m) /\ Alone(m) /\ Remembers(m)
  BY DEF MemoryOK
<1>3. /\ Live(a.flow) /\ a.id <= m.high[a.flow] /\ m.high[a.flow] - WindowSize < a.id
      /\ m.states[a.flow][slot] = 1
  BY <1>2 DEF Windowed
<1>4. flow[a.flow].home \in Homes
  BY <1>1, <1>3 DEF FlowTypes, Live
<1>5. {i} \in SUBSET Held(m.assemblies, a.flow)
  BY DEF Held
<1>6. S \in [Flows -> [Slots -> Marks]]
  <2>1. 3 \in Marks
    BY DEF Marks
  <2> QED BY <1>1, <2>1
<1>7. \A d \in Flows : \A k \in Slots :
         S[d][k] = IF d = a.flow /\ k = slot THEN 3 ELSE m.states[d][k]
  BY <1>1
<1>8. ASSUME NEW j \in DOMAIN m.assemblies \ {i}
      PROVE  LET b == m.assemblies[j] IN
             /\ b.id <= m.high[b.flow] /\ m.high[b.flow] - WindowSize < b.id
             /\ S[b.flow][b.id % WindowSize] = 1
  <2> DEFINE b == m.assemblies[j]
  <2>1. /\ b.id <= m.high[b.flow] /\ m.high[b.flow] - WindowSize < b.id
        /\ m.states[b.flow][b.id % WindowSize] = 1
        /\ b.flow \in Flows /\ b.id \in Nat /\ b.id % WindowSize \in Slots
    BY <1>1, <1>2 DEF Windowed
  <2>2. ~(b.flow = a.flow /\ b.id = a.id)
    BY <1>2 DEF Alone
  <2>3. ~(b.flow = a.flow /\ b.id % WindowSize = slot)
    <3>1. m.high[a.flow] \in Nat
      BY <1>1
    <3> HIDE DEF a, b
    <3> QED BY <1>1, <1>3, <2>1, <2>2, <3>1, SlotTellsId
  <2> HIDE DEF S, a, b, slot
  <2> QED BY <1>7, <2>1, <2>3 DEF b
<1>9. ASSUME NEW d \in Flows, NEW id \in IDs(d), reassembled[d][id] # 0
      PROVE  /\ id <= m.high[d]
             /\ m.high[d] - WindowSize < id => S[d][id % WindowSize] = 2
  <2>1. id <= m.high[d] /\ (m.high[d] - WindowSize < id => m.states[d][id % WindowSize] = 2)
    BY <1>2, <1>9 DEF Remembers
  <2>2. id \in Nat
    BY DEF IDs
  <2>3. id % WindowSize \in Slots
    BY <2>2, SlotType
  <2> HIDE DEF S, a, slot
  <2> QED BY <1>3, <1>7, <2>1, <2>3
<1>10. n \in MemoryType /\ MemoryOK(n) /\ Subsumed(n, m)
  <2> HIDE DEF S, a
  <2> QED BY <1>1, <1>4, <1>5, <1>6, <1>8, <1>9, DroppedOK
<1>11. GiveUp(m, i) = n
  <2>1. Cardinality({i}) = 1
    BY FS_Singleton
  <2>2. n = [assemblies |-> At(m.assemblies, DOMAIN m.assemblies \ {i}), states |-> S,
             high |-> m.high, rx |-> Charge(m.rx, a.flow, -1)]
    BY <2>1 DEF Dropped
  <2> DEFINE A == At(m.assemblies, DOMAIN m.assemblies \ {i})
             R == Charge(m.rx, a.flow, -1)
  <2>3. GiveUp(m, i) = [m EXCEPT !.assemblies = A, !.states = S, !.rx = R]
    BY DEF GiveUp, Without, MemoryType
  <2> HIDE DEF A, R, S, n
  <2> QED BY <2>2, <2>3 DEF MemoryType, A, R
<1>12. n.high = m.high
  BY DEF Dropped
<1> QED BY <1>10, <1>11, <1>12

\* So does expiry.
LEMMA ExpiredOK ==
  ASSUME FlowTypes, RecvTypes, NEW m \in MemoryType, MemoryOK(m),
         NEW e \in Flows, flow[e].home \in Homes, NEW cut \in 0 .. Len(m.assemblies)
  PROVE  Expired(m, e, cut) \in MemoryType /\ MemoryOK(Expired(m, e, cut))
<1> DEFINE out == {i \in 1 .. cut : m.assemblies[i].flow = e}
           old == {m.assemblies[i].id % WindowSize : i \in out}
           S == [m.states EXCEPT ![e] = [k \in DOMAIN @ |-> IF k \in old THEN 3 ELSE @[k]]]
           n == Dropped(m, e, out, S, m.high)
<1>1. /\ m.states \in [Flows -> [Slots -> Marks]] /\ m.high \in [Flows -> Nat] /\ m.rx \in Usage
      /\ m.assemblies \in Seq(Assembly)
      /\ \A j \in DOMAIN m.assemblies :
            /\ m.assemblies[j].flow \in Flows
            /\ m.assemblies[j].id \in Nat /\ m.assemblies[j].id % WindowSize \in Slots
  BY MemoryParts
<1>2. Windowed(m) /\ Alone(m) /\ Remembers(m)
  BY DEF MemoryOK
<1>3. 1 .. cut \subseteq DOMAIN m.assemblies
  BY <1>1
<1>4. out \in SUBSET Held(m.assemblies, e)
  BY <1>3 DEF Held
<1>5. /\ S \in [Flows -> [Slots -> Marks]]
      /\ \A d \in Flows : \A k \in Slots :
            S[d][k] = IF d = e /\ k \in old THEN 3 ELSE m.states[d][k]
  <2>1. DOMAIN m.states[e] = Slots
    BY <1>1
  <2> DEFINE T == [k \in Slots |-> IF k \in old THEN 3 ELSE m.states[e][k]]
  <2>2. S = [m.states EXCEPT ![e] = T]
    BY <2>1
  <2>3. T \in [Slots -> Marks]
    <3>1. 3 \in Marks
      BY DEF Marks
    <3> QED BY <1>1, <3>1
  <2>4. \A k \in Slots : T[k] = IF k \in old THEN 3 ELSE m.states[e][k]
    OBVIOUS
  <2> HIDE DEF S, T, old
  <2> QED BY <1>1, <2>2, <2>3, <2>4
<1>6. ASSUME NEW j \in DOMAIN m.assemblies \ out
      PROVE  LET b == m.assemblies[j] IN
             /\ b.id <= m.high[b.flow] /\ m.high[b.flow] - WindowSize < b.id
             /\ S[b.flow][b.id % WindowSize] = 1
  <2> DEFINE b == m.assemblies[j]
  <2>1. /\ b.id <= m.high[b.flow] /\ m.high[b.flow] - WindowSize < b.id
        /\ m.states[b.flow][b.id % WindowSize] = 1
        /\ b.flow \in Flows /\ b.id \in Nat /\ b.id % WindowSize \in Slots
    BY <1>1, <1>2 DEF Windowed
  <2>2. ASSUME b.flow = e, b.id % WindowSize \in old PROVE FALSE
    <3>1. PICK i \in out : b.id % WindowSize = m.assemblies[i].id % WindowSize
      BY <2>2
    <3> DEFINE a == m.assemblies[i]
    <3>2. i \in DOMAIN m.assemblies /\ a.flow = e /\ i # j
      BY <1>3
    <3>3. /\ a.id <= m.high[e] /\ m.high[e] - WindowSize < a.id /\ a.id \in Nat
      BY <1>1, <1>2, <3>2 DEF Windowed
    <3>4. a.id # b.id
      BY <1>2, <2>2, <3>2 DEF Alone
    <3>5. m.high[e] \in Nat
      BY <1>1
    <3> HIDE DEF a, b
    <3> QED BY <2>1, <2>2, <3>1, <3>3, <3>4, <3>5, SlotTellsId DEF a
  <2> HIDE DEF S, b, old
  <2> QED BY <1>5, <2>1, <2>2 DEF b
<1>7. ASSUME NEW d \in Flows, NEW id \in IDs(d), reassembled[d][id] # 0
      PROVE  /\ id <= m.high[d]
             /\ m.high[d] - WindowSize < id => S[d][id % WindowSize] = 2
  <2>1. id <= m.high[d] /\ (m.high[d] - WindowSize < id => m.states[d][id % WindowSize] = 2)
    BY <1>2, <1>7 DEF Remembers
  <2>2. id \in Nat
    BY DEF IDs
  <2>3. id % WindowSize \in Slots
    BY <2>2, SlotType
  <2>4. ASSUME d = e, id % WindowSize \in old PROVE m.states[d][id % WindowSize] = 1
    <3>1. PICK i \in out : id % WindowSize = m.assemblies[i].id % WindowSize
      BY <2>4
    <3>2. i \in DOMAIN m.assemblies /\ m.assemblies[i].flow = e
      BY <1>3
    <3> QED BY <1>2, <2>4, <3>1, <3>2 DEF Windowed
  <2> HIDE DEF S, old
  <2> QED BY <1>5, <2>1, <2>3, <2>4
<1>8. n \in MemoryType /\ MemoryOK(n)
  <2> HIDE DEF S, out
  <2> QED BY <1>1, <1>4, <1>5, <1>6, <1>7, DroppedOK
<1>9. Expired(m, e, cut) = n
  <2> DEFINE A == At(m.assemblies, DOMAIN m.assemblies \ out)
             R == Charge(m.rx, e, -Cardinality(out))
  <2>1. n = [assemblies |-> A, states |-> S, high |-> m.high, rx |-> R]
    BY DEF Dropped
  <2>2. Expired(m, e, cut) = [m EXCEPT !.assemblies = A, !.states = S, !.rx = R]
    BY DEF Expired, MemoryType
  <2> HIDE DEF A, R, S, n
  <2> QED BY <2>1, <2>2 DEF MemoryType
<1> QED BY <1>8, <1>9

\* So does moving the window: slots in use again were left by ids it no longer reaches.
LEMMA AdvanceOK ==
  ASSUME FlowTypes, RecvTypes, NEW m \in MemoryType, MemoryOK(m),
         NEW e \in Flows, flow[e].home \in Homes, NEW id \in Nat
  PROVE  /\ advanceLocked(m, e, id) \in MemoryType /\ MemoryOK(advanceLocked(m, e, id))
         /\ id <= advanceLocked(m, e, id).high[e]
         /\ advanceLocked(m, e, id).high[e] = IF id <= m.high[e] THEN m.high[e] ELSE id
<1> DEFINE out == {i \in DOMAIN m.assemblies : m.assemblies[i].flow = e /\ m.assemblies[i].id <= id - WindowSize}
           new == {k % WindowSize : k \in m.high[e] + 1 .. id}
           S == [m.states EXCEPT ![e] = [k \in DOMAIN @ |-> IF k \in new THEN 0 ELSE @[k]]]
           H == [m.high EXCEPT ![e] = id]
           n == Dropped(m, e, out, S, H)
<1>1. /\ m.states \in [Flows -> [Slots -> Marks]] /\ m.high \in [Flows -> Nat] /\ m.rx \in Usage
      /\ m.assemblies \in Seq(Assembly)
      /\ \A j \in DOMAIN m.assemblies :
            /\ m.assemblies[j].flow \in Flows
            /\ m.assemblies[j].id \in Nat /\ m.assemblies[j].id % WindowSize \in Slots
  BY MemoryParts
<1>2. Windowed(m) /\ Alone(m) /\ Remembers(m)
  BY DEF MemoryOK
<1>3. CASE id <= m.high[e]
  BY <1>3 DEF advanceLocked
<1>4. CASE ~(id <= m.high[e])
  <2>1. m.high[e] \in Nat /\ m.high[e] < id
    BY <1>1, <1>4
  <2>2. out \in SUBSET Held(m.assemblies, e)
    BY DEF Held
  <2>3. /\ S \in [Flows -> [Slots -> Marks]]
        /\ \A d \in Flows : \A k \in Slots :
              S[d][k] = IF d = e /\ k \in new THEN 0 ELSE m.states[d][k]
    <3>1. DOMAIN m.states[e] = Slots
      BY <1>1
    <3> DEFINE T == [k \in Slots |-> IF k \in new THEN 0 ELSE m.states[e][k]]
    <3>2. S = [m.states EXCEPT ![e] = T]
      BY <3>1
    <3>3. T \in [Slots -> Marks]
      <4>1. 0 \in Marks
        BY DEF Marks
      <4> QED BY <1>1, <4>1
    <3>4. \A k \in Slots : T[k] = IF k \in new THEN 0 ELSE m.states[e][k]
      OBVIOUS
    <3> HIDE DEF S, T, new
    <3> QED BY <1>1, <3>2, <3>3, <3>4
  <2>4. H \in [Flows -> Nat] /\ H[e] = id /\ \A d \in Flows \ {e} : H[d] = m.high[d]
    BY <1>1
  <2>5. WindowSize \in Nat
    BY UDPAssumption
  \* What stays in the window has no new slot.
  <2>6. ASSUME NEW k \in Nat, k <= m.high[e], id - WindowSize < k PROVE k % WindowSize \notin new
    <3>1. ASSUME NEW l \in m.high[e] + 1 .. id PROVE l % WindowSize # k % WindowSize
      <4>1. l \in Nat /\ k < l /\ l < k + WindowSize
        BY <2>1, <2>5, <2>6
      <4> QED BY <4>1, SlotsDiffer
    <3> QED BY <3>1
  <2>7. ASSUME NEW j \in DOMAIN m.assemblies \ out
        PROVE  LET b == m.assemblies[j] IN
               /\ b.id <= H[b.flow] /\ H[b.flow] - WindowSize < b.id
               /\ S[b.flow][b.id % WindowSize] = 1
    <3> DEFINE b == m.assemblies[j]
    <3>1. /\ b.id <= m.high[b.flow] /\ m.high[b.flow] - WindowSize < b.id
          /\ m.states[b.flow][b.id % WindowSize] = 1
          /\ b.flow \in Flows /\ b.id \in Nat /\ b.id % WindowSize \in Slots
      BY <1>1, <1>2 DEF Windowed
    <3>2. CASE b.flow = e
      <4>1. ~(b.id <= id - WindowSize)
        BY <3>2
      <4>2. id - WindowSize < b.id /\ b.id <= m.high[e]
        BY <2>5, <3>1, <3>2, <4>1
      <4>3. b.id % WindowSize \notin new
        BY <2>6, <3>1, <4>2
      <4> HIDE DEF S, H, b, new
      <4> QED BY <2>1, <2>3, <2>4, <3>1, <3>2, <4>2, <4>3 DEF b
    <3>3. CASE b.flow # e
      <4> HIDE DEF S, H, b, new
      <4> QED BY <2>3, <2>4, <3>1, <3>3 DEF b
    <3> QED BY <3>2, <3>3
  <2>8. ASSUME NEW d \in Flows, NEW k \in IDs(d), reassembled[d][k] # 0
        PROVE  /\ k <= H[d]
               /\ H[d] - WindowSize < k => S[d][k % WindowSize] = 2
    <3>1. k <= m.high[d] /\ (m.high[d] - WindowSize < k => m.states[d][k % WindowSize] = 2)
      BY <1>2, <2>8 DEF Remembers
    <3>2. k \in Nat
      BY DEF IDs
    <3>3. k % WindowSize \in Slots
      BY <3>2, SlotType
    <3>4. CASE d = e
      <4>1. k <= H[d]
        BY <2>1, <2>4, <3>1, <3>2, <3>4
      <4>2. ASSUME H[d] - WindowSize < k PROVE S[d][k % WindowSize] = 2
        <5>1. id - WindowSize < k /\ m.high[d] - WindowSize < k
          BY <2>1, <2>4, <2>5, <3>2, <3>4, <4>2
        <5>2. k % WindowSize \notin new
          BY <2>6, <3>1, <3>2, <3>4, <5>1
        <5> HIDE DEF S, new, H
        <5> QED BY <2>3, <3>1, <3>3, <5>1, <5>2
      <4> QED BY <4>1, <4>2
    <3>5. CASE d # e
      <4> HIDE DEF S, H, new
      <4> QED BY <2>3, <2>4, <3>1, <3>3, <3>5
    <3> QED BY <3>4, <3>5
  <2>9. n \in MemoryType /\ MemoryOK(n)
    <3> HIDE DEF S, out, H
    <3> QED BY <1>1, <2>2, <2>3, <2>4, <2>7, <2>8, DroppedOK
  <2>10. advanceLocked(m, e, id) = n
    <3> DEFINE A == At(m.assemblies, DOMAIN m.assemblies \ out)
               R == Charge(m.rx, e, -Cardinality(out))
    <3>1. n = [assemblies |-> A, states |-> S, high |-> H, rx |-> R]
      BY DEF Dropped
    <3>2. advanceLocked(m, e, id) = [m EXCEPT !.states = S, !.high = H, !.assemblies = A, !.rx = R]
      BY <1>4 DEF advanceLocked, MemoryType
    <3> HIDE DEF A, R, S, H, n
    <3> QED BY <3>1, <3>2 DEF MemoryType
  <2>11. n.high = H
    BY DEF Dropped
  <2> HIDE DEF n, H
  <2> QED BY <1>4, <2>1, <2>4, <2>9, <2>10, <2>11
<1> QED BY <1>3, <1>4

\* A set of naturals has a least element.
LEMMA LeastExists ==
  ASSUME NEW S \in SUBSET Nat, S # {}
  PROVE  \E x \in S : \A y \in S : x <= y
<1>1. PICK x \in S : \A y \in S : ~(<<y, x>> \in OpToRel(<, Nat))
  BY NatLessThanWellFounded, WFMin
<1>2. ASSUME NEW y \in S PROVE x <= y
  <2>1. ~(y < x)
    BY <1>1 DEF OpToRel
  <2> QED BY <2>1
<1> QED BY <1>2

\* So does an eviction, which adds no assembly.
LEMMA EvictOK ==
  ASSUME FlowTypes, RecvTypes, NEW m \in MemoryType, MemoryOK(m), NEW e \in Flows
  PROVE  /\ evictLocked(m, e) \in MemoryType /\ MemoryOK(evictLocked(m, e))
         /\ Subsumed(evictLocked(m, e), m) /\ evictLocked(m, e).high = m.high
<1> DEFINE all     == DOMAIN m.assemblies
           home(i) == flow[m.assemblies[i].flow].home
           full    == m.rx.node >= NodeRX
           ranks   == << {i \in all : m.assemblies[i].flow = e},
                         {i \in all : home(i) = flow[e].home},
                         {i \in all : full /\ m.rx.peer[home(i)] > 1},
                         {i \in all : full} >>
           found   == {k \in DOMAIN ranks : ranks[k] # {}}
           best    == ranks[CHOOSE k \in found : \A l \in found : k <= l]
           pos     == CHOOSE x \in best : \A y \in best : x <= y
<1>1. DOMAIN ranks = 1 .. 4
  OBVIOUS
<1>2. ASSUME NEW k \in 1 .. 4 PROVE ranks[k] \subseteq DOMAIN m.assemblies
  OBVIOUS
<1>3. evictLocked(m, e) = IF found = {} THEN m ELSE GiveUp(m, pos)
  BY DEF evictLocked
<1>4. Subsumed(m, m)
  BY DEF Subsumed
<1>5. DOMAIN m.assemblies \subseteq Nat
  <2>1. m.assemblies \in Seq(Assembly)
    BY MemoryParts
  <2> QED BY <2>1
<1> HIDE DEF ranks
<1>6. CASE found # {}
  <2> DEFINE k == CHOOSE k \in found : \A l \in found : k <= l
  <2>1. found \in SUBSET Nat
    BY <1>1
  <2>2. \E x \in found : \A l \in found : x <= l
    BY <1>6, <2>1, LeastExists
  <2>3. k \in found
    BY <2>2
  <2>4. best = ranks[k] /\ best # {} /\ best \subseteq DOMAIN m.assemblies
    BY <1>1, <1>2, <2>3
  <2> HIDE DEF best, found
  <2>5. best \in SUBSET Nat
    BY <1>5, <2>4
  <2>6. \E x \in best : \A y \in best : x <= y
    BY <2>4, <2>5, LeastExists
  <2>7. pos \in DOMAIN m.assemblies
    BY <2>4, <2>6
  <2> HIDE DEF pos
  <2> QED BY <1>3, <1>6, <2>7, GiveUpOK
<1> HIDE DEF found, pos
<1> QED BY <1>3, <1>4, <1>6

\* And up to four of them.
LEMMA MakeRoomOK ==
  ASSUME FlowTypes, RecvTypes, NEW m \in MemoryType, MemoryOK(m), NEW e \in Flows
  PROVE  /\ makeRoom(m, e) \in MemoryType /\ MemoryOK(makeRoom(m, e))
         /\ Subsumed(makeRoom(m, e), m) /\ makeRoom(m, e).high = m.high
<1> DEFINE once(x) == evictOnce(x, e)
           Good(x) == x \in MemoryType /\ MemoryOK(x) /\ Subsumed(x, m) /\ x.high = m.high
<1>1. ASSUME NEW x, Good(x) PROVE Good(once(x))
  <2>1. /\ evictLocked(x, e) \in MemoryType /\ MemoryOK(evictLocked(x, e))
        /\ Subsumed(evictLocked(x, e), x) /\ evictLocked(x, e).high = x.high
    BY <1>1, EvictOK
  <2>2. Subsumed(evictLocked(x, e), m)
    <3> DEFINE y == evictLocked(x, e)
    <3> HIDE DEF y
    <3>1. Subsumed(y, x) /\ Subsumed(x, m) => Subsumed(y, m)
      BY DEF Subsumed
    <3> QED BY <1>1, <2>1, <3>1 DEF y
  <2> QED BY <1>1, <2>1, <2>2 DEF evictOnce
<1>2. Good(m)
  BY DEF Subsumed
<1>3. makeRoom(m, e) = once(once(once(once(m))))
  BY DEF makeRoom
<1> HIDE DEF once, Good
<1>4. Good(makeRoom(m, e))
  <2>1. Good(once(m))
    BY <1>1, <1>2
  <2>2. Good(once(once(m)))
    BY <1>1, <2>1
  <2>3. Good(once(once(once(m))))
    BY <1>1, <2>2
  <2>4. Good(once(once(once(once(m)))))
    BY <1>1, <2>3
  <2> QED BY <1>3, <2>4
<1> QED BY <1>4 DEF Good

\* The slot of an id that nobody uses may be marked.
Mark(m, e, id, v) == [m.states EXCEPT ![e][id % WindowSize] = v]

Unused(m, e, id) ==
    /\ id \in IDs(e) /\ id <= m.high[e] /\ m.high[e] - WindowSize < id
    /\ \A j \in DOMAIN m.assemblies : ~(m.assemblies[j].flow = e /\ m.assemblies[j].id = id)
    /\ reassembled[e][id] = 0

Marked(m, S) ==
    /\ S \in [Flows -> [Slots -> Marks]]
    /\ \A j \in DOMAIN m.assemblies :
          S[m.assemblies[j].flow][m.assemblies[j].id % WindowSize] = 1
    /\ \A d \in Flows : \A k \in IDs(d) :
          reassembled[d][k] # 0 =>
             /\ k <= m.high[d]
             /\ m.high[d] - WindowSize < k => S[d][k % WindowSize] = 2

\* The slot of an unused id takes any mark.
LEMMA MarkOK ==
  ASSUME FlowTypes, RecvTypes, NEW m \in MemoryType, MemoryOK(m), NEW e \in Flows,
         NEW id, Unused(m, e, id), NEW v \in Marks
  PROVE  Marked(m, Mark(m, e, id, v)) /\ Mark(m, e, id, v)[e][id % WindowSize] = v
<1> DEFINE S == Mark(m, e, id, v)
<1>0. /\ id \in IDs(e) /\ id <= m.high[e] /\ m.high[e] - WindowSize < id
      /\ \A j \in DOMAIN m.assemblies : ~(m.assemblies[j].flow = e /\ m.assemblies[j].id = id)
      /\ reassembled[e][id] = 0
  BY DEF Unused
<1>1. /\ m.states \in [Flows -> [Slots -> Marks]] /\ m.high \in [Flows -> Nat]
      /\ \A j \in DOMAIN m.assemblies :
            /\ m.assemblies[j].flow \in Flows
            /\ m.assemblies[j].id \in Nat /\ m.assemblies[j].id % WindowSize \in Slots
  BY MemoryParts
<1>2. Windowed(m) /\ Remembers(m)
  BY DEF MemoryOK
<1> DEFINE slot == id % WindowSize
<1>3. id \in Nat
  BY <1>0 DEF IDs
<1>4. slot \in Slots /\ m.high[e] \in Nat
  BY <1>1, <1>3, SlotType
<1>5. /\ S \in [Flows -> [Slots -> Marks]]
      /\ \A d \in Flows : \A k \in Slots : S[d][k] = IF d = e /\ k = slot THEN v ELSE m.states[d][k]
  BY <1>1, <1>4 DEF Mark
<1> HIDE DEF S
<1>6. ASSUME NEW j \in DOMAIN m.assemblies
      PROVE  S[m.assemblies[j].flow][m.assemblies[j].id % WindowSize] = 1
  <2> DEFINE b == m.assemblies[j]
  <2>1. /\ b.id <= m.high[b.flow] /\ m.high[b.flow] - WindowSize < b.id
        /\ m.states[b.flow][b.id % WindowSize] = 1
        /\ b.flow \in Flows /\ b.id \in Nat /\ b.id % WindowSize \in Slots
    BY <1>1, <1>2 DEF Windowed
  <2>2. ~(b.flow = e /\ b.id = id)
    BY <1>0
  <2>3. ~(b.flow = e /\ b.id % WindowSize = slot)
    <3> HIDE DEF b
    <3> QED BY <1>0, <1>3, <1>4, <2>1, <2>2, SlotTellsId
  <2> HIDE DEF b, slot
  <2> QED BY <1>5, <2>1, <2>3 DEF b
<1>7. ASSUME NEW d \in Flows, NEW k \in IDs(d), reassembled[d][k] # 0
      PROVE  /\ k <= m.high[d]
             /\ m.high[d] - WindowSize < k => S[d][k % WindowSize] = 2
  <2>1. k <= m.high[d] /\ (m.high[d] - WindowSize < k => m.states[d][k % WindowSize] = 2)
    BY <1>2, <1>7 DEF Remembers
  <2>2. k \in Nat
    BY DEF IDs
  <2>3. k % WindowSize \in Slots
    BY <2>2, SlotType
  <2>4. ~(d = e /\ k = id)
    BY <1>0, <1>7
  <2>5. ASSUME m.high[d] - WindowSize < k PROVE ~(d = e /\ k % WindowSize = slot)
    BY <1>0, <1>3, <1>4, <2>1, <2>2, <2>4, <2>5, SlotTellsId
  <2> HIDE DEF slot
  <2> QED BY <1>5, <2>1, <2>3, <2>5
<1> QED BY <1>4, <1>5, <1>6, <1>7 DEF S, Marked

\* A message that is not assembled is given up at once, or gets an assembly.
LEMMA RefusedOK ==
  ASSUME FlowTypes, RecvTypes, NEW m \in MemoryType, MemoryOK(m), NEW e \in Flows,
         NEW id, Unused(m, e, id)
  PROVE  LET n == [m EXCEPT !.states[e][id % WindowSize] = 3]
         IN  n \in MemoryType /\ MemoryOK(n)
<1> DEFINE S == Mark(m, e, id, 3)
           n == [m EXCEPT !.states = S]
<1>1. Marked(m, S) /\ S[e][id % WindowSize] = 3
  <2> DEFINE v == 3
  <2>1. v \in Marks
    BY DEF Marks
  <2> HIDE DEF v
  <2>2. Marked(m, Mark(m, e, id, v)) /\ Mark(m, e, id, v)[e][id % WindowSize] = v
    BY <2>1, MarkOK
  <2> QED BY <2>2 DEF v
<1>0. id \in IDs(e) /\ id <= m.high[e] /\ m.high[e] - WindowSize < id
  BY DEF Unused
<1>2. [m EXCEPT !.states[e][id % WindowSize] = 3] = n
  BY DEF MemoryType, Mark
<1> HIDE DEF S
<1>3. n \in MemoryType /\ n.assemblies = m.assemblies /\ n.states = S /\ n.high = m.high /\ n.rx = m.rx
  BY <1>1 DEF MemoryType, Marked
<1> HIDE DEF n
<1>4. Windowed(n) /\ Alone(n)
  BY <1>1, <1>3 DEF MemoryOK, Windowed, Alone, Marked
<1>5. Remembers(n)
  BY <1>1, <1>3 DEF Remembers, Marked
<1>6. Holding(n) = Holding(m)
  BY <1>3 DEF Holding
<1> QED BY <1>2, <1>3, <1>4, <1>5, <1>6 DEF MemoryOK

\* A new assembly, where there is room for it.
LEMMA AddedOK ==
  ASSUME FlowTypes, RecvTypes, NEW m \in MemoryType, MemoryOK(m), NEW e \in Flows, Live(e),
         NEW id, Unused(m, e, id), hasRoom(m.rx, e, LimitsRX), NEW count \in Nat
  PROVE  LET n == [m EXCEPT !.states[e][id % WindowSize] = 1, !.rx = Charge(@, e, 1),
                            !.assemblies = Append(@, [flow |-> e, id |-> id, count |-> count, present |-> {}])]
         IN  n \in MemoryType /\ MemoryOK(n)
<1> DEFINE S == Mark(m, e, id, 1)
           a == [flow |-> e, id |-> id, count |-> count, present |-> {}]
           s == m.assemblies
           A == Append(s, a)
           R == Charge(m.rx, e, 1)
           n == [m EXCEPT !.states = S, !.rx = R, !.assemblies = A]
<1>1. Marked(m, S) /\ S[e][id % WindowSize] = 1
  <2> DEFINE v == 1
  <2>1. v \in Marks
    BY DEF Marks
  <2> HIDE DEF v
  <2>2. Marked(m, Mark(m, e, id, v)) /\ Mark(m, e, id, v)[e][id % WindowSize] = v
    BY <2>1, MarkOK
  <2> QED BY <2>2 DEF v
<1>0. id \in IDs(e) /\ id <= m.high[e] /\ m.high[e] - WindowSize < id
  BY DEF Unused
<1>2. /\ s \in Seq(Assembly) /\ m.rx \in Usage /\ flow[e].home \in Homes
      /\ a \in Assembly /\ a.flow = e /\ a.id = id
  <2>1. flow[e].home \in Homes
    BY DEF FlowTypes, Live
  <2>2. id \in Nat \ {0}
    BY <1>0 DEF IDs
  <2> QED BY <2>1, <2>2, MemoryParts DEF Assembly
<1>3. /\ A \in Seq(Assembly) /\ DOMAIN A = DOMAIN s \cup {Len(s) + 1} /\ Len(s) + 1 \notin DOMAIN s
      /\ A[Len(s) + 1] = a /\ \A j \in DOMAIN s : A[j] = s[j]
  <2> HIDE DEF a
  <2> QED BY <1>2
<1>4. /\ R \in Usage
      /\ \A d \in Flows : R.flow[d] = IF d = e THEN m.rx.flow[d] + 1 ELSE m.rx.flow[d]
      /\ \A h \in Homes : R.peer[h] = IF h = flow[e].home THEN m.rx.peer[h] + 1 ELSE m.rx.peer[h]
      /\ R.node = m.rx.node + 1
  <2>1. 1 \in Int
    OBVIOUS
  <2> QED BY <1>2, <2>1, ChargeType
<1>5. [m EXCEPT !.states[e][id % WindowSize] = 1, !.rx = Charge(@, e, 1),
                !.assemblies = Append(@, [flow |-> e, id |-> id, count |-> count, present |-> {}])] = n
  BY DEF MemoryType, Mark
<1> HIDE DEF S, A, R
<1>6. n \in MemoryType /\ n.assemblies = A /\ n.states = S /\ n.high = m.high /\ n.rx = R
  BY <1>1, <1>3, <1>4 DEF MemoryType, Marked
<1> HIDE DEF n, a
<1>7. Windowed(n)
  <2> SUFFICES ASSUME NEW j \in DOMAIN A
               PROVE  /\ Live(A[j].flow)
                      /\ A[j].id <= m.high[A[j].flow] /\ m.high[A[j].flow] - WindowSize < A[j].id
                      /\ S[A[j].flow][A[j].id % WindowSize] = 1
    BY <1>6 DEF Windowed
  <2>1. CASE j \in DOMAIN s
    <3>1. A[j] = s[j]
      BY <1>3, <2>1
    <3> QED BY <1>1, <2>1, <3>1 DEF MemoryOK, Windowed, Marked
  <2>2. CASE j = Len(s) + 1
    BY <1>0, <1>1, <1>2, <1>3, <2>2
  <2> QED BY <1>3, <2>1, <2>2
<1>8. Alone(n)
  <2> SUFFICES ASSUME NEW j \in DOMAIN A, NEW k \in DOMAIN A,
                      A[j].flow = A[k].flow, A[j].id = A[k].id
               PROVE  j = k
    BY <1>6 DEF Alone
  <2>1. CASE j \in DOMAIN s /\ k \in DOMAIN s
    <3>1. A[j] = s[j] /\ A[k] = s[k]
      BY <1>3, <2>1
    <3> QED BY <2>1, <3>1 DEF MemoryOK, Alone
  <2>2. CASE j = Len(s) + 1 /\ k \in DOMAIN s
    BY <1>2, <1>3, <2>2 DEF Unused
  <2>3. CASE k = Len(s) + 1 /\ j \in DOMAIN s
    BY <1>2, <1>3, <2>3 DEF Unused
  <2> QED BY <1>3, <2>1, <2>2, <2>3
<1>9. Remembers(n)
  BY <1>1, <1>6 DEF Remembers, Marked
<1>10. Sums(n.rx, Holding(n))
  <2> DEFINE f == Holding(m)
             g == Holding(n)
             u == m.rx
  <2>1. f \in [Flows -> Nat] /\ g \in [Flows -> Nat]
    BY <1>6, HoldingType
  <2>2. ASSUME NEW d \in Flows \ {e} PROVE g[d] = f[d]
    <3>1. Held(A, d) = Held(s, d)
      BY <1>2, <1>3 DEF Held
    <3> QED BY <1>6, <3>1 DEF Holding
  <2>3. g[e] = f[e] + 1
    <3>1. Held(A, e) = Held(s, e) \cup {Len(s) + 1} /\ Len(s) + 1 \notin Held(s, e)
      BY <1>2, <1>3 DEF Held
    <3>2. IsFiniteSet(Held(s, e)) /\ Cardinality(Held(s, e)) \in Nat /\ Cardinality(completed[e]) \in Nat
      BY HoldingType
    <3>3. Cardinality(Held(A, e)) = Cardinality(Held(s, e)) + 1
      <4> DEFINE X == Held(s, e)
                 x == Len(s) + 1
      <4>1. IsFiniteSet(X) /\ x \notin X /\ Held(A, e) = X \cup {x}
        BY <3>1, <3>2
      <4> HIDE DEF X, x
      <4>2. Cardinality(Held(A, e)) = Cardinality(X) + 1
        BY <4>1, FS_AddElement
      <4> QED BY <4>2 DEF X
    <3>4. /\ f[e] = Cardinality(Held(s, e)) + Cardinality(completed[e])
          /\ g[e] = Cardinality(Held(A, e)) + Cardinality(completed[e])
      BY <1>6 DEF Holding
    <3> QED BY <3>2, <3>3, <3>4
  <2>4. u \in Usage /\ 1 \in Int /\ Sums(u, f)
    BY <1>2 DEF MemoryOK
  <2> HIDE DEF f, g, u
  <2>5. Sums(Charge(u, e, 1), g)
    BY <1>2, <2>1, <2>2, <2>3, <2>4, ChargeSums
  <2> QED BY <1>6, <2>5 DEF g, u, R
<1>11. Within(n.rx, LimitsRX)
  <2>1. m.rx.flow \in [Flows -> Int] /\ m.rx.peer \in [Homes -> Int] /\ m.rx.node \in Int
    BY <1>2 DEF Usage
  <2>2. FlowRX \in Nat /\ PeerRX \in Nat /\ NodeRX \in Nat
    BY UDPAssumption
  <2>3. m.rx.flow[e] < FlowRX /\ m.rx.peer[flow[e].home] < PeerRX /\ m.rx.node < NodeRX
    BY DEF hasRoom, LimitsRX
  <2>4. /\ \A d \in Flows : m.rx.flow[d] <= FlowRX
        /\ \A h \in Homes : m.rx.peer[h] <= PeerRX
    BY DEF MemoryOK, Within, LimitsRX
  <2>5. ASSUME NEW d \in Flows PROVE R.flow[d] <= FlowRX
    BY <1>4, <2>1, <2>2, <2>3, <2>4
  <2>6. ASSUME NEW h \in Homes PROVE R.peer[h] <= PeerRX
    BY <1>4, <2>1, <2>2, <2>3, <2>4
  <2>7. R.node <= NodeRX
    BY <1>4, <2>1, <2>2, <2>3
  <2> QED BY <1>6, <2>5, <2>6, <2>7 DEF Within, LimitsRX
<1> QED BY <1>5, <1>6, <1>7, <1>8, <1>9, <1>10, <1>11 DEF MemoryOK

\* The fields of a frame.
LEMMA FrameType ==
  ASSUME NEW e \in Flows, NEW f \in Frames(e)
  PROVE  f.id \in IDs(e) /\ f.id \in Nat /\ f.id # 0 /\ f.count \in Nat /\ f.index \in Nat
<1>1. PICK n \in Counts : f \in [id : IDs(e), count : {n}, index : 0 .. n - 1]
  BY DEF Frames
<1>2. n \in Nat
  BY UDPAssumption
<1>3. f.id \in IDs(e) /\ f.count = n /\ f.index \in 0 .. n - 1
  BY <1>1
<1> QED BY <1>2, <1>3 DEF IDs

\* The first half of ReceiveFrame keeps a memory in order.
LEMMA LocatedOK ==
  ASSUME FlowTypes, RecvTypes, NEW m \in MemoryType, MemoryOK(m), NEW e \in Flows,
         flow[e].status = "open", NEW f \in Frames(e)
  PROVE  Located(m, e, f) \in MemoryType /\ MemoryOK(Located(m, e, f))
<1> DEFINE a == advanceLocked(m, e, f.id)
           w == makeRoom(a, e)
<1>1. f.id \in IDs(e) /\ f.id \in Nat /\ f.id # 0 /\ f.count \in Nat
  BY FrameType
<1>2. Live(e) /\ flow[e].home \in Homes
  BY DEF FlowTypes, Live
<1>3. CASE m.high[e] >= WindowSize /\ f.id <= m.high[e] - WindowSize
  BY <1>3 DEF Located
<1>4. CASE ~(m.high[e] >= WindowSize /\ f.id <= m.high[e] - WindowSize)
  <2>1. /\ a \in MemoryType /\ MemoryOK(a) /\ f.id <= a.high[e]
        /\ a.high[e] = IF f.id <= m.high[e] THEN m.high[e] ELSE f.id
    BY <1>1, <1>2, AdvanceOK
  <2>2. a.high[e] - WindowSize < f.id
    <3>1. m.high[e] \in Nat /\ WindowSize \in Nat \ {0}
      BY UDPAssumption, MemoryParts
    <3> HIDE DEF a
    <3> QED BY <1>1, <1>4, <2>1, <3>1
  <2>3. /\ w \in MemoryType /\ MemoryOK(w) /\ Subsumed(w, a) /\ w.high = a.high
    <3> HIDE DEF a
    <3> QED BY <2>1, MakeRoomOK
  <2> HIDE DEF a, w
  <2>4. CASE a.states[e][f.id % WindowSize] >= 2 \/ Find(a, e, f.id) # {}
    BY <1>4, <2>1, <2>4 DEF Located, a
  <2>5. CASE ~(a.states[e][f.id % WindowSize] >= 2 \/ Find(a, e, f.id) # {})
    <3>1. \A j \in DOMAIN a.assemblies : ~(a.assemblies[j].flow = e /\ a.assemblies[j].id = f.id)
      BY <2>5 DEF Find
    <3>2. \A j \in DOMAIN w.assemblies : ~(w.assemblies[j].flow = e /\ w.assemblies[j].id = f.id)
      BY <2>3, <3>1 DEF Subsumed
    <3>3. reassembled[e][f.id] = 0
      <4>1. reassembled[e][f.id] # 0 => a.states[e][f.id % WindowSize] = 2
        BY <1>1, <2>1, <2>2 DEF MemoryOK, Remembers
      <4> QED BY <2>5, <4>1
    <3>4. f.id <= w.high[e] /\ w.high[e] - WindowSize < f.id
      BY <2>1, <2>2, <2>3
    <3> DEFINE id == f.id
               count == f.count
    <3>5. Unused(w, e, id) /\ count \in Nat
      BY <1>1, <3>2, <3>3, <3>4 DEF Unused
    <3> HIDE DEF id, count
    <3>6. CASE ~hasRoom(w.rx, e, LimitsRX)
      <4> DEFINE n == [w EXCEPT !.states[e][id % WindowSize] = 3]
      <4>1. n \in MemoryType /\ MemoryOK(n)
        BY <2>3, <3>5, RefusedOK
      <4>2. Located(m, e, f) = n
        BY <1>4, <2>5, <3>6 DEF Located, a, w, id
      <4> QED BY <4>1, <4>2
    <3>7. CASE hasRoom(w.rx, e, LimitsRX)
      <4> DEFINE n == [w EXCEPT !.states[e][id % WindowSize] = 1, !.rx = Charge(@, e, 1),
                            !.assemblies = Append(@, [flow |-> e, id |-> id, count |-> count, present |-> {}])]
      <4>1. n \in MemoryType /\ MemoryOK(n)
        BY <1>2, <2>3, <3>5, <3>7, AddedOK
      <4>2. Located(m, e, f) = n
        BY <1>4, <2>5, <3>7 DEF Located, a, w, id, count
      <4> QED BY <4>1, <4>2
    <3> QED BY <3>6, <3>7
  <2> QED BY <2>4, <2>5
<1> QED BY <1>3, <1>4

-----------------------------------------------------------------------------
(* What a step leaves alone keeps what the invariant says of it.           *)

SameHomes == \A d \in Flows : flow'[d].home = flow[d].home

\* The parts of the invariant that are not about closing.
LEMMA SendsKept ==
  ASSUME SendTypes, Sends, UNCHANGED sendVars, UNCHANGED traffic
  PROVE  SendTypes' /\ Sends'
<1>1. /\ sched' = sched /\ queue' = queue /\ nextID' = nextID /\ sending' = sending
      /\ tx' = tx /\ log' = log /\ traffic' = traffic
  BY DEF sendVars
<1>2. SendTypes'
  BY <1>1 DEF SendTypes, Running
<1>3. Sends'
  BY <1>1 DEF Sends, SchedOK, QueueOK, LogOK, Logged, Taken, InOrder, Position, Running
<1> QED BY <1>2, <1>3

\* The budgets of u are the sums of f in the next state, where u and f are what they are now.
SumsNext(u, f) ==
    /\ \A e \in Flows : u.flow[e] = f[e]
    /\ \A h \in Homes : u.peer[h] = Total(f, Mates(h)')
    /\ u.node = Total(f, Flows)

\* Sums stay sums while the homes stay.
LEMMA SumsKept ==
  ASSUME SameHomes, NEW u, NEW f, Sums(u, f)
  PROVE  SumsNext(u, f)
<1>1. ASSUME NEW h \in Homes PROVE Mates(h)' = Mates(h)
  BY DEF SameHomes, Mates
<1> QED BY <1>1 DEF Sums, SumsNext

\* What the flows have on the way out are numbers.
LEMMA OutType ==
  ASSUME SendTypes
  PROVE  Out \in [Flows -> Nat] /\ \A e \in Flows : Len(queue[e]) \in Nat /\ Out[e] = Len(queue[e]) + sending[e]
<1>1. ASSUME NEW e \in Flows PROVE Len(queue[e]) \in Nat /\ sending[e] \in Nat
  BY DEF SendTypes
<1> QED BY <1>1 DEF Out

\* The budget of the sending side when nothing is sent.
LEMMA BudgetKept ==
  ASSUME Budget, SumsNext(tx, Out), tx' = tx, Out' = Out
  PROVE  Budget'
<1>1. Sums(tx, Out)'
  BY DEF Sums, SumsNext
<1>2. Within(tx, LimitsTX)'
  BY DEF Budget, Within, LimitsTX
<1> QED BY <1>1, <1>2 DEF Budget

\* A charge that goes with the messages it is for.
LEMMA BudgetStep ==
  ASSUME SendTypes, SendTypes', Budget, SameHomes, NEW e \in Flows, flow[e].home \in Homes,
         NEW n \in Int, tx' = Charge(tx, e, n),
         Out'[e] = Out[e] + n, \A d \in Flows \ {e} : Out'[d] = Out[d],
         n <= 0 \/ (n = 1 /\ hasRoom(tx, e, LimitsTX))
  PROVE  Budget'
<1>1. Sums(tx, Out) /\ Within(tx, LimitsTX) /\ tx \in Usage
  BY DEF Budget, SendTypes
<1>2. Out \in [Flows -> Nat] /\ Out' \in [Flows -> Nat]
  <2>1. SendTypes => Out \in [Flows -> Nat]
    BY OutType
  <2>2. SendTypes' => (Out \in [Flows -> Nat])'
    BY <2>1, OutType, PTL
  <2> QED BY <2>1, <2>2
<1> DEFINE f == Out
           g == Out'
           u == tx
           v == Charge(u, e, n)
<1>3. Sums(v, g)
  <2>1. f \in [Flows -> Nat] /\ g \in [Flows -> Nat] /\ u \in Usage /\ Sums(u, f)
    BY <1>1, <1>2
  <2>2. g[e] = f[e] + n /\ \A d \in Flows \ {e} : g[d] = f[d]
    OBVIOUS
  <2> HIDE DEF f, g, u
  <2> QED BY <2>1, <2>2, ChargeSums
<1>4. SumsNext(v, g)
  <2> HIDE DEF v, g
  <2> QED BY <1>3, SumsKept
<1>5. Sums(tx, Out)'
  <2>1. tx' = v
    OBVIOUS
  <2> HIDE DEF v
  <2> QED BY <1>4, <2>1 DEF Sums, SumsNext
<1>6. Within(tx, LimitsTX)'
  <2>1. tx.flow \in [Flows -> Int] /\ tx.peer \in [Homes -> Int] /\ tx.node \in Int
    BY <1>1 DEF Usage
  <2>2. FlowTX \in Nat /\ PeerTX \in Nat /\ NodeTX \in Nat
    BY UDPAssumption
  <2>3. /\ \A d \in Flows : v.flow[d] = IF d = e THEN tx.flow[d] + n ELSE tx.flow[d]
        /\ \A h \in Homes : v.peer[h] = IF h = flow[e].home THEN tx.peer[h] + n ELSE tx.peer[h]
        /\ v.node = tx.node + n
    BY <1>1, ChargeType
  <2>4. /\ \A d \in Flows : tx.flow[d] <= FlowTX
        /\ \A h \in Homes : tx.peer[h] <= PeerTX
        /\ tx.node <= NodeTX
    BY <1>1 DEF Within, LimitsTX
  <2>5. n <= 0 \/ (n = 1 /\ tx.flow[e] < FlowTX /\ tx.peer[flow[e].home] < PeerTX /\ tx.node < NodeTX)
    BY DEF hasRoom, LimitsTX
  <2>6. tx' = v
    OBVIOUS
  <2> HIDE DEF v
  <2>7. ASSUME NEW d \in Flows PROVE v.flow[d] <= FlowTX
    BY <2>1, <2>2, <2>3, <2>4, <2>5
  <2>8. ASSUME NEW h \in Homes PROVE v.peer[h] <= PeerTX
    BY <2>1, <2>2, <2>3, <2>4, <2>5
  <2>9. v.node <= NodeTX
    BY <2>1, <2>2, <2>3, <2>4, <2>5
  <2> QED BY <2>6, <2>7, <2>8, <2>9 DEF Within, LimitsTX
<1> QED BY <1>5, <1>6 DEF Budget

\* The receiving side after a step that leaves it the memory m.
LEMMA ReceivesStep ==
  ASSUME NEW m, MemoryOK(m), Memory' = m, SumsNext(m.rx, Holding(m)),
         \A i \in DOMAIN m.assemblies : Live(m.assemblies[i].flow)',
         traffic' = traffic, completed' = completed, reassembled' = reassembled, Reserved', AtMostOnce'
  PROVE  Receives'
<1>1. Windowed(m) /\ Alone(m) /\ Remembers(m) /\ Sums(m.rx, Holding(m)) /\ Within(m.rx, LimitsRX)
  BY DEF MemoryOK
<1> DEFINE n == Memory
<1>2. n' = m
  OBVIOUS
<1> HIDE DEF n
<1>3. Windowed(n)'
  BY <1>1, <1>2 DEF Windowed
<1>4. Alone(n)'
  BY <1>1, <1>2 DEF Alone
<1>5. Remembers(n)'
  BY <1>1, <1>2 DEF Remembers, IDs
<1>6. Holding(n)' = Holding(m)
  BY <1>2 DEF Holding
<1>7. Sums(n.rx, Holding(n))'
  <2> DEFINE f == Holding(m)
  <2>1. n'.rx = m.rx /\ Holding(n)' = f
    BY <1>2, <1>6
  <2> HIDE DEF f
  <2> QED BY <2>1 DEF Sums, SumsNext, f
<1>8. Within(n.rx, LimitsRX)'
  BY <1>1, <1>2 DEF Within, LimitsRX
<1>9. MemoryOK(Memory)'
  BY <1>3, <1>4, <1>5, <1>7, <1>8 DEF MemoryOK, n
<1> QED BY <1>9 DEF Receives

\* The receiving side when nothing is received.
LEMMA ReceivesKept ==
  ASSUME RecvTypes, Receives, SumsNext(rx, Holding(Memory)), UNCHANGED recvVars, UNCHANGED traffic,
         \A d \in Flows : Live(d) => Live(d)'
  PROVE  RecvTypes' /\ Receives'
<1>1. /\ assemblies' = assemblies /\ states' = states /\ high' = high /\ completed' = completed
      /\ held' = held /\ delivering' = delivering /\ rx' = rx /\ reassembled' = reassembled
      /\ traffic' = traffic
  BY DEF recvVars
<1>2. Memory' = Memory
  BY <1>1 DEF Memory
<1>3. RecvTypes'
  BY <1>1, <1>2 DEF RecvTypes, IDs
<1>4. PICK m : m = Memory
  OBVIOUS
<1>5. MemoryOK(m) /\ Memory' = m /\ m \in MemoryType /\ m.rx = rx
  BY <1>2, <1>4 DEF Receives, RecvTypes, Memory
<1>6. \A i \in DOMAIN m.assemblies : m.assemblies[i].flow \in Flows /\ Live(m.assemblies[i].flow)
  BY <1>5, MemoryParts DEF MemoryOK, Windowed
<1>7. \A i \in DOMAIN m.assemblies : Live(m.assemblies[i].flow)'
  BY <1>6 DEF Live
<1>8. Reserved' /\ AtMostOnce'
  BY <1>1 DEF Receives, Reserved, AtMostOnce, IDs
<1>9. SumsNext(m.rx, Holding(m))
  BY <1>4, <1>5
<1>10. Receives'
  BY <1>1, <1>5, <1>7, <1>8, <1>9, ReceivesStep
<1> QED BY <1>3, <1>10

\* With the homes, the sums stay what they are.
LEMMA SameSums ==
  ASSUME IInv, SameHomes
  PROVE  SumsNext(tx, Out) /\ SumsNext(rx, Holding(Memory))
<1>1. Sums(tx, Out) /\ Sums(rx, Holding(Memory))
  BY DEF IInv, Budget, Receives, MemoryOK, Memory
<1> QED BY <1>1, SumsKept

-----------------------------------------------------------------------------
(* The queues.                                                             *)

\* Every element of t is one of s, and no two are the same one.
Drawn(t, s) ==
    /\ \A k \in DOMAIN t : \E i \in DOMAIN s : t[k] = s[i]
    /\ \A k, l \in DOMAIN t : k # l => \E i, j \in DOMAIN s : i # j /\ t[k] = s[i] /\ t[l] = s[j]

\* A message stays where its log is when neither moves.
LEMMA LoggedSame ==
  ASSUME NEW d, NEW m, Logged(d, m), log'[d] = log[d], Taken(d, m.id)' <=> Taken(d, m.id)
  PROVE  Logged(d, m)'
BY DEF Logged

\* A queue stays in order when neither it nor its log moves.
LEMMA QueueSame ==
  ASSUME SendTypes, NEW d \in Flows, QueueOK(d), queue'[d] = queue[d], nextID'[d] = nextID[d], log'[d] = log[d],
         \A id \in Nat : Taken(d, id)' <=> Taken(d, id)
  PROVE  QueueOK(d)'
<1>1. PICK q : q = queue[d]
  OBVIOUS
<1>2. queue'[d] = q /\ q \in Seq(Message) /\ nextID[d] \in Nat
  BY <1>1 DEF SendTypes
<1>3. ASSUME NEW k \in DOMAIN q PROVE q[k].id \in 1 .. nextID[d] - 1 /\ Logged(d, q[k])'
  <2>1. PICK m : m = q[k]
    OBVIOUS
  <2>2. m.id \in 1 .. nextID[d] - 1 /\ Logged(d, m)
    BY <1>1, <2>1 DEF QueueOK
  <2>3. Taken(d, m.id)' <=> Taken(d, m.id)
    BY <1>2, <2>2
  <2>4. Logged(d, m)'
    BY <2>2, <2>3, LoggedSame
  <2> QED BY <2>1, <2>2, <2>4
<1>4. \A k, l \in DOMAIN q : q[k].id = q[l].id => k = l
  BY <1>1 DEF QueueOK
<1> QED BY <1>2, <1>3, <1>4 DEF QueueOK

\* A queue from which messages are taken, or in which they change places.
LEMMA QueuesDrawn ==
  ASSUME SendTypes, Sends, NEW e \in Flows, NEW t, Drawn(t, queue[e]),
         queue' = [queue EXCEPT ![e] = t], nextID' = nextID, log' = log,
         \A k \in DOMAIN t : Taken(e, t[k].id)' <=> Taken(e, t[k].id),
         \A d \in Flows \ {e}, id \in Nat : Taken(d, id)' <=> Taken(d, id)
  PROVE  \A d \in Flows : QueueOK(d)'
<1>1. queue'[e] = t /\ \A d \in Flows : d # e => queue'[d] = queue[d]
  BY DEF SendTypes
<1>2. \A d \in Flows : \A i \in DOMAIN queue[d] : queue[d][i].id \in 1 .. nextID[d] - 1 /\ Logged(d, queue[d][i])
  BY DEF Sends, QueueOK
<1>3. \A d \in Flows : \A i, j \in DOMAIN queue[d] : queue[d][i].id = queue[d][j].id => i = j
  BY DEF Sends, QueueOK
<1>4. QueueOK(e)'
  <2>1. ASSUME NEW k \in DOMAIN t PROVE t[k].id \in 1 .. nextID[e] - 1 /\ Logged(e, t[k])'
    <3>1. PICK i \in DOMAIN queue[e] : t[k] = queue[e][i]
      BY DEF Drawn
    <3>2. PICK m : m = t[k]
      OBVIOUS
    <3>3. m.id \in 1 .. nextID[e] - 1 /\ Logged(e, m) /\ (Taken(e, m.id)' <=> Taken(e, m.id))
      BY <1>2, <2>1, <3>1, <3>2
    <3>4. Logged(e, m)'
      BY <3>3, LoggedSame
    <3> QED BY <3>2, <3>3, <3>4
  <2>2. ASSUME NEW k \in DOMAIN t, NEW l \in DOMAIN t, t[k].id = t[l].id PROVE k = l
    BY <1>3, <2>2 DEF Drawn
  <2>3. PICK q : q = t
    OBVIOUS
  <2>4. queue'[e] = q /\ nextID'[e] = nextID[e]
    BY <1>1, <2>3
  <2>5. \A k \in DOMAIN q : q[k].id \in 1 .. nextID[e] - 1 /\ Logged(e, q[k])'
    BY <2>1, <2>3
  <2> QED BY <2>2, <2>3, <2>4, <2>5 DEF QueueOK
<1>5. ASSUME NEW d \in Flows, d # e PROVE QueueOK(d)'
  <2>1. QueueOK(d) /\ queue'[d] = queue[d] /\ nextID'[d] = nextID[d]
    BY <1>1, <1>5 DEF Sends
  <2>2. \A id \in Nat : Taken(d, id)' <=> Taken(d, id)
    BY <1>5
  <2> QED BY <2>1, <2>2, QueueSame
<1> QED BY <1>4, <1>5

\* At draws from a sequence.
LEMMA DrawnAt ==
  ASSUME NEW X, NEW s \in Seq(X), NEW I \in SUBSET DOMAIN s
  PROVE  Drawn(At(s, I), s) /\ At(s, I) \in Seq(X) /\ Len(At(s, I)) <= Len(s)
         /\ Len(At(s, I)) \in Nat /\ Len(s) \in Nat
<1>1. At(s, I) \in Seq(X) /\ Len(At(s, I)) = Cardinality(I)
  BY AtFacts
<1>2. Drawn(At(s, I), s)
  <2>1. /\ \A k \in DOMAIN At(s, I) : \E i \in I : At(s, I)[k] = s[i]
        /\ \A k, l \in DOMAIN At(s, I) : k # l =>
               \E i, j \in I : i # j /\ At(s, I)[k] = s[i] /\ At(s, I)[l] = s[j]
    BY AtElements
  <2> QED BY <2>1 DEF Drawn
<1>3. Cardinality(I) <= Len(s)
  <2>1. I \in SUBSET (1 .. Len(s)) /\ Len(s) \in Nat
    BY Positions
  <2>2. IsFiniteSet(1 .. Len(s)) /\ Cardinality(1 .. Len(s)) = Len(s)
    <3>1. PICK n \in Nat : n = Len(s)
      BY <2>1
    <3>2. IsFiniteSet(1 .. n) /\ Cardinality(1 .. n) = n
      BY FS_Interval
    <3> QED BY <3>1, <3>2
  <2>3. Cardinality(I) <= Cardinality(1 .. Len(s))
    BY <2>1, <2>2, FS_Subset
  <2> QED BY <2>2, <2>3
<1> QED BY <1>1, <1>2, <1>3

\* Drawing is transitive.
LEMMA DrawnTwice ==
  ASSUME NEW r, NEW s, NEW t, Drawn(r, s), Drawn(s, t)
  PROVE  Drawn(r, t)
BY DEF Drawn

\* The first n numbers are n.
LEMMA Counting ==
  ASSUME NEW n \in Nat
  PROVE  IsFiniteSet(1 .. n) /\ Cardinality(1 .. n) = n
BY FS_Interval

\* One element less.
LEMMA WithoutLength ==
  ASSUME NEW X, NEW s \in Seq(X), NEW i \in DOMAIN s
  PROVE  Len(Without(s, i)) = Len(s) - 1 /\ Len(s) \in Nat /\ Len(Without(s, i)) \in Nat
<1> DEFINE I == DOMAIN s \ {i}
<1>1. Len(s) \in Nat /\ DOMAIN s = 1 .. Len(s) /\ Without(s, i) = At(s, I)
  BY DEF Without
<1>2. IsFiniteSet(DOMAIN s) /\ Cardinality(DOMAIN s) = Len(s)
  BY <1>1, Counting
<1>3. Cardinality(I) = Len(s) - 1 /\ Cardinality(I) \in Nat
  BY <1>1, <1>2, FS_RemoveElement, FS_CardinalityType
<1>4. Len(At(s, I)) = Cardinality(I)
  BY AtFacts
<1> HIDE DEF I
<1> QED BY <1>1, <1>3, <1>4

\* A message taken out and put at the end.
LEMMA DrawnBack ==
  ASSUME NEW X, NEW s \in Seq(X), NEW i \in DOMAIN s
  PROVE  /\ Append(Without(s, i), s[i]) \in Seq(X)
         /\ Len(Append(Without(s, i), s[i])) = Len(s)
         /\ Drawn(Append(Without(s, i), s[i]), s)
<1> DEFINE I == DOMAIN s \ {i}
           w == At(s, I)
           t == Append(w, s[i])
<1>1. I \in SUBSET DOMAIN s /\ w = Without(s, i) /\ Len(s) \in Nat /\ DOMAIN s = 1 .. Len(s)
  BY DEF Without
<1>2. w \in Seq(X) /\ Len(w) = Cardinality(I)
  BY <1>1, AtFacts
<1>3. Cardinality(I) = Len(s) - 1
  <2>1. IsFiniteSet(1 .. Len(s)) /\ Cardinality(1 .. Len(s)) = Len(s)
    BY <1>1, Counting
  <2>2. IsFiniteSet(DOMAIN s) /\ Cardinality(DOMAIN s) = Len(s)
    BY <1>1, <2>1
  <2> QED BY <2>2, FS_RemoveElement
<1>4. /\ \A k \in DOMAIN w : \E j \in I : w[k] = s[j]
      /\ \A k, l \in DOMAIN w : k # l => \E j, h \in I : j # h /\ w[k] = s[j] /\ w[l] = s[h]
  BY <1>1, AtElements
<1> HIDE DEF w
<1>5. /\ t \in Seq(X) /\ Len(t) = Len(s) /\ DOMAIN t = 1 .. Len(s)
      /\ t[Len(s)] = s[i] /\ \A k \in DOMAIN t : k # Len(s) => k \in DOMAIN w /\ t[k] = w[k]
  <2> DEFINE x == s[i]
  <2>1. x \in X /\ Len(w) \in Nat /\ Len(w) = Len(s) - 1 /\ Len(s) \in Nat
    BY <1>1, <1>2, <1>3
  <2> HIDE DEF x, I
  <2>2. t = Append(w, x)
    BY DEF x
  <2> HIDE DEF t
  <2>3. t \in Seq(X) /\ Len(t) = Len(w) + 1 /\ DOMAIN t = 1 .. Len(w) + 1 /\ DOMAIN w = 1 .. Len(w)
    BY <1>2, <2>1, <2>2
  <2>4. t[Len(w) + 1] = x /\ \A k \in 1 .. Len(w) : t[k] = w[k]
    BY <1>2, <2>1, <2>2
  <2>5. \A k \in 1 .. Len(w) + 1 : k # Len(w) + 1 => k \in 1 .. Len(w)
    BY <2>1
  <2>6. Len(w) + 1 = Len(s)
    BY <2>1
  <2> QED BY <2>3, <2>4, <2>5, <2>6 DEF x
<1> HIDE DEF t
<1>6. \A k \in DOMAIN t : \E j \in DOMAIN s : t[k] = s[j]
  BY <1>4, <1>5
<1>7. ASSUME NEW k \in DOMAIN t, NEW l \in DOMAIN t, k # l
      PROVE  \E j, h \in DOMAIN s : j # h /\ t[k] = s[j] /\ t[l] = s[h]
  <2>1. CASE k = Len(s)
    BY <1>4, <1>5, <1>7, <2>1
  <2>2. CASE l = Len(s)
    BY <1>4, <1>5, <1>7, <2>2
  <2>3. CASE k # Len(s) /\ l # Len(s)
    <3>1. k \in DOMAIN w /\ l \in DOMAIN w /\ t[k] = w[k] /\ t[l] = w[l]
      BY <1>5, <2>3
    <3>2. PICK j \in I, h \in I : j # h /\ w[k] = s[j] /\ w[l] = s[h]
      BY <1>4, <1>7, <3>1
    <3> QED BY <3>1, <3>2
  <2> QED BY <2>1, <2>2, <2>3
<1>8. Drawn(t, s)
  BY <1>6, <1>7 DEF Drawn
<1> QED BY <1>1, <1>5, <1>8 DEF t

\* A queue whose messages change but for their ids, or whose logs change.
LEMMA QueueEdited ==
  ASSUME SendTypes, Sends, NEW e \in Flows, NEW t \in Seq(Message),
         DOMAIN t = DOMAIN queue[e], \A i \in DOMAIN t : t[i].id = queue[e][i].id,
         \A i \in DOMAIN t : Logged(e, t[i])',
         queue' = [queue EXCEPT ![e] = t], nextID' = nextID,
         \A d \in Flows : d # e => log'[d] = log[d],
         \A d \in Flows \ {e}, id \in Nat : Taken(d, id)' <=> Taken(d, id)
  PROVE  \A d \in Flows : QueueOK(d)'
<1>1. queue'[e] = t /\ \A d \in Flows : d # e => queue'[d] = queue[d]
  BY DEF SendTypes
<1>2. QueueOK(e)'
  <2>1. \A i \in DOMAIN t : t[i].id \in 1 .. nextID[e] - 1
    BY DEF Sends, QueueOK
  <2>2. \A i, j \in DOMAIN t : t[i].id = t[j].id => i = j
    BY DEF Sends, QueueOK
  <2> QED BY <1>1, <2>1, <2>2 DEF QueueOK
<1>3. ASSUME NEW d \in Flows, d # e PROVE QueueOK(d)'
  <2>1. QueueOK(d) /\ queue'[d] = queue[d] /\ nextID'[d] = nextID[d] /\ log'[d] = log[d]
    BY <1>1, <1>3 DEF Sends
  <2>2. \A id \in Nat : Taken(d, id)' <=> Taken(d, id)
    BY <1>3
  <2> QED BY <2>1, <2>2, QueueSame
<1> QED BY <1>2, <1>3

-----------------------------------------------------------------------------
(* Actions that only open, close and join.                                 *)

\* Which flows are live, and which are still to come, stays.
SameFlows ==
    \A d \in Flows : (Live(d)' <=> Live(d)) /\ (flow'[d].status = "new" <=> flow[d].status = "new")

\* A step of the flows alone.
LEMMA FlowOnly ==
  ASSUME IInv, UNCHANGED sendVars, UNCHANGED recvVars, UNCHANGED traffic,
         FlowTypes', Joined', Closing', SameHomes, SameFlows
  PROVE  IInv'
<1>1. SendTypes' /\ Sends'
  BY SendsKept DEF IInv
<1>2. RecvTypes' /\ Receives'
  BY ReceivesKept, SameSums DEF IInv, SameFlows
<1>3. Budget'
  <2>1. tx' = tx /\ Out' = Out
    BY DEF sendVars, Out
  <2> QED BY <2>1, BudgetKept, SameSums DEF IInv
<1>4. Vacant'
  BY DEF IInv, Vacant, SameFlows, SameHomes, sendVars, recvVars
<1> QED BY <1>1, <1>2, <1>3, <1>4 DEF IInv

\* A flow's record changes in its status or its transport.
LEMMA FlowEdited ==
  ASSUME IInv, NEW e \in Flows, NEW x, flow' = [flow EXCEPT ![e] = x],
         x \in FlowType, x.home = flow[e].home, Live(e), x.status \notin {"new", "retired"},
         UNCHANGED <<traffic, manager, closing>>
  PROVE  FlowTypes' /\ SameHomes /\ SameFlows /\ Closing'
<1>1. flow \in [Flows -> FlowType] /\ flow[e] \in FlowType
  BY DEF IInv, FlowTypes
<1>2. /\ flow' \in [Flows -> FlowType] /\ flow'[e] = x
      /\ \A d \in Flows : d # e => flow'[d] = flow[d]
  BY <1>1
<1>3. SameHomes
  BY <1>2 DEF SameHomes
<1>4. SameFlows
  BY <1>2 DEF SameFlows, Live
<1>5. FlowTypes'
  <2>1. \A d \in Flows : flow'[d].status # "new" => flow'[d].home \in Homes
    BY <1>2, <1>3 DEF IInv, FlowTypes, SameHomes, Live
  <2> QED BY <1>2, <2>1 DEF IInv, FlowTypes, Homes
<1>6. Closing'
  BY <1>4 DEF IInv, Closing, SameFlows
<1> QED BY <1>3, <1>4, <1>5, <1>6

\* The record of a flow with another status.
LEMMA FlowRecord ==
  ASSUME IInv, NEW e \in Flows
  PROVE  /\ flow \in [Flows -> FlowType] /\ flow[e] \in FlowType
         /\ \A s \in Statuses :
               /\ [flow EXCEPT ![e].status = s] = [flow EXCEPT ![e] = [flow[e] EXCEPT !.status = s]]
               /\ [flow[e] EXCEPT !.status = s] \in FlowType
               /\ [flow[e] EXCEPT !.status = s].status = s
               /\ [flow[e] EXCEPT !.status = s].home = flow[e].home
         /\ Live(e) => flow[e].home \in Homes
<1>1. flow \in [Flows -> FlowType] /\ flow[e] \in FlowType
  BY DEF IInv, FlowTypes
<1>2. Live(e) => flow[e].home \in Homes
  BY DEF IInv, FlowTypes, Live
<1> QED BY <1>1, <1>2 DEF FlowType

\* Closing goes one stage on.
LEMMA StatusEdited ==
  ASSUME IInv, NEW e \in Flows, Live(e), NEW s \in {"closing", "joined", "quiet"},
         flow' = [flow EXCEPT ![e].status = s],
         s \in {"joined", "quiet"} => ~SendMuHeld(e), s = "quiet" => ~delivering[e],
         UNCHANGED <<traffic, manager, closing>>, UNCHANGED sendVars, UNCHANGED recvVars
  PROVE  IInv'
<1> DEFINE x == [flow[e] EXCEPT !.status = s]
<1>1. /\ flow \in [Flows -> FlowType] /\ flow' = [flow EXCEPT ![e] = x] /\ x \in FlowType
      /\ x.status = s /\ x.home = flow[e].home
  BY FlowRecord DEF Statuses
<1> HIDE DEF x
<1>2. FlowTypes' /\ SameHomes /\ SameFlows /\ Closing'
  BY <1>1, FlowEdited
<1>3. Joined'
  <2>1. flow'[e].status = s /\ \A d \in Flows : d # e => flow'[d] = flow[d]
    BY <1>1
  <2>2. \A d \in Flows : (SendMuHeld(d)' <=> SendMuHeld(d)) /\ delivering'[d] = delivering[d]
    BY DEF sendVars, recvVars, SendMuHeld
  <2> QED BY <2>1, <2>2 DEF IInv, Joined
<1> QED BY <1>2, <1>3, FlowOnly

\* Closing a flow and the two joins.
LEMMA CloseFlowOK ==
  ASSUME IInv, NEW e \in Flows, CloseFlow(e) \/ JoinSend(e) \/ JoinDelivery(e)
  PROVE  IInv'
<1>1. CASE CloseFlow(e)
  BY <1>1, StatusEdited DEF CloseFlow, Close, Live
<1>2. CASE JoinSend(e)
  BY <1>2, StatusEdited DEF JoinSend, Live
<1>3. CASE JoinDelivery(e)
  <2>1. ~SendMuHeld(e)
    BY <1>3 DEF JoinDelivery, IInv, Joined
  <2> QED BY <1>3, <2>1, StatusEdited DEF JoinDelivery, Live
<1> QED BY <1>1, <1>2, <1>3

\* Attaching a transport.
LEMMA AttachOK ==
  ASSUME IInv, NEW e \in Flows, NEW kind \in {"local", "remote"}, attach(e, kind)
  PROVE  IInv'
<1> DEFINE x == [flow[e] EXCEPT !.attached = kind]
<1>1. flow \in [Flows -> FlowType] /\ flow[e] \in FlowType
  BY FlowRecord
<1>2. /\ flow' = [flow EXCEPT ![e] = x] /\ x \in FlowType /\ x.status = "open"
      /\ x.home = flow[e].home /\ flow[e].status = "open" /\ Live(e)
      /\ UNCHANGED <<traffic, manager, closing>> /\ UNCHANGED sendVars /\ UNCHANGED recvVars
  BY <1>1 DEF attach, FlowType, Live
<1> HIDE DEF x
<1>3. FlowTypes' /\ SameHomes /\ SameFlows /\ Closing'
  BY <1>2, FlowEdited
<1>4. Joined'
  <2>1. \A d \in Flows : flow'[d].status = flow[d].status
    BY <1>1, <1>2
  <2>2. \A d \in Flows : (SendMuHeld(d)' <=> SendMuHeld(d)) /\ delivering'[d] = delivering[d]
    BY <1>2 DEF sendVars, recvVars, SendMuHeld
  <2> QED BY <2>1, <2>2 DEF IInv, Joined
<1> QED BY <1>2, <1>3, <1>4, FlowOnly

\* The manager's Close goes on: it closes the next flow, or is done with it.
LEMMA CloseNextOK ==
  ASSUME IInv, CloseNext
  PROVE  IInv'
<1> DEFINE e == Head(closing)
<1>1. closing \in Seq(Flows) /\ closing # <<>> /\ e \in Flows /\ manager = "closing"
  BY DEF IInv, FlowTypes, CloseNext
<1>2. CASE flow[e].status = "open" /\ Close(e) /\ UNCHANGED closing
  <2> HIDE DEF e
  <2> QED BY <1>1, <1>2, StatusEdited DEF CloseNext, Close, Live
<1>3. CASE flow[e].status = "retired" /\ closing' = Tail(closing) /\ UNCHANGED flow
  <2>1. UNCHANGED traffic /\ UNCHANGED manager /\ UNCHANGED sendVars /\ UNCHANGED recvVars
    BY DEF CloseNext
  <2>2. SameHomes /\ SameFlows
    BY <1>3 DEF SameHomes, SameFlows, Live
  <2>3. FlowTypes'
    BY <1>1, <1>3, <2>1 DEF IInv, FlowTypes, Homes
  <2>4. Joined'
    BY <1>3, <2>1 DEF IInv, Joined, sendVars, recvVars, SendMuHeld
  <2>5. Closing'
    <3>1. ASSUME NEW d \in Flows, Live(d)
          PROVE  \E i \in DOMAIN closing' : closing'[i] = d
      <4>1. PICK i \in DOMAIN closing : closing[i] = d
        BY <1>1, <3>1 DEF IInv, Closing
      <4>2. i # 1
        BY <1>1, <1>3, <3>1, <4>1 DEF Live
      <4>3. i - 1 \in DOMAIN closing' /\ closing'[i - 1] = d
        BY <1>1, <1>3, <4>1, <4>2
      <4> QED BY <4>3
    <3> QED BY <1>1, <1>3, <2>1, <3>1 DEF Closing, Live
  <2> QED BY <2>1, <2>2, <2>3, <2>4, <2>5, FlowOnly
<1> QED BY <1>2, <1>3 DEF CloseNext

\* It returns when all are done.
LEMMA CloseReturnsOK ==
  ASSUME IInv, CloseReturns
  PROVE  IInv'
<1>1. /\ manager = "closing" /\ closing = <<>> /\ manager' = "closed" /\ traffic' = traffic
      /\ flow' = flow /\ closing' = closing /\ UNCHANGED sendVars /\ UNCHANGED recvVars
  BY DEF CloseReturns
<1>2. SameHomes /\ SameFlows
  BY <1>1 DEF SameHomes, SameFlows, Live
<1>3. FlowTypes'
  BY <1>1 DEF IInv, FlowTypes, Homes
<1>4. Joined'
  BY <1>1 DEF IInv, Joined, sendVars, recvVars, SendMuHeld
<1>5. Closing'
  BY <1>1 DEF IInv, Closing, Live
<1> QED BY <1>1, <1>2, <1>3, <1>4, <1>5, FlowOnly

\* A sequence of distinct elements as long as the set has all of them.
LEMMA ListsAll ==
  ASSUME NEW S, IsFiniteSet(S), NEW s \in SetToSeqs(S)
  PROVE  s \in Seq(S) /\ \A x \in S : \E i \in DOMAIN s : s[i] = x
<1> DEFINE n == Cardinality(S)
           D == 1 .. n
<1>1. n \in Nat /\ IsFiniteSet(D) /\ Cardinality(D) = n
  BY FS_CardinalityType, FS_Interval
<1>2. s \in [D -> S] /\ \A i, j \in D : i # j => s[i] # s[j]
  BY DEF SetToSeqs
<1> HIDE DEF D
<1>3. s \in Injection(D, S)
  BY <1>2 DEF Injection, IsInjective
<1>4. s \in Surjection(D, S)
  BY <1>1, <1>3, FS_Injection
<1>5. \A x \in S : \E i \in DOMAIN s : s[i] = x
  BY <1>2, <1>4 DEF Surjection
<1>6. s \in Seq(S)
  BY <1>1, <1>2 DEF D
<1> QED BY <1>5, <1>6

\* It starts with every flow there is.
LEMMA CloseManagerOK ==
  ASSUME IInv, CloseManager
  PROVE  IInv'
<1> DEFINE S == {e \in Flows : Live(e)}
<1>1. /\ manager' = "closing" /\ closing' \in SetToSeqs(S) /\ traffic' = traffic
      /\ flow' = flow /\ UNCHANGED sendVars /\ UNCHANGED recvVars
  BY DEF CloseManager
<1>2. IsFiniteSet(S)
  BY UDPAssumption, FS_Subset
<1>3. closing' \in Seq(S) /\ \A x \in S : \E i \in DOMAIN closing' : closing'[i] = x
  <2> HIDE DEF S
  <2> QED BY <1>1, <1>2, ListsAll
<1>4. closing' \in Seq(Flows)
  BY <1>3
<1>5. SameHomes /\ SameFlows
  BY <1>1 DEF SameHomes, SameFlows, Live
<1>6. FlowTypes'
  BY <1>1, <1>4 DEF IInv, FlowTypes, Homes
<1>7. Joined'
  BY <1>1 DEF IInv, Joined, sendVars, recvVars, SendMuHeld
<1>8. Closing'
  BY <1>1, <1>3 DEF Closing, Live
<1> QED BY <1>1, <1>5, <1>6, <1>7, <1>8, FlowOnly

-----------------------------------------------------------------------------
(* Opening and retiring.                                                   *)

\* A flow with nothing reserved joins the home h.
LEMMA SumsOpened ==
  ASSUME NEW e \in Flows, NEW h \in Homes, flow[e].home = 0,
         \A d \in Flows : flow'[d].home = IF d = e THEN h ELSE flow[d].home,
         NEW u, NEW f \in [Flows -> Nat], f[e] = 0, Sums(u, f)
  PROVE  SumsNext(u, f)
<1>1. 0 \notin Homes
  BY DEF Homes
<1>2. e \notin Mates(h) /\ Mates(h)' = Mates(h) \cup {e}
  BY <1>1 DEF Mates
<1>3. ASSUME NEW k \in Homes, k # h PROVE Mates(k)' = Mates(k)
  BY <1>1, <1>3 DEF Mates
<1>4. Total(f, Mates(h)') = Total(f, Mates(h))
  <2> DEFINE S == Mates(h)
  <2>1. IsFiniteSet(S) /\ (\A d \in S : f[d] \in Nat) /\ e \notin S /\ Mates(h)' = S \cup {e}
    BY <1>2, UDPAssumption, FS_Subset DEF Mates
  <2> HIDE DEF S
  <2>2. Total(f, S \cup {e}) = Total(f, S) + f[e] /\ Total(f, S) \in Nat
    BY <2>1, TotalAdd, PairsFinite
  <2> QED BY <2>1, <2>2 DEF S
<1> QED BY <1>3, <1>4 DEF Sums, SumsNext

\* As long as a flow is to be opened, a home is free.
LEMMA FreeHome ==
  ASSUME NEW e \in Flows, flow[e].home = 0
  PROVE  \E h \in Homes : \A d \in Flows : flow[d].home # h
<1> SUFFICES ASSUME \A h \in Homes : \E d \in Flows : flow[d].home = h
             PROVE  FALSE
  OBVIOUS
<1> DEFINE N == Cardinality(Flows)
           T == Flows \ {e}
           g == [h \in Homes |-> CHOOSE d \in Flows : flow[d].home = h]
<1>1. N \in Nat /\ IsFiniteSet(T) /\ Cardinality(T) = N - 1 /\ 0 \notin Homes
  BY UDPAssumption, FS_CardinalityType, FS_RemoveElement DEF Homes
<1>2. IsFiniteSet(Homes) /\ Cardinality(Homes) = N
  BY <1>1, FS_Interval DEF Homes
<1>3. \A h \in Homes : g[h] \in Flows /\ flow[g[h]].home = h
  OBVIOUS
<1>4. \A h \in Homes : g[h] \in T
  BY <1>1, <1>3
<1>5. g \in [Homes -> T]
  BY <1>4
<1> HIDE DEF g, T, N
<1>6. g \in Injection(Homes, T)
  BY <1>3, <1>5 DEF Injection, IsInjective
<1>7. Cardinality(Homes) <= Cardinality(T)
  BY <1>1, <1>6, FS_Injection
<1> QED BY <1>1, <1>2, <1>7

\* A flow is opened at the home of its peer, or at a free one.
LEMMA OpenOK ==
  ASSUME IInv, NEW e \in Flows, Open(e)
  PROVE  IInv'
<1> DEFINE mates == {d \in Flows : Live(d) /\ traffic.peer[d] = traffic.peer[e]}
           home  == IF mates # {} THEN flow[CHOOSE d \in mates : TRUE].home
                    ELSE CHOOSE h \in Homes : \A d \in Flows : flow[d].home # h
           x     == [flow[e] EXCEPT !.status = "open", !.home = home]
<1>1. /\ manager = "open" /\ flow[e].status = "new" /\ flow' = [flow EXCEPT ![e] = x]
      /\ traffic' = traffic /\ manager' = manager /\ closing' = closing
      /\ UNCHANGED sendVars /\ UNCHANGED recvVars
  BY DEF Open
<1>2. flow \in [Flows -> FlowType] /\ flow[e] \in FlowType
  BY FlowRecord
<1>3. flow[e].home = 0 /\ sending[e] = 0 /\ queue[e] = <<>> /\ completed[e] = {}
  BY <1>1 DEF IInv, Vacant, Live
<1>4. home \in Homes
  <2>1. CASE mates # {}
    <3>1. PICK d : d = CHOOSE m \in mates : TRUE
      OBVIOUS
    <3>2. d \in Flows /\ Live(d)
      BY <2>1, <3>1
    <3> QED BY <2>1, <3>1, <3>2, FlowRecord
  <2>2. CASE mates = {}
    BY <1>3, <2>2, FreeHome
  <2> QED BY <2>1, <2>2
<1> HIDE DEF home
<1>5. x \in FlowType /\ x.status = "open" /\ x.home = home
  BY <1>2, <1>4 DEF FlowType, Statuses
<1> HIDE DEF x
<1>6. /\ flow' \in [Flows -> FlowType] /\ flow'[e].status = "open" /\ flow'[e].home = home
      /\ \A d \in Flows : d # e => flow'[d] = flow[d]
  BY <1>1, <1>2, <1>5
<1>7. FlowTypes'
  BY <1>1, <1>4, <1>6 DEF IInv, FlowTypes, Homes
<1>8. SendTypes' /\ Sends'
  BY <1>1, SendsKept DEF IInv
<1>9. PICK h \in Homes : h = home
  BY <1>4
<1>10. \A d \in Flows : flow'[d].home = IF d = e THEN h ELSE flow[d].home
  BY <1>6, <1>9
<1>11. Budget'
  <2>1. tx' = tx /\ Out' = Out
    BY <1>1 DEF sendVars, Out
  <2>2. Sums(tx, Out) /\ Out \in [Flows -> Nat] /\ Out[e] = Len(queue[e]) + sending[e]
    BY OutType DEF IInv, Budget
  <2>3. Out[e] = 0
    BY <1>3, <2>2
  <2>4. PICK f : f = Out
    OBVIOUS
  <2>5. SumsNext(tx, f)
    BY <1>3, <1>10, <2>2, <2>3, <2>4, SumsOpened
  <2> QED BY <2>1, <2>4, <2>5, BudgetKept DEF IInv
<1>12. RecvTypes' /\ Receives'
  <2>1. PICK m : m = Memory
    OBVIOUS
  <2>2. MemoryOK(m) /\ m \in MemoryType /\ RecvTypes /\ m.rx = rx /\ m.assemblies = assemblies
    BY <2>1 DEF IInv, Receives, RecvTypes, Memory
  <2>3. PICK f : f = Holding(m)
    OBVIOUS
  <2>4. f \in [Flows -> Nat] /\ Sums(rx, f)
    BY <2>2, <2>3, HoldingType DEF MemoryOK
  <2>5. Held(m.assemblies, e) = {}
    BY <1>1, <2>2, MemoryParts DEF MemoryOK, Windowed, Held, Live
  <2>6. f[e] = 0
    <3>1. f[e] = Cardinality(Held(m.assemblies, e)) + Cardinality(completed[e])
      BY <2>3 DEF Holding
    <3>2. Cardinality({}) = 0
      BY FS_EmptySet
    <3> QED BY <1>3, <2>5, <3>1, <3>2
  <2>7. SumsNext(rx, f)
    BY <1>3, <1>10, <2>4, <2>6, SumsOpened
  <2>8. SumsNext(rx, Holding(Memory))
    BY <2>1, <2>3, <2>7
  <2>9. \A d \in Flows : Live(d) => Live(d)'
    BY <1>6 DEF Live
  <2> QED BY <1>1, <2>8, <2>9, ReceivesKept DEF IInv
<1>13. Joined'
  BY <1>1, <1>6 DEF IInv, Joined, sendVars, recvVars, SendMuHeld
<1>14. Vacant'
  BY <1>1, <1>6 DEF IInv, Vacant, sendVars, recvVars, Live
<1>15. Closing'
  BY <1>1 DEF IInv, Closing
<1> QED BY <1>7, <1>8, <1>11, <1>12, <1>13, <1>14, <1>15 DEF IInv

-----------------------------------------------------------------------------
(* Complete messages: their reservations come and go.                      *)

\* The budgets of the receiving side when the complete messages of e change by n.
LEMMA SumsStep ==
  ASSUME RecvTypes, NEW m \in MemoryType, Sums(m.rx, Holding(m)), SameHomes,
         NEW e \in Flows, flow[e].home \in Homes, NEW n \in Int,
         assemblies' = m.assemblies, rx' = Charge(m.rx, e, n),
         \A d \in Flows \ {e} : completed'[d] = completed[d], IsFiniteSet(completed'[e]),
         Cardinality(completed'[e]) = Cardinality(completed[e]) + n
  PROVE  Sums(Memory.rx, Holding(Memory))'
<1>1. /\ Holding(m) \in [Flows -> Nat] /\ m.rx \in Usage
      /\ \A d \in Flows : Cardinality(Held(m.assemblies, d)) \in Nat /\ Cardinality(completed[d]) \in Nat
  BY HoldingType, MemoryParts
<1>2. Cardinality(completed'[e]) \in Nat
  BY FS_CardinalityType
<1>3. \A d \in Flows \ {e} : completed'[d] = completed[d]
  OBVIOUS
<1>4. PICK f : f = Holding(m)
  OBVIOUS
<1>5. PICK g : g = [d \in Flows |-> Cardinality(Held(m.assemblies, d)) + Cardinality(completed'[d])]
  OBVIOUS
<1>6. \A d \in Flows : f[d] = Cardinality(Held(m.assemblies, d)) + Cardinality(completed[d])
  BY <1>4 DEF Holding
<1>7. \A d \in Flows : g[d] = Cardinality(Held(m.assemblies, d)) + Cardinality(completed'[d])
  BY <1>5
<1>8. g \in [Flows -> Nat]
  <2>1. \A d \in Flows : Cardinality(completed'[d]) \in Nat
    BY <1>1, <1>2, <1>3
  <2> QED BY <1>1, <1>5, <2>1
<1>9. g[e] = f[e] + n /\ \A d \in Flows \ {e} : g[d] = f[d]
  BY <1>1, <1>3, <1>6, <1>7
<1>10. PICK u \in Usage : u = m.rx
  BY <1>1
<1>11. Sums(u, f) /\ f \in [Flows -> Nat]
  BY <1>1, <1>4, <1>10
<1>12. Sums(Charge(u, e, n), g)
  BY <1>8, <1>9, <1>11, ChargeSums
<1>13. SumsNext(Charge(u, e, n), g)
  BY <1>12, SumsKept
<1>14. Memory.rx' = Charge(u, e, n) /\ Holding(Memory)' = g
  BY <1>5, <1>10 DEF Memory, Holding
<1>15. PICK v : v = Charge(u, e, n)
  OBVIOUS
<1> QED BY <1>13, <1>14, <1>15 DEF Sums, SumsNext

\* The window and the assemblies are those of m.
LEMMA WindowStep ==
  ASSUME NEW m, Windowed(m), Alone(m), assemblies' = m.assemblies, states' = m.states, high' = m.high,
         \A i \in DOMAIN m.assemblies : Live(m.assemblies[i].flow)'
  PROVE  Windowed(Memory)' /\ Alone(Memory)'
<1>1. Memory'.assemblies = m.assemblies /\ Memory'.states = m.states /\ Memory'.high = m.high
  BY DEF Memory
<1> DEFINE n == Memory
<1>2. n'.assemblies = m.assemblies /\ n'.states = m.states /\ n'.high = m.high
  BY <1>1
<1> HIDE DEF n
<1>3. Windowed(n)' /\ Alone(n)'
  BY <1>2 DEF Windowed, Alone
<1> QED BY <1>3 DEF n

\* What was completed stays remembered.
LEMMA RemembersStep ==
  ASSUME NEW m, Remembers(m), states' = m.states, high' = m.high,
         traffic' = traffic, reassembled' = reassembled
  PROVE  Remembers(Memory)'
<1> DEFINE n == Memory
<1>1. n'.states = m.states /\ n'.high = m.high
  BY DEF Memory
<1> HIDE DEF n
<1>2. Remembers(n)'
  BY <1>1 DEF Remembers, IDs
<1> QED BY <1>2 DEF n

\* The limits hold after a charge there was room for.
LEMMA WithinStep ==
  ASSUME FlowTypes, NEW u \in Usage, Within(u, LimitsRX), NEW e \in Flows, flow[e].home \in Homes,
         NEW n \in Int, n <= 0 \/ (n = 1 /\ hasRoom(u, e, LimitsRX)), rx' = Charge(u, e, n)
  PROVE  Within(Memory.rx, LimitsRX)'
<1>1. u.flow \in [Flows -> Int] /\ u.peer \in [Homes -> Int] /\ u.node \in Int
  BY DEF Usage
<1>2. FlowRX \in Nat /\ PeerRX \in Nat /\ NodeRX \in Nat
  BY UDPAssumption
<1>3. PICK v : v = Charge(u, e, n)
  OBVIOUS
<1>4. /\ \A d \in Flows : v.flow[d] = IF d = e THEN u.flow[d] + n ELSE u.flow[d]
      /\ \A h \in Homes : v.peer[h] = IF h = flow[e].home THEN u.peer[h] + n ELSE u.peer[h]
      /\ v.node = u.node + n
  BY <1>3, ChargeType
<1>5. /\ \A d \in Flows : u.flow[d] <= FlowRX
      /\ \A h \in Homes : u.peer[h] <= PeerRX
      /\ u.node <= NodeRX
  BY DEF Within, LimitsRX
<1>6. n <= 0 \/ (n = 1 /\ u.flow[e] < FlowRX /\ u.peer[flow[e].home] < PeerRX /\ u.node < NodeRX)
  BY DEF hasRoom, LimitsRX
<1>7. ASSUME NEW d \in Flows PROVE v.flow[d] <= FlowRX
  BY <1>1, <1>2, <1>4, <1>5, <1>6
<1>8. ASSUME NEW h \in Homes PROVE v.peer[h] <= PeerRX
  BY <1>1, <1>2, <1>4, <1>5, <1>6
<1>9. v.node <= NodeRX
  BY <1>1, <1>2, <1>4, <1>5, <1>6
<1>10. Memory'.rx = v
  BY <1>3 DEF Memory
<1> QED BY <1>7, <1>8, <1>9, <1>10 DEF Within, LimitsRX

\* The parts together, for a step that takes complete messages in or out.
LEMMA CompletedStep ==
  ASSUME FlowTypes, RecvTypes, NEW m \in MemoryType, MemoryOK(m), SameHomes,
         NEW e \in Flows, flow[e].home \in Homes, NEW n \in Int,
         n <= 0 \/ (n = 1 /\ hasRoom(m.rx, e, LimitsRX)),
         assemblies' = m.assemblies, states' = m.states, high' = m.high, rx' = Charge(m.rx, e, n),
         NEW C, completed' = [completed EXCEPT ![e] = C], C \subseteq Nat, IsFiniteSet(C),
         Cardinality(C) = Cardinality(completed[e]) + n,
         \A i \in DOMAIN m.assemblies : Live(m.assemblies[i].flow)',
         traffic' = traffic, reassembled' = reassembled, Reserved', AtMostOnce'
  PROVE  Receives'
<1>1. /\ Windowed(m) /\ Alone(m) /\ Remembers(m) /\ Sums(m.rx, Holding(m)) /\ Within(m.rx, LimitsRX)
      /\ m.rx \in Usage
  BY MemoryParts DEF MemoryOK
<1>2. Windowed(Memory)' /\ Alone(Memory)'
  BY <1>1, WindowStep
<1>3. Remembers(Memory)'
  BY <1>1, RemembersStep
<1>4. Sums(Memory.rx, Holding(Memory))'
  <2>1. completed'[e] = C /\ \A d \in Flows \ {e} : completed'[d] = completed[d]
    BY DEF RecvTypes
  <2> QED BY <1>1, <2>1, SumsStep
<1>5. Within(Memory.rx, LimitsRX)'
  <2>1. PICK u \in Usage : u = m.rx
    BY <1>1
  <2> QED BY <1>1, <2>1, WithinStep
<1>6. MemoryOK(Memory)'
  BY <1>2, <1>3, <1>4, <1>5 DEF MemoryOK
<1> QED BY <1>6 DEF Receives

\* What a step that leaves the flows alone keeps.
LEMMA FlowsKept ==
  ASSUME IInv, UNCHANGED flowVars
  PROVE  /\ FlowTypes' /\ Closing' /\ SameHomes /\ SameFlows
         /\ traffic' = traffic /\ flow' = flow /\ manager' = manager /\ closing' = closing
<1>1. traffic' = traffic /\ flow' = flow /\ manager' = manager /\ closing' = closing
  BY DEF flowVars
<1>2. SameHomes /\ SameFlows
  BY <1>1 DEF SameHomes, SameFlows, Live
<1>3. FlowTypes'
  BY <1>1 DEF IInv, FlowTypes, Homes
<1>4. Closing'
  BY <1>1 DEF IInv, Closing, Live
<1> QED BY <1>1, <1>2, <1>3, <1>4

\* A step of the receiving side alone.
LEMMA RecvOnly ==
  ASSUME IInv, UNCHANGED flowVars, UNCHANGED sendVars, RecvTypes', Receives',
         \A d \in Flows : delivering'[d] => delivering[d] \/ flow[d].status = "open",
         \A d \in Flows : completed[d] = {} /\ flow[d].status # "open" => completed'[d] = {}
  PROVE  IInv'
<1>1. /\ FlowTypes' /\ Closing' /\ SameHomes /\ SameFlows
      /\ traffic' = traffic /\ flow' = flow /\ manager' = manager /\ closing' = closing
  BY FlowsKept
<1>2. SendTypes' /\ Sends'
  BY <1>1, SendsKept DEF IInv
<1>3. Budget'
  <2>1. tx' = tx /\ Out' = Out
    BY DEF sendVars, Out
  <2> QED BY <1>1, <2>1, BudgetKept, SameSums DEF IInv
<1>4. Joined'
  BY <1>1 DEF IInv, Joined, sendVars, SendMuHeld
<1>5. Vacant'
  BY <1>1 DEF IInv, Vacant, sendVars, Live
<1> QED BY <1>1, <1>2, <1>3, <1>4, <1>5 DEF IInv

\* The current memory, and the homes of the flows its assemblies are of.
LEMMA MemoryNow ==
  ASSUME IInv, NEW m, m = Memory
  PROVE  /\ m \in MemoryType /\ MemoryOK(m) /\ FlowTypes /\ RecvTypes
         /\ m.assemblies = assemblies /\ m.states = states /\ m.high = high /\ m.rx = rx
         /\ \A i \in DOMAIN m.assemblies : m.assemblies[i].flow \in Flows /\ Live(m.assemblies[i].flow)
<1>1. m \in MemoryType /\ MemoryOK(m) /\ FlowTypes /\ RecvTypes
  BY DEF IInv, RecvTypes, Receives
<1>2. m.assemblies = assemblies /\ m.states = states /\ m.high = high /\ m.rx = rx
  BY DEF Memory
<1>3. \A i \in DOMAIN m.assemblies : m.assemblies[i].flow \in Flows /\ Live(m.assemblies[i].flow)
  BY <1>1, MemoryParts DEF MemoryOK, Windowed
<1> QED BY <1>1, <1>2, <1>3

\* A message read from the local socket.
LEMMA RetainReceivedOK ==
  ASSUME IInv, NEW e \in Flows, RetainReceived(e)
  PROVE  IInv'
<1>1. /\ flow[e].status = "open" /\ 0 \notin held[e] /\ hasRoom(rx, e, LimitsRX)
      /\ rx' = Charge(rx, e, 1) /\ completed' = [completed EXCEPT ![e] = @ \cup {0}]
      /\ held' = [held EXCEPT ![e] = @ \cup {0}]
      /\ assemblies' = assemblies /\ states' = states /\ high' = high /\ delivering' = delivering
      /\ reassembled' = reassembled /\ UNCHANGED flowVars /\ UNCHANGED sendVars
  BY DEF RetainReceived, Closed
<1>2. PICK m : m = Memory
  OBVIOUS
<1>3. /\ m \in MemoryType /\ MemoryOK(m) /\ FlowTypes /\ RecvTypes
      /\ m.assemblies = assemblies /\ m.states = states /\ m.high = high /\ m.rx = rx
      /\ \A i \in DOMAIN m.assemblies : m.assemblies[i].flow \in Flows /\ Live(m.assemblies[i].flow)
  BY <1>2, MemoryNow
<1>4. /\ completed \in [Flows -> SUBSET Nat] /\ held \in [Flows -> SUBSET Nat]
      /\ \A d \in Flows : IsFiniteSet(completed[d])
  BY <1>3 DEF RecvTypes
<1>5. SameHomes /\ traffic' = traffic /\ flow' = flow
  BY <1>1, FlowsKept
<1>6. PICK C : C = completed[e] \cup {0}
  OBVIOUS
<1>7. C \subseteq Nat /\ IsFiniteSet(C) /\ Cardinality(C) = Cardinality(completed[e]) + 1
  <2>1. 0 \notin completed[e]
    BY <1>1 DEF IInv, Receives, Reserved
  <2> QED BY <1>4, <1>6, <2>1, FS_AddElement
<1>8. /\ completed' = [completed EXCEPT ![e] = C]
      /\ completed'[e] = C /\ \A d \in Flows : d # e => completed'[d] = completed[d]
  BY <1>1, <1>4, <1>6
<1>9. held'[e] = held[e] \cup {0} /\ \A d \in Flows : d # e => held'[d] = held[d]
  BY <1>1, <1>4
<1>10. Reserved' /\ AtMostOnce'
  BY <1>1, <1>5, <1>6, <1>8, <1>9 DEF IInv, Receives, Reserved, AtMostOnce, IDs
<1>11. flow[e].home \in Homes
  BY <1>1, FlowRecord DEF Live
<1>12. \A i \in DOMAIN m.assemblies : Live(m.assemblies[i].flow)'
  BY <1>3, <1>5 DEF Live
<1>13. Receives'
  <2>1. PICK n \in Int : n = 1
    OBVIOUS
  <2> QED BY <1>1, <1>3, <1>5, <1>7, <1>8, <1>10, <1>11, <1>12, <2>1, CompletedStep
<1>14. RecvTypes'
  <2>1. completed' \in [Flows -> SUBSET Nat] /\ \A d \in Flows : IsFiniteSet(completed'[d])
    BY <1>4, <1>7, <1>8
  <2>2. held' \in [Flows -> SUBSET Nat]
    BY <1>1, <1>4
  <2>3. Charge(rx, e, 1) \in Usage
    <3>1. rx \in Usage
      BY <1>3, MemoryParts
    <3> QED BY <1>11, <3>1, ChargeType
  <2>4. Memory' \in MemoryType
    BY <1>1, <1>2, <1>3, <2>3 DEF MemoryType, Memory
  <2> QED BY <1>1, <1>3, <1>5, <2>1, <2>2, <2>4 DEF RecvTypes, IDs, MemoryType, Usage, Homes
<1> QED BY <1>1, <1>8, <1>13, <1>14, RecvOnly

\* A delivery begins and ends.
LEMMA DeliverOK ==
  ASSUME IInv, NEW e \in Flows, DeliverBegin(e) \/ DeliverEnd(e)
  PROVE  IInv'
<1>1. /\ delivering' \in [Flows -> BOOLEAN]
      /\ \A d \in Flows : delivering'[d] => delivering[d] \/ flow[d].status = "open"
      /\ assemblies' = assemblies /\ states' = states /\ high' = high /\ completed' = completed
      /\ held' = held /\ rx' = rx /\ reassembled' = reassembled
      /\ UNCHANGED flowVars /\ UNCHANGED sendVars
  BY DEF IInv, RecvTypes, DeliverBegin, DeliverEnd, Closed
<1>2. SameHomes /\ SameFlows /\ traffic' = traffic /\ flow' = flow
  BY <1>1, FlowsKept
<1>3. Memory' = Memory
  BY <1>1 DEF Memory
<1>4. RecvTypes'
  BY <1>1, <1>2, <1>3 DEF IInv, RecvTypes, IDs
<1>5. PICK m : m = Memory
  OBVIOUS
<1>6. /\ m \in MemoryType /\ MemoryOK(m) /\ Memory' = m /\ SumsNext(m.rx, Holding(m))
      /\ \A i \in DOMAIN m.assemblies : m.assemblies[i].flow \in Flows /\ Live(m.assemblies[i].flow)
  BY <1>2, <1>3, <1>5, MemoryNow, SameSums
<1>7. \A i \in DOMAIN m.assemblies : Live(m.assemblies[i].flow)'
  BY <1>2, <1>6 DEF Live
<1>8. Reserved' /\ AtMostOnce'
  BY <1>1, <1>2 DEF IInv, Receives, Reserved, AtMostOnce, IDs
<1>9. Receives'
  BY <1>1, <1>2, <1>6, <1>7, <1>8, ReceivesStep
<1> QED BY <1>1, <1>4, <1>9, RecvOnly

\* A message is released, with its reservation if retirement left it.
LEMMA ReleaseOK ==
  ASSUME IInv, NEW e \in Flows, NEW id, Release(e, id)
  PROVE  IInv'
<1>1. /\ id \in held[e] /\ held' = [held EXCEPT ![e] = @ \ {id}]
      /\ completed' = [completed EXCEPT ![e] = @ \ {id}]
      /\ rx' = IF id \in completed[e] THEN Charge(rx, e, -1) ELSE rx
      /\ assemblies' = assemblies /\ states' = states /\ high' = high /\ delivering' = delivering
      /\ reassembled' = reassembled /\ UNCHANGED flowVars /\ UNCHANGED sendVars
  BY DEF Release
<1>2. PICK m : m = Memory
  OBVIOUS
<1>3. /\ m \in MemoryType /\ MemoryOK(m) /\ FlowTypes /\ RecvTypes
      /\ m.assemblies = assemblies /\ m.states = states /\ m.high = high /\ m.rx = rx
      /\ \A i \in DOMAIN m.assemblies : m.assemblies[i].flow \in Flows /\ Live(m.assemblies[i].flow)
  BY <1>2, MemoryNow
<1>4. /\ completed \in [Flows -> SUBSET Nat] /\ held \in [Flows -> SUBSET Nat]
      /\ \A d \in Flows : IsFiniteSet(completed[d])
  BY <1>3 DEF RecvTypes
<1>5. SameHomes /\ traffic' = traffic /\ flow' = flow
  BY <1>1, FlowsKept
<1>6. PICK C : C = completed[e] \ {id}
  OBVIOUS
<1>7. C \subseteq Nat /\ IsFiniteSet(C)
  BY <1>4, <1>6, FS_RemoveElement
<1>8. /\ completed' = [completed EXCEPT ![e] = C]
      /\ completed'[e] = C /\ \A d \in Flows : d # e => completed'[d] = completed[d]
  BY <1>1, <1>4, <1>6
<1>9. held'[e] = held[e] \ {id} /\ \A d \in Flows : d # e => held'[d] = held[d]
  BY <1>1, <1>4
<1>10. Reserved' /\ AtMostOnce'
  BY <1>1, <1>5, <1>6, <1>8, <1>9 DEF IInv, Receives, Reserved, AtMostOnce, IDs
<1>11. \A i \in DOMAIN m.assemblies : Live(m.assemblies[i].flow)'
  BY <1>3, <1>5 DEF Live
<1>12. completed' \in [Flows -> SUBSET Nat] /\ (\A d \in Flows : IsFiniteSet(completed'[d]))
       /\ held' \in [Flows -> SUBSET Nat]
  BY <1>1, <1>4, <1>7, <1>8
<1>13. RecvTypes' /\ Receives'
  <2>1. CASE id \in completed[e]
    <3>1. flow[e].home \in Homes
      BY <2>1, FlowRecord DEF IInv, Vacant
    <3>2. Cardinality(C) = Cardinality(completed[e]) - 1
      BY <1>4, <1>6, <2>1, FS_RemoveElement
    <3>3. Cardinality(completed[e]) \in Nat
      BY <1>4, FS_CardinalityType
    <3>4. PICK n \in Int : n = -1
      OBVIOUS
    <3>5. Cardinality(C) = Cardinality(completed[e]) + n /\ n <= 0 /\ rx' = Charge(m.rx, e, n)
      BY <1>1, <1>3, <2>1, <3>2, <3>3, <3>4
    <3>6. Receives'
      BY <1>1, <1>3, <1>5, <1>7, <1>8, <1>10, <1>11, <3>1, <3>5, CompletedStep
    <3>7. Charge(m.rx, e, n) \in Usage
      BY <1>3, <3>1, MemoryParts, ChargeType
    <3>8. Memory' \in MemoryType
      BY <1>1, <1>2, <1>3, <3>5, <3>7 DEF MemoryType, Memory
    <3>9. RecvTypes'
      BY <1>1, <1>3, <1>5, <1>12, <3>8 DEF RecvTypes, IDs, MemoryType, Usage, Homes
    <3> QED BY <3>6, <3>9
  <2>2. CASE id \notin completed[e]
    <3>1. C = completed[e]
      BY <1>6, <2>2
    <3>2. completed' = completed /\ Memory' = m /\ SumsNext(m.rx, Holding(m))
      BY <1>1, <1>2, <1>3, <1>4, <1>5, <1>8, <2>2, <3>1, SameSums DEF Memory
    <3>3. Receives'
      BY <1>1, <1>3, <1>5, <1>10, <1>11, <3>2, ReceivesStep
    <3>4. RecvTypes'
      BY <1>1, <1>3, <1>5, <1>12, <3>2 DEF RecvTypes, IDs, MemoryType, Usage, Homes
    <3> QED BY <3>3, <3>4
  <2> QED BY <2>1, <2>2
<1> QED BY <1>1, <1>6, <1>8, <1>13, RecvOnly

\* Two charges are one.
LEMMA ChargeTwice ==
  ASSUME NEW u \in Usage, NEW e \in Flows, flow[e].home \in Homes, NEW a \in Int, NEW b \in Int
  PROVE  Charge(Charge(u, e, a), e, b) = Charge(u, e, a + b)
<1>1. u.flow \in [Flows -> Int] /\ u.peer \in [Homes -> Int] /\ u.node \in Int
  BY DEF Usage
<1> QED BY <1>1 DEF Charge

\* Retirement gives back what the flow reserved on both sides.
LEMMA RetireOK ==
  ASSUME IInv, NEW e \in Flows, Retire(e)
  PROVE  IInv'
<1>1. /\ flow[e].status = "quiet" /\ flow' = [flow EXCEPT ![e].status = "retired"]
      /\ tx' = Charge(tx, e, -Len(queue[e]))
      /\ rx' = Charge(rx, e, -(Cardinality(Of(e)) + Cardinality(completed[e])))
      /\ queue' = [queue EXCEPT ![e] = <<>>]
      /\ assemblies' = At(assemblies, DOMAIN assemblies \ Of(e))
      /\ completed' = [completed EXCEPT ![e] = {}]
      /\ traffic' = traffic /\ manager' = manager /\ closing' = closing /\ sched' = sched
      /\ nextID' = nextID /\ sending' = sending /\ log' = log /\ states' = states /\ high' = high
      /\ held' = held /\ delivering' = delivering /\ reassembled' = reassembled
  BY DEF Retire
<1>2. Live(e) /\ flow[e].home \in Homes /\ flow \in [Flows -> FlowType] /\ flow[e] \in FlowType
  BY <1>1, FlowRecord DEF Live
<1>3. /\ flow' \in [Flows -> FlowType] /\ flow'[e].status = "retired"
      /\ (\A d \in Flows : flow'[d].home = flow[d].home) /\ \A d \in Flows : d # e => flow'[d] = flow[d]
  BY <1>1, <1>2 DEF FlowType, Statuses
<1>4. SameHomes /\ \A d \in Flows : d # e => (Live(d)' <=> Live(d))
  BY <1>3 DEF SameHomes, Live
<1>5. FlowTypes'
  BY <1>1, <1>2, <1>3 DEF IInv, FlowTypes, Homes
<1>6. SendTypes'
  <2>1. queue' \in [Flows -> Seq(Message)]
    BY <1>1 DEF IInv, SendTypes
  <2>2. Len(queue[e]) \in Nat
    BY OutType DEF IInv
  <2>3. tx' \in Usage
    BY <1>1, <1>2, <2>2, ChargeType DEF IInv, SendTypes
  <2> QED BY <1>1, <2>1, <2>3 DEF IInv, SendTypes, Running, Usage, Homes
<1>7. Sends'
  <2>1. queue'[e] = <<>> /\ \A d \in Flows : d # e => queue'[d] = queue[d]
    BY <1>1 DEF IInv, SendTypes
  <2>2. \A d \in Flows : LogOK(d)'
    BY <1>1 DEF IInv, Sends, LogOK, InOrder
  <2>3. \A d \in Flows : QueueOK(d)'
    <3>1. PICK t : t = <<>>
      OBVIOUS
    <3>2. queue' = [queue EXCEPT ![e] = t] /\ Drawn(t, queue[e]) /\ DOMAIN t = {}
      BY <1>1, <3>1 DEF Drawn
    <3>3. \A d, id : Taken(d, id)' <=> Taken(d, id)
      BY <1>1 DEF Taken
    <3> QED BY <1>1, <3>2, <3>3, QueuesDrawn DEF IInv
  <2>4. SchedOK'
    <3>1. sched.pc \in {"locked", "checked"} => sched.flow # e
      BY <1>1 DEF IInv, Joined, SendMuHeld
    <3>2. sched.pc \in {"locked", "checked"} => sched.flow \in Flows
      BY DEF IInv, SendTypes, Running
    <3> QED BY <1>1, <2>1, <3>1, <3>2 DEF IInv, Sends, SchedOK, Running, Position
  <2> QED BY <2>2, <2>3, <2>4 DEF Sends
<1>8. Budget'
  <2>1. Len(queue[e]) \in Nat /\ Out[e] = Len(queue[e]) + sending[e] /\ sending[e] \in Nat
    BY OutType DEF IInv, SendTypes
  <2>2. PICK n \in Int : n = -Len(queue[e])
    BY <2>1
  <2>3. Out'[e] = Out[e] + n /\ \A d \in Flows \ {e} : Out'[d] = Out[d]
    BY <1>1, <2>1, <2>2 DEF Out, IInv, SendTypes
  <2>4. n <= 0 /\ tx' = Charge(tx, e, n)
    BY <1>1, <2>1, <2>2
  <2> QED BY <1>2, <1>4, <1>6, <2>3, <2>4, BudgetStep DEF IInv
<1>9. RecvTypes' /\ Receives'
  <2>1. PICK m : m = Memory
    OBVIOUS
  <2>2. /\ m \in MemoryType /\ MemoryOK(m) /\ FlowTypes /\ RecvTypes
        /\ m.assemblies = assemblies /\ m.states = states /\ m.high = high /\ m.rx = rx
    BY <2>1, MemoryNow
  <2>3. /\ m.assemblies \in Seq(Assembly) /\ m.states \in [Flows -> [Slots -> Marks]]
        /\ m.high \in [Flows -> Nat] /\ m.rx \in Usage
    BY <2>2, MemoryParts
  <2>4. PICK out : out = Held(m.assemblies, e)
    OBVIOUS
  <2>5. PICK n : n = Dropped(m, e, out, m.states, m.high)
    OBVIOUS
  <2>6. Of(e) = out /\ out \in SUBSET DOMAIN m.assemblies /\ Cardinality(out) \in Nat
    <3>1. Of(e) = out /\ out \in SUBSET DOMAIN m.assemblies
      BY <2>2, <2>4 DEF Of, Held
    <3> QED BY <2>3, <3>1, Positions
  <2>7. n \in MemoryType /\ MemoryOK(n)
    <3>1. \A i \in DOMAIN m.assemblies \ out : LET a == m.assemblies[i] IN
            /\ a.id <= m.high[a.flow] /\ m.high[a.flow] - WindowSize < a.id
            /\ m.states[a.flow][a.id % WindowSize] = 1
      BY <2>2 DEF MemoryOK, Windowed
    <3>2. \A d \in Flows : \A id \in IDs(d) :
            reassembled[d][id] # 0 =>
               /\ id <= m.high[d]
               /\ m.high[d] - WindowSize < id => m.states[d][id % WindowSize] = 2
      BY <2>2 DEF MemoryOK, Remembers
    <3>3. out \in SUBSET Held(m.assemblies, e)
      BY <2>4
    <3> QED BY <1>2, <2>2, <2>3, <2>5, <3>1, <3>2, <3>3, DroppedOK
  <2>8. /\ n.assemblies = At(assemblies, DOMAIN assemblies \ out) /\ n.states = states
        /\ n.high = high /\ n.rx = Charge(rx, e, -Cardinality(out))
    BY <2>2, <2>5 DEF Dropped
  <2>9. completed \in [Flows -> SUBSET Nat] /\ Cardinality(completed[e]) \in Nat
        /\ \A d \in Flows : IsFiniteSet(completed[d])
    BY <2>2, FS_CardinalityType DEF RecvTypes
  <2>10. PICK k \in Int : k = -Cardinality(completed[e])
    BY <2>9
  <2>11. rx' = Charge(n.rx, e, k)
    <3>1. PICK a \in Int : a = -Cardinality(out)
      BY <2>6
    <3>2. Charge(Charge(rx, e, a), e, k) = Charge(rx, e, a + k)
      BY <1>2, <2>2, <2>3, ChargeTwice
    <3>3. a + k = -(Cardinality(out) + Cardinality(completed[e]))
      BY <2>6, <2>9, <2>10, <3>1
    <3> QED BY <1>1, <2>6, <2>8, <3>1, <3>2, <3>3
  <2>12. PICK C : C = {}
    OBVIOUS
  <2>13. C \subseteq Nat /\ IsFiniteSet(C) /\ Cardinality(C) = Cardinality(completed[e]) + k
    BY <2>9, <2>10, <2>12, FS_EmptySet
  <2>14. /\ completed' = [completed EXCEPT ![e] = C] /\ completed'[e] = C
         /\ \A d \in Flows : d # e => completed'[d] = completed[d]
    BY <1>1, <2>9, <2>12
  <2>15. Reserved' /\ AtMostOnce'
    BY <1>1, <2>12, <2>14 DEF IInv, Receives, Reserved, AtMostOnce, IDs
  <2>16. \A i \in DOMAIN n.assemblies : Live(n.assemblies[i].flow)'
    <3>1. \A i \in DOMAIN n.assemblies : \E j \in DOMAIN assemblies \ out : n.assemblies[i] = assemblies[j]
      <4>1. PICK I \in SUBSET DOMAIN m.assemblies : I = DOMAIN m.assemblies \ out
        OBVIOUS
      <4>2. \A i \in DOMAIN At(m.assemblies, I) : \E j \in I : At(m.assemblies, I)[i] = m.assemblies[j]
        BY <2>3, AtElements
      <4> QED BY <2>2, <2>8, <4>1, <4>2
    <3>2. ASSUME NEW i \in DOMAIN n.assemblies PROVE Live(n.assemblies[i].flow)'
      <4>1. PICK j \in DOMAIN assemblies \ out : n.assemblies[i] = assemblies[j]
        BY <3>1
      <4>2. assemblies[j].flow # e
        BY <2>2, <2>4, <4>1 DEF Held
      <4>3. n.assemblies[i].flow \in Flows /\ Live(n.assemblies[i].flow)
        BY <2>7, MemoryParts DEF MemoryOK, Windowed
      <4> QED BY <1>4, <4>1, <4>2, <4>3
    <3> QED BY <3>2
  <2>17. k <= 0
    BY <2>9, <2>10
  <2>18. assemblies' = n.assemblies /\ states' = n.states /\ high' = n.high
    BY <1>1, <2>6, <2>8
  <2>19. Receives'
    BY <1>1, <1>2, <1>4, <2>2, <2>7, <2>11, <2>13, <2>14, <2>15, <2>16, <2>17, <2>18, CompletedStep
  <2>20. RecvTypes'
    <3>1. Charge(n.rx, e, k) \in Usage
      BY <1>2, <2>7, MemoryParts, ChargeType
    <3>2. Memory' \in MemoryType
      BY <2>7, <2>11, <2>18, <3>1 DEF MemoryType, Memory
    <3>3. completed' \in [Flows -> SUBSET Nat] /\ \A d \in Flows : IsFiniteSet(completed'[d])
      BY <2>9, <2>13, <2>14
    <3> QED BY <1>1, <2>2, <3>2, <3>3 DEF RecvTypes, IDs, MemoryType, Usage, Homes
  <2> QED BY <2>19, <2>20
<1>10. Joined'
  BY <1>1, <1>3 DEF IInv, Joined, SendMuHeld
<1>11. Vacant'
  <2>1. queue'[e] = <<>> /\ completed'[e] = {}
        /\ \A d \in Flows : d # e => queue'[d] = queue[d] /\ completed'[d] = completed[d]
    BY <1>1 DEF IInv, SendTypes, RecvTypes
  <2> QED BY <1>1, <1>3, <1>4, <2>1 DEF IInv, Vacant
<1>12. Closing'
  BY <1>1, <1>3, <1>4 DEF IInv, Closing, Live
<1> QED BY <1>5, <1>6, <1>7, <1>8, <1>9, <1>10, <1>11, <1>12 DEF IInv

-----------------------------------------------------------------------------
(* Sending.                                                                *)

\* A step of the sending side that may change a flow's chunk size.
LEMMA SendFlow ==
  ASSUME IInv, FlowTypes', Closing', SameHomes, SameFlows, traffic' = traffic,
         \A d \in Flows : flow'[d].status = flow[d].status,
         UNCHANGED recvVars, SendTypes', Sends', Budget',
         \A d \in Flows : SendMuHeld(d)' => SendMuHeld(d) \/ flow[d].status = "open",
         \A d \in Flows : flow[d].status = "new" => sending'[d] = sending[d],
         \A d \in Flows : ~Live(d) => queue'[d] = queue[d]
  PROVE  IInv'
<1>1. RecvTypes' /\ Receives'
  BY ReceivesKept, SameSums DEF IInv, SameFlows
<1>2. Joined'
  BY DEF IInv, Joined, recvVars
<1>3. Vacant'
  BY DEF IInv, Vacant, recvVars, Live, SameHomes
<1> QED BY <1>1, <1>2, <1>3 DEF IInv

\* A step of the sending side alone.
LEMMA SendOnly ==
  ASSUME IInv, UNCHANGED flowVars, UNCHANGED recvVars, SendTypes', Sends', Budget',
         \A d \in Flows : SendMuHeld(d)' => SendMuHeld(d) \/ flow[d].status = "open",
         \A d \in Flows : flow[d].status = "new" => sending'[d] = sending[d],
         \A d \in Flows : ~Live(d) => queue'[d] = queue[d]
  PROVE  IInv'
<1>1. /\ FlowTypes' /\ Closing' /\ SameHomes /\ SameFlows
      /\ traffic' = traffic /\ flow' = flow
  BY FlowsKept
<1> QED BY <1>1, SendFlow

\* The facts about the sending side of one flow that the actions need.
LEMMA SendNow ==
  ASSUME IInv, NEW e \in Flows
  PROVE  /\ SendTypes /\ Sends /\ Budget
         /\ queue \in [Flows -> Seq(Message)] /\ queue[e] \in Seq(Message) /\ Len(queue[e]) \in Nat
         /\ sending \in [Flows -> Nat] /\ sending[e] \in Nat
         /\ nextID \in [Flows -> Nat] /\ nextID[e] \in Nat /\ nextID[e] # 0
         /\ traffic.sends[e] \in Nat /\ log[e] \in [1 .. traffic.sends[e] -> Seq(Chunk)]
         /\ Out[e] = Len(queue[e]) + sending[e] /\ tx \in Usage
         /\ flow[e].status # "new" => flow[e].home \in Homes
         /\ QueueOK(e) /\ LogOK(e)
<1>1. traffic.sends[e] \in Nat
  BY UDPAssumption DEF IInv, FlowTypes
<1>2. Len(queue[e]) \in Nat /\ Out[e] = Len(queue[e]) + sending[e]
  BY OutType DEF IInv
<1>3. /\ queue \in [Flows -> Seq(Message)] /\ sending \in [Flows -> Nat]
      /\ nextID \in [Flows -> Nat \ {0}] /\ log[e] \in [1 .. traffic.sends[e] -> Seq(Chunk)]
      /\ tx \in Usage
  BY DEF IInv, SendTypes
<1> QED BY <1>1, <1>2, <1>3 DEF IInv, FlowTypes, Sends

\* The logs when nothing is sent.
LEMMA LogsKept ==
  ASSUME Sends, log' = log, nextID' = nextID, sending' = sending, traffic' = traffic
  PROVE  \A d \in Flows : LogOK(d)'
BY DEF Sends, LogOK, InOrder

\* The queues when none changes.
LEMMA QueuesKept ==
  ASSUME SendTypes, Sends, queue' = queue, nextID' = nextID, log' = log, sched' = sched
  PROVE  \A d \in Flows : QueueOK(d)'
<1>1. ASSUME NEW d \in Flows PROVE QueueOK(d)'
  <2>1. \A id \in Nat : Taken(d, id)' <=> Taken(d, id)
    BY DEF Taken
  <2> QED BY <2>1, QueueSame DEF Sends
<1> QED BY <1>1

\* Send reserves.
LEMMA SendReserveOK ==
  ASSUME IInv, NEW e \in Flows, SendReserve(e)
  PROVE  IInv'
<1>1. /\ flow[e].status = "open" /\ hasRoom(tx, e, LimitsTX)
      /\ sending[e] + nextID[e] <= traffic.sends[e]
      /\ tx' = Charge(tx, e, 1) /\ sending' = [sending EXCEPT ![e] = @ + 1]
      /\ sched' = sched /\ queue' = queue /\ nextID' = nextID /\ log' = log
      /\ UNCHANGED flowVars /\ UNCHANGED recvVars
  BY DEF SendReserve
<1>2. /\ SendTypes /\ Sends /\ Budget /\ sending \in [Flows -> Nat] /\ sending[e] \in Nat
      /\ nextID[e] \in Nat /\ traffic.sends[e] \in Nat /\ Len(queue[e]) \in Nat
      /\ Out[e] = Len(queue[e]) + sending[e] /\ flow[e].home \in Homes /\ tx \in Usage
  BY <1>1, SendNow
<1>3. SameHomes /\ traffic' = traffic /\ flow' = flow
  BY <1>1, FlowsKept
<1>4. sending'[e] = sending[e] + 1 /\ \A d \in Flows : d # e => sending'[d] = sending[d]
  BY <1>1, <1>2
<1>5. SendTypes'
  <2>1. tx' \in Usage
    BY <1>1, <1>2, ChargeType
  <2>2. sending' \in [Flows -> Nat]
    BY <1>1, <1>2
  <2> QED BY <1>1, <1>2, <1>3, <2>1, <2>2 DEF SendTypes, Running, Usage, Homes
<1>6. Sends'
  <2>1. \A d \in Flows : QueueOK(d)'
    BY <1>1, <1>2, QueuesKept
  <2>2. \A d \in Flows : LogOK(d)'
    BY <1>1, <1>2, <1>3, <1>4 DEF Sends, LogOK, InOrder
  <2>3. SchedOK'
    BY <1>1, <1>2 DEF Sends, SchedOK, Running, Position
  <2> QED BY <2>1, <2>2, <2>3 DEF Sends
<1>7. Budget'
  <2>1. Out'[e] = Out[e] + 1 /\ \A d \in Flows \ {e} : Out'[d] = Out[d]
    BY <1>1, <1>2, <1>4 DEF Out
  <2>2. PICK n \in Int : n = 1
    OBVIOUS
  <2> QED BY <1>1, <1>2, <1>3, <1>5, <2>1, <2>2, BudgetStep
<1>8. \A d \in Flows : SendMuHeld(d)' <=> SendMuHeld(d)
  BY <1>1 DEF SendMuHeld
<1> QED BY <1>1, <1>4, <1>5, <1>6, <1>7, <1>8, SendOnly

\* Send gives its reservation back.
LEMMA SendFailOK ==
  ASSUME IInv, NEW e \in Flows, SendFail(e)
  PROVE  IInv'
<1>1. /\ sending[e] > 0 /\ tx' = Charge(tx, e, -1) /\ sending' = [sending EXCEPT ![e] = @ - 1]
      /\ sched' = sched /\ queue' = queue /\ nextID' = nextID /\ log' = log
      /\ UNCHANGED flowVars /\ UNCHANGED recvVars
  BY DEF SendFail
<1>2. /\ SendTypes /\ Sends /\ Budget /\ sending \in [Flows -> Nat] /\ sending[e] \in Nat
      /\ nextID[e] \in Nat /\ traffic.sends[e] \in Nat /\ Len(queue[e]) \in Nat
      /\ Out[e] = Len(queue[e]) + sending[e] /\ tx \in Usage
      /\ (flow[e].status # "new" => flow[e].home \in Homes) /\ LogOK(e)
  BY SendNow
<1>3. flow[e].status # "new" /\ flow[e].home \in Homes
  BY <1>1, <1>2 DEF IInv, Vacant
<1>4. SameHomes /\ traffic' = traffic /\ flow' = flow
  BY <1>1, FlowsKept
<1>5. sending'[e] = sending[e] - 1 /\ \A d \in Flows : d # e => sending'[d] = sending[d]
  BY <1>1, <1>2
<1>6. PICK n \in Int : n = -1
  OBVIOUS
<1>7. SendTypes'
  <2>1. tx' \in Usage
    BY <1>1, <1>2, <1>3, ChargeType
  <2>2. sending' \in [Flows -> Nat]
    BY <1>1, <1>2
  <2> QED BY <1>1, <1>2, <1>4, <2>1, <2>2 DEF SendTypes, Running, Usage, Homes
<1>8. Sends'
  <2>1. \A d \in Flows : QueueOK(d)'
    BY <1>1, <1>2, QueuesKept
  <2>2. LogOK(e)'
    BY <1>1, <1>2, <1>4, <1>5 DEF LogOK, InOrder
  <2>3. \A d \in Flows : d # e => LogOK(d)'
    BY <1>1, <1>2, <1>4, <1>5 DEF Sends, LogOK, InOrder
  <2>4. SchedOK'
    BY <1>1, <1>2 DEF Sends, SchedOK, Running, Position
  <2> QED BY <2>1, <2>2, <2>3, <2>4 DEF Sends
<1>9. Budget'
  <2>1. Out'[e] = Out[e] + n /\ \A d \in Flows \ {e} : Out'[d] = Out[d]
    BY <1>1, <1>2, <1>5, <1>6 DEF Out
  <2> QED BY <1>1, <1>2, <1>3, <1>4, <1>6, <1>7, <2>1, BudgetStep
<1>10. \A d \in Flows : SendMuHeld(d)' <=> SendMuHeld(d)
  BY <1>1 DEF SendMuHeld
<1> QED BY <1>1, <1>3, <1>5, <1>7, <1>8, <1>9, <1>10, SendOnly

\* Send queues its message under a new id.
LEMMA SendPublishOK ==
  ASSUME IInv, NEW e \in Flows, SendPublish(e)
  PROVE  IInv'
<1> DEFINE m == [id |-> nextID[e], index |-> 0, stride |-> 0, wait |-> FALSE]
<1>1. /\ sending[e] > 0 /\ flow[e].status = "open"
      /\ queue' = [queue EXCEPT ![e] = Append(queue[e], m)]
      /\ nextID' = [nextID EXCEPT ![e] = @ + 1] /\ sending' = [sending EXCEPT ![e] = @ - 1]
      /\ sched' = sched /\ tx' = tx /\ log' = log
      /\ UNCHANGED flowVars /\ UNCHANGED recvVars
  BY DEF SendPublish, Closed
<1>2. /\ SendTypes /\ Sends /\ Budget
      /\ queue \in [Flows -> Seq(Message)] /\ queue[e] \in Seq(Message) /\ Len(queue[e]) \in Nat
      /\ sending \in [Flows -> Nat] /\ sending[e] \in Nat
      /\ nextID \in [Flows -> Nat] /\ nextID[e] \in Nat /\ nextID[e] # 0
      /\ traffic.sends[e] \in Nat /\ log[e] \in [1 .. traffic.sends[e] -> Seq(Chunk)]
      /\ Out[e] = Len(queue[e]) + sending[e] /\ QueueOK(e) /\ LogOK(e)
  BY SendNow
<1>3. SameHomes /\ traffic' = traffic /\ flow' = flow
  BY <1>1, FlowsKept
<1>4. /\ sending'[e] = sending[e] - 1 /\ nextID'[e] = nextID[e] + 1
      /\ \A d \in Flows : d # e => sending'[d] = sending[d] /\ nextID'[d] = nextID[d] /\ queue'[d] = queue[d]
  BY <1>1, <1>2
<1>5. m \in Message /\ m.id = nextID[e] /\ m.index = 0 /\ m.stride = 0
  BY <1>2 DEF Message
<1>6. PICK q : q = queue[e]
  OBVIOUS
<1>7. PICK t : t = Append(q, m)
  OBVIOUS
<1> DEFINE L == Len(q)
<1>8. /\ queue'[e] = t /\ t \in Seq(Message) /\ Len(t) = L + 1 /\ DOMAIN t = 1 .. L + 1
      /\ t[L + 1] = m /\ \A k \in 1 .. L : t[k] = q[k]
  <2> HIDE DEF m
  <2>1. q \in Seq(Message) /\ L \in Nat
    BY <1>2, <1>6
  <2>2. queue'[e] = t
    BY <1>1, <1>2, <1>6, <1>7
  <2>3. t \in Seq(Message) /\ Len(t) = L + 1 /\ DOMAIN t = 1 .. L + 1
    BY <1>5, <1>7, <2>1
  <2>4. t[L + 1] = m /\ \A k \in 1 .. L : t[k] = q[k]
    BY <1>5, <1>7, <2>1
  <2> QED BY <2>2, <2>3, <2>4
<1>9. q \in Seq(Message) /\ L \in Nat /\ DOMAIN q = 1 .. L
  BY <1>2, <1>6
<1>10. nextID[e] \in 1 .. traffic.sends[e] /\ log[e][nextID[e]] = <<>>
  <2>1. sending[e] + nextID[e] <= traffic.sends[e] + 1
    BY <1>2 DEF LogOK
  <2>2. nextID[e] \in 1 .. traffic.sends[e]
    <3> HIDE DEF m
    <3> QED BY <1>1, <1>2, <2>1
  <2>3. nextID[e] \in DOMAIN log[e] /\ nextID[e] >= nextID[e]
    BY <1>2, <2>2
  <2> QED BY <1>2, <2>2, <2>3 DEF LogOK
<1> HIDE DEF m, L
<1>11. SendTypes'
  <2>1. queue' \in [Flows -> Seq(Message)]
    BY <1>1, <1>2, <1>4, <1>8
  <2>2. sending' \in [Flows -> Nat] /\ nextID' \in [Flows -> Nat \ {0}]
    BY <1>1, <1>2 DEF SendTypes
  <2> QED BY <1>1, <1>2, <1>3, <2>1, <2>2 DEF SendTypes, Running, Usage, Homes
<1>12. \A id \in Nat : sched.pc # "idle" /\ sched.pc # "stopped" /\ sched.flow = e /\ sched.id = id => id < nextID[e]
  BY <1>2 DEF Sends, SchedOK, Running
<1>13. Sends'
  <2>1. QueueOK(e)'
    <3>1. ASSUME NEW k \in DOMAIN t
          PROVE  t[k].id \in 1 .. nextID[e] /\ Logged(e, t[k])'
      <4>1. CASE k = L + 1
        <5>1. ~Taken(e, nextID[e])
          BY <1>2, <1>12 DEF Taken
        <5>2. ~Taken(e, nextID[e])'
          <6>1. PICK j : j = nextID[e]
            OBVIOUS
          <6>2. ~Taken(e, j)'
            BY <1>1, <5>1, <6>1 DEF Taken
          <6>3. sched' = sched /\ (j = nextID[e])
            BY <1>1, <6>1
          <6> QED BY <1>2, <1>4, <1>12, <6>3 DEF Taken
        <5>3. PICK x : x = m
          OBVIOUS
        <5>4. x.id = nextID[e] /\ x.index = 0 /\ x.stride = 0 /\ t[k] = x
          BY <1>5, <1>8, <4>1, <5>3
        <5>5. ~Taken(e, x.id)'
          BY <1>1, <5>1, <5>4 DEF Taken
        <5>6. Logged(e, x)'
          BY <1>1, <1>10, <5>4, <5>5 DEF Logged
        <5> QED BY <1>2, <5>4, <5>6
      <4>2. CASE k # L + 1
        <5>1. k \in DOMAIN q /\ t[k] = q[k]
          BY <1>8, <1>9, <4>2
        <5>2. PICK x : x = q[k]
          OBVIOUS
        <5>3. x.id \in 1 .. nextID[e] - 1 /\ Logged(e, x)
          BY <1>2, <1>6, <5>1, <5>2 DEF QueueOK
        <5>4. Taken(e, x.id)' <=> Taken(e, x.id)
          BY <1>1 DEF Taken
        <5>5. Logged(e, x)'
          BY <1>1, <5>3, <5>4, LoggedSame
        <5> QED BY <1>2, <5>1, <5>2, <5>3, <5>5
      <4> QED BY <4>1, <4>2
    <3>2. ASSUME NEW k \in DOMAIN t, NEW l \in DOMAIN t, t[k].id = t[l].id PROVE k = l
      <4>1. \A i \in DOMAIN q : q[i].id \in 1 .. nextID[e] - 1
        BY <1>2, <1>6 DEF QueueOK
      <4>2. \A i, j \in DOMAIN q : q[i].id = q[j].id => i = j
        BY <1>2, <1>6 DEF QueueOK
      <4>3. \A i \in DOMAIN t : i = L + 1 \/ i \in DOMAIN q
        BY <1>8, <1>9
      <4>4. \A i \in DOMAIN q : t[i].id = q[i].id /\ t[i].id # nextID[e]
        BY <1>2, <1>8, <1>9, <4>1
      <4>5. t[L + 1].id = nextID[e]
        BY <1>5, <1>8
      <4> QED BY <3>2, <4>2, <4>3, <4>4, <4>5
    <3>3. nextID'[e] - 1 = nextID[e]
      BY <1>2, <1>4
    <3> QED BY <1>8, <3>1, <3>2, <3>3 DEF QueueOK
  <2>2. ASSUME NEW d \in Flows, d # e PROVE QueueOK(d)'
    <3>1. QueueOK(d) /\ queue'[d] = queue[d] /\ nextID'[d] = nextID[d]
      BY <1>2, <1>4, <2>2 DEF Sends
    <3>2. \A id \in Nat : Taken(d, id)' <=> Taken(d, id)
      BY <1>1 DEF Taken
    <3> QED BY <1>1, <1>2, <3>1, <3>2, QueueSame
  <2>3. LogOK(e)'
    <3>1. sending'[e] + nextID'[e] = sending[e] + nextID[e]
      BY <1>2, <1>4
    <3>2. \A id \in DOMAIN log[e] : id \in Nat /\ InOrder(log[e][id]) /\ (id >= nextID[e] => log[e][id] = <<>>)
      BY <1>2 DEF LogOK
    <3>3. \A id \in DOMAIN log[e] : id >= nextID'[e] => id >= nextID[e]
      BY <1>2, <1>4, <3>2
    <3>4. \A id \in DOMAIN log[e] : InOrder(log[e][id])'
      BY <1>1, <3>2 DEF InOrder
    <3> QED BY <1>1, <1>2, <1>3, <3>1, <3>2, <3>3, <3>4 DEF LogOK
  <2>4. \A d \in Flows : d # e => LogOK(d)'
    BY <1>1, <1>2, <1>3, <1>4 DEF Sends, LogOK, InOrder
  <2>5. SchedOK'
    <3>1. CASE ~Running
      BY <1>1, <3>1 DEF SchedOK, Running
    <3>2. CASE Running /\ sched.flow # e
      <4>1. sched.flow \in Flows
        BY <1>2, <3>2 DEF SendTypes
      <4> QED BY <1>1, <1>2, <1>4, <3>2, <4>1 DEF Sends, SchedOK, Running, Position
    <3>3. CASE Running /\ sched.flow = e
      <4>1. sched.id \in 1 .. nextID[e] - 1
        BY <1>2, <3>3 DEF Sends, SchedOK
      <4>2. Position(t, sched.id) = Position(q, sched.id) /\ \A i \in Position(q, sched.id) : t[i] = q[i]
        <5>1. \A i \in DOMAIN t : i = L + 1 \/ i \in DOMAIN q
          BY <1>8, <1>9
        <5>2. \A i \in DOMAIN q : i \in DOMAIN t /\ t[i] = q[i]
          BY <1>8, <1>9
        <5>3. t[L + 1].id # sched.id
          BY <1>2, <1>5, <1>8, <4>1
        <5> QED BY <5>1, <5>2, <5>3 DEF Position
      <4>3. sched.id \in 1 .. nextID'[e] - 1
        BY <1>2, <1>4, <4>1
      <4>4. queue[e] = q /\ queue'[e] = t
        BY <1>6, <1>8
      <4>5. sched' = sched /\ log' = log
        BY <1>1
      <4>6. sched.pc \in {"locked", "checked"} =>
               /\ sched.chunk.stride # 0
               /\ \A i \in Position(q, sched.id) :
                     q[i].stride = sched.chunk.stride /\ q[i].index = sched.chunk.index
        BY <1>2, <3>3, <4>4 DEF Sends, SchedOK
      <4>7. sched.pc \in {"locked", "checked"} =>
               /\ sched.chunk.stride # 0
               /\ \A i \in Position(t, sched.id) :
                     t[i].stride = sched.chunk.stride /\ t[i].index = sched.chunk.index
        BY <4>2, <4>6
      <4>8. sched.pc = "checked" =>
               /\ Len(log[e][sched.id]) = sched.chunk.index
               /\ \A k \in DOMAIN log[e][sched.id] : log[e][sched.id][k].stride = sched.chunk.stride
        BY <1>2, <3>3 DEF Sends, SchedOK
      <4> QED BY <3>3, <4>3, <4>4, <4>5, <4>7, <4>8 DEF SchedOK, Running
    <3> QED BY <3>1, <3>2, <3>3
  <2> QED BY <2>1, <2>2, <2>3, <2>4, <2>5 DEF Sends
<1>14. Budget'
  <2>1. Out' = Out
    <3>1. Len(queue'[e]) + sending'[e] = Len(queue[e]) + sending[e]
      BY <1>2, <1>4, <1>6, <1>8 DEF L
    <3>2. \A d \in Flows : Len(queue'[d]) + sending'[d] = Len(queue[d]) + sending[d]
      BY <1>4, <3>1
    <3> QED BY <3>2 DEF Out
  <2> QED BY <1>1, <1>2, <1>3, <2>1, BudgetKept, SameSums
<1>15. \A d \in Flows : SendMuHeld(d)' <=> SendMuHeld(d)
  BY <1>1 DEF SendMuHeld
<1> QED BY <1>1, <1>4, <1>11, <1>13, <1>14, <1>15, SendOnly DEF Live

\* The scheduler's message may leave the queue meanwhile.
LEMMA SchedDrawn ==
  ASSUME SendTypes, Sends, NEW e \in Flows, NEW t, Drawn(t, queue[e]),
         queue' = [queue EXCEPT ![e] = t], nextID' = nextID, log' = log, sched' = sched
  PROVE  SchedOK'
<1>1. queue'[e] = t /\ \A d \in Flows : d # e => queue'[d] = queue[d]
  BY DEF SendTypes
<1>2. CASE ~Running
  BY <1>2 DEF SchedOK, Running
<1>3. CASE Running /\ sched.flow # e
  <2>1. sched.flow \in Flows
    BY <1>3 DEF SendTypes
  <2> QED BY <1>1, <1>3, <2>1 DEF Sends, SchedOK, Running, Position
<1>4. CASE Running /\ sched.flow = e
  <2>1. \A i \in Position(t, sched.id) : \E j \in Position(queue[e], sched.id) : t[i] = queue[e][j]
    BY DEF Position, Drawn
  <2>2. PICK q : q = queue[e]
    OBVIOUS
  <2>3. SchedOK
    BY DEF Sends
  <2> QED BY <1>1, <1>4, <2>1, <2>2, <2>3 DEF SchedOK, Running
<1> QED BY <1>2, <1>3, <1>4

\* Messages leave the queue of e, or move in it, with their reservations.
LEMMA ShorterOK ==
  ASSUME IInv, NEW e \in Flows, flow[e].home \in Homes, SameHomes, traffic' = traffic,
         NEW t \in Seq(Message), Len(t) <= Len(queue[e]), queue' = [queue EXCEPT ![e] = t],
         tx' = Charge(tx, e, Len(t) - Len(queue[e])), nextID' = nextID, sending' = sending, log' = log,
         sched' \in SchedType, Running' => sched'.flow \in Flows
  PROVE  SendTypes' /\ Budget'
<1>1. /\ SendTypes /\ Sends /\ Budget /\ queue \in [Flows -> Seq(Message)]
      /\ Len(queue[e]) \in Nat /\ tx \in Usage /\ sending[e] \in Nat
      /\ Out[e] = Len(queue[e]) + sending[e]
  BY SendNow
<1> DEFINE a == Len(t)
           b == Len(queue[e])
           n == a - b
<1>2. a \in Nat /\ b \in Nat
  BY <1>1
<1>3. a <= b /\ tx' = Charge(tx, e, n)
  OBVIOUS
<1> HIDE DEF a, b
<1>4. n \in Int /\ n <= 0 /\ tx' = Charge(tx, e, n)
  BY <1>2, <1>3
<1> HIDE DEF n
<1>5. SendTypes'
  <2>1. tx' \in Usage
    BY <1>1, <1>4, ChargeType
  <2>2. queue' \in [Flows -> Seq(Message)]
    BY <1>1
  <2> QED BY <1>1, <2>1, <2>2 DEF SendTypes, Usage, Homes
<1>6. Out'[e] = Out[e] + n /\ \A d \in Flows \ {e} : Out'[d] = Out[d]
  <2>1. queue'[e] = t /\ \A d \in Flows : d # e => queue'[d] = queue[d]
    BY <1>1
  <2>2. Len(queue'[e]) + sending'[e] = Len(queue[e]) + sending[e] + n
    <3>1. Len(queue'[e]) = a /\ Len(queue[e]) = b /\ sending'[e] = sending[e]
      BY <2>1 DEF a, b
    <3>2. PICK c \in Nat : c = sending[e]
      BY <1>1
    <3>3. a + c = b + c + n
      BY <1>2 DEF n
    <3> QED BY <3>1, <3>2, <3>3
  <2>3. Out'[e] = Len(queue'[e]) + sending'[e] /\ \A d \in Flows \ {e} : Out'[d] = Out[d]
    BY <2>1 DEF Out
  <2> QED BY <1>1, <2>2, <2>3
<1>7. Budget'
  BY <1>1, <1>4, <1>5, <1>6, BudgetStep
<1> QED BY <1>5, <1>7

\* Expiry draws from the queue.
LEMMA FreshOK ==
  ASSUME IInv, NEW e \in Flows, NEW cut
  PROVE  /\ Drawn(Fresh(queue[e], cut), queue[e]) /\ Fresh(queue[e], cut) \in Seq(Message)
         /\ Len(Fresh(queue[e], cut)) <= Len(queue[e])
         /\ Len(Fresh(queue[e], cut)) \in Nat /\ Len(queue[e]) \in Nat
<1>1. PICK q \in Seq(Message) : q = queue[e]
  BY SendNow
<1>2. PICK I \in SUBSET DOMAIN q : I = {i \in DOMAIN q : q[i].id > cut}
  OBVIOUS
<1>3. Fresh(q, cut) = At(q, I)
  BY <1>2 DEF Fresh
<1>4. Drawn(At(q, I), q) /\ At(q, I) \in Seq(Message) /\ Len(At(q, I)) <= Len(q)
      /\ Len(At(q, I)) \in Nat /\ Len(q) \in Nat
  BY DrawnAt
<1> QED BY <1>1, <1>3, <1>4

\* What expiry does to the sending side.
LEMMA FreshStep ==
  ASSUME IInv, NEW e \in Flows, Live(e), NEW cut, UNCHANGED flowVars,
         queue' = [queue EXCEPT ![e] = Fresh(@, cut)],
         tx' = Charge(tx, e, Len(queue'[e]) - Len(queue[e])),
         sched' = sched, nextID' = nextID, sending' = sending, log' = log
  PROVE  SendTypes' /\ Sends' /\ Budget'
<1>1. PICK t : t = Fresh(queue[e], cut)
  OBVIOUS
<1>2. Drawn(t, queue[e]) /\ t \in Seq(Message) /\ Len(t) <= Len(queue[e])
  BY <1>1, FreshOK
<1>3. queue' = [queue EXCEPT ![e] = t] /\ queue'[e] = t /\ SendTypes /\ Sends
  BY <1>1, SendNow
<1>4. SameHomes /\ traffic' = traffic /\ flow[e].home \in Homes
  BY FlowsKept, FlowRecord
<1>5. sched' \in SchedType /\ (Running' => sched'.flow \in Flows)
  BY <1>3 DEF SendTypes, Running
<1>6. SendTypes' /\ Budget'
  <2>1. tx' = Charge(tx, e, Len(t) - Len(queue[e]))
    BY <1>3
  <2> QED BY <1>2, <1>3, <1>4, <1>5, <2>1, ShorterOK
<1>7. Sends'
  <2>1. \A d, id : Taken(d, id)' <=> Taken(d, id)
    BY DEF Taken
  <2>2. \A d \in Flows : QueueOK(d)'
    BY <1>2, <1>3, <2>1, QueuesDrawn
  <2>3. \A d \in Flows : LogOK(d)'
    BY <1>3, <1>4, LogsKept
  <2>4. SchedOK'
    BY <1>2, <1>3, SchedDrawn
  <2> QED BY <2>2, <2>3, <2>4 DEF Sends
<1> QED BY <1>6, <1>7

\* A message is picked and moved to the back.
LEMMA PickOK ==
  ASSUME IInv, NEW e \in Flows, NEW cut, pickLocked(e, cut)
  PROVE  IInv'
<1>1. PICK q : q = Fresh(queue[e], cut)
  OBVIOUS
<1> DEFINE due == {i \in DOMAIN q : ~q[i].wait}
           i   == CHOOSE k \in due : \A l \in due : k <= l
           t   == Append(Without(q, i), q[i])
<1>2. /\ sched.pc = "idle" /\ flow[e].status = "open" /\ due # {}
      /\ queue' = [queue EXCEPT ![e] = t]
      /\ tx' = Charge(tx, e, Len(q) - Len(queue[e]))
      /\ sched' = [sched EXCEPT !.pc = "picked", !.flow = e, !.id = q[i].id]
      /\ nextID' = nextID /\ sending' = sending /\ log' = log
      /\ UNCHANGED flowVars /\ UNCHANGED recvVars
  BY <1>1 DEF pickLocked
<1>3. Drawn(q, queue[e]) /\ q \in Seq(Message) /\ Len(q) <= Len(queue[e])
  BY <1>1, FreshOK
<1>4. i \in DOMAIN q
  <2>1. due \in SUBSET Nat
    BY <1>3
  <2>2. \E k \in due : \A l \in due : k <= l
    <3> HIDE DEF due
    <3> QED BY <1>2, <2>1, LeastExists
  <2> QED BY <2>2
<1> HIDE DEF i
<1>5. /\ t \in Seq(Message) /\ Len(t) = Len(q) /\ Drawn(t, q)
  BY <1>3, <1>4, DrawnBack
<1>6. Drawn(t, queue[e])
  <2> HIDE DEF t
  <2> QED BY <1>3, <1>5, DrawnTwice
<1>7. SendTypes /\ Sends /\ traffic.sends[e] \in Nat /\ QueueOK(e) /\ nextID[e] \in Nat
  BY SendNow
<1>8. SameHomes /\ traffic' = traffic /\ flow' = flow
  BY <1>2, FlowsKept
<1>9. q[i].id \in 1 .. nextID[e] - 1 /\ q[i].id \in Nat
  BY <1>3, <1>4, <1>7 DEF Drawn, QueueOK
<1>10. /\ sched' \in SchedType /\ sched'.pc = "picked" /\ sched'.flow = e /\ sched'.id = q[i].id
       /\ Running' => sched'.flow \in Flows
  BY <1>2, <1>7, <1>9 DEF SendTypes, SchedType, PCs
<1>11. flow[e].home \in Homes /\ Live(e)
  BY <1>2, FlowRecord DEF Live
<1> HIDE DEF t, due
<1>12. SendTypes' /\ Budget'
  <2>1. tx' = Charge(tx, e, Len(t) - Len(queue[e])) /\ Len(t) <= Len(queue[e])
    BY <1>2, <1>3, <1>5
  <2> QED BY <1>2, <1>5, <1>8, <1>10, <1>11, <2>1, ShorterOK
<1>13. Sends'
  <2>1. \A d, id : Taken(d, id)' <=> Taken(d, id)
    BY <1>2, <1>10 DEF Taken
  <2>2. \A d \in Flows : QueueOK(d)'
    BY <1>2, <1>6, <1>7, <2>1, QueuesDrawn
  <2>3. \A d \in Flows : LogOK(d)'
    BY <1>2, <1>7, <1>8, LogsKept
  <2>4. SchedOK'
    BY <1>2, <1>9, <1>10 DEF SchedOK, Running
  <2> QED BY <2>2, <2>3, <2>4 DEF Sends
<1>14. \A d \in Flows : ~SendMuHeld(d)'
  BY <1>10 DEF SendMuHeld
<1>15. \A d \in Flows : d # e => queue'[d] = queue[d]
  BY <1>2, <1>7 DEF SendTypes
<1> QED BY <1>2, <1>11, <1>12, <1>13, <1>14, <1>15, SendOnly

\* The scheduler moves without touching the queues.
LEMMA SchedMoved ==
  ASSUME IInv, UNCHANGED flowVars, UNCHANGED recvVars,
         queue' = queue, nextID' = nextID, sending' = sending, tx' = tx, log' = log,
         sched' \in SchedType, Running' => sched'.flow \in Flows, SchedOK',
         \A d \in Flows : \A i \in DOMAIN queue[d], id \in Nat :
            queue[d][i].id = id => (Taken(d, id)' <=> Taken(d, id)),
         \A d \in Flows : SendMuHeld(d)' => SendMuHeld(d) \/ flow[d].status = "open"
  PROVE  IInv'
<1>1. SameHomes /\ traffic' = traffic /\ flow' = flow
  BY FlowsKept
<1>2. SendTypes /\ Sends /\ Budget /\ queue \in [Flows -> Seq(Message)]
  BY DEF IInv, SendTypes
<1>3. SendTypes'
  BY <1>1, <1>2 DEF SendTypes, Usage, Homes
<1>4. Sends'
  <2>1. \A d \in Flows : LogOK(d)'
    BY <1>1, <1>2, LogsKept
  <2>2. ASSUME NEW d \in Flows PROVE QueueOK(d)'
    <3>1. PICK q : q = queue[d]
      OBVIOUS
    <3>2. queue'[d] = q /\ q \in Seq(Message) /\ QueueOK(d) /\ nextID'[d] = nextID[d] /\ nextID[d] \in Nat
      BY <1>2, <3>1 DEF Sends, SendTypes
    <3>3. ASSUME NEW k \in DOMAIN q PROVE q[k].id \in 1 .. nextID[d] - 1 /\ Logged(d, q[k])'
      <4>1. PICK m : m = q[k]
        OBVIOUS
      <4>2. m.id \in 1 .. nextID[d] - 1 /\ Logged(d, m) /\ m.id \in Nat
        BY <3>1, <3>2, <4>1 DEF QueueOK
      <4>3. Taken(d, m.id)' <=> Taken(d, m.id)
        BY <3>1, <4>1, <4>2
      <4>4. Logged(d, m)'
        BY <4>2, <4>3, LoggedSame
      <4> QED BY <4>1, <4>2, <4>4
    <3>4. \A k, l \in DOMAIN q : q[k].id = q[l].id => k = l
      BY <3>1, <3>2 DEF QueueOK
    <3> QED BY <3>2, <3>3, <3>4 DEF QueueOK
  <2> QED BY <2>1, <2>2 DEF Sends
<1>5. Budget'
  <2>1. Out' = Out
    BY DEF Out
  <2> QED BY <1>1, <1>2, <2>1, BudgetKept, SameSums
<1> QED BY <1>3, <1>4, <1>5, SendOnly

\* The scheduler lets go of its message.
LEMMA IdleOK ==
  ASSUME IInv, UNCHANGED flowVars, UNCHANGED recvVars,
         queue' = queue, nextID' = nextID, sending' = sending, tx' = tx, log' = log,
         sched'.pc \in {"idle", "stopped"}, sched' \in SchedType,
         \A d \in Flows, id \in Nat : ~Taken(d, id)
  PROVE  IInv'
<1>1. SchedOK' /\ ~Running'
  BY DEF SchedOK, Running
<1>2. \A d \in Flows, id \in Nat : ~Taken(d, id)'
  BY DEF Taken
<1>3. \A d \in Flows : ~SendMuHeld(d)'
  BY DEF SendMuHeld
<1> QED BY <1>1, <1>2, <1>3, SchedMoved

\* The scheduler at rest.
LEMMA IdleType == Idle \in SchedType /\ Idle.pc = "idle"
BY DEF Idle, SchedType, PCs, Chunk

\* The scheduler ends.
LEMMA RunStopsOK ==
  ASSUME IInv, runStops
  PROVE  IInv'
<1>1. sched \in SchedType
  BY DEF IInv, SendTypes
<1>2. sched' \in SchedType /\ sched'.pc = "stopped" /\ sched.pc = "idle"
  BY <1>1 DEF runStops, SchedType, PCs
<1>3. \A d \in Flows, id \in Nat : ~Taken(d, id)
  BY <1>2 DEF Taken
<1> QED BY <1>2, <1>3, IdleOK DEF runStops

\* The check before the transport.
LEMMA StepCheckOK ==
  ASSUME IInv, stepCheck
  PROVE  IInv'
<1>1. PICK e : e = sched.flow
  OBVIOUS
<1>2. PICK err \in {"none", "refused", "closed", "expired"} :
        /\ err = "none" => Position(queue[e], sched.id) # {}
        /\ sched' = IF err = "none" THEN [sched EXCEPT !.pc = "checked"]
                    ELSE [sched EXCEPT !.pc = "settle", !.err = err]
  BY <1>1 DEF stepCheck
<1>3. /\ sched.pc = "locked" /\ queue' = queue /\ nextID' = nextID /\ sending' = sending
      /\ tx' = tx /\ log' = log /\ UNCHANGED flowVars /\ UNCHANGED recvVars
  BY DEF stepCheck
<1>4. sched \in SchedType /\ e \in Flows /\ Running
  BY <1>1, <1>3 DEF IInv, SendTypes, Running
<1>5. /\ sched' \in SchedType /\ sched'.flow = e /\ sched'.id = sched.id /\ sched'.chunk = sched.chunk
      /\ sched'.pc = IF err = "none" THEN "checked" ELSE "settle"
      /\ err # "none" => sched'.err = err
  BY <1>1, <1>2, <1>4 DEF SchedType, PCs
<1>6. \A d \in Flows, id \in Nat : ~Taken(d, id) /\ ~Taken(d, id)'
  BY <1>3, <1>5 DEF Taken
<1>7. /\ SendTypes /\ Sends /\ QueueOK(e)
  BY <1>4, SendNow
<1>8. SchedOK'
  <2>1. SchedOK
    BY <1>7 DEF Sends
  <2>2. ASSUME err = "none"
        PROVE  LET c == log[e][sched.id] IN
               Len(c) = sched.chunk.index /\ \A k \in DOMAIN c : c[k].stride = sched.chunk.stride
    <3>1. PICK i \in Position(queue[e], sched.id) : TRUE
      BY <1>2, <2>2
    <3>2. i \in DOMAIN queue[e] /\ queue[e][i].id = sched.id
      BY <3>1 DEF Position
    <3>3. queue[e][i].stride = sched.chunk.stride /\ queue[e][i].index = sched.chunk.index
      BY <1>1, <1>3, <2>1, <3>1 DEF SchedOK
    <3>4. Logged(e, queue[e][i]) /\ ~Taken(e, sched.id)
      BY <1>3, <1>7, <3>2 DEF QueueOK, Taken
    <3> QED BY <3>2, <3>3, <3>4 DEF Logged
  <2>3. sched.id \in 1 .. nextID[e] - 1
    BY <1>1, <1>4, <2>1 DEF SchedOK
  <2> QED BY <1>1, <1>3, <1>5, <2>1, <2>2, <2>3 DEF SchedOK, Running
<1>9. \A d \in Flows : SendMuHeld(d)' => SendMuHeld(d)
  BY <1>1, <1>3, <1>5 DEF SendMuHeld
<1> QED BY <1>3, <1>4, <1>5, <1>6, <1>8, <1>9, SchedMoved

\* The messages of e change, but none comes or goes.
LEMMA EditedOK ==
  ASSUME IInv, NEW e \in Flows, SameHomes, traffic' = traffic, NEW t \in Seq(Message),
         DOMAIN t = DOMAIN queue[e], queue' = [queue EXCEPT ![e] = t], tx' = tx,
         nextID' = nextID, sending' = sending, log' = log,
         sched' \in SchedType, Running' => sched'.flow \in Flows
  PROVE  SendTypes' /\ Budget'
<1>1. /\ SendTypes /\ Budget /\ queue \in [Flows -> Seq(Message)] /\ queue[e] \in Seq(Message)
      /\ tx \in Usage
  BY SendNow
<1>2. SendTypes'
  <2>1. queue' \in [Flows -> Seq(Message)]
    BY <1>1
  <2> QED BY <1>1, <2>1 DEF SendTypes, Usage, Homes
<1>3. Out' = Out
  <2>1. Len(t) = Len(queue[e])
    BY <1>1
  <2>2. \A d \in Flows : Len(queue'[d]) = Len(queue[d])
    BY <1>1, <2>1
  <2> QED BY <2>2 DEF Out
<1> QED BY <1>1, <1>2, <1>3, BudgetKept, SameSums

\* The transport answers.
LEMMA StepSendOK ==
  ASSUME IInv, NEW err \in {"none", "full", "large", "failed"}, stepSend(err)
  PROVE  IInv'
<1>1. PICK e : e = sched.flow
  OBVIOUS
<1>2. /\ sched.pc = "checked" /\ sched' = [sched EXCEPT !.pc = "settle", !.err = err]
      /\ log' = IF err = "none" THEN [log EXCEPT ![e][sched.id] = Append(@, sched.chunk)] ELSE log
      /\ queue' = queue /\ nextID' = nextID /\ sending' = sending /\ tx' = tx
      /\ UNCHANGED flowVars /\ UNCHANGED recvVars
  BY <1>1 DEF stepSend
<1>3. sched \in SchedType /\ e \in Flows /\ Running
  BY <1>1, <1>2 DEF IInv, SendTypes, Running
<1>4. /\ sched' \in SchedType /\ sched'.flow = e /\ sched'.id = sched.id /\ sched'.pc = "settle"
      /\ sched'.err = err
  BY <1>1, <1>2, <1>3 DEF SchedType, PCs
<1>5. /\ SendTypes /\ Sends /\ QueueOK(e) /\ LogOK(e) /\ traffic.sends[e] \in Nat /\ nextID[e] \in Nat
      /\ queue \in [Flows -> Seq(Message)] /\ queue[e] \in Seq(Message) /\ sending[e] \in Nat
      /\ log[e] \in [1 .. traffic.sends[e] -> Seq(Chunk)] /\ Budget
  BY <1>3, SendNow
<1>6. SchedOK
  BY <1>5 DEF Sends
<1>7. sched.id \in 1 .. nextID[e] - 1
  BY <1>1, <1>3, <1>6 DEF SchedOK
<1>8. SchedOK'
  BY <1>2, <1>4, <1>7 DEF SchedOK, Running
<1>9. \A d \in Flows : ~SendMuHeld(d)'
  BY <1>4 DEF SendMuHeld
<1>10. SameHomes /\ traffic' = traffic /\ flow' = flow
  BY <1>2, FlowsKept
<1>11. CASE err # "none"
  <2>1. \A d \in Flows, id \in Nat : ~Taken(d, id) /\ ~Taken(d, id)'
    BY <1>2, <1>4, <1>11 DEF Taken
  <2> QED BY <1>2, <1>3, <1>4, <1>8, <1>9, <1>11, <2>1, SchedMoved
<1>12. CASE err = "none"
  <2>1. PICK x : x = sched.id
    OBVIOUS
  <2>2. PICK c : c = log[e][x]
    OBVIOUS
  <2>3. PICK h : h = sched.chunk
    OBVIOUS
  <2>4. x \in 1 .. nextID[e] - 1 /\ x \in 1 .. traffic.sends[e] /\ x \in Nat
    BY <1>5, <1>7, <2>1 DEF LogOK
  <2>5. c \in Seq(Chunk) /\ h \in Chunk /\ h.stride # 0 /\ Len(c) = h.index
        /\ \A k \in DOMAIN c : c[k].stride = h.stride
    <3>1. c \in Seq(Chunk) /\ h \in Chunk
      BY <1>3, <1>5, <2>2, <2>3, <2>4 DEF SchedType
    <3>2. h.stride # 0 /\ Len(c) = h.index /\ \A k \in DOMAIN c : c[k].stride = h.stride
      BY <1>1, <1>2, <1>6, <2>1, <2>2, <2>3 DEF SchedOK
    <3> QED BY <3>1, <3>2
  <2>6. PICK n : n = Append(c, h)
    OBVIOUS
  <2>7. /\ n \in Seq(Chunk) /\ Len(n) = Len(c) + 1 /\ Len(c) \in Nat /\ DOMAIN n = 1 .. Len(c) + 1
        /\ DOMAIN c = 1 .. Len(c)
        /\ n[Len(c) + 1] = h /\ \A k \in 1 .. Len(c) : n[k] = c[k]
    BY <2>5, <2>6
  <2>8. InOrder(c)
    BY <1>5, <2>2, <2>4 DEF LogOK
  <2>9. \A k \in DOMAIN n : n[k].index = k - 1 /\ n[k].stride = h.stride
    <3>1. ASSUME NEW k \in DOMAIN n PROVE n[k].index = k - 1 /\ n[k].stride = h.stride
      <4>1. CASE k = Len(c) + 1
        BY <2>5, <2>7, <4>1
      <4>2. CASE k # Len(c) + 1
        <5>1. k \in 1 .. Len(c)
          BY <2>7, <4>2
        <5> QED BY <2>5, <2>7, <2>8, <5>1 DEF InOrder
      <4> QED BY <4>1, <4>2
    <3> QED BY <3>1
  <2>10. InOrder(n)
    <3>1. 1 \in DOMAIN n
      BY <2>7
    <3> QED BY <2>5, <2>9, <3>1 DEF InOrder
  <2>11. /\ DOMAIN log = Flows /\ log' = [log EXCEPT ![e] = [log[e] EXCEPT ![x] = n]]
    BY <1>2, <1>5, <1>12, <2>1, <2>2, <2>3, <2>6 DEF SendTypes
  <2>12. /\ \A d \in Flows : d # e => log'[d] = log[d]
         /\ DOMAIN log' = Flows /\ DOMAIN log'[e] = 1 .. traffic.sends[e] /\ log'[e][x] = n
         /\ \A k \in 1 .. traffic.sends[e] : k # x => log'[e][k] = log[e][k]
         /\ log'[e] \in [1 .. traffic.sends[e] -> Seq(Chunk)]
    <3>1. log'[e] = [log[e] EXCEPT ![x] = n] /\ \A d \in Flows : d # e => log'[d] = log[d]
      BY <1>3, <2>11
    <3>2. DOMAIN log' = Flows
      BY <2>11
    <3> QED BY <1>5, <2>4, <2>7, <3>1, <3>2
  <2>13. SendTypes'
    BY <1>2, <1>3, <1>4, <1>5, <1>10, <2>12 DEF SendTypes, Running, Usage, Homes
  <2>14. \A d \in Flows : LogOK(d)'
    <3>1. \A k \in DOMAIN log[e] : InOrder(log[e][k]) /\ (k >= nextID[e] => log[e][k] = <<>>)
      BY <1>5 DEF LogOK
    <3>2. ~(x >= nextID[e])
      BY <1>5, <2>4
    <3>3. \A k \in DOMAIN log'[e] : InOrder(log[e][k])' /\ (k >= nextID[e] => log'[e][k] = <<>>)
      <4>1. ASSUME NEW k \in 1 .. traffic.sends[e]
            PROVE  InOrder(log[e][k])' /\ (k >= nextID[e] => log'[e][k] = <<>>)
        <5>1. CASE k = x
          BY <2>10, <2>12, <3>2, <5>1 DEF InOrder
        <5>2. CASE k # x
          BY <1>5, <2>12, <3>1, <4>1, <5>2 DEF InOrder
        <5> QED BY <5>1, <5>2
      <4> QED BY <2>12, <4>1
    <3>4. sending[e] + nextID[e] <= traffic.sends[e] + 1
      BY <1>5 DEF LogOK
    <3>5. LogOK(e)'
      BY <1>2, <1>10, <3>3, <3>4 DEF LogOK
    <3>6. \A d \in Flows : d # e => LogOK(d)'
      BY <1>2, <1>5, <1>10, <2>12 DEF Sends, LogOK, InOrder
    <3> QED BY <3>5, <3>6
  <2>15. \A d \in Flows : QueueOK(d)'
    <3>1. PICK t : t = queue[e]
      OBVIOUS
    <3>2. ASSUME NEW i \in DOMAIN t PROVE Logged(e, t[i])'
      <4>1. PICK m : m = t[i]
        OBVIOUS
      <4>2. Logged(e, m) /\ m \in Message /\ m.id \in 1 .. nextID[e] - 1
        BY <1>5, <3>1, <4>1 DEF QueueOK
      <4>3. ~Taken(e, m.id)
        BY <1>2 DEF Taken
      <4>4. CASE m.id = x
        <5>1. m.stride = h.stride /\ m.index = h.index
          BY <1>1, <1>2, <1>6, <2>1, <2>3, <3>1, <4>1, <4>4 DEF SchedOK, Position
        <5>2. Taken(e, m.id)'
          BY <1>4, <1>12, <2>1, <4>4 DEF Taken
        <5>3. log'[e][m.id] = n
          BY <2>12, <4>4
        <5>4. Len(n) = m.index + 1 /\ \A k \in DOMAIN n : n[k].stride = m.stride
          BY <2>5, <2>7, <2>9, <5>1
        <5>5. Logged(e, m)'
          BY <5>2, <5>3, <5>4 DEF Logged
        <5> QED BY <4>1, <5>5
      <4>5. CASE m.id # x
        <5>1. ~Taken(e, m.id)'
          BY <1>4, <2>1, <4>5 DEF Taken
        <5>2. m.id \in 1 .. traffic.sends[e]
          BY <1>5, <4>2 DEF LogOK
        <5>3. log'[e][m.id] = log[e][m.id]
          BY <2>12, <4>5, <5>2
        <5>4. Logged(e, m)'
          BY <4>2, <4>3, <5>1, <5>3 DEF Logged
        <5> QED BY <4>1, <5>4
      <4> QED BY <4>4, <4>5
    <3>3. queue' = [queue EXCEPT ![e] = t]
      BY <1>2, <1>5, <3>1
    <3>4. \A d \in Flows \ {e}, id \in Nat : Taken(d, id)' <=> Taken(d, id)
      BY <1>1, <1>4 DEF Taken
    <3> QED BY <1>2, <1>3, <1>5, <2>12, <3>1, <3>2, <3>3, <3>4, QueueEdited
  <2>16. Sends'
    BY <1>8, <2>14, <2>15 DEF Sends
  <2>17. Budget'
    <3>1. Out' = Out
      BY <1>2 DEF Out
    <3> QED BY <1>2, <1>5, <1>10, <3>1, BudgetKept, SameSums
  <2> QED BY <1>2, <1>9, <2>13, <2>16, <2>17, SendOnly
<1> QED BY <1>11, <1>12

\* The scheduler closes a flow.
LEMMA StepCloseOK ==
  ASSUME IInv, stepClose
  PROVE  IInv'
<1>1. PICK e : e = sched.flow
  OBVIOUS
<1>2. /\ sched.pc = "closing" /\ queue' = queue /\ nextID' = nextID /\ sending' = sending /\ tx' = tx
      /\ log' = log /\ UNCHANGED <<traffic, manager, closing>> /\ UNCHANGED recvVars
  BY DEF stepClose
<1>3. e \in Flows
  BY <1>1, <1>2 DEF IInv, SendTypes, Running
<1>4. CASE flow[e].status = "open" /\ Close(e) /\ UNCHANGED sched
  <2>1. UNCHANGED sendVars /\ Live(e)
    BY <1>2, <1>4 DEF sendVars, Live
  <2> QED BY <1>2, <1>3, <1>4, <2>1, StatusEdited DEF Close
<1>5. CASE sched' = Idle /\ UNCHANGED flow
  <2>1. \A d \in Flows, id \in Nat : ~Taken(d, id)
    BY <1>2 DEF Taken
  <2>2. UNCHANGED flowVars
    BY <1>2, <1>5 DEF flowVars
  <2> QED BY <1>2, <1>5, <2>1, <2>2, IdleOK, IdleType
<1> QED BY <1>1, <1>4, <1>5 DEF stepClose

\* A delayed message is due again.
LEMMA RetryDueOK ==
  ASSUME IInv, NEW e \in Flows, RetryDue(e)
  PROVE  IInv'
<1>1. PICK q : q = queue[e]
  OBVIOUS
<1>2. PICK t : t = [i \in DOMAIN q |-> [q[i] EXCEPT !.wait = FALSE]]
  OBVIOUS
<1>3. /\ SendTypes /\ Sends /\ QueueOK(e) /\ queue \in [Flows -> Seq(Message)] /\ q \in Seq(Message)
      /\ nextID[e] \in Nat
  BY <1>1, SendNow
<1>4. /\ DOMAIN q # {} /\ queue' = [queue EXCEPT ![e] = t] /\ sched' = sched /\ nextID' = nextID
      /\ sending' = sending /\ tx' = tx /\ log' = log /\ UNCHANGED flowVars /\ UNCHANGED recvVars
  BY <1>1, <1>2, <1>3 DEF RetryDue
<1>5. /\ t \in Seq(Message) /\ DOMAIN t = DOMAIN q
      /\ \A i \in DOMAIN q : t[i].id = q[i].id /\ t[i].index = q[i].index /\ t[i].stride = q[i].stride
  <2>1. \A i \in DOMAIN q : q[i] \in Message
    BY <1>3
  <2>2. \A i \in DOMAIN q : t[i] = [q[i] EXCEPT !.wait = FALSE]
    BY <1>2
  <2>3. \A i \in DOMAIN q : t[i] \in Message /\ t[i].id = q[i].id /\ t[i].index = q[i].index /\ t[i].stride = q[i].stride
    BY <2>1, <2>2 DEF Message
  <2>4. DOMAIN q = 1 .. Len(q) /\ Len(q) \in Nat
    BY <1>3
  <2>5. t \in [1 .. Len(q) -> Message]
    BY <1>2, <2>3, <2>4
  <2> QED BY <2>3, <2>4, <2>5
<1>6. SameHomes /\ traffic' = traffic /\ flow' = flow
  BY <1>4, FlowsKept
<1>7. SendTypes' /\ Budget'
  <2>1. sched' \in SchedType /\ (Running' => sched'.flow \in Flows)
    BY <1>3, <1>4 DEF SendTypes, Running
  <2> QED BY <1>1, <1>4, <1>5, <1>6, <2>1, EditedOK
<1>8. \A d, id : Taken(d, id)' <=> Taken(d, id)
  BY <1>4 DEF Taken
<1>9. \A d \in Flows : QueueOK(d)'
  <2>1. ASSUME NEW i \in DOMAIN t PROVE Logged(e, t[i])'
    <3>1. PICK m : m = q[i]
      OBVIOUS
    <3>2. PICK w : w = t[i]
      OBVIOUS
    <3>3. w.id = m.id /\ w.index = m.index /\ w.stride = m.stride /\ Logged(e, m)
      BY <1>1, <1>3, <1>5, <3>1, <3>2 DEF QueueOK
    <3>4. Logged(e, w)'
      BY <1>4, <1>8, <3>3 DEF Logged
    <3> QED BY <3>2, <3>4
  <2> QED BY <1>1, <1>3, <1>4, <1>5, <1>8, <2>1, QueueEdited
<1>10. \A d \in Flows : LogOK(d)'
  BY <1>3, <1>4, <1>6, LogsKept
<1>11. SchedOK'
  <2>1. queue'[e] = t /\ \A d \in Flows : d # e => queue'[d] = queue[d]
    BY <1>3, <1>4
  <2>2. CASE ~Running
    BY <1>4, <2>2 DEF SchedOK, Running
  <2>3. CASE Running /\ sched.flow # e
    <3>1. sched.flow \in Flows
      BY <1>3, <2>3 DEF SendTypes
    <3> QED BY <1>3, <1>4, <2>1, <2>3, <3>1 DEF Sends, SchedOK, Running, Position
  <2>4. CASE Running /\ sched.flow = e
    <3>1. SchedOK
      BY <1>3 DEF Sends
    <3>2. \A i \in Position(t, sched.id) :
             i \in Position(q, sched.id) /\ t[i].index = q[i].index /\ t[i].stride = q[i].stride
      BY <1>5 DEF Position
    <3> QED BY <1>1, <1>4, <2>1, <2>4, <3>1, <3>2 DEF SchedOK, Running
  <2> QED BY <2>2, <2>3, <2>4
<1>12. Sends'
  BY <1>9, <1>10, <1>11 DEF Sends
<1>13. \A d \in Flows : SendMuHeld(d)' <=> SendMuHeld(d)
  BY <1>4 DEF SendMuHeld
<1>14. Live(e) /\ \A d \in Flows : d # e => queue'[d] = queue[d]
  <2>1. q # <<>>
    BY <1>4
  <2> QED BY <1>1, <1>3, <1>4, <2>1 DEF IInv, Vacant
<1> QED BY <1>4, <1>7, <1>12, <1>13, <1>14, SendOnly

\* The stride of a message is fixed and its next chunk read.
LEMMA StepLockOK ==
  ASSUME IInv, stepLock
  PROVE  IInv'
<1>1. PICK e : e = sched.flow
  OBVIOUS
<1>2. PICK x : x = sched.id
  OBVIOUS
<1>3. PICK q : q = queue[e]
  OBVIOUS
<1>4. PICK p : p = Position(q, x)
  OBVIOUS
<1> DEFINE i0 == CHOOSE i \in p : TRUE
<1>5. PICK m : m = IF p = {} THEN [stride |-> 0, index |-> 0] ELSE q[i0]
  OBVIOUS
<1>6. PICK s : s = IF m.stride = 0 THEN flow[e].chunk ELSE m.stride
  OBVIOUS
<1>7. PICK t : t = [i \in DOMAIN q |-> IF i \in p THEN [q[i] EXCEPT !.stride = s] ELSE q[i]]
  OBVIOUS
<1>8. /\ sched.pc = "picked" /\ nextID' = nextID /\ sending' = sending /\ tx' = tx /\ log' = log
      /\ UNCHANGED flowVars /\ UNCHANGED recvVars
      /\ IF Closed(e) THEN sched' = Idle /\ UNCHANGED queue
         ELSE /\ sched' = [sched EXCEPT !.pc = "locked", !.chunk = [stride |-> s, index |-> m.index]]
              /\ queue' = [queue EXCEPT ![e] = t]
  BY <1>1, <1>2, <1>3, <1>4, <1>5, <1>6, <1>7 DEF stepLock
<1>9. sched \in SchedType /\ e \in Flows /\ Running /\ \A d \in Flows, id \in Nat : ~Taken(d, id)
  BY <1>1, <1>8 DEF IInv, SendTypes, Running, Taken
<1>10. CASE Closed(e)
  BY <1>8, <1>9, <1>10, IdleOK, IdleType
<1>11. CASE ~Closed(e)
  <2>1. /\ SendTypes /\ Sends /\ QueueOK(e) /\ LogOK(e) /\ queue \in [Flows -> Seq(Message)]
        /\ q \in Seq(Message) /\ nextID[e] \in Nat /\ traffic.sends[e] \in Nat /\ sending[e] \in Nat
        /\ log[e] \in [1 .. traffic.sends[e] -> Seq(Chunk)]
    BY <1>3, <1>9, SendNow
  <2>2. flow[e].status = "open" /\ flow[e].chunk \in Nat /\ flow[e].chunk # 0
    <3>1. flow[e] \in FlowType
      BY <1>9, FlowRecord
    <3>2. Maximum \in Nat
      BY UDPAssumption
    <3> QED BY <1>11, <3>1, <3>2 DEF Closed, FlowType
  <2>3. \A i \in p : i \in DOMAIN q /\ q[i].id = x /\ i = i0 /\ m = q[i]
    <3>1. \A i \in p : i \in DOMAIN q /\ q[i].id = x
      BY <1>4 DEF Position
    <3>2. \A i, j \in DOMAIN q : q[i].id = q[j].id => i = j
      BY <1>3, <2>1 DEF QueueOK
    <3>3. \A i \in p : i0 \in p
      OBVIOUS
    <3>4. \A i \in p : i = i0
      BY <3>1, <3>2, <3>3
    <3> QED BY <1>5, <3>1, <3>4
  <2> HIDE DEF i0
  <2>4. m.stride \in Nat /\ m.index \in Nat
    <3>1. CASE p = {}
      BY <1>5, <3>1
    <3>2. CASE p # {}
      <4>1. PICK i \in p : m = q[i] /\ i \in DOMAIN q
        BY <2>3, <3>2
      <4>2. q[i] \in Message
        BY <2>1, <4>1
      <4> QED BY <4>1, <4>2 DEF Message
    <3> QED BY <3>1, <3>2
  <2>5. s \in Nat /\ s # 0
    BY <1>6, <2>2, <2>4
  <2>6. /\ sched' \in SchedType /\ sched'.pc = "locked" /\ sched'.flow = e /\ sched'.id = x
        /\ sched'.chunk.stride = s /\ sched'.chunk.index = m.index
        /\ queue' = [queue EXCEPT ![e] = t]
    <3>1. [stride |-> s, index |-> m.index] \in Chunk
      BY <2>4, <2>5 DEF Chunk
    <3>2. sched' = [sched EXCEPT !.pc = "locked", !.chunk = [stride |-> s, index |-> m.index]]
          /\ queue' = [queue EXCEPT ![e] = t]
      BY <1>8, <1>11
    <3> QED BY <1>1, <1>2, <1>9, <3>1, <3>2 DEF SchedType, PCs
  <2>7. /\ t \in Seq(Message) /\ DOMAIN t = DOMAIN q
        /\ \A i \in DOMAIN q : t[i].id = q[i].id /\ t[i].index = q[i].index
        /\ \A i \in DOMAIN q : t[i].stride = IF i \in p THEN s ELSE q[i].stride
    <3>1. \A i \in DOMAIN q : q[i] \in Message
      BY <2>1
    <3>2. \A i \in DOMAIN q : t[i] = IF i \in p THEN [q[i] EXCEPT !.stride = s] ELSE q[i]
      BY <1>7
    <3>3. \A i \in DOMAIN q : /\ t[i] \in Message /\ t[i].id = q[i].id /\ t[i].index = q[i].index
                              /\ t[i].stride = IF i \in p THEN s ELSE q[i].stride
      BY <2>5, <3>1, <3>2 DEF Message
    <3>4. DOMAIN q = 1 .. Len(q) /\ Len(q) \in Nat
      BY <2>1
    <3>5. t \in [1 .. Len(q) -> Message]
      BY <1>7, <3>3, <3>4
    <3> QED BY <3>3, <3>4, <3>5
  <2>8. SameHomes /\ traffic' = traffic /\ flow' = flow
    BY <1>8, FlowsKept
  <2>9. SendTypes' /\ Budget'
    BY <1>3, <1>8, <1>9, <2>6, <2>7, <2>8, EditedOK
  <2>10. \A d \in Flows, id \in Nat : ~Taken(d, id)'
    BY <2>6 DEF Taken
  <2>11. \A d \in Flows : QueueOK(d)'
    <3>1. ASSUME NEW i \in DOMAIN t PROVE Logged(e, t[i])'
      <4>1. PICK w : w = t[i]
        OBVIOUS
      <4>2. PICK v : v = q[i]
        OBVIOUS
      <4>3. /\ w.id = v.id /\ w.index = v.index /\ w.stride = IF i \in p THEN s ELSE v.stride
            /\ Logged(e, v) /\ v.id \in 1 .. nextID[e] - 1 /\ v.id \in Nat
        BY <1>3, <2>1, <2>7, <4>1, <4>2 DEF QueueOK
      <4>4. PICK c : c = log[e][v.id]
        OBVIOUS
      <4>5. Len(c) = v.index /\ \A k \in DOMAIN c : c[k].stride = v.stride
        <5>1. ~Taken(e, v.id)
          BY <1>9, <4>3
        <5> QED BY <4>3, <4>4, <5>1 DEF Logged
      <4>6. \A k \in DOMAIN c : c[k].stride = w.stride
        <5>1. CASE i \in p
          <6>1. m = v
            BY <2>3, <4>2, <5>1
          <6>2. InOrder(c)
            <7>1. v.id \in DOMAIN log[e]
              BY <2>1, <4>3 DEF LogOK
            <7> QED BY <2>1, <4>4, <7>1 DEF LogOK
          <6>3. v.stride = 0 => DOMAIN c = {}
            BY <4>5, <6>2 DEF InOrder
          <6>4. v.stride # 0 => w.stride = v.stride
            BY <1>6, <4>3, <5>1, <6>1
          <6> QED BY <4>5, <6>3, <6>4
        <5>2. CASE i \notin p
          BY <4>3, <4>5, <5>2
        <5> QED BY <5>1, <5>2
      <4>7. log'[e][w.id] = c /\ ~Taken(e, w.id)'
        BY <1>8, <1>9, <2>10, <4>3, <4>4
      <4>8. Logged(e, w)'
        BY <4>3, <4>5, <4>6, <4>7 DEF Logged
      <4> QED BY <4>1, <4>8
    <3>2. \A d \in Flows \ {e}, id \in Nat : Taken(d, id)' <=> Taken(d, id)
      BY <1>9, <2>10
    <3>3. DOMAIN t = DOMAIN queue[e] /\ \A i \in DOMAIN t : t[i].id = queue[e][i].id
      BY <1>3, <2>7
    <3>4. \A d \in Flows : d # e => log'[d] = log[d]
      BY <1>8
    <3> QED BY <1>8, <1>9, <2>1, <2>6, <2>7, <3>1, <3>2, <3>3, <3>4, QueueEdited
  <2>12. \A d \in Flows : LogOK(d)'
    BY <1>8, <2>1, <2>8, LogsKept
  <2>13. SchedOK'
    <3>1. queue'[e] = t
      BY <1>9, <2>1, <2>6
    <3>2. x \in 1 .. nextID[e] - 1
      BY <1>1, <1>2, <1>9, <2>1 DEF Sends, SchedOK
    <3>3. \A i \in Position(t, x) : t[i].stride = s /\ t[i].index = m.index
      <4>1. \A i \in Position(t, x) : i \in p /\ i \in DOMAIN q
        BY <1>4, <2>7 DEF Position
      <4> QED BY <2>3, <2>7, <4>1
    <3> QED BY <1>8, <2>5, <2>6, <3>1, <3>2, <3>3 DEF SchedOK, Running
  <2>14. Sends'
    BY <2>11, <2>12, <2>13 DEF Sends
  <2>15. \A d \in Flows : SendMuHeld(d)' => flow[d].status = "open"
    BY <2>2, <2>6 DEF SendMuHeld
  <2>16. Live(e) /\ \A d \in Flows : d # e => queue'[d] = queue[d]
    BY <2>1, <2>2, <2>6 DEF Live
  <2> QED BY <1>8, <2>9, <2>14, <2>15, <2>16, SendOnly
<1> QED BY <1>10, <1>11

\* The scheduler ends its step with one message: it changes in the queue of e, or leaves it.
LEMMA SettledOK ==
  ASSUME IInv, NEW e \in Flows, sched.pc = "settle", sched.flow = e,
         NEW i \in Position(queue[e], sched.id),
         FlowTypes', Closing', SameHomes, SameFlows, \A d \in Flows : flow'[d].status = flow[d].status,
         traffic' = traffic, UNCHANGED recvVars, nextID' = nextID, sending' = sending, log' = log,
         sched' \in SchedType, sched'.pc \in {"idle", "closing"},
         sched'.pc = "closing" => sched'.flow = e /\ sched'.id = sched.id,
         \/ \E m \in Message : /\ queue' = [queue EXCEPT ![e][i] = m] /\ tx' = tx
                               /\ m.id = sched.id /\ Len(log[e][m.id]) = m.index
                               /\ \A k \in DOMAIN log[e][m.id] : log[e][m.id][k].stride = m.stride
         \/ removeLocked(e, i)
  PROVE  IInv'
<1>1. /\ SendTypes /\ Sends /\ QueueOK(e) /\ queue \in [Flows -> Seq(Message)]
      /\ queue[e] \in Seq(Message) /\ nextID[e] \in Nat /\ Len(queue[e]) \in Nat
  BY SendNow
<1>2. PICK q : q = queue[e]
  OBVIOUS
<1>3. PICK x : x = sched.id
  OBVIOUS
<1>4. i \in DOMAIN q /\ q[i].id = x /\ x \in Nat /\ q \in Seq(Message)
  BY <1>1, <1>2, <1>3 DEF Position, SendTypes, SchedType
<1>5. \A j \in DOMAIN q : j # i => q[j].id # x
  BY <1>1, <1>2, <1>4 DEF QueueOK
<1>6. Live(e) /\ flow[e].home \in Homes
  <2>1. queue[e] # <<>>
    BY <1>2, <1>4
  <2> QED BY <2>1, FlowRecord DEF IInv, Vacant
<1>7. SchedOK' /\ (Running' => sched'.flow \in Flows)
  <2>1. x \in 1 .. nextID[e] - 1
    BY <1>1, <1>3 DEF Sends, SchedOK, Running
  <2> QED BY <1>3, <2>1 DEF SchedOK, Running
<1>8. \A d \in Flows : LogOK(d)'
  BY <1>1, LogsKept
<1>9. \A d \in Flows, id \in Nat : ~Taken(d, id)' /\ (Taken(d, id) => d = e /\ id = x)
  BY <1>3 DEF Taken
<1>10. \A d \in Flows : ~SendMuHeld(d)'
  BY DEF SendMuHeld
<1>11. \A d \in Flows \ {e}, id \in Nat : Taken(d, id)' <=> Taken(d, id)
  BY <1>9
<1>12. ASSUME SendTypes', Budget', \A d \in Flows : QueueOK(d)', \A d \in Flows : d # e => queue'[d] = queue[d]
       PROVE  IInv'
  <2>1. Sends'
    BY <1>7, <1>8, <1>12 DEF Sends
  <2> QED BY <1>6, <1>10, <1>12, <2>1, SendFlow
<1>13. ASSUME NEW m \in Message, queue' = [queue EXCEPT ![e][i] = m], tx' = tx, m.id = x,
              Len(log[e][m.id]) = m.index, \A k \in DOMAIN log[e][m.id] : log[e][m.id][k].stride = m.stride
       PROVE  IInv'
  <2>1. PICK t : t = [q EXCEPT ![i] = m]
    OBVIOUS
  <2>2. queue' = [queue EXCEPT ![e] = t]
    BY <1>2, <1>13, <2>1
  <2>3. /\ t \in Seq(Message) /\ DOMAIN t = DOMAIN q /\ t[i] = m
        /\ \A j \in DOMAIN q : j # i => t[j] = q[j]
    BY <1>4, <2>1
  <2>4. DOMAIN t = DOMAIN queue[e] /\ \A j \in DOMAIN t : t[j].id = queue[e][j].id
    BY <1>2, <1>4, <1>13, <2>3
  <2>5. ASSUME NEW j \in DOMAIN t PROVE Logged(e, t[j])'
    <3>1. CASE j = i
      <4>1. ~Taken(e, m.id)'
        BY <1>4, <1>9, <1>13
      <4>2. Logged(e, m)'
        BY <1>13, <4>1 DEF Logged
      <4> QED BY <2>3, <3>1, <4>2
    <3>2. CASE j # i
      <4>1. PICK w : w = q[j]
        OBVIOUS
      <4>2. w \in Message /\ w.id # x /\ Logged(e, w)
        BY <1>1, <1>2, <1>4, <1>5, <2>3, <3>2, <4>1 DEF QueueOK
      <4>3. w.id \in Nat
        BY <4>2 DEF Message
      <4>4. Taken(e, w.id)' <=> Taken(e, w.id)
        BY <1>9, <4>2, <4>3
      <4>5. Logged(e, w)'
        BY <4>2, <4>4, LoggedSame
      <4> QED BY <2>3, <3>2, <4>1, <4>5
    <3> QED BY <3>1, <3>2
  <2>6. \A d \in Flows : QueueOK(d)'
    BY <1>1, <1>11, <2>2, <2>3, <2>4, <2>5, QueueEdited
  <2>7. SendTypes' /\ Budget'
    BY <1>7, <1>13, <2>2, <2>3, <2>4, EditedOK
  <2>8. \A d \in Flows : d # e => queue'[d] = queue[d]
    BY <1>1, <2>2
  <2> QED BY <1>12, <2>6, <2>7, <2>8
<1>14. ASSUME removeLocked(e, i) PROVE IInv'
  <2>1. PICK I \in SUBSET DOMAIN q : I = DOMAIN q \ {i}
    OBVIOUS
  <2>2. PICK t : t = At(q, I)
    OBVIOUS
  <2>3. queue' = [queue EXCEPT ![e] = t] /\ tx' = Charge(tx, e, -1)
    BY <1>2, <1>14, <2>1, <2>2 DEF removeLocked, Without
  <2>4. Drawn(t, queue[e]) /\ t \in Seq(Message)
    BY <1>2, <1>4, <2>2, DrawnAt
  <2>5. Len(t) = Len(queue[e]) - 1 /\ Len(t) \in Nat
    <3>1. Len(Without(q, i)) = Len(q) - 1 /\ Len(Without(q, i)) \in Nat
      BY <1>4, WithoutLength
    <3> QED BY <1>2, <2>1, <2>2, <3>1 DEF Without
  <2>6. \A k \in DOMAIN t : t[k].id # x /\ t[k].id \in Nat
    <3>1. \A k \in DOMAIN t : \E j \in I : t[k] = q[j]
      BY <1>4, <2>2, AtElements
    <3>2. \A j \in I : j \in DOMAIN q /\ q[j].id # x /\ q[j] \in Message
      BY <1>4, <1>5, <2>1
    <3> QED BY <3>1, <3>2 DEF Message
  <2>7. \A k \in DOMAIN t : Taken(e, t[k].id)' <=> Taken(e, t[k].id)
    BY <1>9, <2>6
  <2>8. \A d \in Flows : QueueOK(d)'
    BY <1>1, <1>11, <2>3, <2>4, <2>7, QueuesDrawn
  <2>9. SendTypes' /\ Budget'
    <3>1. Len(t) - Len(queue[e]) = -1 /\ Len(t) <= Len(queue[e])
      BY <1>1, <2>5
    <3>2. tx' = Charge(tx, e, Len(t) - Len(queue[e]))
      BY <2>3, <3>1
    <3> QED BY <1>6, <1>7, <2>3, <2>4, <3>1, <3>2, ShorterOK
  <2>10. \A d \in Flows : d # e => queue'[d] = queue[d]
    BY <1>1, <2>3
  <2> QED BY <1>12, <2>8, <2>9, <2>10
<1> QED BY <1>3, <1>13, <1>14

\* The scheduler settles the message.
LEMMA StepSettleOK ==
  ASSUME IInv, NEW maximum \in 1 .. Maximum, stepSettle(maximum)
  PROVE  IInv'
<1>1. PICK e : e = sched.flow
  OBVIOUS
<1>2. PICK p : p = Position(queue[e], sched.id)
  OBVIOUS
<1>3. PICK i : i = CHOOSE k \in p : TRUE
  OBVIOUS
<1>4. PICK q : q = queue[e][i]
  OBVIOUS
<1> DEFINE size    == IF maximum < flow[e].chunk THEN maximum ELSE flow[e].chunk
           shrinks == sched.err = "large" /\ flow[e].attached # "local" /\ maximum < q.stride
           whole   == flow[e].attached = "local" \/ q.index + 1 >= Count(q.stride)
           closes  == sched.err \notin {"none", "full", "large", "expired"}
           Updated(m) == queue' = [queue EXCEPT ![e][i] = m] /\ tx' = tx
<1>5. /\ sched.pc = "settle" /\ nextID' = nextID /\ sending' = sending /\ log' = log
      /\ traffic' = traffic /\ manager' = manager /\ closing' = closing /\ UNCHANGED recvVars
      /\ p = {} => sched' = Idle /\ queue' = queue /\ tx' = tx /\ flow' = flow
      /\ p # {} => /\ flow' = IF shrinks THEN [flow EXCEPT ![e].chunk = size] ELSE flow
                   /\ sched' = IF closes THEN [sched EXCEPT !.pc = "closing"] ELSE Idle
  BY <1>1, <1>2, <1>3, <1>4 DEF stepSettle
<1>6. p # {} => \/ sched.err = "none" /\ Updated([q EXCEPT !.index = @ + 1, !.wait = FALSE])
                \/ sched.err = "full" /\ Updated([q EXCEPT !.wait = TRUE])
                \/ sched.err = "large" /\ mayRecut(q) /\ Updated([q EXCEPT !.stride = size])
                \/ removeLocked(e, i)
  BY <1>1, <1>2, <1>3, <1>4 DEF stepSettle
<1>7. sched \in SchedType /\ e \in Flows /\ SendTypes
  BY <1>1, <1>5 DEF IInv, SendTypes, Running
<1>8. CASE p = {}
  <2>1. UNCHANGED flowVars
    BY <1>5, <1>8 DEF flowVars
  <2>2. sched' = Idle /\ Idle \in SchedType /\ Idle.pc = "idle"
    BY <1>5, <1>8, IdleType
  <2>3. SchedOK' /\ ~Running' /\ \A d \in Flows : ~SendMuHeld(d)'
    BY <2>2 DEF SchedOK, Running, SendMuHeld
  <2>4. \A d \in Flows : \A k \in DOMAIN queue[d], id \in Nat :
            queue[d][k].id = id => (Taken(d, id)' <=> Taken(d, id))
    BY <1>1, <1>2, <1>8, <2>2 DEF Taken, Position
  <2> QED BY <1>5, <1>8, <2>1, <2>2, <2>3, <2>4, SchedMoved
<1>9. CASE p # {}
  <2>1. i \in p /\ i \in DOMAIN queue[e] /\ q.id = sched.id
    BY <1>2, <1>3, <1>4, <1>9 DEF Position
  <2>2. q \in Message /\ Logged(e, q) /\ q.id \in Nat /\ q.index \in Nat /\ q.stride \in Nat
    <3>1. queue[e] \in Seq(Message) /\ QueueOK(e)
      BY <1>7, SendNow
    <3>2. q \in Message /\ Logged(e, q)
      BY <1>4, <2>1, <3>1 DEF QueueOK
    <3> QED BY <3>2 DEF Message
  <2>3. Live(e) /\ flow \in [Flows -> FlowType] /\ flow[e] \in FlowType
    <3>1. queue[e] # <<>>
      BY <2>1
    <3> QED BY <1>7, <3>1, FlowRecord DEF IInv, Vacant
  <2>4. size \in 1 .. Maximum /\ size \in Nat
    <3>1. flow[e].chunk \in 1 .. Maximum /\ Maximum \in Nat
      BY <2>3, UDPAssumption DEF FlowType
    <3> QED BY <3>1
  <2>5. /\ FlowTypes' /\ SameHomes /\ SameFlows /\ Closing'
        /\ \A d \in Flows : flow'[d].status = flow[d].status
    <3>1. PICK x : x = IF shrinks THEN [flow[e] EXCEPT !.chunk = size] ELSE flow[e]
      OBVIOUS
    <3>2. x \in FlowType /\ x.home = flow[e].home /\ x.status = flow[e].status
      <4> HIDE DEF size, shrinks
      <4> QED BY <2>3, <2>4, <3>1 DEF FlowType
    <3>3. flow' = [flow EXCEPT ![e] = x]
      <4> HIDE DEF size, shrinks
      <4> QED BY <1>5, <1>7, <1>9, <2>3, <3>1
    <3>4. FlowTypes' /\ SameHomes /\ SameFlows /\ Closing'
      BY <1>5, <1>7, <2>3, <3>2, <3>3, FlowEdited DEF Live
    <3> QED BY <1>7, <2>3, <3>2, <3>3, <3>4
  <2>6. /\ sched' \in SchedType /\ sched'.pc \in {"idle", "closing"}
        /\ sched'.pc = "closing" => sched'.flow = e /\ sched'.id = sched.id
    <3>1. Idle \in SchedType /\ Idle.pc = "idle"
      BY IdleType
    <3>2. [sched EXCEPT !.pc = "closing"] \in SchedType
      BY <1>7 DEF SchedType, PCs
    <3>3. sched' = [sched EXCEPT !.pc = "closing"] \/ sched' = Idle
      BY <1>5, <1>9
    <3>4. CASE sched' = [sched EXCEPT !.pc = "closing"]
      BY <1>1, <1>7, <3>2, <3>4 DEF SchedType
    <3> QED BY <3>1, <3>3, <3>4
  <2>7. PICK c : c = log[e][q.id]
    OBVIOUS
  <2>8. /\ Len(c) = IF sched.err = "none" THEN q.index + 1 ELSE q.index
        /\ \A k \in DOMAIN c : c[k].stride = q.stride
    <3>1. Taken(e, q.id) <=> sched.err = "none"
      BY <1>1, <1>5, <2>1 DEF Taken
    <3> QED BY <2>2, <2>7, <3>1 DEF Logged
  <2>9. \/ \E m \in Message : /\ queue' = [queue EXCEPT ![e][i] = m] /\ tx' = tx
                               /\ m.id = sched.id /\ Len(log[e][m.id]) = m.index
                               /\ \A k \in DOMAIN log[e][m.id] : log[e][m.id][k].stride = m.stride
        \/ removeLocked(e, i)
    <3> HIDE DEF size, shrinks, whole, closes
    <3>0. ASSUME NEW m \in Message, m.id = q.id, Len(c) = m.index, \A k \in DOMAIN c : c[k].stride = m.stride,
                 Updated(m)
          PROVE  \E w \in Message : /\ queue' = [queue EXCEPT ![e][i] = w] /\ tx' = tx
                               /\ w.id = sched.id /\ Len(log[e][w.id]) = w.index
                               /\ \A k \in DOMAIN log[e][w.id] : log[e][w.id][k].stride = w.stride
      BY <2>1, <2>7, <3>0
    <3>1. CASE sched.err = "none" /\ Updated([q EXCEPT !.index = @ + 1, !.wait = FALSE])
      <4>1. PICK m : m = [q EXCEPT !.index = @ + 1, !.wait = FALSE]
        OBVIOUS
      <4>2. m \in Message /\ m.id = q.id /\ m.index = q.index + 1 /\ m.stride = q.stride
        <5>1. PICK n \in Nat : n = q.index + 1
          BY <2>2
        <5>2. m = [q EXCEPT !.index = n, !.wait = FALSE]
          BY <4>1, <5>1
        <5>3. m \in Message /\ m.id = q.id /\ m.index = n /\ m.stride = q.stride
          BY <2>2, <5>2 DEF Message
        <5> QED BY <5>1, <5>3
      <4> QED BY <2>8, <3>0, <3>1, <4>1, <4>2
    <3>2. CASE sched.err = "full" /\ Updated([q EXCEPT !.wait = TRUE])
      <4>1. PICK m : m = [q EXCEPT !.wait = TRUE]
        OBVIOUS
      <4>2. m \in Message /\ m.id = q.id /\ m.index = q.index /\ m.stride = q.stride
        BY <2>2, <4>1 DEF Message
      <4> QED BY <2>8, <3>0, <3>2, <4>1, <4>2
    <3>3. CASE sched.err = "large" /\ mayRecut(q) /\ Updated([q EXCEPT !.stride = size])
      <4>1. PICK m : m = [q EXCEPT !.stride = size]
        OBVIOUS
      <4>2. m \in Message /\ m.id = q.id /\ m.index = q.index /\ m.index = 0
        BY <2>2, <2>4, <3>3, <4>1 DEF Message, mayRecut
      <4>3. Len(c) = 0
        BY <2>8, <3>3, <4>2
      <4>4. c \in Seq(Chunk)
        <5>1. /\ log[e] \in [1 .. traffic.sends[e] -> Seq(Chunk)] /\ QueueOK(e) /\ LogOK(e)
              /\ sending[e] \in Nat /\ nextID[e] \in Nat /\ traffic.sends[e] \in Nat
          BY <1>7, SendNow
        <5>2. q.id \in 1 .. nextID[e] - 1
          BY <1>4, <2>1, <5>1 DEF QueueOK
        <5>3. q.id \in 1 .. traffic.sends[e]
          BY <5>1, <5>2 DEF LogOK
        <5> QED BY <2>7, <5>1, <5>3
      <4>5. DOMAIN c = {}
        BY <4>3, <4>4
      <4> QED BY <3>0, <3>3, <4>1, <4>2, <4>3, <4>5
    <3> QED BY <1>6, <1>9, <3>1, <3>2, <3>3
  <2>10. i \in Position(queue[e], sched.id) /\ sched.flow = e
    BY <1>1, <1>2, <2>1
  <2> HIDE DEF size, shrinks, whole, closes
  <2> QED BY <1>5, <1>7, <2>5, <2>6, <2>9, <2>10, SettledOK
<1> QED BY <1>8, <1>9

-----------------------------------------------------------------------------
(* Receiving.                                                              *)

\* The step leaves the memory m, and no message is completed.
LEMMA StoredOK ==
  ASSUME IInv, UNCHANGED flowVars, NEW m \in MemoryType, MemoryOK(m), Store(m),
         completed' = completed, held' = held, reassembled' = reassembled, delivering' = delivering
  PROVE  RecvTypes' /\ Receives'
<1>1. SameHomes /\ traffic' = traffic /\ flow' = flow
  BY FlowsKept
<1>2. Memory' = m
  BY DEF Store, Memory, MemoryType
<1>3. RecvTypes'
  BY <1>1, <1>2 DEF IInv, RecvTypes, IDs
<1>4. \A i \in DOMAIN m.assemblies : Live(m.assemblies[i].flow)'
  BY <1>1 DEF MemoryOK, Windowed, Live
<1>5. SumsNext(m.rx, Holding(m))
  <2>1. PICK u : u = m.rx
    OBVIOUS
  <2>2. PICK f : f = Holding(m)
    OBVIOUS
  <2>3. Sums(u, f)
    BY <2>1, <2>2 DEF MemoryOK
  <2> QED BY <1>1, <2>1, <2>2, <2>3, SumsKept
<1>6. Reserved' /\ AtMostOnce'
  BY <1>1 DEF IInv, Receives, Reserved, AtMostOnce, IDs
<1> QED BY <1>1, <1>2, <1>3, <1>4, <1>5, <1>6, ReceivesStep

\* Both sides change for a live flow.
LEMMA BothOK ==
  ASSUME IInv, UNCHANGED flowVars, NEW e \in Flows, Live(e), SendTypes', Sends', Budget', RecvTypes', Receives',
         sched' = sched, sending' = sending, delivering' = delivering,
         \A d \in Flows : d # e => queue'[d] = queue[d] /\ completed'[d] = completed[d]
  PROVE  IInv'
<1>1. /\ FlowTypes' /\ Closing' /\ flow' = flow
  BY FlowsKept
<1>2. Joined'
  BY <1>1 DEF IInv, Joined, SendMuHeld
<1>3. Vacant'
  BY <1>1 DEF IInv, Vacant, Live
<1> QED BY <1>1, <1>2, <1>3 DEF IInv

\* The periodic pass.
LEMMA ExpireOK ==
  ASSUME IInv, NEW e \in Flows, NEW cut \in 0 .. Len(assemblies), NEW qcut, expireLocked(e, cut, qcut)
  PROVE  IInv'
<1>1. PICK m : m = Memory
  OBVIOUS
<1>2. /\ m \in MemoryType /\ MemoryOK(m) /\ FlowTypes /\ RecvTypes /\ m.assemblies = assemblies
  BY <1>1, MemoryNow
<1>3. PICK n : n = Expired(m, e, cut)
  OBVIOUS
<1>4. /\ Live(e) /\ queue' = [queue EXCEPT ![e] = Fresh(@, qcut)]
      /\ tx' = Charge(tx, e, Len(queue'[e]) - Len(queue[e])) /\ Store(n)
      /\ sched' = sched /\ nextID' = nextID /\ sending' = sending /\ log' = log
      /\ completed' = completed /\ held' = held /\ delivering' = delivering
      /\ reassembled' = reassembled /\ UNCHANGED flowVars
  BY <1>1, <1>3 DEF expireLocked
<1>5. flow[e].home \in Homes
  BY <1>4, FlowRecord
<1>6. n \in MemoryType /\ MemoryOK(n)
  BY <1>2, <1>3, <1>5, ExpiredOK
<1>7. RecvTypes' /\ Receives'
  BY <1>4, <1>6, StoredOK
<1>8. SendTypes' /\ Sends' /\ Budget'
  BY <1>4, FreshStep
<1>9. \A d \in Flows : d # e => queue'[d] = queue[d] /\ completed'[d] = completed[d]
  BY <1>4 DEF IInv, SendTypes
<1> QED BY <1>4, <1>7, <1>8, <1>9, BothOK

\* A chunk is noted in its assembly.
LEMMA PresentOK ==
  ASSUME FlowTypes, RecvTypes, NEW m \in MemoryType, MemoryOK(m), NEW i \in DOMAIN m.assemblies,
         NEW got \in SUBSET Nat
  PROVE  LET n == [m EXCEPT !.assemblies[i].present = got]
         IN  n \in MemoryType /\ MemoryOK(n)
<1>1. PICK s : s = m.assemblies
  OBVIOUS
<1>2. PICK t : t = [s EXCEPT ![i].present = got]
  OBVIOUS
<1>3. PICK n : n = [m EXCEPT !.assemblies = t]
  OBVIOUS
<1>4. /\ m.states \in [Flows -> [Slots -> Marks]] /\ m.high \in [Flows -> Nat] /\ m.rx \in Usage
      /\ s \in Seq(Assembly)
  BY <1>1, MemoryParts
<1>5. /\ t \in Seq(Assembly) /\ DOMAIN t = DOMAIN s
      /\ \A j \in DOMAIN s : t[j].flow = s[j].flow /\ t[j].id = s[j].id
  <2>1. \A j \in DOMAIN s : s[j] \in Assembly
    BY <1>4
  <2>2. \A j \in DOMAIN s : t[j] = IF j = i THEN [s[j] EXCEPT !.present = got] ELSE s[j]
    BY <1>1, <1>2
  <2>3. \A j \in DOMAIN s : t[j] \in Assembly /\ t[j].flow = s[j].flow /\ t[j].id = s[j].id
    BY <2>1, <2>2 DEF Assembly
  <2>4. DOMAIN s = 1 .. Len(s) /\ Len(s) \in Nat
    BY <1>4
  <2>5. t \in [1 .. Len(s) -> Assembly]
    BY <1>2, <2>3, <2>4
  <2> QED BY <2>3, <2>4, <2>5
<1>6. /\ n \in MemoryType /\ n.assemblies = t /\ n.states = m.states /\ n.high = m.high /\ n.rx = m.rx
  BY <1>3, <1>4, <1>5 DEF MemoryType
<1>7. Windowed(n) /\ Alone(n) /\ Remembers(n)
  BY <1>1, <1>5, <1>6 DEF MemoryOK, Windowed, Alone, Remembers
<1>8. Holding(n) = Holding(m)
  <2>1. ASSUME NEW d \in Flows PROVE Held(n.assemblies, d) = Held(m.assemblies, d)
    BY <1>1, <1>5, <1>6 DEF Held
  <2> QED BY <2>1 DEF Holding
<1>9. MemoryOK(n)
  <2>1. PICK f : f = Holding(m)
    OBVIOUS
  <2>2. PICK u : u = m.rx
    OBVIOUS
  <2>3. Sums(u, f) /\ Within(u, LimitsRX)
    BY <2>1, <2>2 DEF MemoryOK
  <2> QED BY <1>6, <1>7, <1>8, <2>1, <2>2, <2>3 DEF MemoryOK
<1> QED BY <1>1, <1>2, <1>3, <1>6, <1>9

\* A charge of nothing.
LEMMA ChargeZero ==
  ASSUME NEW u \in Usage, NEW e \in Flows, flow[e].home \in Homes
  PROVE  Charge(u, e, 0) = u
<1>1. u.flow \in [Flows -> Int] /\ u.peer \in [Homes -> Int] /\ u.node \in Int
  BY DEF Usage
<1>2. [u.flow EXCEPT ![e] = @ + 0] = u.flow /\ [u.peer EXCEPT ![flow[e].home] = @ + 0] = u.peer
  BY <1>1
<1> QED BY <1>1, <1>2 DEF Charge, Usage

\* A message is completed: what the receiving side is then.
LEMMA CompleteOK ==
  ASSUME IInv, UNCHANGED flowVars, NEW m \in MemoryType, MemoryOK(m), NEW i \in DOMAIN m.assemblies,
         NEW e \in Flows, NEW id \in IDs(e), m.assemblies[i].flow = e, m.assemblies[i].id = id,
         Store([m EXCEPT !.assemblies = Without(@, i), !.states[e][id % WindowSize] = 2]),
         completed' = [completed EXCEPT ![e] = @ \cup {id}],
         held' = [held EXCEPT ![e] = @ \cup {id}],
         reassembled' = [reassembled EXCEPT ![e][id] = @ + 1], delivering' = delivering
  PROVE  RecvTypes' /\ Receives'
<1>1. FlowTypes /\ RecvTypes /\ SameHomes /\ traffic' = traffic /\ flow' = flow
  BY FlowsKept DEF IInv
<1>2. /\ Windowed(m) /\ Within(m.rx, LimitsRX)
      /\ m.states \in [Flows -> [Slots -> Marks]] /\ m.high \in [Flows -> Nat] /\ m.rx \in Usage
      /\ id \in Nat /\ id # 0 /\ id % WindowSize \in Slots
  BY MemoryParts DEF MemoryOK
<1>3. PICK z \in Slots : z = id % WindowSize
  BY <1>2
<1>4. Live(e) /\ id <= m.high[e] /\ m.high[e] - WindowSize < id /\ m.states[e][z] = 1
  BY <1>2, <1>3 DEF Windowed
<1>5. flow[e].home \in Homes
  BY <1>4, FlowRecord
<1>6. reassembled[e][id] = 0
  BY <1>3, <1>4 DEF MemoryOK, Remembers
<1>7. PICK n : n = GiveUp(m, i)
  OBVIOUS
<1>8. /\ n \in MemoryType /\ MemoryOK(n) /\ n.high = m.high
      /\ n.assemblies \in Seq(Assembly) /\ n.rx \in Usage
      /\ \A j \in DOMAIN n.assemblies : /\ n.assemblies[j].flow \in Flows
                                        /\ n.assemblies[j].id % WindowSize \in Slots
  BY <1>1, <1>7, GiveUpOK, MemoryParts
<1>9. /\ n.assemblies = Without(m.assemblies, i) /\ n.states = [m.states EXCEPT ![e][z] = 3]
      /\ n.rx = Charge(m.rx, e, -1)
  BY <1>3, <1>7 DEF GiveUp, MemoryType
<1>10. /\ assemblies' = n.assemblies /\ states' = [m.states EXCEPT ![e][z] = 2]
       /\ high' = n.high /\ rx' = m.rx
  BY <1>3, <1>8, <1>9 DEF Store, MemoryType
<1>11. 2 \in Marks /\ n.states[e][z] = 3 /\ states' \in [Flows -> [Slots -> Marks]] /\ states'[e][z] = 2
       /\ \A d \in Flows, k \in Slots : (d = e /\ k = z) \/ states'[d][k] = n.states[d][k]
  <2>1. 2 \in Marks
    BY DEF Marks
  <2> QED BY <1>2, <1>9, <1>10, <2>1
<1>12. Windowed(Memory)' /\ Alone(Memory)'
  <2>1. ASSUME NEW j \in DOMAIN n.assemblies
        PROVE  LET a == n.assemblies[j] IN
               /\ Live(a.flow)' /\ a.id <= high'[a.flow] /\ high'[a.flow] - WindowSize < a.id
               /\ states'[a.flow][a.id % WindowSize] = 1
    <3>1. PICK a : a = n.assemblies[j]
      OBVIOUS
    <3>2. /\ Live(a.flow) /\ a.id <= n.high[a.flow] /\ n.high[a.flow] - WindowSize < a.id
          /\ n.states[a.flow][a.id % WindowSize] = 1 /\ a.flow \in Flows
      BY <1>8, <3>1 DEF MemoryOK, Windowed
    <3>3. a.id % WindowSize \in Slots
      BY <1>8, <3>1
    <3>4. states'[a.flow][a.id % WindowSize] = 1
      BY <1>11, <3>2, <3>3
    <3>5. Live(a.flow)'
      BY <1>1, <3>2 DEF Live
    <3> QED BY <1>10, <3>1, <3>2, <3>4, <3>5
  <2>2. Alone(n)
    BY <1>8 DEF MemoryOK
  <2>3. Memory'.assemblies = n.assemblies /\ Memory'.states = states' /\ Memory'.high = high'
    BY <1>10 DEF Memory
  <2> DEFINE w == Memory
  <2>4. w'.assemblies = n.assemblies /\ w'.states = states' /\ w'.high = high'
    BY <2>3
  <2> HIDE DEF w
  <2>5. Windowed(w)'
    BY <2>1, <2>4 DEF Windowed
  <2>6. Alone(w)'
    BY <2>2, <2>4 DEF Alone
  <2> QED BY <2>5, <2>6 DEF w
<1>13. /\ reassembled'[e][id] = 1 /\ DOMAIN reassembled' = Flows
       /\ \A d \in Flows : reassembled'[d] \in [IDs(d) -> Nat]
       /\ \A d \in Flows, k \in Nat : k \in IDs(d) => (d = e /\ k = id) \/ reassembled'[d][k] = reassembled[d][k]
  <2>1. DOMAIN reassembled = Flows /\ \A d \in Flows : reassembled[d] \in [IDs(d) -> Nat]
    BY <1>1 DEF RecvTypes
  <2>2. PICK r : r = [reassembled[e] EXCEPT ![id] = @ + 1]
    OBVIOUS
  <2>3. reassembled' = [reassembled EXCEPT ![e] = r]
    BY <2>1, <2>2
  <2>4. r \in [IDs(e) -> Nat] /\ r[id] = 1 /\ \A k \in IDs(e) : k # id => r[k] = reassembled[e][k]
    BY <1>6, <2>1, <2>2
  <2>5. reassembled'[e] = r /\ DOMAIN reassembled' = Flows /\ \A d \in Flows : d # e => reassembled'[d] = reassembled[d]
    BY <2>1, <2>3
  <2> QED BY <2>1, <2>4, <2>5
<1>14. Remembers(Memory)'
  <2>1. ASSUME NEW d \in Flows, NEW k \in IDs(d), reassembled'[d][k] # 0
        PROVE  k <= high'[d] /\ (high'[d] - WindowSize < k => states'[d][k % WindowSize] = 2)
    <3>1. k \in Nat /\ k % WindowSize \in Slots
      <4>1. k \in Nat
        BY DEF IDs
      <4> QED BY <4>1, SlotType
    <3>2. CASE d = e /\ k = id
      BY <1>3, <1>4, <1>8, <1>10, <1>11, <3>2
    <3>3. CASE ~(d = e /\ k = id)
      <4>1. reassembled[d][k] # 0
        BY <1>13, <2>1, <3>1, <3>3
      <4>2. k <= n.high[d] /\ (n.high[d] - WindowSize < k => n.states[d][k % WindowSize] = 2)
        BY <1>8, <4>1 DEF MemoryOK, Remembers
      <4> QED BY <1>10, <1>11, <3>1, <4>2
    <3> QED BY <3>2, <3>3
  <2>2. Memory'.states = states' /\ Memory'.high = high'
    BY DEF Memory
  <2>3. \A d \in Flows : IDs(d)' = IDs(d)
    BY <1>1 DEF IDs
  <2> DEFINE w == Memory
  <2>4. w'.states = states' /\ w'.high = high'
    BY <2>2
  <2> HIDE DEF w
  <2>5. Remembers(w)'
    BY <2>1, <2>3, <2>4 DEF Remembers
  <2> QED BY <2>5 DEF w
<1>15. /\ completed \in [Flows -> SUBSET Nat] /\ held \in [Flows -> SUBSET Nat]
       /\ \A d \in Flows : IsFiniteSet(completed[d])
  BY <1>1 DEF RecvTypes
<1>16. PICK C : C = completed[e] \cup {id}
  OBVIOUS
<1>17. C \subseteq Nat /\ IsFiniteSet(C) /\ Cardinality(C) = Cardinality(completed[e]) + 1
  <2>1. id \notin completed[e]
    BY <1>2, <1>6 DEF IInv, Receives, Reserved
  <2> QED BY <1>2, <1>15, <1>16, <2>1, FS_AddElement
<1>18. /\ completed' = [completed EXCEPT ![e] = C]
       /\ completed'[e] = C /\ \A d \in Flows : d # e => completed'[d] = completed[d]
  BY <1>15, <1>16
<1>19. held'[e] = held[e] \cup {id} /\ \A d \in Flows : d # e => held'[d] = held[d]
  BY <1>15
<1>20. Sums(Memory.rx, Holding(Memory))'
  <2>1. PICK k \in Int : k = 1
    OBVIOUS
  <2>2. rx' = Charge(n.rx, e, k)
    <3>1. PICK j \in Int : j = -1
      OBVIOUS
    <3>2. Charge(Charge(m.rx, e, j), e, k) = Charge(m.rx, e, j + k)
      BY <1>2, <1>5, ChargeTwice
    <3>3. j + k = 0
      BY <2>1, <3>1
    <3>4. Charge(m.rx, e, 0) = m.rx
      BY <1>2, <1>5, ChargeZero
    <3> QED BY <1>9, <1>10, <3>1, <3>2, <3>3, <3>4
  <2>3. Sums(n.rx, Holding(n))
    BY <1>8 DEF MemoryOK
  <2>4. Cardinality(completed'[e]) = Cardinality(completed[e]) + k /\ IsFiniteSet(completed'[e])
    BY <1>17, <1>18, <2>1
  <2>5. assemblies' = n.assemblies /\ n \in MemoryType /\ \A d \in Flows \ {e} : completed'[d] = completed[d]
    BY <1>8, <1>10, <1>18
  <2> QED BY <1>1, <1>5, <2>2, <2>3, <2>4, <2>5, SumsStep
<1>21. Within(Memory.rx, LimitsRX)'
  <2>1. Memory'.rx = m.rx
    BY <1>10 DEF Memory
  <2> QED BY <1>2, <2>1 DEF Within, LimitsRX
<1>22. Reserved'
  <2>1. \A d \in Flows : IDs(d)' = IDs(d)
    BY <1>1 DEF IDs
  <2>2. ASSUME NEW d \in Flows, NEW k \in completed'[d]
        PROVE  k \in held'[d] /\ (k # 0 => k \in IDs(d) /\ reassembled'[d][k] # 0)
    <3>1. CASE d = e /\ k = id
      BY <1>13, <1>19, <3>1
    <3>2. CASE ~(d = e /\ k = id)
      <4>1. k \in completed[d] /\ k \in Nat
        BY <1>15, <1>16, <1>18, <2>2, <3>2
      <4>2. k \in held[d] /\ (k # 0 => k \in IDs(d) /\ reassembled[d][k] # 0)
        BY <4>1 DEF IInv, Receives, Reserved
      <4> QED BY <1>13, <1>19, <3>2, <4>1, <4>2
    <3> QED BY <3>1, <3>2
  <2> QED BY <2>1, <2>2 DEF Reserved
<1>23. AtMostOnce'
  <2>1. ASSUME NEW d \in Flows, NEW k \in IDs(d) PROVE reassembled'[d][k] <= 1
    <3>1. k \in Nat
      BY DEF IDs
    <3>2. reassembled[d][k] <= 1
      BY <1>1 DEF IInv, Receives, AtMostOnce, RecvTypes
    <3> QED BY <1>13, <3>1, <3>2
  <2>2. \A d \in Flows : DOMAIN reassembled'[d] = IDs(d)
    BY <1>13
  <2> QED BY <2>1, <2>2 DEF AtMostOnce
<1>24. Receives'
  BY <1>12, <1>14, <1>20, <1>21, <1>22, <1>23 DEF Receives, MemoryOK
<1>25. RecvTypes'
  <2>1. Memory' \in MemoryType
    BY <1>2, <1>8, <1>10, <1>11 DEF Memory, MemoryType
  <2>2. completed' \in [Flows -> SUBSET Nat] /\ \A d \in Flows : IsFiniteSet(completed'[d])
    BY <1>15, <1>17, <1>18
  <2>3. held' \in [Flows -> SUBSET Nat]
    BY <1>2, <1>15
  <2>4. \A d \in Flows : IDs(d)' = IDs(d)
    BY <1>1 DEF IDs
  <2>5. MemoryType' = MemoryType /\ delivering' \in [Flows -> BOOLEAN]
    BY <1>1 DEF RecvTypes, MemoryType, Usage, Homes
  <2> QED BY <1>13, <2>1, <2>2, <2>3, <2>4, <2>5 DEF RecvTypes
<1> QED BY <1>24, <1>25

\* A frame is received: refused, given up, noted, or the last of its message.
LEMMA ReceiveFrameOK ==
  ASSUME IInv, NEW e \in Flows, NEW f \in Frames(e), NEW cut \in 0 .. Len(assemblies), NEW qcut,
         NEW clash \in BOOLEAN, ReceiveFrame(e, f, cut, qcut, clash)
  PROVE  IInv'
<1>1. PICK o : o = Memory
  OBVIOUS
<1>2. /\ o \in MemoryType /\ MemoryOK(o) /\ FlowTypes /\ RecvTypes /\ o.assemblies = assemblies
  BY <1>1, MemoryNow
<1>3. PICK x : x = Expired(o, e, cut)
  OBVIOUS
<1>4. PICK m : m = Located(x, e, f)
  OBVIOUS
<1>5. PICK here : here = Find(m, e, f.id)
  OBVIOUS
<1>6. PICK i : i = CHOOSE k \in here : TRUE
  OBVIOUS
<1>7. PICK a : a = m.assemblies[i]
  OBVIOUS
<1>8. PICK got : got = a.present \cup {f.index}
  OBVIOUS
<1> DEFINE Kept == UNCHANGED <<completed, held, reassembled>>
           Done == [m EXCEPT !.assemblies = Without(@, i), !.states[e][f.id % WindowSize] = 2]
<1>9. /\ flow[e].status = "open" /\ queue' = [queue EXCEPT ![e] = Fresh(@, qcut)]
      /\ tx' = Charge(tx, e, Len(queue'[e]) - Len(queue[e]))
      /\ sched' = sched /\ nextID' = nextID /\ sending' = sending /\ log' = log
      /\ delivering' = delivering /\ UNCHANGED flowVars
  BY DEF ReceiveFrame, Closed
<1>10. \/ here = {} /\ Store(m) /\ Kept
       \/ here # {} /\ Store(GiveUp(m, i)) /\ Kept
       \/ here # {} /\ Store([m EXCEPT !.assemblies[i].present = got]) /\ Kept
       \/ /\ here # {} /\ Store(Done)
          /\ completed' = [completed EXCEPT ![e] = @ \cup {f.id}]
          /\ held' = [held EXCEPT ![e] = @ \cup {f.id}]
          /\ reassembled' = [reassembled EXCEPT ![e][f.id] = @ + 1]
  BY <1>1, <1>3, <1>4, <1>5, <1>6, <1>7, <1>8 DEF ReceiveFrame
<1>11. Live(e) /\ flow[e].home \in Homes
  BY <1>9, FlowRecord DEF Live
<1>12. x \in MemoryType /\ MemoryOK(x)
  BY <1>2, <1>3, <1>11, ExpiredOK
<1>13. m \in MemoryType /\ MemoryOK(m)
  BY <1>2, <1>4, <1>9, <1>12, LocatedOK
<1>14. f.id \in IDs(e) /\ f.index \in Nat
  BY FrameType
<1>15. here # {} => /\ i \in DOMAIN m.assemblies /\ m.assemblies[i].flow = e /\ m.assemblies[i].id = f.id
                    /\ got \in SUBSET Nat
  <2>1. here # {} => i \in DOMAIN m.assemblies /\ m.assemblies[i].flow = e /\ m.assemblies[i].id = f.id
    BY <1>5, <1>6 DEF Find
  <2>2. here # {} => a \in Assembly
    BY <1>7, <1>13, <2>1, MemoryParts
  <2> QED BY <1>8, <1>14, <2>1, <2>2 DEF Assembly
<1>16. SendTypes' /\ Sends' /\ Budget'
  BY <1>9, <1>11, FreshStep
<1>17. RecvTypes' /\ Receives' /\ \A d \in Flows : d # e => completed'[d] = completed[d]
  <2>1. CASE Store(m) /\ Kept
    BY <1>9, <1>13, <2>1, StoredOK
  <2>2. CASE here # {} /\ Store(GiveUp(m, i)) /\ Kept
    <3>1. PICK n : n = GiveUp(m, i)
      OBVIOUS
    <3>2. n \in MemoryType /\ MemoryOK(n)
      BY <1>2, <1>13, <1>15, <2>2, <3>1, GiveUpOK
    <3> QED BY <1>9, <2>2, <3>1, <3>2, StoredOK
  <2>3. CASE here # {} /\ Store([m EXCEPT !.assemblies[i].present = got]) /\ Kept
    <3>1. PICK n : n = [m EXCEPT !.assemblies[i].present = got]
      OBVIOUS
    <3>2. n \in MemoryType /\ MemoryOK(n)
      BY <1>2, <1>13, <1>15, <2>3, <3>1, PresentOK
    <3> QED BY <1>9, <2>3, <3>1, <3>2, StoredOK
  <2>4. CASE /\ here # {} /\ Store(Done)
             /\ completed' = [completed EXCEPT ![e] = @ \cup {f.id}]
             /\ held' = [held EXCEPT ![e] = @ \cup {f.id}]
             /\ reassembled' = [reassembled EXCEPT ![e][f.id] = @ + 1]
    <3>1. PICK id \in IDs(e) : id = f.id
      BY <1>14
    <3>2. RecvTypes' /\ Receives'
      BY <1>9, <1>13, <1>15, <2>4, <3>1, CompleteOK
    <3>3. \A d \in Flows : d # e => completed'[d] = completed[d]
      BY <1>2, <2>4 DEF RecvTypes
    <3> QED BY <3>2, <3>3
  <2> QED BY <1>10, <2>1, <2>2, <2>3, <2>4
<1>18. \A d \in Flows : d # e => queue'[d] = queue[d]
  BY <1>9 DEF IInv, SendTypes
<1> QED BY <1>9, <1>11, <1>16, <1>17, <1>18, BothOK

-----------------------------------------------------------------------------
(* The invariant holds at first, is kept by every step, and implies the    *)
(* properties.                                                             *)

\* Initially nothing is open, queued or reserved.
LEMMA InitIInv == Init => IInv
<1> SUFFICES ASSUME Init PROVE IInv
  OBVIOUS
<1>1. /\ traffic \in Traffic /\ manager = "open" /\ closing = <<>> /\ sched = Idle
      /\ flow = [e \in Flows |-> [status |-> "new", home |-> 0, attached |-> "no", chunk |-> Maximum]]
      /\ queue = [e \in Flows |-> <<>>] /\ nextID = [e \in Flows |-> 1]
      /\ sending = [e \in Flows |-> 0] /\ assemblies = <<>>
      /\ states = [e \in Flows |-> [k \in Slots |-> 0]] /\ high = [e \in Flows |-> 0]
      /\ completed = [e \in Flows |-> {}] /\ held = [e \in Flows |-> {}]
      /\ delivering = [e \in Flows |-> FALSE]
      /\ rx = [flow |-> [e \in Flows |-> 0], peer |-> [h \in Homes |-> 0], node |-> 0]
      /\ tx = [flow |-> [e \in Flows |-> 0], peer |-> [h \in Homes |-> 0], node |-> 0]
      /\ log = [e \in Flows |-> [k \in 1 .. traffic.sends[e] |-> <<>>]]
      /\ reassembled = [e \in Flows |-> [k \in IDs(e) |-> 0]]
  BY DEF Init, Slots
<1>2. /\ Maximum \in Nat \ {0} /\ FlowTX \in Nat /\ PeerTX \in Nat /\ NodeTX \in Nat
      /\ FlowRX \in Nat /\ PeerRX \in Nat /\ NodeRX \in Nat
      /\ \A e \in Flows : traffic.sends[e] \in Nat
  BY <1>1, UDPAssumption
<1>3. FlowTypes
  <2>1. [status |-> "new", home |-> 0, attached |-> "no", chunk |-> Maximum] \in FlowType
    BY <1>2 DEF FlowType, Statuses
  <2>2. flow \in [Flows -> FlowType] /\ \A e \in Flows : flow[e].status = "new"
    BY <1>1, <2>1
  <2> QED BY <1>1, <2>2 DEF FlowTypes
<1>4. sched = Idle /\ Idle \in SchedType /\ ~Running /\ sched.pc = "idle"
  BY <1>1, IdleType DEF Running
<1>5. \A h \in {0} : tx \in Usage /\ rx \in Usage
  BY <1>1 DEF Usage
<1>6. SendTypes
  <2>1. \A e \in Flows : log[e] \in [1 .. traffic.sends[e] -> Seq(Chunk)]
    BY <1>1
  <2>2. queue \in [Flows -> Seq(Message)]
    BY <1>1
  <2> QED BY <1>1, <1>4, <1>5, <2>1, <2>2 DEF SendTypes
<1>7. RecvTypes
  <2>1. 0 \in Marks
    BY DEF Marks
  <2>2. assemblies \in Seq(Assembly) /\ states \in [Flows -> [Slots -> Marks]] /\ high \in [Flows -> Nat]
    BY <1>1, <2>1
  <2>3. Memory \in MemoryType
    BY <1>5, <2>2 DEF Memory, MemoryType
  <2>4. \A e \in Flows : IsFiniteSet(completed[e])
    BY <1>1, FS_EmptySet
  <2>5. \A e \in Flows : reassembled[e] \in [IDs(e) -> Nat]
    BY <1>1
  <2> QED BY <1>1, <2>3, <2>4, <2>5 DEF RecvTypes
<1>8. Joined /\ Vacant /\ Closing
  BY <1>1 DEF Joined, Vacant, Closing, Live, SendMuHeld
<1>9. Sends
  <2>1. SchedOK
    BY <1>4 DEF SchedOK, Running
  <2>2. \A e \in Flows : QueueOK(e)
    BY <1>1 DEF QueueOK
  <2>3. ASSUME NEW e \in Flows PROVE LogOK(e)
    <3>1. DOMAIN log[e] = 1 .. traffic.sends[e] /\ \A id \in DOMAIN log[e] : log[e][id] = <<>>
      BY <1>1
    <3>2. sending[e] = 0 /\ nextID[e] = 1
      BY <1>1
    <3>3. \A id \in DOMAIN log[e] : InOrder(log[e][id])
      BY <3>1 DEF InOrder
    <3> QED BY <1>2, <3>1, <3>2, <3>3 DEF LogOK
  <2> QED BY <2>1, <2>2, <2>3 DEF Sends
<1>10. \A h \in Homes : Mates(h) = {}
  BY <1>1 DEF Mates, Homes
<1>11. ASSUME NEW u, u = [flow |-> [e \in Flows |-> 0], peer |-> [h \in Homes |-> 0], node |-> 0],
              NEW f, \A e \in Flows : f[e] = 0
       PROVE  Sums(u, f)
  <2>1. Total(f, {}) = 0
    BY TotalZero
  <2>2. Total(f, Flows) = 0
    BY <1>11, TotalZero
  <2> QED BY <1>10, <1>11, <2>1, <2>2 DEF Sums
<1>12. Budget
  <2>1. \A e \in Flows : Out[e] = 0
    BY <1>1 DEF Out
  <2>2. Sums(tx, Out)
    BY <1>1, <1>11, <2>1
  <2>3. Within(tx, LimitsTX)
    BY <1>1, <1>2 DEF Within, LimitsTX
  <2> QED BY <2>2, <2>3 DEF Budget
<1>13. Receives
  <2>1. Memory.assemblies = <<>> /\ Memory.rx = rx
    BY <1>1 DEF Memory
  <2>2. \A e \in Flows : \A id \in DOMAIN reassembled[e] : reassembled[e][id] = 0
    BY <1>1
  <2>3. \A e \in Flows : DOMAIN reassembled[e] = IDs(e)
    BY <1>1
  <2>4. Windowed(Memory) /\ Alone(Memory)
    BY <2>1 DEF Windowed, Alone
  <2>5. Remembers(Memory)
    BY <2>2, <2>3 DEF Remembers
  <2>6. \A e \in Flows : Holding(Memory)[e] = 0
    <3>1. \A e \in Flows : Held(Memory.assemblies, e) = {} /\ completed[e] = {}
      BY <1>1, <2>1 DEF Held
    <3>2. Cardinality({}) = 0
      BY FS_EmptySet
    <3> QED BY <3>1, <3>2 DEF Holding
  <2>7. Sums(Memory.rx, Holding(Memory))
    BY <1>1, <1>11, <2>1, <2>6
  <2>8. Within(Memory.rx, LimitsRX)
    BY <1>1, <1>2, <2>1 DEF Within, LimitsRX
  <2>9. Reserved /\ AtMostOnce
    BY <1>1, <2>2 DEF Reserved, AtMostOnce
  <2> QED BY <2>4, <2>5, <2>7, <2>8, <2>9 DEF Receives, MemoryOK
<1> QED BY <1>3, <1>6, <1>7, <1>8, <1>9, <1>12, <1>13 DEF IInv

\* Nothing changes.
LEMMA StutterOK ==
  ASSUME IInv, UNCHANGED vars
  PROVE  IInv'
<1>1. UNCHANGED sendVars /\ UNCHANGED recvVars /\ UNCHANGED flowVars
  BY DEF vars, sendVars, recvVars, flowVars
<1>2. /\ FlowTypes' /\ Closing' /\ SameHomes /\ SameFlows /\ traffic' = traffic /\ flow' = flow
  BY <1>1, FlowsKept
<1>3. Joined'
  BY <1>1, <1>2 DEF IInv, Joined, sendVars, recvVars, SendMuHeld
<1> QED BY <1>1, <1>2, <1>3, FlowOnly

\* Every step keeps the invariant, one lemma per action.
LEMMA NextIInv ==
  ASSUME IInv, [Next]_vars
  PROVE  IInv'
<1>1. CASE CloseManager
  BY <1>1, CloseManagerOK
<1>2. CASE CloseNext
  BY <1>2, CloseNextOK
<1>3. CASE CloseReturns
  BY <1>3, CloseReturnsOK
<1>4. CASE runStops
  BY <1>4, RunStopsOK
<1>5. CASE step
  BY <1>5, StepLockOK, StepCheckOK, StepCloseOK, StepSendOK, StepSettleOK DEF step
<1>6. ASSUME NEW e \in Flows, FlowStep(e)
      PROVE  IInv'
  <2>1. CASE Open(e) \/ CloseFlow(e) \/ JoinSend(e) \/ JoinDelivery(e) \/ Retire(e)
    BY <2>1, OpenOK, CloseFlowOK, RetireOK
  <2>2. CASE \E kind \in {"local", "remote"} : attach(e, kind)
    BY <2>2, AttachOK
  <2>3. CASE SendReserve(e) \/ SendPublish(e) \/ SendFail(e) \/ RetryDue(e)
    BY <2>3, SendReserveOK, SendPublishOK, SendFailOK, RetryDueOK
  <2>4. ASSUME NEW qcut \in 0 .. nextID[e] - 1, pickLocked(e, qcut)
        PROVE  IInv'
    BY <2>4, PickOK
  <2>5. ASSUME NEW qcut \in 0 .. nextID[e] - 1, NEW cut \in 0 .. Len(assemblies), expireLocked(e, cut, qcut)
        PROVE  IInv'
    BY <2>5, ExpireOK
  <2>6. ASSUME NEW qcut \in 0 .. nextID[e] - 1, NEW cut \in 0 .. Len(assemblies),
               NEW f \in Frames(e), NEW clash \in BOOLEAN, ReceiveFrame(e, f, cut, qcut, clash)
        PROVE  IInv'
    BY <2>6, ReceiveFrameOK
  <2>7. CASE RetainReceived(e) \/ DeliverBegin(e) \/ DeliverEnd(e)
    BY <2>7, RetainReceivedOK, DeliverOK
  <2>8. ASSUME NEW id \in held[e], Release(e, id)
        PROVE  IInv'
    BY <2>8, ReleaseOK
  <2> QED BY <1>6, <2>1, <2>2, <2>3, <2>4, <2>5, <2>6, <2>7, <2>8 DEF FlowStep
<1>7. CASE UNCHANGED vars
  BY <1>7, StutterOK
<1> QED BY <1>1, <1>2, <1>3, <1>4, <1>5, <1>6, <1>7 DEF Next

-----------------------------------------------------------------------------
(* What follows from the invariant.                                        *)

\* What a flow has received and holds, in the words of the properties.
LEMMA InIsHolding == In = Holding(Memory)
<1>1. ASSUME NEW e \in Flows PROVE Of(e) = Held(Memory.assemblies, e)
  BY DEF Of, Held, Memory
<1> QED BY <1>1 DEF In, Holding

\* Sums are not negative.
LEMMA AmountsNatural ==
  ASSUME NEW u, NEW f \in [Flows -> Nat], Sums(u, f)
  PROVE  /\ \A e \in Flows : u.flow[e] \in Nat
         /\ \A h \in Homes : u.peer[h] \in Nat
         /\ u.node \in Nat
<1>1. IsFiniteSet(Flows) /\ \A h \in Homes : Mates(h) \subseteq Flows /\ IsFiniteSet(Mates(h))
  BY UDPAssumption, FS_Subset DEF Mates
<1>2. Total(f, Flows) \in Nat
  BY <1>1, PairsFinite
<1>3. ASSUME NEW h \in Homes PROVE Total(f, Mates(h)) \in Nat
  <2>1. \A d \in Mates(h) : f[d] \in Nat
    BY <1>1
  <2> QED BY <1>1, <2>1, PairsFinite
<1> QED BY <1>2, <1>3 DEF Sums

\* Sums within the limits are in their ranges.
LEMMA AmountsWithin ==
  ASSUME NEW u, NEW f \in [Flows -> Nat], Sums(u, f), NEW x \in Nat, NEW y \in Nat, NEW z \in Nat,
         Within(u, <<x, y, z>>)
  PROVE  /\ \A e \in Flows : u.flow[e] \in 0 .. x
         /\ \A h \in Homes : u.peer[h] \in 0 .. y
         /\ u.node \in 0 .. z
BY AmountsNatural DEF Within

\* The invariant gives the types and the limits.
LEMMA IInvType ==
  ASSUME IInv
  PROVE  TypeOK
<1>1. /\ FlowTypes /\ SendTypes /\ RecvTypes /\ Sends /\ Receives /\ Budget
  BY DEF IInv
<1>2. \A n \in {FlowTX, PeerTX, NodeTX, FlowRX, PeerRX, NodeRX} : n \in Nat
  BY UDPAssumption
<1>3. /\ \A e \in Flows : tx.flow[e] \in 0 .. FlowTX
      /\ \A h \in Homes : tx.peer[h] \in 0 .. PeerTX
      /\ tx.node \in 0 .. NodeTX
  <2>1. Out \in [Flows -> Nat]
    BY <1>1, OutType
  <2>2. Sums(tx, Out) /\ Within(tx, <<FlowTX, PeerTX, NodeTX>>)
    BY <1>1 DEF Budget, LimitsTX
  <2> QED BY <1>2, <2>1, <2>2, AmountsWithin
<1>4. /\ \A e \in Flows : rx.flow[e] \in 0 .. FlowRX
      /\ \A h \in Homes : rx.peer[h] \in 0 .. PeerRX
      /\ rx.node \in 0 .. NodeRX
  <2>1. Holding(Memory) \in [Flows -> Nat]
    BY <1>1, HoldingType DEF RecvTypes
  <2>2. Sums(rx, Holding(Memory)) /\ Within(rx, <<FlowRX, PeerRX, NodeRX>>)
    <3>1. Memory.rx = rx
      BY DEF Memory
    <3> QED BY <1>1, <3>1 DEF Receives, MemoryOK, LimitsRX
  <2> QED BY <1>2, <2>1, <2>2, AmountsWithin
<1>5. ASSUME NEW e \in Flows
      PROVE  /\ flow[e].status \in Statuses /\ flow[e].home \in Homes \cup {0}
             /\ flow[e].attached \in {"no", "local", "remote"} /\ flow[e].chunk \in 1 .. Maximum
  <2>1. flow[e] \in FlowType
    BY <1>1 DEF FlowTypes
  <2> QED BY <2>1 DEF FlowType
<1>6. ASSUME NEW e \in Flows
      PROVE  /\ \A i \in DOMAIN queue[e] : queue[e][i].id \in 1 .. nextID[e] - 1
             /\ states[e] \in [0 .. WindowSize - 1 -> 0 .. 3]
  <2>1. \A i \in DOMAIN queue[e] : queue[e][i].id \in 1 .. nextID[e] - 1
    BY <1>1 DEF Sends, QueueOK
  <2>2. states[e] \in [Slots -> Marks]
    BY <1>1 DEF RecvTypes, MemoryType, Memory
  <2> QED BY <2>1, <2>2 DEF Slots, Marks
<1>7. manager \in {"open", "closing", "closed"} /\ sched.pc \in PCs
  BY <1>1 DEF FlowTypes, SendTypes, SchedType
<1> QED BY <1>3, <1>4, <1>5, <1>6, <1>7 DEF TypeOK, Statuses, PCs

\* The budgets are the sums of what is held.
LEMMA IInvBalanced ==
  ASSUME IInv
  PROVE  Balanced
<1>1. Sums(tx, Out) /\ Sums(rx, In)
  <2>1. Memory.rx = rx
    BY DEF Memory
  <2> QED BY <2>1, InIsHolding DEF IInv, Budget, Receives, MemoryOK
<1>2. \A h : {e \in Flows : flow[e].home = h} = Mates(h)
  BY DEF Mates
<1> QED BY <1>1, <1>2 DEF Balanced, Sums

\* A closed manager has no flow in its list, so none is live and none holds anything.
LEMMA IInvClosedClean ==
  ASSUME IInv
  PROVE  ClosedClean
<1>1. SUFFICES ASSUME manager = "closed"
               PROVE  /\ \A e \in Flows : ~Live(e)
                      /\ rx.node = 0 /\ tx.node = Total(sending, Flows)
  BY DEF ClosedClean
<1>2. ASSUME NEW e \in Flows PROVE ~Live(e)
  <2>1. closing = <<>>
    BY <1>1 DEF IInv, Closing
  <2>2. DOMAIN closing = {}
    BY <2>1
  <2> QED BY <1>1, <2>2 DEF IInv, Closing
<1>3. ASSUME NEW e \in Flows PROVE queue[e] = <<>> /\ completed[e] = {}
  BY <1>2 DEF IInv, Vacant
<1>4. tx.node = Total(sending, Flows)
  <2>1. ASSUME NEW e \in Flows PROVE Out[e] = sending[e]
    <3>1. Len(queue[e]) = 0 /\ sending[e] \in Nat
      BY <1>3 DEF IInv, SendTypes
    <3> QED BY <3>1 DEF Out
  <2>2. Total(Out, Flows) = Total(sending, Flows)
    BY <2>1, TotalSame
  <2> QED BY <2>2 DEF IInv, Budget, Sums
<1>5. rx.node = 0
  <2>1. assemblies = Memory.assemblies /\ rx = Memory.rx /\ Windowed(Memory) /\ Memory \in MemoryType
    BY DEF IInv, Receives, MemoryOK, Memory, RecvTypes
  <2>2. ASSUME NEW e \in Flows PROVE Held(Memory.assemblies, e) = {}
    <3>1. SUFFICES ASSUME NEW i \in DOMAIN Memory.assemblies, Memory.assemblies[i].flow = e
                   PROVE  FALSE
      BY DEF Held
    <3> QED BY <1>2, <2>1, <3>1 DEF Windowed
  <2>3. ASSUME NEW e \in Flows PROVE Holding(Memory)[e] = 0
    <3>1. Cardinality({}) = 0
      BY FS_EmptySet
    <3>2. Cardinality(Held(Memory.assemblies, e)) = 0 /\ Cardinality(completed[e]) = 0
      BY <1>3, <2>2, <3>1
    <3>3. Holding(Memory)[e] = Cardinality(Held(Memory.assemblies, e)) + Cardinality(completed[e])
      BY DEF Holding
    <3> QED BY <3>2, <3>3
  <2>4. Total(Holding(Memory), Flows) = 0
    BY <2>3, TotalZero
  <2> QED BY <2>1, <2>4 DEF IInv, Receives, MemoryOK, Sums
<1> QED BY <1>2, <1>4, <1>5

-----------------------------------------------------------------------------
(* The theorems.                                                           *)

\* The invariant holds of every behaviour of the manager: whatever senders, the
\* scheduler, receivers and closers of any number of flows do, and in any order.
THEOREM Invariance == Spec => []IInv
<1>1. Init => IInv
  BY InitIInv
<1>2. IInv /\ [Next]_vars => IInv'
  BY NextIInv
<1> QED BY <1>1, <1>2, PTL DEF Spec

\* Every variable keeps its type and no budget of a flow, a peer or the node is
\* ever exceeded or below zero: each section reserves only where there is room
\* (hasRoom) and gives back only what is reserved.
THEOREM TypeCorrect == Spec => []TypeOK
<1>1. IInv => TypeOK
  BY IInvType
<1> QED BY <1>1, Invariance, PTL

\* The usage counters are the messages that hold a reservation, at each of the
\* three levels: no order of Send, ReceiveFrame, Release, expiry, eviction, the
\* scheduler's removals and retirement leaks a reservation or returns one twice.
THEOREM BudgetsBalance == Spec => []Balanced
<1>1. IInv => Balanced
  BY IInvBalanced
<1> QED BY <1>1, Invariance, PTL

\* ReceiveFrame completes a message at most once, although chunks arrive twice and
\* in any order and the window of any size reuses its slots.
THEOREM CompletedOnce == Spec => []AtMostOnce
<1>1. IInv => AtMostOnce
  BY DEF IInv, Receives
<1> QED BY <1>1, Invariance, PTL

\* Once the closer of a flow has returned, no transmission holds sendMu and no
\* delivery holds deliveryMu for it.
THEOREM RetiredIsQuiet == Spec => []RetiredQuiet
<1>1. IInv => RetiredQuiet
  BY DEF IInv, Joined, RetiredQuiet
<1> QED BY <1>1, Invariance, PTL

\* The scheduler hands the chunks of a message to the transport in order, each
\* once and all of one size, whatever the transport answers in between.
THEOREM ChunksStayInOrder == Spec => []ChunksInOrder
<1>1. IInv => ChunksInOrder
  <2>1. SUFFICES ASSUME IInv, NEW e \in Flows, NEW id \in DOMAIN log[e]
                 PROVE  \A i \in DOMAIN log[e][id] :
                           log[e][id][i].index = i - 1 /\ log[e][id][i].stride = log[e][id][1].stride
    BY DEF ChunksInOrder
  <2> QED BY <2>1 DEF IInv, Sends, LogOK, InOrder
<1> QED BY <1>1, Invariance, PTL

\* After the manager's Close has returned there is no flow left, and of all
\* reservations only those of Sends that have yet to find the flow closed.
THEOREM ManagerClosesClean == Spec => []ClosedClean
<1>1. IInv => ClosedClean
  BY IInvClosedClean
<1> QED BY <1>1, Invariance, PTL

-----------------------------------------------------------------------------
(* A Close comes to its end.                                              *)

\* The statuses a flow of status s may have after a step.
Ahead(s) == CASE s = "new"     -> {"new", "open"}
              [] s = "open"    -> {"open", "closing"}
              [] s = "closing" -> {"closing", "joined"}
              [] s = "joined"  -> {"joined", "quiet"}
              [] s = "quiet"   -> {"quiet", "retired"}
              [] s = "retired" -> {"retired"}

\* A flow is opened once, closed once and joined, step after step.
LEMMA StatusMoves ==
  ASSUME IInv, [Next]_vars, NEW e \in Flows
  PROVE  flow'[e].status \in Ahead(flow[e].status)
<1>1. flow \in [Flows -> FlowType] /\ flow[e].status \in Statuses
  BY DEF IInv, FlowTypes, FlowType
<1>2. CASE flow' = flow
  BY <1>1, <1>2 DEF Ahead, Statuses
<1>3. ASSUME NEW d \in Flows, NEW s \in Ahead(flow[d].status), flow' = [flow EXCEPT ![d].status = s]
      PROVE  flow'[e].status \in Ahead(flow[e].status)
  BY <1>1, <1>3 DEF Ahead, Statuses, FlowType
<1>4. ASSUME NEW d \in Flows, flow' = [flow EXCEPT ![d].status = "closing"], flow[d].status = "open"
      PROVE  flow'[e].status \in Ahead(flow[e].status)
  BY <1>4, <1>3 DEF Ahead
<1>5. CASE CloseManager \/ CloseReturns \/ runStops
  BY <1>2, <1>5 DEF CloseManager, CloseReturns, runStops, flowVars
<1>6. CASE CloseNext
  <2>1. closing # <<>> /\ closing \in Seq(Flows)
    BY <1>6 DEF CloseNext, IInv, FlowTypes
  <2>2. Head(closing) \in Flows
    BY <2>1
  <2> QED BY <1>2, <1>4, <1>6, <2>2 DEF CloseNext, Close
<1>7. CASE step
  <2>1. CASE stepLock \/ stepCheck \/ \E err \in {"none", "full", "large", "failed"} : stepSend(err)
    BY <1>2, <2>1 DEF stepLock, stepCheck, stepSend, flowVars
  <2>2. CASE stepClose
    <3>1. sched.flow \in Flows
      BY <2>2 DEF stepClose, IInv, SendTypes, Running
    <3> QED BY <1>2, <1>4, <2>2, <3>1 DEF stepClose, Close
  <2>3. ASSUME NEW maximum \in 1 .. Maximum, stepSettle(maximum)
        PROVE  flow'[e].status \in Ahead(flow[e].status)
    <3>1. PICK size : flow' = flow \/ flow' = [flow EXCEPT ![sched.flow].chunk = size]
      BY <2>3 DEF stepSettle
    <3>2. flow'[e].status = flow[e].status
      BY <1>1, <3>1 DEF FlowType
    <3> QED BY <1>1, <3>2 DEF Ahead, Statuses
  <2> QED BY <1>7, <2>1, <2>2, <2>3 DEF step
<1>8. ASSUME NEW d \in Flows, FlowStep(d)
      PROVE  flow'[e].status \in Ahead(flow[e].status)
  <2>1. CASE \E kind \in {"local", "remote"} : attach(d, kind)
    <3>1. flow'[e].status = flow[e].status
      BY <1>1, <2>1 DEF attach, FlowType
    <3> QED BY <1>1, <3>1 DEF Ahead, Statuses
  <2>2. CASE SendReserve(d) \/ SendPublish(d) \/ SendFail(d) \/ RetryDue(d)
    BY <1>2, <2>2 DEF SendReserve, SendPublish, SendFail, RetryDue, flowVars
  <2>3. CASE \E qcut \in 0 .. nextID[d] - 1 :
               \/ pickLocked(d, qcut)
               \/ \E cut \in 0 .. Len(assemblies) :
                     \/ expireLocked(d, cut, qcut)
                     \/ \E f \in Frames(d), clash \in BOOLEAN : ReceiveFrame(d, f, cut, qcut, clash)
    <3>1. PICK qcut \in 0 .. nextID[d] - 1 :
               \/ pickLocked(d, qcut)
               \/ \E cut \in 0 .. Len(assemblies) :
                     \/ expireLocked(d, cut, qcut)
                     \/ \E f \in Frames(d), clash \in BOOLEAN : ReceiveFrame(d, f, cut, qcut, clash)
      BY <2>3
    <3>2. CASE pickLocked(d, qcut)
      BY <1>2, <3>2 DEF pickLocked, flowVars
    <3>3. ASSUME NEW cut \in 0 .. Len(assemblies), expireLocked(d, cut, qcut)
          PROVE  flow' = flow
      BY <3>3 DEF expireLocked, flowVars
    <3>4. ASSUME NEW cut \in 0 .. Len(assemblies), NEW f \in Frames(d), NEW clash \in BOOLEAN,
                 ReceiveFrame(d, f, cut, qcut, clash)
          PROVE  flow' = flow
      BY <3>4 DEF ReceiveFrame, flowVars
    <3> QED BY <1>2, <3>1, <3>2, <3>3, <3>4
  <2>4. CASE RetainReceived(d) \/ DeliverBegin(d) \/ DeliverEnd(d) \/ \E id \in held[d] : Release(d, id)
    BY <1>2, <2>4 DEF RetainReceived, DeliverBegin, DeliverEnd, Release, flowVars
  <2>5. CASE Open(d)
    <3>1. PICK h : flow' = [flow EXCEPT ![d] = [@ EXCEPT !.status = "open", !.home = h]]
      BY <2>5 DEF Open
    <3>2. flow[d].status = "new"
      BY <2>5 DEF Open
    <3> QED BY <1>1, <3>1, <3>2 DEF Ahead, Statuses, FlowType
  <2>6. CASE CloseFlow(d)
    BY <1>4, <2>6 DEF CloseFlow, Close
  <2>7. CASE JoinSend(d) \/ JoinDelivery(d) \/ Retire(d)
    <3>1. \/ flow[d].status = "closing" /\ flow' = [flow EXCEPT ![d].status = "joined"]
          \/ flow[d].status = "joined" /\ flow' = [flow EXCEPT ![d].status = "quiet"]
          \/ flow[d].status = "quiet" /\ flow' = [flow EXCEPT ![d].status = "retired"]
      BY <2>7 DEF JoinSend, JoinDelivery, Retire
    <3> QED BY <1>3, <3>1 DEF Ahead
  <2> QED BY <1>8, <2>1, <2>2, <2>3, <2>4, <2>5, <2>6, <2>7 DEF FlowStep
<1>9. CASE UNCHANGED vars
  BY <1>2, <1>9 DEF vars
<1> QED BY <1>5, <1>6, <1>7, <1>8, <1>9 DEF Next

\* The scheduler takes sendMu of open flows only, so what a closer finds free stays free.
LEMMA SendStaysFree ==
  ASSUME IInv, [Next]_vars, NEW e \in Flows, flow[e].status = "closing", ~SendMuHeld(e)
  PROVE  ~SendMuHeld(e)'
<1>1. CASE sched' = sched
  BY <1>1 DEF SendMuHeld
<1>2. CASE runStops
  BY <1>2 DEF runStops, SendMuHeld, IInv, SendTypes, SchedType
<1>3. CASE step
  <2>1. sched \in SchedType
    BY DEF IInv, SendTypes
  <2>2. CASE stepLock
    <3>1. CASE sched' = Idle
      BY <3>1 DEF Idle, SendMuHeld
    <3>2. CASE ~Closed(sched.flow) /\ sched'.flow = sched.flow
      BY <3>2 DEF Closed, SendMuHeld
    <3> QED BY <2>1, <2>2, <3>1, <3>2 DEF stepLock, SchedType
  <2>3. CASE stepCheck
    BY <2>1, <2>3 DEF stepCheck, SendMuHeld, SchedType
  <2>4. CASE stepClose
    BY <1>1, <2>1, <2>4 DEF stepClose, Idle, SendMuHeld, SchedType
  <2>5. CASE \E err \in {"none", "full", "large", "failed"} : stepSend(err)
    BY <2>1, <2>5 DEF stepSend, SendMuHeld, SchedType
  <2>6. ASSUME NEW maximum \in 1 .. Maximum, stepSettle(maximum)
        PROVE  ~SendMuHeld(e)'
    <3>1. sched' = Idle \/ sched' = [sched EXCEPT !.pc = "closing"]
      BY <2>6 DEF stepSettle
    <3> QED BY <2>1, <3>1 DEF Idle, SendMuHeld, SchedType
  <2> QED BY <1>3, <2>2, <2>3, <2>4, <2>5, <2>6 DEF step
<1>4. CASE CloseManager \/ CloseNext \/ CloseReturns
  BY <1>1, <1>4 DEF CloseManager, CloseNext, CloseReturns, sendVars
<1>5. ASSUME NEW d \in Flows, FlowStep(d)
      PROVE  ~SendMuHeld(e)'
  <2>1. CASE Open(d) \/ CloseFlow(d) \/ JoinSend(d) \/ JoinDelivery(d) \/ Retire(d)
             \/ \E kind \in {"local", "remote"} : attach(d, kind)
    BY <1>1, <2>1 DEF Open, CloseFlow, JoinSend, JoinDelivery, Retire, attach, sendVars
  <2>2. CASE SendReserve(d) \/ SendPublish(d) \/ SendFail(d) \/ RetryDue(d)
    BY <1>1, <2>2 DEF SendReserve, SendPublish, SendFail, RetryDue
  <2>3. ASSUME NEW qcut \in 0 .. nextID[d] - 1, pickLocked(d, qcut)
        PROVE  ~SendMuHeld(e)'
    <3>1. sched'.pc = "picked"
      BY <2>3 DEF pickLocked, IInv, SendTypes, SchedType
    <3> QED BY <3>1 DEF SendMuHeld
  <2>4. ASSUME NEW qcut \in 0 .. nextID[d] - 1, NEW cut \in 0 .. Len(assemblies),
               expireLocked(d, cut, qcut) \/ \E f \in Frames(d), clash \in BOOLEAN : ReceiveFrame(d, f, cut, qcut, clash)
        PROVE  ~SendMuHeld(e)'
    BY <1>1, <2>4 DEF expireLocked, ReceiveFrame
  <2>5. CASE RetainReceived(d) \/ DeliverBegin(d) \/ DeliverEnd(d) \/ \E id \in held[d] : Release(d, id)
    BY <1>1, <2>5 DEF RetainReceived, DeliverBegin, DeliverEnd, Release, sendVars
  <2> QED BY <1>5, <2>1, <2>2, <2>3, <2>4, <2>5 DEF FlowStep
<1>6. CASE UNCHANGED vars
  BY <1>1, <1>6 DEF vars
<1> QED BY <1>2, <1>3, <1>4, <1>5, <1>6 DEF Next

\* A delivery begins on an open flow only.
LEMMA DeliveryStaysFree ==
  ASSUME IInv, [Next]_vars, NEW e \in Flows, flow[e].status = "joined", ~delivering[e]
  PROVE  ~delivering'[e]
<1>1. CASE delivering' = delivering
  BY <1>1
<1>2. CASE CloseManager \/ CloseNext \/ CloseReturns \/ runStops
  BY <1>1, <1>2 DEF CloseManager, CloseNext, CloseReturns, runStops, recvVars
<1>3. CASE step
  BY <1>1, <1>3 DEF step, stepLock, stepCheck, stepClose, stepSend, stepSettle, recvVars
<1>4. ASSUME NEW d \in Flows, FlowStep(d)
      PROVE  ~delivering'[e]
  <2>1. CASE Open(d) \/ CloseFlow(d) \/ JoinSend(d) \/ JoinDelivery(d) \/ Retire(d)
             \/ \E kind \in {"local", "remote"} : attach(d, kind)
    BY <1>1, <2>1 DEF Open, CloseFlow, JoinSend, JoinDelivery, Retire, attach, recvVars
  <2>2. CASE SendReserve(d) \/ SendPublish(d) \/ SendFail(d) \/ RetryDue(d)
    BY <1>1, <2>2 DEF SendReserve, SendPublish, SendFail, RetryDue, recvVars
  <2>3. ASSUME NEW qcut \in 0 .. nextID[d] - 1,
               \/ pickLocked(d, qcut)
               \/ \E cut \in 0 .. Len(assemblies) :
                     \/ expireLocked(d, cut, qcut)
                     \/ \E f \in Frames(d), clash \in BOOLEAN : ReceiveFrame(d, f, cut, qcut, clash)
        PROVE  ~delivering'[e]
    <3>1. CASE pickLocked(d, qcut)
      BY <1>1, <3>1 DEF pickLocked, recvVars
    <3>2. ASSUME NEW cut \in 0 .. Len(assemblies), expireLocked(d, cut, qcut)
          PROVE  ~delivering'[e]
      BY <1>1, <3>2 DEF expireLocked
    <3>3. ASSUME NEW cut \in 0 .. Len(assemblies), NEW f \in Frames(d), NEW clash \in BOOLEAN,
                 ReceiveFrame(d, f, cut, qcut, clash)
          PROVE  ~delivering'[e]
      BY <1>1, <3>3 DEF ReceiveFrame
    <3> QED BY <2>3, <3>1, <3>2, <3>3
  <2>4. CASE RetainReceived(d) \/ \E id \in held[d] : Release(d, id)
    BY <1>1, <2>4 DEF RetainReceived, Release
  <2>5. CASE DeliverBegin(d) \/ DeliverEnd(d)
    <3>1. delivering \in [Flows -> BOOLEAN]
      BY DEF IInv, RecvTypes
    <3> QED BY <2>5, <3>1 DEF DeliverBegin, DeliverEnd, Closed
  <2> QED BY <1>4, <2>1, <2>2, <2>3, <2>4, <2>5 DEF FlowStep
<1>5. CASE UNCHANGED vars
  BY <1>1, <1>5 DEF vars
<1> QED BY <1>2, <1>3, <1>4, <1>5 DEF Next

\* The Close of one flow.
LEMMA CloseOfFlow ==
  ASSUME NEW e \in Flows
  PROVE  []IInv /\ [][Next]_vars /\ Fairness => []<>(flow[e].status \notin {"closing", "joined", "quiet"})
<1> DEFINE At1 == flow[e].status = "closing"
           At2 == flow[e].status = "joined"
           At3 == flow[e].status = "quiet"
           At4 == flow[e].status = "retired"
<1>1. Fairness => []<>~Going /\ []<>~delivering[e] /\ []<>~Joining(e)
  BY DEF Fairness
<1>2. IInv /\ [Next]_vars => /\ At1 => At1' \/ At2'
                             /\ At2 => At2' \/ At3'
                             /\ At3 => At3' \/ At4'
                             /\ At4 => At4'
  BY StatusMoves DEF Ahead
<1>3. IInv /\ [Next]_vars /\ At1 /\ ~SendMuHeld(e) => ~SendMuHeld(e)'
  BY SendStaysFree
<1>4. IInv /\ [Next]_vars /\ At2 /\ ~delivering[e] => (~delivering[e])'
  BY DeliveryStaysFree
<1>5. SendMuHeld(e) => Going
  BY DEF SendMuHeld, Going
<1>6. /\ At1 /\ ~SendMuHeld(e) => Joining(e)
      /\ At2 /\ ~delivering[e] => Joining(e)
      /\ At3 => Joining(e)
  BY DEF Joining
<1>7. At4 => flow[e].status \notin {"closing", "joined", "quiet"}
  OBVIOUS
<1>8. At1 \/ At2 \/ At3 \/ flow[e].status \notin {"closing", "joined", "quiet"}
  OBVIOUS
<1> HIDE DEF At1, At2, At3, At4
<1> QED BY <1>1, <1>2, <1>3, <1>4, <1>5, <1>6, <1>7, <1>8, PTL

\* What a step does to the scheduler: it stays stopped, and it works only on a flow
\* that was open when it picked it.
Picks == \E e \in Flows : sched'.flow = e /\ flow[e].status = "open"

LEMMA SchedMoves ==
  ASSUME IInv, [Next]_vars
  PROVE  /\ sched.pc = "stopped" => sched'.pc = "stopped"
         /\ sched.pc = "idle" => sched'.pc \in {"idle", "stopped"} \/ Picks
         /\ Running' => (Running /\ sched'.flow = sched.flow) \/ Picks
<1> DEFINE Moves == /\ sched.pc = "stopped" => sched'.pc = "stopped"
                    /\ sched.pc = "idle" => sched'.pc \in {"idle", "stopped"} \/ Picks
                    /\ Running' => (Running /\ sched'.flow = sched.flow) \/ Picks
<1>1. CASE sched' = sched
  BY <1>1 DEF Running
<1>2. sched \in SchedType
  BY DEF IInv, SendTypes
<1>3. CASE sched.pc \notin {"idle", "stopped"} /\ sched'.flow = sched.flow
  BY <1>3 DEF Running
<1>4. CASE sched.pc \notin {"idle", "stopped"} /\ sched' = Idle
  BY <1>4 DEF Running, Idle
<1>5. CASE runStops
  BY <1>2, <1>5 DEF runStops, Running, SchedType
<1>6. CASE step
  <2>1. CASE stepLock \/ stepCheck \/ stepClose
    BY <1>1, <1>2, <1>3, <1>4, <2>1 DEF stepLock, stepCheck, stepClose, SchedType
  <2>2. CASE \E err \in {"none", "full", "large", "failed"} : stepSend(err)
    BY <1>2, <1>3, <2>2 DEF stepSend, SchedType
  <2>3. ASSUME NEW maximum \in 1 .. Maximum, stepSettle(maximum)
        PROVE  Moves
    <3>1. sched.pc = "settle" /\ (sched' = Idle \/ sched' = [sched EXCEPT !.pc = "closing"])
      BY <2>3 DEF stepSettle
    <3> QED BY <1>2, <1>3, <1>4, <3>1 DEF SchedType
  <2> QED BY <1>6, <2>1, <2>2, <2>3 DEF step
<1>7. CASE CloseManager \/ CloseNext \/ CloseReturns
  BY <1>1, <1>7 DEF CloseManager, CloseNext, CloseReturns, sendVars
<1>8. ASSUME NEW d \in Flows, FlowStep(d)
      PROVE  Moves
  <2>1. CASE Open(d) \/ CloseFlow(d) \/ JoinSend(d) \/ JoinDelivery(d) \/ Retire(d)
             \/ \E kind \in {"local", "remote"} : attach(d, kind)
    BY <1>1, <2>1 DEF Open, CloseFlow, JoinSend, JoinDelivery, Retire, attach, sendVars
  <2>2. CASE SendReserve(d) \/ SendPublish(d) \/ SendFail(d) \/ RetryDue(d)
    BY <1>1, <2>2 DEF SendReserve, SendPublish, SendFail, RetryDue
  <2>3. ASSUME NEW qcut \in 0 .. nextID[d] - 1, pickLocked(d, qcut)
        PROVE  Moves
    <3>1. sched.pc = "idle" /\ sched'.pc = "picked" /\ sched'.flow = d /\ flow[d].status = "open"
      BY <1>2, <2>3 DEF pickLocked, SchedType
    <3> QED BY <3>1 DEF Picks
  <2>4. ASSUME NEW qcut \in 0 .. nextID[d] - 1, NEW cut \in 0 .. Len(assemblies),
               expireLocked(d, cut, qcut) \/ \E f \in Frames(d), clash \in BOOLEAN : ReceiveFrame(d, f, cut, qcut, clash)
        PROVE  Moves
    <3>1. sched' = sched
      BY <2>4 DEF expireLocked, ReceiveFrame
    <3> QED BY <1>1, <3>1
  <2>5. CASE RetainReceived(d) \/ DeliverBegin(d) \/ DeliverEnd(d) \/ \E id \in held[d] : Release(d, id)
    BY <1>1, <2>5 DEF RetainReceived, DeliverBegin, DeliverEnd, Release, sendVars
  <2> QED BY <1>8, <2>1, <2>2, <2>3, <2>4, <2>5 DEF FlowStep
<1>9. CASE UNCHANGED vars
  BY <1>1, <1>9 DEF vars
<1> QED BY <1>5, <1>6, <1>7, <1>8, <1>9 DEF Next

\* What a step does to the manager's list.
LEMMA ListMoves ==
  ASSUME IInv, [Next]_vars
  PROVE  closing' = closing \/ (closing # <<>> /\ closing' = Tail(closing)) \/ CloseManager
<1>1. CASE CloseNext \/ CloseReturns \/ runStops
  BY <1>1 DEF CloseNext, CloseReturns, runStops, flowVars
<1>2. CASE step
  BY <1>2 DEF step, stepLock, stepCheck, stepClose, stepSend, stepSettle, flowVars
<1>3. ASSUME NEW d \in Flows, FlowStep(d)
      PROVE  closing' = closing
  <2>1. CASE Open(d) \/ CloseFlow(d) \/ JoinSend(d) \/ JoinDelivery(d) \/ Retire(d)
             \/ \E kind \in {"local", "remote"} : attach(d, kind)
    BY <2>1 DEF Open, CloseFlow, JoinSend, JoinDelivery, Retire, attach
  <2>2. CASE SendReserve(d) \/ SendPublish(d) \/ SendFail(d) \/ RetryDue(d)
    BY <2>2 DEF SendReserve, SendPublish, SendFail, RetryDue, flowVars
  <2>3. ASSUME NEW qcut \in 0 .. nextID[d] - 1, pickLocked(d, qcut)
        PROVE  closing' = closing
    BY <2>3 DEF pickLocked, flowVars
  <2>4. ASSUME NEW qcut \in 0 .. nextID[d] - 1, NEW cut \in 0 .. Len(assemblies),
               expireLocked(d, cut, qcut) \/ \E f \in Frames(d), clash \in BOOLEAN : ReceiveFrame(d, f, cut, qcut, clash)
        PROVE  closing' = closing
    BY <2>4 DEF expireLocked, ReceiveFrame, flowVars
  <2>5. CASE RetainReceived(d) \/ DeliverBegin(d) \/ DeliverEnd(d) \/ \E id \in held[d] : Release(d, id)
    BY <2>5 DEF RetainReceived, DeliverBegin, DeliverEnd, Release, flowVars
  <2> QED BY <1>3, <2>1, <2>2, <2>3, <2>4, <2>5 DEF FlowStep
<1>4. CASE UNCHANGED vars
  BY <1>4 DEF vars
<1> QED BY <1>1, <1>2, <1>3, <1>4 DEF Next

\* Nobody waits for a flow that was never opened.
Opened ==
    /\ \A i \in DOMAIN closing : flow[closing[i]].status # "new"
    /\ Running => flow[sched.flow].status # "new"

LEMMA OpenedKept ==
  ASSUME IInv, [Next]_vars, Opened
  PROVE  Opened'
<1>1. ASSUME NEW e \in Flows, flow[e].status # "new" PROVE flow'[e].status # "new"
  <2>1. flow[e].status \in Statuses
    BY DEF IInv, FlowTypes, FlowType
  <2> QED BY <1>1, <2>1, StatusMoves DEF Ahead, Statuses
<1>2. closing \in Seq(Flows)
  BY DEF IInv, FlowTypes
<1>3. ASSUME NEW i \in DOMAIN closing' PROVE flow'[closing'[i]].status # "new"
  <2>1. CASE closing' = closing
    BY <1>1, <1>2, <2>1 DEF Opened
  <2>2. CASE closing # <<>> /\ closing' = Tail(closing)
    <3>1. i + 1 \in DOMAIN closing /\ closing'[i] = closing[i + 1] /\ closing[i + 1] \in Flows
      BY <1>2, <2>2
    <3> QED BY <1>1, <3>1 DEF Opened
  <2>3. CASE CloseManager
    <3> DEFINE S == {e \in Flows : Live(e)}
    <3>1. closing' \in SetToSeqs(S) /\ flow' = flow /\ IsFiniteSet(S)
      BY <2>3, UDPAssumption, FS_Subset DEF CloseManager
    <3>2. closing' \in Seq(S)
      <4> HIDE DEF S
      <4> QED BY <3>1, ListsAll
    <3>3. closing'[i] \in S
      BY <3>2
    <3> QED BY <3>1, <3>3 DEF Live
  <2> QED BY <2>1, <2>2, <2>3, ListMoves
<1>4. Running' => flow'[sched'.flow].status # "new"
  <2>1. SUFFICES ASSUME Running' PROVE flow'[sched'.flow].status # "new"
    OBVIOUS
  <2>2. CASE Running /\ sched'.flow = sched.flow
    BY <1>1, <2>2 DEF Opened, IInv, SendTypes
  <2>3. CASE Picks
    BY <1>1, <2>3 DEF Picks
  <2> QED BY <2>1, <2>2, <2>3, SchedMoves
<1> QED BY <1>3, <1>4 DEF Opened

LEMMA AlwaysOpened == Spec => []Opened
<1>1. Init => Opened
  BY DEF Init, Opened, Running, Idle
<1>2. IInv /\ [Next]_vars /\ Opened => Opened'
  BY OpenedKept
<1> QED BY <1>1, <1>2, Invariance, PTL DEF Spec

\* The manager's Close does not stay at a flow: it closes an open one, and goes on
\* once the flow is retired.
LEMMA CloseLeavesFlow ==
  ASSUME NEW c \in Seq(Flows), c # <<>>, NEW e \in Flows, e = Head(c)
  PROVE  []IInv /\ []Opened /\ [][Next]_vars /\ Fairness => []<>~(manager = "closing" /\ closing = c)
<1> DEFINE Here == manager = "closing" /\ closing = c
           Aopen == flow[e].status = "open"
           Aclosing == flow[e].status \in {"closing", "joined", "quiet"}
           Aretired == flow[e].status = "retired"
<1>1. Fairness => []<>~ClosingNext
  BY DEF Fairness
<1>2. []IInv /\ [][Next]_vars /\ Fairness => []<>(flow[e].status \notin {"closing", "joined", "quiet"})
  BY CloseOfFlow
<1>3. flow[e].status \notin {"closing", "joined", "quiet"} => ~Aclosing
  OBVIOUS
<1>4. IInv /\ Opened /\ Here => Aopen \/ Aclosing \/ Aretired
  <2>1. SUFFICES ASSUME IInv, Opened, Here PROVE Aopen \/ Aclosing \/ Aretired
    OBVIOUS
  <2>2. flow[e].status \in Statuses
    BY <2>1 DEF IInv, FlowTypes, FlowType
  <2>3. 1 \in DOMAIN closing /\ closing[1] = e
    BY <2>1
  <2>4. flow[e].status # "new"
    BY <2>1, <2>3 DEF Opened
  <2> QED BY <2>2, <2>4 DEF Statuses
<1>5. IInv /\ [Next]_vars => /\ Aretired => Aretired'
                             /\ Aclosing => (Aclosing \/ Aretired)'
  BY StatusMoves DEF Ahead
<1>6. Here /\ (Aopen \/ Aretired) => ClosingNext
  BY DEF ClosingNext
<1> HIDE DEF Here, Aopen, Aclosing, Aretired
<1>7. []IInv /\ []Opened /\ [][Next]_vars /\ Fairness => []<>~Here
  BY <1>1, <1>2, <1>3, <1>4, <1>5, <1>6, PTL
<1> QED BY <1>7 DEF Here

\* Nor does it stay when every flow is closed: the scheduler ends what it does, which
\* waits for no flow any more, and stops.
LEMMA CloseLeavesScheduler ==
  ASSUME NEW c, c = <<>>
  PROVE  []IInv /\ []Opened /\ [][Next]_vars /\ Fairness => []<>~(manager = "closing" /\ closing = c)
<1> DEFINE Here == manager = "closing" /\ closing = c
           Sidle == sched.pc = "idle"
           Sstopped == sched.pc = "stopped"
<1>1. Fairness => []<>~Going /\ []<>~Stopping /\ []<>~ClosingNext
  BY DEF Fairness
<1>2. IInv /\ Here => \A e \in Flows : ~Live(e)
  <2>1. SUFFICES ASSUME IInv, Here, NEW e \in Flows, Live(e) PROVE FALSE
    OBVIOUS
  <2>2. DOMAIN closing = {}
    BY <2>1
  <2> QED BY <2>1, <2>2 DEF IInv, Closing
<1>3. IInv /\ Opened /\ Here => Sidle \/ Sstopped \/ Going
  <2>1. SUFFICES ASSUME IInv, Opened, Here, ~Sidle, ~Sstopped PROVE Going
    OBVIOUS
  <2>2. sched.flow \in Flows /\ sched.pc \in PCs /\ flow[sched.flow].status # "new"
    BY <2>1 DEF IInv, SendTypes, SchedType, Running, Opened
  <2>3. flow[sched.flow].status = "retired"
    BY <1>2, <2>1, <2>2 DEF Live
  <2> QED BY <2>1, <2>2, <2>3 DEF Going, PCs
<1>4. IInv /\ [Next]_vars /\ Here /\ Sidle => (Sidle \/ Sstopped)'
  BY <1>2, SchedMoves DEF Picks, Live
<1>5. IInv /\ [Next]_vars /\ Sstopped => Sstopped'
  BY SchedMoves
<1>6. Here /\ Sidle => Stopping
  BY DEF Stopping
<1>7. Here /\ Sstopped => ClosingNext
  BY DEF ClosingNext
<1> HIDE DEF Here, Sidle, Sstopped
<1>8. []IInv /\ []Opened /\ [][Next]_vars /\ Fairness => []<>~Here
  BY <1>1, <1>3, <1>4, <1>5, <1>6, <1>7, PTL
<1> QED BY <1>8 DEF Here

\* Every Close of a flow comes to its end, for any number of flows, whoever began it
\* and whatever the scheduler, deliveries and other closers do meanwhile: the closer
\* waits for sendMu and deliveryMu, and neither is taken again once it found it free.
THEOREM FlowsCloseReturn == FairSpec => FlowCloseReturns
<1>1. FairSpec => []IInv /\ [][Next]_vars /\ Fairness
  BY Invariance, PTL DEF FairSpec, Spec
<1>2. ASSUME NEW e \in Flows
      PROVE  []IInv /\ [][Next]_vars /\ Fairness => []<>(flow[e].status \notin {"closing", "joined", "quiet"})
  BY CloseOfFlow
<1> QED BY <1>1, <1>2 DEF FlowCloseReturns

\* The manager's Close never waits at one point of its list for ever, for any number
\* of flows: neither for the flow it has come to, which somebody else may be closing,
\* nor, at the end of the list, for the scheduler, which may be waiting for a flow.
THEOREM ManagerCloseAdvances ==
  FairSpec => \A c \in Seq(Flows) : []<>~(manager = "closing" /\ closing = c)
<1>1. FairSpec => []IInv /\ []Opened /\ [][Next]_vars /\ Fairness
  BY Invariance, AlwaysOpened, PTL DEF FairSpec, Spec
<1>2. ASSUME NEW c \in Seq(Flows)
      PROVE  []IInv /\ []Opened /\ [][Next]_vars /\ Fairness => []<>~(manager = "closing" /\ closing = c)
  <2>1. CASE c = <<>>
    BY <2>1, CloseLeavesScheduler
  <2>2. CASE c # <<>>
    <3>1. PICK e \in Flows : e = Head(c)
      BY <2>2
    <3> QED BY <2>2, <3>1, CloseLeavesFlow
  <2> QED BY <2>1, <2>2
<1> QED BY <1>1, <1>2
=============================================================================
