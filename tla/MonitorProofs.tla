---------------------------- MODULE MonitorProofs ----------------------------
(***************************************************************************)
(* Facts about the restart monitor that hold in whatever environment it    *)
(* runs: what restartDelay computes, that the backoff level stops where    *)
(* the delay is the cap, and that every operation keeps the monitor's      *)
(* state in its type.                                                      *)
(***************************************************************************)
EXTENDS ContainerMonitor, WellFoundedInduction, TLAPS

\* Induction over the naturals, for a set.
LEMMA Induction ==
  ASSUME NEW S, 0 \in S, \A n \in Nat : n \in S => n + 1 \in S
  PROVE  Nat \subseteq S
<1> SUFFICES ASSUME ~(Nat \subseteq S) PROVE FALSE
  OBVIOUS
<1> DEFINE T == Nat \ S
<1>1. T \subseteq Nat /\ T # {}
  OBVIOUS
<1>2. PICK x \in T : \A y \in T : ~(<<y, x>> \in OpToRel(<, Nat))
  BY <1>1, NatLessThanWellFounded, WFMin
<1>3. x \in Nat /\ x # 0 /\ x - 1 \in Nat
  OBVIOUS
<1>4. CASE x - 1 \in S
  <2>1. (x - 1) + 1 = x
    BY <1>3
  <2> QED BY <1>3, <1>4, <2>1
<1>5. CASE x - 1 \notin S
  <2>1. <<x - 1, x>> \in OpToRel(<, Nat)
    BY <1>3 DEF OpToRel
  <2> QED BY <1>2, <1>3, <1>5, <2>1
<1> QED BY <1>4, <1>5

\* A function on the naturals may be defined by its first value and a step.
StepOn(S, b, D) == b \in S /\ D \in [Nat \X S -> S]

Follows(f, S, b, D) ==
  f \in [Nat -> S] /\ f[0] = b /\ \A n \in Nat : f[n + 1] = D[<<n, f[n]>>]

LEMMA Recursion ==
  ASSUME NEW S, NEW b, NEW D, StepOn(S, b, D)
  PROVE  \E f : Follows(f, S, b, D)
<1> USE DEF StepOn
<1> DEFINE Start(n, h) == /\ h \in [0 .. n -> S] /\ h[0] = b
                          /\ \A i \in 0 .. n - 1 : h[i + 1] = D[<<i, h[i]>>]
           Defined == {n \in Nat : \E h : Start(n, h)}
           h(n) == CHOOSE g : Start(n, g)
           f == [n \in Nat |-> h(n)[n]]
<1>1. Nat \subseteq Defined
  <2>1. 0 \in Defined
    <3>1. Start(0, [i \in 0 .. 0 |-> b])
      OBVIOUS
    <3> QED BY <3>1
  <2>2. ASSUME NEW n \in Nat, n \in Defined PROVE n + 1 \in Defined
    <3>1. PICK g : Start(n, g)
      BY <2>2
    <3> DEFINE k == [i \in 0 .. n + 1 |-> IF i = n + 1 THEN D[<<n, g[n]>>] ELSE g[i]]
    <3>2. k \in [0 .. n + 1 -> S]
      BY <3>1
    <3>3. k[0] = b
      BY <3>1
    <3>4. ASSUME NEW i \in 0 .. (n + 1) - 1 PROVE k[i + 1] = D[<<i, k[i]>>]
      <4>1. i \in Nat /\ i <= n /\ i # n + 1 /\ i \in 0 .. n + 1 /\ i + 1 \in 0 .. n + 1
        OBVIOUS
      <4>2. k[i] = g[i]
        BY <4>1
      <4>3. CASE i = n
        BY <4>1, <4>2, <4>3
      <4>4. CASE i # n
        <5>1. i \in 0 .. n - 1 /\ i + 1 # n + 1
          BY <4>1, <4>4
        <5>2. k[i + 1] = g[i + 1]
          BY <4>1, <5>1
        <5> QED BY <3>1, <4>2, <5>1, <5>2
      <4> QED BY <4>3, <4>4
    <3>5. Start(n + 1, k)
      BY <3>2, <3>3, <3>4
    <3> HIDE DEF Start, k
    <3>6. n + 1 \in Nat /\ \E g0 : Start(n + 1, g0)
      BY <3>5
    <3> QED BY <3>6
  <2> HIDE DEF Defined
  <2> QED BY <2>1, <2>2, Induction
<1>2. ASSUME NEW n \in Nat PROVE Start(n, h(n))
  BY <1>1
<1> HIDE DEF h
<1>3. ASSUME NEW n \in Nat PROVE h(n + 1)[n] = h(n)[n]
  <2> DEFINE Same == {i \in Nat : i <= n => h(n + 1)[i] = h(n)[i]}
  <2>1. 0 \in Same
    BY <1>2
  <2>2. ASSUME NEW i \in Nat, i \in Same PROVE i + 1 \in Same
    <3> SUFFICES ASSUME i + 1 <= n PROVE h(n + 1)[i + 1] = h(n)[i + 1]
      OBVIOUS
    <3>1. i \in 0 .. n - 1 /\ i \in 0 .. (n + 1) - 1 /\ i <= n
      OBVIOUS
    <3>2. h(n + 1)[i + 1] = D[<<i, h(n + 1)[i]>>]
      BY <1>2, <3>1
    <3>3. h(n)[i + 1] = D[<<i, h(n)[i]>>]
      BY <1>2, <3>1
    <3> QED BY <2>2, <3>1, <3>2, <3>3
  <2>3. Nat \subseteq Same
    <3> HIDE DEF Same
    <3> QED BY <2>1, <2>2, Induction
  <2> QED BY <2>3
<1>4. f \in [Nat -> S] /\ f[0] = b
  BY <1>2
<1>5. ASSUME NEW n \in Nat PROVE f[n + 1] = D[<<n, f[n]>>]
  <2>1. h(n + 1)[n + 1] = D[<<n, h(n + 1)[n]>>]
    BY <1>2
  <2> QED BY <2>1, <1>3
<1> HIDE DEF f
<1> QED BY <1>4, <1>5 DEF Follows

\* What the loop of restartDelay computes.
LEMMA DoubledDef ==
  /\ Doubled \in [Nat -> 1 .. Cap]
  /\ Doubled[0] = Base
  /\ \A n \in Nat : Doubled[n + 1] = Least(2 * Doubled[n], Cap)
<1> DEFINE D == [p \in Nat \X (1 .. Cap) |-> Least(2 * p[2], Cap)]
           Body(g) == [n \in Nat |-> IF n = 0 THEN Base ELSE Least(2 * g[n - 1], Cap)]
<1>1. Base \in 1 .. Cap /\ Cap \in Nat
  BY DelayAssumption
<1>2. D \in [Nat \X (1 .. Cap) -> 1 .. Cap]
  BY <1>1 DEF Least
<1>3. PICK f : Follows(f, 1 .. Cap, Base, D)
  <2>1. StepOn(1 .. Cap, Base, D)
    BY <1>1, <1>2 DEF StepOn
  <2> HIDE DEF D
  <2> QED BY <2>1, Recursion
<1>4. /\ f \in [Nat -> 1 .. Cap] /\ f[0] = Base
      /\ \A n \in Nat : f[n + 1] = Least(2 * f[n], Cap)
  BY <1>3 DEF Follows
<1>5. f = Body(f)
  <2>1. ASSUME NEW n \in Nat PROVE f[n] = IF n = 0 THEN Base ELSE Least(2 * f[n - 1], Cap)
    <3>1. CASE n = 0
      BY <1>4, <3>1
    <3>2. CASE n # 0
      <4>1. n - 1 \in Nat /\ (n - 1) + 1 = n
        BY <3>2
      <4> QED BY <1>4, <3>2, <4>1
    <3> QED BY <3>1, <3>2
  <2> QED BY <2>1, <1>4
<1>6. Doubled = Body(Doubled)
  BY <1>5 DEF Doubled
<1>7. \A n \in Nat : Doubled[n] = IF n = 0 THEN Base ELSE Least(2 * Doubled[n - 1], Cap)
  BY <1>6
<1>8. \A n \in Nat : Doubled[n + 1] = Least(2 * Doubled[n], Cap)
  <2> TAKE n \in Nat
  <2>1. n + 1 \in Nat /\ n + 1 # 0 /\ (n + 1) - 1 = n
    OBVIOUS
  <2> QED BY <1>7, <2>1
<1> DEFINE T == {n \in Nat : Doubled[n] \in 1 .. Cap}
<1>9. 0 \in T
  BY <1>1, <1>7
<1>10. ASSUME NEW n \in Nat, n \in T PROVE n + 1 \in T
  BY <1>1, <1>8, <1>10 DEF Least
<1>11. Nat \subseteq T
  <2> HIDE DEF T
  <2> QED BY <1>9, <1>10, Induction
<1>12. Doubled = [n \in Nat |-> Doubled[n]]
  BY <1>6
<1> QED BY <1>7, <1>8, <1>11, <1>12

\* Doubling reaches the cap, so there is a first level with that delay.
LEMMA TopLevelDef ==
  /\ TopLevel \in 1 .. Cap
  /\ restartDelay(TopLevel) = Cap
  /\ \A k \in 1 .. TopLevel - 1 : restartDelay(k) < Cap
<1> DEFINE T == {n \in Nat : Doubled[n] >= Least(n + 1, Cap)}
           L == {l \in 1 .. Cap : restartDelay(l) = Cap}
<1>1. Cap \in Nat /\ Cap >= 1 /\ Base \in Nat /\ Base >= 1
  BY DelayAssumption
<1>2. 0 \in T
  BY <1>1, DoubledDef DEF Least
<1>3. ASSUME NEW n \in Nat, n \in T PROVE n + 1 \in T
  <2>1. Doubled[n] \in 1 .. Cap /\ Doubled[n + 1] = Least(2 * Doubled[n], Cap)
    BY DoubledDef
  <2> QED BY <1>1, <1>3, <2>1 DEF Least
<1>4. Nat \subseteq T
  <2> HIDE DEF T
  <2> QED BY <1>2, <1>3, Induction
<1>5. Cap \in L
  <2>1. Cap - 1 \in Nat
    BY <1>1
  <2>2. Doubled[Cap - 1] >= Cap /\ Doubled[Cap - 1] \in 1 .. Cap
    BY <1>1, <1>4, <2>1, DoubledDef DEF Least
  <2> QED BY <1>1, <2>2 DEF restartDelay
<1>6. PICK l \in L : \A y \in L : ~(<<y, l>> \in OpToRel(<, Nat))
  <2>1. L \subseteq Nat /\ L # {}
    BY <1>5
  <2> HIDE DEF L
  <2> QED BY <2>1, NatLessThanWellFounded, WFMin
<1>7. ASSUME NEW k \in 1 .. l - 1 PROVE restartDelay(k) < Cap
  <2>1. k \in Nat /\ k # 0 /\ l \in Nat /\ k < l /\ k - 1 \in Nat /\ k \in 1 .. Cap
    BY <1>1
  <2>2. <<k, l>> \in OpToRel(<, Nat)
    BY <2>1 DEF OpToRel
  <2>3. restartDelay(k) # Cap
    BY <1>6, <2>1, <2>2
  <2>4. restartDelay(k) \in 1 .. Cap
    BY <2>1, DoubledDef DEF restartDelay
  <2> QED BY <1>1, <2>3, <2>4
<1>8. \E x \in 1 .. Cap : restartDelay(x) = Cap /\ \A k \in 1 .. x - 1 : restartDelay(k) < Cap
  BY <1>6, <1>7
<1> QED BY <1>8 DEF TopLevel

LEMMA FailureCapDef == FailureCap \in Nat /\ \A m \in Retries : m <= FailureCap
BY RetriesAssumption DEF FailureCap

-----------------------------------------------------------------------------
\* The part of the type that the monitor's own operations can disturb.
MonitorOK ==
  /\ states \in [Containers -> {None} \cup containerState]
  /\ suppressed \in [Containers -> Nat]
  /\ gpuEntitled \in [Containers -> {None} \cup BOOLEAN]
  /\ pass \in Passes
  /\ scheduled \in [Containers -> 0 .. MaxScheduled]

LEMMA NewMonitorType == NewContainerMonitor => MonitorOK
BY ScheduleAssumption DEF NewContainerMonitor, MonitorOK, Each, NoPass, Passes

LEMMA NewStateType ==
  ASSUME NEW policy \in Policies, NEW maxRetries \in Retries
  PROVE  NewState(policy, maxRetries) \in containerState
BY FailureCapDef, TopLevelDef, DelayAssumption DEF NewState, containerState

LEMMA RegisterType ==
  ASSUME MonitorOK, NEW c \in Containers, NEW policy \in Policies, NEW maxRetries \in Retries,
         Register(c, policy, maxRetries)
  PROVE  MonitorOK'
<1>1. NewState(policy, maxRetries) \in containerState
  BY NewStateType
<1> HIDE DEF containerState
<1> QED BY <1>1 DEF MonitorOK, Register, Replaced, Passes

LEMMA UnregisterType ==
  ASSUME MonitorOK, NEW c \in Containers, Unregister(c)
  PROVE  MonitorOK'
BY DEF MonitorOK, Unregister, Replaced, Passes

LEMMA ExplicitStopType ==
  ASSUME MonitorOK, NEW c \in Containers, NEW b \in BOOLEAN, SetExplicitStop(c, b)
  PROVE  MonitorOK'
<1>1. ASSUME Registered(c) PROVE [states[c] EXCEPT !.ExplicitStop = b] \in containerState
  BY <1>1 DEF MonitorOK, Registered, containerState
<1> QED BY <1>1 DEF MonitorOK, SetExplicitStop

LEMMA SuppressType ==
  ASSUME MonitorOK, NEW c \in Containers, Suppress(c) \/ Resume(c)
  PROVE  MonitorOK'
BY DEF MonitorOK, Suppress, Resume

-----------------------------------------------------------------------------
LEMMA SeenType ==
  ASSUME NEW s \in containerState
  PROVE  SeenRunning(s) \in containerState /\ SeenDown(s) \in containerState
<1>1. TopLevel \in Nat /\ Window \in Nat /\ GPUFloor \in Nat
  BY TopLevelDef, DelayAssumption
<1>2. ASSUME NEW r \in {None} \cup 0 .. Window, NEW d \in {None} \cup 0 .. GPUFloor,
             NEW l \in 0 .. TopLevel
      PROVE  [s EXCEPT !.DownSince = d, !.RunningSince = r, !.BackoffLevel = l] \in containerState
  BY DEF containerState
<1>3. SeenRunning(s) \in containerState
  <2>1. (IF s.RunningSince = None THEN 0 ELSE s.RunningSince) \in {None} \cup 0 .. Window
    BY <1>1 DEF containerState
  <2>2. (IF s.RunningSince = Window THEN 0 ELSE s.BackoffLevel) \in 0 .. TopLevel
    BY <1>1 DEF containerState
  <2> QED BY <1>2, <2>1, <2>2 DEF SeenRunning
<1>4. SeenDown(s) \in containerState
  <2>1. (IF s.DownSince = None THEN 0 ELSE s.DownSince) \in {None} \cup 0 .. GPUFloor
    BY <1>1 DEF containerState
  <2>2. ASSUME NEW d \in {None} \cup 0 .. GPUFloor
        PROVE  [s EXCEPT !.RunningSince = None, !.DownSince = d] \in containerState
    BY DEF containerState
  <2> QED BY <2>1, <2>2 DEF SeenDown
<1> QED BY <1>3, <1>4

\* The level stops at the cap.
LEMMA CountedType ==
  ASSUME NEW s \in containerState
  PROVE  Counted(s) \in containerState
<1>1. s.BackoffLevel \in 0 .. TopLevel /\ s.FailureCount \in 0 .. FailureCap
  BY DEF containerState
<1>2. TopLevel \in Nat /\ FailureCap \in Nat /\ Cap \in Nat
  BY TopLevelDef, FailureCapDef, DelayAssumption
<1>3. (IF restartDelay(s.BackoffLevel) < Cap THEN s.BackoffLevel + 1 ELSE s.BackoffLevel) \in 0 .. TopLevel
  <2>1. CASE s.BackoffLevel = TopLevel
    <3>1. ~(restartDelay(s.BackoffLevel) < Cap)
      BY <1>2, <2>1, TopLevelDef
    <3> QED BY <1>1, <3>1
  <2>2. CASE s.BackoffLevel # TopLevel
    BY <1>1, <1>2, <2>2
  <2> QED BY <2>1, <2>2
<1>4. Least(s.FailureCount + 1, FailureCap) \in 0 .. FailureCap
  BY <1>1, <1>2 DEF Least
<1>5. ASSUME NEW f \in 0 .. FailureCap, NEW l \in 0 .. TopLevel, NEW x \in 0 .. Cap
      PROVE  [s EXCEPT !.FailureCount = f, !.LastRestart = x, !.BackoffLevel = l] \in containerState
  BY DEF containerState
<1>6. 0 \in 0 .. Cap
  BY <1>2
<1> QED BY <1>3, <1>4, <1>5, <1>6 DEF Counted

LEMMA AgedType ==
  ASSUME NEW top \in Nat, NEW age \in {None} \cup 0 .. top
  PROVE  Aged(age, top) \in {None} \cup 0 .. top
BY DEF Aged, Least

LEMMA PassType ==
  ASSUME MonitorOK, gpuOf \in [Containers -> BOOLEAN], PassStep
  PROVE  MonitorOK'
<1>1. CASE ListContainers
  BY <1>1 DEF ListContainers, MonitorOK, Passes, NoPass
<1>2. CASE CaptureUnresolved
  BY <1>2 DEF CaptureUnresolved, MonitorOK, Passes
<1>3. ASSUME NEW c \in Containers, LookupGPU(c) PROVE MonitorOK'
  BY <1>3 DEF LookupGPU, MonitorOK, Passes
<1>4. ASSUME NEW c \in Containers, CommitGPU(c) PROVE MonitorOK'
  BY <1>4 DEF CommitGPU, MonitorOK, Passes
<1>5. CASE planRestarts
  <2>1. states' \in [Containers -> {None} \cup containerState]
    <3>1. \A c \in Containers : Registered(c) => states[c] \in containerState
      BY DEF MonitorOK, Registered
    <3> QED BY <1>5, <3>1, SeenType, CountedType DEF planRestarts
  <2>2. scheduled' \in [Containers -> 0 .. MaxScheduled]
    BY <1>5, ScheduleAssumption DEF planRestarts, MonitorOK
  <2>3. pass' \in Passes
    BY <1>5 DEF planRestarts, NoPass, Passes
  <2> QED BY <1>5, <2>1, <2>2, <2>3 DEF planRestarts, MonitorOK
<1> QED BY <1>1, <1>2, <1>3, <1>4, <1>5 DEF PassStep

LEMMA TimeType == ASSUME MonitorOK, Time PROVE MonitorOK'
<1>1. ASSUME NEW s \in containerState
      PROVE  [s EXCEPT !.LastRestart = Least(@ + 1, Cap), !.RunningSince = Aged(@, Window),
                       !.DownSince = Aged(@, GPUFloor)] \in containerState
  <2>1. s.LastRestart \in 0 .. Cap /\ Cap \in Nat /\ Window \in Nat /\ GPUFloor \in Nat
    BY DelayAssumption DEF containerState
  <2>2. Least(s.LastRestart + 1, Cap) \in 0 .. Cap
    BY <2>1 DEF Least
  <2>3. Aged(s.RunningSince, Window) \in {None} \cup 0 .. Window
    BY <2>1, AgedType DEF containerState
  <2>4. Aged(s.DownSince, GPUFloor) \in {None} \cup 0 .. GPUFloor
    BY <2>1, AgedType DEF containerState
  <2> QED BY <2>2, <2>3, <2>4 DEF containerState
<1>2. \A c \in Containers : Registered(c) => states[c] \in containerState
  BY DEF MonitorOK, Registered
<1>3. states' \in [Containers -> {None} \cup containerState]
  BY <1>1, <1>2 DEF Time
<1> QED BY <1>3 DEF Time, MonitorOK
=============================================================================
