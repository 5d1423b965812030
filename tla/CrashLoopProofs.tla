--------------------------- MODULE CrashLoopProofs ---------------------------
(***************************************************************************)
(* Proofs about the restart monitor in a free environment: a crash loop is *)
(* restarted ever more slowly, and a cached gpu answer belongs to the      *)
(* registration in force, for any set of containers, delays, window and    *)
(* number of restarts.                                                     *)
(*                                                                         *)
(* That the delays add up (CrashLoopSlows) is not inductive.  It rests on  *)
(* the level keeping up with the loop, which the monitor may forget only   *)
(* when the container has really been up for the stability window; and the *)
(* monitor counts from sightings in listings that are out of date when     *)
(* they are used.                                                          *)
(***************************************************************************)
EXTENDS CrashLoop, MonitorProofs

-----------------------------------------------------------------------------
(* The ladder of delays.                                                   *)

\* Every delay is a number, at most the cap, and not below the base from level 1 on.
LEMMA DelayRange ==
  ASSUME NEW l \in Nat
  PROVE  /\ restartDelay(l) \in Nat /\ restartDelay(l) <= Cap
         /\ l >= 1 => restartDelay(l) >= Base
         /\ l = 0 => restartDelay(l) = 0
<1>1. Cap \in Nat /\ Base \in Nat /\ Base >= 1 /\ Base <= Cap
  BY DelayAssumption
<1> DEFINE T == {n \in Nat : Doubled[n] >= Base}
<1>2. 0 \in T
  BY <1>1, DoubledDef
<1>3. ASSUME NEW n \in Nat, n \in T PROVE n + 1 \in T
  <2>1. Doubled[n] \in 1 .. Cap /\ Doubled[n + 1] = Least(2 * Doubled[n], Cap)
    BY DoubledDef
  <2> QED BY <1>1, <1>3, <2>1 DEF Least
<1>4. Nat \subseteq T
  <2> HIDE DEF T
  <2> QED BY <1>2, <1>3, Induction
<1>5. CASE l = 0
  BY <1>1, <1>5 DEF restartDelay
<1>6. CASE l # 0
  <2>1. l - 1 \in Nat /\ l >= 1
    BY <1>6
  <2>2. Doubled[l - 1] >= Base /\ Doubled[l - 1] \in 1 .. Cap
    BY <1>4, <2>1, DoubledDef
  <2>3. restartDelay(l) = Doubled[l - 1]
    BY <1>6 DEF restartDelay
  <2> QED BY <1>1, <1>6, <2>2, <2>3
<1> QED BY <1>5, <1>6

\* One level up doubles the delay, up to the cap.
LEMMA DelayStep ==
  ASSUME NEW l \in Nat, l >= 1
  PROVE  restartDelay(l + 1) = Least(2 * restartDelay(l), Cap)
<1>1. l - 1 \in Nat /\ (l - 1) + 1 = l /\ (l + 1) - 1 = l /\ l # 0 /\ l + 1 # 0
  OBVIOUS
<1>2. Doubled[(l - 1) + 1] = Least(2 * Doubled[l - 1], Cap)
  BY <1>1, DoubledDef
<1> QED BY <1>1, <1>2 DEF restartDelay

\* So the level that a restart leaves keeps up with one restart more.
LEMMA LevelKeepsUp ==
  ASSUME NEW l \in Nat, NEW n \in Nat, n >= 1 => restartDelay(l) >= restartDelay(n)
  PROVE  LET m == IF restartDelay(l) < Cap THEN l + 1 ELSE l IN
         /\ restartDelay(m) >= restartDelay(n + 1)
         /\ n >= 1 => restartDelay(m) >= restartDelay(n)
<1>1. Cap \in Nat /\ Base \in Nat /\ Base >= 1 /\ Base <= Cap
  BY DelayAssumption
<1>2. /\ restartDelay(l) \in Nat /\ restartDelay(l) <= Cap
      /\ restartDelay(n) \in Nat /\ restartDelay(n) <= Cap
      /\ restartDelay(n + 1) \in Nat /\ restartDelay(n + 1) <= Cap
      /\ restartDelay(l + 1) \in Nat /\ restartDelay(l + 1) >= Base
      /\ (l = 0 => restartDelay(l) = 0) /\ (n >= 1 => restartDelay(n) >= Base)
  BY <1>1, DelayRange
<1>3. CASE ~(restartDelay(l) < Cap)
  BY <1>1, <1>2, <1>3
<1>4. CASE restartDelay(l) < Cap /\ n = 0
  <2>1. restartDelay(n + 1) = Base
    BY <1>4, DoubledDef DEF restartDelay
  <2> QED BY <1>2, <1>4, <2>1
<1>5. CASE restartDelay(l) < Cap /\ n >= 1
  <2>1. l >= 1
    BY <1>1, <1>2, <1>5
  <2>2. /\ restartDelay(l + 1) = Least(2 * restartDelay(l), Cap)
        /\ restartDelay(n + 1) = Least(2 * restartDelay(n), Cap)
    BY <1>5, <2>1, DelayStep
  <2>3. /\ restartDelay(l + 1) >= restartDelay(n + 1)
        /\ restartDelay(l + 1) >= restartDelay(n)
    BY <1>1, <1>2, <1>5, <2>2 DEF Least
  <2> QED BY <1>5, <2>3
<1>6. n = 0 \/ n >= 1
  OBVIOUS
<1> QED BY <1>3, <1>4, <1>5, <1>6

\* What LoopSpan computes: the delays of the restarts after the first.
LEMMA SpanDef ==
  /\ LoopSpan \in [Nat -> Nat] /\ LoopSpan[0] = 0 /\ LoopSpan[1] = 0
  /\ \A n \in Nat : n >= 1 => LoopSpan[n + 1] = LoopSpan[n] + restartDelay(n)
<1> DEFINE D == [p \in Nat \X Nat |-> p[2] + restartDelay(p[1])]
           Body(g) == [n \in Nat |-> IF n <= 1 THEN 0 ELSE g[n - 1] + restartDelay(n - 1)]
<1>1. D \in [Nat \X Nat -> Nat]
  <2>1. ASSUME NEW p \in Nat \X Nat PROVE p[2] + restartDelay(p[1]) \in Nat
    <3>1. p[1] \in Nat /\ p[2] \in Nat
      OBVIOUS
    <3>2. restartDelay(p[1]) \in Nat
      BY <3>1, DelayRange
    <3> QED BY <3>1, <3>2
  <2> QED BY <2>1
<1>2. PICK f : Follows(f, Nat, 0, D)
  <2>1. StepOn(Nat, 0, D)
    BY <1>1 DEF StepOn
  <2> HIDE DEF D
  <2> QED BY <2>1, Recursion
<1>3. /\ f \in [Nat -> Nat] /\ f[0] = 0
      /\ \A n \in Nat : f[n + 1] = f[n] + restartDelay(n)
  <2>1. f \in [Nat -> Nat] /\ f[0] = 0 /\ \A n \in Nat : f[n + 1] = D[<<n, f[n]>>]
    BY <1>2 DEF Follows
  <2>2. ASSUME NEW n \in Nat PROVE D[<<n, f[n]>>] = f[n] + restartDelay(n)
    <3>1. <<n, f[n]>> \in Nat \X Nat
      BY <2>1
    <3> QED BY <3>1
  <2> HIDE DEF D
  <2> QED BY <2>1, <2>2
<1>4. restartDelay(0) = 0
  BY DelayRange
<1>5. f = Body(f)
  <2>1. ASSUME NEW n \in Nat PROVE f[n] = IF n <= 1 THEN 0 ELSE f[n - 1] + restartDelay(n - 1)
    <3>1. CASE n = 0
      BY <1>3, <3>1
    <3>2. CASE n = 1
      <4>1. f[0 + 1] = f[0] + restartDelay(0)
        BY <1>3
      <4>2. f[1] = 0
        BY <1>3, <1>4, <4>1
      <4> QED BY <3>2, <4>2
    <3>3. CASE n > 1
      <4>1. n - 1 \in Nat /\ (n - 1) + 1 = n
        BY <3>3
      <4>2. f[(n - 1) + 1] = f[n - 1] + restartDelay(n - 1)
        BY <1>3, <4>1
      <4> QED BY <3>3, <4>1, <4>2
    <3> QED BY <3>1, <3>2, <3>3
  <2> HIDE DEF D
  <2> QED BY <1>3, <2>1
<1>6. LoopSpan = Body(LoopSpan)
  BY <1>5 DEF LoopSpan
<1>7. \A n \in Nat : LoopSpan[n] = IF n <= 1 THEN 0 ELSE LoopSpan[n - 1] + restartDelay(n - 1)
  BY <1>6
<1>8. LoopSpan[0] = 0 /\ LoopSpan[1] = 0
  BY <1>7
<1>9. ASSUME NEW n \in Nat, n >= 1 PROVE LoopSpan[n + 1] = LoopSpan[n] + restartDelay(n)
  <2>1. n + 1 \in Nat /\ ~(n + 1 <= 1) /\ (n + 1) - 1 = n
    BY <1>9
  <2> QED BY <1>7, <2>1
<1> DEFINE T == {n \in Nat : LoopSpan[n] \in Nat}
<1>10. ASSUME NEW n \in Nat, n \in T PROVE n + 1 \in T
  <2>1. CASE n = 0
    BY <1>8, <2>1
  <2>2. CASE n # 0
    <3>1. LoopSpan[n + 1] = LoopSpan[n] + restartDelay(n) /\ restartDelay(n) \in Nat /\ LoopSpan[n] \in Nat
      BY <1>9, <1>10, <2>2, DelayRange
    <3>2. LoopSpan[n + 1] \in Nat
      BY <3>1
    <3> QED BY <3>2
  <2> QED BY <2>1, <2>2
<1>11. Nat \subseteq T
  <2>1. 0 \in T
    BY <1>8
  <2> HIDE DEF T
  <2> QED BY <1>10, <2>1, Induction
<1>12. LoopSpan = [n \in Nat |-> LoopSpan[n]]
  BY <1>6
<1>13. LoopSpan \in [Nat -> Nat]
  BY <1>11, <1>12
<1> QED BY <1>8, <1>9, <1>13

\* It grows with the number of restarts.
LEMMA SpanGrows ==
  ASSUME NEW n \in Nat, NEW m \in Nat, n <= m
  PROVE  LoopSpan[n] <= LoopSpan[m] /\ LoopSpan[n] \in Nat /\ LoopSpan[m] \in Nat
<1> DEFINE T == {k \in Nat : LoopSpan[n] <= LoopSpan[n + k]}
<1>1. 0 \in T
  BY SpanDef
<1>2. ASSUME NEW k \in Nat, k \in T PROVE k + 1 \in T
  <2>1. /\ LoopSpan[n] \in Nat /\ LoopSpan[n + k] \in Nat /\ LoopSpan[n + k] >= LoopSpan[n]
        /\ restartDelay(n + k) \in Nat /\ n + (k + 1) = (n + k) + 1 /\ n + k \in Nat
    BY <1>2, SpanDef, DelayRange
  <2>2. LoopSpan[(n + k) + 1] >= LoopSpan[n + k] /\ LoopSpan[(n + k) + 1] \in Nat
    <3>1. CASE n + k = 0
      BY <2>1, <3>1, SpanDef
    <3>2. CASE n + k # 0
      <4>1. LoopSpan[(n + k) + 1] = LoopSpan[n + k] + restartDelay(n + k)
        BY <2>1, <3>2, SpanDef
      <4> QED BY <2>1, <4>1
    <3> QED BY <3>1, <3>2
  <2>3. LoopSpan[n + (k + 1)] >= LoopSpan[n]
    BY <2>1, <2>2
  <2> QED BY <2>3, <2>1
<1>3. m - n \in T
  <2>1. Nat \subseteq T
    <3> HIDE DEF T
    <3> QED BY <1>1, <1>2, Induction
  <2> QED BY <2>1
<1>4. n + (m - n) = m
  OBVIOUS
<1> QED BY <1>3, <1>4, SpanDef

-----------------------------------------------------------------------------
(* The inductive invariant.                                                *)

\* The part of the type that is not the monitor's.
EnvOK ==
  /\ task \in [Containers -> {"up", "down"}]
  /\ gpuOf \in [Containers -> BOOLEAN]
  /\ \A c \in Containers : suppressed[c] <= MaxHandles
  /\ upFor \in [Containers -> {None} \cup 0 .. Window]
  /\ loop \in [Containers -> [n : 0 .. MaxLoop, age : 0 .. LoopSpan[MaxLoop]]]
  /\ redeployed \in [Containers -> BOOLEAN]

\* A task that runs has an age.
Dated(c) == task[c] = "up" <=> upFor[c] # None

\* A restart goroutine is about to run only between passes, and for a container
\* that its pass saw down.
Idling(c) ==
  scheduled[c] > 0 =>
     pass.at = "idle" /\ (Registered(c) => states[c].RunningSince = None)

\* The monitor has not seen a task for longer than it has been up.
Sighted(c) ==
  Registered(c) /\ states[c].RunningSince # None /\ upFor[c] # None =>
     states[c].RunningSince <= upFor[c]

\* What the listing of a pass missed has only just been started.
Missed(c) == pass.at # "idle" /\ c \notin pass.running => upFor[c] \in {None, 0}

\* A stability window of uptime, and one the monitor has seen, end the crash loop.
Settled(c) == upFor[c] = Window => loop[c].n = 0

Forgiven(c) ==
  pass.at # "idle" /\ c \in pass.running /\ Registered(c) /\ states[c].RunningSince = Window =>
     loop[c].n = 0

\* The level has kept up with the loop, and the loop is as old as the delays so far
\* and the time since the last restart.
KeptUp(level, last, n, age) ==
  n >= 1 => /\ restartDelay(level) >= restartDelay(n)
            /\ age >= LoopSpan[n] + last \/ age = LoopSpan[MaxLoop]

Climbed(c) ==
  Registered(c) => KeptUp(states[c].BackoffLevel, states[c].LastRestart, loop[c].n, loop[c].age)

LoopOK(c) == /\ Dated(c) /\ Idling(c) /\ Sighted(c) /\ Missed(c)
             /\ Settled(c) /\ Forgiven(c) /\ Climbed(c)

LoopInv == \A c \in Containers : LoopOK(c)

\* An answer that was looked up for the registration still in force is right.
FoundInv ==
  /\ pass.at # "resolving" => pass.unresolved = {} /\ pass.found = Each(None)
  /\ \A c \in Containers :
        pass.found[c] # None /\ c \notin pass.replaced /\ ~redeployed[c] => pass.found[c] = gpuOf[c]

IInv == MonitorOK /\ EnvOK /\ LoopInv /\ CrashLoopSlows /\ FoundInv /\ GPUCacheFresh

-----------------------------------------------------------------------------
(* Steps that leave the loop of a container alone.                         *)

LEMMA Numbers ==
  /\ Window \in Nat /\ Window >= 1 /\ Cap \in Nat /\ MaxLoop \in Nat /\ MaxLoop >= 1
  /\ MaxHandles \in Nat /\ LoopSpan[MaxLoop] \in Nat /\ None \notin Nat /\ None # Window /\ None # 0
<1>1. MaxLoop \in Nat /\ MaxLoop >= 1 /\ MaxHandles \in Nat
  BY BoundsAssumption
<1>2. LoopSpan[MaxLoop] \in Nat
  BY <1>1, SpanDef
<1>3. Window \in Nat /\ Window >= 1 /\ Cap \in Nat
  BY DelayAssumption
<1>4. None # 0 /\ None # Window
  BY <1>3, NoneAssumption
<1> QED BY <1>1, <1>2, <1>3, <1>4, NoneAssumption

\* What a step must leave alone for the facts about d to stay.
Untouched(d) ==
  /\ states'[d] = states[d] /\ scheduled'[d] = scheduled[d] /\ task'[d] = task[d]
  /\ upFor'[d] = upFor[d] /\ loop'[d] = loop[d]
  /\ (pass'.at = "idle" <=> pass.at = "idle") /\ pass'.running = pass.running

LEMMA Frame ==
  ASSUME NEW d \in Containers, LoopOK(d), Untouched(d)
  PROVE  LoopOK(d)'
BY DEF LoopOK, Untouched, Dated, Idling, Sighted, Missed, Settled, Forgiven, Climbed,
       KeptUp, Registered

\* A registration taken anew, or away, ends the loop.
LEMMA Renewed ==
  ASSUME NEW c \in Containers, LoopOK(c), states'[c] = None \/ states'[c].RunningSince = None,
         scheduled'[c] = scheduled[c], pass'.at = pass.at, pass'.running = pass.running,
         \/ task'[c] = "up" /\ upFor'[c] = 0
         \/ task'[c] = "down" /\ upFor'[c] = None,
         loop'[c] = Fresh
  PROVE  LoopOK(c)'
<1>1. loop'[c].n = 0
  BY DEF Fresh
<1>2. Dated(c)'
  BY Numbers DEF Dated
<1>3. Idling(c)' /\ Sighted(c)'
  BY DEF LoopOK, Idling, Sighted, Registered
<1>4. Missed(c)' /\ Settled(c)' /\ Forgiven(c)'
  BY <1>1 DEF Missed, Settled, Forgiven
<1>5. Climbed(c)'
  BY <1>1 DEF Climbed, KeptUp
<1> QED BY <1>2, <1>3, <1>4, <1>5 DEF LoopOK

\* A task that goes away leaves the loop as it is.
LEMMA Downed ==
  ASSUME NEW c \in Containers, LoopOK(c),
         Registered(c)' => /\ Registered(c)
                           /\ states'[c].RunningSince = states[c].RunningSince
                           /\ states'[c].BackoffLevel = states[c].BackoffLevel
                           /\ states'[c].LastRestart = states[c].LastRestart,
         scheduled'[c] = scheduled[c], pass' = pass, loop'[c] = loop[c],
         \/ task'[c] = "down" /\ upFor'[c] = None
         \/ task'[c] = task[c] /\ upFor'[c] = upFor[c]
  PROVE  LoopOK(c)'
<1>1. Dated(c)'
  BY Numbers DEF LoopOK, Dated
<1>2. Idling(c)' /\ Sighted(c)'
  BY DEF LoopOK, Idling, Sighted
<1>3. Missed(c)' /\ Settled(c)' /\ Forgiven(c)'
  BY Numbers DEF LoopOK, Missed, Settled, Forgiven
<1>4. Climbed(c)'
  BY DEF LoopOK, Climbed, KeptUp
<1> QED BY <1>1, <1>2, <1>3, <1>4 DEF LoopOK

\* The loop's age, and the cached answers, when no loop and no answer changes.
LEMMA SlowsFrame ==
  ASSUME CrashLoopSlows, NEW c \in Containers,
         loop' = loop \/ (loop \in [Containers -> [n : 0 .. MaxLoop, age : 0 .. LoopSpan[MaxLoop]]]
                          /\ loop' = [loop EXCEPT ![c] = Fresh])
  PROVE  CrashLoopSlows'
<1>1. CASE loop' = loop
  BY <1>1 DEF CrashLoopSlows
<1>2. CASE loop' # loop
  <2> SUFFICES ASSUME NEW d \in Containers PROVE loop'[d].age >= LoopSpan[loop'[d].n]
    BY DEF CrashLoopSlows
  <2>1. CASE d = c
    <3>1. loop'[d] = Fresh
      BY <1>2, <2>1
    <3> QED BY <3>1, SpanDef DEF Fresh
  <2>2. CASE d # c
    BY <1>2, <2>2 DEF CrashLoopSlows
  <2> QED BY <2>1, <2>2
<1> QED BY <1>1, <1>2

-----------------------------------------------------------------------------
(* The operator, the runtime and the monitor's goroutines.                 *)

\* The cached and the looked-up answers when neither changes.
LEMMA AnswersFrame ==
  ASSUME FoundInv, GPUCacheFresh,
         gpuEntitled' = gpuEntitled, pass' = pass, redeployed' = redeployed, gpuOf' = gpuOf
  PROVE  FoundInv' /\ GPUCacheFresh'
BY DEF FoundInv, GPUCacheFresh, Each

\* Registering, or unregistering, a name voids its cached answer and its lookup.
LEMMA AnswersVoided ==
  ASSUME MonitorOK, EnvOK, FoundInv, GPUCacheFresh, NEW c \in Containers,
         gpuEntitled' = [gpuEntitled EXCEPT ![c] = None], Replaced(c), gpuOf' = gpuOf,
         redeployed' = [redeployed EXCEPT ![c] = FALSE] \/ redeployed' = redeployed
  PROVE  FoundInv' /\ GPUCacheFresh'
<1>1. /\ pass'.at = pass.at /\ pass'.running = pass.running /\ pass'.unresolved = pass.unresolved
      /\ pass'.found = pass.found /\ pass'.replaced = pass.replaced \cup {c}
  BY DEF MonitorOK, Passes, Replaced
<1>2. /\ gpuEntitled'[c] = None
      /\ \A d \in Containers : d # c => gpuEntitled'[d] = gpuEntitled[d] /\ redeployed'[d] = redeployed[d]
  BY DEF MonitorOK, EnvOK
<1>3. FoundInv'
  BY <1>1, <1>2 DEF FoundInv, Each
<1>4. GPUCacheFresh'
  BY <1>2 DEF GPUCacheFresh
<1> QED BY <1>3, <1>4

\* What the three calls that change a registration do to the container's loop.
Renews(c) ==
  /\ states' = [states EXCEPT ![c] = None]
     \/ \E s : states' = [states EXCEPT ![c] = s] /\ s.RunningSince = None
  /\ gpuEntitled' = [gpuEntitled EXCEPT ![c] = None] /\ Replaced(c)
  /\ suppressed' = suppressed /\ scheduled' = scheduled /\ gpuOf' = gpuOf
  /\ \/ task' = [task EXCEPT ![c] = "up"] /\ upFor' = [upFor EXCEPT ![c] = 0]
     \/ task' = [task EXCEPT ![c] = "down"] /\ upFor' = [upFor EXCEPT ![c] = None]
  /\ loop' = [loop EXCEPT ![c] = Fresh]
  /\ redeployed' = [redeployed EXCEPT ![c] = FALSE] \/ redeployed' = redeployed

LEMMA RenewsStep ==
  ASSUME IInv, NEW c \in Containers, MonitorOK', Renews(c)
  PROVE  IInv'
<1> USE DEF IInv
<1>1. EnvOK'
  <2>1. 0 \in 0 .. Window /\ Fresh \in [n : 0 .. MaxLoop, age : 0 .. LoopSpan[MaxLoop]]
    BY Numbers DEF Fresh
  <2>2. upFor' \in [Containers -> {None} \cup 0 .. Window]
    BY <2>1 DEF EnvOK, Renews
  <2>3. loop' \in [Containers -> [n : 0 .. MaxLoop, age : 0 .. LoopSpan[MaxLoop]]]
    BY <2>1 DEF EnvOK, Renews
  <2>4. task' \in [Containers -> {"up", "down"}] /\ redeployed' \in [Containers -> BOOLEAN]
    BY DEF EnvOK, Renews
  <2> QED BY <2>2, <2>3, <2>4 DEF EnvOK, Renews
<1>2. ASSUME NEW d \in Containers PROVE LoopOK(d)'
  <2>1. pass'.at = pass.at /\ pass'.running = pass.running
    BY DEF MonitorOK, Passes, Renews, Replaced
  <2>2. CASE d = c
    <3>1. states'[c] = None \/ states'[c].RunningSince = None
      BY DEF MonitorOK, Renews
    <3>2. /\ \/ task'[c] = "up" /\ upFor'[c] = 0
             \/ task'[c] = "down" /\ upFor'[c] = None
          /\ loop'[c] = Fresh /\ scheduled'[c] = scheduled[c]
      BY DEF EnvOK, Renews
    <3>3. LoopOK(c)
      BY DEF LoopInv
    <3> QED BY <2>1, <2>2, <3>1, <3>2, <3>3, Renewed
  <2>3. CASE d # c
    <3>1. Untouched(d)
      BY <2>1, <2>3 DEF MonitorOK, EnvOK, Renews, Untouched
    <3> QED BY <3>1, Frame DEF LoopInv
  <2> QED BY <2>2, <2>3
<1>3. CrashLoopSlows'
  BY SlowsFrame DEF EnvOK, Renews
<1>4. FoundInv' /\ GPUCacheFresh'
  BY AnswersVoided DEF Renews
<1> QED BY <1>1, <1>2, <1>3, <1>4 DEF LoopInv

LEMMA UserStartStep ==
  ASSUME IInv, NEW c \in Containers, NEW p \in monitorPolicyInt, UserStart(c, p[1], p[2])
  PROVE  IInv'
<1>1. p[1] \in Policies /\ p[2] \in Retries
  BY PolicyAssumption DEF monitorPolicyInt, Policies
<1>2. MonitorOK'
  BY <1>1, RegisterType DEF IInv, UserStart
<1>3. NewState(p[1], p[2]).RunningSince = None
  BY DEF NewState
<1>4. Renews(c)
  BY <1>3 DEF UserStart, Register, Renews
<1> QED BY <1>2, <1>4, RenewsStep

LEMMA UserUnregistersStep ==
  ASSUME IInv, NEW c \in Containers, UserStartNo(c) \/ UserDelete(c)
  PROVE  IInv'
<1>1. MonitorOK'
  BY UnregisterType DEF IInv, UserStartNo, UserDelete
<1>2. Renews(c)
  BY DEF UserStartNo, UserDelete, Unregister, Renews
<1> QED BY <1>1, <1>2, RenewsStep

\* The steps that take a task down, or leave it, and no loop with it.
Keeps(c) ==
  /\ \/ states' = states
     \/ \E b : SetExplicitStop(c, b) /\ Registered(c)
  /\ gpuEntitled' = gpuEntitled /\ pass' = pass /\ scheduled' = scheduled
  /\ \/ task' = [task EXCEPT ![c] = "down"] /\ upFor' = [upFor EXCEPT ![c] = None]
     \/ task' = task /\ upFor' = upFor
  /\ loop' = loop

LEMMA KeepsLoop ==
  ASSUME IInv, NEW c \in Containers, Keeps(c)
  PROVE  LoopInv' /\ CrashLoopSlows'
<1> USE DEF IInv
<1>1. ASSUME NEW d \in Containers PROVE LoopOK(d)'
  <2>1. CASE d = c
    <3>1. Registered(c)' => /\ Registered(c)
                            /\ states'[c].RunningSince = states[c].RunningSince
                            /\ states'[c].BackoffLevel = states[c].BackoffLevel
                            /\ states'[c].LastRestart = states[c].LastRestart
      <4>1. CASE states' = states
        BY <4>1 DEF Registered
      <4>2. ASSUME NEW b, SetExplicitStop(c, b), Registered(c) 
            PROVE  /\ states'[c].RunningSince = states[c].RunningSince
                   /\ states'[c].BackoffLevel = states[c].BackoffLevel
                   /\ states'[c].LastRestart = states[c].LastRestart
        <5>1. states[c] \in containerState
          BY <4>2 DEF MonitorOK, Registered
        <5>2. states'[c] = [states[c] EXCEPT !.ExplicitStop = b]
          BY <4>2 DEF SetExplicitStop, MonitorOK
        <5> QED BY <5>1, <5>2 DEF containerState
      <4> QED BY <4>1, <4>2 DEF Keeps
    <3>2. /\ \/ task'[c] = "down" /\ upFor'[c] = None
             \/ task'[c] = task[c] /\ upFor'[c] = upFor[c]
          /\ loop'[c] = loop[c] /\ scheduled'[c] = scheduled[c] /\ pass' = pass
      BY DEF EnvOK, Keeps
    <3>3. LoopOK(c)
      BY DEF LoopInv
    <3> QED BY <2>1, <3>1, <3>2, <3>3, Downed
  <2>2. CASE d # c
    <3>1. Untouched(d)
      BY <2>2 DEF MonitorOK, EnvOK, Keeps, SetExplicitStop, Untouched
    <3> QED BY <3>1, Frame DEF LoopInv
  <2> QED BY <2>1, <2>2
<1>2. CrashLoopSlows'
  BY SlowsFrame DEF Keeps
<1> QED BY <1>1, <1>2 DEF LoopInv

LEMMA UserStopStep ==
  ASSUME IInv, NEW c \in Containers, UserStop(c) \/ StopFailed(c)
  PROVE  IInv'
<1> USE DEF UserStop, StopFailed, MarkExplicitStop, ClearExplicitStop, runtimeVars, history
<1>1. MonitorOK'
  BY ExplicitStopType DEF IInv
<1>2. Keeps(c)
  BY DEF Keeps, SetExplicitStop
<1>3. EnvOK'
  BY DEF IInv, EnvOK, SetExplicitStop
<1>4. FoundInv' /\ GPUCacheFresh'
  BY AnswersFrame DEF IInv, SetExplicitStop
<1> QED BY <1>1, <1>2, <1>3, <1>4, KeepsLoop DEF IInv

LEMMA TeardownStep ==
  ASSUME IInv, NEW c \in Containers, TeardownBegin(c) \/ TeardownEnd(c)
  PROVE  IInv'
<1> USE DEF TeardownBegin, TeardownEnd, runtimeVars, history
<1>1. MonitorOK'
  BY SuppressType DEF IInv
<1>2. Keeps(c)
  BY DEF Keeps, Suppress, Resume
<1>3. EnvOK'
  <2>1. ASSUME NEW d \in Containers PROVE suppressed'[d] <= MaxHandles
    BY Numbers DEF IInv, EnvOK, MonitorOK, Suppress, Resume
  <2> QED BY <2>1 DEF IInv, EnvOK
<1>4. FoundInv' /\ GPUCacheFresh'
  BY AnswersFrame DEF IInv, Suppress, Resume
<1> QED BY <1>1, <1>2, <1>3, <1>4, KeepsLoop DEF IInv

LEMMA RedeployStep ==
  ASSUME IInv, NEW c \in Containers, Redeploy(c)
  PROVE  IInv'
<1> USE DEF Redeploy, monitorVars
<1>1. MonitorOK'
  BY DEF IInv, MonitorOK
<1>2. Keeps(c)
  BY DEF Keeps
<1>3. EnvOK'
  BY DEF IInv, EnvOK
<1>4. redeployed'[c] = TRUE /\ \A d \in Containers : d # c => redeployed'[d] = redeployed[d] /\ gpuOf'[d] = gpuOf[d]
  BY DEF IInv, EnvOK
<1>5. FoundInv'
  BY <1>4 DEF IInv, FoundInv, Each
<1>6. GPUCacheFresh'
  BY <1>4 DEF IInv, GPUCacheFresh
<1> QED BY <1>1, <1>2, <1>3, <1>5, <1>6, KeepsLoop DEF IInv

LEMMA DieStep ==
  ASSUME IInv, NEW c \in Containers, Die(c)
  PROVE  IInv'
<1> USE DEF Die, monitorVars
<1>1. MonitorOK'
  BY DEF IInv, MonitorOK
<1>2. Keeps(c)
  BY DEF Keeps
<1>3. EnvOK'
  BY DEF IInv, EnvOK
<1>4. FoundInv' /\ GPUCacheFresh'
  BY AnswersFrame DEF IInv
<1> QED BY <1>1, <1>2, <1>3, <1>4, KeepsLoop DEF IInv

\* A restart goroutine: it starts a task only where its pass saw none, so no
\* sighting is older than the task.
LEMMA RestartStep ==
  ASSUME IInv, NEW c \in Containers, RestartSkipped(c) \/ RestartStarted(c)
  PROVE  IInv'
<1> USE DEF RestartSkipped, RestartStarted, Ran, runtimeVars, history
<1>1. MonitorOK'
  BY ScheduleAssumption DEF IInv, MonitorOK
<1>2. EnvOK'
  <2>1. 0 \in 0 .. Window
    BY Numbers
  <2> QED BY <2>1 DEF IInv, EnvOK
<1>3. ASSUME NEW d \in Containers PROVE LoopOK(d)'
  <2>1. LoopOK(d)
    BY DEF IInv, LoopInv
  <2>2. CASE d # c
    <3>1. Untouched(d)
      BY <2>2 DEF IInv, MonitorOK, EnvOK, Untouched
    <3> QED BY <2>1, <3>1, Frame
  <2>3. CASE d = c
    <3>1. /\ scheduled[d] > 0 /\ scheduled'[d] \in Nat /\ scheduled'[d] <= scheduled[d]
          /\ states' = states /\ pass' = pass /\ loop' = loop
          /\ \/ task'[d] = task[d] /\ upFor'[d] = upFor[d]
             \/ task'[d] = "up" /\ upFor'[d] = IF upFor[d] = None THEN 0 ELSE upFor[d]
      BY <2>3, ScheduleAssumption DEF IInv, MonitorOK, EnvOK
    <3>2. pass.at = "idle" /\ (Registered(d) => states[d].RunningSince = None)
      BY <2>1, <3>1 DEF LoopOK, Idling
    <3>3. Dated(d)'
      BY <2>1, <3>1, Numbers DEF LoopOK, Dated
    <3>4. Idling(d)' /\ Sighted(d)' /\ Missed(d)' /\ Forgiven(d)'
      BY <3>1, <3>2 DEF Idling, Sighted, Missed, Forgiven, Registered
    <3>5. Settled(d)'
      BY <2>1, <3>1, Numbers DEF LoopOK, Settled
    <3>6. Climbed(d)'
      BY <2>1, <3>1 DEF LoopOK, Climbed, KeptUp, Registered
    <3> QED BY <3>3, <3>4, <3>5, <3>6 DEF LoopOK
  <2> QED BY <2>2, <2>3
<1>4. CrashLoopSlows'
  BY SlowsFrame DEF IInv
<1>5. FoundInv' /\ GPUCacheFresh'
  BY AnswersFrame DEF IInv
<1> QED BY <1>1, <1>2, <1>3, <1>4, <1>5 DEF IInv, LoopInv

-----------------------------------------------------------------------------
(* The clock.                                                              *)

LEMMA ClockStep ==
  ASSUME IInv, Clock
  PROVE  IInv'
<1> USE DEF IInv
<1> DEFINE Top == LoopSpan[MaxLoop]
<1>1. MonitorOK'
  BY TimeType DEF Clock
<1>2. ASSUME NEW c \in Containers
      PROVE  /\ upFor'[c] = Aged(upFor[c], Window)
             /\ scheduled'[c] = scheduled[c] /\ pass' = pass /\ pass.at = "idle" /\ task'[c] = task[c]
             /\ upFor[c] \in {None} \cup 0 .. Window
             /\ loop[c] \in [n : 0 .. MaxLoop, age : 0 .. Top]
             /\ loop[c].n \in Nat /\ loop[c].n <= MaxLoop /\ loop[c].age \in Nat /\ loop[c].age <= Top
  <2>1. upFor'[c] = Aged(upFor[c], Window)
    BY DEF Clock
  <2>2. scheduled'[c] = scheduled[c] /\ pass' = pass /\ pass.at = "idle" /\ task'[c] = task[c]
    BY DEF Clock, Time, runtimeVars
  <2>3. upFor[c] \in {None} \cup 0 .. Window /\ loop[c] \in [n : 0 .. MaxLoop, age : 0 .. Top]
    BY DEF EnvOK
  <2>4. loop[c].n \in Nat /\ loop[c].n <= MaxLoop /\ loop[c].age \in Nat /\ loop[c].age <= Top
    <3>1. loop[c].n \in 0 .. MaxLoop /\ loop[c].age \in 0 .. Top
      BY <2>3
    <3> QED BY <3>1, Numbers
  <2> QED BY <2>1, <2>2, <2>3, <2>4
<1>3. ASSUME NEW c \in Containers
      PROVE  /\ upFor'[c] = Window => loop'[c] = Fresh
             /\ upFor'[c] # Window =>
                   /\ loop'[c].n = loop[c].n
                   /\ loop'[c].age = IF loop[c].n = 0 THEN 0 ELSE Least(loop[c].age + 1, Top)
             /\ loop'[c] \in [n : 0 .. MaxLoop, age : 0 .. Top]
  <2> DEFINE a == IF loop[c].n = 0 THEN 0 ELSE Least(loop[c].age + 1, Top)
  <2>1. a \in 0 .. Top
    <3>1. Top \in Nat /\ loop[c].age \in Nat
      BY <1>2, Numbers
    <3> HIDE DEF Top
    <3> QED BY <3>1 DEF Least
  <2>2. Fresh \in [n : 0 .. MaxLoop, age : 0 .. Top]
    BY Numbers DEF Fresh
  <2>3. loop[c] \in [n : 0 .. MaxLoop, age : 0 .. Top]
    BY <1>2
  <2>4. loop'[c] = IF upFor'[c] = Window THEN Fresh ELSE [loop[c] EXCEPT !.age = a]
    BY DEF Clock
  <2> HIDE DEF Top, a
  <2>5. CASE upFor'[c] = Window
    BY <2>2, <2>4, <2>5
  <2>6. CASE upFor'[c] # Window
    <3>1. loop'[c] = [loop[c] EXCEPT !.age = a]
      BY <2>4, <2>6
    <3>2. loop'[c].n = loop[c].n /\ loop'[c].age = a /\ loop'[c] \in [n : 0 .. MaxLoop, age : 0 .. Top]
      BY <2>1, <2>3, <3>1
    <3> QED BY <2>6, <3>2 DEF a
  <2> QED BY <2>5, <2>6
<1>4. EnvOK'
  <2>1. \A c \in Containers : upFor'[c] \in {None} \cup 0 .. Window
    BY <1>2, AgedType, Numbers
  <2>2. upFor' \in [Containers -> {None} \cup 0 .. Window]
    BY <2>1 DEF Clock
  <2>3. loop' \in [Containers -> [n : 0 .. MaxLoop, age : 0 .. LoopSpan[MaxLoop]]]
    BY <1>3 DEF Clock
  <2> QED BY <2>2, <2>3 DEF EnvOK, Clock, Time, runtimeVars
<1>5. ASSUME NEW c \in Containers, Registered(c)'
      PROVE  /\ Registered(c) /\ states[c] \in containerState
             /\ states'[c].RunningSince = Aged(states[c].RunningSince, Window)
             /\ states'[c].LastRestart = Least(states[c].LastRestart + 1, Cap)
             /\ states'[c].BackoffLevel = states[c].BackoffLevel
  <2>1. Registered(c)
    BY <1>5 DEF Clock, Time, Registered
  <2>2. states[c] \in containerState
    BY <2>1 DEF MonitorOK, Registered
  <2>3. states'[c] = [states[c] EXCEPT !.LastRestart = Least(@ + 1, Cap),
                                       !.RunningSince = Aged(@, Window),
                                       !.DownSince = Aged(@, GPUFloor)]
    BY <2>1 DEF Clock, Time
  <2> QED BY <2>1, <2>2, <2>3 DEF containerState
<1>6. ASSUME NEW c \in Containers PROVE LoopOK(c)'
  <2>1. LoopOK(c)
    BY DEF LoopInv
  <2>2. Dated(c)'
    <3>1. upFor[c] # None => upFor[c] \in Nat
      BY <1>2, Numbers
    <3>2. upFor[c] # None => Least(upFor[c] + 1, Window) \in Nat
      BY <3>1, Numbers DEF Least
    <3> QED BY <1>2, <2>1, <3>2, Numbers DEF LoopOK, Dated, Aged
  <2>3. Idling(c)'
    BY <1>2, <1>5, <2>1 DEF LoopOK, Idling, Aged
  <2>4. Sighted(c)'
    <3> SUFFICES ASSUME Registered(c)', states'[c].RunningSince # None, upFor'[c] # None
                 PROVE  states'[c].RunningSince <= upFor'[c]
      BY DEF Sighted
    <3> DEFINE r == states[c].RunningSince
               u == upFor[c]
    <3>1. r \in {None} \cup 0 .. Window /\ u \in {None} \cup 0 .. Window
      BY <1>2, <1>5 DEF containerState
    <3>2. r # None /\ u # None /\ states'[c].RunningSince = Least(r + 1, Window) /\ upFor'[c] = Least(u + 1, Window)
      BY <1>2, <1>5 DEF Aged
    <3>3. r <= u
      BY <1>5, <2>1, <3>2 DEF LoopOK, Sighted
    <3>4. r \in Nat /\ u \in Nat
      BY <3>1, <3>2, Numbers
    <3>5. ASSUME NEW x \in Nat, NEW y \in Nat, x <= y PROVE Least(x + 1, Window) <= Least(y + 1, Window)
      BY <3>5, Numbers DEF Least
    <3>6. Least(r + 1, Window) <= Least(u + 1, Window)
      BY <3>3, <3>4, <3>5
    <3> HIDE DEF r, u
    <3> QED BY <3>2, <3>6
  <2>5. Missed(c)' /\ Forgiven(c)'
    BY <1>2 DEF Missed, Forgiven
  <2>6. Settled(c)'
    BY <1>3 DEF Settled, Fresh
  <2>7. Climbed(c)'
    <3> SUFFICES ASSUME Registered(c)', loop'[c].n >= 1
                 PROVE  /\ restartDelay(states'[c].BackoffLevel) >= restartDelay(loop'[c].n)
                        /\ \/ loop'[c].age >= LoopSpan[loop'[c].n] + states'[c].LastRestart
                           \/ loop'[c].age = Top
      BY DEF Climbed, KeptUp
    <3>1. upFor'[c] # Window
      BY <1>3 DEF Fresh
    <3>2. loop'[c].n = loop[c].n /\ loop'[c].age = Least(loop[c].age + 1, Top)
      BY <1>2, <1>3, <3>1
    <3>3. KeptUp(states[c].BackoffLevel, states[c].LastRestart, loop[c].n, loop[c].age)
      BY <1>5, <2>1 DEF LoopOK, Climbed
    <3>4. restartDelay(states'[c].BackoffLevel) >= restartDelay(loop'[c].n)
      BY <1>5, <3>2, <3>3 DEF KeptUp
    <3>5. loop[c].age >= LoopSpan[loop[c].n] + states[c].LastRestart \/ loop[c].age = Top
      BY <3>2, <3>3 DEF KeptUp
    <3>6. states[c].LastRestart \in Nat /\ LoopSpan[loop[c].n] \in Nat /\ loop[c].age \in Nat /\ loop[c].age <= Top
      BY <1>2, <1>5, Numbers, SpanDef DEF containerState
    <3>7. states'[c].LastRestart = Least(states[c].LastRestart + 1, Cap)
      BY <1>5
    <3>8. Top \in Nat /\ Cap \in Nat
      BY Numbers
    <3> HIDE DEF Top
    <3>9. loop'[c].age >= LoopSpan[loop[c].n] + states'[c].LastRestart \/ loop'[c].age = Top
      BY <3>2, <3>5, <3>6, <3>7, <3>8 DEF Least
    <3> QED BY <3>2, <3>4, <3>9
  <2> QED BY <2>2, <2>3, <2>4, <2>5, <2>6, <2>7 DEF LoopOK
<1>7. CrashLoopSlows'
  <2> SUFFICES ASSUME NEW c \in Containers PROVE loop'[c].age >= LoopSpan[loop'[c].n]
    BY DEF CrashLoopSlows
  <2>1. CASE upFor'[c] = Window
    BY <1>3, <2>1, SpanDef DEF Fresh
  <2>2. CASE upFor'[c] # Window /\ loop[c].n = 0
    BY <1>3, <2>2, SpanDef
  <2>3. CASE upFor'[c] # Window /\ loop[c].n # 0
    <3>1. loop'[c].n = loop[c].n /\ loop'[c].age = Least(loop[c].age + 1, Top)
      BY <1>3, <2>3
    <3>2. loop[c].age >= LoopSpan[loop[c].n] /\ loop[c].age \in Nat
      BY <1>2 DEF CrashLoopSlows
    <3>3. LoopSpan[loop[c].n] <= Top /\ LoopSpan[loop[c].n] \in Nat /\ Top \in Nat
      BY <1>2, Numbers, SpanGrows
    <3> HIDE DEF Top
    <3> QED BY <3>1, <3>2, <3>3 DEF Least
  <2> QED BY <2>1, <2>2, <2>3
<1>8. FoundInv' /\ GPUCacheFresh'
  BY AnswersFrame DEF Clock, Time, runtimeVars
<1> QED BY <1>1, <1>4, <1>6, <1>7, <1>8 DEF LoopInv

-----------------------------------------------------------------------------
(* A pass of the monitor.                                                  *)

\* A pass step that schedules nothing leaves every loop as it is.
LEMMA NothingScheduled ==
  ASSUME MonitorOK, EnvOK, Pass, scheduled' = scheduled
  PROVE  loop' = loop
<1>1. \A c \in Containers : scheduled'[c] <= scheduled[c]
  BY ScheduleAssumption DEF MonitorOK
<1>2. loop' = [c \in Containers |-> loop[c]]
  BY <1>1 DEF Pass
<1> QED BY <1>2 DEF EnvOK

\* The listing: what it reports running has a task, and one whose sightings
\* add up to the window has been up for at least as long.
LEMMA ListStep ==
  ASSUME IInv, Pass, ListContainers
  PROVE  IInv'
<1> USE DEF IInv
<1>1. /\ MonitorOK' /\ pass.at = "idle" /\ \A c \in Containers : scheduled[c] = 0
      /\ states' = states /\ gpuEntitled' = gpuEntitled /\ suppressed' = suppressed
      /\ task' = task /\ gpuOf' = gpuOf /\ upFor' = upFor /\ redeployed' = redeployed /\ scheduled' = scheduled
  BY PassType DEF Pass, ListContainers, PassStep, EnvOK, runtimeVars
<1>2. loop' = loop
  BY <1>1, NothingScheduled
<1>3. /\ pass'.at = "listed" /\ pass'.running = {c \in Containers : task[c] = "up"}
      /\ pass'.unresolved = {} /\ pass'.found = [c \in Containers |-> None]
  BY DEF ListContainers, NoPass
<1>4. EnvOK'
  BY <1>1, <1>2 DEF EnvOK
<1>5. ASSUME NEW c \in Containers PROVE LoopOK(c)'
  <2>1. LoopOK(c)
    BY DEF LoopInv
  <2>2. Dated(c)' /\ Idling(c)' /\ Sighted(c)' /\ Settled(c)'
    BY <1>1, <1>2, <2>1 DEF LoopOK, Dated, Idling, Sighted, Settled, Registered
  <2>3. Climbed(c)'
    BY <1>1, <1>2, <2>1 DEF LoopOK, Climbed, KeptUp, Registered
  <2>4. Missed(c)'
    BY <1>1, <1>3, <2>1 DEF LoopOK, Dated, Missed
  <2>5. Forgiven(c)'
    <3> SUFFICES ASSUME task[c] = "up", Registered(c), states[c].RunningSince = Window
                 PROVE  loop[c].n = 0
      BY <1>1, <1>2, <1>3 DEF Forgiven, Registered
    <3>1. upFor[c] # None /\ upFor[c] \in {None} \cup 0 .. Window
      BY <2>1 DEF LoopOK, Dated, EnvOK
    <3>2. Window <= upFor[c]
      BY <2>1, <3>1, Numbers DEF LoopOK, Sighted
    <3>3. upFor[c] = Window
      BY <3>1, <3>2, Numbers
    <3> QED BY <2>1, <3>3 DEF LoopOK, Settled
  <2> QED BY <2>2, <2>3, <2>4, <2>5 DEF LoopOK
<1>6. CrashLoopSlows'
  BY <1>2 DEF CrashLoopSlows
<1>7. FoundInv'
  BY <1>1, <1>3 DEF FoundInv, Each
<1>8. GPUCacheFresh'
  BY <1>1 DEF GPUCacheFresh
<1> QED BY <1>1, <1>4, <1>5, <1>6, <1>7, <1>8 DEF LoopInv

\* The steps of resolveGPUEntitlements move nothing but the answers.
LEMMA ResolvingFrame ==
  ASSUME IInv, Pass, CaptureUnresolved \/ \E c \in Containers : LookupGPU(c) \/ CommitGPU(c)
  PROVE  /\ MonitorOK' /\ EnvOK' /\ LoopInv' /\ CrashLoopSlows'
         /\ gpuOf' = gpuOf /\ redeployed' = redeployed
<1> USE DEF IInv
<1>1. /\ states' = states /\ suppressed' = suppressed
      /\ task' = task /\ gpuOf' = gpuOf /\ upFor' = upFor /\ redeployed' = redeployed /\ scheduled' = scheduled
  BY DEF Pass, CaptureUnresolved, LookupGPU, CommitGPU, runtimeVars
<1>2. MonitorOK'
  BY PassType DEF Pass, PassStep, EnvOK
<1>3. loop' = loop
  BY <1>1, NothingScheduled
<1>4. EnvOK'
  BY <1>1, <1>3 DEF EnvOK
<1>5. (pass'.at = "idle" <=> pass.at = "idle") /\ pass'.running = pass.running
  BY DEF CaptureUnresolved, LookupGPU, CommitGPU, MonitorOK, Passes
<1>6. LoopInv'
  <2>1. \A c \in Containers : Untouched(c)
    BY <1>1, <1>3, <1>5 DEF Untouched
  <2> QED BY <2>1, Frame DEF LoopInv
<1>7. CrashLoopSlows'
  BY <1>3 DEF CrashLoopSlows
<1> QED BY <1>1, <1>2, <1>4, <1>6, <1>7

LEMMA CaptureStep ==
  ASSUME IInv, Pass, CaptureUnresolved
  PROVE  IInv'
<1> USE DEF IInv
<1>1. /\ MonitorOK' /\ EnvOK' /\ LoopInv' /\ CrashLoopSlows'
      /\ gpuOf' = gpuOf /\ redeployed' = redeployed
  BY ResolvingFrame
<1>2. pass.found = Each(None) /\ pass'.found = pass.found /\ pass'.at = "resolving"
  BY DEF CaptureUnresolved, FoundInv, MonitorOK, Passes
<1>3. FoundInv'
  BY <1>2 DEF FoundInv, Each
<1>4. GPUCacheFresh'
  BY <1>1 DEF GPUCacheFresh, CaptureUnresolved
<1> QED BY <1>1, <1>3, <1>4

LEMMA LookupStep ==
  ASSUME IInv, Pass, NEW c \in Containers, LookupGPU(c)
  PROVE  IInv'
<1> USE DEF IInv
<1>1. /\ MonitorOK' /\ EnvOK' /\ LoopInv' /\ CrashLoopSlows'
      /\ gpuOf' = gpuOf /\ redeployed' = redeployed
  BY ResolvingFrame
<1>2. pass.at = "resolving"
  BY DEF LookupGPU, FoundInv
<1>3. /\ pass'.at = "resolving" /\ pass'.replaced = pass.replaced
      /\ pass'.found = pass.found \/ pass'.found = [pass.found EXCEPT ![c] = gpuOf[c]]
      /\ pass.found \in [Containers -> {None} \cup BOOLEAN]
  BY <1>2 DEF LookupGPU, MonitorOK, Passes
<1>4. FoundInv'
  BY <1>1, <1>3 DEF FoundInv
<1>5. GPUCacheFresh'
  BY <1>1 DEF GPUCacheFresh, LookupGPU
<1> QED BY <1>1, <1>4, <1>5

\* An answer is committed only for the registration it was asked for.
LEMMA CommitStep ==
  ASSUME IInv, Pass, NEW c \in Containers, CommitGPU(c)
  PROVE  IInv'
<1> USE DEF IInv
<1>1. /\ MonitorOK' /\ EnvOK' /\ LoopInv' /\ CrashLoopSlows'
      /\ gpuOf' = gpuOf /\ redeployed' = redeployed
  BY ResolvingFrame
<1>2. pass.at = "resolving" /\ pass.found[c] # None
  BY DEF CommitGPU, FoundInv
<1>3. /\ pass'.at = "resolving" /\ pass'.replaced = pass.replaced
      /\ pass'.found = [pass.found EXCEPT ![c] = None]
      /\ pass.found \in [Containers -> {None} \cup BOOLEAN]
  BY <1>2 DEF CommitGPU, MonitorOK, Passes
<1>4. FoundInv'
  BY <1>1, <1>3 DEF FoundInv
<1>5. GPUCacheFresh'
  <2> SUFFICES ASSUME NEW d \in Containers, gpuEntitled'[d] # None, ~redeployed[d]
               PROVE  gpuEntitled'[d] = gpuOf[d]
    BY <1>1 DEF GPUCacheFresh
  <2>1. CASE d = c /\ c \notin pass.replaced
    <3>1. gpuEntitled'[d] = pass.found[d]
      BY <2>1 DEF CommitGPU, MonitorOK
    <3> QED BY <1>2, <2>1, <3>1 DEF FoundInv
  <2>2. CASE ~(d = c /\ c \notin pass.replaced)
    <3>1. gpuEntitled'[d] = gpuEntitled[d]
      BY <2>2 DEF CommitGPU, MonitorOK
    <3> QED BY <3>1 DEF GPUCacheFresh
  <2> QED BY <2>1, <2>2
<1> QED BY <1>1, <1>4, <1>5

-----------------------------------------------------------------------------
(* planRestarts: the step the loop's age depends on.                       *)

\* A restart that has waited for the delay of its level leaves a level, and a
\* loop, that keep up.
LEMMA Climb ==
  ASSUME NEW level \in Nat, NEW last \in Nat, NEW n \in 0 .. MaxLoop, NEW age \in 0 .. LoopSpan[MaxLoop],
         KeptUp(level, last, n, age), last >= restartDelay(level), n # MaxLoop
  PROVE  KeptUp(IF restartDelay(level) < Cap THEN level + 1 ELSE level, 0,
                n + 1, IF n = 0 THEN 0 ELSE age)
<1>1. n \in Nat /\ age \in Nat /\ LoopSpan[n] \in Nat /\ restartDelay(level) \in Nat /\ restartDelay(n) \in Nat
  BY Numbers, SpanDef, DelayRange
<1>2. restartDelay(IF restartDelay(level) < Cap THEN level + 1 ELSE level) >= restartDelay(n + 1)
  <2>1. n >= 1 => restartDelay(level) >= restartDelay(n)
    BY DEF KeptUp
  <2> QED BY <1>1, <2>1, LevelKeepsUp
<1>3. CASE n = 0
  <2>1. LoopSpan[n + 1] = 0
    BY <1>3, SpanDef
  <2> QED BY <1>2, <1>3, <2>1 DEF KeptUp
<1>4. CASE n # 0
  <2>1. n >= 1
    BY <1>1, <1>4
  <2>2. /\ restartDelay(level) >= restartDelay(n) /\ LoopSpan[n + 1] = LoopSpan[n] + restartDelay(n)
        /\ age >= LoopSpan[n] + last \/ age = LoopSpan[MaxLoop]
    BY <1>1, <2>1, SpanDef DEF KeptUp
  <2>3. age >= LoopSpan[n + 1] + 0 \/ age = LoopSpan[MaxLoop]
    BY <1>1, <2>2
  <2> QED BY <1>2, <1>4, <2>3 DEF KeptUp
<1> QED BY <1>3, <1>4

\* Past the counted restarts only the level matters.
LEMMA ClimbOn ==
  ASSUME NEW level \in Nat, NEW last, NEW age, KeptUp(level, last, MaxLoop, age)
  PROVE  KeptUp(IF restartDelay(level) < Cap THEN level + 1 ELSE level, 0, MaxLoop, LoopSpan[MaxLoop])
<1>1. restartDelay(level) >= restartDelay(MaxLoop)
  BY Numbers DEF KeptUp
<1>2. restartDelay(IF restartDelay(level) < Cap THEN level + 1 ELSE level) >= restartDelay(MaxLoop)
  BY <1>1, LevelKeepsUp, Numbers
<1> QED BY <1>2 DEF KeptUp

LEMMA PlanStep ==
  ASSUME IInv, Pass, planRestarts
  PROVE  IInv'
<1> USE DEF IInv
<1> DEFINE Top == LoopSpan[MaxLoop]
<1>1. MonitorOK'
  BY PassType DEF Pass, PassStep, EnvOK
<1>2. /\ gpuEntitled' = gpuEntitled /\ suppressed' = suppressed /\ task' = task /\ gpuOf' = gpuOf
      /\ upFor' = upFor /\ redeployed' = redeployed /\ pass' = NoPass /\ pass'.at = "idle"
      /\ pass.at # "idle" /\ pass'.unresolved = {} /\ pass'.found = [c \in Containers |-> None]
  BY DEF Pass, planRestarts, runtimeVars, NoPass
<1>3. ASSUME NEW c \in Containers
      PROVE  /\ scheduled[c] = 0
             /\ loop[c] \in [n : 0 .. MaxLoop, age : 0 .. Top]
             /\ loop[c].n \in 0 .. MaxLoop /\ loop[c].age \in 0 .. Top
             /\ Registered(c) => /\ states[c] \in containerState
                                 /\ states[c].BackoffLevel \in Nat /\ states[c].LastRestart \in Nat
             /\ upFor[c] \in {None} \cup 0 .. Window
             /\ LoopOK(c)
  <2>1. LoopOK(c)
    BY DEF LoopInv
  <2>2. scheduled[c] \in Nat
    BY ScheduleAssumption DEF MonitorOK
  <2>3. scheduled[c] = 0
    BY <1>2, <2>1, <2>2 DEF LoopOK, Idling
  <2>4. loop[c] \in [n : 0 .. MaxLoop, age : 0 .. Top] /\ upFor[c] \in {None} \cup 0 .. Window
    BY DEF EnvOK
  <2>5. Registered(c) => states[c] \in containerState
    BY DEF MonitorOK, Registered
  <2>6. TopLevel \in Nat /\ Cap \in Nat
    BY TopLevelDef, Numbers
  <2>7. ASSUME NEW s \in containerState PROVE s.BackoffLevel \in Nat /\ s.LastRestart \in Nat
    <3>1. s.BackoffLevel \in 0 .. TopLevel /\ s.LastRestart \in 0 .. Cap
      BY DEF containerState
    <3> QED BY <2>6, <3>1
  <2> QED BY <2>1, <2>3, <2>4, <2>5, <2>7
<1>4. ASSUME NEW c \in Containers, c \notin Planned
      PROVE  /\ scheduled'[c] = 0 /\ loop'[c] = loop[c]
             /\ Registered(c)' => /\ Registered(c)
                                  /\ states'[c] = IF c \in pass.running THEN SeenRunning(states[c])
                                                  ELSE SeenDown(states[c])
  <2>1. scheduled'[c] = 0
    BY <1>3, <1>4 DEF planRestarts
  <2>2. loop'[c] = loop[c]
    <3>1. scheduled'[c] <= scheduled[c]
      BY <1>3, <2>1
    <3> QED BY <3>1 DEF Pass
  <2> HIDE DEF Planned
  <2> QED BY <1>4, <2>1, <2>2 DEF planRestarts, Registered
<1>5. ASSUME NEW c \in Containers, c \in Planned
      PROVE  /\ scheduled'[c] = 1 /\ Registered(c) /\ c \notin pass.running
             /\ states'[c] = Counted(SeenDown(states[c]))
             /\ loop'[c] = IF loop[c].n = MaxLoop THEN [loop[c] EXCEPT !.age = Top]
                           ELSE [loop[c] EXCEPT !.n = @ + 1, !.age = IF loop[c].n = 0 THEN 0 ELSE @]
             /\ states[c].LastRestart >= restartDelay(states[c].BackoffLevel)
  <2>1. scheduled'[c] = 1
    BY <1>3, <1>5 DEF planRestarts
  <2>2. Registered(c) /\ c \notin pass.running /\ Due(c, SeenDown(states[c]))
    BY <1>5 DEF Planned
  <2>3. states'[c] = Counted(SeenDown(states[c]))
    <3> HIDE DEF Planned
    <3> QED BY <1>5, <2>2 DEF planRestarts
  <2>4. ~(scheduled'[c] <= scheduled[c])
    BY <1>3, <2>1
  <2>5. loop'[c] = IF loop[c].n = MaxLoop THEN [loop[c] EXCEPT !.age = Top]
                   ELSE [loop[c] EXCEPT !.n = @ + 1, !.age = IF loop[c].n = 0 THEN 0 ELSE @]
    BY <2>4 DEF Pass
  <2>6. states[c].LastRestart >= restartDelay(states[c].BackoffLevel)
    BY <1>3, <2>2 DEF Due, SeenDown, containerState
  <2> QED BY <2>1, <2>2, <2>3, <2>5, <2>6
<1>6. ASSUME NEW c \in Containers, c \in Planned
      PROVE  /\ loop'[c].n = IF loop[c].n = MaxLoop THEN MaxLoop ELSE loop[c].n + 1
             /\ loop'[c].age = IF loop[c].n = MaxLoop THEN Top
                               ELSE IF loop[c].n = 0 THEN 0 ELSE loop[c].age
             /\ loop'[c] \in [n : 0 .. MaxLoop, age : 0 .. Top]
  <2>1. Top \in Nat /\ MaxLoop \in Nat
    BY Numbers
  <2> HIDE DEF Top
  <2>2. CASE loop[c].n = MaxLoop
    <3>1. loop'[c] = [loop[c] EXCEPT !.age = Top]
      BY <1>5, <1>6, <2>2
    <3>2. loop[c] \in [n : 0 .. MaxLoop, age : 0 .. Top]
      BY <1>3
    <3>3. Top \in 0 .. Top
      BY <2>1
    <3> QED BY <2>2, <3>1, <3>2, <3>3
  <2>3. CASE loop[c].n # MaxLoop
    <3>1. loop[c].n + 1 \in 0 .. MaxLoop /\ (IF loop[c].n = 0 THEN 0 ELSE loop[c].age) \in 0 .. Top
      BY <1>3, <2>1, <2>3
    <3>2. loop'[c] = [loop[c] EXCEPT !.n = @ + 1, !.age = IF loop[c].n = 0 THEN 0 ELSE @]
      BY <1>5, <1>6, <2>3
    <3>3. loop[c] \in [n : 0 .. MaxLoop, age : 0 .. Top]
      BY <1>3
    <3> QED BY <2>3, <3>1, <3>2, <3>3
  <2> QED BY <2>2, <2>3
<1>7. ASSUME NEW c \in Containers, c \in Planned
      PROVE  /\ states'[c].RunningSince = None /\ states'[c].LastRestart = 0
             /\ states'[c].BackoffLevel = IF restartDelay(states[c].BackoffLevel) < Cap
                                          THEN states[c].BackoffLevel + 1 ELSE states[c].BackoffLevel
  <2>1. states[c] \in containerState /\ states'[c] = Counted(SeenDown(states[c]))
    BY <1>3, <1>5, <1>7
  <2>2. SeenDown(states[c]) \in containerState
    BY <2>1, SeenType
  <2>3. /\ SeenDown(states[c]).RunningSince = None
        /\ SeenDown(states[c]).BackoffLevel = states[c].BackoffLevel
    BY <2>1 DEF SeenDown, containerState
  <2>4. ASSUME NEW s \in containerState
        PROVE  /\ Counted(s).RunningSince = s.RunningSince /\ Counted(s).LastRestart = 0
               /\ Counted(s).BackoffLevel = IF restartDelay(s.BackoffLevel) < Cap
                                            THEN s.BackoffLevel + 1 ELSE s.BackoffLevel
    BY DEF Counted, containerState
  <2> QED BY <2>1, <2>2, <2>3, <2>4
<1>8. EnvOK'
  <2>1. \A c \in Containers : loop'[c] \in [n : 0 .. MaxLoop, age : 0 .. Top]
    BY <1>3, <1>4, <1>6
  <2>2. loop' \in [Containers -> [n : 0 .. MaxLoop, age : 0 .. LoopSpan[MaxLoop]]]
    BY <2>1 DEF Pass
  <2> QED BY <1>2, <2>2 DEF EnvOK
<1> HIDE DEF Planned
<1>9. ASSUME NEW c \in Containers PROVE LoopOK(c)' /\ loop'[c].age >= LoopSpan[loop'[c].n]
  <2>1. /\ Dated(c) /\ Sighted(c) /\ Missed(c) /\ Settled(c) /\ Forgiven(c) /\ Climbed(c)
        /\ loop[c].age >= LoopSpan[loop[c].n]
    BY <1>3 DEF LoopOK, CrashLoopSlows
  <2>2. Dated(c)' /\ Missed(c)' /\ Forgiven(c)'
    BY <1>2, <2>1 DEF Dated, Missed, Forgiven
  <2>3. CASE c \in Planned
    <3>1. Idling(c)' /\ Sighted(c)'
      BY <1>2, <1>7, <2>3 DEF Idling, Sighted
    <3>2. upFor[c] # Window
      <4>1. upFor[c] \in {None, 0}
        BY <1>2, <1>5, <2>1, <2>3 DEF Missed
      <4> QED BY <4>1, Numbers
    <3>3. Settled(c)'
      BY <1>2, <3>2 DEF Settled
    <3>4. KeptUp(states[c].BackoffLevel, states[c].LastRestart, loop[c].n, loop[c].age)
      BY <1>5, <2>1, <2>3 DEF Climbed
    <3>5. KeptUp(states'[c].BackoffLevel, states'[c].LastRestart, loop'[c].n, loop'[c].age)
      <4> DEFINE level == states[c].BackoffLevel
                 last == states[c].LastRestart
                 n == loop[c].n
                 age == loop[c].age
      <4>1. /\ level \in Nat /\ last \in Nat /\ n \in 0 .. MaxLoop /\ age \in 0 .. LoopSpan[MaxLoop]
            /\ last >= restartDelay(level) /\ KeptUp(level, last, n, age)
        BY <1>3, <1>5, <2>3, <3>4
      <4>2. /\ states'[c].BackoffLevel = IF restartDelay(level) < Cap THEN level + 1 ELSE level
            /\ states'[c].LastRestart = 0
        BY <1>7, <2>3
      <4>3. CASE n = MaxLoop
        <5>1. loop'[c].n = MaxLoop /\ loop'[c].age = LoopSpan[MaxLoop]
          BY <1>6, <2>3, <4>3
        <5> HIDE DEF level, last, n, age
        <5>2. KeptUp(IF restartDelay(level) < Cap THEN level + 1 ELSE level, 0, MaxLoop, LoopSpan[MaxLoop])
          BY <4>1, <4>3, ClimbOn
        <5> QED BY <4>2, <5>1, <5>2
      <4>4. CASE n # MaxLoop
        <5>1. loop'[c].n = n + 1 /\ loop'[c].age = IF n = 0 THEN 0 ELSE age
          BY <1>6, <2>3, <4>4
        <5> HIDE DEF level, last, n, age
        <5>2. KeptUp(IF restartDelay(level) < Cap THEN level + 1 ELSE level, 0,
                     n + 1, IF n = 0 THEN 0 ELSE age)
          BY <4>1, <4>4, Climb
        <5> QED BY <4>2, <5>1, <5>2
      <4> QED BY <4>3, <4>4
    <3>6. loop'[c].age >= LoopSpan[loop'[c].n]
      <4>1. loop'[c].n \in 0 .. MaxLoop /\ loop'[c].n >= 1 /\ loop'[c].age \in Nat
        BY <1>3, <1>6, <2>3, Numbers
      <4>2. LoopSpan[loop'[c].n] <= Top /\ LoopSpan[loop'[c].n] \in Nat /\ Top \in Nat
        BY <4>1, SpanGrows, Numbers
      <4>3. loop'[c].age >= LoopSpan[loop'[c].n] + 0 \/ loop'[c].age = Top
        BY <1>7, <2>3, <3>5, <4>1 DEF KeptUp
      <4> HIDE DEF Top
      <4> QED BY <4>1, <4>2, <4>3
    <3>7. Climbed(c)'
      BY <3>5 DEF Climbed, KeptUp
    <3> QED BY <2>2, <3>1, <3>3, <3>6, <3>7 DEF LoopOK
  <2>4. CASE c \notin Planned
    <3>1. Idling(c)'
      BY <1>4, <2>4 DEF Idling
    <3>2. Settled(c)' /\ loop'[c].age >= LoopSpan[loop'[c].n]
      BY <1>2, <1>4, <2>1, <2>4 DEF Settled
    <3>3. Sighted(c)'
      <4> SUFFICES ASSUME Registered(c)', states'[c].RunningSince # None, upFor[c] # None
                   PROVE  states'[c].RunningSince <= upFor[c]
        BY <1>2 DEF Sighted
      <4>1. Registered(c) /\ states[c] \in containerState /\ c \in pass.running
        BY <1>3, <1>4, <2>4 DEF SeenDown, containerState
      <4>2. states'[c].RunningSince = IF states[c].RunningSince = None THEN 0 ELSE states[c].RunningSince
        BY <1>4, <2>4, <4>1 DEF SeenRunning, containerState
      <4>3. upFor[c] \in Nat
        BY <1>3, Numbers
      <4> QED BY <2>1, <4>1, <4>2, <4>3 DEF Sighted
    <3>4. Climbed(c)'
      <4> SUFFICES ASSUME Registered(c)', loop[c].n >= 1
                   PROVE  KeptUp(states'[c].BackoffLevel, states'[c].LastRestart, loop[c].n, loop[c].age)
        BY <1>4, <2>4 DEF Climbed, KeptUp
      <4>1. Registered(c) /\ states[c] \in containerState
        BY <1>3, <1>4, <2>4
      <4>2. c \in pass.running => states[c].RunningSince # Window
        BY <1>2, <2>1, <4>1 DEF Forgiven
      <4>3. states'[c].BackoffLevel = states[c].BackoffLevel /\ states'[c].LastRestart = states[c].LastRestart
        BY <1>4, <2>4, <4>1, <4>2 DEF SeenRunning, SeenDown, containerState
      <4> QED BY <2>1, <4>1, <4>3 DEF Climbed
    <3> QED BY <2>2, <3>1, <3>2, <3>3, <3>4 DEF LoopOK
  <2> QED BY <2>3, <2>4
<1>10. FoundInv'
  BY <1>2 DEF FoundInv, Each
<1>11. GPUCacheFresh'
  BY <1>2 DEF GPUCacheFresh
<1> QED BY <1>1, <1>8, <1>9, <1>10, <1>11 DEF LoopInv, CrashLoopSlows

-----------------------------------------------------------------------------
(* The theorems.                                                           *)

LEMMA InitOK == Init => IInv
<1> SUFFICES ASSUME Init PROVE IInv
  OBVIOUS
<1> USE DEF Init
<1>1. MonitorOK
  BY NewMonitorType
<1>2. /\ \A c \in Containers : /\ states[c] = None /\ suppressed[c] = 0 /\ scheduled[c] = 0
                               /\ gpuEntitled[c] = None /\ upFor[c] = None /\ task[c] = "down"
                               /\ loop[c].n = 0 /\ loop[c].age = 0
      /\ pass.at = "idle" /\ pass.unresolved = {} /\ pass.found = [c \in Containers |-> None]
  BY DEF NewContainerMonitor, Each, NoPass, Fresh
<1>3. EnvOK
  BY <1>2, Numbers DEF EnvOK, Fresh
<1>4. LoopInv
  BY <1>2, Numbers DEF LoopInv, LoopOK, Dated, Idling, Sighted, Missed, Settled, Forgiven, Climbed, Registered
<1>5. CrashLoopSlows
  BY <1>2, SpanDef DEF CrashLoopSlows
<1>6. FoundInv /\ GPUCacheFresh
  BY <1>2 DEF FoundInv, GPUCacheFresh, Each
<1> QED BY <1>1, <1>3, <1>4, <1>5, <1>6 DEF IInv

\* Every step keeps the invariant.
LEMMA StepOK == IInv /\ [Next]_vars => IInv'
<1> SUFFICES ASSUME IInv, [Next]_vars PROVE IInv'
  OBVIOUS
<1>1. CASE Pass
  BY <1>1, ListStep, CaptureStep, LookupStep, CommitStep, PlanStep DEF Pass, PassStep
<1>2. CASE Clock
  BY <1>2, ClockStep
<1>3. ASSUME NEW c \in Containers, UserStep(c) PROVE IInv'
  BY <1>3, UserStartStep, UserUnregistersStep, UserStopStep, TeardownStep, RedeployStep DEF UserStep
<1>4. ASSUME NEW c \in Containers, Die(c) \/ RestartSkipped(c) \/ RestartStarted(c) PROVE IInv'
  BY <1>4, DieStep, RestartStep
<1>5. CASE UNCHANGED vars
  BY <1>5 DEF vars, monitorVars, runtimeVars, history, IInv, MonitorOK, EnvOK, LoopInv, LoopOK, Dated, Idling,
     Sighted, Missed, Settled, Forgiven, Climbed, KeptUp, Registered, CrashLoopSlows, FoundInv, GPUCacheFresh, Each
<1> QED BY <1>1, <1>2, <1>3, <1>4, <1>5 DEF Next

\* The inductive invariant of the monitor in a free environment.
THEOREM LoopInvariance == Spec => []IInv
BY InitOK, StepOK, PTL DEF Spec

\* The state is well typed: counters stay in their bounds, and the level stops where
\* the delay is the cap, whatever the environment does (restartDelay, planRestarts).
THEOREM LoopTypeCorrect == Spec => []TypeOK
<1>1. IInv => TypeOK
  BY DEF IInv, MonitorOK, EnvOK, TypeOK, MonitorTypeOK
<1> QED BY <1>1, LoopInvariance, PTL

\* The delays of a crash loop add up, for any number of restarts, any base, cap and
\* stability window, whatever the listings miss (restartDelay, planRestarts).
THEOREM LoopsSlowDown == Spec => []CrashLoopSlows
<1>1. IInv => CrashLoopSlows
  BY DEF IInv
<1> QED BY <1>1, LoopInvariance, PTL

\* A cached gpu answer belongs to the registration in force, whatever lookup was in
\* flight when it was made (Register, Unregister, resolveGPUEntitlements).
THEOREM CacheIsFresh == Spec => []GPUCacheFresh
<1>1. IInv => GPUCacheFresh
  BY DEF IInv
<1> QED BY <1>1, LoopInvariance, PTL
=============================================================================
