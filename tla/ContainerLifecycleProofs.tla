---------------------- MODULE ContainerLifecycleProofs ----------------------
(***************************************************************************)
(* Proofs about one app container between the restart monitor, the start   *)
(* and stop requests and the boot reconciliation, for any number of        *)
(* requests, crashes and refused label updates.                            *)
(*                                                                         *)
(* StopHolds is not inductive: that a stopped container stays down rests   *)
(* on the mark and the label that the stop left, on what a listing or a    *)
(* restart already under way knows, and, for the stop itself, on the lock  *)
(* and the flag that keep every start out of the teardown.                 *)
(***************************************************************************)
EXTENDS ContainerLifecycle, MonitorProofs

\* A stop that no start request overlaps and no race has undone is under way.
Guards(n) == stop[n].at \in Active /\ ~stop[n].overlap /\ stop[n].undone = {}

\* One has been acknowledged, and nothing but a restart past its re-check has
\* come in its way.
Acked == wantDown /\ late \subseteq {"check"}

Guarded == Acked \/ \E n \in Names : Guards(n)

\* A stop holds exactly one handle, from Suppress to the deferred resume.
Tearing(n) == stop[n].at \in {"teardown", "cleanup", "resume"}
HandleInv == suppressed[App] = IF \E n \in Names : Tearing(n) THEN 1 ELSE 0

\* Who holds the network-operation lock is where its holder's program says, and
\* so is who has set appStopping: one stop at most, under either name.
Locked(n) == \/ stop[n].at \in {"suppress", "teardown", "cleanup", "resume"}
             \/ stop[n].at = "claim" /\ n = "container"
Claimed(n) == \/ stop[n].at \in {"suppress", "teardown", "cleanup"}
              \/ stop[n].at = "lock" /\ n = "app"
LockInv ==
  /\ \A n \in Names : Locked(n) <=> lock = n
  /\ \A p \in Callers : call[p].at = "held" <=> lock = p
FlagInv ==
  /\ appStopping <=> \E n \in Names : Claimed(n)
  /\ \A m, n \in Names : Claimed(m) /\ Claimed(n) => m = n

\* What keeps a guarded container down, unless one of the races happened.
GuardInv ==
  /\ wantDown => call["user"].at = "idle"
  /\ \A n \in Names : stop[n].at \in Active /\ ~stop[n].overlap => call["user"].at = "idle"
  /\ Guarded =>
       /\ Registered(App) => states[App].ExplicitStop
       /\ call["monitor"].at # "idle" => call["monitor"].raced
       /\ boot.at = "register" /\ boot.keep => boot.raced
  /\ Acked => label
  /\ \A n \in Names : Guards(n) /\ stop[n].at # "persist" /\ stop[n].persisted => label

Calls == [at : {"idle", "wait", "held", "clear", "unlabel", "register"}, raced : BOOLEAN]
StopSteps == Active \cup {"idle", "unmark", "unlabel"}
Stops == [at : StopSteps, persisted : BOOLEAN, failed : BOOLEAN, overlap : BOOLEAN,
          undone : SUBSET (Races \ {"check"})]
Boots == [at : {"list", "register", "done"}, keep : BOOLEAN, raced : BOOLEAN]
Budgets == [requests : 0 .. MaxRequests, mishaps : 0 .. MaxMishaps]

CallsOK ==
  /\ call \in [Callers -> Calls]
  /\ call["monitor"].at \in {"idle", "wait", "held"}
  /\ ~call["user"].raced

\* The part of the type that the monitor's operations leave alone.
EnvOK ==
  /\ task \in [Containers -> {"up", "down"}]
  /\ gpuOf \in [Containers -> BOOLEAN]
  /\ label \in BOOLEAN /\ appStopping \in BOOLEAN
  /\ lock \in {None} \cup Names \cup Callers
  /\ CallsOK
  /\ stop \in [Names -> Stops]
  /\ boot \in Boots
  /\ budget \in Budgets
  /\ wantDown \in BOOLEAN
  /\ late \subseteq Races

\* The inductive invariant.
IInv == /\ MonitorOK /\ EnvOK /\ HandleInv /\ LockInv /\ FlagInv /\ GuardInv
        /\ StopHolds /\ TeardownExclusive

LEMMA IInvImplies == IInv => TypeOK /\ StopHolds /\ TeardownExclusive /\ NothingLeaked
<1> SUFFICES ASSUME IInv PROVE TypeOK /\ NothingLeaked
  BY DEF IInv
<1>1. suppressed[App] \in {0, 1}
  BY DEF IInv, HandleInv
<1>2. MonitorTypeOK
  BY DEF IInv, MonitorOK, EnvOK, MonitorTypeOK
<1>3. TypeOK
  BY <1>1, <1>2 DEF IInv, EnvOK, CallsOK, Calls, Stops, StopSteps, Boots, Budgets, TypeOK
<1>4. NothingLeaked
  BY LockAssumption
     DEF IInv, EnvOK, HandleInv, Tearing, LockInv, Locked, FlagInv, Claimed, NothingLeaked
<1> QED BY <1>3, <1>4

LEMMA InitInv == Init => IInv
<1> SUFFICES ASSUME Init PROVE IInv
  OBVIOUS
<1>1. MonitorOK
  BY NewMonitorType DEF Init
<1>2. budget \in Budgets
  BY BoundsAssumption DEF Init, Budgets
<1>3. \A n \in Names : stop[n] \in Stops /\ stop[n].at = "idle"
  BY DEF Init, NoStop, Stops, StopSteps
<1>4. EnvOK
  BY <1>2, <1>3 DEF Init, EnvOK, CallsOK, Calls, Boots, NoCall, NoBoot, Callers
<1>5. HandleInv /\ LockInv /\ FlagInv
  BY <1>3, AppAssumption, LockAssumption
     DEF Init, NewContainerMonitor, Each, HandleInv, Tearing, LockInv, Locked, FlagInv, Claimed,
         NoCall, Callers
<1>6. ~Guarded /\ GuardInv
  BY <1>3 DEF Init, GuardInv, Guarded, Guards, Acked, Active
<1>7. StopHolds /\ TeardownExclusive
  BY <1>3 DEF Init, StopHolds, TeardownExclusive
<1> QED BY <1>1, <1>4, <1>5, <1>6, <1>7 DEF IInv

-----------------------------------------------------------------------------
(* Start requests. *)

LEMMA GoesType ==
  ASSUME CallsOK, NEW p \in Callers, Returns(p) \/ Goes(p, "wait") \/ Goes(p, "held")
  PROVE  CallsOK'
<1> USE DEF CallsOK, Calls, Callers
<1>1. CASE Returns(p)
  BY <1>1 DEF Returns, NoCall
<1>2. CASE Goes(p, "wait")
  BY <1>2 DEF Goes
<1>3. CASE Goes(p, "held")
  BY <1>3 DEF Goes
<1> QED BY <1>1, <1>2, <1>3

LEMMA UserGoesType ==
  ASSUME CallsOK, NEW at \in {"clear", "unlabel", "register"}, Goes("user", at)
  PROVE  CallsOK'
BY DEF CallsOK, Calls, Goes, Callers

LEMMA LabelType ==
  ASSUME EnvOK, NEW b \in BOOLEAN, NEW ok \in BOOLEAN, SetStoppedByUser(b, ok)
  PROVE  label' \in BOOLEAN /\ budget' \in Budgets
<1>1. label' \in BOOLEAN
  BY DEF EnvOK, SetStoppedByUser
<1>2. budget.mishaps > 0 => [budget EXCEPT !.mishaps = @ - 1] \in Budgets
  BY BoundsAssumption DEF EnvOK, Budgets
<1> QED BY <1>1, <1>2 DEF EnvOK, SetStoppedByUser

\* What is said of the stops alone stays true while they and what they hold do.
LEMMA StopsKept ==
  ASSUME HandleInv, FlagInv, UNCHANGED <<suppressed, stop, appStopping>>
  PROVE  HandleInv' /\ FlagInv'
BY DEF HandleInv, Tearing, FlagInv, Claimed

LEMMA StartLockInv ==
  ASSUME IInv, NEW p \in Callers, StartLock(p)
  PROVE  IInv'
<1> USE DEF IInv
<1>1. MonitorOK'
  BY DEF StartLock, monitorVars, MonitorOK
<1>2. EnvOK'
  <2>1. CallsOK'
    BY GoesType DEF StartLock, EnvOK
  <2>2. lock' \in {None} \cup Names \cup Callers
    BY DEF StartLock, EnvOK
  <2> QED BY <2>1, <2>2 DEF StartLock, runtimeVars, EnvOK
<1>3. HandleInv' /\ FlagInv'
  BY StopsKept DEF StartLock, monitorVars
<1>4. StopHolds' /\ TeardownExclusive'
  BY DEF StartLock, runtimeVars, StopHolds, TeardownExclusive, Up
<1>5. LockInv'
  <2>1. \A n \in Names : ~Locked(n) /\ Locked(n)' = Locked(n)
    BY LockAssumption DEF StartLock, LockInv, Locked
  <2>2. \A n \in Names : lock' # n
    BY LockAssumption DEF StartLock, Names, Callers
  <2>3. \A q \in Callers : call'[q].at = "held" <=> lock' = q
    BY LockAssumption DEF CallsOK, Calls, Goes, Returns, NoCall, StartLock, EnvOK, Callers, LockInv
  <2> QED BY <2>1, <2>2, <2>3 DEF LockInv
<1>6. GuardInv'
  <2>1. /\ call["user"].at = "idle" => call'["user"].at = "idle"
        /\ call'["monitor"].at # "idle" =>
             call["monitor"].at # "idle" /\ call'["monitor"].raced = call["monitor"].raced
    BY DEF StartLock, EnvOK, CallsOK, Calls, Goes, Returns, NoCall, Callers
  <2>2. Guarded' = Guarded /\ Acked' = Acked /\ \A n \in Names : Guards(n)' = Guards(n)
    BY DEF StartLock, Guarded, Acked, Guards
  <2> QED BY <2>1, <2>2 DEF StartLock, monitorVars, GuardInv, Registered
<1> QED BY <1>1, <1>2, <1>3, <1>4, <1>5, <1>6

LEMMA StartTaskInv ==
  ASSUME IInv, NEW p \in Callers, StartTask(p)
  PROVE  IInv'
<1> USE DEF IInv
<1>1. MonitorOK'
  BY DEF StartTask, monitorVars, MonitorOK
<1>2. EnvOK'
  <2>1. CallsOK'
    BY GoesType, UserGoesType DEF StartTask, EnvOK, Callers
  <2>2. task' \in [Containers -> {"up", "down"}]
    BY DEF StartTask, EnvOK
  <2>3. late' \subseteq Races /\ lock' \in {None} \cup Names \cup Callers
    BY DEF StartTask, EnvOK, Races, Unlock, Callers
  <2> QED BY <2>1, <2>2, <2>3 DEF StartTask, EnvOK
\* The caller holds the lock, so no stop is past its own lock.
<1>3. lock = p /\ \A n \in Names : lock # n /\ ~Locked(n)
  BY DEF StartTask, LockInv, Callers, Names
<1>4. HandleInv' /\ FlagInv' /\ TeardownExclusive'
  BY <1>3, StopsKept DEF StartTask, monitorVars, Locked, TeardownExclusive
<1>5. LockInv'
  <2>1. \A n \in Names : ~Locked(n)' /\ lock' # n
    BY <1>3, LockAssumption DEF StartTask, Locked, Unlock, Held
  <2>2. \A q \in Callers : call'[q].at = "held" <=> lock' = q
    BY <1>3, LockAssumption
       DEF CallsOK, Calls, Goes, Returns, NoCall, StartTask, EnvOK, Callers, LockInv, Unlock, Held
  <2> QED BY <2>1, <2>2 DEF LockInv
<1>6. GuardInv'
  <2>1. /\ p = "user" => call["user"].at # "idle"
        /\ p = "monitor" => call'["monitor"].at = "idle" /\ call'["user"] = call["user"]
    BY DEF StartTask, EnvOK, CallsOK, Returns, NoCall, Callers
  <2>2. p = "user" => ~wantDown /\ ~Guarded
    BY <2>1 DEF GuardInv, Guarded, Guards, Acked
  <2>3. (Acked' => Acked) /\ \A n \in Names : Guards(n)' = Guards(n)
    BY DEF StartTask, Acked, Guards
  <2>4. p = "user" => GuardInv'
    <3>1. p = "user" => ~wantDown' /\ \A n \in Names : stop[n].at \in Active => stop[n].overlap
      BY <2>1, <2>2 DEF StartTask, GuardInv
    <3> QED BY <3>1, <2>2, <2>3 DEF StartTask, GuardInv, Guarded, Acked, Guards
  <2>5. p = "monitor" => GuardInv'
    BY <2>1, <2>3 DEF StartTask, monitorVars, GuardInv, Guarded, Registered
  <2> QED BY <2>4, <2>5 DEF Callers
\* Under the guard only the monitor can be here, and its check is stale.
<1>7. StopHolds'
  <2> SUFFICES ASSUME wantDown PROVE late' # {}
    BY DEF StartTask, StopHolds
  <2>1. p = "monitor"
    BY DEF StartTask, GuardInv, Callers
  <2>2. late = {} => call["monitor"].raced
    BY <2>1 DEF StartTask, GuardInv, Guarded, Acked
  <2> QED BY <2>1, <2>2 DEF StartTask
<1> QED BY <1>1, <1>2, <1>4, <1>5, <1>6, <1>7

LEMMA StartErrorInv ==
  ASSUME IInv, NEW p \in Callers, StartError(p)
  PROVE  IInv'
<1> USE DEF IInv
<1>1. MonitorOK'
  BY DEF StartError, monitorVars, MonitorOK
<1>2. EnvOK'
  <2>1. CallsOK'
    BY GoesType DEF StartError, EnvOK
  <2>2. task' \in [Containers -> {"up", "down"}]
    BY AppAssumption DEF StartError, EnvOK
  <2>3. lock' \in {None} \cup Names \cup Callers
    BY DEF StartError, EnvOK, Unlock
  <2> QED BY <2>1, <2>2, <2>3 DEF StartError, EnvOK
<1>3. Up' => Up
  BY AppAssumption DEF StartError, EnvOK, Up
<1>4. HandleInv' /\ FlagInv' /\ StopHolds' /\ TeardownExclusive'
  BY <1>3, StopsKept DEF StartError, monitorVars, StopHolds, TeardownExclusive
<1>5. LockInv'
  <2>1. lock = p /\ \A n \in Names : lock # n /\ ~Locked(n)
    BY DEF StartError, LockInv, Callers, Names
  <2>2. \A n \in Names : ~Locked(n)' /\ lock' # n
    BY <2>1, LockAssumption DEF StartError, Locked, Unlock, Held
  <2>3. \A q \in Callers : call'[q].at = "held" <=> lock' = q
    BY <2>1, LockAssumption
       DEF CallsOK, Calls, Returns, NoCall, StartError, EnvOK, Callers, LockInv, Unlock, Held
  <2> QED BY <2>2, <2>3 DEF LockInv
<1>6. GuardInv'
  <2>1. /\ call["user"].at = "idle" => call'["user"].at = "idle"
        /\ call'["monitor"].at # "idle" => call'["monitor"] = call["monitor"]
    BY DEF StartError, EnvOK, CallsOK, Returns, NoCall, Callers
  <2>2. Guarded' = Guarded /\ Acked' = Acked /\ \A n \in Names : Guards(n)' = Guards(n)
    BY DEF StartError, Guarded, Acked, Guards
  <2> QED BY <2>1, <2>2 DEF StartError, monitorVars, GuardInv, Registered
<1> QED BY <1>1, <1>2, <1>4, <1>5, <1>6

\* A start request ends every guard: the user wants the container up.
LEMMA UserStartInv == ASSUME IInv, UserStart PROVE IInv'
<1> USE DEF IInv
<1>1. MonitorOK'
  BY DEF UserStart, monitorVars, MonitorOK
<1>2. \A n \in Names :
        /\ stop'[n] \in Stops
        /\ stop'[n].at = stop[n].at /\ stop'[n].failed = stop[n].failed
        /\ stop'[n].overlap = (stop[n].overlap \/ stop[n].at \in Active)
  BY DEF UserStart, EnvOK, Stops
<1>3. EnvOK'
  <2>1. CallsOK'
    BY GoesType DEF UserStart, EnvOK, Callers
  <2>2. stop' \in [Names -> Stops]
    BY <1>2 DEF UserStart
  <2>3. budget' \in Budgets
    BY BoundsAssumption DEF UserStart, EnvOK, Budgets
  <2> QED BY <2>1, <2>2, <2>3 DEF UserStart, runtimeVars, EnvOK
<1>4. HandleInv' /\ FlagInv'
  <2>1. \A n \in Names : Tearing(n)' = Tearing(n) /\ Claimed(n)' = Claimed(n)
    BY <1>2 DEF Tearing, Claimed
  <2> QED BY <2>1 DEF UserStart, monitorVars, HandleInv, FlagInv
<1>5. StopHolds' /\ TeardownExclusive'
  BY <1>2 DEF UserStart, runtimeVars, StopHolds, TeardownExclusive, Up
<1>6. LockInv'
  <2>1. \A n \in Names : Locked(n)' = Locked(n)
    BY <1>2 DEF Locked
  <2>2. \A q \in Callers : call'[q].at = "held" <=> call[q].at = "held"
    BY DEF UserStart, EnvOK, CallsOK, Calls, Goes, Callers
  <2> QED BY <2>1, <2>2 DEF UserStart, LockInv
<1>7. GuardInv'
  <2>1. ~wantDown' /\ \A n \in Names : stop'[n].at \in Active => stop'[n].overlap
    BY <1>2 DEF UserStart
  <2>2. ~Guarded' /\ ~Acked' /\ \A n \in Names : ~Guards(n)'
    BY <2>1 DEF Guarded, Guards, Acked
  <2> QED BY <2>1, <2>2 DEF GuardInv
<1> QED BY <1>1, <1>3, <1>4, <1>5, <1>6, <1>7

\* The three steps of recordContainerStart: no stop is guarded meanwhile.
LEMMA RecordInv ==
  ASSUME IInv, RecordClear \/ RecordUnlabel \/ RecordRegister
  PROVE  IInv'
<1> USE DEF IInv
<1>1. /\ call["user"].at \notin {"idle", "held"} /\ ~wantDown
      /\ \A n \in Names : stop[n].at \in Active => stop[n].overlap
  BY DEF RecordClear, RecordUnlabel, RecordRegister, GuardInv
<1>2. MonitorOK'
  <2>1. CASE RecordClear
    BY <2>1, AppAssumption, ExplicitStopType DEF RecordClear, ClearExplicitStop
  <2>2. CASE RecordUnlabel
    BY <2>2 DEF RecordUnlabel, monitorVars, MonitorOK
  <2>3. CASE RecordRegister
    BY <2>3, AppAssumption, PolicyAssumption, RegisterType DEF RecordRegister, Policies
  <2> QED BY <2>1, <2>2, <2>3
<1>3. EnvOK'
  <2>1. CallsOK'
    BY GoesType, UserGoesType DEF RecordClear, RecordUnlabel, RecordRegister, EnvOK, Callers
  <2>2. label' \in BOOLEAN /\ budget' \in Budgets
    BY LabelType DEF RecordClear, RecordUnlabel, RecordRegister, EnvOK
  <2> QED BY <2>1, <2>2 DEF RecordClear, RecordUnlabel, RecordRegister, runtimeVars, EnvOK
<1>4. /\ UNCHANGED <<suppressed, task, lock, stop, appStopping, wantDown, late>>
      /\ call'["user"].at # "held" /\ call'["monitor"] = call["monitor"]
  <2>1. UNCHANGED <<suppressed, task, lock, stop, appStopping, wantDown, late>>
    BY DEF RecordClear, RecordUnlabel, RecordRegister, runtimeVars, monitorVars, ClearExplicitStop,
           SetExplicitStop, Register
  <2>2. call'["user"].at # "held" /\ call'["monitor"] = call["monitor"]
    <3> USE DEF EnvOK, CallsOK, Calls, Callers
    <3>1. CASE RecordClear
      BY <3>1 DEF RecordClear, Goes
    <3>2. CASE RecordUnlabel
      BY <3>2 DEF RecordUnlabel, Goes
    <3>3. CASE RecordRegister
      BY <3>3 DEF RecordRegister, Returns, NoCall
    <3> QED BY <3>1, <3>2, <3>3
  <2> QED BY <2>1, <2>2
<1>5. HandleInv' /\ FlagInv' /\ StopHolds' /\ TeardownExclusive'
  BY <1>4, StopsKept DEF StopHolds, TeardownExclusive, Up
<1>6. LockInv'
  <2>1. \A n \in Names : Locked(n)' = Locked(n)
    BY <1>4 DEF Locked
  <2> QED BY <1>1, <1>4, <2>1 DEF LockInv, Callers
<1>7. GuardInv'
  BY <1>1, <1>4 DEF GuardInv, Guarded, Guards, Acked
<1> QED BY <1>2, <1>3, <1>5, <1>6, <1>7

-----------------------------------------------------------------------------
(* Stop requests. *)

LEMMA StopMarkInv == ASSUME IInv, NEW n \in Names, StopMark(n) PROVE IInv'
<1> USE DEF IInv
<1>1. MonitorOK'
  BY AppAssumption, ExplicitStopType DEF StopMark, MarkExplicitStop
<1>2. /\ stop'[n].at = "persist" /\ stop'[n].overlap = (call["user"].at # "idle")
      /\ stop' \in [Names -> Stops]
      /\ \A m \in Names \ {n} : stop'[m] = stop[m]
  BY DEF StopMark, EnvOK, NoStop, Stops, StopSteps, Active
<1>3. stop[n].at = "idle"
  BY DEF StopMark
<1>4. /\ CallsOK' /\ call'["user"] = call["user"]
      /\ call'["monitor"].at = call["monitor"].at
      /\ call'["monitor"].raced = (call["monitor"].at # "idle")
  BY DEF StopMark, EnvOK, CallsOK, Calls, Callers
<1>5. boot' \in Boots /\ boot'.at = boot.at /\ boot'.keep = boot.keep
      /\ boot'.raced = (boot.at = "register")
  BY DEF StopMark, EnvOK, Boots
<1>6. budget' \in Budgets
  BY BoundsAssumption DEF StopMark, EnvOK, Budgets
<1>7. EnvOK'
  BY <1>2, <1>4, <1>5, <1>6 DEF StopMark, EnvOK, runtimeVars
<1>8. HandleInv' /\ FlagInv' /\ LockInv'
  <2>1. \A m \in Names : Tearing(m)' = Tearing(m) /\ Claimed(m)' = Claimed(m) /\ Locked(m)' = Locked(m)
    BY <1>2, <1>3 DEF Tearing, Claimed, Locked
  <2>2. suppressed' = suppressed /\ lock' = lock /\ appStopping' = appStopping
    BY DEF StopMark, MarkExplicitStop, SetExplicitStop
  <2> QED BY <1>4, <2>1, <2>2 DEF HandleInv, FlagInv, LockInv, Callers
<1>9. StopHolds' /\ TeardownExclusive'
  BY <1>2 DEF StopMark, runtimeVars, StopHolds, TeardownExclusive, Up
\* The mark is on the container, if it is registered, before anything else.
<1>10. Registered(App)' => states'[App].ExplicitStop
  <2>1. CASE Registered(App)
    <3>1. states[App] \in containerState
      BY <2>1, AppAssumption DEF MonitorOK, Registered
    <3>2. states'[App] = [states[App] EXCEPT !.ExplicitStop = TRUE]
      BY <2>1, AppAssumption DEF StopMark, MarkExplicitStop, SetExplicitStop, MonitorOK
    <3> QED BY <3>1, <3>2 DEF containerState
  <2>2. CASE ~Registered(App)
    BY <2>2, AppAssumption DEF StopMark, MarkExplicitStop, SetExplicitStop, MonitorOK, Registered
  <2> QED BY <2>1, <2>2
<1>11. GuardInv'
  <2>1. Acked' = Acked /\ \A m \in Names \ {n} : Guards(m)' = Guards(m)
    BY <1>2 DEF StopMark, Acked, Guards
  <2>2. \A m \in Names : stop'[m].at \in Active /\ ~stop'[m].overlap => call'["user"].at = "idle"
    BY <1>2, <1>4 DEF GuardInv
  <2> QED BY <1>2, <1>4, <1>5, <1>10, <2>1, <2>2 DEF StopMark, GuardInv
<1> QED BY <1>1, <1>7, <1>8, <1>9, <1>11

LEMMA StopPersistInv == ASSUME IInv, NEW n \in Names, StopPersist(n) PROVE IInv'
<1> USE DEF IInv
<1>1. PICK ok \in BOOLEAN :
         /\ SetStoppedByUser(TRUE, ok)
         /\ stop' = [stop EXCEPT ![n].persisted = ok,
                                 ![n].at = IF n = "app" THEN "claim" ELSE "lock"]
  BY DEF StopPersist
<1>2. /\ stop' \in [Names -> Stops]
      /\ stop'[n].persisted = ok /\ stop'[n].overlap = stop[n].overlap
      /\ stop'[n].undone = stop[n].undone
      /\ stop'[n].at = IF n = "app" THEN "claim" ELSE "lock"
      /\ \A m \in Names \ {n} : stop'[m] = stop[m]
  BY <1>1 DEF EnvOK, Stops, StopSteps, Active
<1>3. stop[n].at = "persist"
  BY DEF StopPersist
<1>4. label' \in BOOLEAN /\ budget' \in Budgets
  BY <1>1, LabelType
<1>5. MonitorOK' /\ EnvOK'
  BY <1>2, <1>4 DEF StopPersist, MonitorOK, EnvOK, CallsOK, monitorVars, runtimeVars
<1>6. HandleInv' /\ FlagInv' /\ LockInv'
  <2>1. \A m \in Names : Tearing(m)' = Tearing(m) /\ Claimed(m)' = Claimed(m) /\ Locked(m)' = Locked(m)
    BY <1>2, <1>3 DEF Tearing, Claimed, Locked, Names
  <2> QED BY <2>1 DEF StopPersist, monitorVars, HandleInv, FlagInv, LockInv
<1>7. StopHolds' /\ TeardownExclusive'
  BY <1>2 DEF StopPersist, runtimeVars, StopHolds, TeardownExclusive, Up
<1>8. (ok => label') /\ (label => label')
  BY <1>1 DEF SetStoppedByUser
<1>9. GuardInv'
  <2>1. Acked' = Acked /\ Guarded' = Guarded /\ \A m \in Names : Guards(m)' = Guards(m)
    BY <1>2, <1>3 DEF StopPersist, Guarded, Acked, Guards, Active
  <2>2. \A m \in Names : Guards(m)' /\ stop'[m].persisted /\ stop'[m].at # "persist" => label'
    BY <1>2, <1>8, <2>1 DEF GuardInv
  <2>3. \A m \in Names : stop'[m].at \in Active /\ ~stop'[m].overlap => call["user"].at = "idle"
    BY <1>2, <1>3 DEF GuardInv, Active
  <2> QED BY <1>8, <2>1, <2>2, <2>3 DEF StopPersist, monitorVars, GuardInv, Registered
<1> QED BY <1>5, <1>6, <1>7, <1>9

\* A step that only moves a stop on from one active step to another.
LEMMA GuardKept ==
  ASSUME GuardInv, NEW n \in Names, stop[n].at \in Active \ {"persist"},
         stop'[n].at \in Active \ {"persist"},
         stop'[n].overlap = stop[n].overlap, stop'[n].persisted = stop[n].persisted,
         stop'[n].undone = stop[n].undone, \A m \in Names \ {n} : stop'[m] = stop[m],
         UNCHANGED <<states, call, boot, label, wantDown, late>>
  PROVE  GuardInv'
<1>1. Acked' = Acked /\ Guarded' = Guarded /\ \A m \in Names : Guards(m)' = Guards(m)
  BY DEF Guarded, Acked, Guards
<1>2. \A m \in Names : /\ stop'[m].at \in Active /\ ~stop'[m].overlap => call["user"].at = "idle"
                       /\ Guards(m)' /\ stop'[m].persisted /\ stop'[m].at # "persist" => label
  BY <1>1 DEF GuardInv
<1> QED BY <1>1, <1>2 DEF GuardInv, Registered

LEMMA StopAtEffect ==
  ASSUME stop \in [Names -> Stops], NEW n \in Names, NEW at \in StopSteps, StopAt(n, at)
  PROVE  /\ stop' \in [Names -> Stops] /\ stop'[n].at = at
         /\ stop'[n].overlap = stop[n].overlap /\ stop'[n].persisted = stop[n].persisted
         /\ stop'[n].failed = stop[n].failed /\ stop'[n].undone = stop[n].undone
         /\ \A m \in Names \ {n} : stop'[m] = stop[m]
BY DEF Stops, StopAt

LEMMA StopLockInv == ASSUME IInv, NEW n \in Names, StopLock(n) PROVE IInv'
<1> USE DEF IInv
<1> DEFINE next == IF n = "app" THEN "suppress" ELSE "claim"
<1>1. /\ stop' \in [Names -> Stops] /\ stop'[n].at = next
      /\ stop'[n].overlap = stop[n].overlap /\ stop'[n].persisted = stop[n].persisted
      /\ stop'[n].undone = stop[n].undone
      /\ \A m \in Names \ {n} : stop'[m] = stop[m]
  BY StopAtEffect DEF StopLock, EnvOK, StopSteps, Active
<1>2. stop[n].at = "lock" /\ lock = None /\ lock' = n
  BY DEF StopLock
<1>3. MonitorOK' /\ EnvOK'
  BY <1>1, <1>2 DEF StopLock, MonitorOK, EnvOK, CallsOK, monitorVars, runtimeVars
<1>4. HandleInv' /\ FlagInv'
  <2>1. \A m \in Names : Tearing(m)' = Tearing(m) /\ Claimed(m)' = Claimed(m)
    BY <1>1, <1>2 DEF Tearing, Claimed, Names
  <2> QED BY <2>1 DEF StopLock, monitorVars, HandleInv, FlagInv
<1>5. LockInv'
  <2>1. \A m \in Names : ~Locked(m)
    BY <1>2, LockAssumption DEF LockInv
  <2>2. \A m \in Names : Locked(m)' <=> m = n
    BY <1>1, <2>1 DEF Locked, Names
  <2>3. \A q \in Callers : call[q].at # "held" /\ lock' # q
    BY <1>2, LockAssumption DEF LockInv, Callers, Names
  <2> QED BY <1>2, <2>2, <2>3 DEF StopLock, LockInv
<1>6. StopHolds' /\ TeardownExclusive'
  BY <1>1 DEF StopLock, runtimeVars, StopHolds, TeardownExclusive, Up
<1>7. GuardInv'
  BY <1>1, GuardKept DEF StopLock, Active, monitorVars
<1> QED BY <1>3, <1>4, <1>5, <1>6, <1>7

LEMMA StopClaimInv == ASSUME IInv, NEW n \in Names, StopClaim(n) PROVE IInv'
<1> USE DEF IInv
<1> DEFINE next == IF n = "app" THEN "lock" ELSE "suppress"
<1>1. /\ stop' \in [Names -> Stops] /\ stop'[n].at = next
      /\ stop'[n].overlap = stop[n].overlap /\ stop'[n].persisted = stop[n].persisted
      /\ stop'[n].undone = stop[n].undone
      /\ \A m \in Names \ {n} : stop'[m] = stop[m]
  BY StopAtEffect DEF StopClaim, EnvOK, StopSteps, Active
<1>2. stop[n].at = "claim" /\ ~appStopping /\ appStopping'
  BY DEF StopClaim
<1>3. MonitorOK' /\ EnvOK'
  BY <1>1 DEF StopClaim, MonitorOK, EnvOK, CallsOK, monitorVars, runtimeVars
<1>4. HandleInv' /\ LockInv'
  <2>1. \A m \in Names : Tearing(m)' = Tearing(m) /\ Locked(m)' = Locked(m)
    BY <1>1, <1>2 DEF Tearing, Locked, Names
  <2> QED BY <2>1 DEF StopClaim, monitorVars, HandleInv, LockInv
<1>5. FlagInv'
  <2>1. \A m \in Names : Claimed(m)' <=> m = n
    BY <1>1, <1>2 DEF Claimed, Names, FlagInv
  <2> QED BY <1>2, <2>1 DEF FlagInv
<1>6. StopHolds' /\ TeardownExclusive'
  BY <1>1 DEF StopClaim, runtimeVars, StopHolds, TeardownExclusive, Up
<1>7. GuardInv'
  BY <1>1, GuardKept DEF StopClaim, Active, monitorVars
<1> QED BY <1>3, <1>4, <1>5, <1>6, <1>7

\* A stop that ends with an error no longer guards the container.
LEMMA GuardDropped ==
  ASSUME GuardInv, NEW n \in Names, stop'[n].at \notin Active,
         \A m \in Names \ {n} : stop'[m] = stop[m],
         UNCHANGED <<states, call, boot, label, wantDown, late>>
  PROVE  GuardInv'
<1>1. Acked' = Acked /\ (Guarded' => Guarded) /\ \A m \in Names : Guards(m)' => m # n /\ Guards(m)
  BY DEF Guarded, Acked, Guards
<1>2. \A m \in Names : /\ stop'[m].at \in Active /\ ~stop'[m].overlap => call["user"].at = "idle"
                       /\ Guards(m)' /\ stop'[m].persisted /\ stop'[m].at # "persist" => label
  BY <1>1 DEF GuardInv
<1> QED BY <1>1, <1>2 DEF GuardInv, Registered

LEMMA GivesUpEffect ==
  ASSUME stop \in [Names -> Stops], NEW n \in Names, NEW failed \in BOOLEAN, GivesUp(n, failed)
  PROVE  /\ stop' \in [Names -> Stops] /\ stop'[n].at = "unmark"
         /\ \A m \in Names \ {n} : stop'[m] = stop[m]
BY DEF Stops, StopSteps, NoStop, GivesUp

\* Refused or without an answer from containerd: only the lock, if it has it,
\* is the stop's to give back.
LEMMA StopTurnedAwayInv ==
  ASSUME IInv, NEW n \in Names, StopRefused(n) \/ StopUnresolved(n)
  PROVE  IInv'
<1> USE DEF IInv
<1>1. /\ stop' \in [Names -> Stops] /\ stop'[n].at = "unmark"
      /\ \A m \in Names \ {n} : stop'[m] = stop[m]
  BY GivesUpEffect DEF StopRefused, StopUnresolved, EnvOK
<1>2. /\ stop[n].at = "claim" /\ Unlock(n)
      /\ UNCHANGED <<monitorVars, runtimeVars, label, appStopping, call, boot, budget,
                     wantDown, late>>
  BY DEF StopRefused, StopUnresolved
<1>3. lock' \in {None} \cup Names \cup Callers
  BY <1>2 DEF EnvOK, Unlock
<1>4. MonitorOK' /\ EnvOK'
  BY <1>1, <1>2, <1>3 DEF MonitorOK, EnvOK, CallsOK, monitorVars, runtimeVars
<1>5. HandleInv' /\ FlagInv'
  <2>1. \A m \in Names : Tearing(m)' = Tearing(m) /\ Claimed(m)' = Claimed(m)
    BY <1>1, <1>2 DEF Tearing, Claimed
  <2> QED BY <1>2, <2>1 DEF monitorVars, HandleInv, FlagInv
<1>6. LockInv'
  <2>1. \A m \in Names : Locked(m)' <=> Locked(m) /\ m # n
    BY <1>1 DEF Locked
  <2>2. lock' = IF lock = n THEN None ELSE lock
    BY <1>2 DEF Unlock, Held
  <2>3. \A m \in Names : Locked(m)' <=> lock' = m
    BY <2>1, <2>2, LockAssumption DEF LockInv
  <2>4. \A q \in Callers : call'[q].at = "held" <=> lock' = q
    BY <1>2, <2>2, LockAssumption DEF LockInv, Names, Callers
  <2> QED BY <2>3, <2>4 DEF LockInv
<1>7. StopHolds' /\ TeardownExclusive'
  BY <1>1, <1>2 DEF runtimeVars, StopHolds, TeardownExclusive, Up
<1>8. GuardInv'
  BY <1>1, <1>2, GuardDropped DEF Active, monitorVars
<1> QED BY <1>4, <1>5, <1>6, <1>7, <1>8

LEMMA StopSuppressInv == ASSUME IInv, NEW n \in Names, StopSuppress(n) PROVE IInv'
<1> USE DEF IInv
<1>1. /\ stop' \in [Names -> Stops] /\ stop'[n].at = "teardown"
      /\ stop'[n].overlap = stop[n].overlap /\ stop'[n].persisted = stop[n].persisted
      /\ stop'[n].undone = stop[n].undone
      /\ \A m \in Names \ {n} : stop'[m] = stop[m]
  BY StopAtEffect DEF StopSuppress, EnvOK, StopSteps, Active
<1>2. stop[n].at = "suppress" /\ lock = n
  BY DEF StopSuppress, LockInv, Locked
<1>3. MonitorOK'
  BY AppAssumption, SuppressType DEF StopSuppress
<1>4. EnvOK'
  BY <1>1 DEF StopSuppress, EnvOK, CallsOK, runtimeVars
<1>5. HandleInv'
  <2>1. \A m \in Names : ~Tearing(m)
    BY <1>2 DEF LockInv, Locked, Tearing
  <2>2. Tearing(n)'
    BY <1>1 DEF Tearing
  <2> QED BY <2>1, <2>2, AppAssumption DEF StopSuppress, Suppress, HandleInv, MonitorOK
<1>6. LockInv' /\ FlagInv'
  <2>1. \A m \in Names : Locked(m)' = Locked(m) /\ Claimed(m)' = Claimed(m)
    BY <1>1, <1>2 DEF Claimed, Locked
  <2> QED BY <2>1 DEF StopSuppress, LockInv, FlagInv
<1>7. StopHolds' /\ TeardownExclusive'
  BY <1>1 DEF StopSuppress, runtimeVars, StopHolds, TeardownExclusive, Up
<1>8. GuardInv'
  BY <1>1, <1>2, GuardKept DEF StopSuppress, Suppress, Active
<1> QED BY <1>3, <1>4, <1>5, <1>6, <1>7, <1>8

LEMMA StopOneInv == ASSUME IInv, NEW n \in Names, StopOne(n) PROVE IInv'
<1> USE DEF IInv
<1>1. PICK failed \in BOOLEAN, t \in {task[App], "down"} :
         /\ ~failed => t = "down"
         /\ task' = [task EXCEPT ![App] = t]
         /\ stop' = [stop EXCEPT ![n].at = "cleanup", ![n].failed = failed]
  BY DEF StopOne
<1>2. /\ stop' \in [Names -> Stops] /\ stop'[n].at = "cleanup" /\ stop'[n].failed = failed
      /\ stop'[n].overlap = stop[n].overlap /\ stop'[n].persisted = stop[n].persisted
      /\ stop'[n].undone = stop[n].undone
      /\ \A m \in Names \ {n} : stop'[m] = stop[m]
  BY <1>1 DEF EnvOK, Stops, StopSteps, Active
<1>3. stop[n].at = "teardown"
  BY DEF StopOne
<1>4. task' \in [Containers -> {"up", "down"}] /\ task'[App] = t
  BY <1>1, AppAssumption DEF EnvOK
<1>5. MonitorOK' /\ EnvOK'
  BY <1>2, <1>4 DEF StopOne, MonitorOK, EnvOK, CallsOK, monitorVars
<1>6. HandleInv' /\ LockInv' /\ FlagInv'
  <2>1. \A m \in Names : Tearing(m)' = Tearing(m) /\ Locked(m)' = Locked(m) /\ Claimed(m)' = Claimed(m)
    BY <1>2, <1>3 DEF Tearing, Claimed, Locked
  <2> QED BY <2>1 DEF StopOne, monitorVars, HandleInv, LockInv, FlagInv
<1>7. StopHolds' /\ TeardownExclusive'
  BY <1>1, <1>2, <1>4 DEF StopOne, StopHolds, TeardownExclusive, Up
<1>8. GuardInv'
  BY <1>2, <1>3, GuardKept DEF StopOne, Active, monitorVars
<1> QED BY <1>5, <1>6, <1>7, <1>8

LEMMA StopCleanupInv == ASSUME IInv, NEW n \in Names, StopCleanup(n) PROVE IInv'
<1> USE DEF IInv
<1>1. /\ stop' \in [Names -> Stops] /\ stop'[n].at = "resume"
      /\ stop'[n].overlap = stop[n].overlap /\ stop'[n].persisted = stop[n].persisted
      /\ stop'[n].failed = stop[n].failed /\ stop'[n].undone = stop[n].undone
      /\ \A m \in Names \ {n} : stop'[m] = stop[m]
  BY StopAtEffect DEF StopCleanup, EnvOK, StopSteps, Active
<1>2. stop[n].at = "cleanup" /\ ~appStopping'
  BY DEF StopCleanup
<1>3. MonitorOK' /\ EnvOK'
  BY <1>1 DEF StopCleanup, MonitorOK, EnvOK, CallsOK, monitorVars, runtimeVars
<1>4. HandleInv' /\ LockInv'
  <2>1. \A m \in Names : Tearing(m)' = Tearing(m) /\ Locked(m)' = Locked(m)
    BY <1>1, <1>2 DEF Tearing, Locked
  <2> QED BY <2>1 DEF StopCleanup, monitorVars, HandleInv, LockInv
<1>5. FlagInv'
  <2>1. Claimed(n) /\ ~Claimed(n)'
    BY <1>1, <1>2 DEF Claimed
  <2>2. \A m \in Names : ~Claimed(m)'
    BY <1>1, <2>1 DEF Claimed, FlagInv
  <2> QED BY <1>2, <2>2 DEF FlagInv
<1>6. StopHolds' /\ TeardownExclusive'
  BY <1>1, <1>2 DEF StopCleanup, runtimeVars, StopHolds, TeardownExclusive, Up
<1>7. GuardInv'
  BY <1>1, <1>2, GuardKept DEF StopCleanup, Active, monitorVars
<1> QED BY <1>3, <1>4, <1>5, <1>6, <1>7

\* The answer: from here on the acknowledged stop is what guards the container.
LEMMA StopResumeInv == ASSUME IInv, NEW n \in Names, StopResume(n) PROVE IInv'
<1> USE DEF IInv
<1>1. /\ stop' \in [Names -> Stops] /\ stop'[n].at \in {"unmark", "idle"}
      /\ \A m \in Names \ {n} : stop'[m] = stop[m]
  <2>1. CASE stop[n].failed
    BY <2>1, GivesUpEffect DEF StopResume, Answers, EnvOK
  <2>2. CASE ~stop[n].failed
    <3>1. NoStop \in Stops /\ NoStop.at = "idle"
      BY DEF NoStop, Stops, StopSteps
    <3> QED BY <2>2, <3>1 DEF StopResume, Answers, EnvOK
  <2> QED BY <2>1, <2>2
<1>2. stop[n].at = "resume" /\ lock = n /\ lock' = None
  BY DEF StopResume, LockInv, Locked
<1>3. MonitorOK'
  BY AppAssumption, SuppressType DEF StopResume
\* What the answer says: nothing new, or that this stop is acknowledged.
<1>4. \/ UNCHANGED <<wantDown, late>>
      \/ /\ ~stop[n].failed /\ stop[n].persisted /\ ~stop[n].overlap
         /\ wantDown' = TRUE /\ late' = stop[n].undone
  BY DEF StopResume, Answers
<1>5. wantDown' \in BOOLEAN /\ late' \subseteq Races
  BY <1>4 DEF EnvOK, Stops
<1>6. EnvOK'
  BY <1>1, <1>2, <1>5 DEF StopResume, EnvOK, CallsOK, runtimeVars
<1>7. \A m \in Names : m # n => ~Tearing(m) /\ ~Locked(m)
  BY <1>2 DEF LockInv, Locked, Tearing
<1>8. HandleInv'
  <2>1. Tearing(n) /\ \A m \in Names : ~Tearing(m)'
    BY <1>1, <1>2, <1>7 DEF Tearing
  <2> QED BY <2>1, AppAssumption DEF StopResume, Resume, HandleInv, MonitorOK
<1>9. LockInv'
  <2>1. \A m \in Names : ~Locked(m)' /\ lock' # m
    BY <1>1, <1>2, <1>7, LockAssumption DEF Locked
  <2>2. \A q \in Callers : call'[q].at # "held" /\ lock' # q
    BY <1>2, LockAssumption DEF StopResume, LockInv, Names, Callers
  <2> QED BY <2>1, <2>2 DEF LockInv
<1>10. FlagInv'
  <2>1. \A m \in Names : Claimed(m)' = Claimed(m)
    BY <1>1, <1>2 DEF Claimed
  <2> QED BY <2>1 DEF StopResume, FlagInv
<1>11. TeardownExclusive'
  BY <1>1 DEF StopResume, runtimeVars, TeardownExclusive, Up
<1>12. StopHolds'
  BY <1>2, <1>4 DEF StopResume, StopHolds, TeardownExclusive, Up, runtimeVars
<1>13. GuardInv'
  <2>1. Acked' => (Acked \/ (Guards(n) /\ stop[n].persisted)) /\ label
    <3>1. CASE UNCHANGED <<wantDown, late>>
      BY <3>1 DEF Acked, GuardInv
    <3>2. CASE /\ ~stop[n].failed /\ stop[n].persisted /\ ~stop[n].overlap
               /\ wantDown' = TRUE /\ late' = stop[n].undone
      <4>1. Acked' => stop[n].undone = {}
        BY <3>2 DEF Acked, EnvOK, Stops
      <4> QED BY <1>2, <3>2, <4>1 DEF Guards, GuardInv, Active
    <3> QED BY <1>4, <3>1, <3>2
  <2>2. \A m \in Names : Guards(m)' => m # n /\ Guards(m)
    BY <1>1 DEF Guards, Active
  <2>3. Guarded' => Guarded
    BY <2>1, <2>2 DEF Guarded
  <2>4. wantDown' => call["user"].at = "idle"
    BY <1>2, <1>4 DEF GuardInv, Active
  <2>5. \A m \in Names : /\ stop'[m].at \in Active /\ ~stop'[m].overlap => call["user"].at = "idle"
                         /\ Guards(m)' /\ stop'[m].persisted /\ stop'[m].at # "persist" => label
    BY <1>1, <2>2 DEF GuardInv, Active
  <2>6. UNCHANGED <<states, call, boot, label>>
    BY DEF StopResume, Resume
  <2> QED BY <2>1, <2>3, <2>4, <2>5, <2>6 DEF GuardInv, Registered
<1> QED BY <1>3, <1>6, <1>8, <1>9, <1>10, <1>11, <1>12, <1>13

\* A race undoes every stop that has made its marks.
LEMMA UndoneEffect ==
  ASSUME NEW stops \in [Names -> Stops], NEW race \in Races \ {"check"}, stop' = Undone(stops, race)
  PROVE  /\ stop' \in [Names -> Stops]
         /\ \A m \in Names : /\ stop'[m].at = stops[m].at /\ stop'[m].failed = stops[m].failed
                             /\ stop'[m].overlap = stops[m].overlap
         /\ \A m \in Names : ~Guards(m)'
<1>1. \A m \in Names :
        /\ stop'[m] \in Stops
        /\ stop'[m].at = stops[m].at /\ stop'[m].failed = stops[m].failed
        /\ stop'[m].overlap = stops[m].overlap
        /\ stops[m].at \in Active => race \in stop'[m].undone
  BY DEF Undone, Stops
<1> QED BY <1>1 DEF Undone, Guards

LEMMA UndoesEffect ==
  ASSUME late \subseteq Races, NEW race \in Races \ {"check"}, Undoes(race), UNCHANGED wantDown
  PROVE  late' \subseteq Races /\ ~Acked' /\ (late # {} => late' # {})
BY DEF Undoes, Acked

\* A stop that takes its marks back ends every guard, its own and the others'.
LEMMA StopRollbackInv ==
  ASSUME IInv, NEW n \in Names, StopUnmark(n) \/ StopUnlabel(n)
  PROVE  IInv'
<1> USE DEF IInv
<1>1. PICK next \in Stops :
         /\ next.at \in {"idle", "unlabel"}
         /\ stop' = Undone([stop EXCEPT ![n] = next], Rollback(n))
  <2>1. NoStop \in Stops /\ NoStop.at = "idle"
    BY DEF NoStop, Stops, StopSteps
  <2>2. [stop[n] EXCEPT !.at = "unlabel"] \in Stops /\ [stop[n] EXCEPT !.at = "unlabel"].at = "unlabel"
    BY DEF EnvOK, Stops, StopSteps
  <2>3. CASE StopUnmark(n)
    BY <2>1, <2>2, <2>3 DEF StopUnmark
  <2>4. CASE StopUnlabel(n)
    BY <2>1, <2>4 DEF StopUnlabel
  <2> QED BY <2>3, <2>4
<1>2. Rollback(n) \in Races \ {"check"}
  BY DEF Rollback, Races
<1>3. [stop EXCEPT ![n] = next] \in [Names -> Stops]
  BY DEF EnvOK
<1>4. /\ stop' \in [Names -> Stops] /\ stop'[n].at \in {"idle", "unlabel"}
      /\ \A m \in Names \ {n} : /\ stop'[m].at = stop[m].at /\ stop'[m].failed = stop[m].failed
                                /\ stop'[m].overlap = stop[m].overlap
      /\ \A m \in Names : ~Guards(m)'
  BY <1>1, <1>2, <1>3, UndoneEffect DEF EnvOK
<1>5. /\ Undoes(Rollback(n)) /\ stop[n].at \in {"unmark", "unlabel"}
      /\ UNCHANGED <<suppressed, runtimeVars, appStopping, lock, call, boot, wantDown>>
  BY DEF StopUnmark, StopUnlabel, ClearExplicitStop, SetExplicitStop, monitorVars
<1>6. late' \subseteq Races /\ ~Acked' /\ (late # {} => late' # {})
  BY <1>2, <1>5, UndoesEffect DEF EnvOK
<1>7. MonitorOK'
  <2>1. CASE StopUnmark(n)
    BY <2>1, AppAssumption, ExplicitStopType DEF StopUnmark, ClearExplicitStop
  <2>2. CASE StopUnlabel(n)
    BY <2>2 DEF StopUnlabel, MonitorOK, monitorVars
  <2> QED BY <2>1, <2>2
<1>8. label' \in BOOLEAN /\ budget' \in Budgets
  <2>1. CASE StopUnmark(n)
    BY <2>1 DEF StopUnmark, EnvOK
  <2>2. CASE StopUnlabel(n)
    BY <2>2, LabelType DEF StopUnlabel
  <2> QED BY <2>1, <2>2
<1>9. EnvOK'
  BY <1>4, <1>5, <1>6, <1>8 DEF EnvOK, CallsOK, runtimeVars
<1>10. HandleInv' /\ FlagInv' /\ LockInv'
  <2>1. \A m \in Names : Tearing(m)' = Tearing(m) /\ Claimed(m)' = Claimed(m) /\ Locked(m)' = Locked(m)
    BY <1>4, <1>5 DEF Tearing, Claimed, Locked
  <2> QED BY <1>5, <2>1 DEF HandleInv, FlagInv, LockInv
<1>11. StopHolds' /\ TeardownExclusive'
  BY <1>4, <1>5, <1>6 DEF runtimeVars, StopHolds, TeardownExclusive, Up
<1>12. GuardInv'
  <2>1. \A m \in Names : stop'[m].at \in Active /\ ~stop'[m].overlap => call["user"].at = "idle"
    BY <1>4 DEF GuardInv, Active
  <2>2. ~Guarded'
    BY <1>4, <1>6 DEF Guarded
  <2> QED BY <1>4, <1>5, <1>6, <2>1, <2>2 DEF GuardInv
<1> QED BY <1>7, <1>9, <1>10, <1>11, <1>12

-----------------------------------------------------------------------------
(* The monitor, the boot, the runtime. *)

\* What the monitor's own steps leave alone: the handles and the marks.
LEMMA MonitorKeeps ==
  ASSUME MonitorOK, PassStep \/ Time
  PROVE  /\ suppressed' = suppressed
         /\ Registered(App)' => Registered(App)
         /\ Registered(App) => states'[App].ExplicitStop = states[App].ExplicitStop
<1>1. suppressed' = suppressed
  BY DEF PassStep, ListContainers, CaptureUnresolved, LookupGPU, CommitGPU, planRestarts, Time
<1>2. CASE states' = states
  BY <1>1, <1>2 DEF Registered
<1>3. Registered(App) => states[App] \in containerState
  BY AppAssumption DEF MonitorOK, Registered
<1>4. CASE planRestarts
  <2>1. ~Registered(App) => states'[App] = None
    BY <1>4, AppAssumption DEF planRestarts
  <2>2. ASSUME NEW s \in containerState
        PROVE  /\ SeenRunning(s).ExplicitStop = s.ExplicitStop
               /\ SeenDown(s).ExplicitStop = s.ExplicitStop
               /\ Counted(s).ExplicitStop = s.ExplicitStop
    BY DEF SeenRunning, SeenDown, Counted, containerState
  <2>3. Registered(App) => states'[App] \in {SeenRunning(states[App]), SeenDown(states[App]),
                                             Counted(SeenDown(states[App]))}
    BY <1>4, AppAssumption DEF planRestarts
  <2>4. Registered(App) => states'[App].ExplicitStop = states[App].ExplicitStop
    BY <1>3, <2>2, <2>3, SeenType
  <2> QED BY <1>1, <2>1, <2>4 DEF Registered
<1>5. CASE Time
  <2>1. ~Registered(App) => states'[App] = None
    BY <1>5, AppAssumption DEF Time
  <2>2. Registered(App) => states'[App].ExplicitStop = states[App].ExplicitStop
    BY <1>3, <1>5, AppAssumption DEF Time, containerState
  <2> QED BY <1>1, <2>1, <2>2 DEF Registered
<1> QED BY <1>2, <1>4, <1>5 DEF PassStep, ListContainers, CaptureUnresolved, LookupGPU, CommitGPU

LEMMA MonitorInv == ASSUME IInv, Monitor PROVE IInv'
<1> USE DEF IInv
<1>1. MonitorOK'
  BY PassType, TimeType DEF Monitor, EnvOK
<1>2. EnvOK'
  BY DEF Monitor, runtimeVars, EnvOK, CallsOK
<1>3. HandleInv' /\ FlagInv' /\ LockInv'
  <2>1. suppressed' = suppressed
    BY MonitorKeeps DEF Monitor
  <2>2. \A n \in Names : Locked(n)' = Locked(n)
    BY DEF Monitor, Locked
  <2> QED BY <2>1, <2>2, StopsKept DEF Monitor, LockInv
<1>4. StopHolds' /\ TeardownExclusive'
  BY DEF Monitor, runtimeVars, StopHolds, TeardownExclusive, Up
<1>5. GuardInv'
  <2>1. Guarded' = Guarded /\ Acked' = Acked /\ \A n \in Names : Guards(n)' = Guards(n)
    BY DEF Monitor, Guarded, Acked, Guards
  <2>2. Guarded => (Registered(App)' => states'[App].ExplicitStop)
    BY MonitorKeeps DEF Monitor, GuardInv
  <2> QED BY <2>1, <2>2 DEF Monitor, GuardInv
<1> QED BY <1>1, <1>2, <1>3, <1>4, <1>5

\* The re-check: under a guard it lets no restart through.
LEMMA RestartCheckInv == ASSUME IInv, RestartCheck PROVE IInv'
<1> USE DEF IInv
<1>1. MonitorOK'
  <2>1. scheduled' \in [Containers -> 0 .. MaxScheduled]
    BY AppAssumption, ScheduleAssumption DEF RestartCheck, MonitorOK
  <2> QED BY <2>1 DEF RestartCheck, MonitorOK
<1>2. EnvOK'
  <2>1. CallsOK'
    BY GoesType DEF RestartCheck, EnvOK, CallsOK, Callers
  <2> QED BY <2>1 DEF RestartCheck, runtimeVars, EnvOK
<1>3. /\ call'["user"] = call["user"]
      /\ call'["monitor"].at \in {"idle", "wait"}
      /\ call'["monitor"].at # "idle" => ~restartBlocked(App)
      /\ call["monitor"].at # "held"
  BY DEF RestartCheck, Goes, EnvOK, CallsOK, Calls, Callers
<1>4. HandleInv' /\ FlagInv' /\ StopHolds' /\ TeardownExclusive'
  BY StopsKept DEF RestartCheck, runtimeVars, StopHolds, TeardownExclusive, Up
<1>5. LockInv'
  <2>1. \A n \in Names : Locked(n)' = Locked(n)
    BY DEF RestartCheck, Locked
  <2> QED BY <1>3, <2>1 DEF RestartCheck, LockInv, Callers
<1>6. GuardInv'
  <2>1. Guarded' = Guarded /\ Acked' = Acked /\ \A n \in Names : Guards(n)' = Guards(n)
    BY DEF RestartCheck, Guarded, Acked, Guards
  <2>2. Guarded => call'["monitor"].at = "idle"
    BY <1>3 DEF GuardInv, Registered, restartBlocked
  <2> QED BY <1>3, <2>1, <2>2 DEF RestartCheck, GuardInv, Registered
<1> QED BY <1>1, <1>2, <1>3, <1>4, <1>5, <1>6

LEMMA BootListInv == ASSUME IInv, BootList PROVE IInv'
<1> USE DEF IInv
<1>1. boot' \in Boots /\ boot'.keep = ~label /\ boot'.raced = InFlight
  BY DEF BootList, EnvOK, Boots, InFlight
<1>2. MonitorOK' /\ EnvOK'
  BY <1>1 DEF BootList, MonitorOK, EnvOK, CallsOK, monitorVars, runtimeVars
<1>3. HandleInv' /\ FlagInv' /\ LockInv' /\ StopHolds' /\ TeardownExclusive'
  <2>1. \A n \in Names : Locked(n)' = Locked(n)
    BY DEF BootList, Locked
  <2> QED BY <2>1, StopsKept DEF BootList, monitorVars, runtimeVars, LockInv, StopHolds, TeardownExclusive, Up
<1>4. GuardInv'
  <2>1. Guarded' = Guarded /\ Acked' = Acked /\ \A n \in Names : Guards(n)' = Guards(n)
    BY DEF BootList, Guarded, Acked, Guards
  <2>2. Guarded /\ boot'.keep => boot'.raced
    BY <1>1 DEF GuardInv, Guarded, Guards, InFlight
  <2> QED BY <2>1, <2>2 DEF BootList, monitorVars, GuardInv, Registered
<1> QED BY <1>2, <1>3, <1>4

\* A listing from before the stop registers the container anew, without a mark.
LEMMA BootRegisterInv == ASSUME IInv, BootRegister PROVE IInv'
<1> USE DEF IInv
<1>1. boot' \in Boots /\ boot'.at = "done"
  BY DEF BootRegister, NoBoot, Boots
<1>2. MonitorOK' /\ suppressed' = suppressed
  <2>1. CASE Register(App, "unless-stopped", 0)
    BY <2>1, AppAssumption, PolicyAssumption, RegisterType DEF Policies, Register
  <2>2. CASE UNCHANGED monitorVars
    BY <2>2 DEF monitorVars, MonitorOK
  <2> QED BY <2>1, <2>2 DEF BootRegister
<1>3. /\ stop' \in [Names -> Stops] /\ late' \subseteq Races
      /\ \A m \in Names : /\ stop'[m].at = stop[m].at /\ stop'[m].failed = stop[m].failed
                          /\ stop'[m].overlap = stop[m].overlap
      /\ late # {} => late' # {}
      /\ boot.keep /\ boot.raced => ~Acked' /\ \A m \in Names : ~Guards(m)'
  <2>1. CASE boot.keep /\ boot.raced
    BY <2>1, UndoneEffect, UndoesEffect DEF BootRegister, EnvOK, Races
  <2>2. CASE ~(boot.keep /\ boot.raced)
    BY <2>2 DEF BootRegister, EnvOK
  <2> QED BY <2>1, <2>2
<1>4. EnvOK'
  BY <1>1, <1>3 DEF BootRegister, EnvOK, CallsOK, runtimeVars
<1>5. HandleInv' /\ FlagInv' /\ LockInv' /\ StopHolds' /\ TeardownExclusive'
  <2>1. \A m \in Names : Tearing(m)' = Tearing(m) /\ Claimed(m)' = Claimed(m) /\ Locked(m)' = Locked(m)
    BY <1>3 DEF Tearing, Claimed, Locked
  <2> QED BY <1>2, <1>3, <2>1 DEF BootRegister, runtimeVars, HandleInv, FlagInv, LockInv, StopHolds,
                                 TeardownExclusive, Up
<1>6. GuardInv'
  <2>1. CASE boot.keep /\ boot.raced
    BY <1>3, <2>1 DEF BootRegister, GuardInv, Guarded
  <2>2. CASE ~(boot.keep /\ boot.raced)
    <3>1. UNCHANGED <<stop, late, label, call, wantDown>>
      BY <2>2 DEF BootRegister
    <3>2. Guarded' = Guarded /\ Acked' = Acked /\ \A n \in Names : Guards(n)' = Guards(n)
      BY <3>1 DEF Guarded, Acked, Guards
    <3>3. Guarded => states' = states
      BY <2>2 DEF BootRegister, GuardInv, monitorVars
    <3> QED BY <1>1, <3>1, <3>2, <3>3 DEF GuardInv, Registered
  <2> QED BY <2>1, <2>2
<1> QED BY <1>2, <1>4, <1>5, <1>6

\* The label is all that is left of a stop, and it is enough.
LEMMA CrashInv == ASSUME IInv, Crash PROVE IInv'
<1> USE DEF IInv
<1>1. MonitorOK'
  BY NewMonitorType, ScheduleAssumption DEF Crash, MonitorOK, Each, NoPass, Passes
<1>2. task' \in [Containers -> {"up", "down"}] /\ (Up' => Up)
  BY AppAssumption DEF Crash, EnvOK, Up
<1>3. budget' \in Budgets
  BY BoundsAssumption DEF Crash, EnvOK, Budgets
<1>4. /\ stop' \in [Names -> Stops] /\ boot' \in Boots /\ CallsOK'
      /\ \A n \in Names : stop'[n].at = "idle"
  BY DEF Crash, NoStop, NoBoot, NoCall, Stops, StopSteps, Boots, CallsOK, Calls, Callers
<1>5. EnvOK'
  BY <1>2, <1>3, <1>4 DEF Crash, EnvOK
<1>6. HandleInv' /\ FlagInv' /\ LockInv'
  BY <1>4, AppAssumption, LockAssumption
     DEF Crash, Each, NoCall, HandleInv, Tearing, FlagInv, Claimed, LockInv, Locked, Callers
<1>7. StopHolds' /\ TeardownExclusive'
  BY <1>2, <1>4 DEF Crash, StopHolds, TeardownExclusive
<1>8. GuardInv'
  <2>1. Acked' = Acked /\ \A n \in Names : ~Guards(n)' /\ stop'[n].at \notin Active
    BY <1>4 DEF Crash, Acked, Guards, Active
  <2>2. ~Registered(App)'
    BY AppAssumption DEF Crash, Each, Registered
  <2>3. call'["user"].at = "idle" /\ call'["monitor"].at = "idle" /\ boot'.at = "list"
    BY DEF Crash, NoCall, NoBoot, Callers
  <2> QED BY <2>1, <2>2, <2>3 DEF Crash, GuardInv
<1> QED BY <1>1, <1>5, <1>6, <1>7, <1>8

LEMMA DieInv == ASSUME IInv, Die PROVE IInv'
<1> USE DEF IInv
<1>1. task' \in [Containers -> {"up", "down"}] /\ ~Up'
  BY AppAssumption DEF Die, EnvOK, Up
<1>2. MonitorOK' /\ EnvOK'
  BY <1>1 DEF Die, MonitorOK, EnvOK, CallsOK, monitorVars
<1>3. HandleInv' /\ FlagInv' /\ LockInv' /\ StopHolds' /\ TeardownExclusive'
  <2>1. \A n \in Names : Locked(n)' = Locked(n)
    BY DEF Die, Locked
  <2> QED BY <1>1, <2>1, StopsKept DEF Die, monitorVars, LockInv, StopHolds, TeardownExclusive
<1>4. GuardInv'
  <2>1. Guarded' = Guarded /\ Acked' = Acked /\ \A n \in Names : Guards(n)' = Guards(n)
    BY DEF Die, Guarded, Acked, Guards
  <2> QED BY <2>1 DEF Die, monitorVars, GuardInv, Registered
<1> QED BY <1>2, <1>3, <1>4

-----------------------------------------------------------------------------
LEMMA StutterInv == ASSUME IInv, UNCHANGED vars PROVE IInv'
<1> USE DEF IInv, vars, monitorVars, runtimeVars
<1>1. MonitorOK' /\ EnvOK'
  BY DEF MonitorOK, EnvOK, CallsOK
<1>2. HandleInv' /\ FlagInv' /\ LockInv' /\ StopHolds' /\ TeardownExclusive'
  BY DEF HandleInv, Tearing, FlagInv, Claimed, LockInv, Locked, StopHolds, TeardownExclusive, Up
<1>3. GuardInv'
  BY DEF GuardInv, Guarded, Acked, Guards, Registered
<1> QED BY <1>1, <1>2, <1>3

LEMMA NextInv == ASSUME IInv, [Next]_vars PROVE IInv'
<1>1. CASE StartStep
  BY <1>1, StartLockInv, StartTaskInv, StartErrorInv, RecordInv DEF StartStep
<1>2. CASE StopStep
  BY <1>2, StopPersistInv, StopLockInv, StopClaimInv, StopTurnedAwayInv, StopSuppressInv,
     StopOneInv, StopCleanupInv, StopResumeInv, StopRollbackInv DEF StopStep
<1> QED BY <1>1, <1>2, UserStartInv, StopMarkInv, MonitorInv, RestartCheckInv, BootListInv,
           BootRegisterInv, CrashInv, DieInv, StutterInv DEF Next

\* The inductive invariant holds of every state of the app and its parties,
\* with a stop under each of the container's two names.
THEOREM Invariance == Spec => []IInv
BY InitInv, NextInv, PTL DEF Spec

\* Every variable of the app, the requests and the monitor keeps its type: at
\* most one stop holds a handle, and the backoff level never passes the level
\* whose delay is the cap.
THEOREM TypeCorrect == Spec => []TypeOK
BY Invariance, IInvImplies, PTL

\* An acknowledged stop holds, whatever is planned, queued, crashed or rebooted,
\* but for four races: a restart that had passed its re-check, a listing from
\* before the stop, and the rollback of another stop, refused or failed.
THEOREM StoppedStaysDown == Spec => []StopHolds
BY Invariance, IInvImplies, PTL

\* Between the kill of StopContainer and its answer no start gives the
\* container a task, for a stop by container ID and for one by app ID.
THEOREM NoStartInTeardown == Spec => []TeardownExclusive
BY Invariance, IInvImplies, PTL

\* No stop, failed, refused, acknowledged or cut off by a crash, leaves a
\* Suppress handle, the app's flag or the container's lock behind.
THEOREM NothingIsLeaked == Spec => []NothingLeaked
BY Invariance, IInvImplies, PTL

-----------------------------------------------------------------------------
(* Requests return.                                                        *)

\* A stop that never waits again before it returns: it tears down with the lock
\* or it takes its marks back.
Past(n) == lock = n \/ stop[n].at \in {"unmark", "unlabel"}

\* What a step of one stop does to the lock and to the other stop.
LEMMA StopMoves ==
  ASSUME IInv, NEW n \in Names,
         \/ StopMark(n) \/ StopPersist(n) \/ StopLock(n) \/ StopClaim(n) \/ StopRefused(n)
         \/ StopUnresolved(n) \/ StopSuppress(n) \/ StopOne(n) \/ StopCleanup(n)
         \/ StopResume(n) \/ StopUnmark(n) \/ StopUnlabel(n)
  PROVE  /\ \A m \in Names \ {n} : stop'[m].at = stop[m].at
         /\ \/ lock' = lock
            \/ lock = None /\ lock' = n
            \/ lock = n /\ lock' = None /\ stop'[n].at \in {"idle", "unmark"}
         /\ stop[n].at = "lock" => lock' = n
         /\ stop[n].at \in {"unmark", "unlabel"} => stop'[n].at \in {"idle", "unlabel"}
<1>1. stop \in [Names -> Stops] /\ LockInv
  BY DEF IInv, EnvOK
<1>2. CASE StopMark(n) \/ StopPersist(n)
  BY <1>1, <1>2 DEF StopMark, StopPersist
<1>3. CASE StopLock(n) \/ StopClaim(n) \/ StopSuppress(n) \/ StopCleanup(n)
  BY <1>1, <1>3 DEF StopLock, StopClaim, StopSuppress, StopCleanup, StopAt
<1>4. CASE StopRefused(n) \/ StopUnresolved(n)
  BY <1>1, <1>4, GivesUpEffect DEF StopRefused, StopUnresolved, Unlock, Held
<1>5. CASE StopOne(n)
  BY <1>1, <1>5 DEF StopOne
<1>6. CASE StopResume(n)
  <2>1. stop[n].at = "resume" /\ lock = n /\ lock' = None
    BY <1>1, <1>6 DEF StopResume, LockInv, Locked
  <2>2. stop'[n].at \in {"idle", "unmark"} /\ \A m \in Names \ {n} : stop'[m] = stop[m]
    <3>1. CASE stop[n].failed
      BY <1>1, <1>6, <3>1, GivesUpEffect DEF StopResume, Answers
    <3>2. CASE ~stop[n].failed
      <4>1. stop' = [stop EXCEPT ![n] = NoStop] /\ NoStop.at = "idle"
        BY <1>6, <3>2 DEF StopResume, Answers, NoStop
      <4> QED BY <1>1, <4>1
    <3> QED BY <3>1, <3>2
  <2> QED BY <2>1, <2>2
<1>7. CASE StopUnmark(n) \/ StopUnlabel(n)
  <2>1. lock' = lock /\ stop[n].at \in {"unmark", "unlabel"}
    BY <1>7 DEF StopUnmark, StopUnlabel
  <2>2. PICK next \in {NoStop, [stop[n] EXCEPT !.at = "unlabel"]} :
           stop' = Undone([stop EXCEPT ![n] = next], Rollback(n))
    BY <1>7 DEF StopUnmark, StopUnlabel
  <2>3. next.at \in {"idle", "unlabel"}
    BY <1>1 DEF NoStop, Stops
  <2>4. \A m \in Names : stop'[m].at = [stop EXCEPT ![n] = next][m].at
    BY <1>1, <2>2 DEF Undone, Stops
  <2> QED BY <1>1, <2>1, <2>3, <2>4
<1> QED BY <1>2, <1>3, <1>4, <1>5, <1>6, <1>7

\* What a step does to the lock and to a stop: a holder lets go before another takes
\* the lock, and a stop waits for it once.
LEMMA LockMoves ==
  ASSUME IInv, [Next]_vars
  PROVE  /\ lock # None => lock' \in {lock, None}
         /\ \A n \in Names :
              /\ Past(n) => Past(n)' \/ stop'[n].at = "idle"
              /\ stop[n].at = "lock" => stop'[n].at \in {"idle", "lock"} \/ Past(n)'
<1> DEFINE Goal == /\ lock # None => lock' \in {lock, None}
                   /\ \A n \in Names :
                        /\ Past(n) => Past(n)' \/ stop'[n].at = "idle"
                        /\ stop[n].at = "lock" => stop'[n].at \in {"idle", "lock"} \/ Past(n)'
<1>1. /\ stop \in [Names -> Stops] /\ LockInv /\ None \notin Names \cup Callers
      /\ \A p \in Callers : p \notin Names
  BY LockAssumption DEF IInv, EnvOK, Names, Callers
<1>2. ASSUME \A n \in Names : stop'[n].at = stop[n].at,
             \/ lock' = lock \/ lock = None
             \/ lock \in Callers /\ lock' = None
      PROVE  Goal
  BY <1>1, <1>2 DEF Past
<1>3. CASE \E p \in Callers : StartLock(p)
  BY <1>2, <1>3 DEF StartLock
<1>4. CASE \E p \in Callers : StartTask(p) \/ StartError(p)
  <2>1. PICK p \in Callers : call[p].at = "held" /\ stop' = stop /\ Unlock(p)
    BY <1>4 DEF StartTask, StartError
  <2>2. lock = p /\ lock' = None
    BY <1>1, <2>1 DEF LockInv, Unlock, Held
  <2> QED BY <1>2, <2>1, <2>2
<1>5. CASE RecordClear \/ RecordUnlabel \/ RecordRegister \/ Monitor \/ RestartCheck
           \/ BootList \/ Die
  BY <1>2, <1>5 DEF RecordClear, RecordUnlabel, RecordRegister, Monitor, RestartCheck,
                    BootList, Die
<1>6. CASE UserStart
  BY <1>1, <1>2, <1>6 DEF UserStart, Stops
<1>7. CASE BootRegister
  BY <1>1, <1>2, <1>7 DEF BootRegister, Undone, Stops
<1>8. CASE StopStep \/ \E n \in Names : StopMark(n)
  <2>1. PICK n \in Names :
           \/ StopMark(n) \/ StopPersist(n) \/ StopLock(n) \/ StopClaim(n) \/ StopRefused(n)
           \/ StopUnresolved(n) \/ StopSuppress(n) \/ StopOne(n) \/ StopCleanup(n)
           \/ StopResume(n) \/ StopUnmark(n) \/ StopUnlabel(n)
    BY <1>8 DEF StopStep
  <2>2. /\ \A m \in Names \ {n} : stop'[m].at = stop[m].at
        /\ \/ lock' = lock
           \/ lock = None /\ lock' = n
           \/ lock = n /\ lock' = None /\ stop'[n].at \in {"idle", "unmark"}
        /\ stop[n].at = "lock" => lock' = n
        /\ stop[n].at \in {"unmark", "unlabel"} => stop'[n].at \in {"idle", "unlabel"}
    BY <2>1, StopMoves
  <2> QED BY <1>1, <2>2 DEF Past
<1>9. CASE Crash
  <2>1. lock' = None /\ \A n \in Names : stop'[n].at = "idle"
    BY <1>9 DEF Crash, NoStop
  <2> QED BY <2>1
<1>10. CASE UNCHANGED vars
  BY <1>2, <1>10 DEF vars
<1> QED BY <1>3, <1>4, <1>5, <1>6, <1>7, <1>8, <1>9, <1>10 DEF Next, StartStep

\* A call that has its lock, or is past it, does not wait again before it returns.
LEMMA CallMoves ==
  ASSUME IInv, [Next]_vars, NEW p \in Callers
  PROVE  CallGoes(p) => CallGoes(p)' \/ call'[p].at = "idle"
<1>1. /\ call \in [Callers -> Calls]
      /\ call[p] \in Calls
  BY DEF IInv, EnvOK, CallsOK
<1>2. CASE call' = call
  BY <1>2 DEF CallGoes
<1>3. ASSUME NEW q \in Callers, NEW at \in {"held", "clear", "unlabel", "register"}, Goes(q, at)
      PROVE  CallGoes(p) => CallGoes(p)'
  BY <1>1, <1>3 DEF Goes, CallGoes, Calls
<1>4. ASSUME NEW q \in Callers, Returns(q)
      PROVE  CallGoes(p) => CallGoes(p)' \/ call'[p].at = "idle"
  BY <1>1, <1>4 DEF Returns, NoCall, CallGoes
<1>5. ASSUME NEW q \in Callers, Goes(q, "wait"), call[q].at = "idle"
      PROVE  CallGoes(p) => CallGoes(p)'
  BY <1>1, <1>5 DEF Goes, CallGoes, Calls
<1>6. CASE StartStep
  <2>1. CASE \E q \in Callers : StartLock(q) \/ StartTask(q) \/ StartError(q)
    BY <1>3, <1>4, <2>1 DEF StartLock, StartTask, StartError
  <2>2. CASE RecordClear \/ RecordUnlabel \/ RecordRegister
    BY <1>3, <1>4, <2>2 DEF RecordClear, RecordUnlabel, RecordRegister, Callers
  <2> QED BY <1>6, <2>1, <2>2 DEF StartStep
<1>7. CASE UserStart \/ RestartCheck
  BY <1>2, <1>5, <1>7 DEF UserStart, RestartCheck, Callers
<1>8. CASE \E n \in Names : StopMark(n)
  <2>1. call'[p].at = call[p].at
    BY <1>1, <1>8 DEF StopMark, Calls
  <2> QED BY <2>1 DEF CallGoes
<1>9. CASE StopStep
  BY <1>2, <1>9 DEF StopStep, StopPersist, StopLock, StopClaim, StopRefused, StopUnresolved,
                    StopSuppress, StopOne, StopCleanup, StopResume, StopUnmark, StopUnlabel
<1>10. CASE Monitor \/ BootList \/ BootRegister \/ Die
  BY <1>2, <1>10 DEF Monitor, BootList, BootRegister, Die
<1>11. CASE Crash
  BY <1>11 DEF Crash, NoCall
<1>12. CASE UNCHANGED vars
  BY <1>2, <1>12 DEF vars
<1> QED BY <1>6, <1>7, <1>8, <1>9, <1>10, <1>11, <1>12 DEF Next

\* The lock is free again and again: nobody waits while holding it.
LEMMA LockComesFree == []IInv /\ [][Next]_vars /\ Fairness => []<>(lock = None)
<1>1. Fairness => []<>~StopGoes("container")
  <2>1. PICK n \in Names : n = "container"
    BY DEF Names
  <2>2. Fairness => []<>~StopGoes(n)
    BY DEF Fairness
  <2>3. StopGoes("container") => StopGoes(n)
    BY <2>1
  <2> QED BY <2>2, <2>3, PTL
<1>2. Fairness => []<>~StopGoes("app")
  <2>1. PICK n \in Names : n = "app"
    BY DEF Names
  <2>2. Fairness => []<>~StopGoes(n)
    BY DEF Fairness
  <2>3. StopGoes("app") => StopGoes(n)
    BY <2>1
  <2> QED BY <2>2, <2>3, PTL
<1>3. Fairness => []<>~CallGoes("user")
  <2>1. PICK p \in Callers : p = "user"
    BY DEF Callers
  <2>2. Fairness => []<>~CallGoes(p)
    BY DEF Fairness
  <2>3. CallGoes("user") => CallGoes(p)
    BY <2>1
  <2> QED BY <2>2, <2>3, PTL
<1>4. Fairness => []<>~CallGoes("monitor")
  <2>1. PICK p \in Callers : p = "monitor"
    BY DEF Callers
  <2>2. Fairness => []<>~CallGoes(p)
    BY DEF Fairness
  <2>3. CallGoes("monitor") => CallGoes(p)
    BY <2>1
  <2> QED BY <2>2, <2>3, PTL
<1>5. IInv => \/ lock = None \/ lock = "container" \/ lock = "app"
              \/ lock = "user" \/ lock = "monitor"
  BY DEF IInv, EnvOK, Callers, Names
<1>6. IInv /\ [Next]_vars => /\ lock = "container" => (lock = "container" \/ lock = None)'
                             /\ lock = "app" => (lock = "app" \/ lock = None)'
                             /\ lock = "user" => (lock = "user" \/ lock = None)'
                             /\ lock = "monitor" => (lock = "monitor" \/ lock = None)'
  BY LockMoves, LockAssumption DEF Names, Callers
<1>7. IInv => /\ lock = "container" => StopGoes("container")
              /\ lock = "app" => StopGoes("app")
              /\ lock = "user" => CallGoes("user")
              /\ lock = "monitor" => CallGoes("monitor")
  BY DEF IInv, LockInv, Locked, StopGoes, CallGoes, Names, Callers
<1> QED BY <1>1, <1>2, <1>3, <1>4, <1>5, <1>6, <1>7, PTL

\* A stop that waits is served, and what it does after it waits for nobody.
LEMMA StopReturns ==
  ASSUME NEW n \in Names
  PROVE  []IInv /\ [][Next]_vars /\ Fairness => []<>(stop[n].at = "idle")
<1>1. Fairness => /\ []<>~StopGoes(n)
                  /\ []<>(stop[n].at = "lock" /\ lock = None) => []<>(stop[n].at # "lock")
  BY DEF Fairness
<1>2. []IInv /\ [][Next]_vars /\ Fairness => []<>(lock = None)
  BY LockComesFree
<1> DEFINE Early == stop[n].at \in {"persist", "claim"}
<1>3. IInv => stop[n].at = "idle" \/ stop[n].at = "lock" \/ Early \/ Past(n)
  BY DEF IInv, EnvOK, Stops, StopSteps, Active, LockInv, Locked, Past
<1>4. IInv /\ [Next]_vars =>
        /\ Past(n) => (Past(n) \/ stop[n].at = "idle")'
        /\ stop[n].at = "lock" => (stop[n].at = "idle" \/ stop[n].at = "lock" \/ Past(n))'
  BY LockMoves
<1>5. IInv => (Past(n) => StopGoes(n))
  BY DEF IInv, LockInv, Locked, Past, StopGoes
<1>6. Early => StopGoes(n)
  BY DEF StopGoes
<1>7. stop[n].at # "lock" <=> ~(stop[n].at = "lock")
  OBVIOUS
<1> HIDE DEF Early
<1> QED BY <1>1, <1>2, <1>3, <1>4, <1>5, <1>6, <1>7, PTL

\* So is a start.
LEMMA CallReturns ==
  ASSUME NEW p \in Callers
  PROVE  []IInv /\ [][Next]_vars /\ Fairness => []<>(call[p].at = "idle")
<1>1. Fairness => /\ []<>~CallGoes(p)
                  /\ []<>(call[p].at = "wait" /\ lock = None) => []<>(call[p].at # "wait")
  BY DEF Fairness
<1>2. []IInv /\ [][Next]_vars /\ Fairness => []<>(lock = None)
  BY LockComesFree
<1>3. call[p].at = "idle" \/ call[p].at = "wait" \/ CallGoes(p)
  BY DEF CallGoes
<1>4. IInv /\ [Next]_vars => (CallGoes(p) => (CallGoes(p) \/ call[p].at = "idle")')
  BY CallMoves
<1>5. call[p].at # "wait" <=> ~(call[p].at = "wait")
  OBVIOUS
<1> QED BY <1>1, <1>2, <1>3, <1>4, <1>5, PTL

\* Every stop and every start returns, for any number of requests, restarts, crashes
\* and refused labels: whoever holds the network-operation lock waits for nothing
\* else, although a stop by app ID has set appStopping when it comes to wait for the
\* lock and one by container ID sets it while it holds the lock.
THEOREM AllRequestsReturn == FairSpec => RequestsReturn
<1>1. FairSpec => []IInv /\ [][Next]_vars /\ Fairness
  BY Invariance, PTL DEF FairSpec, Spec
<1>2. ASSUME NEW p \in Callers
      PROVE  []IInv /\ [][Next]_vars /\ Fairness => []<>(call[p].at = "idle")
  BY CallReturns
<1>3. ASSUME NEW n \in Names
      PROVE  []IInv /\ [][Next]_vars /\ Fairness => []<>(stop[n].at = "idle")
  BY StopReturns
<1> QED BY <1>1, <1>2, <1>3 DEF RequestsReturn
=============================================================================
