------------------------- MODULE ContainerLifecycle -------------------------
(***************************************************************************)
(* One app container between the three parties that start and stop it: the *)
(* restart monitor (ContainerMonitor), the start and stop handlers of the  *)
(* container service (services/container_service.go) and the agent's boot  *)
(* reconciliation.  They meet in the containerd client, whose              *)
(* startContainer and StopContainer exclude each other with a lock per     *)
(* container and a flag per app (containerd/client.go), and in a label of  *)
(* the container, stopped-by-user, which survives the agent.               *)
(*                                                                         *)
(* A step is what the code does under one lock, or one call to containerd. *)
(***************************************************************************)
EXTENDS ContainerMonitor

CONSTANTS
    App,             \* the container the requests are about
    MaxRequests,     \* bound: start and stop requests
    MaxMishaps       \* bound: agent restarts and reboots, and label updates
                     \* that containerd refuses, together

\* A stop names its container by the container's ID or by the app's.
Names == {"container", "app"}
Callers == {"monitor", "user"}

ASSUME AppAssumption == App \in Containers
ASSUME LockAssumption == None \notin Names \cup Callers
ASSUME PolicyAssumption == 0 \in Retries
ASSUME BoundsAssumption == {MaxRequests, MaxMishaps} \subseteq Nat

VARIABLES
    label,           \* the persisted stopped-by-user label
    appStopping,     \* c.appStopping[appID]
    lock,            \* holder of the container's network-operation lock
    call,            \* startContainer calls: the monitor's and the user's
    stop,            \* the StopContainer request in flight under each name
    boot,            \* ReconcileBootContainers: where it is, what it listed
    budget,          \* requests and mishaps left
    wantDown,        \* history: a stop has been acknowledged, no start since
    late             \* history: the races that undid that stop

vars == <<monitorVars, runtimeVars, label, appStopping, lock, call, stop, boot,
          budget, wantDown, late>>

\* How a stop comes undone: a restart past its re-check, a boot listing from
\* before it, the rollback of another stop that was refused or that failed.
Races == {"check", "boot", "refused", "failed"}

\* The steps of a stop from its mark to its answer.
Active == {"persist", "lock", "claim", "suppress", "teardown", "cleanup", "resume"}

\* History: overlap, a start request was in flight at some point of the stop;
\* undone, the races that took its marks since it made them.
NoStop == [at |-> "idle", persisted |-> FALSE, failed |-> FALSE,
           overlap |-> FALSE, undone |-> {}]

\* raced: history, a stop has marked the container since the call's check,
\* or one was under way at the boot listing or has begun since.
NoCall == [at |-> "idle", raced |-> FALSE]

NoBoot == [at |-> "list", keep |-> FALSE, raced |-> FALSE]

\* The type of the whole state.
TypeOK ==
    /\ MonitorTypeOK
    /\ label \in BOOLEAN /\ appStopping \in BOOLEAN
    /\ lock \in {None} \cup Names \cup Callers
    /\ call \in [Callers ->
                   [at : {"idle", "wait", "held", "clear", "unlabel", "register"},
                    raced : BOOLEAN]]
    /\ call["monitor"].at \in {"idle", "wait", "held"}
    /\ stop \in [Names -> [at : Active \cup {"idle", "unmark", "unlabel"},
                           persisted : BOOLEAN, failed : BOOLEAN,
                           overlap : BOOLEAN, undone : SUBSET (Races \ {"check"})]]
    /\ boot \in [at : {"list", "register", "done"}, keep : BOOLEAN, raced : BOOLEAN]
    /\ budget \in [requests : 0 .. MaxRequests, mishaps : 0 .. MaxMishaps]
    /\ wantDown \in BOOLEAN
    /\ late \subseteq Races
    /\ suppressed[App] <= 1

\* The agent starts on a device with the app deployed and not running.
Init ==
    /\ NewContainerMonitor
    /\ task = [c \in Containers |-> "down"]
    /\ gpuOf = [c \in Containers |-> FALSE]
    /\ label = FALSE /\ appStopping = FALSE /\ lock = None
    /\ call = [p \in Callers |-> NoCall]
    /\ stop = [n \in Names |-> NoStop] /\ boot = NoBoot
    /\ budget = [requests |-> MaxRequests, mishaps |-> MaxMishaps]
    /\ wantDown = FALSE /\ late = {}

-----------------------------------------------------------------------------
(* containerd client: the label, and startContainer for either caller.      *)

\* SetStoppedByUser, which may fail and leave the label as it was.
SetStoppedByUser(stopped, ok) ==
    /\ ok \/ budget.mishaps > 0
    /\ label' = IF ok THEN stopped ELSE label
    /\ budget' = IF ok THEN budget ELSE [budget EXCEPT !.mishaps = @ - 1]

Goes(p, at) == call' = [call EXCEPT ![p].at = at]
Returns(p) == call' = [call EXCEPT ![p] = NoCall]

Held(p) == lock = p

\* Mutant: only the flag is looked at; a start does not wait for the lock.
StartLock_Unlocked(p) ==
    /\ call[p].at = "wait"
    /\ IF appStopping THEN Returns(p) ELSE Goes(p, "held")
    /\ UNCHANGED <<monitorVars, runtimeVars, label, appStopping, lock, stop, boot,
                   budget, wantDown, late>>

\* lockNetworkOperation, then the first look at appStopping under c.mu.
StartLock(p) ==
    /\ call[p].at = "wait"
    /\ lock = None
    /\ \/ appStopping /\ Returns(p) /\ UNCHANGED lock
       \/ ~appStopping /\ Goes(p, "held") /\ lock' = p
    /\ UNCHANGED <<monitorVars, runtimeVars, label, appStopping, stop, boot,
                   budget, wantDown, late>>

Unlock(p) == lock' = IF Held(p) THEN None ELSE lock

\* The second look at appStopping, deleteStaleTask (which kills a task that
\* is still running) and NewTask.
StartTask(p) ==
    /\ call[p].at = "held"
    /\ ~appStopping
    /\ task' = [task EXCEPT ![App] = "up"]
    /\ IF p = "user" THEN Goes(p, "clear") ELSE Returns(p)
    /\ Unlock(p)
    /\ late' = IF wantDown /\ call[p].raced THEN late \cup {"check"} ELSE late
    /\ UNCHANGED <<monitorVars, gpuOf, label, appStopping, stop, boot, budget, wantDown>>

\* The call fails, before or after the stale task is gone.
StartError(p) ==
    /\ call[p].at = "held"
    /\ \E t \in {task[App], "down"} : task' = [task EXCEPT ![App] = t]
    /\ Returns(p)
    /\ Unlock(p)
    /\ UNCHANGED <<monitorVars, gpuOf, label, appStopping, stop, boot,
                   budget, wantDown, late>>

-----------------------------------------------------------------------------
(* Container service: a start request, then recordContainerStart.          *)

UserStart ==
    /\ call["user"].at = "idle" /\ budget.requests > 0
    /\ Goes("user", "wait")
    /\ budget' = [budget EXCEPT !.requests = @ - 1]
    /\ wantDown' = FALSE /\ late' = {}
    /\ stop' = [n \in Names |-> [stop[n] EXCEPT !.overlap = @ \/ stop[n].at \in Active]]
    /\ UNCHANGED <<monitorVars, runtimeVars, label, appStopping, lock, boot>>

RecordClear ==
    /\ call["user"].at = "clear"
    /\ ClearExplicitStop(App)
    /\ Goes("user", "unlabel")
    /\ UNCHANGED <<runtimeVars, label, appStopping, lock, stop, boot, budget,
                   wantDown, late>>

\* A failure to clear the label is only logged.
RecordUnlabel ==
    /\ call["user"].at = "unlabel"
    /\ \E ok \in BOOLEAN : SetStoppedByUser(FALSE, ok)
    /\ Goes("user", "register")
    /\ UNCHANGED <<monitorVars, runtimeVars, appStopping, lock, stop, boot,
                   wantDown, late>>

\* registerContainerWithMonitor for the default policy.
RecordRegister ==
    /\ call["user"].at = "register"
    /\ Register(App, "unless-stopped", 0)
    /\ Returns("user")
    /\ UNCHANGED <<runtimeVars, label, appStopping, lock, stop, boot, budget,
                   wantDown, late>>

-----------------------------------------------------------------------------
(* Container service: stop requests.  lockApp admits one at a time of each  *)
(* name: a stop by container ID and one by app ID run side by side.         *)

StopAt(n, at) == stop' = [stop EXCEPT ![n].at = at]

\* A race takes the marks that the stops under way and the last acknowledged
\* one have made.
Undone(stops, race) ==
    [n \in Names |-> IF stops[n].at \in Active
                     THEN [stops[n] EXCEPT !.undone = @ \cup {race}]
                     ELSE stops[n]]

Undoes(race) == late' = IF wantDown THEN late \cup {race} ELSE late

\* MarkExplicitStop comes first.
StopMark(n) ==
    /\ stop[n].at = "idle" /\ budget.requests > 0
    /\ MarkExplicitStop(App)
    /\ stop' = [stop EXCEPT ![n] = [NoStop EXCEPT !.at = "persist",
                                                  !.overlap = call["user"].at # "idle"]]
    /\ budget' = [budget EXCEPT !.requests = @ - 1]
    /\ call' = [call EXCEPT !["monitor"].raced = call["monitor"].at # "idle"]
    /\ boot' = [boot EXCEPT !.raced = boot.at = "register"]
    /\ UNCHANGED <<runtimeVars, label, appStopping, lock, wantDown, late>>

\* A failure to set the label is only logged, too.
StopPersist(n) ==
    /\ stop[n].at = "persist"
    /\ \E ok \in BOOLEAN :
          /\ SetStoppedByUser(TRUE, ok)
          /\ stop' = [stop EXCEPT ![n].persisted = ok,
                                  ![n].at = IF n = "app" THEN "claim" ELSE "lock"]
    /\ UNCHANGED <<monitorVars, runtimeVars, appStopping, lock, call, boot,
                   wantDown, late>>

\* A stop by container ID locks it and then claims the app; a stop by app ID
\* claims the app and then locks its containers.
StopLock(n) ==
    /\ stop[n].at = "lock"
    /\ lock = None
    /\ lock' = n
    /\ StopAt(n, IF n = "app" THEN "suppress" ELSE "claim")
    /\ UNCHANGED <<monitorVars, runtimeVars, label, appStopping, call, boot, budget,
                   wantDown, late>>

StopClaim(n) ==
    /\ stop[n].at = "claim"
    /\ ~appStopping
    /\ appStopping' = TRUE
    /\ StopAt(n, IF n = "app" THEN "lock" ELSE "suppress")
    /\ UNCHANGED <<monitorVars, runtimeVars, label, lock, call, boot, budget,
                   wantDown, late>>

\* A stop that ends with an error goes on to take its marks back.
GivesUp(n, failed) ==
    stop' = [stop EXCEPT ![n] = [NoStop EXCEPT !.at = "unmark", !.failed = failed,
                                               !.persisted = stop[n].persisted]]

\* errAppStopping: the other name's stop is tearing the app down.
StopRefused(n) ==
    /\ stop[n].at = "claim"
    /\ appStopping
    /\ GivesUp(n, FALSE)
    /\ Unlock(n)
    /\ UNCHANGED <<monitorVars, runtimeVars, label, appStopping, call, boot, budget,
                   wantDown, late>>

\* resolveTargets fails: containerd does not answer.
StopUnresolved(n) ==
    /\ stop[n].at = "claim"
    /\ GivesUp(n, TRUE)
    /\ Unlock(n)
    /\ UNCHANGED <<monitorVars, runtimeVars, label, appStopping, call, boot, budget,
                   wantDown, late>>

StopSuppress(n) ==
    /\ stop[n].at = "suppress"
    /\ Suppress(App)
    /\ StopAt(n, "teardown")
    /\ UNCHANGED <<runtimeVars, label, appStopping, lock, call, boot, budget,
                   wantDown, late>>

\* stopOne: the task is gone, or an error left it up or down.
StopOne(n) ==
    /\ stop[n].at = "teardown"
    /\ \E failed \in BOOLEAN, t \in {task[App], "down"} :
          /\ ~failed => t = "down"
          /\ task' = [task EXCEPT ![App] = t]
          /\ stop' = [stop EXCEPT ![n].at = "cleanup", ![n].failed = failed]
    /\ UNCHANGED <<monitorVars, gpuOf, label, appStopping, lock, call, boot, budget,
                   wantDown, late>>

StopCleanup(n) ==
    /\ stop[n].at = "cleanup"
    /\ appStopping' = FALSE
    /\ StopAt(n, "resume")
    /\ UNCHANGED <<monitorVars, runtimeVars, label, lock, call, boot, budget,
                   wantDown, late>>

\* Without an error the stop is acknowledged.
Answers(n) ==
    IF stop[n].failed
    THEN GivesUp(n, TRUE) /\ UNCHANGED <<wantDown, late>>
    ELSE /\ stop' = [stop EXCEPT ![n] = NoStop]
         /\ IF stop[n].persisted /\ ~stop[n].overlap
            THEN wantDown' = TRUE /\ late' = stop[n].undone
            ELSE UNCHANGED <<wantDown, late>>

\* Mutant: the handle is not given back.
StopResume_KeepsHandle(n) ==
    /\ stop[n].at = "resume"
    /\ lock' = None
    /\ Answers(n)
    /\ UNCHANGED <<monitorVars, runtimeVars, label, appStopping, call, boot, budget>>

\* The deferred resume and unlock, and the answer.
StopResume(n) ==
    /\ stop[n].at = "resume"
    /\ Resume(App)
    /\ lock' = None
    /\ Answers(n)
    /\ UNCHANGED <<runtimeVars, label, appStopping, call, boot, budget>>

Rollback(n) == IF stop[n].failed THEN "failed" ELSE "refused"

\* A stop takes its marks back, ClearExplicitStop and then the label, whoever
\* else has made them by now.
StopUnmark(n) ==
    /\ stop[n].at = "unmark"
    /\ ClearExplicitStop(App)
    /\ stop' = LET next == IF stop[n].persisted
                           THEN [stop[n] EXCEPT !.at = "unlabel"] ELSE NoStop
               IN Undone([stop EXCEPT ![n] = next], Rollback(n))
    /\ Undoes(Rollback(n))
    /\ UNCHANGED <<runtimeVars, label, appStopping, lock, call, boot, budget, wantDown>>

StopUnlabel(n) ==
    /\ stop[n].at = "unlabel"
    /\ \E ok \in BOOLEAN : SetStoppedByUser(FALSE, ok)
    /\ stop' = Undone([stop EXCEPT ![n] = NoStop], Rollback(n))
    /\ Undoes(Rollback(n))
    /\ UNCHANGED <<monitorVars, runtimeVars, appStopping, lock, call, boot, wantDown>>

-----------------------------------------------------------------------------
(* The monitor's goroutine, the boot, the runtime.                         *)

\* restartSingle: the re-check, then (not atomically) StartContainer.
RestartCheck ==
    /\ scheduled[App] > 0 /\ call["monitor"].at = "idle"
    /\ scheduled' = [scheduled EXCEPT ![App] = @ - 1]
    /\ \/ restartBlocked(App) /\ UNCHANGED call
       \/ ~restartBlocked(App) /\ Goes("monitor", "wait")
    /\ UNCHANGED <<states, suppressed, gpuEntitled, pass, runtimeVars, label,
                   appStopping, lock, stop, boot, budget, wantDown, late>>

InFlight == \E n \in Names : stop[n].at \in Active

\* Mutant: the label is not looked at.
BootList_All ==
    /\ boot.at = "list"
    /\ boot' = [at |-> "register", keep |-> TRUE, raced |-> InFlight]
    /\ UNCHANGED <<monitorVars, runtimeVars, label, appStopping, lock, call, stop,
                   budget, wantDown, late>>

\* ListBootContainers passes over a container the user stopped.
BootList ==
    /\ boot.at = "list"
    /\ boot' = [at |-> "register", keep |-> ~label, raced |-> InFlight]
    /\ UNCHANGED <<monitorVars, runtimeVars, label, appStopping, lock, call, stop,
                   budget, wantDown, late>>

\* A listing from before a stop replaces the registration it has marked.
BootRegister ==
    /\ boot.at = "register"
    /\ \/ boot.keep /\ Register(App, "unless-stopped", 0)
       \/ ~boot.keep /\ UNCHANGED monitorVars
    /\ IF boot.keep /\ boot.raced
       THEN stop' = Undone(stop, "boot") /\ Undoes("boot")
       ELSE UNCHANGED <<stop, late>>
    /\ boot' = [NoBoot EXCEPT !.at = "done"]
    /\ UNCHANGED <<runtimeVars, label, appStopping, lock, call, budget, wantDown>>

\* The agent dies and is started again, alone (tasks survive it) or with the
\* device.  Requests in flight are gone, the label is not.
Crash ==
    /\ budget.mishaps > 0
    /\ states' = Each(None) /\ gpuEntitled' = Each(None)
    /\ suppressed' = Each(0) /\ scheduled' = Each(0)
    /\ pass' = NoPass
    /\ \E t \in {task[App], "down"} : task' = [task EXCEPT ![App] = t]
    /\ appStopping' = FALSE /\ lock' = None
    /\ call' = [p \in Callers |-> NoCall]
    /\ stop' = [n \in Names |-> NoStop] /\ boot' = NoBoot
    /\ budget' = [budget EXCEPT !.mishaps = @ - 1]
    /\ UNCHANGED <<gpuOf, label, wantDown, late>>

Die ==
    /\ task[App] = "up"
    /\ task' = [task EXCEPT ![App] = "down"]
    /\ UNCHANGED <<monitorVars, gpuOf, label, appStopping, lock, call, stop, boot,
                   budget, wantDown, late>>

Monitor ==
    /\ PassStep \/ Time
    /\ UNCHANGED <<runtimeVars, label, appStopping, lock, call, stop, boot, budget,
                   wantDown, late>>

StartStep == \/ \E p \in Callers : StartLock(p) \/ StartTask(p) \/ StartError(p)
             \/ RecordClear \/ RecordUnlabel \/ RecordRegister

StopStep ==
    \E n \in Names :
        \/ StopPersist(n) \/ StopLock(n) \/ StopClaim(n) \/ StopRefused(n)
        \/ StopUnresolved(n) \/ StopSuppress(n) \/ StopOne(n) \/ StopCleanup(n)
        \/ StopResume(n) \/ StopUnmark(n) \/ StopUnlabel(n)

Next ==
    \/ UserStart \/ StartStep
    \/ \E n \in Names : StopMark(n)
    \/ StopStep
    \/ Monitor \/ RestartCheck
    \/ BootList \/ BootRegister
    \/ Crash \/ Die

Spec == Init /\ [][Next]_vars

\* Fairness, stated by what does not last.  A stop and a start that need not wait
\* go on (weak fairness of their steps: calls to containerd are bounded), and
\* whoever waits for the network-operation lock gets it if it is free again and
\* again (strong fairness: a Go mutex does not starve a waiter).
StopGoes(n) == stop[n].at \notin {"idle", "lock"}

CallGoes(p) == call[p].at \notin {"idle", "wait"}

Fairness ==
    /\ \A n \in Names :
          /\ []<>~StopGoes(n)
          /\ []<>(stop[n].at = "lock" /\ lock = None) => []<>(stop[n].at # "lock")
    /\ \A p \in Callers :
          /\ []<>~CallGoes(p)
          /\ []<>(call[p].at = "wait" /\ lock = None) => []<>(call[p].at # "wait")

FairSpec == Spec /\ Fairness

-----------------------------------------------------------------------------
(* Properties.                                                             *)

Up == task[App] = "up"

\* A container whose stop was acknowledged, with no start request since or
\* during it, comes back only through one of four races: a restart that had
\* passed its re-check when the stop marked the container, a boot listing from
\* before the stop that is applied after its mark, and the rollback, after the
\* mark, of another stop that was refused or that failed.  No planned, queued
\* or later restart, agent crash or reboot resurrects it (MarkExplicitStop
\* before the teardown, restartBlocked, the label and ListBootContainers).
StopHolds == wantDown /\ Up => late # {}

\* No restart resurrects it by itself: "a direct user stop always wins" over
\* whatever the monitor has planned, queued or begun.
StopBeatsRestart == wantDown /\ Up => late # {"check"}

\* Nor does another stop: appMu makes the marks and the containerd call of one
\* request "atomic with respect to concurrent RPCs for the same app", so that a
\* stop which is refused because another is under way takes nothing from it.
StopsSerialised == wantDown /\ Up => late # {"refused"}

\* From the kill until the stop lets go of the container no start, however
\* long it has been waiting, gives it a task (the network-operation lock and
\* appStopping of the containerd client, for both lock orders of a stop).
TeardownExclusive ==
    \A n \in Names : stop[n].at \in {"cleanup", "resume"} /\ ~stop[n].failed => ~Up

\* Suppression, the app's flag and the container's lock are held only by stops
\* that are under way: every path out of StopContainer, refused or failed, gives
\* back exactly what it took, so that no stop leaves a container that will never
\* be restarted or an app whose every later stop is refused.
NothingLeaked ==
    (\A n \in Names : stop[n].at = "idle") =>
        suppressed[App] = 0 /\ ~appStopping /\ lock \notin Names

\* Every stop and every start returns, although a stop takes the flag and the lock
\* in either order while a start that holds the lock looks at the flag, and
\* although the monitor goes on restarting (StopContainer, startContainer and the
\* order of locks that lockNetworkOperation prescribes).
RequestsReturn ==
    /\ \A n \in Names : []<>(stop[n].at = "idle")
    /\ \A p \in Callers : []<>(call[p].at = "idle")

=============================================================================
