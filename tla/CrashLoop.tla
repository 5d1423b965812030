------------------------------ MODULE CrashLoop ------------------------------
(***************************************************************************)
(* The restart monitor under a free environment: containers that die when  *)
(* they like, an operator who starts, stops, deletes and redeploys them,   *)
(* and a containerd whose starts may fail.  Calls that the service makes   *)
(* in a row (start then Register) are one step here; their interleavings   *)
(* are the subject of ContainerLifecycle.                                  *)
(***************************************************************************)
EXTENDS ContainerMonitor

CONSTANTS
    MaxHandles,      \* bound: Suppress handles held on one name at a time
    MaxLoop          \* bound: restarts of one crash loop that are counted

ASSUME NoneAssumption == None \notin Nat
ASSUME PolicyAssumption == 0 \in Retries
ASSUME BoundsAssumption == {MaxHandles, MaxLoop} \subseteq Nat \ {0}

VARIABLES
    upFor,           \* history: how long the task has really been up, or None
    loop,            \* history: [n, age]: restarts of the crash loop, its age
    redeployed       \* history: redeployed since its last registration

history == <<upFor, loop, redeployed>>
vars == <<monitorVars, runtimeVars, history>>

\* The least time n restarts of a crash loop take from the first to the last.
LoopSpan[n \in Nat] == IF n <= 1 THEN 0 ELSE LoopSpan[n - 1] + restartDelay(n - 1)

Fresh == [n |-> 0, age |-> 0]

\* The monitor's variables, the runtime's and the history are well typed.
TypeOK ==
    /\ MonitorTypeOK
    /\ \A c \in Containers : suppressed[c] <= MaxHandles
    /\ upFor \in [Containers -> {None} \cup 0 .. Window]
    /\ loop \in [Containers -> [n : 0 .. MaxLoop, age : 0 .. LoopSpan[MaxLoop]]]
    /\ redeployed \in [Containers -> BOOLEAN]

Init ==
    /\ NewContainerMonitor
    /\ task = [c \in Containers |-> "down"]
    /\ gpuOf \in [Containers -> BOOLEAN]
    /\ upFor = [c \in Containers |-> None]
    /\ loop = [c \in Containers |-> Fresh]
    /\ redeployed = [c \in Containers |-> FALSE]

-----------------------------------------------------------------------------
(* The operator, through the container service.                            *)

\* The policies a start request maps to; NO unregisters.
monitorPolicyInt == {<<"unless-stopped", 0>>} \cup ({"on-failure"} \X Retries)

\* streamContainerOutput: StartContainer, then recordContainerStart.
UserStart(c, policy, maxRetries) ==
    /\ suppressed[c] = 0
    /\ Register(c, policy, maxRetries)
    /\ task' = [task EXCEPT ![c] = "up"]
    /\ upFor' = [upFor EXCEPT ![c] = 0]
    /\ loop' = [loop EXCEPT ![c] = Fresh]
    /\ redeployed' = [redeployed EXCEPT ![c] = FALSE]
    /\ UNCHANGED gpuOf

\* The same with restart policy NO: the registration is removed.
UserStartNo(c) ==
    /\ suppressed[c] = 0
    /\ Unregister(c)
    /\ task' = [task EXCEPT ![c] = "up"]
    /\ upFor' = [upFor EXCEPT ![c] = 0]
    /\ loop' = [loop EXCEPT ![c] = Fresh]
    /\ redeployed' = [redeployed EXCEPT ![c] = FALSE]
    /\ UNCHANGED gpuOf

UserDelete(c) ==
    /\ Registered(c)
    /\ Unregister(c)
    /\ task' = [task EXCEPT ![c] = "down"]
    /\ upFor' = [upFor EXCEPT ![c] = None]
    /\ loop' = [loop EXCEPT ![c] = Fresh]
    /\ UNCHANGED <<gpuOf, redeployed>>

UserStop(c) ==
    /\ Registered(c)
    /\ MarkExplicitStop(c)
    /\ task' = [task EXCEPT ![c] = "down"]
    /\ upFor' = [upFor EXCEPT ![c] = None]
    /\ UNCHANGED <<gpuOf, loop, redeployed>>

\* A stop whose teardown failed takes its mark back.
StopFailed(c) ==
    /\ Registered(c) /\ states[c].ExplicitStop
    /\ ClearExplicitStop(c)
    /\ UNCHANGED <<runtimeVars, history>>

\* A replace or stop takes a handle, kills the task and lets go of it.
TeardownBegin(c) ==
    /\ suppressed[c] < MaxHandles
    /\ Suppress(c)
    /\ UNCHANGED <<runtimeVars, history>>

\* CreateContainerWithProgress, under its handle: new labels, no task.
Redeploy(c) ==
    /\ suppressed[c] > 0
    /\ \E gpu \in BOOLEAN : gpuOf' = [gpuOf EXCEPT ![c] = gpu]
    /\ task' = [task EXCEPT ![c] = "down"]
    /\ upFor' = [upFor EXCEPT ![c] = None]
    /\ redeployed' = [redeployed EXCEPT ![c] = TRUE]
    /\ UNCHANGED <<monitorVars, loop>>

TeardownEnd(c) ==
    /\ suppressed[c] > 0
    /\ Resume(c)
    /\ UNCHANGED <<runtimeVars, history>>

-----------------------------------------------------------------------------
(* The runtime and the monitor's goroutines.                               *)

Die(c) ==
    /\ task[c] = "up"
    /\ task' = [task EXCEPT ![c] = "down"]
    /\ upFor' = [upFor EXCEPT ![c] = None]
    /\ UNCHANGED <<monitorVars, gpuOf, loop, redeployed>>

Ran(c) ==
    /\ scheduled[c] > 0
    /\ scheduled' = [scheduled EXCEPT ![c] = @ - 1]
    /\ UNCHANGED <<states, suppressed, gpuEntitled, pass>>

\* restartSingle that finds the restart blocked, or whose start fails.
RestartSkipped(c) ==
    /\ Ran(c)
    /\ UNCHANGED <<runtimeVars, history>>

\* restartSingle whose StartContainer succeeds.
RestartStarted(c) ==
    /\ ~restartBlocked(c)
    /\ Ran(c)
    /\ task' = [task EXCEPT ![c] = "up"]
    /\ upFor' = [upFor EXCEPT ![c] = IF @ = None THEN 0 ELSE @]
    /\ UNCHANGED <<gpuOf, loop, redeployed>>

\* A pass; history counts the restarts it plans.  Passes are a ticker period
\* apart, and the goroutines of one have run when the next begins.
Pass ==
    /\ pass.at = "idle" => \A c \in Containers : scheduled[c] = 0
    /\ PassStep
    /\ loop' = [c \in Containers |->
                  IF scheduled'[c] <= scheduled[c] THEN loop[c]
                  ELSE IF loop[c].n = MaxLoop THEN [loop[c] EXCEPT !.age = LoopSpan[MaxLoop]]
                  ELSE [loop[c] EXCEPT !.n = @ + 1, !.age = IF loop[c].n = 0 THEN 0 ELSE @]]
    /\ UNCHANGED <<runtimeVars, upFor, redeployed>>

\* A whole stability window of real uptime ends a crash loop.  A pass takes
\* less than a unit of time, so the clock moves between passes.
Clock ==
    /\ pass.at = "idle"
    /\ Time
    /\ upFor' = [c \in Containers |-> Aged(upFor[c], Window)]
    /\ loop' = [c \in Containers |->
                  IF upFor'[c] = Window THEN Fresh
                  ELSE [loop[c] EXCEPT !.age =
                          IF loop[c].n = 0 THEN 0 ELSE Least(@ + 1, LoopSpan[MaxLoop])]]
    /\ UNCHANGED <<runtimeVars, redeployed>>

UserStep(c) ==
    \/ \E p \in monitorPolicyInt : UserStart(c, p[1], p[2])
    \/ UserStartNo(c) \/ UserDelete(c) \/ UserStop(c) \/ StopFailed(c)
    \/ TeardownBegin(c) \/ Redeploy(c) \/ TeardownEnd(c)

Next ==
    \/ Pass
    \/ Clock
    \/ \E c \in Containers : \/ UserStep(c)
                             \/ Die(c)
                             \/ RestartSkipped(c)
                             \/ RestartStarted(c)

Spec == Init /\ [][Next]_vars

\* The ticker fires and its pass runs to the end; scheduled goroutines run,
\* time passes, and a start that is tried again and again succeeds some day.
Fairness ==
    /\ WF_vars(Pass) /\ SF_vars(Clock)
    /\ \A c \in Containers : /\ WF_vars(RestartSkipped(c))
                             /\ SF_vars(RestartStarted(c))

FairSpec == Spec /\ Fairness

-----------------------------------------------------------------------------
(* Properties.                                                             *)

\* A container that keeps dying before it has been up for the stability
\* window is restarted ever more slowly: from the first restart of the loop
\* to the n-th at least 0 + base + 2*base + ... has passed, however the
\* passes, the deaths and the single sightings of RUNNING interleave
\* (restartDelay, planRestarts, restartStabilityWindow).
CrashLoopSlows ==
    \A c \in Containers : loop[c].age >= LoopSpan[loop[c].n]

\* The cached gpu answer is that of the container now registered under the
\* name: neither a lookup that was in flight when the name was re-registered
\* nor the answer for a previous deployment survives (Register, Unregister
\* and the pointer comparison in resolveGPUEntitlements).
GPUCacheFresh ==
    \A c \in Containers :
        gpuEntitled[c] # None /\ ~redeployed[c] => gpuEntitled[c] = gpuOf[c]

\* A container the monitor must keep running and nobody is tearing down.
Wanted(c) == /\ Registered(c) /\ ~states[c].ExplicitStop
             /\ states[c].RestartPolicy # "on-failure"
             /\ suppressed[c] = 0

\* The monitor never gives up: a container it must keep running, and that
\* nobody stops, replaces or deletes, comes back, through any number of
\* failures, gpu floors and backoff delays (planRestarts, restartSingle).
SelfHeals == \A c \in Containers : Wanted(c) ~> (task[c] = "up" \/ ~Wanted(c))
=============================================================================
