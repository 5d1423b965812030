-------------------------- MODULE ContainerMonitor --------------------------
(***************************************************************************)
(* The restart monitor of the agent, go/internal/agent/container/          *)
(* monitor.go: what it remembers of every registered container, the calls  *)
(* the container service and the containerd client make on it, and one     *)
(* pass of checkContainers.  Every operation that takes m.mu once is one   *)
(* action; a pass is several, because it releases m.mu around every call   *)
(* to containerd.  CrashLoop closes this component with a free             *)
(* environment, ContainerLifecycle with the service and the client.        *)
(*                                                                         *)
(* An instant that the code keeps as a time.Time is kept here as the time  *)
(* that has passed since, saturating where no comparison can tell          *)
(* further; the zero time is None, except for LastRestart, whose zero is   *)
(* so long ago that every delay has passed.                                *)
(***************************************************************************)
EXTENDS Naturals, FiniteSets

CONSTANTS
    None,
    Containers,      \* names the monitor is keyed by
    Retries,         \* values of MaxRetries (0: no limit)
    Base,            \* restartBackoffBase
    Cap,             \* restartBackoffCap
    Window,          \* restartStabilityWindow
    GPUFloor,        \* gpuMinRestartDelay
    MaxScheduled     \* bound: restart goroutines of one container in flight

ASSUME DelayAssumption == /\ {Base, Cap, Window, GPUFloor} \subseteq Nat \ {0}
                          /\ Base <= Cap
ASSUME RetriesAssumption == /\ Retries \subseteq Nat
                            /\ \E n \in Retries : \A m \in Retries : m <= n
ASSUME ScheduleAssumption == MaxScheduled \in Nat \ {0}

VARIABLES
    states,          \* m.states: the registration of each container, or None
    suppressed,      \* m.suppressed: Suppress handles held on each name
    gpuEntitled,     \* m.gpuEntitled: the cached answer, or None
    pass,            \* the checkContainers call in flight
    scheduled,       \* restartSingle goroutines that have not run yet
    task,            \* containerd: does the container have a running task
    gpuOf            \* containerd: the gpu entitlement in the labels

monitorVars == <<states, suppressed, gpuEntitled, pass, scheduled>>
runtimeVars == <<task, gpuOf>>

\* Policies a container is ever registered with: RestartNo means Unregister.
Policies == {"unless-stopped", "on-failure", "always"}

Least(a, b) == IF a <= b THEN a ELSE b

\* FailureCount matters up to the largest limit it is compared with.
FailureCap == CHOOSE n \in Retries : \A m \in Retries : m <= n

\* The loop of restartDelay after n turns: it doubles, and ends at the cap.
Doubled[n \in Nat] == IF n = 0 THEN Base ELSE Least(2 * Doubled[n - 1], Cap)

\* Delay before the next restart of a container already restarted level times.
restartDelay(level) == IF level = 0 THEN 0 ELSE Doubled[level - 1]

\* The first level whose delay is the cap; the count stops there.
TopLevel == CHOOSE l \in 1 .. Cap : /\ restartDelay(l) = Cap
                                    /\ \A k \in 1 .. l - 1 : restartDelay(k) < Cap

containerState ==
    [FailureCount : 0 .. FailureCap, ExplicitStop : BOOLEAN,
     RestartPolicy : Policies, MaxRetries : Retries,
     BackoffLevel : 0 .. TopLevel, LastRestart : 0 .. Cap,
     RunningSince : {None} \cup 0 .. Window,
     DownSince : {None} \cup 0 .. GPUFloor]

\* at: where the pass is; running: the names ListContainers reported running;
\* unresolved: names still to be looked up; found: answers not yet committed;
\* replaced: names whose registration changed since they were captured.
Passes ==
    [at : {"idle", "listed", "resolving"}, running : SUBSET Containers,
     unresolved : SUBSET Containers, found : [Containers -> {None} \cup BOOLEAN],
     replaced : SUBSET Containers]

NoPass == [at |-> "idle", running |-> {}, unresolved |-> {},
           found |-> [c \in Containers |-> None], replaced |-> {}]

\* The type of the monitor's and the runtime's state.
MonitorTypeOK ==
    /\ states \in [Containers -> {None} \cup containerState]
    /\ suppressed \in [Containers -> Nat]
    /\ gpuEntitled \in [Containers -> {None} \cup BOOLEAN]
    /\ pass \in Passes
    /\ scheduled \in [Containers -> 0 .. MaxScheduled]
    /\ task \in [Containers -> {"up", "down"}]
    /\ gpuOf \in [Containers -> BOOLEAN]

Each(v) == [c \in Containers |-> v]

NewContainerMonitor ==
    /\ states = Each(None) /\ gpuEntitled = Each(None)
    /\ suppressed = Each(0) /\ scheduled = Each(0)
    /\ pass = NoPass

-----------------------------------------------------------------------------
(* Calls on the monitor.                                                   *)

Registered(c) == states[c] # None

\* Mutant: the answer is matched by name, whatever registration it was for.
Replaced_Unnoticed(c) == UNCHANGED pass

\* Register replaces the state pointer, so a lookup in flight is void.
Replaced(c) == pass' = [pass EXCEPT !.replaced = @ \cup {c}]

NewState(policy, maxRetries) ==
    [FailureCount |-> 0, ExplicitStop |-> FALSE,
     RestartPolicy |-> policy, MaxRetries |-> maxRetries,
     BackoffLevel |-> 0, LastRestart |-> Cap,
     RunningSince |-> None, DownSince |-> None]

Register(c, policy, maxRetries) ==
    /\ states' = [states EXCEPT ![c] = NewState(policy, maxRetries)]
    /\ gpuEntitled' = [gpuEntitled EXCEPT ![c] = None]
    /\ Replaced(c)
    /\ UNCHANGED <<suppressed, scheduled>>

Unregister(c) ==
    /\ states' = [states EXCEPT ![c] = None]
    /\ gpuEntitled' = [gpuEntitled EXCEPT ![c] = None]
    /\ Replaced(c)
    /\ UNCHANGED <<suppressed, scheduled>>

\* Both are no-ops on a name that is not registered.
SetExplicitStop(c, stop) ==
    /\ states' = [states EXCEPT ![c] =
                     IF Registered(c) THEN [@ EXCEPT !.ExplicitStop = stop] ELSE @]
    /\ UNCHANGED <<suppressed, gpuEntitled, pass, scheduled>>

MarkExplicitStop(c) == SetExplicitStop(c, TRUE)

ClearExplicitStop(c) == SetExplicitStop(c, FALSE)

Suppress(c) ==
    /\ suppressed' = [suppressed EXCEPT ![c] = @ + 1]
    /\ UNCHANGED <<states, gpuEntitled, pass, scheduled>>

\* The func Suppress returned, called for the first time.
Resume(c) ==
    /\ suppressed' = [suppressed EXCEPT ![c] = IF @ > 0 THEN @ - 1 ELSE @]
    /\ UNCHANGED <<states, gpuEntitled, pass, scheduled>>

\* Re-checked by a restart goroutine right before StartContainer.
restartBlocked(c) ==
    \/ suppressed[c] > 0
    \/ ~Registered(c)
    \/ states[c].ExplicitStop

-----------------------------------------------------------------------------
(* One pass of checkContainers.                                            *)

shouldRestart(s) ==
    /\ ~s.ExplicitStop
    /\ s.RestartPolicy = "on-failure"
          => s.MaxRetries = 0 \/ s.FailureCount < s.MaxRetries

ListContainers ==
    /\ pass.at = "idle"
    /\ pass' = [NoPass EXCEPT !.at = "listed",
                              !.running = {c \in Containers : task[c] = "up"}]
    /\ UNCHANGED <<states, suppressed, gpuEntitled, scheduled>>

\* resolveGPUEntitlements: the names to ask about, captured under m.mu.
CaptureUnresolved ==
    /\ pass.at = "listed"
    /\ pass' = [pass EXCEPT !.at = "resolving", !.replaced = {},
                    !.unresolved = {c \in Containers :
                                       Registered(c) /\ gpuEntitled[c] = None}]
    /\ UNCHANGED <<states, suppressed, gpuEntitled, scheduled>>

\* HasGPUEntitlement, without m.mu; an error drops the name from this pass.
LookupGPU(c) ==
    /\ c \in pass.unresolved /\ pass.found[c] = None
    /\ \/ pass' = [pass EXCEPT !.found[c] = gpuOf[c]]
       \/ pass' = [pass EXCEPT !.unresolved = @ \ {c}]
    /\ UNCHANGED <<states, suppressed, gpuEntitled, scheduled>>

\* The answer is kept only for the registration it was asked for.
CommitGPU(c) ==
    /\ c \in pass.unresolved /\ pass.found[c] # None
    /\ gpuEntitled' = [gpuEntitled EXCEPT ![c] =
                          IF c \in pass.replaced THEN @ ELSE pass.found[c]]
    /\ pass' = [pass EXCEPT !.unresolved = @ \ {c}, !.found[c] = None]
    /\ UNCHANGED <<states, suppressed, scheduled>>

\* Mutant: one sighting of a running container forgives the crash loop.
SeenRunning_Once(s) ==
    [s EXCEPT !.DownSince = None,
              !.RunningSince = IF @ = None THEN 0 ELSE @,
              !.BackoffLevel = 0]

\* planRestarts on a container the listing reported running.
SeenRunning(s) ==
    [s EXCEPT !.DownSince = None,
              !.RunningSince = IF @ = None THEN 0 ELSE @,
              !.BackoffLevel = IF s.RunningSince = Window THEN 0 ELSE @]

\* Mutant: every pass dates the death anew.
SeenDown_Redated(s) == [s EXCEPT !.RunningSince = None, !.DownSince = 0]

\* planRestarts on one it did not: the streak is void, the death is dated.
SeenDown(s) ==
    [s EXCEPT !.RunningSince = None, !.DownSince = IF @ = None THEN 0 ELSE @]

\* The conditions under which planRestarts restarts c, with s = SeenDown(...).
Due(c, s) ==
    /\ suppressed[c] = 0
    /\ shouldRestart(s)
    /\ gpuEntitled[c] = TRUE => s.DownSince >= GPUFloor
    /\ s.LastRestart >= restartDelay(s.BackoffLevel)

\* Mutant: the level grows without bound.
Counted_PastCap(s) ==
    [s EXCEPT !.FailureCount = Least(@ + 1, FailureCap),
              !.LastRestart = 0,
              !.BackoffLevel = @ + 1]

\* The bookkeeping of a restart: the level stops where the delay is the cap.
Counted(s) ==
    [s EXCEPT !.FailureCount = Least(@ + 1, FailureCap),
              !.LastRestart = 0,
              !.BackoffLevel = IF restartDelay(@) < Cap THEN @ + 1 ELSE @]

Planned == {c \in Containers : /\ Registered(c)
                               /\ c \notin pass.running
                               /\ Due(c, SeenDown(states[c]))}

\* One pass over m.states under m.mu; every due container gets a goroutine.
planRestarts ==
    /\ pass.at = "resolving" /\ pass.unresolved = {}
    /\ \A c \in Planned : scheduled[c] < MaxScheduled
    /\ states' = [c \in Containers |->
                    IF ~Registered(c) THEN None
                    ELSE IF c \in pass.running THEN SeenRunning(states[c])
                    ELSE IF c \in Planned THEN Counted(SeenDown(states[c]))
                    ELSE SeenDown(states[c])]
    /\ scheduled' = [c \in Containers |->
                       IF c \in Planned THEN scheduled[c] + 1 ELSE scheduled[c]]
    /\ pass' = NoPass
    /\ UNCHANGED <<suppressed, gpuEntitled>>

PassStep ==
    \/ ListContainers
    \/ CaptureUnresolved
    \/ \E c \in Containers : LookupGPU(c) \/ CommitGPU(c)
    \/ planRestarts

\* The clock: one unit on every age.
Aged(age, top) == IF age = None THEN None ELSE Least(age + 1, top)

Time ==
    /\ states' = [c \in Containers |->
                    IF ~Registered(c) THEN None
                    ELSE [states[c] EXCEPT !.LastRestart = Least(@ + 1, Cap),
                                           !.RunningSince = Aged(@, Window),
                                           !.DownSince = Aged(@, GPUFloor)]]
    /\ UNCHANGED <<suppressed, gpuEntitled, pass, scheduled>>
=============================================================================
