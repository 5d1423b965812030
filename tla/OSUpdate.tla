------------------------------ MODULE OSUpdate ------------------------------
(***************************************************************************)
(* The A/B operating-system update of the agent: the UpdateOS handlers     *)
(* that install an image and leave a pending marker on the data partition, *)
(* and the gate that, at the next agent start, commits the image or rolls  *)
(* it back (internal/agent/oshealth and internal/agent/services).          *)
(*                                                                         *)
(* Three clocks of failure are modelled.  The agent process can die        *)
(* between any two steps (Crash) and is started again in the same boot;    *)
(* the device can lose power (PowerLoss), which starts a new boot and lets *)
(* the bootloader choose the slot; a file operation or a reboot can fail,  *)
(* which the code only logs, and so can the engine's own command (a fault, *)
(* each).  Files on the data partition survive all three.                  *)
(*                                                                         *)
(* The update engine (`wendyos-update`) and the bootloader are external;   *)
(* their part of the state is good, pending, tried and running, and the    *)
(* operators marked EXTERNAL say what the code relies on.                  *)
(***************************************************************************)
EXTENDS Naturals

CONSTANTS None,          \* absence of a marker, record or pending image
          MaxInstalls,   \* bound: images installed
          MaxBoots,      \* bound: boots of the device
          MaxCrashes,    \* bound: deaths of the agent process
          MaxFaults,     \* bound: failed file operations and reboots, and
                         \* commits that end in an error without a verdict
          MaxAges,       \* bound: times a marker outlives MaxPendingMarkerAge
          MarkerBackends \* backends the markers on disk name

ASSUME NoneAssumption == None \notin Nat
ASSUME BackendAssumption ==
  MarkerBackends \subseteq {"wendyos-update", "legacy"}
ASSUME BoundAssumption ==
  /\ MaxInstalls \in Nat /\ MaxBoots \in Nat \ {0} /\ MaxCrashes \in Nat
  /\ MaxFaults \in Nat /\ MaxAges \in Nat

VARIABLES
  running,    \* the image of the slot the device runs (OSVersion())
  good,       \* the committed image, the bootloader's default
  pending,    \* the image the engine has installed and not committed
  tried,      \* the bootloader has spent the pending image's trial boot
  boot,       \* the kernel's boot ID
  marker,     \* pending-update.json
  result,     \* the update result record
  pc,         \* where the agent process is
  rec,        \* the gate's local record
  delegated,  \* Gate.DelegatedHealth of this pass
  installs, crashes, faults, ages,   \* counters against the bounds
  rejected,   \* history: images this pass of the gate saw rejected by a
              \* verdict, the engine's or CheckAll's
  errored,    \* history: images whose commit ended, in this pass, in an
              \* error that is no verdict
  staged,     \* history: this boot's marker has been written, and has been
              \* readable at every agent start since
  confirmed   \* history: images that have been the bootloader's default

engine == <<running, good, pending, tried, boot, confirmed>>
files  == <<marker, result>>
budget == <<installs, crashes, ages>>   \* counts without faults
counts == <<budget, faults>>
verdicts == <<rejected, errored>>
hist   == <<verdicts, staged>>
vars   == <<engine, files, pc, rec, delegated, counts, hist>>

-----------------------------------------------------------------------------
Images  == 0..MaxInstalls
BootIDs == 1..(MaxBoots + MaxInstalls)

\* marker.go PendingMarker.  stale abstracts CreatedAt: the marker is older
\* than MaxPendingMarkerAge.
PendingMarker == [boot : BootIDs, stale : BOOLEAN, old : Images,
                  backend : MarkerBackends]

ASSUME MarkerAssumption == None \notin PendingMarker

Outcomes == {"committed", "rolled_back", "rollback_failed", "commit_failed"}

\* result.go UpdateResult.  fin abstracts FinalizedAt.
UpdateResult == [outcome : Outcomes, old : Images, new : Images,
                 fin : BOOLEAN, final : Images \cup {None}]

ASSUME ResultAssumption == None \notin UpdateResult

\* The gate's passes, in the order gate.go takes them, and the handler's.
GatePCs == {"start", "check", "commit", "commitDelegated",
            "wrCommitted", "clrCommitted", "wrCommitFailed",
            "rbWrite", "rbClear", "rbExec", "rbFinal", "rbFailed", "rbError",
            "reboot", "clrDiscarded", "plainDiscarded", "plainCommit",
            "finalize"}
HandlerPCs == {"recClear", "recWrite", "installedV1"}
PCs == {"down", "serve"} \cup GatePCs \cup HandlerPCs

NoRecord == [outcome |-> "commit_failed", old |-> 0, new |-> 0,
             fin |-> FALSE, final |-> None]

\* Every variable keeps its type: the engine's slots are known images, the
\* marker and the record are well-formed files whenever one is there.
TypeOK ==
  /\ running \in Images /\ good \in Images
  /\ pending \in Images \cup {None} /\ tried \in BOOLEAN
  /\ boot \in BootIDs
  /\ marker \in PendingMarker \cup {None}
  /\ result \in UpdateResult \cup {None}
  /\ pc \in PCs /\ rec \in UpdateResult /\ delegated \in BOOLEAN
  /\ installs \in 0..MaxInstalls /\ crashes \in 0..MaxCrashes
  /\ faults \in 0..MaxFaults /\ ages \in 0..MaxAges
  /\ rejected \subseteq Images /\ errored \subseteq Images
  /\ confirmed \subseteq Images
  /\ staged \in BOOLEAN

Init ==
  /\ running = 0 /\ good = 0 /\ pending = None /\ tried = FALSE /\ boot = 1
  /\ marker = None /\ result = None
  /\ pc = "start" /\ rec = NoRecord /\ delegated = FALSE
  /\ installs = 0 /\ crashes = 0 /\ faults = 0 /\ ages = 0
  /\ rejected = {} /\ errored = {} /\ staged = FALSE /\ confirmed = {0}

-----------------------------------------------------------------------------
(* The bootloader and the engine.                                          *)

\* EXTERNAL: a restart boots the pending image once, or the firmware falls
\* back on its own; with the trial boot spent, or nothing pending, it boots
\* the committed slot ("the bootloader reverts to the previous slot").
Restart(bound) ==
  /\ boot < bound
  /\ boot' = boot + 1
  /\ pc' = "start" /\ staged' = FALSE
  /\ IF pending # None /\ ~tried
     THEN running' \in {pending, good} /\ tried' = TRUE
     ELSE running' = good /\ tried' = tried
  /\ UNCHANGED <<good, pending, confirmed>>

EngineCommitted ==
  /\ good' = pending /\ pending' = None /\ tried' = FALSE
  /\ confirmed' = confirmed \cup {pending}

\* EXTERNAL: the effect of a commit that was cut short.
MayHaveCommitted ==
  \/ UNCHANGED <<good, pending, tried, confirmed>>
  \/ pending # None /\ (running = pending \/ ~tried) /\ EngineCommitted

Fault == faults < MaxFaults /\ faults' = faults + 1

\* EXTERNAL: `wendyos-update commit` and the statuses runUpdaterCommit and
\* commitStatusForExitCode give it.  With nothing pending it exits 2.  On the
\* pending slot it commits or its health.d rejects; run before the trial boot
\* it "would confirm an image that has never booted"; after a fallback the
\* deployment is marked failed.  A commit killed at updaterCommitTimeout may
\* or may not have taken effect, and so may one that ends in any other error:
\* it cannot be executed, dies by a signal, exits with a code of no meaning,
\* or fails with nothing pending.  Nobody rendered a verdict then.
EngineCommit(status) ==
  \/ /\ status = "nothing" /\ pending = None
     /\ UNCHANGED <<good, pending, tried, confirmed, verdicts, faults>>
  \/ /\ status = "ok" /\ pending # None /\ (running = pending \/ ~tried)
     /\ EngineCommitted /\ UNCHANGED <<verdicts, faults>>
  \/ /\ status = "rejected" /\ pending # None
     /\ rejected' = rejected \cup {pending}
     /\ UNCHANGED <<good, pending, tried, confirmed, errored, faults>>
  \/ /\ status = "timeout" /\ UNCHANGED <<verdicts, faults>>
     /\ MayHaveCommitted
  \/ /\ status = "error" /\ Fault
     /\ errored' = errored \cup ({pending} \ {None})
     /\ MayHaveCommitted /\ UNCHANGED rejected
  \/ /\ status = "unavailable"
     /\ UNCHANGED <<good, pending, tried, confirmed, verdicts, faults>>

CommitStatuses ==
  {"nothing", "ok", "rejected", "timeout", "error", "unavailable"}

\* EXTERNAL: `wendyos-update rollback`.  Nothing to roll back is exit 1, an
\* error; a rollback that fails or is killed may have taken effect.
\* reboot_required is exact or, when the line cannot be parsed, TRUE.
EngineRollback(status) ==
  \/ /\ status = "okReboot" /\ pending # None
     /\ pending' = None /\ tried' = FALSE
  \/ /\ status = "okStay" /\ pending # None /\ running = good
     /\ pending' = None /\ tried' = FALSE
  \/ /\ status = "error"
     /\ \/ UNCHANGED <<pending, tried>>
        \/ pending # None /\ pending' = None /\ tried' = FALSE
  \/ /\ status = "unavailable"
     /\ UNCHANGED <<pending, tried>>

-----------------------------------------------------------------------------
(* Steps on the data partition: each takes effect, or fails and is logged. *)

\* gate.go writeResult, result.go WriteUpdateResult (atomic: tmp, fsync, rename)
writeResult(r) ==
  \/ result' = r /\ faults' = faults
  \/ result' = result /\ Fault

\* gate.go clearMarker, marker.go ClearPendingMarker
clearMarker ==
  \/ marker' = None /\ faults' = faults
  \/ marker' = marker /\ Fault

Go(next) == pc' = next

-----------------------------------------------------------------------------
(* Gate.Run: one action per step that touches the engine or the disk.      *)

\* Mutant: the staleness guard runs before the same-boot check.
SameBoot_StaleFirst(m) == m.boot = boot /\ ~m.stale

\* The marker was written in this boot: there has been no reboot yet.
SameBoot(m) == m.boot = boot

\* Mutant: the marker's version is dropped.
NewRecord_NoVersion(m) == [outcome |-> "commit_failed", old |-> None,
                           new |-> running, fin |-> FALSE, final |-> None]

\* The record the gate builds from the marker it consumes.
NewRecord(m) == [outcome |-> "commit_failed", old |-> m.old, new |-> running,
                 fin |-> FALSE, final |-> None]

\* Run, from reading the marker to the first side effect.
Discard == Go("clrDiscarded") /\ UNCHANGED <<rec, delegated>>

GateRun ==
  /\ pc = "start"
  /\ \/ /\ marker # None /\ Fault /\ Discard     \* unreadable
        /\ staged' = FALSE
     \/ /\ faults' = faults /\ staged' = staged
        /\ \/ marker = None /\ Go("plainCommit") /\ UNCHANGED <<rec, delegated>>
           \/ /\ marker # None /\ SameBoot(marker)
              /\ Go("serve") /\ UNCHANGED <<rec, delegated>>
           \/ /\ marker # None /\ ~SameBoot(marker) /\ marker.stale
              /\ Discard
           \/ /\ marker # None /\ ~SameBoot(marker) /\ ~marker.stale
              /\ rec' = NewRecord(marker)
              /\ delegated' = (marker.backend = "wendyos-update")
              /\ Go(IF delegated' THEN "commitDelegated" ELSE "check")
  /\ rejected' = {} /\ errored' = {}
  /\ UNCHANGED <<engine, files, budget>>

\* The agent-run path, taken when no backend resolves (closuresForUpdater):
\* CheckAll's verdict over the critical services.
CheckServices ==
  /\ pc = "check"
  /\ \/ rejected' = rejected \cup {running} /\ Go("rbWrite")
     \/ rejected' = rejected /\ Go("commit")
  /\ UNCHANGED <<engine, files, rec, delegated, counts, errored, staged>>

\* commit with the no-op backend: always unavailable.
Commit ==
  /\ pc = "commit"
  /\ Go("wrCommitFailed")
  /\ UNCHANGED <<engine, files, rec, delegated, counts, hist>>

\* Mutant: the agent's own timeout is taken for a health verdict.
AfterCommit_TimeoutIsVerdict(status) ==
  CASE status \in {"ok", "nothing"}                -> "wrCommitted"
    [] status = "unavailable"                      -> "wrCommitFailed"
    [] status \in {"rejected", "error", "timeout"} -> "rbWrite"

\* commitDelegated: an error rolls back, unless it is the agent's own timeout.
AfterCommit(status) ==
  CASE status \in {"ok", "nothing"}          -> "wrCommitted"
    [] status \in {"unavailable", "timeout"} -> "wrCommitFailed"
    [] status \in {"rejected", "error"}      -> "rbWrite"

CommitDelegated ==
  /\ pc = "commitDelegated"
  /\ \E status \in CommitStatuses :
       /\ EngineCommit(status)
       /\ Go(AfterCommit(status))
  /\ UNCHANGED <<running, boot, files, rec, delegated, budget, staged>>

WriteCommitted ==
  /\ pc = "wrCommitted"
  /\ writeResult([rec EXCEPT !.outcome = "committed", !.fin = TRUE])
  /\ Go("clrCommitted")
  /\ UNCHANGED <<engine, marker, rec, delegated, budget, hist>>

ClearCommitted ==
  /\ pc = "clrCommitted"
  /\ clearMarker
  /\ Go("serve")
  /\ UNCHANGED <<engine, result, rec, delegated, budget, hist>>

\* No verdict: the marker stays for the next agent start.
WriteCommitFailed ==
  /\ pc = "wrCommitFailed"
  /\ writeResult([rec EXCEPT !.outcome = "commit_failed"])
  /\ Go("serve")
  /\ UNCHANGED <<engine, marker, rec, delegated, budget, hist>>

\* rollBack, in its order: the record, the marker, the engine, the reboot.
RollBackWrite ==
  /\ pc = "rbWrite"
  /\ rec' = [rec EXCEPT !.outcome = "rolled_back"]
  /\ writeResult(rec')
  /\ Go("rbClear")
  /\ UNCHANGED <<engine, marker, delegated, budget, hist>>

\* Mutant: the marker is left for the slot rolled back to.
RollBackClear_Kept ==
  /\ pc = "rbClear"
  /\ Go("rbExec")
  /\ UNCHANGED <<engine, files, rec, delegated, counts, hist>>

RollBackClear ==
  /\ pc = "rbClear"
  /\ clearMarker
  /\ Go("rbExec")
  /\ UNCHANGED <<engine, result, rec, delegated, budget, hist>>

\* Mutant: RebootRequired keeps its zero value.
AfterRollback_NeverReboot(status) ==
  CASE status \in {"okReboot", "okStay"} -> "rbFinal"
    [] status = "unavailable"            -> "rbFailed"
    [] status = "error"                  -> "rbError"

AfterRollback(status) ==
  CASE status = "okReboot"    -> "reboot"
    [] status = "okStay"      -> "rbFinal"
    [] status = "unavailable" -> "rbFailed"
    [] status = "error"       -> "rbError"

\* With no backend the closure always reports unavailable.
RollBackExec ==
  /\ pc = "rbExec"
  /\ \E status \in {"okReboot", "okStay", "error", "unavailable"} :
       /\ EngineRollback(status)
       /\ ~delegated => status = "unavailable"
       /\ Go(AfterRollback(status))
  /\ UNCHANGED <<running, good, boot, confirmed, files, rec, delegated, counts,
                 hist>>

\* Already on the previous slot: finalize now.
RollBackFinal ==
  /\ pc = "rbFinal"
  /\ writeResult([rec EXCEPT !.fin = TRUE, !.final = running])
  /\ Go("serve")
  /\ UNCHANGED <<engine, marker, rec, delegated, budget, hist>>

\* Nothing a reboot would change: stay up.
RollBackFailed ==
  /\ pc = "rbFailed"
  /\ writeResult([rec EXCEPT !.outcome = "rollback_failed"])
  /\ Go("serve")
  /\ UNCHANGED <<engine, marker, rec, delegated, budget, hist>>

\* Mutant: a failed rollback is recorded and the device left up.
RollBackError_NoReboot ==
  /\ pc = "rbError"
  /\ writeResult(rec)
  /\ Go("serve")
  /\ UNCHANGED <<engine, marker, rec, delegated, budget, hist>>

\* The engine failed: record it and let the bootloader revert.
RollBackError ==
  /\ pc = "rbError"
  /\ writeResult(rec)
  /\ Go("reboot")
  /\ UNCHANGED <<engine, marker, rec, delegated, budget, hist>>

\* reboot: a failed reboot is logged and the agent goes on to serve.
GateReboot ==
  /\ pc = "reboot"
  /\ \/ Restart(MaxBoots + MaxInstalls) /\ faults' = faults
     \/ Fault /\ Go("serve") /\ UNCHANGED <<engine, staged>>
  /\ UNCHANGED <<files, rec, delegated, budget, verdicts>>

\* An unreadable or stale marker is discarded before the plain commit.
ClearDiscarded ==
  /\ pc = "clrDiscarded"
  /\ clearMarker
  /\ Go("plainDiscarded")
  /\ UNCHANGED <<engine, result, rec, delegated, budget, hist>>

\* plainCommit: every status is only logged.  The record of a rollback is
\* finalized after it only when there was no marker.
PlainCommit ==
  /\ pc \in {"plainCommit", "plainDiscarded"}
  /\ \E status \in CommitStatuses : EngineCommit(status)
  /\ Go(IF pc = "plainCommit" THEN "finalize" ELSE "serve")
  /\ UNCHANGED <<running, boot, files, rec, delegated, budget, staged>>

\* finalizeRolledBackRecord
Finalize ==
  /\ pc = "finalize"
  /\ IF result # None /\ result.outcome = "rolled_back" /\ ~result.fin
     THEN writeResult([result EXCEPT !.fin = TRUE, !.final = running])
     ELSE UNCHANGED <<result, faults>>
  /\ Go("serve")
  /\ UNCHANGED <<engine, marker, rec, delegated, budget, hist>>

-----------------------------------------------------------------------------
(* The UpdateOS handlers (v1 in agent_service.go, v2 in os_update_service. *)
(* go), which hold the installer lock from the first step to the last.     *)

\* os_update_gate.go osUpdateStagedThisBoot
osUpdateStagedThisBoot == marker # None /\ marker.boot = boot

\* UpdateOS up to the end of wendyOSUpdater.install.  An engine that still
\* has a deployment in flight refuses; install then clears it with rollback
\* and retries once, and either of the two may fail.
Install ==
  /\ pc = "serve" /\ installs < MaxInstalls
  /\ \/ ~osUpdateStagedThisBoot /\ faults' = faults
     \/ osUpdateStagedThisBoot /\ Fault      \* unreadable: not staged
  /\ installs' = installs + 1
  /\ \/ pending' = installs + 1 /\ tried' = FALSE /\ Go("recClear")
     \/ /\ pending # None
        /\ pending' = None /\ tried' = FALSE /\ Go("serve")
  /\ UNCHANGED <<running, good, boot, confirmed, files, rec, delegated, crashes,
                 ages, hist>>

\* recordPendingOSUpdate drops the previous record first ...
RecordClear ==
  /\ pc = "recClear"
  /\ \/ result' = None /\ faults' = faults
     \/ result' = result /\ Fault
  /\ Go("recWrite")
  /\ UNCHANGED <<engine, marker, rec, delegated, budget, hist>>

\* ... then writes the marker.  v2 returns; v1 goes on to reboot.
RecordWrite ==
  /\ pc = "recWrite"
  /\ \/ \E b \in MarkerBackends :
          marker' = [boot |-> boot, stale |-> FALSE, old |-> running,
                     backend |-> b]
        /\ faults' = faults /\ staged' = TRUE
     \/ marker' = marker /\ Fault /\ staged' = staged
  /\ \/ Go("installedV1")
     \/ Go("serve")
  /\ UNCHANGED <<engine, result, rec, delegated, budget, verdicts>>

\* v1 UpdateOS reboots by itself; a failed reboot is logged.
HandlerReboot ==
  /\ pc = "installedV1"
  /\ \/ Restart(MaxBoots) /\ faults' = faults
     \/ Fault /\ Go("serve") /\ UNCHANGED <<engine, staged>>
  /\ UNCHANGED <<files, rec, delegated, budget, verdicts>>

-----------------------------------------------------------------------------
(* The environment.                                                        *)

\* The agent process dies (a crash, a self-update, an operator's restart).
Crash ==
  /\ pc # "down" /\ crashes < MaxCrashes
  /\ crashes' = crashes + 1
  /\ Go("down")
  /\ UNCHANGED <<engine, files, rec, delegated, installs, faults, ages,
                 hist>>

\* systemd starts it again in the same boot.
AgentStart ==
  /\ pc = "down"
  /\ Go("start")
  /\ UNCHANGED <<engine, files, rec, delegated, counts, hist>>

\* A power loss, or the operator's reboot after a v2 update.
PowerLoss ==
  /\ Restart(MaxBoots)
  /\ UNCHANGED <<files, rec, delegated, counts, verdicts>>

\* MaxPendingMarkerAge passes, with the agent up, down or the device off; the
\* steps of the gate and of the handlers take seconds.
Age ==
  /\ pc \in {"serve", "down", "start"}
  /\ marker # None /\ ~marker.stale /\ ages < MaxAges
  /\ ages' = ages + 1
  /\ marker' = [marker EXCEPT !.stale = TRUE]
  /\ UNCHANGED <<engine, result, pc, rec, delegated, installs, crashes, faults,
                 hist>>

GateStep ==
  \/ GateRun \/ CheckServices \/ Commit \/ CommitDelegated
  \/ WriteCommitted \/ ClearCommitted \/ WriteCommitFailed
  \/ RollBackWrite \/ RollBackClear \/ RollBackExec
  \/ RollBackFinal \/ RollBackFailed \/ RollBackError \/ GateReboot
  \/ ClearDiscarded \/ PlainCommit \/ Finalize

HandlerStep == Install \/ RecordClear \/ RecordWrite \/ HandlerReboot

Next == GateStep \/ HandlerStep \/ Crash \/ AgentStart \/ PowerLoss \/ Age

Spec == Init /\ [][Next]_vars

\* The gate is straight-line code of the agent's start-up that the bounded
\* external commands cannot block, and systemd restarts a dead agent.  Every
\* step of the gate leaves its place, so its weak fairness is that the agent
\* never stays for ever at a place from where a step can be taken.
Waits(p) ==
  /\ pc = p
  /\ p = "reboot" => boot < MaxBoots + MaxInstalls \/ faults < MaxFaults

Fairness == []<>(pc # "down") /\ \A p \in GatePCs : []<>~Waits(p)

FairSpec == Spec /\ Fairness

-----------------------------------------------------------------------------
(* Properties.                                                             *)

\* Once this boot's marker is on disk, nothing commits before the device
\* reboots, however often the agent restarts in between and however old the
\* marker gets: the image it is about has never booted (Gate.Run's same-boot
\* check, which comes before its staleness guard).
StagedNotCommitted == [][staged => good' = good]_vars

\* A record that says "committed" is about an update (the version changed)
\* whose new version the engine did commit: a slot that was rolled back, or
\* fell back, never reads as a commit (commitDelegated, rollBack).
CommittedIsTruthful ==
  (result # None /\ result.outcome = "committed")
    => result.new # result.old /\ result.new \in confirmed

\* A finalized "rolled_back" record was finalized on the version the update
\* started from (finalizeRolledBackRecord, rollBack's no-reboot branch).
RolledBackIsTruthful ==
  (result # None /\ result.outcome = "rolled_back" /\ result.fin)
    => result.final = result.old

\* The gate gives up an image only in a pass that saw the commit of that very
\* image end in an error, or its services fail: not over a missing binary, not
\* over the agent's own timeout, and not over the failure an earlier pass met
\* before the agent died (commitDelegated, rollBack).
RevertOnlyOnError ==
  [][pc = "rbExec" /\ pending # None /\ pending' = None
       => pending \in rejected \cup errored]_vars

\* Once the gate decides to roll back, the device ends on the committed
\* image, or says rollback_failed: every branch of rollBack that leaves the
\* slot up records that it does.
RollbackTakesEffect ==
  pc = "rbWrite" ~> \/ running = good
                    \/ result # None /\ result.outcome = "rollback_failed"
=============================================================================
