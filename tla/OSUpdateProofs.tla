--------------------------- MODULE OSUpdateProofs ---------------------------
(***************************************************************************)
(* Proofs about the OS update for every bound: any number of installs,     *)
(* boots, crashes, faults and ageing markers.                              *)
(***************************************************************************)
EXTENDS OSUpdate, TLAPS

\* While this boot's marker stands the agent is outside the gate: it serves,
\* is down, is about to read the marker, or is in a handler.
StagedInv ==
  staged => /\ marker # None /\ marker.boot = boot
            /\ pc \in {"down", "start", "serve"} \cup HandlerPCs

\* A rollback that will reach the engine is under way only for an image whose
\* commit this pass saw refused or fail.
VerdictInv ==
  /\ pc = "check" => ~delegated
  /\ pc \in {"rbWrite", "rbClear", "rbExec"} /\ delegated /\ pending # None
       => pending \in rejected \cup errored

IInv == TypeOK /\ StagedInv /\ VerdictInv

\* Zero and one are within every bound.
LEMMA Bounds ==
  /\ 0 \in Images /\ 1 \in BootIDs
  /\ 0 \in 0..MaxInstalls /\ 0 \in 0..MaxCrashes /\ 0 \in 0..MaxFaults
  /\ 0 \in 0..MaxAges
BY BoundAssumption DEF Images, BootIDs

\* The type invariant holds at the start.
LEMMA InitType == Init => TypeOK
<1> SUFFICES ASSUME Init PROVE TypeOK
  OBVIOUS
<1>1. NoRecord \in UpdateResult
  BY Bounds DEF NoRecord, UpdateResult, Outcomes
<1>2. "start" \in PCs
  BY DEF PCs, GatePCs
<1>3. {} \subseteq Images /\ {0} \subseteq Images
  BY Bounds
<1> QED BY <1>1, <1>2, <1>3, Bounds DEF Init, TypeOK

-----------------------------------------------------------------------------
(* Types.                                                                  *)

\* Every place the agent process can be.
LEMMA Places ==
  /\ {"down", "serve", "start", "check", "commit", "commitDelegated"} \subseteq PCs
  /\ {"wrCommitted", "clrCommitted", "wrCommitFailed"} \subseteq PCs
  /\ {"rbWrite", "rbClear", "rbExec", "rbFinal", "rbFailed", "rbError", "reboot"}
       \subseteq PCs
  /\ {"clrDiscarded", "plainDiscarded", "plainCommit", "finalize"} \subseteq PCs
  /\ {"recClear", "recWrite", "installedV1"} \subseteq PCs
BY DEF PCs, GatePCs, HandlerPCs

\* What the gate writes is a result record.
LEMMA RecordTypes ==
  ASSUME NEW r \in UpdateResult, NEW o \in Outcomes, NEW v \in Images
  PROVE  /\ [r EXCEPT !.outcome = o] \in UpdateResult
         /\ [r EXCEPT !.outcome = o, !.fin = TRUE] \in UpdateResult
         /\ [r EXCEPT !.fin = TRUE, !.final = v] \in UpdateResult
BY DEF UpdateResult

\* The update engine and the bootloader keep to known images.
LEMMA RestartType ==
  ASSUME TypeOK, NEW bound \in {MaxBoots, MaxBoots + MaxInstalls}, Restart(bound)
  PROVE  /\ running' \in Images /\ good' \in Images
         /\ pending' \in Images \cup {None} /\ tried' \in BOOLEAN
         /\ boot' \in BootIDs /\ pc' \in PCs
         /\ confirmed' \subseteq Images /\ staged' \in BOOLEAN
<1>1. boot' \in BootIDs
  BY BoundAssumption DEF TypeOK, Restart, BootIDs
<1>2. running' \in Images /\ tried' \in BOOLEAN
  BY DEF TypeOK, Restart
<1> QED BY <1>1, <1>2, Places DEF TypeOK, Restart

LEMMA FaultType ==
  ASSUME TypeOK, faults' = faults \/ Fault
  PROVE  faults' \in 0..MaxFaults
BY BoundAssumption DEF TypeOK, Fault

LEMMA CommitType ==
  ASSUME TypeOK, NEW status \in CommitStatuses, EngineCommit(status)
  PROVE  /\ good' \in Images /\ pending' \in Images \cup {None}
         /\ tried' \in BOOLEAN
         /\ confirmed' \subseteq Images /\ rejected' \subseteq Images
         /\ errored' \subseteq Images /\ faults' \in 0..MaxFaults
<1> USE DEF verdicts
<1>1. faults' = faults \/ Fault
  BY DEF EngineCommit
<1>2. faults' \in 0..MaxFaults
  BY <1>1, FaultType
<1> QED BY <1>2 DEF TypeOK, EngineCommit, EngineCommitted, MayHaveCommitted

LEMMA RollbackType ==
  ASSUME TypeOK, NEW status, EngineRollback(status)
  PROVE  pending' \in Images \cup {None} /\ tried' \in BOOLEAN
BY DEF TypeOK, EngineRollback

\* A file operation leaves a well-formed file, whether or not it fails.
LEMMA WriteType ==
  ASSUME TypeOK, NEW r \in UpdateResult, writeResult(r)
  PROVE  result' \in UpdateResult \cup {None} /\ faults' \in 0..MaxFaults
BY FaultType DEF TypeOK, writeResult

LEMMA ClearType ==
  ASSUME TypeOK, clearMarker
  PROVE  marker' \in PendingMarker \cup {None} /\ faults' \in 0..MaxFaults
BY FaultType DEF TypeOK, clearMarker

\* Every step keeps the types.
LEMMA NextType == TypeOK /\ [Next]_vars => TypeOK'
<1> SUFFICES ASSUME TypeOK, [Next]_vars PROVE TypeOK'
  OBVIOUS
<1> USE Places DEF engine, files, budget, counts, verdicts, hist
<1>1. CASE GateRun
  <2>1. marker # None => NewRecord(marker) \in UpdateResult
    BY Bounds DEF TypeOK, NewRecord, UpdateResult, PendingMarker, Outcomes
  <2>2. faults' \in 0..MaxFaults
    BY <1>1, FaultType DEF GateRun
  <2>3. rec' \in UpdateResult /\ delegated' \in BOOLEAN /\ pc' \in PCs
        /\ staged' \in BOOLEAN
    BY <1>1, <2>1 DEF GateRun, TypeOK, Discard, Go
  <2> QED BY <1>1, <2>2, <2>3 DEF GateRun, TypeOK
<1>2. CASE CheckServices
  BY <1>2 DEF CheckServices, TypeOK, Go
<1>3. CASE Commit
  BY <1>3 DEF Commit, TypeOK, Go
<1>4. CASE CommitDelegated
  <2>1. PICK status \in CommitStatuses :
          EngineCommit(status) /\ pc' = AfterCommit(status)
    BY <1>4 DEF CommitDelegated, Go
  <2>2. pc' \in PCs
    BY <2>1 DEF AfterCommit, CommitStatuses
  <2> QED BY <1>4, <2>1, <2>2, CommitType DEF CommitDelegated, TypeOK
<1>5. CASE WriteCommitted
  <2>1. [rec EXCEPT !.outcome = "committed", !.fin = TRUE] \in UpdateResult
    BY RecordTypes, Bounds DEF TypeOK, Outcomes
  <2> QED BY <1>5, <2>1, WriteType DEF WriteCommitted, TypeOK, Go
<1>6. CASE ClearCommitted
  BY <1>6, ClearType DEF ClearCommitted, TypeOK, Go
<1>7. CASE WriteCommitFailed
  <2>1. [rec EXCEPT !.outcome = "commit_failed"] \in UpdateResult
    BY RecordTypes, Bounds DEF TypeOK, Outcomes
  <2> QED BY <1>7, <2>1, WriteType DEF WriteCommitFailed, TypeOK, Go
<1>8. CASE RollBackWrite
  <2>1. [rec EXCEPT !.outcome = "rolled_back"] \in UpdateResult
    BY RecordTypes, Bounds DEF TypeOK, Outcomes
  <2>2. rec' \in UpdateResult /\ writeResult(rec')
    BY <1>8, <2>1 DEF RollBackWrite
  <2>3. result' \in UpdateResult \cup {None} /\ faults' \in 0..MaxFaults
    BY <2>2, FaultType DEF writeResult, TypeOK
  <2> QED BY <1>8, <2>2, <2>3 DEF RollBackWrite, TypeOK, Go
<1>9. CASE RollBackClear
  BY <1>9, ClearType DEF RollBackClear, TypeOK, Go
<1>10. CASE RollBackExec
  <2>1. PICK status \in {"okReboot", "okStay", "error", "unavailable"} :
          EngineRollback(status) /\ pc' = AfterRollback(status)
    BY <1>10 DEF RollBackExec, Go
  <2>2. pc' \in PCs
    BY <2>1 DEF AfterRollback
  <2> QED BY <1>10, <2>1, <2>2, RollbackType DEF RollBackExec, TypeOK
<1>11. CASE RollBackFinal
  <2>1. [rec EXCEPT !.fin = TRUE, !.final = running] \in UpdateResult
    BY RecordTypes DEF TypeOK, Outcomes
  <2> QED BY <1>11, <2>1, WriteType DEF RollBackFinal, TypeOK, Go
<1>12. CASE RollBackFailed
  <2>1. [rec EXCEPT !.outcome = "rollback_failed"] \in UpdateResult
    BY RecordTypes, Bounds DEF TypeOK, Outcomes
  <2> QED BY <1>12, <2>1, WriteType DEF RollBackFailed, TypeOK, Go
<1>13. CASE RollBackError
  <2>1. rec \in UpdateResult
    BY DEF TypeOK
  <2> QED BY <1>13, <2>1, WriteType DEF RollBackError, TypeOK, Go
<1>14. CASE GateReboot
  <2>1. CASE Restart(MaxBoots + MaxInstalls) /\ faults' = faults
    BY <1>14, <2>1, RestartType DEF GateReboot, TypeOK
  <2>2. CASE Fault /\ Go("serve") /\ UNCHANGED <<engine, staged>>
    BY <1>14, <2>2, FaultType DEF GateReboot, TypeOK, Go
  <2> QED BY <1>14, <2>1, <2>2 DEF GateReboot
<1>15. CASE ClearDiscarded
  BY <1>15, ClearType DEF ClearDiscarded, TypeOK, Go
<1>16. CASE PlainCommit
  <2>1. PICK status \in CommitStatuses : EngineCommit(status)
    BY <1>16 DEF PlainCommit
  <2> QED BY <1>16, <2>1, CommitType DEF PlainCommit, TypeOK, Go
<1>17. CASE Finalize
  <2>1. result # None =>
          [result EXCEPT !.fin = TRUE, !.final = running] \in UpdateResult
    BY RecordTypes DEF TypeOK, Outcomes
  <2>2. result' \in UpdateResult \cup {None} /\ faults' \in 0..MaxFaults
    BY <1>17, <2>1, WriteType DEF Finalize, TypeOK
  <2> QED BY <1>17, <2>2 DEF Finalize, TypeOK, Go
<1>18. CASE Install
  <2>1. installs + 1 \in Images /\ installs' \in 0..MaxInstalls
    BY <1>18, BoundAssumption DEF Install, TypeOK, Images
  <2>2. faults' \in 0..MaxFaults
    BY <1>18, FaultType DEF Install
  <2> QED BY <1>18, <2>1, <2>2 DEF Install, TypeOK, Go
<1>19. CASE RecordClear
  BY <1>19, FaultType DEF RecordClear, TypeOK, Go
<1>20. CASE RecordWrite
  <2>1. \A b \in MarkerBackends :
          [boot |-> boot, stale |-> FALSE, old |-> running, backend |-> b]
            \in PendingMarker
    BY DEF TypeOK, PendingMarker
  <2>2. marker' \in PendingMarker \cup {None} /\ staged' \in BOOLEAN
    BY <1>20, <2>1 DEF RecordWrite, TypeOK
  <2>3. faults' \in 0..MaxFaults
    BY <1>20, FaultType DEF RecordWrite
  <2> QED BY <1>20, <2>2, <2>3 DEF RecordWrite, TypeOK, Go
<1>21. CASE HandlerReboot
  <2>1. CASE Restart(MaxBoots) /\ faults' = faults
    BY <1>21, <2>1, RestartType DEF HandlerReboot, TypeOK
  <2>2. CASE Fault /\ Go("serve") /\ UNCHANGED <<engine, staged>>
    BY <1>21, <2>2, FaultType DEF HandlerReboot, TypeOK, Go
  <2> QED BY <1>21, <2>1, <2>2 DEF HandlerReboot
<1>22. CASE Crash
  <2>1. crashes' \in 0..MaxCrashes
    BY <1>22, BoundAssumption DEF Crash, TypeOK
  <2> QED BY <1>22, <2>1 DEF Crash, TypeOK, Go
<1>23. CASE AgentStart
  BY <1>23 DEF AgentStart, TypeOK, Go
<1>24. CASE PowerLoss
  BY <1>24, RestartType DEF PowerLoss, TypeOK
<1>25. CASE Age
  <2>1. ages' \in 0..MaxAges
    BY <1>25, BoundAssumption DEF Age, TypeOK
  <2>2. marker' \in PendingMarker
    BY <1>25 DEF Age, TypeOK, PendingMarker
  <2> QED BY <1>25, <2>1, <2>2 DEF Age, TypeOK
<1>26. CASE UNCHANGED vars
  BY <1>26 DEF vars, TypeOK
<1> QED
  BY <1>1, <1>2, <1>3, <1>4, <1>5, <1>6, <1>7, <1>8, <1>9, <1>10, <1>11, <1>12,
     <1>13, <1>14, <1>15, <1>16, <1>17, <1>18, <1>19, <1>20, <1>21, <1>22,
     <1>23, <1>24, <1>25, <1>26
  DEF Next, GateStep, HandlerStep

-----------------------------------------------------------------------------
(* The staged marker.                                                      *)

\* A reboot, by whoever, ends the boot the marker belongs to.
LEMMA RestartUnstages ==
  ASSUME NEW bound, Restart(bound) PROVE ~staged' /\ pc' = "start"
BY DEF Restart

\* The steps inside the gate are not taken while the marker stands, and none
\* of them writes one.
LEMMA GateStaged ==
  ASSUME TypeOK, StagedInv, GateStep PROVE StagedInv'
<1> USE DEF engine, files, budget, counts, verdicts, hist, StagedInv, HandlerPCs
<1>1. CASE GateRun
  BY <1>1 DEF GateRun, Discard, Go, SameBoot
<1>2. CASE CheckServices \/ Commit \/ WriteCommitted \/ ClearCommitted
           \/ WriteCommitFailed \/ RollBackWrite \/ RollBackClear
  BY <1>2 DEF CheckServices, Commit, WriteCommitted, ClearCommitted,
              WriteCommitFailed, RollBackWrite, RollBackClear
<1>3. CASE CommitDelegated \/ RollBackExec \/ PlainCommit
  BY <1>3 DEF CommitDelegated, RollBackExec, PlainCommit
<1>4. CASE RollBackFinal \/ RollBackFailed \/ RollBackError \/ ClearDiscarded
           \/ Finalize
  BY <1>4 DEF RollBackFinal, RollBackFailed, RollBackError, ClearDiscarded,
              Finalize
<1>5. CASE GateReboot
  BY <1>5, RestartUnstages DEF GateReboot
<1> QED BY <1>1, <1>2, <1>3, <1>4, <1>5 DEF GateStep

\* Handlers, crashes and clocks leave the marker of this boot where it is.
LEMMA NextStaged == TypeOK /\ StagedInv /\ [Next]_vars => StagedInv'
<1> SUFFICES ASSUME TypeOK, StagedInv, [Next]_vars PROVE StagedInv'
  OBVIOUS
<1> USE DEF engine, files, budget, counts, verdicts, hist
<1>1. CASE GateStep
  BY <1>1, GateStaged
<1>2. CASE Install \/ RecordClear
  BY <1>2 DEF Install, RecordClear, Go, StagedInv, HandlerPCs
<1>3. CASE RecordWrite
  <2>1. CASE marker' = marker /\ staged' = staged
    BY <1>3, <2>1 DEF RecordWrite, Go, StagedInv, HandlerPCs
  <2>2. ASSUME NEW b \in MarkerBackends,
               marker' = [boot |-> boot, stale |-> FALSE, old |-> running,
                          backend |-> b]
        PROVE  StagedInv'
    <3>1. marker' \in PendingMarker /\ marker'.boot = boot
      BY <2>2 DEF TypeOK, PendingMarker
    <3>2. marker' # None
      BY <3>1, MarkerAssumption
    <3> QED BY <1>3, <3>1, <3>2 DEF RecordWrite, Go, StagedInv, HandlerPCs
  <2> QED BY <1>3, <2>1, <2>2 DEF RecordWrite
<1>4. CASE HandlerReboot
  BY <1>4, RestartUnstages DEF HandlerReboot, Go, StagedInv, HandlerPCs
<1>5. CASE Crash \/ AgentStart
  BY <1>5 DEF Crash, AgentStart, Go, StagedInv
<1>6. CASE PowerLoss
  BY <1>6, RestartUnstages DEF PowerLoss, StagedInv
<1>7. CASE Age
  <2>1. marker' \in PendingMarker /\ marker'.boot = marker.boot
    BY <1>7 DEF Age, TypeOK, PendingMarker
  <2> QED BY <1>7, <2>1, MarkerAssumption DEF Age, StagedInv
<1>8. CASE UNCHANGED vars
  BY <1>8 DEF vars, StagedInv
<1> QED BY <1>1, <1>2, <1>3, <1>4, <1>5, <1>6, <1>7, <1>8 DEF Next, HandlerStep

-----------------------------------------------------------------------------
(* The verdict.                                                            *)

\* A commit enters the rollback's way only by a rejection or an error.
LEMMA CommitVerdict ==
  ASSUME VerdictInv, CommitDelegated PROVE VerdictInv'
<1>1. PICK status \in CommitStatuses :
        EngineCommit(status) /\ pc' = AfterCommit(status)
  BY DEF CommitDelegated, Go
<1>2. CASE status \in {"rejected", "error"}
  <2>1. pending' # None => pending' \in rejected' \cup errored'
    BY <1>1, <1>2 DEF EngineCommit, MayHaveCommitted, EngineCommitted
  <2>2. pc' = "rbWrite"
    BY <1>1, <1>2 DEF AfterCommit
  <2> QED BY <2>1, <2>2 DEF VerdictInv
<1>3. CASE status \notin {"rejected", "error"}
  <2>1. pc' \in {"wrCommitted", "wrCommitFailed"}
    BY <1>1, <1>3 DEF AfterCommit, CommitStatuses
  <2> QED BY <2>1 DEF VerdictInv
<1> QED BY <1>2, <1>3

\* Whatever the engine answers, its rollback is the end of that way.
LEMMA ExecVerdict ==
  ASSUME RollBackExec PROVE pc' \in {"reboot", "rbFinal", "rbFailed", "rbError"}
BY DEF RollBackExec, AfterRollback, Go

\* A step either leaves the rollback's way alone, moves along it, or is one of
\* the two verdicts that enter it.
LEMMA NextVerdict == TypeOK /\ VerdictInv /\ [Next]_vars => VerdictInv'
<1> SUFFICES ASSUME TypeOK, VerdictInv, [Next]_vars PROVE VerdictInv'
  OBVIOUS
<1> USE DEF engine, files, budget, counts, verdicts, hist
<1>1. CASE GateRun
  BY <1>1 DEF GateRun, Discard, Go, VerdictInv
<1>2. CASE CheckServices
  BY <1>2 DEF CheckServices, Go, VerdictInv
<1>3. CASE CommitDelegated
  BY <1>3, CommitVerdict
<1>4. CASE RollBackWrite \/ RollBackClear
  BY <1>4 DEF RollBackWrite, RollBackClear, Go, VerdictInv
<1>5. CASE RollBackExec
  BY <1>5, ExecVerdict DEF VerdictInv
<1>6. CASE Commit \/ WriteCommitted \/ ClearCommitted \/ WriteCommitFailed
  BY <1>6 DEF Commit, WriteCommitted, ClearCommitted, WriteCommitFailed, Go,
              VerdictInv
<1>7. CASE RollBackFinal \/ RollBackFailed \/ RollBackError
  BY <1>7 DEF RollBackFinal, RollBackFailed, RollBackError, Go, VerdictInv
<1>8. CASE ClearDiscarded \/ PlainCommit \/ Finalize
  BY <1>8 DEF ClearDiscarded, PlainCommit, Finalize, Go, VerdictInv
<1>9. CASE GateReboot \/ HandlerReboot \/ PowerLoss
  BY <1>9, RestartUnstages DEF GateReboot, HandlerReboot, PowerLoss, Go, VerdictInv
<1>10. CASE Install \/ RecordClear \/ RecordWrite
  BY <1>10 DEF Install, RecordClear, RecordWrite, Go, VerdictInv
<1>11. CASE Crash \/ AgentStart \/ Age
  BY <1>11 DEF Crash, AgentStart, Age, Go, VerdictInv
<1>12. CASE UNCHANGED vars
  BY <1>12 DEF vars, VerdictInv
<1> QED BY <1>1, <1>2, <1>3, <1>4, <1>5, <1>6, <1>7, <1>8, <1>9, <1>10, <1>11,
           <1>12 DEF Next, GateStep, HandlerStep

-----------------------------------------------------------------------------
(* Theorems.                                                               *)

\* The inductive invariant holds throughout, whatever crashes and fails.
THEOREM UpdateInvariant == Spec => []IInv
<1>1. Init => IInv
  BY InitType DEF Init, IInv, StagedInv, VerdictInv
<1>2. IInv /\ [Next]_vars => IInv'
  BY NextType, NextStaged, NextVerdict DEF IInv
<1> QED BY <1>1, <1>2, PTL DEF Spec

\* Slots, marker and record stay well formed (oshealth, os_update_gate.go).
THEOREM TypeCorrect == Spec => []TypeOK
<1>1. IInv => TypeOK
  BY DEF IInv
<1> QED BY <1>1, UpdateInvariant, PTL

\* Once this boot's marker is on disk no step commits before the reboot
\* (Gate.Run's same-boot check), for any number of agent restarts, faults and
\* installs.
THEOREM NeverCommitsBeforeReboot == Spec => StagedNotCommitted
<1>1. IInv /\ [Next]_vars => [staged => good' = good]_vars
  <2> SUFFICES ASSUME IInv, Next, staged PROVE good' = good
    BY DEF vars
  <2> USE DEF engine, files, budget, counts, verdicts, hist
  <2>1. pc \in {"down", "start", "serve", "recClear", "recWrite", "installedV1"}
    BY DEF IInv, StagedInv, HandlerPCs
  <2>2. CASE GateRun
    BY <2>2 DEF GateRun
  <2>3. CASE HandlerStep
    BY <2>3 DEF HandlerStep, Install, RecordClear, RecordWrite, HandlerReboot,
                Restart
  <2>4. CASE Crash \/ AgentStart \/ PowerLoss \/ Age
    BY <2>4 DEF Crash, AgentStart, PowerLoss, Age, Restart
  <2>5. CASE GateStep /\ ~GateRun
    BY <2>1, <2>5 DEF GateStep, CheckServices, Commit, CommitDelegated,
       WriteCommitted, ClearCommitted, WriteCommitFailed, RollBackWrite,
       RollBackClear, RollBackExec, RollBackFinal, RollBackFailed, RollBackError,
       GateReboot, ClearDiscarded, PlainCommit, Finalize
  <2> QED BY <2>2, <2>3, <2>4, <2>5 DEF Next
<1> QED BY <1>1, UpdateInvariant, PTL DEF Spec, StagedNotCommitted

\* The gate gives up an image only in a pass that saw the commit of that image end
\* in an error (commitDelegated, rollBack): no missing binary, timeout of the agent
\* or failure of an earlier pass reverts it, whatever crashes or fails in between.
THEOREM RevertsOnlyOnError == Spec => RevertOnlyOnError
<1>1. IInv /\ [Next]_vars =>
        [pc = "rbExec" /\ pending # None /\ pending' = None
           => pending \in rejected \cup errored]_vars
  <2> SUFFICES ASSUME IInv, Next, pc = "rbExec", pending # None, pending' = None
               PROVE  pending \in rejected \cup errored
    BY DEF vars
  <2> USE DEF engine, files, budget, counts, verdicts, hist
  <2>1. CASE delegated
    BY <2>1 DEF IInv, VerdictInv
  <2>2. CASE ~delegated
    <3>1. CASE RollBackExec
      BY <2>2, <3>1 DEF RollBackExec, EngineRollback
    <3>2. CASE Crash \/ AgentStart \/ PowerLoss \/ Age \/ HandlerStep
      BY <3>2 DEF Crash, AgentStart, PowerLoss, Age, Restart, HandlerStep,
                  Install, RecordClear, RecordWrite, HandlerReboot
    <3>3. CASE GateStep /\ ~RollBackExec
      BY <3>3 DEF GateStep, GateRun, CheckServices, Commit, CommitDelegated,
         WriteCommitted, ClearCommitted, WriteCommitFailed, RollBackWrite,
         RollBackClear, RollBackFinal, RollBackFailed, RollBackError,
         GateReboot, ClearDiscarded, PlainCommit, Finalize
    <3> QED BY <3>1, <3>2, <3>3 DEF Next
  <2> QED BY <2>1, <2>2
<1> QED BY <1>1, UpdateInvariant, PTL DEF Spec, RevertOnlyOnError

-----------------------------------------------------------------------------
(* The records of one update: what is true for a single install without     *)
(* faults - no file operation or reboot fails and no commit ends in an      *)
(* error without a verdict - for any number of power losses and, as far as  *)
(* commits go, of agent crashes.                                            *)

SingleUpdate == MaxInstalls = 1 /\ MaxFaults = 0

\* The engine's state after the one image was installed: on trial, committed or
\* rolled back.
OnTrial   == pending = 1 /\ good = 0
Confirmed == pending = None /\ good = 1 /\ 1 \in confirmed
Reverted  == pending = None /\ good = 0

\* rollBack, after it wrote the record.
RollingBack == {"rbClear", "rbExec", "rbFinal", "rbFailed", "rbError", "reboot"}

\* The image is on trial, committed or reverted, and nothing of the update is left
\* from before its install.
EngineInv ==
  /\ running \in {0, 1} /\ (OnTrial \/ Confirmed \/ Reverted)
  /\ installs = 0 => /\ Reverted /\ running = 0 /\ marker = None /\ result = None
                     /\ pc \in {"down", "start", "plainCommit", "finalize", "serve"}
  /\ pc \in {"recClear", "recWrite"} =>
       OnTrial /\ ~tried /\ running = 0 /\ marker = None /\ result = None

\* A marker of an earlier boot means that the trial boot is spent, or that the image
\* is committed and runs; the gate works from such a marker.
MarkerInv ==
  /\ marker # None =>
       /\ marker.old = 0 /\ marker.boot <= boot
       /\ marker.boot = boot => OnTrial /\ running = 0
       /\ marker.boot # boot => (OnTrial /\ tried) \/ (Confirmed /\ running = 1)
       /\ marker.backend # "wendyos-update" => OnTrial
  /\ pc = "installedV1" => marker # None
  /\ pc \in {"check", "commit", "commitDelegated", "rbWrite", "rbClear"} =>
       /\ marker # None /\ marker.boot # boot
       /\ delegated <=> marker.backend = "wendyos-update"
  /\ pc = "commitDelegated" => delegated
  /\ pc \in {"plainCommit", "plainDiscarded"} => marker = None
  /\ pc \in RollingBack \ {"rbClear"} => marker = None

\* The gate's record is about the running image; commits are recorded on the new
\* image only, rollbacks only while it is not confirmed.
RecordInv ==
  /\ pc \in {"check", "commit", "commitDelegated", "wrCommitted", "wrCommitFailed", "rbWrite"}
             \cup RollingBack => rec.old = 0 /\ rec.new = running /\ ~rec.fin
  /\ pc \in RollingBack => rec.outcome = "rolled_back"
  /\ pc = "check" => OnTrial
  /\ pc = "wrCommitted" => running = 1 /\ 1 \in confirmed
  /\ pc \in {"rbWrite"} \cup RollingBack => good = 0 /\ (pending = None \/ tried)
  /\ pc = "rbFinal" => running = 0

\* The file says no more than the gate knew.
ResultInv ==
  result # None =>
    /\ result.old = 0
    /\ result.outcome = "committed" => result.new = 1 /\ 1 \in confirmed

\* After a recorded rollback the image cannot become the default any more.
RolledInv ==
  result # None /\ result.outcome = "rolled_back" =>
    /\ good = 0 /\ (pending = None \/ tried)
    /\ running = 0 \/ pc \in RollingBack
    /\ result.fin => result.final = 0

SingleInv == EngineInv /\ MarkerInv /\ RecordInv /\ ResultInv

\* Without faults every file operation takes effect.
LEMMA NoFault == ASSUME SingleUpdate, TypeOK PROVE ~Fault
BY DEF SingleUpdate, TypeOK, Fault

LEMMA Wrote == ASSUME SingleUpdate, TypeOK, NEW r, writeResult(r) PROVE result' = r
BY NoFault DEF writeResult

LEMMA Cleared == ASSUME SingleUpdate, TypeOK, clearMarker PROVE marker' = None
BY NoFault DEF clearMarker

\* A restart leaves the engine's state and tries the image on trial at most once.
LEMMA Restarted ==
  ASSUME TypeOK, EngineInv, NEW bound, Restart(bound)
  PROVE  /\ good' = good /\ pending' = pending /\ confirmed' = confirmed
         /\ pc' = "start" /\ boot' = boot + 1 /\ boot' # boot
         /\ running' \in {0, 1}
         /\ pending = None \/ tried => running' = good
         /\ pending # None => tried'
         /\ tried => tried'
BY NoneAssumption DEF TypeOK, BootIDs, EngineInv, OnTrial, Confirmed, Reverted, Restart

\* A commit changes nothing, or confirms the image on trial.
Unmoved == good' = good /\ pending' = pending /\ tried' = tried /\ confirmed' = confirmed

LEMMA Committed ==
  ASSUME SingleUpdate, TypeOK, EngineInv, NEW status \in CommitStatuses,
         EngineCommit(status)
  PROVE  /\ \/ Unmoved /\ status # "ok"
            \/ OnTrial /\ (running = 1 \/ ~tried) /\ Confirmed' /\ 1 \in confirmed'
               /\ status \in {"ok", "timeout"}
         /\ status = "nothing" => pending = None
         /\ status = "rejected" => OnTrial
         /\ status # "error"
         /\ confirmed \subseteq confirmed'
<1>1. status # "error"
  BY NoFault DEF EngineCommit
<1> QED BY <1>1, NoneAssumption DEF EngineInv, OnTrial, Confirmed, Reverted, EngineCommit,
        EngineCommitted, MayHaveCommitted, CommitStatuses, Unmoved

LEMMA NextEngine ==
  ASSUME SingleUpdate, TypeOK, SingleInv, Next
  PROVE  EngineInv'
<1> USE DEF engine, files, budget, counts, verdicts, hist, Go
<1>0. EngineInv
  BY DEF SingleInv
<1>1. CASE GateRun
  BY <1>0, <1>1, NoFault DEF GateRun, Discard, EngineInv, OnTrial, Confirmed, Reverted
<1>2. CASE CheckServices \/ Commit \/ WriteCommitted \/ ClearCommitted \/ WriteCommitFailed
  BY <1>0, <1>2 DEF CheckServices, Commit, WriteCommitted, ClearCommitted, WriteCommitFailed,
     EngineInv, OnTrial, Confirmed, Reverted
<1>3. CASE RollBackWrite \/ RollBackClear \/ RollBackFinal \/ RollBackFailed \/ RollBackError
  BY <1>0, <1>3 DEF RollBackWrite, RollBackClear, RollBackFinal, RollBackFailed, RollBackError,
     EngineInv, OnTrial, Confirmed, Reverted
<1>4. CASE ClearDiscarded
  BY <1>0, <1>4 DEF ClearDiscarded, EngineInv, OnTrial, Confirmed, Reverted
<1>5. CASE Finalize
  BY <1>0, <1>5 DEF Finalize, EngineInv, OnTrial, Confirmed, Reverted
<1>6. CASE CommitDelegated
  <2>1. PICK status \in CommitStatuses : EngineCommit(status) /\ Go(AfterCommit(status))
    BY <1>6 DEF CommitDelegated
  <2>2. installs # 0 /\ installs' = installs /\ running' = running
    BY <1>0, <1>6 DEF CommitDelegated, EngineInv
  <2>3. pc' \notin {"recClear", "recWrite"}
    BY <2>1 DEF AfterCommit, CommitStatuses
  <2>4. OnTrial' \/ Confirmed' \/ Reverted'
    BY <1>0, <2>1, Committed DEF EngineInv, OnTrial, Confirmed, Reverted, Unmoved
  <2> QED BY <1>0, <2>2, <2>3, <2>4 DEF EngineInv
<1>7. CASE PlainCommit
  <2>1. PICK status \in CommitStatuses : EngineCommit(status)
    BY <1>7 DEF PlainCommit
  <2>2. /\ installs' = installs /\ running' = running /\ marker' = marker /\ result' = result
        /\ pc' \in {"finalize", "serve"}
    BY <1>7 DEF PlainCommit
  <2>3. OnTrial' \/ Confirmed' \/ Reverted'
    BY <1>0, <2>1, Committed DEF EngineInv, OnTrial, Confirmed, Reverted, Unmoved
  <2>4. installs = 0 => Reverted'
    <3>1. installs = 0 => ~OnTrial
      BY <1>0, NoneAssumption DEF EngineInv, OnTrial, Reverted
    <3> QED BY <1>0, <2>1, <3>1, Committed DEF EngineInv, Reverted, Unmoved
  <2> QED BY <1>0, <2>2, <2>3, <2>4 DEF EngineInv
<1>8. CASE RollBackExec
  <2>1. pc' \in {"reboot", "rbFinal", "rbFailed", "rbError"}
    BY <1>8, ExecVerdict
  <2>2. installs # 0 /\ installs' = installs /\ running' = running /\ good' = good
        /\ confirmed' = confirmed
    BY <1>0, <1>8 DEF RollBackExec, EngineInv
  <2>3. pending' = pending \/ (pending # None /\ pending' = None)
    BY <1>8 DEF RollBackExec, EngineRollback
  <2> QED BY <1>0, <2>1, <2>2, <2>3 DEF EngineInv, OnTrial, Confirmed, Reverted
<1>9. CASE GateReboot \/ HandlerReboot \/ PowerLoss
  <2>1. PICK bound : Restart(bound)
    BY <1>9, NoFault DEF GateReboot, HandlerReboot, PowerLoss
  <2>2. installs' = installs /\ marker' = marker /\ result' = result
    BY <1>9 DEF GateReboot, HandlerReboot, PowerLoss
  <2> QED BY <1>0, <2>1, <2>2, Restarted DEF EngineInv, OnTrial, Confirmed, Reverted
<1>10. CASE Install
  <2>1. installs = 0 /\ installs' = 1
    BY <1>10 DEF Install, SingleUpdate, TypeOK
  <2>2. Reverted /\ running = 0 /\ marker = None /\ result = None
    BY <1>0, <2>1 DEF EngineInv
  <2> QED BY <1>10, <2>1, <2>2 DEF Install, EngineInv, OnTrial, Confirmed, Reverted
<1>11. CASE RecordClear
  BY <1>0, <1>11, NoFault DEF RecordClear, EngineInv, OnTrial, Confirmed, Reverted
<1>12. CASE RecordWrite
  BY <1>0, <1>12, NoFault DEF RecordWrite, EngineInv, OnTrial, Confirmed, Reverted
<1>13. CASE Crash \/ AgentStart
  BY <1>0, <1>13 DEF Crash, AgentStart, EngineInv, OnTrial, Confirmed, Reverted
<1>14. CASE Age
  BY <1>0, <1>14 DEF Age, EngineInv, OnTrial, Confirmed, Reverted
<1> QED
  BY <1>1, <1>2, <1>3, <1>4, <1>5, <1>6, <1>7, <1>8, <1>9, <1>10, <1>11, <1>12, <1>13, <1>14
  DEF Next, GateStep, HandlerStep

LEMMA NextMarker ==
  ASSUME SingleUpdate, TypeOK, SingleInv, StagedInv, Next
  PROVE  MarkerInv'
<1> USE DEF engine, files, budget, counts, verdicts, hist, Go
<1>0. EngineInv /\ MarkerInv
  BY DEF SingleInv
<1>1. CASE GateRun
  BY <1>0, <1>1, NoFault
     DEF GateRun, Discard, SameBoot, MarkerInv, RollingBack, OnTrial, Confirmed
<1>2. CASE CheckServices \/ Commit
  BY <1>0, <1>2 DEF CheckServices, Commit, MarkerInv, RollingBack, OnTrial, Confirmed
<1>3. CASE WriteCommitted \/ WriteCommitFailed \/ Finalize
  BY <1>0, <1>3
     DEF WriteCommitted, WriteCommitFailed, Finalize, MarkerInv, RollingBack, OnTrial, Confirmed
<1>4. CASE ClearCommitted \/ RollBackClear \/ ClearDiscarded
  <2>1. marker' = None /\ pc' \in {"serve", "rbExec", "plainDiscarded"}
    BY <1>4, Cleared DEF ClearCommitted, RollBackClear, ClearDiscarded
  <2> QED BY <2>1 DEF MarkerInv, RollingBack
<1>5. CASE RollBackWrite
  BY <1>0, <1>5 DEF RollBackWrite, MarkerInv, RollingBack, OnTrial, Confirmed
<1>6. CASE RollBackFinal \/ RollBackFailed \/ RollBackError
  BY <1>0, <1>6
     DEF RollBackFinal, RollBackFailed, RollBackError, MarkerInv, RollingBack, OnTrial, Confirmed
<1>7. CASE RollBackExec
  <2>1. pc' \in {"reboot", "rbFinal", "rbFailed", "rbError"} /\ marker' = marker
    BY <1>7, ExecVerdict DEF RollBackExec
  <2>2. marker = None
    BY <1>0, <1>7 DEF RollBackExec, MarkerInv, RollingBack
  <2> QED BY <2>1, <2>2 DEF MarkerInv, RollingBack
<1>8. CASE CommitDelegated
  <2>1. PICK status \in CommitStatuses : EngineCommit(status) /\ Go(AfterCommit(status))
    BY <1>8 DEF CommitDelegated
  <2>2. /\ marker # None /\ marker.boot # boot /\ marker' = marker /\ boot' = boot
        /\ delegated' = delegated /\ running' = running
    BY <1>0, <1>8 DEF CommitDelegated, MarkerInv
  <2>3. delegated <=> marker.backend = "wendyos-update"
    BY <1>0, <1>8 DEF CommitDelegated, MarkerInv
  <2>4. pc' \in {"wrCommitted", "wrCommitFailed", "rbWrite"} /\ (pc' = "rbWrite" => Unmoved)
    BY <1>0, <2>1, Committed DEF AfterCommit, CommitStatuses
  <2>5. CASE Unmoved
    BY <1>0, <2>2, <2>3, <2>4, <2>5 DEF MarkerInv, RollingBack, OnTrial, Confirmed, Unmoved
  <2>6. CASE ~Unmoved
    \* The image that was confirmed was the one running: its trial is spent.
    <3>1. OnTrial /\ (running = 1 \/ ~tried) /\ Confirmed'
      BY <1>0, <2>1, <2>6, Committed
    <3>2. tried
      BY <1>0, <2>2, <3>1, NoneAssumption DEF MarkerInv, OnTrial, Confirmed
    <3>3. CASE marker.backend = "wendyos-update"
      BY <1>0, <2>2, <2>3, <2>4, <2>6, <3>1, <3>2, <3>3 DEF MarkerInv, RollingBack
    <3>4. CASE marker.backend # "wendyos-update"
      BY <1>0, <1>8, <2>3, <3>4 DEF CommitDelegated, MarkerInv
    <3> QED BY <3>3, <3>4
  <2> QED BY <2>5, <2>6
<1>9. CASE PlainCommit
  <2>1. marker = None /\ marker' = None /\ pc' \in {"finalize", "serve"}
    BY <1>0, <1>9 DEF PlainCommit, MarkerInv
  <2> QED BY <2>1 DEF MarkerInv, RollingBack
<1>10. CASE GateReboot \/ HandlerReboot \/ PowerLoss
  <2>1. PICK bound : Restart(bound)
    BY <1>10, NoFault DEF GateReboot, HandlerReboot, PowerLoss
  <2>2. marker' = marker
    BY <1>10 DEF GateReboot, HandlerReboot, PowerLoss
  <2>3. marker # None => marker.boot # boot' /\ marker.boot <= boot'
    BY <1>0, <2>1, Restarted DEF MarkerInv, TypeOK, BootIDs, PendingMarker
  <2>4. marker # None => (OnTrial' /\ tried') \/ (Confirmed' /\ running' = 1)
    <3>1. marker # None => OnTrial \/ (Confirmed /\ running = 1)
      BY <1>0 DEF MarkerInv
    <3> QED BY <1>0, <2>1, <3>1, Restarted, NoneAssumption DEF OnTrial, Confirmed
  <2>5. OnTrial => OnTrial'
    BY <1>0, <2>1, Restarted DEF OnTrial
  <2>6. pc' = "start"
    BY <1>0, <2>1, Restarted
  <2> QED BY <1>0, <2>2, <2>3, <2>4, <2>5, <2>6 DEF MarkerInv, RollingBack
<1>11. CASE Install
  <2>1. installs = 0
    BY <1>11 DEF Install, SingleUpdate, TypeOK
  <2>2. marker' = None /\ pc' \in {"recClear", "serve"}
    BY <1>0, <1>11, <2>1 DEF Install, EngineInv
  <2> QED BY <2>2 DEF MarkerInv, RollingBack
<1>12. CASE RecordClear
  BY <1>0, <1>12 DEF RecordClear, EngineInv, MarkerInv, RollingBack
<1>13. CASE RecordWrite
  <2>1. PICK b \in MarkerBackends :
          marker' = [boot |-> boot, stale |-> FALSE, old |-> running, backend |-> b]
    BY <1>13, NoFault DEF RecordWrite
  <2>2. OnTrial' /\ running' = 0 /\ boot' = boot /\ pc' \in {"installedV1", "serve"} /\ running = 0
    BY <1>0, <1>13 DEF RecordWrite, EngineInv, OnTrial
  <2>3. marker' \in PendingMarker
    BY <2>1 DEF TypeOK, PendingMarker
  <2>4. marker' # None
    BY <2>3, MarkerAssumption
  <2>5. marker'.old = 0 /\ marker'.boot = boot /\ boot <= boot
    BY <2>1, <2>2 DEF TypeOK, BootIDs
  <2> QED BY <2>2, <2>4, <2>5 DEF MarkerInv, RollingBack
<1>14. CASE Crash \/ AgentStart
  BY <1>0, <1>14 DEF Crash, AgentStart, MarkerInv, RollingBack, OnTrial, Confirmed
<1>15. CASE Age
  <2>1. marker' \in PendingMarker /\ marker'.boot = marker.boot /\ marker'.old = marker.old
        /\ marker'.backend = marker.backend
    BY <1>15 DEF Age, TypeOK, PendingMarker
  <2> QED BY <1>0, <1>15, <2>1 DEF Age, MarkerInv, RollingBack, OnTrial, Confirmed
<1> QED
  BY <1>1, <1>2, <1>3, <1>4, <1>5, <1>6, <1>7, <1>8, <1>9, <1>10, <1>11, <1>12, <1>13, <1>14, <1>15
  DEF Next, GateStep, HandlerStep

LEMMA NextRecord ==
  ASSUME SingleUpdate, TypeOK, SingleInv, Next
  PROVE  RecordInv'
<1> USE DEF engine, files, budget, counts, verdicts, hist, Go
<1>0. EngineInv /\ MarkerInv /\ RecordInv
  BY DEF SingleInv
<1>1. CASE GateRun
  <2>1. CASE pc' \in {"serve", "plainCommit", "clrDiscarded"}
    BY <2>1 DEF RecordInv, RollingBack
  <2>2. CASE pc' \notin {"serve", "plainCommit", "clrDiscarded"}
    <3>1. /\ marker # None /\ rec' = NewRecord(marker) /\ pc' \in {"check", "commitDelegated"}
          /\ delegated' = (marker.backend = "wendyos-update")
          /\ pc' = "check" => ~delegated'
      BY <1>1, <2>2, NoFault DEF GateRun, Discard
    <3>2. rec'.old = 0 /\ rec'.new = running' /\ ~rec'.fin /\ OnTrial' = OnTrial
      BY <1>0, <1>1, <3>1 DEF GateRun, NewRecord, MarkerInv, OnTrial
    <3>3. pc' = "check" => OnTrial
      BY <1>0, <3>1 DEF MarkerInv
    <3> QED BY <3>1, <3>2, <3>3 DEF RecordInv, RollingBack
  <2> QED BY <2>1, <2>2
<1>2. CASE CheckServices
  <2>1. OnTrial /\ marker # None /\ marker.boot # boot
    BY <1>0, <1>2 DEF CheckServices, RecordInv, MarkerInv
  <2>2. good = 0 /\ tried
    BY <1>0, <2>1, NoneAssumption DEF MarkerInv, OnTrial, Confirmed
  <2> QED BY <1>0, <1>2, <2>2 DEF CheckServices, RecordInv, RollingBack
<1>3. CASE Commit
  BY <1>0, <1>3 DEF Commit, RecordInv, RollingBack
<1>4. CASE CommitDelegated
  <2>1. PICK status \in CommitStatuses : EngineCommit(status) /\ Go(AfterCommit(status))
    BY <1>4 DEF CommitDelegated
  <2>2. marker # None /\ marker.boot # boot /\ rec.old = 0 /\ rec.new = running /\ ~rec.fin
    BY <1>0, <1>4 DEF CommitDelegated, MarkerInv, RecordInv
  <2>3. (OnTrial /\ tried) \/ (Confirmed /\ running = 1)
    BY <1>0, <2>2 DEF MarkerInv
  <2>4. rec' = rec /\ running' = running
    BY <1>4 DEF CommitDelegated
  <2>5. CASE status \in {"ok", "nothing"}
    <3>1. pc' = "wrCommitted"
      BY <2>1, <2>5 DEF AfterCommit
    <3>2. running = 1 /\ 1 \in confirmed'
      BY <1>0, <2>1, <2>3, <2>5, Committed, NoneAssumption DEF OnTrial, Confirmed
    <3> QED BY <2>2, <2>4, <3>1, <3>2 DEF RecordInv, RollingBack
  <2>6. CASE status \in {"unavailable", "timeout"}
    <3>1. pc' = "wrCommitFailed"
      BY <2>1, <2>6 DEF AfterCommit
    <3> QED BY <2>2, <2>4, <3>1 DEF RecordInv, RollingBack
  <2>7. CASE status = "rejected"
    <3>1. pc' = "rbWrite"
      BY <2>1, <2>7 DEF AfterCommit
    <3>2. OnTrial /\ Unmoved
      BY <1>0, <2>1, <2>7, Committed
    <3>3. good' = 0 /\ tried'
      BY <2>3, <3>2, NoneAssumption DEF OnTrial, Confirmed, Unmoved
    <3> QED BY <2>2, <2>4, <3>1, <3>3 DEF RecordInv, RollingBack
  <2>8. status # "error"
    BY <1>0, <2>1, Committed
  <2> QED BY <2>5, <2>6, <2>7, <2>8 DEF CommitStatuses
<1>5. CASE WriteCommitted \/ ClearCommitted \/ WriteCommitFailed \/ ClearDiscarded
  BY <1>5 DEF WriteCommitted, ClearCommitted, WriteCommitFailed, ClearDiscarded, RecordInv, RollingBack
<1>6. CASE RollBackWrite
  <2>1. rec.old = 0 /\ rec.new = running /\ ~rec.fin /\ rec \in UpdateResult
    BY <1>0, <1>6 DEF RollBackWrite, RecordInv, TypeOK
  <2>2. rec'.old = 0 /\ rec'.new = running /\ ~rec'.fin /\ rec'.outcome = "rolled_back"
    BY <1>6, <2>1 DEF RollBackWrite, UpdateResult
  <2> QED BY <1>0, <1>6, <2>2 DEF RollBackWrite, RecordInv, RollingBack
<1>7. CASE RollBackClear
  BY <1>0, <1>7 DEF RollBackClear, RecordInv, RollingBack
<1>8. CASE RollBackExec
  <2>1. PICK status \in {"okReboot", "okStay", "error", "unavailable"} :
          EngineRollback(status) /\ pc' = AfterRollback(status)
    BY <1>8 DEF RollBackExec
  <2>2. /\ rec' = rec /\ running' = running /\ good' = good /\ good = 0
        /\ rec.old = 0 /\ rec.new = running /\ rec.outcome = "rolled_back" /\ ~rec.fin
    BY <1>0, <1>8 DEF RollBackExec, RecordInv, RollingBack
  <2>3. pending' = None \/ tried'
    BY <1>0, <1>8, <2>1 DEF RollBackExec, EngineRollback, RecordInv, RollingBack
  <2>4. pc' = "rbFinal" => running = 0
    BY <2>1, <2>2 DEF AfterRollback, EngineRollback
  <2>5. pc' \in {"reboot", "rbFinal", "rbFailed", "rbError"}
    BY <1>8, ExecVerdict
  <2> QED BY <2>2, <2>3, <2>4, <2>5 DEF RecordInv, RollingBack
<1>9. CASE RollBackError
  BY <1>0, <1>9 DEF RollBackError, RecordInv, RollingBack
<1>10. CASE RollBackFinal \/ RollBackFailed \/ PlainCommit \/ Finalize
  BY <1>10 DEF RollBackFinal, RollBackFailed, PlainCommit, Finalize, RecordInv, RollingBack
<1>11. CASE GateReboot \/ HandlerReboot \/ PowerLoss
  <2>1. pc' = "start"
    BY <1>11, NoFault DEF GateReboot, HandlerReboot, PowerLoss, Restart
  <2> QED BY <2>1 DEF RecordInv, RollingBack
<1>12. CASE HandlerStep /\ ~HandlerReboot
  <2>1. pc' \in {"recClear", "serve", "recWrite", "installedV1"}
    BY <1>12 DEF HandlerStep, Install, RecordClear, RecordWrite
  <2> QED BY <2>1 DEF RecordInv, RollingBack
<1>13. CASE Crash \/ AgentStart \/ Age
  <2>1. pc' \in {"down", "start", "serve"}
    BY <1>13 DEF Crash, AgentStart, Age
  <2> QED BY <2>1 DEF RecordInv, RollingBack
<1> QED
  BY <1>1, <1>2, <1>3, <1>4, <1>5, <1>6, <1>7, <1>8, <1>9, <1>10, <1>11, <1>12, <1>13
  DEF Next, GateStep, HandlerStep

LEMMA NextResult ==
  ASSUME SingleUpdate, TypeOK, SingleInv, Next
  PROVE  ResultInv'
<1> USE DEF engine, files, budget, counts, verdicts, hist, Go
<1>0. EngineInv /\ MarkerInv /\ RecordInv /\ ResultInv
  BY DEF SingleInv
<1>1. CASE result' = result
  <2>1. confirmed \subseteq confirmed'
    <3>1. CASE CommitDelegated \/ PlainCommit
      BY <1>0, <3>1, Committed DEF CommitDelegated, PlainCommit
    <3>2. CASE GateReboot \/ HandlerReboot \/ PowerLoss
      BY <3>2 DEF GateReboot, HandlerReboot, PowerLoss, Restart
    <3>3. CASE GateStep /\ ~(CommitDelegated \/ PlainCommit \/ GateReboot)
      BY <3>3 DEF GateStep, GateRun, CheckServices, Commit, WriteCommitted, ClearCommitted,
         WriteCommitFailed, RollBackWrite, RollBackClear, RollBackExec, RollBackFinal,
         RollBackFailed, RollBackError, ClearDiscarded, Finalize
    <3>4. CASE Install \/ RecordClear \/ RecordWrite \/ Crash \/ AgentStart \/ Age
      BY <3>4 DEF Install, RecordClear, RecordWrite, Crash, AgentStart, Age
    <3> QED BY <3>1, <3>2, <3>3, <3>4 DEF Next, HandlerStep
  <2> QED BY <1>0, <1>1, <2>1 DEF ResultInv
<1>2. CASE WriteCommitted
  <2>1. result' = [rec EXCEPT !.outcome = "committed", !.fin = TRUE]
    BY <1>2, Wrote DEF WriteCommitted
  <2>2. rec.old = 0 /\ rec.new = 1 /\ 1 \in confirmed /\ confirmed' = confirmed /\ rec \in UpdateResult
    BY <1>0, <1>2 DEF WriteCommitted, RecordInv, TypeOK
  <2>3. result'.old = 0 /\ result'.new = 1
    BY <2>1, <2>2 DEF UpdateResult
  <2> QED BY <2>2, <2>3 DEF ResultInv
<1>3. CASE WriteCommitFailed \/ RollBackWrite \/ RollBackFinal \/ RollBackFailed \/ RollBackError
  <2>1. rec.old = 0 /\ rec \in UpdateResult /\ (pc \in RollingBack => rec.outcome = "rolled_back")
    BY <1>0, <1>3 DEF WriteCommitFailed, RollBackWrite, RollBackFinal, RollBackFailed, RollBackError,
       RecordInv, RollingBack, TypeOK
  <2>2. \/ result' = [rec EXCEPT !.outcome = "commit_failed"]
        \/ result' = [rec EXCEPT !.outcome = "rolled_back"]
        \/ pc = "rbFinal" /\ result' = [rec EXCEPT !.fin = TRUE, !.final = running]
        \/ result' = [rec EXCEPT !.outcome = "rollback_failed"]
        \/ pc = "rbError" /\ result' = rec
    <3>1. CASE RollBackWrite
      BY <3>1, NoFault DEF RollBackWrite, writeResult
    <3>2. CASE ~RollBackWrite
      BY <1>3, <3>2, Wrote DEF WriteCommitFailed, RollBackFinal, RollBackFailed, RollBackError
    <3> QED BY <3>1, <3>2
  <2>3. result'.old = 0 /\ result'.outcome # "committed"
    BY <2>1, <2>2 DEF UpdateResult, RollingBack
  <2> QED BY <2>3 DEF ResultInv
<1>4. CASE Finalize
  <2>1. CASE result # None /\ result.outcome = "rolled_back" /\ ~result.fin
    <3>1. result' = [result EXCEPT !.fin = TRUE, !.final = running] /\ result \in UpdateResult
      BY <1>4, <2>1, Wrote DEF Finalize, TypeOK
    <3>2. result'.old = 0 /\ result'.outcome = "rolled_back"
      BY <1>0, <2>1, <3>1 DEF ResultInv, UpdateResult
    <3> QED BY <3>2 DEF ResultInv
  <2>2. CASE ~(result # None /\ result.outcome = "rolled_back" /\ ~result.fin)
    <3>1. result' = result
      BY <1>4, <2>2 DEF Finalize
    <3> QED BY <1>1, <3>1
  <2> QED BY <2>1, <2>2
<1>5. CASE RecordClear
  <2>1. result' = None
    BY <1>5, NoFault DEF RecordClear
  <2> QED BY <2>1 DEF ResultInv
<1>6. result' = result \/ WriteCommitted \/ WriteCommitFailed \/ RollBackWrite \/ RollBackFinal
      \/ RollBackFailed \/ RollBackError \/ Finalize \/ RecordClear
  BY DEF Next, GateStep, HandlerStep, GateRun, CheckServices, Commit, CommitDelegated, ClearCommitted,
     RollBackClear, RollBackExec, GateReboot, ClearDiscarded, PlainCommit, Install, RecordWrite,
     HandlerReboot, Crash, AgentStart, PowerLoss, Age
<1> QED BY <1>1, <1>2, <1>3, <1>4, <1>5, <1>6

LEMMA InitSingle == Init => SingleInv
BY NoneAssumption DEF Init, SingleInv, EngineInv, MarkerInv, RecordInv, ResultInv, OnTrial, Confirmed,
   Reverted, RollingBack

LEMMA NextSingle ==
  ASSUME SingleUpdate
  PROVE  IInv /\ SingleInv /\ [Next]_vars => SingleInv'
<1> SUFFICES ASSUME IInv, SingleInv, [Next]_vars PROVE SingleInv'
  OBVIOUS
<1>1. CASE Next
  BY <1>1, NextEngine, NextMarker, NextRecord, NextResult DEF IInv, SingleInv
<1>2. CASE UNCHANGED vars
  BY <1>2 DEF vars, engine, files, budget, counts, verdicts, hist, SingleInv, EngineInv, MarkerInv, RecordInv,
     ResultInv, OnTrial, Confirmed, Reverted
<1> QED BY <1>1, <1>2

\* However often the device loses power and the agent dies, a record of the
\* update says "committed" only if the engine committed its version
\* (commitDelegated, rollBack, finalizeRolledBackRecord), as long as there is one
\* update and the data partition takes what is written.
THEOREM CommitsAreTruthful ==
  ASSUME SingleUpdate
  PROVE  Spec => []CommittedIsTruthful
<1>1. SingleInv => CommittedIsTruthful
  BY DEF SingleInv, ResultInv, CommittedIsTruthful
<1> QED BY <1>1, InitSingle, NextSingle, UpdateInvariant, PTL DEF Spec

\* A record that says "rolled_back" is written with the image still unconfirmed
\* and its trial spent; unless the agent dies in the middle, nothing changes that.
LEMMA NextRolled ==
  ASSUME SingleUpdate, MaxCrashes = 0
  PROVE  IInv /\ SingleInv /\ RolledInv /\ [Next]_vars => RolledInv'
<1> SUFFICES ASSUME IInv, SingleInv, RolledInv, [Next]_vars PROVE RolledInv'
  OBVIOUS
<1> USE DEF engine, files, budget, counts, verdicts, hist, Go
<1>0. TypeOK /\ EngineInv /\ MarkerInv /\ RecordInv /\ ResultInv
  BY DEF IInv, SingleInv
<1>1. CASE UNCHANGED vars
  BY <1>1 DEF vars, RolledInv, RollingBack
<1>2. CASE GateRun \/ ClearCommitted \/ ClearDiscarded \/ RollBackClear \/ CheckServices \/ Commit
  BY <1>2 DEF GateRun, Discard, ClearCommitted, ClearDiscarded, RollBackClear, CheckServices, Commit,
     RolledInv, RollingBack
<1>3. CASE CommitDelegated \/ PlainCommit
  <2>1. PICK status \in CommitStatuses : EngineCommit(status)
    BY <1>3 DEF CommitDelegated, PlainCommit
  <2>2. result' = result /\ running' = running /\ pc \notin RollingBack
    BY <1>3 DEF CommitDelegated, PlainCommit, RollingBack
  <2> SUFFICES ASSUME result # None, result.outcome = "rolled_back" PROVE RolledInv'
    BY <2>2 DEF RolledInv
  <2>3. good = 0 /\ (pending = None \/ tried) /\ running = 0 /\ (result.fin => result.final = 0)
    BY <2>2 DEF RolledInv
  <2>4. Unmoved
    BY <1>0, <2>1, <2>3, Committed, NoneAssumption DEF OnTrial
  <2> QED BY <2>2, <2>3, <2>4 DEF RolledInv, Unmoved
<1>4. CASE WriteCommitted \/ WriteCommitFailed \/ RollBackFailed
  <2>1. result' = [rec EXCEPT !.outcome = "committed", !.fin = TRUE]
        \/ result' = [rec EXCEPT !.outcome = "commit_failed"]
        \/ result' = [rec EXCEPT !.outcome = "rollback_failed"]
    BY <1>0, <1>4, Wrote DEF WriteCommitted, WriteCommitFailed, RollBackFailed
  <2>2. rec \in UpdateResult
    BY <1>0 DEF TypeOK
  <2>3. result'.outcome # "rolled_back"
    BY <2>1, <2>2 DEF UpdateResult
  <2> QED BY <2>3 DEF RolledInv
<1>5. CASE RollBackWrite
  <2>1. result' = rec' /\ rec' = [rec EXCEPT !.outcome = "rolled_back"]
    BY <1>0, <1>5, NoFault DEF RollBackWrite, writeResult
  <2>2. ~rec.fin /\ rec \in UpdateResult /\ good = 0 /\ (pending = None \/ tried)
    BY <1>0, <1>5 DEF RollBackWrite, RecordInv, TypeOK
  <2>3. ~result'.fin
    BY <2>1, <2>2 DEF UpdateResult
  <2> QED BY <1>5, <2>2, <2>3 DEF RollBackWrite, RolledInv, RollingBack
<1>6. CASE RollBackExec
  <2>1. pc' \in {"reboot", "rbFinal", "rbFailed", "rbError"}
    BY <1>6, ExecVerdict
  <2>2. good' = good /\ result' = result /\ good = 0
    BY <1>0, <1>6 DEF RollBackExec, RecordInv, RollingBack
  <2>3. pending' = None \/ tried'
    BY <1>0, <1>6 DEF RollBackExec, EngineRollback, RecordInv, RollingBack
  <2> QED BY <2>1, <2>2, <2>3 DEF RolledInv, RollingBack
<1>7. CASE RollBackFinal
  <2>1. result' = [rec EXCEPT !.fin = TRUE, !.final = running] /\ rec \in UpdateResult
    BY <1>0, <1>7, Wrote DEF RollBackFinal, TypeOK
  <2>2. running = 0 /\ good = 0 /\ (pending = None \/ tried)
    BY <1>0, <1>7 DEF RollBackFinal, RecordInv, RollingBack
  <2>3. result'.final = 0
    BY <2>1, <2>2 DEF UpdateResult
  <2> QED BY <1>7, <2>2, <2>3 DEF RollBackFinal, RolledInv
<1>8. CASE RollBackError
  <2>1. result' = rec /\ ~rec.fin /\ good = 0 /\ (pending = None \/ tried)
    BY <1>0, <1>8, Wrote DEF RollBackError, RecordInv, RollingBack
  <2> QED BY <1>8, <2>1 DEF RollBackError, RolledInv, RollingBack
<1>9. CASE Finalize
  <2>1. CASE result # None /\ result.outcome = "rolled_back" /\ ~result.fin
    <3>1. result' = [result EXCEPT !.fin = TRUE, !.final = running] /\ result \in UpdateResult
      BY <1>0, <1>9, <2>1, Wrote DEF Finalize, TypeOK
    <3>2. running = 0 /\ good = 0 /\ (pending = None \/ tried)
      BY <1>9, <2>1 DEF Finalize, RolledInv, RollingBack
    <3>3. result'.final = 0
      BY <3>1, <3>2 DEF UpdateResult
    <3> QED BY <1>9, <3>2, <3>3 DEF Finalize, RolledInv
  <2>2. CASE ~(result # None /\ result.outcome = "rolled_back" /\ ~result.fin)
    BY <1>9, <2>2 DEF Finalize, RolledInv, RollingBack
  <2> QED BY <2>1, <2>2
<1>10. CASE GateReboot \/ HandlerReboot \/ PowerLoss
  <2>1. PICK bound : Restart(bound)
    BY <1>0, <1>10, NoFault DEF GateReboot, HandlerReboot, PowerLoss
  <2>2. result' = result
    BY <1>10 DEF GateReboot, HandlerReboot, PowerLoss
  <2> QED BY <1>0, <2>1, <2>2, Restarted DEF RolledInv
<1>11. CASE Install \/ RecordClear \/ RecordWrite
  <2>1. result' = None
    <3>1. CASE Install
      <4>1. installs = 0
        BY <1>0, <3>1 DEF Install, SingleUpdate, TypeOK
      <4> QED BY <1>0, <3>1, <4>1 DEF Install, EngineInv
    <3>2. CASE RecordClear \/ RecordWrite
      BY <1>0, <3>2 DEF RecordClear, RecordWrite, EngineInv
    <3> QED BY <1>11, <3>1, <3>2
  <2> QED BY <2>1 DEF RolledInv
<1>12. CASE AgentStart \/ Age
  BY <1>12 DEF AgentStart, Age, RolledInv, RollingBack
<1>13. CASE Crash
  <2>1. crashes = 0
    BY <1>0 DEF TypeOK
  <2> QED BY <1>13, <2>1 DEF Crash
<1> QED
  BY <1>1, <1>2, <1>3, <1>4, <1>5, <1>6, <1>7, <1>8, <1>9, <1>10, <1>11, <1>12, <1>13
  DEF Next, GateStep, HandlerStep

\* A finalized "rolled_back" record names the version the update started from, for
\* one update and any number of power losses, while the agent process itself does
\* not die (a crash of the agent in the middle of rollBack refutes it: the
\* finding of the run osupdate_rolledback).
THEOREM RollbacksAreTruthful ==
  ASSUME SingleUpdate, MaxCrashes = 0
  PROVE  Spec => []RolledBackIsTruthful
<1>1. SingleInv /\ RolledInv => RolledBackIsTruthful
  BY DEF SingleInv, ResultInv, RolledInv, RolledBackIsTruthful
<1>2. Init => RolledInv
  BY DEF Init, RolledInv
<1> QED BY <1>1, <1>2, InitSingle, NextSingle, NextRolled, UpdateInvariant, PTL DEF Spec

-----------------------------------------------------------------------------
(* A rollback takes effect.                                                *)

\* The gate reboots the device at most once, so the bound leaves room for it.
BootInv ==
  installs = 0 \/ pc \in {"recClear", "recWrite"} \cup RollingBack \/ marker # None
    => boot <= MaxBoots

LEMMA NextBoot ==
  ASSUME SingleUpdate, TypeOK, SingleInv, BootInv, [Next]_vars
  PROVE  BootInv'
<1> USE DEF engine, files, budget, counts, verdicts, hist, Go
<1>1. boot \in Nat /\ MaxBoots \in Nat /\ installs \in {0, 1}
  BY BoundAssumption DEF TypeOK, BootIDs, SingleUpdate
<1> DEFINE Early == installs = 0 \/ pc \in {"recClear", "recWrite"} \cup RollingBack \/ marker # None
<1>2. CASE boot' = boot /\ (Early' => Early)
  BY <1>2 DEF BootInv
<1>3. CASE boot' <= MaxBoots
  BY <1>3 DEF BootInv
<1>4. CASE GateReboot
  <2>1. marker' = None /\ installs' = installs /\ pc' = "start" /\ marker = None /\ installs # 0
    BY <1>4, NoFault DEF GateReboot, Restart, SingleInv, MarkerInv, EngineInv, RollingBack
  <2> QED BY <2>1 DEF BootInv, RollingBack
<1>5. CASE HandlerReboot \/ PowerLoss
  <2>1. Restart(MaxBoots)
    BY <1>5, NoFault DEF HandlerReboot, PowerLoss
  <2> QED BY <1>1, <1>3, <2>1 DEF Restart
<1>6. CASE GateRun \/ CheckServices \/ Commit \/ WriteCommitted \/ WriteCommitFailed
           \/ RollBackFinal \/ RollBackFailed \/ Finalize
  BY <1>2, <1>6 DEF GateRun, CheckServices, Commit, WriteCommitted, WriteCommitFailed,
                    RollBackFinal, RollBackFailed, Finalize, RollingBack, Discard
<1>7. CASE CommitDelegated
  <2>1. boot' = boot /\ marker' = marker /\ installs' = installs /\ marker # None
    BY <1>7 DEF CommitDelegated, SingleInv, MarkerInv
  <2> QED BY <1>2, <2>1
<1>8. CASE PlainCommit
  BY <1>2, <1>8 DEF PlainCommit, RollingBack
<1>9. CASE ClearCommitted \/ ClearDiscarded
  BY <1>2, <1>9 DEF ClearCommitted, ClearDiscarded, clearMarker, RollingBack
<1>10. CASE RollBackWrite
  BY <1>2, <1>10 DEF RollBackWrite, SingleInv, MarkerInv
<1>11. CASE RollBackClear \/ RollBackExec \/ RollBackError
  <2>1. Early /\ boot' = boot
    BY <1>11 DEF RollBackClear, RollBackExec, RollBackError, RollingBack
  <2> QED BY <1>2, <2>1
<1>12. CASE Install
  BY <1>1, <1>2, <1>12 DEF Install, SingleUpdate
<1>13. CASE RecordClear \/ RecordWrite
  <2>1. Early /\ boot' = boot
    BY <1>13 DEF RecordClear, RecordWrite
  <2> QED BY <1>2, <2>1
<1>14. CASE Crash \/ AgentStart \/ Age
  BY <1>2, <1>14 DEF Crash, AgentStart, Age, RollingBack
<1>15. CASE UNCHANGED vars
  BY <1>2, <1>15 DEF vars
<1> QED BY <1>4, <1>5, <1>6, <1>7, <1>8, <1>9, <1>10, <1>11, <1>12, <1>13, <1>14, <1>15
        DEF Next, GateStep, HandlerStep

\* What RollbackTakesEffect promises.
Effect == running = good \/ (result # None /\ result.outcome = "rollback_failed")

\* Where a step leads from a place of rollBack while the rejected image runs: on to
\* the next one, or to the end of it.
LEMMA RollBackMoves ==
  ASSUME SingleUpdate, MaxCrashes = 0, TypeOK, SingleInv, [Next]_vars, ~Effect
  PROVE  /\ pc = "rbWrite" => pc' \in {"rbWrite", "rbClear"} \/ Effect'
         /\ pc = "rbClear" => pc' \in {"rbClear", "rbExec"} \/ Effect'
         /\ pc = "rbExec" => pc' \in {"rbExec", "rbFailed", "rbError", "reboot"} \/ Effect'
         /\ pc = "rbFailed" => pc' = "rbFailed" \/ Effect'
         /\ pc = "rbError" => pc' \in {"rbError", "reboot"} \/ Effect'
         /\ pc = "reboot" => pc' = "reboot" \/ Effect'
<1> USE DEF engine, files, budget, counts, verdicts, hist, Go
<1>1. SUFFICES ASSUME pc \in {"rbWrite", "rbClear", "rbExec", "rbFailed", "rbError", "reboot"}
               PROVE  /\ pc = "rbWrite" => pc' \in {"rbWrite", "rbClear"} \/ Effect'
                      /\ pc = "rbClear" => pc' \in {"rbClear", "rbExec"} \/ Effect'
                      /\ pc = "rbExec" => pc' \in {"rbExec", "rbFailed", "rbError", "reboot"} \/ Effect'
                      /\ pc = "rbFailed" => pc' = "rbFailed" \/ Effect'
                      /\ pc = "rbError" => pc' \in {"rbError", "reboot"} \/ Effect'
                      /\ pc = "reboot" => pc' = "reboot" \/ Effect'
  OBVIOUS
<1>2. pending = None \/ tried
  BY <1>1 DEF SingleInv, RecordInv, RollingBack
<1>3. ASSUME NEW bound, Restart(bound) PROVE Effect'
  BY <1>2, <1>3 DEF Restart, Effect
<1>4. ~Crash
  BY DEF Crash, TypeOK
<1>5. CASE PowerLoss
  BY <1>3, <1>5 DEF PowerLoss
<1>6. CASE UNCHANGED vars
  BY <1>6 DEF vars
<1>7. CASE RollBackWrite \/ RollBackClear \/ RollBackError
  BY <1>7 DEF RollBackWrite, RollBackClear, RollBackError
<1>8. CASE RollBackExec
  <2>1. PICK status \in {"okReboot", "okStay", "error", "unavailable"} :
          EngineRollback(status) /\ pc' = AfterRollback(status)
    BY <1>8 DEF RollBackExec
  <2>2. status # "okStay"
    BY <2>1 DEF EngineRollback, Effect
  <2> QED BY <1>8, <2>1, <2>2 DEF RollBackExec, AfterRollback
<1>9. CASE RollBackFailed
  <2>1. result' = [rec EXCEPT !.outcome = "rollback_failed"] /\ rec \in UpdateResult
    BY <1>9, Wrote DEF RollBackFailed, TypeOK
  <2>2. result' \in UpdateResult /\ result'.outcome = "rollback_failed"
    BY <2>1 DEF UpdateResult, Outcomes
  <2>3. result' # None
    BY <2>1, <2>2, ResultAssumption
  <2> QED BY <2>2, <2>3 DEF Effect
<1>10. CASE GateReboot
  BY <1>3, <1>10, NoFault DEF GateReboot
<1>11. ~GateRun /\ ~CheckServices /\ ~Commit /\ ~CommitDelegated /\ ~WriteCommitted /\ ~ClearCommitted
       /\ ~WriteCommitFailed /\ ~RollBackFinal /\ ~ClearDiscarded /\ ~PlainCommit /\ ~Finalize
  BY <1>1 DEF GateRun, CheckServices, Commit, CommitDelegated, WriteCommitted, ClearCommitted,
              WriteCommitFailed, RollBackFinal, ClearDiscarded, PlainCommit, Finalize
<1>12. ~HandlerStep /\ ~AgentStart /\ ~Age
  BY <1>1 DEF HandlerStep, Install, RecordClear, RecordWrite, HandlerReboot, AgentStart, Age
<1> QED BY <1>4, <1>5, <1>6, <1>7, <1>8, <1>9, <1>10, <1>11, <1>12 DEF Next, GateStep

-----------------------------------------------------------------------------
(* The agent does not stay at a place of rollBack: fairness, place by place. *)

LEMMA LeavesRbWrite ==
  ASSUME NEW p \in GatePCs, p = "rbWrite"
  PROVE  FairSpec => []<>~Waits("rbWrite")
<1>1. FairSpec => []<>~Waits(p)
  BY DEF FairSpec, Fairness
<1>2. Waits("rbWrite") => Waits(p)
  OBVIOUS
<1> QED BY <1>1, <1>2, PTL

LEMMA LeavesRbClear ==
  ASSUME NEW p \in GatePCs, p = "rbClear"
  PROVE  FairSpec => []<>~Waits("rbClear")
<1>1. FairSpec => []<>~Waits(p)
  BY DEF FairSpec, Fairness
<1>2. Waits("rbClear") => Waits(p)
  OBVIOUS
<1> QED BY <1>1, <1>2, PTL

LEMMA LeavesRbExec ==
  ASSUME NEW p \in GatePCs, p = "rbExec"
  PROVE  FairSpec => []<>~Waits("rbExec")
<1>1. FairSpec => []<>~Waits(p)
  BY DEF FairSpec, Fairness
<1>2. Waits("rbExec") => Waits(p)
  OBVIOUS
<1> QED BY <1>1, <1>2, PTL

LEMMA LeavesRbFailed ==
  ASSUME NEW p \in GatePCs, p = "rbFailed"
  PROVE  FairSpec => []<>~Waits("rbFailed")
<1>1. FairSpec => []<>~Waits(p)
  BY DEF FairSpec, Fairness
<1>2. Waits("rbFailed") => Waits(p)
  OBVIOUS
<1> QED BY <1>1, <1>2, PTL

LEMMA LeavesRbError ==
  ASSUME NEW p \in GatePCs, p = "rbError"
  PROVE  FairSpec => []<>~Waits("rbError")
<1>1. FairSpec => []<>~Waits(p)
  BY DEF FairSpec, Fairness
<1>2. Waits("rbError") => Waits(p)
  OBVIOUS
<1> QED BY <1>1, <1>2, PTL

LEMMA LeavesReboot ==
  ASSUME NEW p \in GatePCs, p = "reboot"
  PROVE  FairSpec => []<>~Waits("reboot")
<1>1. FairSpec => []<>~Waits(p)
  BY DEF FairSpec, Fairness
<1>2. Waits("reboot") => Waits(p)
  OBVIOUS
<1> QED BY <1>1, <1>2, PTL

\* Once rollBack began it takes effect or its record says that it failed, for one
\* update and any number of power losses, while the agent process does not die: no
\* branch ends with the rejected image up and a record that says "rolled_back".
THEOREM RollbacksTakeEffect ==
  ASSUME SingleUpdate, MaxCrashes = 0
  PROVE  FairSpec => RollbackTakesEffect
<1> DEFINE Inv == TypeOK /\ SingleInv /\ BootInv
<1>1. FairSpec => []Inv
  <2>1. Init => BootInv
    BY BoundAssumption DEF Init, BootInv
  <2>2. TypeOK /\ SingleInv /\ BootInv /\ [Next]_vars => BootInv'
    BY NextBoot
  <2> QED BY <2>1, <2>2, InitSingle, NextSingle, TypeCorrect, UpdateInvariant, PTL DEF FairSpec, Spec
<1>2. FairSpec => [][Next]_vars
  BY DEF FairSpec, Spec
<1>3. FairSpec => []<>~Waits("rbWrite")
  BY LeavesRbWrite DEF GatePCs
<1>4. FairSpec => []<>~Waits("rbClear")
  BY LeavesRbClear DEF GatePCs
<1>5. FairSpec => []<>~Waits("rbExec")
  BY LeavesRbExec DEF GatePCs
<1>6. FairSpec => []<>~Waits("rbFailed")
  BY LeavesRbFailed DEF GatePCs
<1>7. FairSpec => []<>~Waits("rbError")
  BY LeavesRbError DEF GatePCs
<1>8. FairSpec => []<>~Waits("reboot")
  BY LeavesReboot DEF GatePCs
<1>9. Inv => /\ pc = "rbWrite" => Waits("rbWrite")
             /\ pc = "rbClear" => Waits("rbClear")
             /\ pc = "rbExec" => Waits("rbExec")
             /\ pc = "rbFailed" => Waits("rbFailed")
             /\ pc = "rbError" => Waits("rbError")
             /\ pc = "reboot" => Waits("reboot")
  <2>1. SUFFICES ASSUME Inv, pc = "reboot" PROVE boot < MaxBoots + MaxInstalls
    BY DEF Waits
  <2>2. boot <= MaxBoots /\ boot \in Nat /\ MaxBoots \in Nat /\ MaxInstalls = 1
    BY <2>1, BoundAssumption DEF BootInv, RollingBack, TypeOK, BootIDs, SingleUpdate
  <2> QED BY <2>2
<1>10. Inv /\ [Next]_vars /\ ~Effect =>
         /\ pc = "rbWrite" => (pc = "rbWrite" \/ pc = "rbClear" \/ Effect)'
         /\ pc = "rbClear" => (pc = "rbClear" \/ pc = "rbExec" \/ Effect)'
         /\ pc = "rbExec" => (pc = "rbExec" \/ pc = "rbFailed" \/ pc = "rbError" \/ pc = "reboot" \/ Effect)'
         /\ pc = "rbFailed" => (pc = "rbFailed" \/ Effect)'
         /\ pc = "rbError" => (pc = "rbError" \/ pc = "reboot" \/ Effect)'
         /\ pc = "reboot" => (pc = "reboot" \/ Effect)'
  BY RollBackMoves
<1>11. Effect <=> \/ running = good
                  \/ result # None /\ result.outcome = "rollback_failed"
  BY DEF Effect
<1> HIDE DEF Inv
<1> QED BY <1>1, <1>2, <1>3, <1>4, <1>5, <1>6, <1>7, <1>8, <1>9, <1>10, <1>11, PTL DEF RollbackTakesEffect
=============================================================================
