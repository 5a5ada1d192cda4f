--------------------------- MODULE JobQueueProofs ---------------------------
(***************************************************************************)
(* Proofs about JobQueue, for every number of rows, claims and workers,    *)
(* every clock skew and every lease length.                                *)
(***************************************************************************)
EXTENDS JobQueue, TLAPS

USE ConstantsAssumption

\* Initially every column and local has its type.
LEMMA InitTypeOK == Init => TypeOK
  BY DEF Init, TypeOK, RowTypes, RunTypes, OtherTypes, LockedByWhileRunning, RunnerWhileLive,
     Statuses, PCs, Calls, Idle, Active, Ended, Live, Renewing, Jobs, Attempts, Keys

\* What a run may do to its row and to its locals, by steps that keep them typed.
LEMMA GotoTypes ==
  ASSUME RunTypes, RunnerWhileLive, NEW j \in Jobs, NEW a \in Attempts,
         NEW label \in PCs \ {"none"}, pc[j][a] \in Live, Goto(j, a, label)
  PROVE  RunTypes' /\ RunnerWhileLive'
  BY DEF RunTypes, RunnerWhileLive, Goto, PCs, Live, Renewing, Attempts, Jobs

\* What ending, failing or requeueing a row leaves behind is typed.
LEMMA EndRowTypes ==
  ASSUME RowTypes, LockedByWhileRunning, NEW j \in Jobs, NEW s \in Ended \cup {"QUEUED"},
         EndRow(j, s), runAfter' \in [Jobs -> Int], UNCHANGED rowLock
  PROVE  RowTypes' /\ LockedByWhileRunning'
  BY DEF RowTypes, LockedByWhileRunning, EndRow, Statuses, Ended, Active, Jobs

\* Every step of a run keeps the types.
LEMMA RunStepTypeOK ==
  ASSUME TypeOK, NEW j \in Jobs, NEW a \in Attempts, RunStep(j, a)
  PROVE  TypeOK'
<1> USE DEF At, rowVars, dataVars, runVars
<1> DEFINE Same == UNCHANGED <<rowVars, rowLock>> /\ UNCHANGED <<worker, call, gone, dataVars>>
<1>0. /\ RowTypes /\ RunTypes /\ OtherTypes /\ LockedByWhileRunning /\ RunnerWhileLive
      /\ PCs \ {"none"} = {"done"} \cup Live
      /\ Live = {"started", "reporting"} \cup Renewing
      /\ Renewing = {"handling", "writing", "completing", "retrying", "failing"}
  BY DEF TypeOK, PCs, Live, Renewing
<1>1. ASSUME NEW label \in PCs \ {"none"}, pc[j][a] \in Live, Goto(j, a, label), Same
      PROVE  TypeOK'
  <2>1. RunTypes' /\ RunnerWhileLive'
    BY <1>0, <1>1, GotoTypes
  <2>2. RowTypes' /\ OtherTypes' /\ LockedByWhileRunning'
    BY <1>0, <1>1 DEF RowTypes, OtherTypes, LockedByWhileRunning
  <2>3. QED
    BY <2>1, <2>2 DEF TypeOK
<1>2. ASSUME NEW label \in PCs \ {"none"}, pc[j][a] \in Live, Goto(j, a, label),
             NEW s \in Ended \cup {"QUEUED"}, EndRow(j, s), runAfter' \in [Jobs -> Int],
             UNCHANGED <<rowLock, worker, call, gone, dataVars>>
      PROVE  TypeOK'
  <2>1. RunTypes' /\ RunnerWhileLive'
    BY <1>0, <1>2, GotoTypes
  <2>2. RowTypes' /\ LockedByWhileRunning'
    BY <1>0, <1>2, EndRowTypes
  <2>3. OtherTypes'
    BY <1>0, <1>2 DEF OtherTypes
  <2>4. QED
    BY <2>1, <2>2, <2>3 DEF TypeOK
<1>3. runAfter \in [Jobs -> Int]
  BY <1>0 DEF RowTypes
<1>4. CASE StartRun(j, a)
  BY <1>0, <1>1, <1>4 DEF StartRun
<1>5. CASE RefuseRun(j, a)
  <2>1. CASE LockedByRunner(j, a) /\ leaseExpiresAt[j] > Skew[runner[j][a]]
    BY <1>0, <1>2, <1>3, <1>5, <2>1 DEF RefuseRun, Ended
  <2>2. CASE ~ (LockedByRunner(j, a) /\ leaseExpiresAt[j] > Skew[runner[j][a]])
    BY <1>0, <1>1, <1>5, <2>2 DEF RefuseRun
  <2>3. QED
    BY <2>1, <2>2
<1>6. CASE Renew(j, a)
  <2>1. runner[j][a] \in Workers
    BY <1>0, <1>6 DEF Renew, RunnerWhileLive
  <2>2. LeaseTicks + Skew[runner[j][a]] \in Int
    BY <2>1
  <2>3. RowTypes' /\ LockedByWhileRunning'
    BY <1>0, <1>6, <2>2 DEF Renew, RowTypes, LockedByWhileRunning
  <2>4. RunTypes' /\ RunnerWhileLive'
    <3>1. leaseLost' \in [Jobs -> [Attempts -> BOOLEAN]]
      <4>1. CASE HoldsByAppClock(j, a)
        BY <1>0, <1>6, <4>1 DEF Renew, RunTypes
      <4>2. CASE ~ HoldsByAppClock(j, a)
        <5>1. leaseLost' = [leaseLost EXCEPT ![j][a] = TRUE]
          BY <1>6, <4>2 DEF Renew
        <5>2. QED
          BY <1>0, <5>1 DEF RunTypes
      <4>3. QED
        BY <4>1, <4>2
    <3>2. UNCHANGED <<pc, runner>>
      BY <1>6 DEF Renew
    <3>3. QED
      BY <1>0, <3>1, <3>2 DEF RunTypes, RunnerWhileLive
  <2>5. OtherTypes'
    BY <1>0, <1>6 DEF Renew, OtherTypes
  <2>6. QED
    BY <2>3, <2>4, <2>5 DEF TypeOK
<1>7. CASE RenewError(j, a)
  BY <1>0, <1>7 DEF RenewError, TypeOK, RowTypes, RunTypes, OtherTypes, LockedByWhileRunning, RunnerWhileLive
<1>8. CASE FenceWrite(j, a) \/ CommitWrite(j, a) \/ AbortWrite(j, a)
  <2>1. RunTypes' /\ RunnerWhileLive'
    BY <1>0, <1>8, GotoTypes DEF FenceWrite, CommitWrite, AbortWrite
  <2>2. RowTypes' /\ LockedByWhileRunning'
    BY <1>0, <1>8 DEF FenceWrite, CommitWrite, AbortWrite, RowTypes, LockedByWhileRunning, Attempts
  <2>3. OtherTypes'
    <3>1. dataJob' \in [Keys -> 0..MaxJobs]
      BY <1>0, <1>8 DEF FenceWrite, CommitWrite, AbortWrite, OtherTypes, Jobs
    <3>2. dataAttempt' \in [Keys -> 0..MaxClaims]
      BY <1>0, <1>8 DEF FenceWrite, CommitWrite, AbortWrite, OtherTypes, Attempts
    <3>3. QED
      BY <1>0, <1>8, <3>1, <3>2 DEF FenceWrite, CommitWrite, AbortWrite, OtherTypes
  <2>4. QED
    BY <2>1, <2>2, <2>3 DEF TypeOK
<1>9. CASE FenceLost(j, a)
  BY <1>0, <1>1, <1>9 DEF FenceLost
<1>10. CASE HandlerReturns(j, a)
  BY <1>0, <1>1, <1>10 DEF HandlerReturns
<1>11. CASE HandlerThrows(j, a)
  BY <1>0, <1>1, <1>11 DEF HandlerThrows, AfterError
<1>12. CASE CompleteJob(j, a)
  <2>1. CASE HoldsByAppClock(j, a)
    <3>1. PICK s \in Outcomes : EndRow(j, s) /\ UNCHANGED runAfter
      BY <1>12, <2>1 DEF CompleteJob
    <3>2. s \in Ended \cup {"QUEUED"}
      BY DEF Ended
    <3>3. QED
      BY <1>0, <1>2, <1>3, <1>12, <3>1, <3>2 DEF CompleteJob
  <2>2. CASE ~ HoldsByAppClock(j, a)
    BY <1>0, <1>1, <1>12, <2>2 DEF CompleteJob
  <2>3. QED
    BY <2>1, <2>2
<1>13. CASE CompleteError(j, a)
  <2> DEFINE label == IF leaseLost[j][a] THEN "done" ELSE AfterError(a, TRUE)
  <2>0. label \in PCs \ {"none"} /\ pc[j][a] \in Live /\ Goto(j, a, label)
    BY <1>0, <1>13 DEF CompleteError, AfterError
  <2>1. CASE UNCHANGED rowVars
    BY <1>1, <1>13, <2>0, <2>1 DEF CompleteError
  <2>2. CASE ~ UNCHANGED rowVars
    <3>1. PICK s \in Outcomes : EndRow(j, s) /\ UNCHANGED runAfter
      BY <1>13, <2>2 DEF CompleteError
    <3>2. s \in Ended \cup {"QUEUED"}
      BY DEF Ended
    <3>3. runAfter' \in [Jobs -> Int] /\ UNCHANGED <<rowLock, worker, call, gone, dataVars>>
      BY <1>3, <1>13, <3>1 DEF CompleteError
    <3> HIDE DEF label
    <3>4. QED
      BY <1>2, <2>0, <3>1, <3>2, <3>3
  <2>3. QED
    BY <2>1, <2>2
<1>14. CASE RetryJob(j, a)
  <2>1. CASE HoldsByAppClock(j, a)
    <3>1. runner[j][a] \in Workers
      BY <1>0, <1>14 DEF RetryJob, RunnerWhileLive
    <3>2. runAfter' \in [Jobs -> Int]
      <4>1. PICK d \in BackoffTicks : runAfter' = [runAfter EXCEPT ![j] = d + Skew[runner[j][a]]]
        BY <1>14, <2>1 DEF RetryJob
      <4>2. d + Skew[runner[j][a]] \in Int
        BY <3>1 DEF ConstantsAssumption
      <4>3. QED
        BY <1>3, <4>1, <4>2
    <3>3. QED
      BY <1>0, <1>2, <1>14, <2>1, <3>2 DEF RetryJob
  <2>2. CASE ~ HoldsByAppClock(j, a)
    BY <1>0, <1>1, <1>14, <2>2 DEF RetryJob
  <2>3. QED
    BY <2>1, <2>2
<1>15. CASE FailJob(j, a)
  <2>1. CASE HoldsByAppClock(j, a)
    BY <1>0, <1>2, <1>3, <1>15, <2>1 DEF FailJob, Ended
  <2>2. CASE ~ HoldsByAppClock(j, a)
    BY <1>0, <1>1, <1>15, <2>2 DEF FailJob
  <2>3. QED
    BY <2>1, <2>2
<1>16. CASE ReportFailure(j, a)
  BY <1>0, <1>1, <1>16 DEF ReportFailure
<1>17. QED
  BY <1>4, <1>5, <1>6, <1>7, <1>8, <1>9, <1>10, <1>11, <1>12, <1>13, <1>14, <1>15, <1>16 DEF RunStep

\* Every step of the system keeps the types.
LEMMA NextTypeOK == TypeOK /\ [Next]_vars => TypeOK'
<1> SUFFICES ASSUME TypeOK, [Next]_vars PROVE TypeOK'
  OBVIOUS
<1> USE DEF rowVars, dataVars, runVars
<1>0. RowTypes /\ RunTypes /\ OtherTypes /\ LockedByWhileRunning /\ RunnerWhileLive
  BY DEF TypeOK
<1>1. ASSUME NEW c \in Callers, NEW k \in Keys, EnqueueInsert(c, k) PROVE TypeOK'
  <2>1. PICK j \in NextRow : status' = [status EXCEPT ![j] = "QUEUED"] /\ key' = [key EXCEPT ![j] = k]
    BY <1>1 DEF EnqueueInsert
  <2>2. j \in Jobs /\ status[j] = "none"
    BY DEF NextRow
  <2>3. RowTypes' /\ LockedByWhileRunning'
    BY <1>0, <1>1, <2>1, <2>2 DEF EnqueueInsert, RowTypes, LockedByWhileRunning, Statuses, Active
  <2>4. RunTypes' /\ OtherTypes' /\ RunnerWhileLive'
    BY <1>0, <1>1 DEF EnqueueInsert, RunTypes, OtherTypes, RunnerWhileLive
  <2>5. QED
    BY <2>3, <2>4 DEF TypeOK
<1>2. ASSUME NEW c \in Callers,
             \/ \E k \in Keys : EnqueueConflict(c, k)
             \/ EnqueueLookup(c)
             \/ EnqueueGiveUp(c)
      PROVE TypeOK'
  <2>1. call' \in [Callers -> Calls]
    <3>1. Idle \in Calls /\ call \in [Callers -> Calls]
      BY <1>0 DEF Calls, OtherTypes
    <3>2. CASE \E k \in Keys : EnqueueConflict(c, k)
      BY <3>1, <3>2 DEF EnqueueConflict, Calls
    <3>3. CASE EnqueueLookup(c)
      <4>1. call[c] \in Calls \ {Idle}
        BY <3>1, <3>3 DEF EnqueueLookup, Idle
      <4>2. [pc |-> "threw", key |-> call[c].key] \in Calls
        BY <4>1 DEF Calls
      <4>3. QED
        BY <3>1, <3>3, <4>2 DEF EnqueueLookup
    <3>4. CASE EnqueueGiveUp(c)
      BY <3>1, <3>4 DEF EnqueueGiveUp
    <3>5. QED
      BY <1>2, <3>2, <3>3, <3>4
  <2>2. QED
    BY <1>0, <1>2, <2>1 DEF EnqueueConflict, EnqueueLookup, EnqueueGiveUp,
       TypeOK, RowTypes, RunTypes, OtherTypes, LockedByWhileRunning, RunnerWhileLive
<1>3. ASSUME NEW w \in Workers, NEW j \in Jobs, ClaimNextJob(w, j) PROVE TypeOK'
  <2>1. attempts[j] + 1 \in Attempts
    BY <1>0, <1>3 DEF ClaimNextJob, RowTypes, Attempts
  <2>2. LeaseTicks + Skew[w] \in Int
    BY DEF ConstantsAssumption
  <2>3. status[j] # "deleted"
    BY <1>3 DEF ClaimNextJob, Claimable
  <2>4. RowTypes'
    BY <1>0, <1>3, <2>1, <2>2 DEF ClaimNextJob, RowTypes, Statuses, Active, Attempts
  <2>5. LockedByWhileRunning'
    BY <1>0, <1>3 DEF ClaimNextJob, RowTypes, LockedByWhileRunning
  <2>6. RunTypes'
    BY <1>0, <1>3, <2>1 DEF ClaimNextJob, RunTypes, PCs, Live
  <2>7. RunnerWhileLive'
    BY <1>0, <1>3, <2>1 DEF ClaimNextJob, RunTypes, RunnerWhileLive, Live
  <2>8. OtherTypes'
    BY <1>0, <1>3 DEF ClaimNextJob, OtherTypes
  <2>9. QED
    BY <2>4, <2>5, <2>6, <2>7, <2>8 DEF TypeOK
<1>4. ASSUME NEW w \in Workers, Crash(w) PROVE TypeOK'
  <2>1. RowTypes' /\ LockedByWhileRunning'
    BY <1>0, <1>4 DEF Crash, RowTypes, LockedByWhileRunning
  <2>2. RunTypes'
    BY <1>0, <1>4 DEF Crash, RunTypes, PCs
  <2>3. RunnerWhileLive'
    BY <1>0, <1>4 DEF Crash, RunTypes, RunnerWhileLive, Live, Renewing
  <2>4. OtherTypes'
    BY <1>0, <1>4 DEF Crash, OtherTypes
  <2>5. QED
    BY <2>1, <2>2, <2>3, <2>4 DEF TypeOK
<1>5. ASSUME NEW w \in Workers, Stop(w) \/ Exit(w) PROVE TypeOK'
  BY <1>0, <1>5 DEF Stop, Exit, TypeOK, RowTypes, RunTypes, OtherTypes, LockedByWhileRunning, RunnerWhileLive
<1>6. ASSUME NEW j \in Jobs, NEW a \in Attempts, RunStep(j, a) PROVE TypeOK'
  BY <1>6, RunStepTypeOK
<1>7. ASSUME NEW acct \in Accounts, DeleteAccount(acct) PROVE TypeOK'
  <2>1. RowTypes' /\ LockedByWhileRunning'
    BY <1>0, <1>7 DEF DeleteAccount, RowTypes, LockedByWhileRunning, Statuses
  <2>2. RunTypes' /\ RunnerWhileLive' /\ OtherTypes'
    BY <1>0, <1>7 DEF DeleteAccount, RunTypes, RunnerWhileLive, OtherTypes
  <2>3. QED
    BY <2>1, <2>2 DEF TypeOK
<1>8. CASE Tick
  <2>1. \A t \in Int : Sooner(t) \in Int
    BY DEF Sooner, ConstantsAssumption
  <2>2. RowTypes'
    BY <1>0, <1>8, <2>1 DEF Tick, RowTypes
  <2>3. QED
    BY <1>0, <1>8, <2>2 DEF Tick, TypeOK, RowTypes, RunTypes, OtherTypes, LockedByWhileRunning, RunnerWhileLive
<1>9. CASE UNCHANGED vars
  BY <1>0, <1>9 DEF vars, TypeOK, RowTypes, RunTypes, OtherTypes, LockedByWhileRunning, RunnerWhileLive
<1>10. QED
  BY <1>1, <1>2, <1>3, <1>4, <1>5, <1>6, <1>7, <1>8, <1>9 DEF Next, Enqueue

\* The queue's columns, the runs' locals and the call states keep their types, and a row
\* names a worker exactly while it is RUNNING.
THEOREM TypeCorrect == Spec => []TypeOK
<1>1. QED
  BY InitTypeOK, NextTypeOK, PTL DEF Spec

-----------------------------------------------------------------------------
(* The shape of a run's step: what it can do to rows, locks and data.      *)

MovesTo(j, a, label) ==
  /\ pc' = [pc EXCEPT ![j][a] = label]
  /\ pc[j][a] \notin {"none", "writing"}
  /\ label \notin {"none", "writing"}
  /\ label = "retrying" => a < MaxAttempts

\* Nothing but the run's own locals, and perhaps the lease.
QuietStep(j, a) ==
  /\ pc' = pc \/ \E label \in PCs : MovesTo(j, a, label)
  /\ UNCHANGED <<status, key, attempts, rowLock, dataVars>>

\* The row, unlocked, leaves RUNNING.
EndingStep(j, a) ==
  \E label \in PCs, s \in Ended \cup {"QUEUED"} :
    /\ MovesTo(j, a, label)
    /\ rowLock[j] = 0
    /\ status[j] = "RUNNING"
    /\ status' = [status EXCEPT ![j] = s]
    /\ s = "QUEUED" => pc[j][a] = "retrying" /\ attempts[j] = a
    /\ Claims(j, a) \/ pc[j][a] = "started"
    /\ pc'[j][a] # pc[j][a]
    /\ UNCHANGED <<key, attempts, rowLock, dataVars>>

\* A step of a run that is not a fence, a commit or a rollback is quiet or ends the row.
LEMMA RunStepShape ==
  ASSUME TypeOK, NEW j \in Jobs, NEW a \in Attempts, RunStep(j, a)
  PROVE  \/ QuietStep(j, a)
         \/ EndingStep(j, a)
         \/ FenceWrite(j, a)
         \/ CommitWrite(j, a)
         \/ AbortWrite(j, a)
<1> USE DEF At, rowVars
<1>0. pc \in [Jobs -> [Attempts -> PCs]]
  BY DEF TypeOK, RunTypes
<1>1. CASE StartRun(j, a) \/ FenceLost(j, a) \/ HandlerReturns(j, a) \/ ReportFailure(j, a)
  BY <1>1 DEF StartRun, FenceLost, HandlerReturns, ReportFailure, Goto, QuietStep, MovesTo, PCs, Live, Renewing
<1>2. CASE HandlerThrows(j, a)
  <2>1. PICK retryable \in BOOLEAN :
          Goto(j, a, IF leaseLost[j][a] THEN "done" ELSE AfterError(a, retryable))
    BY <1>2 DEF HandlerThrows
  <2>2. PICK label \in {"done", "retrying", "failing"} :
          /\ pc' = [pc EXCEPT ![j][a] = label]
          /\ label = "retrying" => a < MaxAttempts
    BY <2>1 DEF Goto, AfterError
  <2>3. QED
    BY <1>2, <2>2 DEF HandlerThrows, QuietStep, MovesTo, PCs, Live, Renewing
<1>3. CASE Renew(j, a) \/ RenewError(j, a)
  BY <1>3 DEF Renew, RenewError, QuietStep
<1>a. ASSUME NEW label \in PCs, MovesTo(j, a, label), UNCHANGED <<status, key, attempts, rowLock, dataVars>>
      PROVE  QuietStep(j, a)
  BY <1>a DEF QuietStep
<1>b. ASSUME NEW label \in PCs, NEW s \in Ended \cup {"QUEUED"}, MovesTo(j, a, label), EndRow(j, s),
             rowLock[j] = 0, status[j] = "RUNNING", pc[j][a] # label,
             s = "QUEUED" => pc[j][a] = "retrying" /\ attempts[j] = a,
             Claims(j, a) \/ pc[j][a] = "started",
             UNCHANGED <<rowLock, dataVars>>
      PROVE  EndingStep(j, a)
  <2>1. pc'[j][a] = label
    BY <1>0, <1>b DEF MovesTo
  <2>2. status' = [status EXCEPT ![j] = s] /\ UNCHANGED <<key, attempts>>
    BY <1>b DEF EndRow
  <2>3. QED
    BY <1>b, <2>1, <2>2 DEF EndingStep
<1>c. {"done", "failing", "reporting"} \subseteq PCs /\ "FAILED" \in Ended /\ "QUEUED" \notin Ended /\ Outcomes \subseteq Ended
  BY DEF PCs, Live, Renewing, Ended
<1>4. CASE RefuseRun(j, a)
  <2>0. MovesTo(j, a, "done") /\ pc[j][a] = "started" /\ rowLock[j] = 0 /\ UNCHANGED <<rowLock, dataVars>>
    BY <1>4 DEF RefuseRun, Goto, MovesTo
  <2>1. CASE LockedByRunner(j, a) /\ leaseExpiresAt[j] > Skew[runner[j][a]]
    <3>1. EndRow(j, "FAILED") /\ status[j] = "RUNNING"
      BY <1>4, <2>1 DEF RefuseRun, LockedByRunner
    <3>2. QED
      BY <1>b, <1>c, <2>0, <3>1
  <2>2. CASE ~ (LockedByRunner(j, a) /\ leaseExpiresAt[j] > Skew[runner[j][a]])
    BY <1>4, <1>a, <1>c, <2>0, <2>2 DEF RefuseRun
  <2>3. QED
    BY <2>1, <2>2
<1>5. CASE CompleteJob(j, a)
  <2>0. MovesTo(j, a, "done") /\ pc[j][a] = "completing" /\ rowLock[j] = 0 /\ UNCHANGED <<rowLock, dataVars>>
    BY <1>5 DEF CompleteJob, Goto, MovesTo
  <2>1. CASE HoldsByAppClock(j, a)
    <3>1. PICK s \in Outcomes : EndRow(j, s)
      BY <1>5, <2>1 DEF CompleteJob
    <3>2. status[j] = "RUNNING" /\ Claims(j, a)
      BY <2>1 DEF HoldsByAppClock, Claims, LockedByRunner
    <3>3. QED
      BY <1>b, <1>c, <2>0, <3>1, <3>2
  <2>2. CASE ~ HoldsByAppClock(j, a)
    BY <1>5, <1>a, <1>c, <2>0, <2>2 DEF CompleteJob
  <2>3. QED
    BY <2>1, <2>2
<1>6. CASE CompleteError(j, a)
  <2>1. PICK label \in {"done", "retrying", "failing"} :
          /\ pc' = [pc EXCEPT ![j][a] = label]
          /\ label = "retrying" => a < MaxAttempts
    BY <1>6 DEF CompleteError, Goto, AfterError
  <2>2. MovesTo(j, a, label) /\ label \in PCs /\ label # "completing" /\ pc[j][a] = "completing"
    BY <1>6, <2>1 DEF CompleteError, MovesTo, PCs, Live, Renewing
  <2>3. CASE UNCHANGED rowVars
    BY <1>6, <2>2, <2>3 DEF CompleteError, QuietStep
  <2>4. CASE ~ UNCHANGED rowVars
    <3>1. PICK s \in Outcomes : EndRow(j, s)
      BY <1>6, <2>4 DEF CompleteError
    <3>2. s \in Ended /\ s # "QUEUED"
      BY DEF Ended
    <3>3. rowLock[j] = 0 /\ HoldsByAppClock(j, a) /\ UNCHANGED <<rowLock, dataVars>>
      BY <1>6, <2>4 DEF CompleteError
    <3>4. status[j] = "RUNNING" /\ Claims(j, a)
      BY <3>3 DEF HoldsByAppClock, Claims, LockedByRunner
    <3>5. QED
      BY <1>b, <2>2, <3>1, <3>2, <3>3, <3>4
  <2>5. QED
    BY <2>3, <2>4
<1>7. CASE RetryJob(j, a)
  <2>0. pc[j][a] = "retrying" /\ rowLock[j] = 0 /\ UNCHANGED <<rowLock, dataVars>>
    BY <1>7 DEF RetryJob
  <2>1. CASE HoldsByAppClock(j, a)
    <3>1. EndRow(j, "QUEUED") /\ MovesTo(j, a, "done")
      BY <1>7, <2>1 DEF RetryJob, Goto, MovesTo
    <3>2. status[j] = "RUNNING" /\ Claims(j, a) /\ attempts[j] = a
      BY <2>1 DEF HoldsByAppClock, Claims, LockedByRunner
    <3>3. QED
      BY <1>b, <1>c, <2>0, <3>1, <3>2
  <2>2. CASE ~ HoldsByAppClock(j, a)
    <3>1. MovesTo(j, a, "failing") /\ UNCHANGED <<status, key, attempts>>
      BY <1>7, <2>2 DEF RetryJob, Goto, MovesTo
    <3>2. QED
      BY <1>a, <1>c, <2>0, <3>1
  <2>3. QED
    BY <2>1, <2>2
<1>8. CASE FailJob(j, a)
  <2>0. MovesTo(j, a, "reporting") /\ pc[j][a] = "failing" /\ rowLock[j] = 0 /\ UNCHANGED <<rowLock, dataVars>>
    BY <1>8 DEF FailJob, Goto, MovesTo
  <2>1. CASE HoldsByAppClock(j, a)
    <3>1. EndRow(j, "FAILED")
      BY <1>8, <2>1 DEF FailJob
    <3>2. status[j] = "RUNNING" /\ Claims(j, a)
      BY <2>1 DEF HoldsByAppClock, Claims, LockedByRunner
    <3>3. QED
      BY <1>b, <1>c, <2>0, <3>1, <3>2
  <2>2. CASE ~ HoldsByAppClock(j, a)
    <3>1. UNCHANGED <<status, key, attempts>>
      BY <1>8, <2>2 DEF FailJob
    <3>2. QED
      BY <1>a, <1>c, <2>0, <3>1
  <2>3. QED
    BY <2>1, <2>2
<1>9. QED
  BY <1>1, <1>2, <1>3, <1>4, <1>5, <1>6, <1>7, <1>8
  DEF RunStep

-----------------------------------------------------------------------------
(* The inductive invariant.                                                *)

\* Initially no row exists, nothing is locked and no run has started.
LEMMA InitIInv == Init => IInv
<1> SUFFICES ASSUME Init PROVE IInv
  OBVIOUS
<1>1. TypeOK
  BY InitTypeOK
<1>2. LockInv /\ RowInv /\ RunInv /\ DataInv
  BY DEF Init, LockInv, RowInv, RunInv, DataInv, RetryWithinBudget, Active
<1>3. QED
  BY <1>1, <1>2 DEF IInv

\* Where every run is after one of them has moved.
LEMMA PcAfter ==
  ASSUME TypeOK, NEW j \in Jobs, NEW a \in Attempts, NEW label, pc' = [pc EXCEPT ![j][a] = label]
  PROVE  \A i \in Jobs, b \in Attempts : pc'[i][b] = IF i = j /\ b = a THEN label ELSE pc[i][b]
  BY DEF TypeOK, RunTypes

\* A row stays locked by the one run that is writing under its last claim.
LEMMA NextLockInv == IInv /\ [Next]_vars => LockInv'
<1> SUFFICES ASSUME IInv, [Next]_vars PROVE LockInv'
  OBVIOUS
<1> USE DEF IInv, LockInv, rowVars, dataVars, runVars
<1>0. /\ TypeOK
      /\ pc \in [Jobs -> [Attempts -> PCs]]
      /\ rowLock \in [Jobs -> 0..MaxClaims] /\ attempts \in [Jobs -> 0..MaxClaims]
      /\ status \in [Jobs -> Statuses]
      /\ \A j \in Jobs : rowLock[j] # 0 => rowLock[j] \in Attempts
      /\ 0 \notin Attempts
  BY DEF TypeOK, RowTypes, RunTypes, Attempts
<1>1. ASSUME NEW c \in Callers, NEW k \in Keys, EnqueueInsert(c, k) PROVE LockInv'
  BY <1>0, <1>1 DEF EnqueueInsert, NextRow
<1>2. ASSUME NEW c \in Callers,
             \/ \E k \in Keys : EnqueueConflict(c, k)
             \/ EnqueueLookup(c)
             \/ EnqueueGiveUp(c)
      PROVE LockInv'
  BY <1>2 DEF EnqueueConflict, EnqueueLookup, EnqueueGiveUp
<1>3. ASSUME NEW w \in Workers, NEW j \in Jobs, ClaimNextJob(w, j) PROVE LockInv'
  <2>1. attempts[j] + 1 \in Attempts /\ rowLock[j] = 0
    BY <1>0, <1>3 DEF ClaimNextJob, Claimable, Attempts
  <2>2. QED
    BY <1>0, <1>3, <2>1 DEF ClaimNextJob
<1>4. ASSUME NEW w \in Workers, Crash(w) PROVE LockInv'
  BY <1>0, <1>4 DEF Crash
<1>5. ASSUME NEW w \in Workers, Stop(w) \/ Exit(w) PROVE LockInv'
  BY <1>5 DEF Stop, Exit
<1>6. ASSUME NEW j \in Jobs, NEW a \in Attempts, RunStep(j, a) PROVE LockInv'
  <2>1. CASE QuietStep(j, a)
    <3>1. CASE pc' = pc
      BY <2>1, <3>1 DEF QuietStep
    <3>2. CASE pc' # pc
      <4>1. PICK label \in PCs : MovesTo(j, a, label)
        BY <2>1, <3>2 DEF QuietStep
      <4>2. \A i \in Jobs, b \in Attempts : pc'[i][b] = IF i = j /\ b = a THEN label ELSE pc[i][b]
        BY <1>0, <4>1, PcAfter DEF MovesTo
      <4>3. QED
        BY <1>0, <2>1, <4>1, <4>2 DEF QuietStep, MovesTo
    <3>3. QED
      BY <3>1, <3>2
  <2>2. CASE EndingStep(j, a)
    <3>1. PICK label \in PCs, s \in Ended \cup {"QUEUED"} :
            /\ MovesTo(j, a, label)
            /\ rowLock[j] = 0
            /\ status' = [status EXCEPT ![j] = s]
            /\ UNCHANGED <<key, attempts, rowLock>>
      BY <2>2 DEF EndingStep
    <3>2. \A i \in Jobs, b \in Attempts : pc'[i][b] = IF i = j /\ b = a THEN label ELSE pc[i][b]
      BY <1>0, <3>1, PcAfter DEF MovesTo
    <3>3. QED
      BY <1>0, <3>1, <3>2 DEF MovesTo
  <2>3. CASE FenceWrite(j, a)
    <3>1. /\ rowLock[j] = 0 /\ rowLock' = [rowLock EXCEPT ![j] = a]
          /\ status[j] = "RUNNING" /\ attempts[j] = a
          /\ pc' = [pc EXCEPT ![j][a] = "writing"]
          /\ UNCHANGED <<status, attempts>>
      BY <2>3 DEF FenceWrite, Goto, HoldsByDbClock, Claims, LockedByRunner
    <3>2. \A i \in Jobs, b \in Attempts : pc'[i][b] = IF i = j /\ b = a THEN "writing" ELSE pc[i][b]
      BY <1>0, <3>1, PcAfter
    <3>3. QED
      BY <1>0, <3>1, <3>2
  <2>4. CASE CommitWrite(j, a) \/ AbortWrite(j, a)
    <3>1. /\ pc[j][a] = "writing" /\ rowLock' = [rowLock EXCEPT ![j] = 0]
          /\ pc' = [pc EXCEPT ![j][a] = "handling"]
          /\ UNCHANGED <<status, attempts>>
      BY <2>4 DEF CommitWrite, AbortWrite, Goto, At
    <3>2. \A i \in Jobs, b \in Attempts : pc'[i][b] = IF i = j /\ b = a THEN "handling" ELSE pc[i][b]
      BY <1>0, <3>1, PcAfter
    <3>3. QED
      BY <1>0, <3>1, <3>2
  <2>5. QED
    BY <1>0, <1>6, <2>1, <2>2, <2>3, <2>4, RunStepShape
<1>7. ASSUME NEW acct \in Accounts, DeleteAccount(acct) PROVE LockInv'
  BY <1>0, <1>7 DEF DeleteAccount
<1>8. CASE Tick \/ UNCHANGED vars
  BY <1>8 DEF Tick, vars
<1>9. QED
  BY <1>1, <1>2, <1>3, <1>4, <1>5, <1>6, <1>7, <1>8 DEF Next, Enqueue

\* The active row of a key stays the newest row of that key.
LEMMA NextRowInv == IInv /\ [Next]_vars => RowInv'
<1> SUFFICES ASSUME IInv, [Next]_vars PROVE RowInv'
  OBVIOUS
<1> USE DEF IInv, RowInv, rowVars, dataVars, runVars
<1>0. /\ TypeOK
      /\ status \in [Jobs -> Statuses] /\ key \in [Jobs -> Keys \cup {NoKey}]
      /\ attempts \in [Jobs -> 0..MaxClaims]
      /\ Jobs \subseteq Int
  BY DEF TypeOK, RowTypes, Jobs
<1>1. ASSUME NEW c \in Callers, NEW k \in Keys, EnqueueInsert(c, k) PROVE RowInv'
  <2>1. PICK n \in NextRow : status' = [status EXCEPT ![n] = "QUEUED"] /\ key' = [key EXCEPT ![n] = k]
    BY <1>1 DEF EnqueueInsert
  <2>2. n \in Jobs /\ status[n] = "none" /\ \A i \in Jobs : i < n => status[i] # "none"
    BY DEF NextRow
  <2>3. \A i \in Jobs : status[i] # "none" => i < n
    BY <1>0, <2>2
  <2>4. \A i \in Jobs : key[i] = k => status[i] \notin Active
    BY <1>1 DEF EnqueueInsert, ActiveFor
  <2>5. UNCHANGED attempts
    BY <1>1 DEF EnqueueInsert
  <2>6. ASSUME NEW i \in Jobs, NEW j \in Jobs, status'[j] \in Active, status'[i] # "none", key'[i] = key'[j]
        PROVE  i <= j
    <3>1. CASE j = n
      BY <1>0, <2>1, <2>2, <2>3, <2>6, <3>1
    <3>2. CASE j # n /\ i = n
      BY <1>0, <2>1, <2>2, <2>4, <2>6, <3>2
    <3>3. CASE j # n /\ i # n
      BY <1>0, <2>1, <2>2, <2>6, <3>3
    <3>4. QED
      BY <3>1, <3>2, <3>3
  <2>7. QED
    BY <1>0, <2>1, <2>2, <2>3, <2>5, <2>6
<1>2. ASSUME NEW c \in Callers,
             \/ \E k \in Keys : EnqueueConflict(c, k)
             \/ EnqueueLookup(c)
             \/ EnqueueGiveUp(c)
      PROVE RowInv'
  BY <1>2 DEF EnqueueConflict, EnqueueLookup, EnqueueGiveUp
<1>3. ASSUME NEW w \in Workers, NEW j \in Jobs, ClaimNextJob(w, j) PROVE RowInv'
  <2>1. status[j] \in Active /\ status[j] # "none"
    BY <1>3 DEF ClaimNextJob, Claimable, Active
  <2>2. QED
    BY <1>0, <1>3, <2>1 DEF ClaimNextJob, Active
<1>4. ASSUME NEW w \in Workers, Crash(w) \/ Stop(w) \/ Exit(w) PROVE RowInv'
  BY <1>4 DEF Crash, Stop, Exit
<1>5. ASSUME NEW j \in Jobs, NEW a \in Attempts, RunStep(j, a) PROVE RowInv'
  <2>1. CASE QuietStep(j, a)
    BY <2>1 DEF QuietStep
  <2>2. CASE EndingStep(j, a)
    BY <1>0, <2>2 DEF EndingStep, Active, Ended
  <2>3. CASE FenceWrite(j, a) \/ CommitWrite(j, a) \/ AbortWrite(j, a)
    BY <2>3 DEF FenceWrite, CommitWrite, AbortWrite
  <2>4. QED
    BY <1>0, <1>5, <2>1, <2>2, <2>3, RunStepShape
<1>6. ASSUME NEW acct \in Accounts, DeleteAccount(acct) PROVE RowInv'
  BY <1>0, <1>6 DEF DeleteAccount, Active
<1>7. CASE Tick \/ UNCHANGED vars
  BY <1>7 DEF Tick, vars
<1>8. QED
  BY <1>1, <1>2, <1>3, <1>4, <1>5, <1>6, <1>7 DEF Next, Enqueue

\* Runs stay backed by claims, and nothing returns to the queue beyond its budget.
LEMMA NextRunInv == IInv /\ [Next]_vars => RunInv'
<1> SUFFICES ASSUME IInv, [Next]_vars PROVE RunInv'
  OBVIOUS
<1> USE DEF IInv, RunInv, RetryWithinBudget, rowVars, dataVars, runVars
<1>0. /\ TypeOK
      /\ pc \in [Jobs -> [Attempts -> PCs]]
      /\ status \in [Jobs -> Statuses] /\ attempts \in [Jobs -> 0..MaxClaims]
      /\ Attempts \subseteq Int
  BY DEF TypeOK, RowTypes, RunTypes, Attempts
<1>1. ASSUME NEW c \in Callers, NEW k \in Keys, EnqueueInsert(c, k) PROVE RunInv'
  <2>1. \A j \in NextRow : j \in Jobs /\ attempts[j] = 0
    BY DEF NextRow, RowInv
  <2>2. 0 < MaxAttempts
    BY DEF ConstantsAssumption
  <2>3. QED
    BY <1>0, <1>1, <2>1, <2>2 DEF EnqueueInsert
<1>2. ASSUME NEW c \in Callers,
             \/ \E k \in Keys : EnqueueConflict(c, k)
             \/ EnqueueLookup(c)
             \/ EnqueueGiveUp(c)
      PROVE RunInv'
  BY <1>2 DEF EnqueueConflict, EnqueueLookup, EnqueueGiveUp
<1>3. ASSUME NEW w \in Workers, NEW j \in Jobs, ClaimNextJob(w, j) PROVE RunInv'
  <2>1. attempts[j] + 1 \in Attempts
    BY <1>0, <1>3 DEF ClaimNextJob, Attempts
  <2>2. /\ attempts' = [attempts EXCEPT ![j] = attempts[j] + 1]
        /\ status' = [status EXCEPT ![j] = "RUNNING"]
        /\ pc' = [pc EXCEPT ![j][attempts[j] + 1] = "started"]
    BY <1>3 DEF ClaimNextJob
  <2>3. QED
    BY <1>0, <2>1, <2>2
<1>4. ASSUME NEW w \in Workers, Crash(w) PROVE RunInv'
  <2>1. \A j \in Jobs, a \in Attempts :
          /\ pc'[j][a] # "none" => pc[j][a] # "none"
          /\ pc'[j][a] = "retrying" => pc[j][a] = "retrying"
    <3>1. \A j \in Jobs, a \in Attempts : runner[j][a] = w => pc[j][a] # "none"
      BY DEF TypeOK, RunnerWhileLive, Live, Renewing
    <3>2. QED
      BY <1>4, <3>1 DEF Crash
  <2>2. QED
    BY <1>4, <2>1 DEF Crash
<1>5. ASSUME NEW w \in Workers, Stop(w) \/ Exit(w) PROVE RunInv'
  BY <1>5 DEF Stop, Exit
<1>6. ASSUME NEW j \in Jobs, NEW a \in Attempts, RunStep(j, a) PROVE RunInv'
  <2>1. CASE QuietStep(j, a)
    BY <1>0, <2>1 DEF QuietStep, MovesTo
  <2>2. CASE EndingStep(j, a)
    BY <1>0, <2>2 DEF EndingStep, MovesTo, Ended
  <2>3. CASE FenceWrite(j, a) \/ CommitWrite(j, a) \/ AbortWrite(j, a)
    <3>1. PICK label \in {"writing", "handling"} :
            /\ pc' = [pc EXCEPT ![j][a] = label] /\ pc[j][a] \in {"writing", "handling"}
            /\ UNCHANGED <<status, attempts>>
      BY <2>3 DEF FenceWrite, CommitWrite, AbortWrite, Goto, At
    <3>2. \A i \in Jobs, b \in Attempts : pc'[i][b] = IF i = j /\ b = a THEN label ELSE pc[i][b]
      BY <1>0, <3>1, PcAfter
    <3>3. QED
      BY <1>0, <3>1, <3>2
  <2>4. QED
    BY <1>0, <1>6, <2>1, <2>2, <2>3, RunStepShape
<1>7. ASSUME NEW acct \in Accounts, DeleteAccount(acct) PROVE RunInv'
  BY <1>0, <1>7 DEF DeleteAccount
<1>8. CASE Tick \/ UNCHANGED vars
  BY <1>8 DEF Tick, vars
<1>9. QED
  BY <1>1, <1>2, <1>3, <1>4, <1>5, <1>6, <1>7, <1>8 DEF Next, Enqueue

\* The data of a key stays the work of a claim one of its rows has had.
LEMMA NextDataInv == IInv /\ [Next]_vars => DataInv'
<1> SUFFICES ASSUME IInv, [Next]_vars PROVE DataInv'
  OBVIOUS
<1> USE DEF IInv, DataInv, rowVars, dataVars, runVars
<1>0. /\ TypeOK
      /\ status \in [Jobs -> Statuses] /\ key \in [Jobs -> Keys \cup {NoKey}]
      /\ attempts \in [Jobs -> 0..MaxClaims]
      /\ dataJob \in [Keys -> 0..MaxJobs] /\ dataAttempt \in [Keys -> 0..MaxClaims]
  BY DEF TypeOK, RowTypes, OtherTypes
<1>a. \A k \in Keys : dataJob[k] # 0 => dataJob[k] \in Jobs
  BY <1>0 DEF Jobs
<1>1. ASSUME NEW c \in Callers, NEW k \in Keys, EnqueueInsert(c, k) PROVE DataInv'
  BY <1>0, <1>a, <1>1 DEF EnqueueInsert, NextRow
<1>2. ASSUME NEW c \in Callers,
             \/ \E k \in Keys : EnqueueConflict(c, k)
             \/ EnqueueLookup(c)
             \/ EnqueueGiveUp(c)
      PROVE DataInv'
  BY <1>2 DEF EnqueueConflict, EnqueueLookup, EnqueueGiveUp
<1>3. ASSUME NEW w \in Workers, NEW j \in Jobs, ClaimNextJob(w, j) PROVE DataInv'
  BY <1>0, <1>a, <1>3 DEF ClaimNextJob
<1>4. ASSUME NEW w \in Workers, Crash(w) \/ Stop(w) \/ Exit(w) PROVE DataInv'
  BY <1>4 DEF Crash, Stop, Exit
<1>5. ASSUME NEW j \in Jobs, NEW a \in Attempts, RunStep(j, a) PROVE DataInv'
  <2>1. CASE QuietStep(j, a)
    BY <2>1 DEF QuietStep
  <2>2. CASE EndingStep(j, a)
    <3>1. PICK s \in Ended \cup {"QUEUED"} :
            status' = [status EXCEPT ![j] = s] /\ UNCHANGED <<key, attempts, dataVars>>
      BY <2>2 DEF EndingStep
    <3>2. s # "none"
      BY DEF Ended
    <3>3. QED
      BY <1>0, <1>a, <3>1, <3>2
  <2>3. CASE FenceWrite(j, a) \/ AbortWrite(j, a)
    BY <2>3 DEF FenceWrite, AbortWrite
  <2>4. CASE CommitWrite(j, a)
    <3>1. rowLock[j] = a /\ a # 0
      BY <2>4 DEF CommitWrite, At, LockInv, Attempts
    <3>2. status[j] = "RUNNING" /\ attempts[j] = a
      BY <3>1 DEF LockInv
    <3>3. key[j] \in Keys
      BY <3>2 DEF RowInv
    <3>4. /\ dataJob' = [dataJob EXCEPT ![key[j]] = j]
          /\ dataAttempt' = [dataAttempt EXCEPT ![key[j]] = a]
          /\ UNCHANGED <<status, key, attempts>>
      BY <2>4 DEF CommitWrite
    <3>5. QED
      BY <1>0, <1>a, <3>2, <3>3, <3>4
  <2>5. QED
    BY <1>0, <1>5, <2>1, <2>2, <2>3, <2>4, RunStepShape
<1>6. ASSUME NEW acct \in Accounts, DeleteAccount(acct) PROVE DataInv'
  BY <1>0, <1>a, <1>6 DEF DeleteAccount
<1>7. CASE Tick \/ UNCHANGED vars
  BY <1>7 DEF Tick, vars
<1>8. QED
  BY <1>1, <1>2, <1>3, <1>4, <1>5, <1>6, <1>7 DEF Next, Enqueue

\* The invariant the results below rest on.
THEOREM Inductive == Spec => []IInv
<1>1. IInv /\ [Next]_vars => IInv'
  <2>1. IInv => TypeOK
    BY DEF IInv
  <2>2. QED
    BY <2>1, NextTypeOK, NextLockInv, NextRowInv, NextRunInv, NextDataInv DEF IInv
<1>2. QED
  BY InitIInv, <1>1, PTL DEF Spec

-----------------------------------------------------------------------------
(* What the queue promises.                                                *)

\* While a data transaction is open, its row is RUNNING under the claim that opened it.
THEOREM LockedRows == Spec => []LockedRowIsClaimed
<1>1. IInv => LockedRowIsClaimed
  BY DEF IInv, LockInv, LockedRowIsClaimed
<1>2. QED
  BY Inductive, <1>1, PTL

\* Only a job with budget left is ever waiting for another run.
THEOREM Budget == Spec => []RetryWithinBudget
<1>1. IInv => RetryWithinBudget
  BY DEF IInv, RunInv
<1>2. QED
  BY Inductive, <1>1, PTL

\* A run that may write holds the last claim of its row, and the row is active.
LEMMA WriterHoldsRow ==
  ASSUME IInv, NEW j \in Jobs, NEW a \in Attempts, MayWrite(j, a)
  PROVE  status[j] = "RUNNING" /\ attempts[j] = a
<1>1. CASE At(j, a, "writing")
  <2>1. rowLock[j] = a /\ a # 0
    BY <1>1 DEF At, IInv, LockInv, Attempts
  <2>2. QED
    BY <2>1 DEF IInv, LockInv
<1>2. CASE HoldsByDbClock(j, a)
  BY <1>2 DEF HoldsByDbClock, Claims, LockedByRunner
<1>3. QED
  BY <1>1, <1>2 DEF MayWrite

\* For every number of rows, claims and workers, whatever their clocks, at most one run
\* of an account and job type can still write.
THEOREM OneWriter == Spec => []OneWriterPerKey
<1>1. IInv => OneWriterPerKey
  <2>1. SUFFICES ASSUME IInv, NEW j1 \in Jobs, NEW j2 \in Jobs, NEW a1 \in Attempts, NEW a2 \in Attempts,
                        key[j1] = key[j2], MayWrite(j1, a1), MayWrite(j2, a2)
                 PROVE  j1 = j2 /\ a1 = a2
    BY DEF OneWriterPerKey
  <2>2. status[j1] = "RUNNING" /\ attempts[j1] = a1 /\ status[j2] = "RUNNING" /\ attempts[j2] = a2
    BY <2>1, WriterHoldsRow
  <2>3. j1 <= j2 /\ j2 <= j1
    BY <2>1, <2>2 DEF IInv, RowInv, Active
  <2>4. QED
    BY <2>1, <2>2, <2>3 DEF Jobs
<1>2. QED
  BY Inductive, <1>1, PTL

\* No commit replaces the data of a newer job or of a newer claim of the same job.
THEOREM NoStale == Spec => NoStaleOverwrite
<1>1. IInv /\ [Next]_vars => [\A k \in Keys : DataNoOlder(k)]_vars
  <2> SUFFICES ASSUME IInv, [Next]_vars, NEW k \in Keys PROVE DataNoOlder(k)
    OBVIOUS
  <2>0. /\ TypeOK
        /\ dataJob \in [Keys -> 0..MaxJobs] /\ dataAttempt \in [Keys -> 0..MaxClaims]
    BY DEF IInv, TypeOK, OtherTypes
  <2>a. ASSUME UNCHANGED dataVars PROVE DataNoOlder(k)
    BY <2>0, <2>a DEF dataVars, DataNoOlder
  <2>b. ASSUME NEW j \in Jobs, NEW a \in Attempts, CommitWrite(j, a) PROVE DataNoOlder(k)
    <3>1. At(j, a, "writing") /\ MayWrite(j, a)
      BY <2>b DEF CommitWrite, MayWrite
    <3>2. status[j] = "RUNNING" /\ attempts[j] = a
      BY <3>1, WriterHoldsRow
    <3>3. key[j] \in Keys
      BY <3>2 DEF IInv, RowInv
    <3>4. /\ dataJob' = [dataJob EXCEPT ![key[j]] = j]
          /\ dataAttempt' = [dataAttempt EXCEPT ![key[j]] = a]
      BY <2>b DEF CommitWrite
    <3>5. CASE k # key[j]
      BY <2>0, <3>4, <3>5 DEF DataNoOlder
    <3>6. CASE k = key[j]
      <4>1. dataJob'[k] = j /\ dataAttempt'[k] = a
        BY <2>0, <3>3, <3>4, <3>6
      <4>2. CASE dataJob[k] = 0
        BY <4>1, <4>2 DEF DataNoOlder, Jobs
      <4>3. CASE dataJob[k] # 0
        <5>1. /\ dataJob[k] \in Jobs /\ status[dataJob[k]] # "none" /\ key[dataJob[k]] = k
              /\ dataAttempt[k] <= attempts[dataJob[k]]
          BY <2>0, <4>3 DEF IInv, DataInv, Jobs
        <5>2. dataJob[k] <= j
          BY <3>2, <3>6, <5>1 DEF IInv, RowInv, Active
        <5>3. CASE dataJob[k] = j
          BY <3>2, <4>1, <5>1, <5>3 DEF DataNoOlder
        <5>4. CASE dataJob[k] # j
          BY <4>1, <5>1, <5>2, <5>4 DEF DataNoOlder, Jobs
        <5>5. QED
          BY <5>3, <5>4
      <4>4. QED
        BY <4>2, <4>3
    <3>7. QED
      BY <3>5, <3>6
  <2>1. ASSUME NEW j \in Jobs, NEW a \in Attempts, RunStep(j, a) PROVE DataNoOlder(k)
    <3>1. CASE QuietStep(j, a) \/ EndingStep(j, a)
      BY <2>a, <3>1 DEF QuietStep, EndingStep
    <3>2. CASE FenceWrite(j, a) \/ AbortWrite(j, a)
      BY <2>a, <3>2 DEF FenceWrite, AbortWrite
    <3>3. QED
      BY <2>0, <2>1, <2>b, <3>1, <3>2, RunStepShape
  <2>2. CASE Enqueue
    BY <2>2, <2>a DEF Enqueue, EnqueueInsert, EnqueueConflict, EnqueueLookup, EnqueueGiveUp
  <2>3. ASSUME NEW w \in Workers, (\E j \in Jobs : ClaimNextJob(w, j)) \/ Crash(w) \/ Stop(w) \/ Exit(w)
        PROVE  DataNoOlder(k)
    BY <2>3, <2>a DEF ClaimNextJob, Crash, Stop, Exit
  <2>4. ASSUME NEW acct \in Accounts, DeleteAccount(acct) PROVE DataNoOlder(k)
    BY <2>4, <2>a DEF DeleteAccount
  <2>5. CASE Tick \/ UNCHANGED vars
    BY <2>5, <2>a DEF Tick, vars
  <2>6. QED
    BY <2>1, <2>2, <2>3, <2>4, <2>5 DEF Next
<1>2. QED
  BY Inductive, <1>1, PTL DEF Spec, NoStaleOverwrite

\* Only the run that holds the claim of a job with a handler completes, fails or requeues
\* its row.  (Without a handler runJob() leaves the attempt out of its WHERE.)
THEOREM HolderEnds == Spec => OnlyHolderEndsClaim
<1> DEFINE Kept(j) == /\ key[j] \in Accounts \X HandledTypes
                      /\ status[j] = "RUNNING"
                      /\ status'[j] \in Ended \cup {"QUEUED"}
                      => pc'[j][attempts[j]] # pc[j][attempts[j]]
<1>1. IInv /\ [Next]_vars => [\A j \in Jobs : Kept(j)]_vars
  <2> SUFFICES ASSUME IInv, [Next]_vars, NEW i \in Jobs PROVE Kept(i)
    OBVIOUS
  <2> USE DEF rowVars
  <2>0. /\ TypeOK
        /\ status \in [Jobs -> Statuses] /\ pc \in [Jobs -> [Attempts -> PCs]]
        /\ "RUNNING" \notin Ended \cup {"QUEUED"} /\ "deleted" \notin Ended \cup {"QUEUED"}
    BY DEF IInv, TypeOK, RowTypes, RunTypes, Ended
  <2>a. ASSUME UNCHANGED status PROVE Kept(i)
    BY <2>0, <2>a
  <2>1. ASSUME NEW j \in Jobs, NEW a \in Attempts, RunStep(j, a) PROVE Kept(i)
    <3>1. CASE EndingStep(j, a) /\ pc[j][a] # "started"
      <4>1. attempts[j] = a /\ pc'[j][a] # pc[j][a]
        BY <3>1 DEF EndingStep, Claims
      <4>2. i # j => status'[i] = status[i]
        BY <2>0, <3>1 DEF EndingStep
      <4>3. QED
        BY <2>0, <4>1, <4>2
    <3>2. CASE pc[j][a] = "started"
      <4>1. ~ UNCHANGED status => RefuseRun(j, a)
        BY <2>1, <3>2 DEF RunStep, At, StartRun, Renew, RenewError, FenceWrite, FenceLost, CommitWrite,
           AbortWrite, HandlerReturns, HandlerThrows, CompleteJob, CompleteError, RetryJob, FailJob,
           ReportFailure, Renewing
      <4>2. RefuseRun(j, a) => key[j] \notin Accounts \X HandledTypes
        BY DEF RefuseRun
      <4>3. RefuseRun(j, a) /\ i # j => status'[i] = status[i]
        BY <2>0 DEF RefuseRun, EndRow
      <4>4. QED
        BY <2>0, <2>a, <4>1, <4>2, <4>3
    <3>3. CASE QuietStep(j, a)
      BY <2>a, <3>3 DEF QuietStep
    <3>4. CASE FenceWrite(j, a) \/ CommitWrite(j, a) \/ AbortWrite(j, a)
      BY <2>a, <3>4 DEF FenceWrite, CommitWrite, AbortWrite
    <3>5. QED
      BY <2>0, <2>1, <3>1, <3>2, <3>3, <3>4, RunStepShape
  <2>2. ASSUME NEW c \in Callers, NEW k \in Keys, EnqueueInsert(c, k) PROVE Kept(i)
    <3>1. PICK n \in NextRow : status' = [status EXCEPT ![n] = "QUEUED"]
      BY <2>2 DEF EnqueueInsert
    <3>2. QED
      BY <2>0, <3>1 DEF NextRow
  <2>3. ASSUME NEW c \in Callers,
               \/ \E k \in Keys : EnqueueConflict(c, k)
               \/ EnqueueLookup(c)
               \/ EnqueueGiveUp(c)
        PROVE Kept(i)
    BY <2>3, <2>a DEF EnqueueConflict, EnqueueLookup, EnqueueGiveUp
  <2>4. ASSUME NEW w \in Workers, NEW j \in Jobs, ClaimNextJob(w, j) PROVE Kept(i)
    BY <2>0, <2>4 DEF ClaimNextJob
  <2>5. ASSUME NEW w \in Workers, Crash(w) \/ Stop(w) \/ Exit(w) PROVE Kept(i)
    BY <2>5, <2>a DEF Crash, Stop, Exit
  <2>6. ASSUME NEW acct \in Accounts, DeleteAccount(acct) PROVE Kept(i)
    BY <2>0, <2>6 DEF DeleteAccount
  <2>7. CASE Tick \/ UNCHANGED vars
    BY <2>7, <2>a DEF Tick, vars
  <2>8. QED
    BY <2>1, <2>2, <2>3, <2>4, <2>5, <2>6, <2>7 DEF Next, Enqueue
<1>2. QED
  BY Inductive, <1>1, PTL DEF Spec, OnlyHolderEndsClaim

-----------------------------------------------------------------------------
(* The queue implements the abstract lease.                                *)

\* A step that leaves the rows' status, key, claim number and data alone is a stutter.
LEMMA LeaseStutter ==
  ASSUME UNCHANGED <<status, key, attempts, dataJob, dataAttempt>>
  PROVE  UNCHANGED Lease!leaseVars
  BY DEF Lease!leaseVars

\* Every step of the queue is a step of the abstract lease or a stutter.
LEMMA LeaseStep == IInv /\ [Next]_vars => [Lease!Next]_(Lease!leaseVars)
<1> SUFFICES ASSUME IInv, [Next]_vars PROVE [Lease!Next]_(Lease!leaseVars)
  OBVIOUS
<1> USE DEF rowVars, dataVars, Lease!Jobs, Lease!Keys, Jobs, Keys, Lease!Open
<1>0. /\ TypeOK
      /\ status \in [Jobs -> Statuses] /\ key \in [Jobs -> Keys \cup {NoKey}]
      /\ attempts \in [Jobs -> 0..MaxClaims]
  BY DEF IInv, TypeOK, RowTypes
<1>a. /\ \A s : AbstractState(s) = "absent" <=> s = "none"
      /\ \A s : AbstractState(s) = "waiting" <=> s = "QUEUED"
      /\ \A s : AbstractState(s) = "held" <=> s = "RUNNING"
      /\ \A s : AbstractState(s) \in {"absent", "waiting", "held", "over"}
  BY DEF AbstractState
<1>1. ASSUME NEW c \in Callers, NEW k \in Keys, EnqueueInsert(c, k) PROVE Lease!Next
  <2>1. PICK n \in NextRow : status' = [status EXCEPT ![n] = "QUEUED"] /\ key' = [key EXCEPT ![n] = k]
    BY <1>1 DEF EnqueueInsert
  <2>2. n \in Jobs /\ status[n] = "none" /\ \A i \in Jobs : i < n => status[i] # "none"
    BY DEF NextRow
  <2>3. \A i \in Jobs : key[i] = k => status[i] \notin {"QUEUED", "RUNNING"}
    BY <1>1 DEF EnqueueInsert, ActiveFor, Active
  <2>4. Lease!Submit(n, k)
    BY <1>0, <1>1, <1>a, <2>1, <2>2, <2>3 DEF EnqueueInsert, Lease!Submit, Lease!Open
  <2>5. QED
    BY <2>2, <2>4 DEF Lease!Next
<1>2. ASSUME NEW w \in Workers, NEW j \in Jobs, ClaimNextJob(w, j) PROVE Lease!Next
  <2>1. status[j] \in {"QUEUED", "RUNNING"} /\ attempts[j] < MaxClaims
    BY <1>2 DEF ClaimNextJob, Claimable
  <2>2. Lease!Grant(j)
    BY <1>0, <1>2, <1>a, <2>1 DEF ClaimNextJob, Lease!Grant
  <2>3. QED
    BY <2>2 DEF Lease!Next
<1>3. ASSUME NEW j \in Jobs, NEW a \in Attempts, EndingStep(j, a) PROVE Lease!Next
  <2>1. PICK s \in Ended \cup {"QUEUED"} :
          status[j] = "RUNNING" /\ status' = [status EXCEPT ![j] = s] /\ UNCHANGED <<key, attempts, dataVars>>
    BY <1>3 DEF EndingStep
  <2>2. CASE s = "QUEUED"
    <3>1. Lease!GiveBack(j)
      BY <1>0, <1>a, <2>1, <2>2 DEF Lease!GiveBack
    <3>2. QED
      BY <3>1 DEF Lease!Next
  <2>3. CASE s \in Ended
    <3>1. AbstractState(s) = "over"
      BY <2>3 DEF AbstractState, Ended
    <3>2. Lease!End(j)
      BY <1>0, <1>a, <2>1, <3>1 DEF Lease!End
    <3>3. QED
      BY <3>2 DEF Lease!Next
  <2>4. QED
    BY <2>2, <2>3
<1>4. ASSUME NEW j \in Jobs, NEW a \in Attempts, CommitWrite(j, a) PROVE Lease!Next
  <2>1. MayWrite(j, a)
    BY <1>4 DEF CommitWrite, MayWrite
  <2>2. status[j] = "RUNNING" /\ attempts[j] = a
    BY <2>1, WriterHoldsRow
  <2>3. Lease!Write(j)
    BY <1>0, <1>4, <1>a, <2>2 DEF CommitWrite, Lease!Write
  <2>4. QED
    BY <2>3 DEF Lease!Next
<1>5. ASSUME NEW j \in Jobs, NEW a \in Attempts, RunStep(j, a) PROVE [Lease!Next]_(Lease!leaseVars)
  <2>1. CASE QuietStep(j, a)
    BY <2>1, LeaseStutter DEF QuietStep
  <2>2. CASE FenceWrite(j, a) \/ AbortWrite(j, a)
    BY <2>2, LeaseStutter DEF FenceWrite, AbortWrite
  <2>3. QED
    BY <1>0, <1>3, <1>4, <1>5, <2>1, <2>2, RunStepShape
<1>6. ASSUME NEW acct \in Accounts, DeleteAccount(acct) PROVE Lease!Next
  <2>1. AbstractState("deleted") = "over"
    BY DEF AbstractState
  <2>2. Lease!Withdraw(acct)
    BY <1>0, <1>6, <1>a, <2>1 DEF DeleteAccount, Lease!Withdraw
  <2>3. QED
    BY <2>2 DEF Lease!Next
<1>7. ASSUME NEW c \in Callers,
             \/ \E k \in Keys : EnqueueConflict(c, k)
             \/ EnqueueLookup(c)
             \/ EnqueueGiveUp(c)
      PROVE UNCHANGED Lease!leaseVars
  BY <1>7, LeaseStutter DEF EnqueueConflict, EnqueueLookup, EnqueueGiveUp
<1>8. ASSUME NEW w \in Workers, Crash(w) \/ Stop(w) \/ Exit(w) PROVE UNCHANGED Lease!leaseVars
  BY <1>8, LeaseStutter DEF Crash, Stop, Exit
<1>9. CASE Tick \/ UNCHANGED vars
  BY <1>9, LeaseStutter DEF Tick, vars
<1>10. QED
  BY <1>1, <1>2, <1>5, <1>6, <1>7, <1>8, <1>9 DEF Next, Enqueue

\* Workers with any clocks, crashes and lost replies implement the abstract lease.
THEOREM Refinement == Spec => ImplementsLease
<1>1. Init => Lease!Init
  BY DEF Init, Lease!Init, Lease!Jobs, Lease!Keys, Jobs, Keys, NoKey, Lease!NoKey, AbstractState
<1>2. QED
  BY Inductive, <1>1, LeaseStep, PTL DEF Spec, ImplementsLease, Lease!Spec
=============================================================================
