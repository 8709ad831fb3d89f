------------------------ MODULE OrderLifecycleProofs ------------------------
EXTENDS OrderLifecycle, TLAPS

LEMMA NoJobIsJob == NoJob \in JobState
  BY DEF NoJob, JobState, JobPcs

LEMMA IdleIsRequest == IdleRequest \in RequestState
  BY DEF IdleRequest, RequestState, RequestPcs

LEMMA RequestMoves ==
  ASSUME NEW q \in RequestState, q.pc # "idle", NEW pc \in RequestPcs,
         NEW read \in OrderStatus
  PROVE  /\ [q EXCEPT !.pc = pc] \in RequestState
         /\ [q EXCEPT !.pc = pc, !.read = read] \in RequestState
         /\ [q EXCEPT !.pc = pc, !.row = None] \in RequestState
  BY DEF RequestState

LEMMA JobMoves ==
  ASSUME NEW v \in JobState, v.kind \in JobKinds, v.order \in Orders,
         NEW pc \in JobPcs, NEW todo \in SUBSET Lines, NEW n \in Nat
  PROVE  /\ [v EXCEPT !.pc = pc] \in JobState
         /\ [v EXCEPT !.todo = todo] \in JobState
         /\ [v EXCEPT !.pc = pc, !.todo = todo] \in JobState
         /\ [v EXCEPT !.pc = pc, !.attempts = n, !.todo = todo] \in JobState
  BY DEF JobState

\* What Enqueued puts in the job table: a waiting job in the row's place.
LEMMA EnqueuedIsJob ==
  ASSUME NEW kind \in JobKinds, NEW o \in Orders
  PROVE  [NoJob EXCEPT !.pc = "waiting", !.kind = kind, !.order = o] \in JobState
  BY DEF NoJob, JobState, JobPcs

LEMMA EndedIsJob ==
  ASSUME NEW pc \in {"done", "failed"}
  PROVE  [NoJob EXCEPT !.pc = pc] \in JobState
  BY DEF NoJob, JobState, JobPcs

\* A job that may still run has the kind and the order it was created with.
LEMMA RunningJob ==
  ASSUME NEW v \in JobState, v.pc \notin {"none", "reserved", "done", "failed"}
  PROVE  v.kind \in JobKinds /\ v.order \in Orders
  BY DEF JobState

\* An attempt that failed leaves a job that waits, compensates or has failed, and leaves the
\* other jobs alone.
LEMMA RetriedJob ==
  ASSUME TypeOK, NEW j \in Jobs, job[j].pc \notin {"none", "reserved", "done", "failed"}
  PROVE  /\ Retried(j) \in [Jobs -> JobState]
         /\ Retried(j)[j].pc \in {"waiting", "compensate", "failed"}
         /\ \A k \in Jobs \ {j} : Retried(j)[k] = job[k]
<1> DEFINE n == job[j].attempts + 1
<1>1. job \in [Jobs -> JobState] /\ job[j] \in JobState /\ n \in Nat
  BY DEF TypeOK, JobState
<1>2. /\ [job[j] EXCEPT !.pc = "waiting", !.attempts = n, !.todo = {}] \in JobState
      /\ [job[j] EXCEPT !.pc = "compensate", !.attempts = n, !.todo = {}] \in JobState
  BY <1>1, RunningJob, JobMoves DEF JobPcs
<1>3. [NoJob EXCEPT !.pc = "failed"] \in JobState
  BY EndedIsJob
<1> HIDE DEF n
<1>4. Retried(j) \in [Jobs -> JobState]
  BY <1>1, <1>2, <1>3 DEF Retried, Ended, n
<1>5. Retried(j)[j].pc \in {"waiting", "compensate", "failed"}
  BY <1>1 DEF Retried, Ended, NoJob, JobState
<1>6. \A k \in Jobs \ {j} : Retried(j)[k] = job[k]
  BY <1>1 DEF Retried, Ended
<1>7. QED
  BY <1>4, <1>5, <1>6

LEMMA RunningRequest ==
  ASSUME NEW q \in RequestState, q.pc # "idle"
  PROVE  /\ q.op \in AllOps /\ q.order \in Orders
         /\ q.target \in Saves(q.op)
         /\ q.target \in OrderStatus \cup {None}
         /\ q.row \in Jobs \cup {None}
         /\ q.row # None => Enqueues(q.op) \in JobKinds
  BY DEF RequestState, Enqueues, JobKinds

-----------------------------------------------------------------------------
(* Type correctness *)

LEMMA RequestTypes ==
  ASSUME TypeOK, HandlerWrites, NEW r \in Requests,
         \/ \E op \in ServiceOps, o \in Orders : RequestLock(r, op, o)
         \/ RequestStep(r)
         \/ RequestFail(r)
  PROVE  TypeOK'
<1> USE DEF TypeOK, Owners
<1> DEFINE q == req[r]
<1>0. q \in RequestState
  OBVIOUS
<1>1. ASSUME NEW op \in ServiceOps, NEW o \in Orders, RequestLock(r, op, o)
      PROVE  TypeOK'
  <2>1. PICK row \in RowsFor(op), target \in Saves(op) :
          /\ Reserve(row)
          /\ req' = [req EXCEPT ![r] = [pc |-> "read", op |-> op, order |-> o,
                                        read |-> None, target |-> target, row |-> row]]
    BY <1>1 DEF RequestLock
  <2>2. op \in AllOps /\ target \in OrderStatus \cup {None}
    BY BoundsAssumption DEF Saves, OrderStatus
  <2>3. row \in Jobs \cup {None} /\ (row # None => Enqueues(op) # None /\ job[row].pc = "none")
    BY DEF RowsFor
  <2>4. job' \in [Jobs -> JobState]
    <3>1. CASE row = None
      BY <2>1, <3>1 DEF Reserve
    <3>2. CASE row # None
      <4>1. [job[row] EXCEPT !.pc = "reserved"] \in JobState
        BY <2>3, <3>2 DEF JobState, JobPcs
      <4>2. job' = [job EXCEPT ![row] = [job[row] EXCEPT !.pc = "reserved"]]
        BY <2>1, <3>2 DEF Reserve
      <4>3. QED
        BY <4>1, <4>2, <2>3, <3>2
    <3>3. QED
      BY <3>1, <3>2
  <2>5. [pc |-> "read", op |-> op, order |-> o, read |-> None, target |-> target, row |-> row]
          \in RequestState
    BY <2>2, <2>3 DEF RequestState, RequestPcs
  <2>6. QED
    BY <1>1, <2>1, <2>4, <2>5 DEF RequestLock
<1>2. ASSUME RequestRead(r)
      PROVE  TypeOK'
  <2>1. [q EXCEPT !.pc = "save", !.read = status[q.order]] \in RequestState
    BY <1>0, <1>2, RunningRequest, RequestMoves DEF RequestRead, RequestPcs
  <2>2. QED
    BY <1>2, <2>1 DEF RequestRead
<1>3. ASSUME q.pc # "idle", Unreserve(q.row)
      PROVE  job' \in [Jobs -> JobState]
  BY <1>0, <1>3, NoJobIsJob, RunningRequest DEF Unreserve
<1>4. ASSUME q.pc # "idle"
      PROVE  [q EXCEPT !.pc = "unlock", !.row = None] \in RequestState
  BY <1>0, <1>4, RequestMoves DEF RequestPcs, OrderStatus
<1>5. ASSUME RequestReject(r)
      PROVE  TypeOK'
  BY <1>3, <1>4, <1>5 DEF RequestReject
<1>6. ASSUME RequestSave(r)
      PROVE  TypeOK'
  <2>1. [q EXCEPT !.pc = "commit"] \in RequestState
    BY <1>0, <1>6, RequestMoves DEF RequestSave, RequestPcs, OrderStatus
  <2>2. QED
    BY <1>0, <1>6, <2>1, RunningRequest DEF RequestSave
<1>7. ASSUME RequestCommit(r)
      PROVE  TypeOK'
  <2>1. q.pc # "idle"
    BY <1>7 DEF RequestCommit
  <2>2. job' \in [Jobs -> JobState]
    BY <1>0, <1>7, <2>1, RunningRequest, EnqueuedIsJob DEF RequestCommit, Enqueued
  <2>3. status' \in [Orders -> OrderStatus]
    BY <1>0, <1>7, <2>1, RunningRequest DEF RequestCommit, HandlerWrites
  <2>4. did' \in [Orders -> SUBSET (AllOps \cup JobKinds)]
    BY <1>0, <1>7, <2>1, RunningRequest DEF RequestCommit
  <2>5. QED
    BY <1>0, <1>4, <1>7, <2>1, <2>2, <2>3, <2>4, RunningRequest DEF RequestCommit, Unwrite
<1>8. ASSUME RequestUnlock(r)
      PROVE  TypeOK'
  BY <1>0, <1>8, IdleIsRequest DEF RequestUnlock, Release
<1>9. ASSUME RequestFail(r)
      PROVE  TypeOK'
  BY <1>0, <1>3, <1>4, <1>9 DEF RequestFail, Unwrite
<1>10. QED
  BY <1>1, <1>2, <1>5, <1>6, <1>7, <1>8, <1>9 DEF RequestStep

LEMMA JobTypes ==
  ASSUME TypeOK, NEW j \in Jobs, JobStep(j) \/ JobFail(j)
  PROVE  TypeOK'
<1> USE DEF TypeOK, Owners
<1> DEFINE v == job[j]
<1>0. v \in JobState
  OBVIOUS
<1>1. ASSUME NEW pc \in JobPcs, NEW todo \in SUBSET Lines, NEW n \in Nat,
             v.pc \notin {"none", "reserved", "done", "failed"}
      PROVE  /\ [v EXCEPT !.pc = pc] \in JobState
             /\ [v EXCEPT !.todo = todo] \in JobState
             /\ [v EXCEPT !.pc = pc, !.todo = todo] \in JobState
             /\ [v EXCEPT !.pc = pc, !.attempts = n, !.todo = todo] \in JobState
  BY <1>0, <1>1, RunningJob, JobMoves
<1>2. CASE JobValidate(j)
  <2>1. FirstStep(v.kind) \in JobPcs
    BY <1>0, <1>2, RunningJob DEF JobValidate, FirstStep, JobKinds, JobPcs
  <2>2. [v EXCEPT !.pc = FirstStep(v.kind), !.todo = Lines] \in JobState
    BY <1>1, <1>2, <2>1 DEF JobValidate
  <2>3. QED
    BY <1>2, <2>2 DEF JobValidate
<1>3. CASE JobSkip(j)
  BY <1>3, EndedIsJob DEF JobSkip, Ended
<1>4. ASSUME NEW l \in Lines, JobRelease(j, l)
      PROVE  TypeOK'
  <2>1. [v EXCEPT !.todo = v.todo \ {l}] \in JobState
    BY <1>0, <1>1, <1>4 DEF JobRelease, JobState
  <2>2. restored' \in [Orders -> [Lines -> Nat]]
    BY <1>0, <1>4, RunningJob DEF JobRelease
  <2>3. QED
    BY <1>4, <2>1, <2>2 DEF JobRelease
<1>5. CASE JobReleased(j)
  BY <1>1, <1>5 DEF JobReleased, JobPcs
<1>6. CASE JobGatewayRefund(j)
  <2>1. v.order \in Orders
    BY <1>0, <1>6, RunningJob DEF JobGatewayRefund
  <2>2. [order |-> v.order, key |-> v.order] \in [order : Orders, key : Orders \cup Jobs]
    BY <2>1
  <2>3. [v EXCEPT !.pc = "record"] \in JobState
    BY <1>1, <1>6 DEF JobGatewayRefund, JobPcs
  <2>4. QED
    BY <1>6, <2>2, <2>3 DEF JobGatewayRefund, RefundKey
<1>7. CASE JobRecordRefund(j)
  BY <1>0, <1>1, <1>7, RunningJob DEF JobRecordRefund, JobPcs
<1>8. CASE JobLock(j)
  BY <1>0, <1>1, <1>8, RunningJob DEF JobLock, JobPcs
<1>9. CASE JobWrite(j)
  BY <1>0, <1>1, <1>9, RunningJob DEF JobWrite, JobPcs
<1>10. CASE JobUnlock(j)
  BY <1>0, <1>1, <1>10, RunningJob DEF JobUnlock, Release, JobPcs
<1>11. CASE JobCommit(j)
  <2>1. JobTarget(v.kind) \in OrderStatus /\ v.kind \in JobKinds
    BY <1>0, <1>11, RunningJob DEF JobCommit, JobTarget, JobKinds, OrderStatus
  <2>2. Ended(j, "done") \in [Jobs -> JobState] /\ Retried(j) \in [Jobs -> JobState]
    BY <1>0, <1>11, EndedIsJob, RetriedJob DEF JobCommit, Ended
  <2>3. job' \in [Jobs -> JobState]
    BY <1>11, <2>2 DEF JobCommit
  <2>4. QED
    BY <1>0, <1>11, <2>1, <2>3 DEF JobCommit, Unwrite
<1>12. ASSUME Rollback(j), v.pc \notin {"none", "reserved", "done", "failed"}
       PROVE  TypeOK'
  <2>1. v.attempts + 1 \in Nat
    BY <1>0 DEF JobState
  <2>2. job' \in [Jobs -> JobState]
    BY <1>1, <1>12, <2>1, EndedIsJob DEF Rollback, Retried, Ended, JobPcs
  <2>3. QED
    BY <1>12, <2>2 DEF Rollback, Retried, Unwrite, Release
<1>13. CASE JobFail(j) \/ JobLockTimeout(j) \/ JobDuplicateRefund(j)
  BY <1>12, <1>13 DEF JobFail, InTransaction, JobLockTimeout, JobDuplicateRefund
<1>14. CASE JobCompensate(j)
  BY <1>1, <1>14, EndedIsJob DEF JobCompensate, Ended, JobPcs
<1>15. ASSUME NEW row \in Jobs, JobEnqueueCompensation(j, row)
       PROVE  TypeOK'
  BY <1>0, <1>15, RunningJob, EndedIsJob, EnqueuedIsJob
  DEF JobEnqueueCompensation, Ended, JobKinds
<1>16. CASE JobCompensationLost(j)
  BY <1>16, EndedIsJob DEF JobCompensationLost, Ended
<1>17. QED
  BY <1>2, <1>3, <1>4, <1>5, <1>6, <1>7, <1>8, <1>9, <1>10, <1>11, <1>13, <1>14, <1>15, <1>16
  DEF JobStep

\* What a step of one job leaves alone: the handlers, the other jobs (but for a
\* row that becomes a waiting job) and the row locks of others.  Histories grow.
LEMMA JobFrame ==
  ASSUME TypeOK, NEW j \in Jobs, JobStep(j) \/ JobFail(j)
  PROVE  /\ req' = req /\ removed' = removed
         /\ \A o \in Orders : writer'[o] \in {writer[o], j, None} /\ did[o] \subseteq did'[o]
         /\ \A k \in Jobs \ {j} : job'[k] = job[k] \/ job'[k].pc = "waiting"
<1> USE DEF TypeOK
<1>1. CASE JobValidate(j) \/ JobSkip(j) \/ JobReleased(j)
  BY <1>1 DEF JobValidate, JobSkip, JobReleased, Ended
<1>2. ASSUME NEW l \in Lines, JobRelease(j, l)
      PROVE  /\ req' = req /\ removed' = removed
             /\ writer' = writer /\ did' = did
             /\ \A k \in Jobs \ {j} : job'[k] = job[k]
  BY <1>2 DEF JobRelease
<1>3. CASE JobGatewayRefund(j) \/ JobRecordRefund(j) \/ JobLock(j) \/ JobWrite(j) \/ JobUnlock(j)
  BY <1>3 DEF JobGatewayRefund, JobRecordRefund, JobLock, JobWrite, JobUnlock
<1>4. CASE JobCommit(j)
  <2>1. \A k \in Jobs \ {j} : job'[k] = job[k]
    BY <1>4, RetriedJob DEF JobCommit, Ended
  <2>2. QED
    BY <1>4, <2>1 DEF JobCommit, Unwrite
<1>5. CASE JobFail(j) \/ JobLockTimeout(j) \/ JobDuplicateRefund(j)
  <2>1. Rollback(j)
    BY <1>5 DEF JobFail, JobLockTimeout, JobDuplicateRefund
  <2>2. \A k \in Jobs \ {j} : job'[k] = job[k]
    BY <2>1 DEF Rollback, Retried, Ended
  <2>3. QED
    BY <2>1, <2>2 DEF Rollback, Retried, Unwrite
<1>6. CASE JobCompensate(j) \/ JobCompensationLost(j)
  BY <1>6 DEF JobCompensate, JobCompensationLost, Ended
<1>7. ASSUME NEW row \in Jobs, JobEnqueueCompensation(j, row)
      PROVE  /\ req' = req /\ removed' = removed
             /\ writer' = writer /\ did' = did
             /\ \A k \in Jobs \ {j} : job'[k] = job[k] \/ job'[k].pc = "waiting"
  <2>1. \A kind \in JobKinds, o \in Orders :
          [NoJob EXCEPT !.pc = "waiting", !.kind = kind, !.order = o].pc = "waiting"
    BY DEF NoJob
  <2>2. job[j].order \in Orders
    BY <1>7, RunningJob DEF JobEnqueueCompensation
  <2>3. QED
    BY <1>7, <2>1, <2>2 DEF JobEnqueueCompensation, Ended, JobKinds
<1>8. QED
  BY <1>1, <1>2, <1>3, <1>4, <1>5, <1>6, <1>7 DEF JobStep

LEMMA HandlerWritesStep ==
  ASSUME TypeOK, HandlerWrites, [Next]_vars
  PROVE  HandlerWrites'
<1> USE OwnersAssumption DEF TypeOK, HandlerWrites, Owners
<1>1. ASSUME NEW o \in Orders, LockExpires(o) \/ AdminRemove(o)
      PROVE  HandlerWrites'
  BY <1>1 DEF LockExpires, AdminRemove
<1>2. ASSUME NEW r \in Requests, NEW op \in ServiceOps, NEW o \in Orders, RequestLock(r, op, o)
      PROVE  HandlerWrites'
  BY <1>2 DEF RequestLock
<1>3. ASSUME NEW r \in Requests, RequestRead(r) \/ RequestReject(r) \/ RequestUnlock(r)
      PROVE  HandlerWrites'
  BY <1>3 DEF RequestRead, RequestReject, RequestUnlock
<1>4. ASSUME NEW r \in Requests, RequestSave(r)
      PROVE  HandlerWrites'
  <2>1. req[r].order \in Orders
    BY <1>4, RunningRequest DEF RequestSave
  <2>2. req'[r].pc = "commit" /\ req'[r].order = req[r].order /\ req'[r].target = req[r].target
    BY <1>4 DEF RequestSave, RequestState
  <2>3. QED
    BY <1>4, <2>1, <2>2 DEF RequestSave
<1>5. ASSUME NEW r \in Requests, RequestCommit(r) \/ RequestFail(r)
      PROVE  HandlerWrites'
  BY <1>5 DEF RequestCommit, RequestFail, Unwrite
<1>6. ASSUME NEW j \in Jobs, JobStep(j) \/ JobFail(j)
      PROVE  HandlerWrites'
  <2>1. req' = req /\ \A o \in Orders : writer'[o] \in {writer[o], j, None}
    BY <1>6, JobFrame
  <2>2. j \notin Requests /\ None \notin Requests
    OBVIOUS
  <2>3. QED
    BY <2>1, <2>2
<1>7. CASE UNCHANGED vars
  BY <1>7 DEF vars
<1>8. QED
  BY <1>1, <1>2, <1>3, <1>4, <1>5, <1>6, <1>7 DEF Next, RequestStep

\* Any number of orders, lines, concurrent handlers and jobs, any number of
\* attempts, with or without expiring leases: the variables keep their types.
THEOREM TypeCorrect == Spec => [](TypeOK /\ HandlerWrites)
<1>1. Init => TypeOK /\ HandlerWrites
  BY OwnersAssumption, NoJobIsJob, IdleIsRequest
  DEF Init, TypeOK, HandlerWrites, OrderStatus, Owners
<1>2. TypeOK /\ HandlerWrites /\ [Next]_vars => (TypeOK /\ HandlerWrites)'
  <2> SUFFICES ASSUME TypeOK, HandlerWrites, [Next]_vars
               PROVE  TypeOK'
    BY HandlerWritesStep
  <2>1. ASSUME NEW o \in Orders, LockExpires(o) \/ AdminRemove(o)
        PROVE  TypeOK'
    BY <2>1 DEF LockExpires, AdminRemove, TypeOK
  <2>2. CASE UNCHANGED vars
    BY <2>2 DEF vars, TypeOK
  <2>3. QED
    BY <2>1, <2>2, RequestTypes, JobTypes DEF Next
<1>3. QED
  BY <1>1, <1>2, PTL DEF Spec

-----------------------------------------------------------------------------
(* What the invariants need to know of a handler's step *)

Handles(r) ==
  \/ \E op \in ServiceOps, o \in Orders : RequestLock(r, op, o)
  \/ RequestStep(r)
  \/ RequestFail(r)

\* A handler touches no refund and no stock; the job rows it inserts or takes
\* back are not running; it saves its own target, and its history shows it.
LEMMA HandlerFrame ==
  ASSUME TypeOK, HandlerWrites, NEW r \in Requests, Handles(r)
  PROVE  /\ UNCHANGED <<gatewayRefunds, refundRow, restored>>
         /\ \A o \in Orders : did[o] \subseteq did'[o]
         /\ \A k \in Jobs : job'[k] = job[k] \/ job'[k].pc \in {"none", "reserved", "waiting"}
         /\ \A o \in Orders :
              \/ status'[o] = status[o]
              \/ /\ req[r].pc = "commit" /\ req[r].order = o
                 /\ req[r].op \in AllOps /\ req[r].op \in did'[o]
                 /\ status'[o] \in Saves(req[r].op) \ {None}
<1> USE DEF TypeOK
<1>1. ASSUME NEW op \in ServiceOps, NEW o \in Orders, RequestLock(r, op, o)
      PROVE  /\ UNCHANGED <<gatewayRefunds, refundRow, restored, did, status>>
             /\ \A k \in Jobs : job'[k] = job[k] \/ job'[k].pc \in {"none", "reserved", "waiting"}
  <2>1. PICK row \in RowsFor(op) : Reserve(row)
    BY <1>1 DEF RequestLock
  <2>2. \A k \in Jobs : [job[k] EXCEPT !.pc = "reserved"].pc = "reserved"
    BY DEF JobState
  <2>3. QED
    BY <1>1, <2>1, <2>2 DEF RequestLock, Reserve
<1>2. CASE RequestRead(r) \/ RequestSave(r) \/ RequestUnlock(r)
  BY <1>2 DEF RequestRead, RequestSave, RequestUnlock
<1>3. CASE RequestReject(r) \/ RequestFail(r)
  <2>1. Unreserve(req[r].row)
    BY <1>3 DEF RequestReject, RequestFail
  <2>2. \A k \in Jobs : job'[k] = job[k] \/ job'[k].pc = "none"
    BY <2>1 DEF Unreserve, NoJob
  <2>3. QED
    BY <1>3, <2>2 DEF RequestReject, RequestFail
<1>4. CASE RequestCommit(r)
  <2> DEFINE o == req[r].order
             kind == Enqueues(req[r].op)
  <2>1. /\ req[r].pc = "commit" /\ req[r].op \in AllOps /\ o \in Orders
        /\ req[r].target \in Saves(req[r].op)
    BY <1>4, RunningRequest DEF RequestCommit
  <2>2. \A k \in Jobs : job'[k] = job[k] \/ job'[k].pc = "waiting"
    <3>1. [NoJob EXCEPT !.pc = "waiting", !.kind = kind, !.order = o].pc = "waiting"
      BY DEF NoJob
    <3>2. QED
      BY <1>4, <3>1 DEF RequestCommit, Enqueued
  <2>3. \A p \in Orders : did[p] \subseteq did'[p]
    BY <1>4 DEF RequestCommit
  <2>4. \A p \in Orders : status'[p] # status[p] =>
          p = o /\ writer[o] = r /\ status'[p] = req[r].target
    BY <1>4, <2>1 DEF RequestCommit
  <2>5. writer[o] = r => req[r].target # None
    BY <2>1 DEF HandlerWrites
  <2>6. writer[o] = r => req[r].op \in did'[o]
    BY <1>4, <2>1, <2>5 DEF RequestCommit
  <2>7. QED
    BY <1>4, <2>1, <2>2, <2>3, <2>4, <2>5, <2>6 DEF RequestCommit
<1>5. QED
  BY <1>1, <1>2, <1>3, <1>4 DEF Handles, RequestStep

-----------------------------------------------------------------------------
(* Payments *)

LEMMA PolicyNeedsPayment ==
  /\ \A current : CanTransition(current, "PROCESSED") => current = "PAID"
  /\ \A current : CanTransition(current, "SHIPPED") => current = "PROCESSED"
  /\ \A current : CanTransition(current, "DELIVERED") => current = "SHIPPED"
  /\ \A current : CanTransition(current, "REFUNDED") =>
       current \in {"PAID", "PROCESSED", "SHIPPED", "DELIVERED"}
  BY DEF CanTransition, Preconditions, OrderStatus

LEMMA PaymentStepHandler ==
  ASSUME TypeOK, HandlerWrites, PaymentInv, NEW r \in Requests, Handles(r)
  PROVE  PaymentInv'
<1> USE DEF TypeOK
<1> DEFINE PaidNow(o) == did'[o] \cap {"markPaymentAsSucceeded", "adminUpdate"} # {}
<1>1. \A o \in Orders : PaidOrOverridden(o) => PaidNow(o)
  BY HandlerFrame DEF PaidOrOverridden
<1>2. \A o \in Orders :
        status'[o] \in {"PAID", "PROCESSED", "SHIPPED", "DELIVERED"} => PaidNow(o)
  <2> SUFFICES ASSUME NEW o \in Orders, status'[o] # status[o],
                      status'[o] \in {"PAID", "PROCESSED", "SHIPPED", "DELIVERED"}
               PROVE  PaidNow(o)
    BY <1>1 DEF PaymentInv
  <2>1. /\ req[r].pc = "commit" /\ req[r].order = o
        /\ req[r].op \in AllOps /\ req[r].op \in did'[o]
        /\ status'[o] \in Saves(req[r].op) \ {None}
    BY HandlerFrame
  <2>2. CASE req[r].op \in {"ship", "deliver"}
    BY <1>1, <2>1, <2>2 DEF PaymentInv
  <2>3. CASE req[r].op \in {"markPaymentAsSucceeded", "adminUpdate"}
    BY <2>1, <2>3 DEF PaidOrOverridden
  <2>4. CASE req[r].op \in {"cancel", "refund", "markPaymentAsFailed"}
    BY <2>1, <2>4 DEF Saves
  <2>5. QED
    BY <2>1, <2>2, <2>3, <2>4 DEF AllOps
<1>3. \A s \in Requests :
        req'[s].pc \in {"save", "commit"} /\ req'[s].op \in {"ship", "deliver"} =>
          PaidNow(req'[s].order)
  <2> SUFFICES ASSUME NEW s \in Requests, req'[s].pc \in {"save", "commit"},
                      req'[s].op \in {"ship", "deliver"}
               PROVE  PaidNow(req'[s].order)
    OBVIOUS
  <2>1. CASE req'[s] = req[s]
    BY <1>1, <2>1, RunningRequest DEF PaymentInv
  <2>2. CASE s = r /\ RequestRead(r)
    <3>1. /\ req'[r].op = req[r].op /\ req'[r].order = req[r].order
          /\ req[r].order \in Orders
          /\ Accepts(req[r].op, status[req[r].order])
      BY <2>2, RunningRequest DEF RequestRead, RequestState
    <3>2. PaidOrOverridden(req[r].order)
      BY <2>2, <3>1, PolicyNeedsPayment DEF Accepts, PaymentInv
    <3>3. QED
      BY <1>1, <2>2, <3>1, <3>2
  <2>3. CASE s = r /\ RequestSave(r)
    <3>1. /\ req'[r].op = req[r].op /\ req'[r].order = req[r].order
          /\ req[r].order \in Orders /\ req[r].pc = "save"
      BY <2>3, RunningRequest DEF RequestSave, RequestState
    <3>2. QED
      BY <1>1, <2>3, <3>1 DEF PaymentInv
  <2>4. CASE \E op \in ServiceOps, o \in Orders : RequestLock(r, op, o)
    BY <2>1, <2>4 DEF RequestLock
  <2>5. CASE RequestReject(r) \/ RequestCommit(r) \/ RequestFail(r)
    <3>1. [req[r] EXCEPT !.pc = "unlock", !.row = None].pc = "unlock"
      BY DEF RequestState
    <3>2. QED
      BY <2>1, <2>5, <3>1 DEF RequestReject, RequestCommit, RequestFail
  <2>6. CASE RequestUnlock(r)
    BY <2>1, <2>6 DEF RequestUnlock, IdleRequest
  <2>7. CASE s # r
    BY <2>1, <2>7 DEF Handles, RequestLock, RequestStep, RequestRead, RequestReject, RequestSave,
       RequestCommit, RequestUnlock, RequestFail
  <2>8. QED
    BY <2>2, <2>3, <2>4, <2>5, <2>6, <2>7 DEF Handles, RequestStep
<1>4. \A j \in Jobs : InTransaction(j)' => job'[j] = job[j]
  BY HandlerFrame DEF InTransaction
<1>5. \A j \in Jobs :
        InTransaction(j)' /\ job'[j].kind \in {"ORDER_PROCESS", "ORDER_REFUND"} =>
          PaidNow(job'[j].order)
  BY <1>1, <1>4, RunningJob DEF PaymentInv, InTransaction
<1>6. \A g \in gatewayRefunds' : PaidNow(g.order)
  BY <1>1, HandlerFrame DEF PaymentInv, RefundsArePaidFor
<1>7. QED
  BY <1>2, <1>3, <1>5, <1>6 DEF PaymentInv, RefundsArePaidFor, PaidOrOverridden

LEMMA PaymentStepJob ==
  ASSUME TypeOK, PaymentInv, RefundInv, RestockInv, NEW j \in Jobs, JobStep(j) \/ JobFail(j)
  PROVE  PaymentInv'
<1> USE DEF TypeOK
<1> DEFINE PaidNow(o) == did'[o] \cap {"markPaymentAsSucceeded", "adminUpdate"} # {}
<1>1. \A o \in Orders : PaidOrOverridden(o) => PaidNow(o)
  BY JobFrame DEF PaidOrOverridden
<1>2. \A r \in Requests :
        req'[r].pc \in {"save", "commit"} /\ req'[r].op \in {"ship", "deliver"} =>
          PaidNow(req'[r].order)
  BY <1>1, JobFrame, RunningRequest DEF PaymentInv
<1>3. \A o \in Orders :
        status'[o] \in {"PAID", "PROCESSED", "SHIPPED", "DELIVERED"} => PaidNow(o)
  <2>1. CASE status' = status
    BY <1>1, <2>1 DEF PaymentInv
  <2>2. CASE JobCommit(j)
    <3>1. /\ job[j].order \in Orders /\ job[j].kind \in JobKinds /\ InTransaction(j)
          /\ status' = [status EXCEPT ![job[j].order] = JobTarget(job[j].kind)]
      BY <2>2, RunningJob DEF JobCommit, InTransaction
    <3>2. job[j].kind = "ORDER_CANCEL" => JobTarget(job[j].kind) = "CANCELED"
      BY DEF JobTarget
    <3>3. QED
      BY <1>1, <3>1, <3>2 DEF PaymentInv, JobKinds
  <2>3. CASE ~JobCommit(j)
    BY <2>1, <2>3 DEF JobStep, JobFail, JobValidate, JobSkip, JobRelease, JobReleased, JobGatewayRefund,
       JobRecordRefund, JobDuplicateRefund, JobLock, JobLockTimeout, JobWrite, JobUnlock,
       JobCompensate, JobEnqueueCompensation, JobCompensationLost, Rollback, Retried
  <2>4. QED
    BY <2>2, <2>3
<1>4. \A g \in gatewayRefunds' : PaidNow(g.order)
  <2>1. CASE gatewayRefunds' = gatewayRefunds
    BY <1>1, <2>1 DEF PaymentInv, RefundsArePaidFor
  <2>2. CASE JobGatewayRefund(j)
    <3>1. job[j].order \in Orders /\ job[j].kind = "ORDER_REFUND" /\ InTransaction(j)
      BY <2>2, RunningJob DEF JobGatewayRefund, RefundInv, InTransaction
    <3>2. PaidOrOverridden(job[j].order)
      BY <3>1 DEF PaymentInv
    <3>3. QED
      BY <1>1, <2>2, <3>1, <3>2 DEF JobGatewayRefund, PaymentInv, RefundsArePaidFor
  <2>3. CASE ~JobGatewayRefund(j)
    BY <2>1, <2>3 DEF JobStep, JobFail, JobValidate, JobSkip, JobRelease, JobReleased, JobCommit,
       JobRecordRefund, JobDuplicateRefund, JobLock, JobLockTimeout, JobWrite, JobUnlock,
       JobCompensate, JobEnqueueCompensation, JobCompensationLost, Rollback, Retried
  <2>4. QED
    BY <2>2, <2>3
<1>5. \A k \in Jobs \ {j} :
        InTransaction(k)' /\ job'[k].kind \in {"ORDER_PROCESS", "ORDER_REFUND"} =>
          PaidNow(job'[k].order)
  BY <1>1, JobFrame, RunningJob DEF PaymentInv, InTransaction
<1>6. InTransaction(j)' /\ job'[j].kind \in {"ORDER_PROCESS", "ORDER_REFUND"} =>
        PaidNow(job'[j].order)
  <2> SUFFICES ASSUME InTransaction(j)', job'[j].kind \in {"ORDER_PROCESS", "ORDER_REFUND"}
               PROVE  PaidNow(job'[j].order)
    OBVIOUS
  <2>1. CASE JobValidate(j)
    <3>1. /\ job'[j].kind = job[j].kind /\ job'[j].order = job[j].order
          /\ job[j].order \in Orders
          /\ CanTransition(status[job[j].order], JobTarget(job[j].kind))
      BY <2>1, RunningJob DEF JobValidate, JobState
    <3>2. JobTarget(job[j].kind) \in {"PROCESSED", "REFUNDED"}
      BY <3>1 DEF JobTarget
    <3>3. QED
      BY <1>1, <3>1, <3>2, PolicyNeedsPayment DEF PaymentInv
  <2>2. CASE InTransaction(j) /\ job'[j].kind = job[j].kind /\ job'[j].order = job[j].order
    BY <1>1, <2>2, RunningJob DEF PaymentInv, InTransaction
  <2>3. CASE \E l \in Lines : JobRelease(j, l)
    BY <2>2, <2>3 DEF JobRelease, JobState, InTransaction
  <2>4. CASE JobReleased(j) \/ JobGatewayRefund(j) \/ JobRecordRefund(j) \/ JobLock(j)
             \/ JobWrite(j) \/ JobUnlock(j)
    BY <2>2, <2>4 DEF JobReleased, JobGatewayRefund, JobRecordRefund, JobLock, JobWrite, JobUnlock,
       JobState, InTransaction
  <2>5. CASE Rollback(j)
    BY <2>5 DEF Rollback, Retried, Ended, NoJob, JobState, InTransaction
  <2>6. CASE JobSkip(j) \/ JobCompensate(j) \/ JobCompensationLost(j)
             \/ \E row \in Jobs : JobEnqueueCompensation(j, row)
    BY <2>6 DEF JobSkip, JobCompensate, JobCompensationLost, JobEnqueueCompensation,
       Ended, NoJob, JobState, InTransaction
  <2>7. CASE JobCommit(j)
    BY <2>7, RetriedJob DEF JobCommit, Ended, NoJob, InTransaction
  <2>8. QED
    BY <2>1, <2>3, <2>4, <2>5, <2>6, <2>7 DEF JobStep, JobFail, JobLockTimeout, JobDuplicateRefund
<1>7. QED
  BY <1>2, <1>3, <1>4, <1>5, <1>6 DEF PaymentInv, RefundsArePaidFor, PaidOrOverridden

-----------------------------------------------------------------------------
(* Refunds *)

LEMMA RefundStepHandler ==
  ASSUME TypeOK, HandlerWrites, RefundInv, NEW r \in Requests, Handles(r)
  PROVE  RefundInv'
<1> USE DEF TypeOK
<1>1. /\ UNCHANGED <<gatewayRefunds, refundRow>>
      /\ \A o \in Orders : did[o] \subseteq did'[o]
      /\ \A k \in Jobs : job'[k] = job[k] \/ job'[k].pc \in {"none", "reserved", "waiting"}
  BY HandlerFrame
<1>2. \A o \in Orders :
        status'[o] = "REFUNDED" /\ "adminUpdate" \notin did'[o] => status[o] = "REFUNDED"
  <2> SUFFICES ASSUME NEW o \in Orders, status'[o] = "REFUNDED", status'[o] # status[o]
               PROVE  "adminUpdate" \in did'[o]
    OBVIOUS
  <2>1. /\ req[r].op \in AllOps /\ req[r].op \in did'[o]
        /\ status'[o] \in Saves(req[r].op) \ {None}
    BY HandlerFrame
  <2>2. req[r].op # "adminUpdate" => "REFUNDED" \notin Saves(req[r].op) \ {None}
    BY <2>1 DEF Saves, AllOps
  <2>3. QED
    BY <2>1, <2>2
<1>3. RefundedIsBacked'
  BY <1>1, <1>2 DEF RefundInv, RefundedIsBacked
<1>4. QED
  BY <1>1, <1>3 DEF RefundInv, RefundRowIsBacked

\* Refunds are never taken back, and a job's step disturbs no refund row but
\* its own.
LEMMA RefundFrame ==
  ASSUME TypeOK, NEW j \in Jobs, JobStep(j) \/ JobFail(j)
  PROVE  /\ gatewayRefunds \subseteq gatewayRefunds'
         /\ \A o \in Orders :
              \/ refundRow'[o] = refundRow[o]
              \/ refundRow[o] = j
              \/ refundRow[o] = None /\ JobRecordRefund(j) /\ o = job[j].order
         /\ \A o \in Orders, l \in Lines : restored[o][l] > 0 => restored'[o][l] > 0
<1> USE DEF TypeOK
<1>1. CASE JobRecordRefund(j)
  BY <1>1 DEF JobRecordRefund
<1>2. CASE JobCommit(j)
  BY <1>2 DEF JobCommit
<1>3. CASE Rollback(j)
  BY <1>3 DEF Rollback, Retried
<1>4. ASSUME NEW l \in Lines, JobRelease(j, l)
      PROVE  /\ UNCHANGED <<gatewayRefunds, refundRow>>
             /\ \A o \in Orders, m \in Lines : restored[o][m] > 0 => restored'[o][m] > 0
  <2>1. job[j].order \in Orders
    BY <1>4, RunningJob DEF JobRelease
  <2>2. \A o \in Orders, m \in Lines : restored'[o][m] \in {restored[o][m], restored[o][m] + 1}
    BY <1>4, <2>1 DEF JobRelease
  <2>3. \A o \in Orders, m \in Lines : restored[o][m] \in Nat
    OBVIOUS
  <2>4. QED
    BY <1>4, <2>2, <2>3 DEF JobRelease
<1>5. CASE JobGatewayRefund(j)
  BY <1>5 DEF JobGatewayRefund
<1>6. CASE JobValidate(j) \/ JobSkip(j) \/ JobReleased(j) \/ JobLock(j) \/ JobWrite(j)
           \/ JobUnlock(j) \/ JobCompensate(j) \/ JobCompensationLost(j)
           \/ \E row \in Jobs : JobEnqueueCompensation(j, row)
  BY <1>6 DEF JobValidate, JobSkip, JobReleased, JobLock, JobWrite, JobUnlock, JobCompensate,
     JobCompensationLost, JobEnqueueCompensation
<1>7. QED
  BY <1>1, <1>2, <1>3, <1>4, <1>5, <1>6 DEF JobStep, JobFail, JobLockTimeout, JobDuplicateRefund

LEMMA RefundStepJob ==
  ASSUME TypeOK, RefundInv, RestockInv, NEW j \in Jobs, JobStep(j) \/ JobFail(j)
  PROVE  RefundInv'
<1> USE OwnersAssumption DEF TypeOK, Owners
<1> DEFINE Refunded(o) == \E g \in gatewayRefunds' : g.order = o
           Tail == {"lock", "write", "unlock", "commit"}
           Fine(k) ==
             /\ job'[k].pc \in {"gateway", "record"} => job'[k].kind = "ORDER_REFUND"
             /\ job'[k].kind = "ORDER_REFUND" =>
                  /\ job'[k].pc \in {"record", "lock", "write", "unlock", "commit"} =>
                       Refunded(job'[k].order)
                  /\ job'[k].pc \in Tail => refundRow'[job'[k].order] = k
<1>1. \A o \in Orders : (\E g \in gatewayRefunds : g.order = o) => Refunded(o)
  BY RefundFrame
<1>2. \A k \in Jobs \ {j} : Fine(k)
  <2> SUFFICES ASSUME NEW k \in Jobs \ {j}
               PROVE  Fine(k)
    OBVIOUS
  <2>1. CASE job'[k].pc = "waiting"
    BY <2>1
  <2>2. CASE job'[k] = job[k]
    <3>1. job[k].pc \in {"record", "lock", "write", "unlock", "commit"} => job[k].order \in Orders
      BY RunningJob
    <3>2. job[k].kind = "ORDER_REFUND" /\ job[k].pc \in Tail => refundRow[job[k].order] = k
      BY DEF RefundInv
    <3>3. \A o \in Orders : refundRow[o] = k => refundRow'[o] = k
      BY RefundFrame
    <3>4. QED
      BY <1>1, <2>2, <3>1, <3>2, <3>3 DEF RefundInv
  <2>3. QED
    BY <2>1, <2>2, JobFrame
<1>3. Fine(j)
  <2>1. CASE JobValidate(j)
    <3>1. /\ job'[j].kind = job[j].kind
          /\ job'[j].pc = FirstStep(job[j].kind) /\ job[j].kind \in JobKinds
      BY <2>1, RunningJob DEF JobValidate, JobState
    <3>2. QED
      BY <3>1 DEF FirstStep, JobKinds
  <2>2. CASE JobGatewayRefund(j)
    <3>1. /\ job'[j].kind = job[j].kind /\ job'[j].order = job[j].order /\ job'[j].pc = "record"
          /\ job[j].kind = "ORDER_REFUND"
      BY <2>2 DEF JobGatewayRefund, JobState, RefundInv
    <3>2. [order |-> job[j].order, key |-> RefundKey(j)] \in gatewayRefunds'
      BY <2>2 DEF JobGatewayRefund
    <3>3. [order |-> job[j].order, key |-> RefundKey(j)].order = job[j].order
      OBVIOUS
    <3>4. QED
      BY <3>1, <3>2, <3>3
  <2>3. CASE JobRecordRefund(j)
    <3>1. /\ job'[j].kind = job[j].kind /\ job'[j].order = job[j].order /\ job'[j].pc = "lock"
          /\ job[j].kind = "ORDER_REFUND" /\ job[j].order \in Orders
      BY <2>3, RunningJob DEF JobRecordRefund, JobState, RefundInv
    <3>2. Refunded(job[j].order)
      BY <1>1, <2>3, <3>1 DEF JobRecordRefund, RefundInv
    <3>3. refundRow'[job[j].order] = j
      BY <2>3, <3>1 DEF JobRecordRefund
    <3>4. QED
      BY <3>1, <3>2, <3>3
  <2>4. CASE JobReleased(j)
    <3>1. job'[j].kind = "ORDER_CANCEL" /\ job'[j].pc = "lock"
      BY <2>4 DEF JobReleased, JobState, RestockInv
    <3>2. QED
      BY <3>1
  <2>5. CASE \E l \in Lines : JobRelease(j, l)
    <3>1. job'[j].pc = "release"
      BY <2>5 DEF JobRelease, JobState
    <3>2. QED
      BY <3>1
  <2>6. CASE JobLock(j) \/ JobWrite(j) \/ JobUnlock(j)
    <3>1. /\ job'[j].kind = job[j].kind /\ job'[j].order = job[j].order
          /\ job[j].pc \in {"lock", "write", "unlock"} /\ job'[j].pc \in Tail
          /\ job[j].order \in Orders
          /\ UNCHANGED <<refundRow, gatewayRefunds>>
      BY <2>6, RunningJob DEF JobLock, JobWrite, JobUnlock, JobState
    <3>2. QED
      BY <3>1 DEF RefundInv
  <2>7. CASE Rollback(j)
    <3>1. job'[j].pc \in {"waiting", "compensate", "failed"}
      BY <2>7 DEF Rollback, Retried, Ended, NoJob, JobState
    <3>2. QED
      BY <3>1
  <2>8. CASE JobSkip(j) \/ JobCompensate(j) \/ JobCompensationLost(j)
             \/ \E row \in Jobs : JobEnqueueCompensation(j, row)
    <3>1. job'[j].pc \in {"done", "failed", "compensateRefund", "compensateCancel"}
      BY <2>8 DEF JobSkip, JobCompensate, JobCompensationLost, JobEnqueueCompensation,
         Ended, NoJob, JobState
    <3>2. QED
      BY <3>1
  <2>9. CASE JobCommit(j)
    <3>1. Retried(j)[j].pc \in {"waiting", "compensate", "failed"}
      BY <2>9, RetriedJob DEF JobCommit
    <3>2. Ended(j, "done")[j].pc = "done"
      BY DEF Ended, NoJob
    <3>3. job'[j].pc \in {"done", "waiting", "compensate", "failed"}
      BY <2>9, <3>1, <3>2 DEF JobCommit
    <3>4. QED
      BY <3>3
  <2>10. QED
    BY <2>1, <2>2, <2>3, <2>4, <2>5, <2>6, <2>7, <2>8, <2>9
    DEF JobStep, JobFail, JobLockTimeout, JobDuplicateRefund
<1>4. \A g \in gatewayRefunds' : g.key = g.order
  <2>1. CASE JobGatewayRefund(j)
    BY <2>1 DEF JobGatewayRefund, RefundKey, RefundInv
  <2>2. CASE ~JobGatewayRefund(j)
    <3>1. gatewayRefunds' = gatewayRefunds
      BY <2>2 DEF JobStep, JobFail, JobValidate, JobSkip, JobRelease, JobReleased, JobCommit,
         JobRecordRefund, JobDuplicateRefund, JobLock, JobLockTimeout, JobWrite, JobUnlock,
         JobCompensate, JobEnqueueCompensation, JobCompensationLost, Rollback, Retried
    <3>2. QED
      BY <3>1 DEF RefundInv
  <2>3. QED
    BY <2>1, <2>2
<1>5. \A o \in Orders : refundRow'[o] # None => Refunded(o)
  <2> SUFFICES ASSUME NEW o \in Orders, refundRow'[o] # None, refundRow[o] = None
               PROVE  Refunded(o)
    BY <1>1 DEF RefundInv, RefundRowIsBacked
  <2>1. JobRecordRefund(j) /\ o = job[j].order
    BY RefundFrame
  <2>2. \E g \in gatewayRefunds : g.order = o
    BY <2>1 DEF JobRecordRefund, RefundInv
  <2>3. QED
    BY <1>1, <2>2
<1>6. \A o \in Orders :
        status'[o] = "REFUNDED" /\ "adminUpdate" \notin did'[o] =>
          Refunded(o) /\ refundRow'[o] = "committed"
  <2>1. CASE status' = status
    <3>1. \A o \in Orders : refundRow[o] = "committed" => refundRow'[o] = "committed"
      BY RefundFrame
    <3>2. \A o \in Orders : did[o] \subseteq did'[o]
      BY JobFrame
    <3>3. QED
      BY <1>1, <2>1, <3>1, <3>2 DEF RefundInv, RefundedIsBacked
  <2>2. CASE JobCommit(j)
    <3>1. /\ job[j].order \in Orders /\ job[j].kind \in JobKinds
          /\ status' = [status EXCEPT ![job[j].order] = JobTarget(job[j].kind)]
          /\ refundRow' = [refundRow EXCEPT ![job[j].order] = IF @ = j THEN "committed" ELSE @]
      BY <2>2, RunningJob DEF JobCommit
    <3>2. JobTarget(job[j].kind) = "REFUNDED" => job[j].kind = "ORDER_REFUND"
      BY <3>1 DEF JobTarget, JobKinds
    <3>3. job[j].kind = "ORDER_REFUND" =>
            Refunded(job[j].order) /\ refundRow[job[j].order] = j
      BY <1>1, <2>2, <3>1 DEF RefundInv, JobCommit
    <3>4. \A o \in Orders : did[o] \subseteq did'[o]
      BY JobFrame
    <3>5. ASSUME NEW o \in Orders, o # job[j].order,
                 status'[o] = "REFUNDED", "adminUpdate" \notin did'[o]
          PROVE  Refunded(o) /\ refundRow'[o] = "committed"
      BY <1>1, <3>1, <3>4, <3>5 DEF RefundInv, RefundedIsBacked
    <3>6. QED
      BY <3>1, <3>2, <3>3, <3>5
  <2>3. CASE ~JobCommit(j)
    BY <2>1, <2>3 DEF JobStep, JobFail, JobValidate, JobSkip, JobRelease, JobReleased, JobGatewayRefund,
       JobRecordRefund, JobDuplicateRefund, JobLock, JobLockTimeout, JobWrite, JobUnlock,
       JobCompensate, JobEnqueueCompensation, JobCompensationLost, Rollback, Retried
  <2>4. QED
    BY <2>2, <2>3
<1>7. QED
  BY <1>2, <1>3, <1>4, <1>5, <1>6 DEF RefundInv, RefundRowIsBacked, RefundedIsBacked

-----------------------------------------------------------------------------
(* Stock *)

LEMMA RestockStepHandler ==
  ASSUME TypeOK, HandlerWrites, RestockInv, NEW r \in Requests, Handles(r)
  PROVE  RestockInv'
<1> USE DEF TypeOK
<1>1. /\ restored' = restored
      /\ \A o \in Orders : did[o] \subseteq did'[o]
      /\ \A k \in Jobs : job'[k] = job[k] \/ job'[k].pc \in {"none", "reserved", "waiting"}
  BY HandlerFrame
<1>2. \A o \in Orders :
        status'[o] = "CANCELED" /\ "adminUpdate" \notin did'[o] => status[o] = "CANCELED"
  <2> SUFFICES ASSUME NEW o \in Orders, status'[o] = "CANCELED", status'[o] # status[o]
               PROVE  "adminUpdate" \in did'[o]
    OBVIOUS
  <2>1. /\ req[r].op \in AllOps /\ req[r].op \in did'[o]
        /\ status'[o] \in Saves(req[r].op) \ {None}
    BY HandlerFrame
  <2>2. req[r].op # "adminUpdate" => "CANCELED" \notin Saves(req[r].op) \ {None}
    BY <2>1 DEF Saves, AllOps
  <2>3. QED
    BY <2>1, <2>2
<1>3. CanceledIsRestocked'
  BY <1>1, <1>2 DEF RestockInv, CanceledIsRestocked
<1>4. QED
  BY <1>1, <1>3 DEF RestockInv

LEMMA RestockStepJob ==
  ASSUME TypeOK, RefundInv, RestockInv, NEW j \in Jobs, JobStep(j) \/ JobFail(j)
  PROVE  RestockInv'
<1> USE DEF TypeOK
<1> DEFINE Tail == {"lock", "write", "unlock", "commit"}
           Fine(k) ==
             /\ job'[k].pc = "release" => job'[k].kind = "ORDER_CANCEL"
             /\ job'[k].kind = "ORDER_CANCEL" =>
                  /\ job'[k].pc = "release" =>
                       \A l \in Lines \ job'[k].todo : restored'[job'[k].order][l] > 0
                  /\ job'[k].pc \in Tail =>
                       \A l \in Lines : restored'[job'[k].order][l] > 0
<1>1. \A o \in Orders, l \in Lines : restored[o][l] > 0 => restored'[o][l] > 0
  BY RefundFrame
<1>2. \A k \in Jobs \ {j} : Fine(k)
  <2> SUFFICES ASSUME NEW k \in Jobs \ {j}
               PROVE  Fine(k)
    OBVIOUS
  <2>1. CASE job'[k].pc = "waiting"
    BY <2>1
  <2>2. CASE job'[k] = job[k]
    <3>1. job[k].pc \in Tail \cup {"release"} => job[k].order \in Orders
      BY RunningJob
    <3>2. QED
      BY <1>1, <2>2, <3>1 DEF RestockInv
  <2>3. QED
    BY <2>1, <2>2, JobFrame
<1>3. Fine(j)
  <2>1. CASE JobValidate(j)
    <3>1. /\ job'[j].kind = job[j].kind /\ job'[j].todo = Lines
          /\ job'[j].pc = FirstStep(job[j].kind) /\ job[j].kind \in JobKinds
      BY <2>1, RunningJob DEF JobValidate, JobState
    <3>2. QED
      BY <3>1 DEF FirstStep, JobKinds
  <2>2. ASSUME NEW l \in Lines, JobRelease(j, l)
        PROVE  Fine(j)
    <3>1. /\ job'[j].kind = "ORDER_CANCEL" /\ job'[j].order = job[j].order
          /\ job'[j].pc = "release" /\ job'[j].todo = job[j].todo \ {l}
          /\ job[j].order \in Orders
      BY <2>2, RunningJob DEF JobRelease, JobState, RestockInv
    <3>2. restored'[job[j].order][l] > 0
      BY <2>2, <3>1 DEF JobRelease
    <3>3. \A m \in Lines \ job[j].todo : restored'[job[j].order][m] > 0
      BY <1>1, <2>2, <3>1 DEF RestockInv, JobRelease
    <3>4. QED
      BY <3>1, <3>2, <3>3
  <2>3. CASE JobReleased(j)
    <3>1. /\ job'[j].kind = "ORDER_CANCEL" /\ job'[j].order = job[j].order
          /\ job'[j].pc = "lock" /\ restored' = restored
          /\ \A l \in Lines : restored[job[j].order][l] > 0
      BY <2>3 DEF JobReleased, JobState, RestockInv
    <3>2. QED
      BY <3>1
  <2>4. CASE JobGatewayRefund(j) \/ JobRecordRefund(j)
    <3>1. job'[j].kind = "ORDER_REFUND"
      BY <2>4 DEF JobGatewayRefund, JobRecordRefund, JobState, RefundInv
    <3>2. job'[j].pc # "release"
      BY <2>4 DEF JobGatewayRefund, JobRecordRefund, JobState
    <3>3. QED
      BY <3>1, <3>2
  <2>5. CASE JobLock(j) \/ JobWrite(j) \/ JobUnlock(j)
    <3>1. /\ job'[j].kind = job[j].kind /\ job'[j].order = job[j].order
          /\ job[j].pc \in {"lock", "write", "unlock"} /\ job'[j].pc \in Tail
          /\ restored' = restored
      BY <2>5 DEF JobLock, JobWrite, JobUnlock, JobState
    <3>2. QED
      BY <3>1 DEF RestockInv
  <2>6. CASE Rollback(j)
    <3>1. job'[j].pc \in {"waiting", "compensate", "failed"}
      BY <2>6 DEF Rollback, Retried, Ended, NoJob, JobState
    <3>2. QED
      BY <3>1
  <2>7. CASE JobSkip(j) \/ JobCompensate(j) \/ JobCompensationLost(j)
             \/ \E row \in Jobs : JobEnqueueCompensation(j, row)
    <3>1. job'[j].pc \in {"done", "failed", "compensateRefund", "compensateCancel"}
      BY <2>7 DEF JobSkip, JobCompensate, JobCompensationLost, JobEnqueueCompensation,
         Ended, NoJob, JobState
    <3>2. QED
      BY <3>1
  <2>8. CASE JobCommit(j)
    <3>1. job'[j].pc \in {"done", "waiting", "compensate", "failed"}
      BY <2>8, RetriedJob DEF JobCommit, Ended, NoJob
    <3>2. QED
      BY <3>1
  <2>9. QED
    BY <2>1, <2>2, <2>3, <2>4, <2>5, <2>6, <2>7, <2>8
    DEF JobStep, JobFail, JobLockTimeout, JobDuplicateRefund
<1>4. CanceledIsRestocked'
  <2>1. \A o \in Orders : did[o] \subseteq did'[o]
    BY JobFrame
  <2>2. CASE status' = status
    BY <1>1, <2>1, <2>2 DEF RestockInv, CanceledIsRestocked
  <2>3. CASE JobCommit(j)
    <3>1. /\ job[j].order \in Orders /\ job[j].kind \in JobKinds
          /\ status' = [status EXCEPT ![job[j].order] = JobTarget(job[j].kind)]
          /\ restored' = restored /\ job[j].pc = "commit"
      BY <2>3, RunningJob DEF JobCommit
    <3>2. JobTarget(job[j].kind) = "CANCELED" => job[j].kind = "ORDER_CANCEL"
      BY <3>1 DEF JobTarget, JobKinds
    <3>3. job[j].kind = "ORDER_CANCEL" => \A l \in Lines : restored[job[j].order][l] > 0
      BY <3>1 DEF RestockInv
    <3>4. QED
      BY <2>1, <3>1, <3>2, <3>3 DEF RestockInv, CanceledIsRestocked
  <2>4. CASE ~JobCommit(j)
    BY <2>2, <2>4 DEF JobStep, JobFail, JobValidate, JobSkip, JobRelease, JobReleased, JobGatewayRefund,
       JobRecordRefund, JobDuplicateRefund, JobLock, JobLockTimeout, JobWrite, JobUnlock,
       JobCompensate, JobEnqueueCompensation, JobCompensationLost, Rollback, Retried
  <2>5. QED
    BY <2>3, <2>4
<1>5. QED
  BY <1>2, <1>3, <1>4 DEF RestockInv

-----------------------------------------------------------------------------
(* The invariant *)

Invariant == TypeOK /\ HandlerWrites /\ PaymentInv /\ RefundInv /\ RestockInv

\* The conjuncts hold at the start, and every step keeps them together: the
\* payment part leans on the refund part to know which jobs reach the gateway,
\* and the refund and stock parts tell the kinds of jobs apart by where they are.
THEOREM InvariantHolds == Spec => []Invariant
<1>1. Init => Invariant
  <2> SUFFICES ASSUME Init
               PROVE  PaymentInv /\ RefundInv /\ RestockInv
    BY OwnersAssumption, NoJobIsJob, IdleIsRequest
    DEF Invariant, Init, TypeOK, HandlerWrites, OrderStatus, Owners
  <2>1. /\ \A o \in Orders : status[o] = "PENDING" /\ refundRow[o] = None
        /\ \A r \in Requests : req[r].pc = "idle"
        /\ \A j \in Jobs : job[j].pc = "none"
        /\ gatewayRefunds = {}
    BY DEF Init, IdleRequest, NoJob
  <2>2. QED
    BY <2>1 DEF PaymentInv, RefundsArePaidFor, InTransaction, RefundInv, RefundRowIsBacked,
       RefundedIsBacked, RestockInv, CanceledIsRestocked, Init, NoJob
<1>2. Invariant /\ [Next]_vars => Invariant'
  <2> SUFFICES ASSUME Invariant, [Next]_vars
               PROVE  Invariant'
    OBVIOUS
  <2> USE DEF Invariant
  <2>1. HandlerWrites'
    BY HandlerWritesStep
  <2>2. ASSUME NEW o \in Orders, LockExpires(o) \/ AdminRemove(o)
        PROVE  Invariant'
    <3>1. UNCHANGED <<status, did, writer, req, job, restored, gatewayRefunds, refundRow>>
      BY <2>2 DEF LockExpires, AdminRemove
    <3>2. TypeOK'
      BY <2>2 DEF LockExpires, AdminRemove, TypeOK
    <3>3. PaymentInv' /\ RefundInv' /\ RestockInv'
      BY <3>1 DEF PaymentInv, RefundsArePaidFor, PaidOrOverridden, InTransaction, RefundInv,
         RefundRowIsBacked, RefundedIsBacked, RestockInv, CanceledIsRestocked
    <3>4. QED
      BY <2>1, <3>2, <3>3
  <2>3. ASSUME NEW r \in Requests, Handles(r)
        PROVE  Invariant'
    <3>1. TypeOK'
      BY <2>3, RequestTypes DEF Handles
    <3>2. QED
      BY <2>1, <2>3, <3>1, PaymentStepHandler, RefundStepHandler, RestockStepHandler
  <2>4. ASSUME NEW j \in Jobs, JobStep(j) \/ JobFail(j)
        PROVE  Invariant'
    BY <2>1, <2>4, JobTypes, PaymentStepJob, RefundStepJob, RestockStepJob
  <2>5. CASE UNCHANGED vars
    BY <2>5 DEF vars, TypeOK, HandlerWrites, PaymentInv, RefundsArePaidFor, PaidOrOverridden,
       InTransaction, RefundInv, RefundRowIsBacked, RefundedIsBacked, RestockInv,
       CanceledIsRestocked
  <2>6. QED
    BY <2>2, <2>3, <2>4, <2>5 DEF Next, Handles
<1>3. QED
  BY <1>1, <1>2, PTL DEF Spec

\* For every number of orders, handlers and jobs: no order is prepared, shipped
\* or delivered (status written by ship, deliver or the process job) unless a
\* payment success or an override was committed for it before.
THEOREM GoodsArePaidForHolds == Spec => []GoodsArePaidFor
<1>1. Invariant => GoodsArePaidFor
  BY DEF Invariant, PaymentInv, GoodsArePaidFor
<1>2. QED
  BY <1>1, InvariantHolds, PTL

\* The gateway is never asked by a refund job to give back money of an order
\* that was not paid.
THEOREM RefundsArePaidForHolds == Spec => []RefundsArePaidFor
<1>1. Invariant => RefundsArePaidFor
  BY DEF Invariant, PaymentInv
<1>2. QED
  BY <1>1, InvariantHolds, PTL

\* However many refund jobs and attempts an order gets (RefundOrderJobStrategy),
\* the gateway refunds it once: they share one idempotency key.
THEOREM RefundedOnceHolds == Spec => []RefundedOnce
<1>1. Invariant => RefundedOnce
  <2> SUFFICES ASSUME Invariant, NEW g \in gatewayRefunds, NEW h \in gatewayRefunds,
                      g.order = h.order
               PROVE  g = h
    BY DEF RefundedOnce
  <2>1. g \in [order : Orders, key : Orders \cup Jobs] /\ h \in [order : Orders, key : Orders \cup Jobs]
    BY DEF Invariant, TypeOK
  <2>2. g.key = g.order /\ h.key = h.order
    BY DEF Invariant, RefundInv
  <2>3. QED
    BY <2>1, <2>2
<1>2. QED
  BY <1>1, InvariantHolds, PTL

\* An order at REFUNDED has its refund at the gateway and in the refunds table,
\* whatever attempts of its refund jobs were rolled back.
THEOREM RefundedIsBackedHolds == Spec => []RefundedIsBacked
<1>1. Invariant => RefundedIsBacked
  BY DEF Invariant, RefundInv
<1>2. QED
  BY <1>1, InvariantHolds, PTL

\* An order at CANCELED has every line back in stock (releaseInventory comes
\* before the status is written).
THEOREM CanceledIsRestockedHolds == Spec => []CanceledIsRestocked
<1>1. Invariant => CanceledIsRestocked
  BY DEF Invariant, RestockInv
<1>2. QED
  BY <1>1, InvariantHolds, PTL

\* A committed row of the refunds table has its refund at the gateway, whichever of a
\* refund job's attempts inserted it.
THEOREM RefundRowIsBackedHolds == Spec => []RefundRowIsBacked
<1>1. Invariant => RefundRowIsBacked
  BY DEF Invariant, RefundInv
<1>2. QED
  BY <1>1, InvariantHolds, PTL

-----------------------------------------------------------------------------
(* The lock between handlers *)

\* While leases last, a handler has its order's lock from its first step to its last.
HoldsLock ==
  ~LocksExpire => \A r \in Requests : req[r].pc # "idle" => lock[req[r].order] = r

\* What jobs have written stays in the order's history.
LEMMA WrittenStays ==
  ASSUME NEW o, did[o] \subseteq did'[o]
  PROVE  WrittenByJobs(o) \subseteq WrittenByJobs(o)'
  BY DEF WrittenByJobs

\* A job neither takes a handler's lock nor gives it up, and writes a status
\* only with its kind in the order's history.
LEMMA JobLocks ==
  ASSUME TypeOK, NEW j \in Jobs, JobStep(j) \/ JobFail(j), NEW o \in Orders
  PROVE  /\ lock[o] \in Requests => lock'[o] = lock[o]
         /\ status'[o] = status[o] \/ status'[o] \in WrittenByJobs(o)'
<1> USE OwnersAssumption DEF TypeOK, Owners
<1>1. CASE \/ JobValidate(j) \/ JobSkip(j) \/ JobReleased(j) \/ JobGatewayRefund(j)
           \/ JobRecordRefund(j) \/ JobWrite(j) \/ JobCompensate(j) \/ JobCompensationLost(j)
           \/ \E l \in Lines : JobRelease(j, l)
           \/ \E row \in Jobs : JobEnqueueCompensation(j, row)
  BY <1>1 DEF JobValidate, JobSkip, JobReleased, JobGatewayRefund, JobRecordRefund, JobWrite,
     JobCompensate, JobCompensationLost, JobRelease, JobEnqueueCompensation
<1>2. CASE JobLock(j) \/ JobUnlock(j)
  BY <1>2 DEF JobLock, JobUnlock, Release
<1>3. CASE JobCommit(j)
  <2>1. job[j].kind \in JobKinds
    BY <1>3, RunningJob DEF JobCommit
  <2>2. CASE o = job[j].order
    <3>1. job[j].kind \in did'[o] /\ status'[o] = JobTarget(job[j].kind)
      BY <1>3, <2>1, <2>2 DEF JobCommit
    <3>2. QED
      BY <1>3, <2>1, <2>2, <3>1 DEF JobCommit, WrittenByJobs
  <2>3. CASE o # job[j].order
    BY <1>3, <2>3 DEF JobCommit
  <2>4. QED
    BY <1>3, <2>2, <2>3 DEF JobCommit
<1>4. CASE JobFail(j) \/ JobLockTimeout(j) \/ JobDuplicateRefund(j)
  BY <1>4 DEF JobFail, JobLockTimeout, JobDuplicateRefund, Rollback, Retried, Release
<1>5. QED
  BY <1>1, <1>2, <1>3, <1>4 DEF JobStep

\* A handler that ends, with its work done or not, has only the lock left to give up.
LEMMA HandlerEnds ==
  ASSUME TypeOK, NEW r \in Requests, RequestReject(r) \/ RequestCommit(r) \/ RequestFail(r)
  PROVE  /\ req[r].pc # "idle" /\ req'[r].order = req[r].order /\ lock' = lock
         /\ \A q \in Requests \ {r} : req'[q] = req[q]
         /\ req'[r].pc = "unlock"
<1>0. req \in [Requests -> RequestState] /\ req[r] \in RequestState
  BY DEF TypeOK
<1>1. /\ req[r].pc # "idle" /\ lock' = lock
      /\ req' = [req EXCEPT ![r] = [@ EXCEPT !.pc = "unlock", !.row = None]]
  BY DEF RequestReject, RequestCommit, RequestFail
<1>2. req'[r] = [req[r] EXCEPT !.pc = "unlock", !.row = None]
      /\ \A q \in Requests \ {r} : req'[q] = req[q]
  BY <1>0, <1>1
<1>3. req'[r].pc = "unlock" /\ req'[r].order = req[r].order
  BY <1>0, <1>2 DEF RequestState
<1>4. QED
  BY <1>1, <1>2, <1>3

\* A handler's record moves on; its order stays while it is under way.
LEMMA HandlerMoves ==
  ASSUME TypeOK, NEW r \in Requests,
         RequestRead(r) \/ RequestReject(r) \/ RequestSave(r) \/ RequestCommit(r) \/ RequestFail(r)
  PROVE  /\ req[r].pc # "idle" /\ req'[r].order = req[r].order /\ lock' = lock
         /\ \A q \in Requests \ {r} : req'[q] = req[q]
         /\ req'[r].pc = "save" => RequestRead(r) /\ req'[r].read = status[req[r].order]
         /\ req'[r].pc = "commit" => req[r].pc = "save" /\ req'[r].read = req[r].read
         /\ req'[r].pc # "idle"
<1>0. req \in [Requests -> RequestState] /\ req[r] \in RequestState
  BY DEF TypeOK
<1>1. CASE RequestRead(r)
  BY <1>0, <1>1 DEF RequestRead, RequestState
<1>2. CASE RequestSave(r)
  BY <1>0, <1>2 DEF RequestSave, RequestState
<1>3. CASE RequestReject(r) \/ RequestCommit(r) \/ RequestFail(r)
  BY <1>3, HandlerEnds
<1>4. QED
  BY <1>1, <1>2, <1>3

LEMMA FreshStep ==
  ASSUME TypeOK, HandlerWrites, HoldsLock, ReadStaysFresh, ~LocksExpire, [Next]_vars
  PROVE  HoldsLock' /\ ReadStaysFresh'
<1>0. /\ \A r \in Requests : req[r].pc # "idle" => lock[req[r].order] = r
      /\ \A r \in Requests : req[r].pc \in {"save", "commit"} =>
           \/ req[r].read = status[req[r].order]
           \/ status[req[r].order] \in WrittenByJobs(req[r].order)
      /\ \A r \in Requests : req[r].pc # "idle" => req[r].order \in Orders
  BY RunningRequest DEF HoldsLock, ReadStaysFresh, TypeOK
<1>1. CASE UNCHANGED <<req, lock, status, did>>
  BY <1>0, <1>1 DEF HoldsLock, ReadStaysFresh, WrittenByJobs
<1>2. ASSUME NEW r \in Requests, NEW op \in ServiceOps, NEW o \in Orders, RequestLock(r, op, o)
      PROVE  HoldsLock' /\ ReadStaysFresh'
  <2>1. /\ lock[o] = None /\ lock' = [lock EXCEPT ![o] = r] /\ UNCHANGED <<status, did>>
        /\ req'[r].pc = "read" /\ req'[r].order = o
        /\ \A q \in Requests \ {r} : req'[q] = req[q]
    BY <1>2 DEF RequestLock, TypeOK
  <2>2. lock'[o] = r /\ \A p \in Orders \ {o} : lock'[p] = lock[p]
    BY <2>1 DEF TypeOK
  <2>3. \A q \in Requests \ {r} : req[q].pc # "idle" => req[q].order # o
    BY <1>0, <2>1, OwnersAssumption DEF Owners
  <2>4. QED
    BY <1>0, <2>1, <2>2, <2>3 DEF HoldsLock, ReadStaysFresh, WrittenByJobs
<1>3. ASSUME NEW r \in Requests,
             RequestRead(r) \/ RequestReject(r) \/ RequestSave(r) \/ RequestCommit(r)
               \/ RequestFail(r)
      PROVE  HoldsLock' /\ ReadStaysFresh'
  <2>1. /\ req[r].pc # "idle" /\ req'[r].order = req[r].order /\ lock' = lock
        /\ \A q \in Requests \ {r} : req'[q] = req[q]
        /\ req'[r].pc = "save" => RequestRead(r) /\ req'[r].read = status[req[r].order]
        /\ req'[r].pc = "commit" => req[r].pc = "save" /\ req'[r].read = req[r].read
        /\ req'[r].pc # "idle"
    BY <1>3, HandlerMoves
  <2>2. HoldsLock'
    BY <1>0, <2>1 DEF HoldsLock
  <2>3. CASE UNCHANGED <<status, did>>
    BY <1>0, <2>1, <2>2, <2>3 DEF ReadStaysFresh, WrittenByJobs
  <2>4. CASE RequestCommit(r)
    <3>1. /\ \A o \in Orders \ {req[r].order} : status'[o] = status[o]
          /\ \A o \in Orders : did[o] \subseteq did'[o]
      BY <2>4 DEF RequestCommit, TypeOK
    <3>2. \A q \in Requests \ {r} : req[q].pc # "idle" => req[q].order # req[r].order
      BY <1>0, <2>1
    <3>3. req'[r].pc = "unlock"
      BY <2>4 DEF RequestCommit, TypeOK, RequestState
    <3>4. \A o \in Orders : WrittenByJobs(o) \subseteq WrittenByJobs(o)'
      BY <3>1, WrittenStays
    <3>5. QED
      BY <1>0, <2>1, <2>2, <3>1, <3>2, <3>3, <3>4 DEF ReadStaysFresh
  <2>5. QED
    BY <1>3, <2>3, <2>4 DEF RequestRead, RequestReject, RequestSave, RequestFail
<1>4. ASSUME NEW r \in Requests, RequestUnlock(r)
      PROVE  HoldsLock' /\ ReadStaysFresh'
  <2>1. /\ req'[r].pc = "idle" /\ \A q \in Requests \ {r} : req'[q] = req[q]
        /\ UNCHANGED <<status, did>>
    BY <1>4 DEF RequestUnlock, IdleRequest, TypeOK
  <2>2. \A o \in Orders : lock[o] # r => lock'[o] = lock[o]
    BY <1>4 DEF RequestUnlock, Release, TypeOK
  <2>3. QED
    BY <1>0, <2>1, <2>2 DEF HoldsLock, ReadStaysFresh, WrittenByJobs
<1>5. ASSUME NEW j \in Jobs, JobStep(j) \/ JobFail(j)
      PROVE  HoldsLock' /\ ReadStaysFresh'
  <2>1. req' = req /\ \A o \in Orders : did[o] \subseteq did'[o]
    BY <1>5, JobFrame
  <2>2. \A o \in Orders : /\ lock[o] \in Requests => lock'[o] = lock[o]
                          /\ status'[o] = status[o] \/ status'[o] \in WrittenByJobs(o)'
    BY <1>5, JobLocks
  <2>3. \A o \in Orders : WrittenByJobs(o) \subseteq WrittenByJobs(o)'
    BY <2>1, WrittenStays
  <2>4. QED
    BY <1>0, <2>1, <2>2, <2>3 DEF HoldsLock, ReadStaysFresh
<1>6. ASSUME NEW o \in Orders, LockExpires(o) \/ AdminRemove(o)
      PROVE  HoldsLock' /\ ReadStaysFresh'
  BY <1>1, <1>6 DEF LockExpires, AdminRemove
<1>7. CASE UNCHANGED vars
  BY <1>1, <1>7 DEF vars
<1>8. QED
  BY <1>2, <1>3, <1>4, <1>5, <1>6, <1>7 DEF Next, RequestStep

\* While leases outlast handlers, no handler saves over a status that another
\* handler committed after its check (lockAndTransaction under order-update).
THEOREM ReadStaysFreshHolds == Spec => []ReadStaysFresh
<1>1. Init => HoldsLock /\ ReadStaysFresh
  BY DEF Init, IdleRequest, HoldsLock, ReadStaysFresh
<1>2. TypeOK /\ HandlerWrites /\ HoldsLock /\ ReadStaysFresh /\ [Next]_vars
        => (HoldsLock /\ ReadStaysFresh)'
  <2>1. CASE LocksExpire
    BY <2>1 DEF HoldsLock, ReadStaysFresh
  <2>2. CASE ~LocksExpire
    BY <2>2, FreshStep
  <2>3. QED
    BY <2>1, <2>2
<1>3. QED
  BY <1>1, <1>2, TypeCorrect, PTL DEF Spec

\* What a handler read passed its precondition.
ReadAccepted ==
  \A r \in Requests : req[r].pc \in {"save", "commit"} => Accepts(req[r].op, req[r].read)

LEMMA AcceptedStep ==
  ASSUME TypeOK, ReadAccepted, [Next]_vars
  PROVE  ReadAccepted'
<1>0. req \in [Requests -> RequestState]
  BY DEF TypeOK
<1>1. ASSUME NEW r \in Requests, NEW op \in ServiceOps, NEW o \in Orders, RequestLock(r, op, o)
      PROVE  ReadAccepted'
  <2>1. req'[r].pc = "read" /\ \A q \in Requests \ {r} : req'[q] = req[q]
    BY <1>0, <1>1 DEF RequestLock
  <2>2. QED
    BY <2>1 DEF ReadAccepted
<1>2. ASSUME NEW r \in Requests, RequestRead(r)
      PROVE  ReadAccepted'
  <2>1. /\ req'[r].op = req[r].op /\ req'[r].read = status[req[r].order]
        /\ Accepts(req[r].op, status[req[r].order])
        /\ \A q \in Requests \ {r} : req'[q] = req[q]
    BY <1>0, <1>2 DEF RequestRead, RequestState
  <2>2. QED
    BY <2>1 DEF ReadAccepted
<1>3. ASSUME NEW r \in Requests, RequestSave(r)
      PROVE  ReadAccepted'
  <2>1. /\ req[r].pc = "save" /\ req'[r].op = req[r].op /\ req'[r].read = req[r].read
        /\ \A q \in Requests \ {r} : req'[q] = req[q]
    BY <1>0, <1>3 DEF RequestSave, RequestState
  <2>2. QED
    BY <2>1 DEF ReadAccepted
<1>4. ASSUME NEW r \in Requests,
             RequestReject(r) \/ RequestCommit(r) \/ RequestFail(r) \/ RequestUnlock(r)
      PROVE  ReadAccepted'
  <2>1. CASE RequestUnlock(r)
    BY <1>0, <2>1 DEF RequestUnlock, IdleRequest, ReadAccepted
  <2>2. CASE RequestReject(r) \/ RequestCommit(r) \/ RequestFail(r)
    BY <2>2, HandlerEnds DEF ReadAccepted
  <2>3. QED
    BY <1>4, <2>1, <2>2
<1>5. CASE UNCHANGED req
  BY <1>5 DEF ReadAccepted
<1>6. ASSUME NEW j \in Jobs, JobStep(j) \/ JobFail(j)
      PROVE  UNCHANGED req
  BY <1>6, JobFrame
<1>7. ASSUME NEW o \in Orders, LockExpires(o) \/ AdminRemove(o)
      PROVE  UNCHANGED req
  BY <1>7 DEF LockExpires, AdminRemove
<1>8. QED
  BY <1>1, <1>2, <1>3, <1>4, <1>5, <1>6, <1>7 DEF Next, RequestStep, vars

\* While leases outlast handlers, what a handler commits is a move of the policy from the
\* status that stands at that moment, unless a job wrote that status: the check in
\* OrdersService is as good as one made in the database, but for updateOrderWithLock.
THEOREM HandlersFollowPolicyHolds == Spec => HandlersFollowPolicy
<1> DEFINE Follows ==
      ~LocksExpire =>
        \A r \in Requests :
          RequestCommit(r) /\ status[req[r].order] \notin WrittenByJobs(req[r].order) =>
            /\ req[r].op \in {"ship", "deliver"} =>
                 CanTransition(status[req[r].order], req[r].target)
            /\ req[r].op \in {"cancel", "refund"} =>
                 CanTransition(status[req[r].order], JobTarget(Enqueues(req[r].op)))
<1>1. Init => ReadAccepted
  BY DEF Init, IdleRequest, ReadAccepted
<1>2. TypeOK /\ ReadAccepted /\ [Next]_vars => ReadAccepted'
  BY AcceptedStep
<1>3. TypeOK /\ ReadAccepted /\ ReadStaysFresh => Follows
  <2>1. SUFFICES ASSUME TypeOK, ReadAccepted, ReadStaysFresh, ~LocksExpire, NEW r \in Requests,
                        RequestCommit(r),
                        status[req[r].order] \notin WrittenByJobs(req[r].order)
                 PROVE  /\ req[r].op \in {"ship", "deliver"} =>
                             CanTransition(status[req[r].order], req[r].target)
                        /\ req[r].op \in {"cancel", "refund"} =>
                             CanTransition(status[req[r].order], JobTarget(Enqueues(req[r].op)))
    OBVIOUS
  <2>2. req[r].pc = "commit" /\ req[r].target \in Saves(req[r].op)
    BY <2>1, RunningRequest DEF RequestCommit, TypeOK
  <2>3. Accepts(req[r].op, status[req[r].order])
    BY <2>1, <2>2 DEF ReadAccepted, ReadStaysFresh
  <2>4. CASE req[r].op = "ship"
    BY <2>2, <2>3, <2>4 DEF Accepts, Saves
  <2>5. CASE req[r].op = "deliver"
    BY <2>2, <2>3, <2>5 DEF Accepts, Saves
  <2>6. CASE req[r].op = "cancel"
    BY <2>3, <2>6 DEF Accepts, Enqueues, JobTarget
  <2>7. CASE req[r].op = "refund"
    BY <2>3, <2>7 DEF Accepts, Enqueues, JobTarget
  <2>8. QED
    BY <2>4, <2>5, <2>6, <2>7
<1>4. Spec => []ReadAccepted
  BY <1>1, <1>2, TypeCorrect, PTL DEF Spec
<1>5. QED
  BY <1>3, <1>4, TypeCorrect, ReadStaysFreshHolds, PTL DEF HandlersFollowPolicy

-----------------------------------------------------------------------------
(* Nobody waits for an owner that is gone *)

\* OwnersAtWork, for one handler and for one job.
ReqOwns(r) ==
  /\ \A o \in Orders :
       /\ lock[o] = r => req[r].pc # "idle" /\ req[r].order = o
       /\ writer[o] = r => req[r].pc = "commit" /\ req[r].order = o
  /\ req[r].row # None =>
       /\ job[req[r].row].pc = "reserved"
       /\ \A q \in Requests \ {r} : req[q].row # req[r].row

JobOwns(j) ==
  \A o \in Orders :
    /\ lock[o] = j => job[j].pc \in {"write", "unlock"} /\ job[j].order = o
    /\ writer[o] = j => job[j].pc \in {"unlock", "commit"} /\ job[j].order = o
    /\ refundRow[o] = j =>
         /\ job[j].pc \in {"lock", "write", "unlock", "commit"}
         /\ job[j].kind = "ORDER_REFUND" /\ job[j].order = o

LEMMA OwnersParts ==
  OwnersAtWork <=> (\A r \in Requests : ReqOwns(r)) /\ (\A j \in Jobs : JobOwns(j))
<1>1. OwnersAtWork => (\A r \in Requests : ReqOwns(r)) /\ (\A j \in Jobs : JobOwns(j))
  BY DEF OwnersAtWork, ReqOwns, JobOwns
<1>2. (\A r \in Requests : ReqOwns(r)) /\ (\A j \in Jobs : JobOwns(j)) => OwnersAtWork
  BY DEF OwnersAtWork, ReqOwns, JobOwns
<1>3. QED
  BY <1>1, <1>2

\* A handler keeps its row until it ends.
LEMMA HandlerRow ==
  ASSUME TypeOK, NEW r \in Requests
  PROVE  /\ RequestRead(r) \/ RequestSave(r) =>
              /\ req'[r].row = req[r].row /\ req'[r].order = req[r].order
              /\ req'[r].pc # "idle" /\ UNCHANGED <<lock, job>>
         /\ RequestReject(r) \/ RequestCommit(r) \/ RequestFail(r) => req'[r].row = None
<1>0. req \in [Requests -> RequestState] /\ req[r] \in RequestState
  BY DEF TypeOK
<1>1. ASSUME RequestRead(r)
      PROVE  /\ req'[r].row = req[r].row /\ req'[r].order = req[r].order
             /\ req'[r].pc # "idle" /\ UNCHANGED <<lock, job>>
  BY <1>0, <1>1 DEF RequestRead, RequestState
<1>2. ASSUME RequestSave(r)
      PROVE  /\ req'[r].row = req[r].row /\ req'[r].order = req[r].order
             /\ req'[r].pc # "idle" /\ UNCHANGED <<lock, job>>
  BY <1>0, <1>2 DEF RequestSave, RequestState
<1>3. ASSUME RequestReject(r) \/ RequestCommit(r) \/ RequestFail(r)
      PROVE  req'[r].row = None
  <2>1. req' = [req EXCEPT ![r] = [@ EXCEPT !.pc = "unlock", !.row = None]]
    BY <1>3 DEF RequestReject, RequestCommit, RequestFail
  <2>2. req'[r] = [req[r] EXCEPT !.pc = "unlock", !.row = None]
    BY <1>0, <2>1
  <2>3. QED
    BY <1>0, <2>2 DEF RequestState
<1>4. QED
  BY <1>1, <1>2, <1>3

\* A handler touches only keys and row locks that are free or its own, and only the
\* job row it inserts.
LEMMA HandlerOwns ==
  ASSUME TypeOK, OwnersAtWork, NEW r \in Requests, Handles(r)
  PROVE  /\ \A o \in Orders : /\ lock'[o] \in {lock[o], None, r}
                              /\ writer'[o] \in {writer[o], None, r}
         /\ refundRow' = refundRow
         /\ \A q \in Requests \ {r} : req'[q] = req[q]
         /\ req'[r].row \in {None, req[r].row} \/ job[req'[r].row].pc = "none"
         /\ \A k \in Jobs : \/ job'[k] = job[k]
                            \/ job[k].pc = "none"
                            \/ req[r].row # None /\ k = req[r].row
<1> USE DEF TypeOK
<1>0. req[r] \in RequestState
  OBVIOUS
<1>1. ASSUME NEW op \in ServiceOps, NEW o \in Orders, RequestLock(r, op, o)
      PROVE  /\ \A p \in Orders : lock'[p] \in {lock[p], r}
             /\ writer' = writer /\ refundRow' = refundRow
             /\ \A q \in Requests \ {r} : req'[q] = req[q]
             /\ req'[r].row = None \/ job[req'[r].row].pc = "none"
             /\ \A k \in Jobs : job'[k] = job[k] \/ job[k].pc = "none"
  <2>1. PICK row \in RowsFor(op), target \in Saves(op) :
          /\ Reserve(row)
          /\ req' = [req EXCEPT ![r] = [pc |-> "read", op |-> op, order |-> o,
                                        read |-> None, target |-> target, row |-> row]]
    BY <1>1 DEF RequestLock
  <2>2. row = None \/ (row \in Jobs /\ job[row].pc = "none")
    BY DEF RowsFor
  <2>3. \A k \in Jobs : job'[k] = job[k] \/ job[k].pc = "none"
    BY <2>1, <2>2 DEF Reserve
  <2>4. req'[r].row = row
    BY <2>1
  <2>5. QED
    BY <1>1, <2>1, <2>2, <2>3, <2>4 DEF RequestLock
<1>2. CASE RequestRead(r) \/ RequestSave(r)
  <2>1. req'[r].row = req[r].row
    BY <1>2, HandlerRow
  <2>2. \A o \in Orders : writer'[o] \in {writer[o], r}
    BY <1>2 DEF RequestRead, RequestSave
  <2>3. QED
    BY <1>2, <2>1, <2>2 DEF RequestRead, RequestSave
<1>3. CASE RequestReject(r) \/ RequestCommit(r) \/ RequestFail(r)
  <2>1. req'[r].row = None
    BY <1>3, HandlerRow
  <2>2. \A o \in Orders : writer'[o] \in {writer[o], None}
    BY <1>3 DEF RequestReject, RequestCommit, RequestFail, Unwrite
  <2>3. \A k \in Jobs : job'[k] = job[k] \/ (req[r].row # None /\ k = req[r].row)
    BY <1>3 DEF RequestReject, RequestCommit, RequestFail, Unreserve, Enqueued
  <2>4. QED
    BY <1>3, <2>1, <2>2, <2>3 DEF RequestReject, RequestCommit, RequestFail
<1>4. CASE RequestUnlock(r)
  <2>1. req'[r].row = None
    BY <1>4 DEF RequestUnlock, IdleRequest
  <2>2. \A o \in Orders : lock'[o] \in {lock[o], None}
    BY <1>4 DEF RequestUnlock, Release
  <2>3. QED
    BY <1>4, <2>1, <2>2 DEF RequestUnlock
<1>5. QED
  BY <1>1, <1>2, <1>3, <1>4 DEF Handles, RequestStep

LEMMA OwnersStepHandler ==
  ASSUME TypeOK, HandlerWrites, OwnersAtWork, NEW r \in Requests, Handles(r), HandlerWrites'
  PROVE  OwnersAtWork'
<1> USE OwnersAssumption DEF TypeOK, Owners
<1>0. /\ \A q \in Requests : ReqOwns(q)
      /\ \A k \in Jobs : JobOwns(k)
      /\ req[r] \in RequestState
      /\ \A q \in Requests : req[q].row \in Jobs \cup {None}
  BY OwnersParts DEF RequestState
<1>1. /\ \A o \in Orders : /\ lock'[o] \in {lock[o], None, r}
                           /\ writer'[o] \in {writer[o], None, r}
      /\ refundRow' = refundRow
      /\ \A q \in Requests \ {r} : req'[q] = req[q]
      /\ req'[r].row \in {None, req[r].row} \/ job[req'[r].row].pc = "none"
      /\ \A k \in Jobs : \/ job'[k] = job[k]
                         \/ job[k].pc = "none"
                         \/ req[r].row # None /\ k = req[r].row
  BY HandlerOwns
<1>2. ASSUME NEW k \in Jobs
      PROVE  JobOwns(k)'
  <2>1. k # r /\ k # None
    OBVIOUS
  <2>2. job[k].pc \notin {"none", "reserved"} => job'[k] = job[k]
    BY <1>0, <1>1 DEF ReqOwns
  <2>3. \A o \in Orders : /\ lock'[o] = k => lock[o] = k
                          /\ writer'[o] = k => writer[o] = k
    BY <1>1, <2>1
  <2>4. QED
    BY <1>0, <1>1, <2>2, <2>3 DEF JobOwns
<1>3. ASSUME NEW q \in Requests \ {r}
      PROVE  ReqOwns(q)'
  <2>1. \A o \in Orders : lock'[o] = q => lock[o] = q
    BY <1>1
  <2>2. req[q].row # None =>
          /\ job'[req[q].row].pc = "reserved"
          /\ \A p \in Requests \ {q} : req'[p].row # req[q].row
    <3> SUFFICES ASSUME req[q].row # None
                 PROVE  /\ job'[req[q].row].pc = "reserved"
                        /\ \A p \in Requests \ {q} : req'[p].row # req[q].row
      OBVIOUS
    <3>1. /\ job[req[q].row].pc = "reserved" /\ req[q].row \in Jobs
          /\ \A p \in Requests \ {q} : req[p].row # req[q].row
      BY <1>0 DEF ReqOwns
    <3>2. job'[req[q].row] = job[req[q].row]
      BY <1>1, <3>1
    <3>3. req'[r].row # req[q].row
      BY <1>1, <3>1
    <3>4. QED
      BY <1>1, <3>1, <3>2, <3>3
  <2>3. req'[q] = req[q]
    BY <1>1
  <2>4. QED
    BY <1>0, <2>1, <2>2, <2>3 DEF ReqOwns, HandlerWrites
<1>4. ReqOwns(r)'
  <2>1. ASSUME NEW op \in ServiceOps, NEW o \in Orders, RequestLock(r, op, o)
        PROVE  ReqOwns(r)'
    <3>1. PICK row \in RowsFor(op), target \in Saves(op) :
            /\ Reserve(row)
            /\ req' = [req EXCEPT ![r] = [pc |-> "read", op |-> op, order |-> o,
                                          read |-> None, target |-> target, row |-> row]]
      BY <2>1 DEF RequestLock
    <3>2. row = None \/ (row \in Jobs /\ job[row].pc = "none")
      BY DEF RowsFor
    <3>3. row # None => job'[row].pc = "reserved"
      <4>1. CASE row # None
        <5>1. job' = [job EXCEPT ![row].pc = "reserved"] /\ job[row] \in JobState
          BY <3>1, <3>2, <4>1 DEF Reserve
        <5>2. QED
          BY <3>2, <4>1, <5>1 DEF JobState
      <4>2. QED
        BY <4>1
    <3>4. /\ req'[r].pc = "read" /\ req'[r].order = o /\ req'[r].row = row
      BY <3>1
    <3>5. \A p \in Orders : lock'[p] = r => p = o
      BY <1>0, <2>1 DEF RequestLock, ReqOwns
    <3>6. \A q \in Requests \ {r} : row # None => req'[q].row # row
      BY <1>0, <1>1, <3>2 DEF ReqOwns
    <3>7. QED
      BY <3>3, <3>4, <3>5, <3>6 DEF ReqOwns, HandlerWrites
  <2>2. CASE RequestRead(r) \/ RequestSave(r)
    <3>1. /\ req'[r].row = req[r].row /\ req'[r].order = req[r].order
          /\ req'[r].pc # "idle" /\ UNCHANGED <<lock, job>>
      BY <2>2, HandlerRow
    <3>2. QED
      BY <1>0, <1>1, <3>1 DEF ReqOwns, HandlerWrites
  <2>3. CASE RequestReject(r) \/ RequestCommit(r) \/ RequestFail(r)
    <3>1. req'[r].row = None
      BY <2>3, HandlerRow
    <3>2. /\ req'[r].order = req[r].order /\ lock' = lock /\ req'[r].pc = "unlock"
      BY <2>3, HandlerEnds
    <3>3. QED
      BY <1>0, <3>1, <3>2 DEF ReqOwns, HandlerWrites
  <2>4. CASE RequestUnlock(r)
    <3>1. /\ req'[r].row = None
          /\ lock' = [lock EXCEPT ![req[r].order] = IF @ = r THEN None ELSE @]
      BY <2>4 DEF RequestUnlock, Release, IdleRequest
    <3>2. \A o \in Orders : lock'[o] # r
      BY <1>0, <3>1 DEF ReqOwns
    <3>3. QED
      BY <3>1, <3>2 DEF ReqOwns, HandlerWrites
  <2>5. QED
    BY <2>1, <2>2, <2>3, <2>4 DEF Handles, RequestStep
<1>5. (\A q \in Requests : ReqOwns(q)') /\ (\A k \in Jobs : JobOwns(k)')
  BY <1>2, <1>3, <1>4
<1>6. QED
  BY <1>5 DEF OwnersAtWork, ReqOwns, JobOwns

\* A step of a job touches only keys, row locks and refunds that are free or its own,
\* and of the other jobs only a row that nobody has inserted yet.
LEMMA JobOwnsFrame ==
  ASSUME TypeOK, NEW j \in Jobs, JobStep(j) \/ JobFail(j)
  PROVE  /\ \A o \in Orders : /\ lock'[o] \in {lock[o], None, j}
                              /\ writer'[o] \in {writer[o], None, j}
                              /\ refundRow'[o] \in {refundRow[o], None, j, "committed"}
         /\ job[j].pc \notin {"none", "reserved"}
         /\ \A k \in Jobs \ {j} : job'[k] = job[k] \/ job[k].pc = "none"
<1> USE DEF TypeOK
<1>1. CASE \/ JobValidate(j) \/ JobSkip(j) \/ JobReleased(j) \/ JobGatewayRefund(j)
           \/ JobCompensate(j) \/ JobCompensationLost(j)
  BY <1>1 DEF JobValidate, JobSkip, JobReleased, JobGatewayRefund, JobCompensate,
     JobCompensationLost, Ended
<1>2. CASE \E l \in Lines : JobRelease(j, l)
  BY <1>2 DEF JobRelease
<1>3. CASE JobRecordRefund(j) \/ JobLock(j) \/ JobWrite(j)
  BY <1>3 DEF JobRecordRefund, JobLock, JobWrite
<1>4. CASE JobUnlock(j)
  BY <1>4 DEF JobUnlock, Release
<1>5. CASE JobCommit(j)
  <2>1. \A k \in Jobs \ {j} : job'[k] = job[k]
    BY <1>5, RetriedJob DEF JobCommit, Ended
  <2>2. QED
    BY <1>5, <2>1 DEF JobCommit, Unwrite
<1>6. CASE JobFail(j) \/ JobLockTimeout(j) \/ JobDuplicateRefund(j)
  <2>1. Rollback(j) /\ job[j].pc \notin {"none", "reserved"}
    BY <1>6 DEF JobFail, InTransaction, JobLockTimeout, JobDuplicateRefund
  <2>2. \A k \in Jobs \ {j} : job'[k] = job[k]
    BY <2>1 DEF Rollback, Retried, Ended
  <2>3. QED
    BY <2>1, <2>2 DEF Rollback, Retried, Unwrite, Release
<1>7. CASE \E row \in Jobs : JobEnqueueCompensation(j, row)
  BY <1>7 DEF JobEnqueueCompensation, Ended
<1>8. QED
  BY <1>1, <1>2, <1>3, <1>4, <1>5, <1>6, <1>7 DEF JobStep

\* The job's own record, where it stands and where it goes.
LEMMA JobOwnsStep ==
  ASSUME TypeOK, RefundInv, OwnersAtWork, NEW j \in Jobs, JobStep(j) \/ JobFail(j)
  PROVE  JobOwns(j)'
<1> USE OwnersAssumption DEF TypeOK, Owners
<1>0. JobOwns(j) /\ job[j] \in JobState /\ j # None /\ j # "committed"
  BY OwnersParts
<1>1. ASSUME job[j].pc \notin {"lock", "write", "unlock", "commit"},
             UNCHANGED <<lock, writer, refundRow>>
      PROVE  JobOwns(j)'
  BY <1>0, <1>1 DEF JobOwns
<1>2. CASE \/ JobValidate(j) \/ JobSkip(j) \/ JobReleased(j) \/ JobGatewayRefund(j)
           \/ JobCompensate(j) \/ JobCompensationLost(j)
           \/ \E l \in Lines : JobRelease(j, l)
           \/ \E row \in Jobs : JobEnqueueCompensation(j, row)
  BY <1>1, <1>2 DEF JobValidate, JobSkip, JobReleased, JobGatewayRefund, JobCompensate,
     JobCompensationLost, JobRelease, JobEnqueueCompensation
<1>3. CASE JobRecordRefund(j)
  <2>1. /\ job[j].pc = "record" /\ job[j].kind = "ORDER_REFUND"
        /\ job'[j].kind = job[j].kind /\ job'[j].order = job[j].order /\ job'[j].pc = "lock"
        /\ refundRow' = [refundRow EXCEPT ![job[j].order] = j]
        /\ UNCHANGED <<lock, writer>>
    BY <1>0, <1>3 DEF JobRecordRefund, RefundInv, JobState
  <2>2. QED
    BY <1>0, <2>1 DEF JobOwns
<1>4. CASE JobLock(j)
  <2>1. /\ job[j].pc = "lock"
        /\ job'[j].kind = job[j].kind /\ job'[j].order = job[j].order /\ job'[j].pc = "write"
        /\ lock' = [lock EXCEPT ![job[j].order] = j]
        /\ UNCHANGED <<writer, refundRow>>
    BY <1>0, <1>4 DEF JobLock, JobState
  <2>2. QED
    BY <1>0, <2>1 DEF JobOwns
<1>5. CASE JobWrite(j)
  <2>1. /\ job[j].pc = "write"
        /\ job'[j].kind = job[j].kind /\ job'[j].order = job[j].order /\ job'[j].pc = "unlock"
        /\ writer' = [writer EXCEPT ![job[j].order] = j]
        /\ UNCHANGED <<lock, refundRow>>
    BY <1>0, <1>5 DEF JobWrite, JobState
  <2>2. QED
    BY <1>0, <2>1 DEF JobOwns
<1>6. CASE JobUnlock(j)
  <2>1. /\ job[j].pc = "unlock"
        /\ job'[j].kind = job[j].kind /\ job'[j].order = job[j].order /\ job'[j].pc = "commit"
        /\ lock' = [lock EXCEPT ![job[j].order] = IF @ = j THEN None ELSE @]
        /\ UNCHANGED <<writer, refundRow>>
    BY <1>0, <1>6 DEF JobUnlock, Release, JobState
  <2>2. \A o \in Orders : lock'[o] # j
    BY <1>0, <2>1 DEF JobOwns
  <2>3. QED
    BY <1>0, <2>1, <2>2 DEF JobOwns
<1>7. ASSUME \A o \in Orders : lock'[o] # j /\ writer'[o] # j /\ refundRow'[o] # j
      PROVE  JobOwns(j)'
  BY <1>7 DEF JobOwns
<1>8. CASE JobCommit(j)
  <2>1. /\ job[j].pc = "commit" /\ lock' = lock
        /\ writer' = [writer EXCEPT ![job[j].order] = IF @ = j THEN None ELSE @]
        /\ refundRow' = [refundRow EXCEPT ![job[j].order] = IF @ = j THEN "committed" ELSE @]
    BY <1>8 DEF JobCommit, Unwrite
  <2>2. \A o \in Orders : lock'[o] # j /\ writer'[o] # j /\ refundRow'[o] # j
    BY <1>0, <2>1 DEF JobOwns
  <2>3. QED
    BY <1>7, <2>2
<1>9. CASE Rollback(j)
  <2>1. /\ lock' = [lock EXCEPT ![job[j].order] = IF @ = j THEN None ELSE @]
        /\ writer' = [writer EXCEPT ![job[j].order] = IF @ = j THEN None ELSE @]
        /\ refundRow' = [refundRow EXCEPT ![job[j].order] = IF @ = j THEN None ELSE @]
    BY <1>9 DEF Rollback, Retried, Unwrite, Release
  <2>2. \A o \in Orders : lock'[o] # j /\ writer'[o] # j /\ refundRow'[o] # j
    BY <1>0, <2>1 DEF JobOwns
  <2>3. QED
    BY <1>7, <2>2
<1>10. QED
  BY <1>2, <1>3, <1>4, <1>5, <1>6, <1>8, <1>9
  DEF JobStep, JobFail, JobLockTimeout, JobDuplicateRefund

LEMMA OwnersStepJob ==
  ASSUME TypeOK, RefundInv, OwnersAtWork, NEW j \in Jobs, JobStep(j) \/ JobFail(j)
  PROVE  OwnersAtWork'
<1> USE OwnersAssumption DEF TypeOK, Owners
<1>0. /\ \A q \in Requests : ReqOwns(q)
      /\ \A k \in Jobs : JobOwns(k)
      /\ \A q \in Requests : req[q].row \in Jobs \cup {None}
  BY OwnersParts DEF RequestState
<1>1. /\ \A o \in Orders : /\ lock'[o] \in {lock[o], None, j}
                           /\ writer'[o] \in {writer[o], None, j}
                           /\ refundRow'[o] \in {refundRow[o], None, j, "committed"}
      /\ job[j].pc \notin {"none", "reserved"}
      /\ \A k \in Jobs \ {j} : job'[k] = job[k] \/ job[k].pc = "none"
      /\ req' = req
  BY JobOwnsFrame, JobFrame
<1>2. ASSUME NEW k \in Jobs \ {j}
      PROVE  JobOwns(k)'
  <2>1. k # None /\ k # "committed"
    OBVIOUS
  <2>2. \A o \in Orders : /\ lock'[o] = k => lock[o] = k
                          /\ writer'[o] = k => writer[o] = k
                          /\ refundRow'[o] = k => refundRow[o] = k
    BY <1>1, <2>1
  <2>3. QED
    BY <1>0, <1>1, <2>2 DEF JobOwns
<1>3. ASSUME NEW q \in Requests
      PROVE  ReqOwns(q)'
  <2>1. q # j /\ q # None
    OBVIOUS
  <2>2. \A o \in Orders : /\ lock'[o] = q => lock[o] = q
                          /\ writer'[o] = q => writer[o] = q
    BY <1>1, <2>1
  <2>3. req[q].row # None => job'[req[q].row] = job[req[q].row]
    BY <1>0, <1>1 DEF ReqOwns
  <2>4. QED
    BY <1>0, <1>1, <2>2, <2>3 DEF ReqOwns
<1>4. (\A q \in Requests : ReqOwns(q)') /\ (\A k \in Jobs : JobOwns(k)')
  BY <1>2, <1>3, JobOwnsStep
<1>5. QED
  BY <1>4 DEF OwnersAtWork, ReqOwns, JobOwns

\* However handlers and jobs fail, time out, are retried or lose their leases: what they
\* hold of an order (Redlock key, row lock, an uncommitted refund, an outbox row) they
\* hold only between the steps that take it and give it up.
THEOREM OwnersAtWorkHolds == Spec => []OwnersAtWork
<1>1. Init => OwnersAtWork
  <2> SUFFICES ASSUME Init
               PROVE  OwnersAtWork
    OBVIOUS
  <2>1. /\ \A o \in Orders : lock[o] = None /\ writer[o] = None /\ refundRow[o] = None
        /\ \A r \in Requests : req[r].row = None
    BY DEF Init, IdleRequest
  <2>2. None \notin Requests /\ None \notin Jobs
    BY OwnersAssumption DEF Owners
  <2>3. QED
    BY <2>1, <2>2 DEF OwnersAtWork
<1>2. Invariant /\ HandlerWrites' /\ OwnersAtWork /\ [Next]_vars => OwnersAtWork'
  <2> SUFFICES ASSUME Invariant, HandlerWrites', OwnersAtWork, [Next]_vars
               PROVE  OwnersAtWork'
    OBVIOUS
  <2> USE DEF Invariant
  <2>1. ASSUME NEW r \in Requests, Handles(r)
        PROVE  OwnersAtWork'
    BY <2>1, OwnersStepHandler
  <2>2. ASSUME NEW j \in Jobs, JobStep(j) \/ JobFail(j)
        PROVE  OwnersAtWork'
    BY <2>2, OwnersStepJob
  <2>3. ASSUME NEW o \in Orders, LockExpires(o)
        PROVE  OwnersAtWork'
    <3>1. \A p \in Orders : lock'[p] \in {lock[p], None}
      BY <2>3 DEF LockExpires, TypeOK
    <3>2. None \notin Requests /\ None \notin Jobs
      BY OwnersAssumption DEF Owners
    <3>3. QED
      BY <2>3, <3>1, <3>2 DEF LockExpires, OwnersAtWork
  <2>4. CASE (\E o \in Orders : AdminRemove(o)) \/ UNCHANGED vars
    BY <2>4 DEF AdminRemove, vars, OwnersAtWork
  <2>5. QED
    BY <2>1, <2>2, <2>3, <2>4 DEF Next, Handles
<1>3. QED
  BY <1>1, <1>2, InvariantHolds, TypeCorrect, PTL DEF Spec, Invariant

-----------------------------------------------------------------------------
(* The ledger *)

\* A step that touches none of what the ledger is made of is a stutter of it.
LEMMA LedgerStutter ==
  ASSUME UNCHANGED <<status, did, gatewayRefunds, refundRow, restored>>
  PROVE  UNCHANGED Ledger!vars
  BY DEF Ledger!vars, Paid, Overridden, Booked, Restocked

LEMMA GrantedIsPaid ==
  ASSUME NEW o \in Orders
  PROVE  PaidOrOverridden(o) <=> Ledger!Granted(o)
  BY DEF PaidOrOverridden, Ledger!Granted, Paid, Overridden

\* A handler's commit records a payment, an override or a hand-over; every other step
\* of a handler leaves the ledger alone.
LEMMA HandlerKeepsLedger ==
  ASSUME Invariant, NEW r \in Requests, Handles(r)
  PROVE  [Ledger!Next]_(Ledger!vars)
<1> USE DEF Invariant, TypeOK
<1>1. CASE ~RequestCommit(r)
  <2>1. UNCHANGED <<status, did>>
    BY <1>1 DEF Handles, RequestStep, RequestLock, RequestRead, RequestReject, RequestSave,
       RequestUnlock, RequestFail
  <2>2. QED
    BY <2>1, HandlerFrame, LedgerStutter
<1>2. CASE RequestCommit(r)
  <2> DEFINE o == req[r].order
             op == req[r].op
             target == req[r].target
  <2>1. /\ req[r].pc = "commit" /\ o \in Orders /\ op \in AllOps
        /\ target \in Saves(op)
    BY <1>2, RunningRequest DEF RequestCommit
  <2>2. /\ status' = IF writer[o] = r THEN [status EXCEPT ![o] = target] ELSE status
        /\ did' = IF target = None THEN did ELSE [did EXCEPT ![o] = @ \cup {op}]
        /\ UNCHANGED <<gatewayRefunds, refundRow, restored>>
    BY <1>2 DEF RequestCommit
  <2>3. writer[o] = r => target # None
    BY <2>1 DEF HandlerWrites
  <2>4. UNCHANGED <<gatewayRefunds, Booked, Restocked>>
    BY <2>2 DEF Booked, Restocked
  <2>5. CASE op = "markPaymentAsSucceeded"
    <3>1. target = "PAID" /\ target # None
      BY <2>1, <2>5, OwnersAssumption DEF Saves, OrderStatus
    <3>2. Paid' = Paid \cup {o} /\ Overridden' = Overridden
      BY <2>1, <2>2, <2>5, <3>1 DEF Paid, Overridden
    <3>3. Ledger!Pay(o)
      BY <2>2, <2>4, <3>1, <3>2 DEF Ledger!Pay, Ledger!Enter
    <3>4. QED
      BY <2>1, <3>3 DEF Ledger!Next
  <2>6. CASE op = "adminUpdate"
    <3>1. target \in OrderStatus /\ target # None
      BY <2>1, <2>6, OwnersAssumption DEF Saves
    <3>2. Overridden' = Overridden \cup {o} /\ Paid' = Paid
      BY <2>1, <2>2, <2>6, <3>1 DEF Paid, Overridden
    <3>3. \E to \in Ledger!OrderStatus : Ledger!Enter(o, to)
      <4>1. status' = [status EXCEPT ![o] = target] \/ status' = [status EXCEPT ![o] = status[o]]
        BY <2>1, <2>2
      <4>2. status[o] \in OrderStatus
        BY <2>1
      <4>3. QED
        BY <3>1, <4>1, <4>2 DEF Ledger!Enter, Ledger!OrderStatus, OrderStatus
    <3>4. Ledger!Override(o)
      BY <2>4, <3>2, <3>3 DEF Ledger!Override
    <3>5. QED
      BY <2>1, <3>4 DEF Ledger!Next
  <2>7. CASE op \notin {"markPaymentAsSucceeded", "adminUpdate"}
    <3>1. UNCHANGED <<Paid, Overridden>>
      BY <2>1, <2>2, <2>7 DEF Paid, Overridden
    <3>2. CASE writer[o] = r
      <4>1. op \in {"ship", "deliver"} /\ target \in {"SHIPPED", "DELIVERED"}
        BY <2>1, <2>3, <2>7, <3>2 DEF Saves, AllOps
      <4>2. Ledger!Granted(o)
        BY <2>1, <4>1, GrantedIsPaid DEF PaymentInv
      <4>3. Ledger!HandOver(o)
        BY <2>2, <2>4, <3>1, <3>2, <4>1, <4>2 DEF Ledger!HandOver, Ledger!Enter
      <4>4. QED
        BY <2>1, <4>3 DEF Ledger!Next
    <3>3. CASE writer[o] # r
      BY <2>2, <2>4, <3>1, <3>3 DEF Ledger!vars
    <3>4. QED
      BY <3>2, <3>3
  <2>8. QED
    BY <2>5, <2>6, <2>7
<1>3. QED
  BY <1>1, <1>2

\* A job's commit hands the order over, refunds it or cancels it, with the row of the
\* refund it holds and no other; its side effects before are the ledger's own steps,
\* and an attempt that is rolled back takes none of them back.
LEMMA JobKeepsLedger ==
  ASSUME Invariant, OwnersAtWork, NEW j \in Jobs, JobStep(j) \/ JobFail(j)
  PROVE  [Ledger!Next]_(Ledger!vars)
<1> USE DEF Invariant, TypeOK
<1> DEFINE o == job[j].order
<1>1. CASE \/ JobValidate(j) \/ JobSkip(j) \/ JobReleased(j) \/ JobLock(j) \/ JobWrite(j)
           \/ JobUnlock(j) \/ JobCompensate(j) \/ JobCompensationLost(j)
           \/ \E row \in Jobs : JobEnqueueCompensation(j, row)
  <2>1. UNCHANGED <<status, did, gatewayRefunds, refundRow, restored>>
    BY <1>1 DEF JobValidate, JobSkip, JobReleased, JobLock, JobWrite, JobUnlock, JobCompensate,
       JobCompensationLost, JobEnqueueCompensation
  <2>2. QED
    BY <2>1, LedgerStutter
<1>2. ASSUME NEW l \in Lines, JobRelease(j, l)
      PROVE  [Ledger!Next]_(Ledger!vars)
  <2>1. /\ o \in Orders
        /\ restored' = [restored EXCEPT ![o][l] = restored[o][l] + 1]
        /\ UNCHANGED <<status, did, gatewayRefunds, refundRow>>
    BY <1>2, RunningJob DEF JobRelease
  <2>2. Restocked' = Restocked \cup {<<o, l>>}
    <3>1. ASSUME NEW p \in Orders, NEW m \in Lines
          PROVE  restored'[p][m] > 0 <=> restored[p][m] > 0 \/ <<p, m>> = <<o, l>>
      <4>1. restored[p][m] \in Nat
        OBVIOUS
      <4>2. CASE p = o /\ m = l
        BY <2>1, <4>1, <4>2
      <4>3. CASE ~(p = o /\ m = l)
        BY <2>1, <4>1, <4>3
      <4>4. QED
        BY <4>2, <4>3
    <3>2. QED
      BY <2>1, <3>1 DEF Restocked
  <2>3. UNCHANGED <<Paid, Overridden, Booked>>
    BY <2>1 DEF Paid, Overridden, Booked
  <2>4. Ledger!PutBack(o, l)
    BY <2>1, <2>2, <2>3 DEF Ledger!PutBack
  <2>5. QED
    BY <1>2, <2>1, <2>4 DEF Ledger!Next
<1>3. CASE JobGatewayRefund(j)
  <2> DEFINE new == [order |-> o, key |-> o]
  <2>1. /\ job[j].pc = "gateway" /\ o \in Orders
        /\ gatewayRefunds' = gatewayRefunds \cup {new}
        /\ UNCHANGED <<status, did, restored, refundRow>>
    BY <1>3, RunningJob DEF JobGatewayRefund, RefundKey
  <2>2. UNCHANGED <<Paid, Overridden, Booked, Restocked>>
    BY <2>1 DEF Paid, Overridden, Booked, Restocked
  <2>3. CASE \A g \in gatewayRefunds : g.order # o
    <3>1. Ledger!Granted(o)
      BY <2>1, GrantedIsPaid DEF PaymentInv, RefundInv, InTransaction
    <3>2. Ledger!GiveBack(o)
      BY <2>1, <2>2, <2>3, <3>1 DEF Ledger!GiveBack
    <3>3. QED
      BY <2>1, <3>2 DEF Ledger!Next
  <2>4. ASSUME NEW g \in gatewayRefunds, g.order = o
        PROVE  UNCHANGED Ledger!vars
    <3>1. g \in [order : Orders, key : Orders \cup Jobs] /\ g.key = o
      BY <2>4 DEF RefundInv
    <3>2. g = new
      BY <2>4, <3>1
    <3>3. gatewayRefunds' = gatewayRefunds
      BY <2>1, <2>4, <3>2
    <3>4. QED
      BY <2>1, <2>2, <3>3 DEF Ledger!vars
  <2>5. QED
    BY <2>3, <2>4
<1>4. CASE JobRecordRefund(j) \/ JobFail(j) \/ JobLockTimeout(j) \/ JobDuplicateRefund(j)
  <2>1. UNCHANGED <<status, did, gatewayRefunds, restored>>
    BY <1>4 DEF JobRecordRefund, JobFail, JobLockTimeout, JobDuplicateRefund, Rollback, Retried
  <2>2. j # "committed" /\ None # "committed"
    BY OwnersAssumption DEF Owners
  <2>3. \A p \in Orders : refundRow'[p] = "committed" <=> refundRow[p] = "committed"
    BY <1>4, <2>2 DEF JobRecordRefund, JobFail, JobLockTimeout, JobDuplicateRefund, Rollback, Retried
  <2>4. UNCHANGED <<Paid, Overridden, Booked, Restocked>>
    BY <2>1, <2>3 DEF Paid, Overridden, Booked, Restocked
  <2>5. QED
    BY <2>1, <2>4 DEF Ledger!vars
<1>5. CASE JobCommit(j)
  <2> DEFINE kind == job[j].kind
  <2>1. /\ job[j].pc = "commit" /\ o \in Orders /\ kind \in JobKinds
        /\ status' = [status EXCEPT ![o] = JobTarget(kind)]
        /\ did' = [did EXCEPT ![o] = @ \cup {kind}]
        /\ refundRow' = [refundRow EXCEPT ![o] = IF @ = j THEN "committed" ELSE @]
        /\ UNCHANGED <<gatewayRefunds, restored>>
    BY <1>5, RunningJob DEF JobCommit
  <2>2. UNCHANGED <<gatewayRefunds, Paid, Overridden, Restocked>>
    BY <2>1 DEF Paid, Overridden, Restocked, JobKinds
  <2>3. CASE kind = "ORDER_REFUND"
    <3>1. (\E g \in gatewayRefunds : g.order = o) /\ refundRow[o] = j
      BY <2>1, <2>3 DEF RefundInv
    <3>2. o \notin Booked /\ Booked' = Booked \cup {o}
      BY <2>1, <3>1, OwnersAssumption DEF Booked, Owners
    <3>3. Ledger!Refund(o)
      BY <2>1, <2>2, <2>3, <3>1, <3>2 DEF Ledger!Refund, Ledger!Enter, JobTarget
    <3>4. QED
      BY <2>1, <3>3 DEF Ledger!Next
  <2>4. CASE kind # "ORDER_REFUND"
    <3>1. refundRow[o] # j
      BY <2>1, <2>4 DEF OwnersAtWork
    <3>2. UNCHANGED Booked
      BY <2>1, <3>1 DEF Booked
    <3>3. CASE kind = "ORDER_PROCESS"
      <4>1. Ledger!Granted(o)
        BY <2>1, <3>3, GrantedIsPaid DEF PaymentInv, InTransaction
      <4>2. Ledger!HandOver(o)
        BY <2>1, <2>2, <3>2, <3>3, <4>1 DEF Ledger!HandOver, Ledger!Enter, JobTarget
      <4>3. QED
        BY <2>1, <4>2 DEF Ledger!Next
    <3>4. CASE kind = "ORDER_CANCEL"
      <4>1. \A l \in Lines : <<o, l>> \in Restocked
        BY <2>1, <3>4 DEF RestockInv, Restocked
      <4>2. Ledger!Cancel(o)
        BY <2>1, <2>2, <3>2, <3>4, <4>1 DEF Ledger!Cancel, Ledger!Enter, JobTarget
      <4>3. QED
        BY <2>1, <4>2 DEF Ledger!Next
    <3>5. QED
      BY <2>1, <2>4, <3>3, <3>4 DEF JobKinds
  <2>5. QED
    BY <2>3, <2>4
<1>6. QED
  BY <1>1, <1>2, <1>3, <1>4, <1>5 DEF JobStep

\* OrdersService, its webhooks and its jobs implement the ledger for every number of
\* orders, handlers, jobs and attempts: a status is never ahead of the payment, the
\* refund or the returned stock it stands for, and what is recorded stays.
THEOREM KeepsLedgerHolds == Spec => KeepsLedger
<1>1. Init => Ledger!Init
  BY OwnersAssumption DEF Init, Ledger!Init, Paid, Overridden, Booked, Restocked
<1>2. Invariant /\ OwnersAtWork /\ [Next]_vars => [Ledger!Next]_(Ledger!vars)
  <2> SUFFICES ASSUME Invariant, OwnersAtWork, [Next]_vars
               PROVE  [Ledger!Next]_(Ledger!vars)
    OBVIOUS
  <2>1. CASE (\E o \in Orders : LockExpires(o) \/ AdminRemove(o)) \/ UNCHANGED vars
    BY <2>1, LedgerStutter DEF LockExpires, AdminRemove, vars
  <2>2. QED
    BY <2>1, HandlerKeepsLedger, JobKeepsLedger DEF Next, Handles
<1>3. QED
  BY <1>1, <1>2, InvariantHolds, OwnersAtWorkHolds, PTL DEF Spec, KeepsLedger, Ledger!Spec
=============================================================================
