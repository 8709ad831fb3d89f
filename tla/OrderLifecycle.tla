--------------------------- MODULE OrderLifecycle ---------------------------
(***************************************************************************)
(* The life of an order once it is created: the handlers of OrdersService  *)
(* (HTTP requests and payment webhooks) and the three background jobs      *)
(* (process, cancel, refund), interleaved at the granularity of their      *)
(* database statements, Redlock calls and gateway calls.                   *)
(*                                                                         *)
(* A handler runs "take the order-update lock, open a transaction, read,   *)
(* check, save, insert outbox rows, commit, release the lock".  A job runs *)
(* "open a transaction, read and check WITHOUT the lock, do the side       *)
(* effects, take the lock around the UPDATE statement only, commit".       *)
(* PostgreSQL runs at READ COMMITTED: reads see committed statuses only,   *)
(* an UPDATE waits for the row's uncommitted writer.                       *)
(*                                                                         *)
(* An outbox row becomes a waiting job when its transaction commits: that  *)
(* is what module Outbox establishes.                                      *)
(***************************************************************************)
EXTENDS Naturals, OrderTransitionPolicy

CONSTANTS
  Orders,       \* the orders
  Lines,        \* the lines of an order whose item is still in the catalogue
  Requests,     \* handler invocations in flight at one time
  Jobs,         \* ids of outbox rows, hence of jobs (bounds how many exist)
  ServiceOps,   \* the handlers that clients call
  MaxAttempts,  \* attempts of the default job options
  LocksExpire,  \* whether a Redlock lease may run out under its holder
  None          \* no owner

AllOps == {"ship", "deliver", "cancel", "refund", "markPaymentAsSucceeded",
           "markPaymentAsFailed", "adminUpdate"}

JobKinds == {"ORDER_PROCESS", "ORDER_CANCEL", "ORDER_REFUND"}

Owners == Requests \cup Jobs

ASSUME OwnersAssumption ==
  /\ Requests \cap Jobs = {}
  /\ None \notin Owners
  /\ "committed" \notin Owners
  /\ None \notin OrderStatus \cup AllOps \cup JobKinds \cup {"committed"}

ASSUME BoundsAssumption ==
  /\ ServiceOps \subseteq AllOps
  /\ MaxAttempts \in Nat \ {0}
  /\ LocksExpire \in BOOLEAN

VARIABLES
  status,         \* the committed status column of each order
  removed,        \* the orders whose deletedAt is set
  did,            \* history: the operations that committed a save of the order
  lock,           \* the owner of the order-update Redlock key
  writer,         \* the transaction holding the row lock, with its UPDATE uncommitted
  req,            \* the handler invocations
  job,            \* the jobs
  restored,       \* how many times each line's stock was put back
  gatewayRefunds, \* the refunds the payment gateway has made
  refundRow       \* refunds table: no row, a row its inserter has not committed, a row

vars == <<status, removed, did, lock, writer, req, job, restored,
          gatewayRefunds, refundRow>>

-----------------------------------------------------------------------------
(* What an operation does, apart from how it interleaves *)

\* The status a job moves its order to.
JobTarget(kind) ==
  CASE kind = "ORDER_PROCESS" -> "PROCESSED"
    [] kind = "ORDER_CANCEL"  -> "CANCELED"
    [] kind = "ORDER_REFUND"  -> "REFUNDED"

\* The job a handler enqueues, None for the handlers that enqueue none.
Enqueues(op) ==
  CASE op = "cancel"                 -> "ORDER_CANCEL"
    [] op = "refund"                 -> "ORDER_REFUND"
    [] op = "markPaymentAsSucceeded" -> "ORDER_PROCESS"
    [] op = "markPaymentAsFailed"    -> "ORDER_CANCEL"
    [] OTHER                         -> None

\* The statuses a handler may save, {None} for the ones that save no order.
Saves(op) ==
  CASE op = "ship"                   -> {"SHIPPED"}
    [] op = "deliver"                -> {"DELIVERED"}
    [] op = "markPaymentAsSucceeded" -> {"PAID"}
    [] op = "adminUpdate"            -> OrderStatus
    [] OTHER                         -> {None}

\* A bug: ship forgets its precondition.
AcceptsAnyShipment(op, current) ==
  CASE op = "deliver" -> CanTransition(current, "DELIVERED")
    [] op = "cancel"  -> CanTransition(current, "CANCELED")
    [] op = "refund"  -> CanTransition(current, "REFUNDED")
    [] OTHER          -> TRUE

\* The precondition a handler checks on the status it read.  The webhook
\* handlers and adminUpdate check none.
Accepts(op, current) ==
  CASE op = "ship"    -> CanTransition(current, "SHIPPED")
    [] op = "deliver" -> CanTransition(current, "DELIVERED")
    [] op = "cancel"  -> CanTransition(current, "CANCELED")
    [] op = "refund"  -> CanTransition(current, "REFUNDED")
    [] OTHER          -> TRUE

\* A bug: every job asks for the refund under a key of its own.
RefundKeyPerJob(j) == j

\* The idempotency key a refund is requested under: one per order.
RefundKey(j) == job[j].order

\* Bugs: a refund is saved without its row, its row is inserted without the
\* gateway's refund, an order is canceled without its stock.
FirstStepUnrecorded(kind) == IF kind = "ORDER_CANCEL" THEN "release" ELSE "lock"

FirstStepUnpaid(kind) ==
  CASE kind = "ORDER_PROCESS" -> "lock"
    [] kind = "ORDER_CANCEL"  -> "release"
    [] kind = "ORDER_REFUND"  -> "record"

FirstStepUnstocked(kind) == IF kind = "ORDER_REFUND" THEN "gateway" ELSE "lock"

\* A job's first step once its order is validated.
FirstStep(kind) ==
  CASE kind = "ORDER_PROCESS" -> "lock"
    [] kind = "ORDER_CANCEL"  -> "release"
    [] kind = "ORDER_REFUND"  -> "gateway"

-----------------------------------------------------------------------------
(* State *)

RequestPcs == {"idle", "read", "save", "commit", "unlock"}

JobPcs == {"none", "reserved", "waiting", "release", "gateway", "record",
           "lock", "write", "unlock", "commit", "compensate", "compensateRefund",
           "compensateCancel", "done", "failed"}

\* A handler invocation; one under way has an operation and an order.
RequestState ==
  {q \in [pc : RequestPcs, op : AllOps \cup {None}, order : Orders \cup {None},
          read : OrderStatus \cup {None}, target : OrderStatus \cup {None},
          row : Jobs \cup {None}] :
     q.pc # "idle" => /\ q.op \in AllOps
                      /\ q.order \in Orders
                      /\ q.target \in Saves(q.op)
                      /\ q.row # None => Enqueues(q.op) # None}

\* A job; one that may still run has a kind and an order.
JobState ==
  {v \in [pc : JobPcs, kind : JobKinds \cup {None}, order : Orders \cup {None},
          attempts : Nat, todo : SUBSET Lines] :
     v.pc \notin {"none", "reserved", "done", "failed"} =>
       v.kind \in JobKinds /\ v.order \in Orders}

IdleRequest == [pc |-> "idle", op |-> None, order |-> None, read |-> None,
                target |-> None, row |-> None]

NoJob == [pc |-> "none", kind |-> None, order |-> None, attempts |-> 0,
          todo |-> {}]

TypeOK ==
  /\ status \in [Orders -> OrderStatus]
  /\ removed \subseteq Orders
  /\ did \in [Orders -> SUBSET (AllOps \cup JobKinds)]
  /\ lock \in [Orders -> Owners \cup {None}]
  /\ writer \in [Orders -> Owners \cup {None}]
  /\ req \in [Requests -> RequestState]
  /\ job \in [Jobs -> JobState]
  /\ restored \in [Orders -> [Lines -> Nat]]
  /\ gatewayRefunds \subseteq [order : Orders, key : Orders \cup Jobs]
  /\ refundRow \in [Orders -> Jobs \cup {None, "committed"}]

Init ==
  /\ status = [o \in Orders |-> "PENDING"]
  /\ removed = {}
  /\ did = [o \in Orders |-> {}]
  /\ lock = [o \in Orders |-> None]
  /\ writer = [o \in Orders |-> None]
  /\ req = [r \in Requests |-> IdleRequest]
  /\ job = [j \in Jobs |-> NoJob]
  /\ restored = [o \in Orders |-> [l \in Lines |-> 0]]
  /\ gatewayRefunds = {}
  /\ refundRow = [o \in Orders |-> None]

-----------------------------------------------------------------------------
(* Locks, row locks and outbox rows *)

\* A bug: the key is deleted whoever holds it.
ReleaseAny(o, owner) == lock' = [lock EXCEPT ![o] = None]

\* Releasing a Redlock key only deletes it while it still carries the owner's
\* token; an error is swallowed.
Release(o, owner) == lock' = [lock EXCEPT ![o] = IF @ = owner THEN None ELSE @]

\* Rolling back gives the row lock up.
Unwrite(o, owner) == writer' = [writer EXCEPT ![o] = IF @ = owner THEN None ELSE @]

\* A bug: a row is inserted for handlers that enqueue no job.
RowsForAnyOp(op) == {j \in Jobs : job[j].pc = "none"}

\* The outbox row a handler inserts; NoRow when it inserts none.
RowsFor(op) ==
  IF Enqueues(op) = None THEN {None} ELSE {j \in Jobs : job[j].pc = "none"}

Reserve(row) ==
  job' = IF row = None THEN job ELSE [job EXCEPT ![row].pc = "reserved"]

Enqueued(row, kind, o) ==
  IF row = None THEN job
  ELSE [job EXCEPT ![row] = [NoJob EXCEPT !.pc = "waiting", !.kind = kind, !.order = o]]

Unreserve(row) ==
  job' = IF row = None THEN job ELSE [job EXCEPT ![row] = NoJob]

\* The lease of a lock runs out: neither handlers nor jobs extend it.
LockExpires(o) ==
  /\ LocksExpire
  /\ lock[o] # None
  /\ lock' = [lock EXCEPT ![o] = None]
  /\ UNCHANGED <<status, removed, did, writer, req, job, restored,
                 gatewayRefunds, refundRow>>

-----------------------------------------------------------------------------
(* Handlers of OrdersService *)

\* lockAndTransaction: the lock is taken, then the transaction opens.  A caller
\* that cannot get the lock fails with no effect.
RequestLock(r, op, o) ==
  /\ req[r].pc = "idle"
  /\ lock[o] = None
  /\ lock' = [lock EXCEPT ![o] = r]
  /\ \E row \in RowsFor(op), target \in Saves(op) :
       /\ Reserve(row)
       /\ req' = [req EXCEPT ![r] = [pc |-> "read", op |-> op, order |-> o,
                                     read |-> None, target |-> target, row |-> row]]
  /\ UNCHANGED <<status, removed, did, writer, restored, gatewayRefunds, refundRow>>

\* getOrderOrThrow and the precondition check: the order exists and the
\* handler accepts its status.
RequestRead(r) ==
  /\ req[r].pc = "read"
  /\ req[r].order \notin removed
  /\ Accepts(req[r].op, status[req[r].order])
  /\ req' = [req EXCEPT ![r] = [@ EXCEPT !.pc = "save", !.read = status[req[r].order]]]
  /\ UNCHANGED <<status, removed, did, lock, writer, job, restored,
                 gatewayRefunds, refundRow>>

\* NotFoundException or BadRequestException: nothing was written.
RequestReject(r) ==
  /\ req[r].pc = "read"
  /\ \/ req[r].order \in removed
     \/ ~Accepts(req[r].op, status[req[r].order])
  /\ req' = [req EXCEPT ![r] = [@ EXCEPT !.pc = "unlock", !.row = None]]
  /\ Unreserve(req[r].row)
  /\ UNCHANGED <<status, removed, did, lock, writer, restored,
                 gatewayRefunds, refundRow>>

\* save() selects the row again and writes the columns that differ from the
\* committed ones; ship and deliver always have a new date to write.  The UPDATE
\* waits for an uncommitted writer.  The outbox rows go into the same transaction.
RequestSave(r) ==
  LET o == req[r].order
      dirty == /\ req[r].target # None
               /\ req[r].target # status[o] \/ req[r].op \in {"ship", "deliver"}
  IN /\ req[r].pc = "save"
     /\ dirty => writer[o] = None
     /\ writer' = IF dirty THEN [writer EXCEPT ![o] = r] ELSE writer
     /\ req' = [req EXCEPT ![r].pc = "commit"]
     /\ UNCHANGED <<status, removed, did, lock, job, restored,
                    gatewayRefunds, refundRow>>

RequestCommit(r) ==
  LET o == req[r].order
  IN /\ req[r].pc = "commit"
     /\ status' = IF writer[o] = r THEN [status EXCEPT ![o] = req[r].target]
                  ELSE status
     /\ did' = IF req[r].target = None THEN did
               ELSE [did EXCEPT ![o] = @ \cup {req[r].op}]
     /\ Unwrite(o, r)
     /\ job' = Enqueued(req[r].row, Enqueues(req[r].op), o)
     /\ req' = [req EXCEPT ![r] = [@ EXCEPT !.pc = "unlock", !.row = None]]
     /\ UNCHANGED <<removed, lock, restored, gatewayRefunds, refundRow>>

\* Any statement of the transaction fails: rollback.
RequestFail(r) ==
  /\ req[r].pc \in {"read", "save", "commit"}
  /\ Unwrite(req[r].order, r)
  /\ Unreserve(req[r].row)
  /\ req' = [req EXCEPT ![r] = [@ EXCEPT !.pc = "unlock", !.row = None]]
  /\ UNCHANGED <<status, removed, did, lock, restored, gatewayRefunds, refundRow>>

RequestUnlock(r) ==
  /\ req[r].pc = "unlock"
  /\ Release(req[r].order, r)
  /\ req' = [req EXCEPT ![r] = IdleRequest]
  /\ UNCHANGED <<status, removed, did, writer, job, restored,
                 gatewayRefunds, refundRow>>

\* adminRemove runs under a lock key of its own, so it excludes no update; its
\* UPDATE of deletedAt waits for the row lock.
AdminRemove(o) ==
  /\ o \notin removed
  /\ writer[o] = None
  /\ removed' = removed \cup {o}
  /\ UNCHANGED <<status, did, lock, writer, req, job, restored,
                 gatewayRefunds, refundRow>>

-----------------------------------------------------------------------------
(* Jobs *)

\* A job that will not run again: BullMQ keeps it completed or failed.
Ended(j, pc) == [job EXCEPT ![j] = [NoJob EXCEPT !.pc = pc]]

InTransaction(j) ==
  job[j].pc \in {"release", "gateway", "record", "lock", "write", "unlock", "commit"}

\* An attempt starts: validateAndRetrieveOrder reads the order, without any
\* lock, and finds it in a status the target can be entered from.
JobValidate(j) ==
  /\ job[j].pc = "waiting"
  /\ job[j].order \notin removed
  /\ CanTransition(status[job[j].order], JobTarget(job[j].kind))
  /\ job' = [job EXCEPT ![j] = [@ EXCEPT !.pc = FirstStep(job[j].kind), !.todo = Lines]]
  /\ UNCHANGED <<status, removed, did, lock, writer, req, restored,
                 gatewayRefunds, refundRow>>

\* A bug: a job whose order's status does not allow the target waits for it.
JobSkipRemoved(j) ==
  /\ job[j].pc = "waiting"
  /\ job[j].order \in removed
  /\ job' = Ended(j, "done")
  /\ UNCHANGED <<status, removed, did, lock, writer, req, restored,
                 gatewayRefunds, refundRow>>

\* The order is gone or its status does not allow the target: the job returns
\* and is completed.
JobSkip(j) ==
  /\ job[j].pc = "waiting"
  /\ \/ job[j].order \in removed
     \/ ~CanTransition(status[job[j].order], JobTarget(job[j].kind))
  /\ job' = Ended(j, "done")
  /\ UNCHANGED <<status, removed, did, lock, writer, req, restored,
                 gatewayRefunds, refundRow>>

\* releaseInventory puts one line back after the other, each increment in a
\* transaction of its own that commits at once.
JobRelease(j, l) ==
  LET o == job[j].order
  IN /\ job[j].pc = "release"
     /\ l \in job[j].todo
     /\ restored' = [restored EXCEPT ![o][l] = @ + 1]
     /\ job' = [job EXCEPT ![j].todo = @ \ {l}]
     /\ UNCHANGED <<status, removed, did, lock, writer, req, gatewayRefunds, refundRow>>

JobReleased(j) ==
  /\ job[j].pc = "release"
  /\ job[j].todo = {}
  /\ job' = [job EXCEPT ![j].pc = "lock"]
  /\ UNCHANGED <<status, removed, did, lock, writer, req, restored,
                 gatewayRefunds, refundRow>>

\* createRefund asks the gateway for the money; the gateway answers a repeated
\* idempotency key with the refund it made for that key before.
JobGatewayRefund(j) ==
  /\ job[j].pc = "gateway"
  /\ gatewayRefunds' = gatewayRefunds \cup {[order |-> job[j].order, key |-> RefundKey(j)]}
  /\ job' = [job EXCEPT ![j].pc = "record"]
  /\ UNCHANGED <<status, removed, did, lock, writer, req, restored, refundRow>>

\* The refund's row is inserted.  gatewayRefundId is unique: the insert waits
\* while another transaction holds the key uncommitted.
JobRecordRefund(j) ==
  /\ job[j].pc = "record"
  /\ refundRow[job[j].order] = None
  /\ refundRow' = [refundRow EXCEPT ![job[j].order] = j]
  /\ job' = [job EXCEPT ![j].pc = "lock"]
  /\ UNCHANGED <<status, removed, did, lock, writer, req, restored, gatewayRefunds>>

JobLock(j) ==
  /\ job[j].pc = "lock"
  /\ lock[job[j].order] = None
  /\ lock' = [lock EXCEPT ![job[j].order] = j]
  /\ job' = [job EXCEPT ![j].pc = "write"]
  /\ UNCHANGED <<status, removed, did, writer, req, restored, gatewayRefunds, refundRow>>

\* UPDATE orders SET status = target WHERE id = ..., unconditional.
JobWrite(j) ==
  /\ job[j].pc = "write"
  /\ writer[job[j].order] = None
  /\ writer' = [writer EXCEPT ![job[j].order] = j]
  /\ job' = [job EXCEPT ![j].pc = "unlock"]
  /\ UNCHANGED <<status, removed, did, lock, req, restored, gatewayRefunds, refundRow>>

\* updateOrderWithLock returns: the lock is given up before the transaction
\* commits.
JobUnlock(j) ==
  /\ job[j].pc = "unlock"
  /\ Release(job[j].order, j)
  /\ job' = [job EXCEPT ![j].pc = "commit"]
  /\ UNCHANGED <<status, removed, did, writer, req, restored, gatewayRefunds, refundRow>>

\* An attempt counts as failed.  The job is tried again until its attempts are used up; then
\* the failed handler runs, which does nothing but log for the cancel and the refund job.
Retried(j) ==
  LET used == job[j].attempts + 1
  IN IF used < MaxAttempts
     THEN [job EXCEPT ![j] = [@ EXCEPT !.pc = "waiting", !.attempts = used, !.todo = {}]]
     ELSE IF job[j].kind = "ORDER_PROCESS"
     THEN [job EXCEPT ![j] = [@ EXCEPT !.pc = "compensate", !.attempts = used, !.todo = {}]]
     ELSE Ended(j, "failed")

\* The notification row and the commit.  The job is completed, or the marker of its execution
\* is not written after the commit and the attempt fails all the same.
JobCommit(j) ==
  LET o == job[j].order
  IN /\ job[j].pc = "commit"
     /\ status' = [status EXCEPT ![o] = JobTarget(job[j].kind)]
     /\ did' = [did EXCEPT ![o] = @ \cup {job[j].kind}]
     /\ Unwrite(o, j)
     /\ refundRow' = [refundRow EXCEPT ![o] = IF @ = j THEN "committed" ELSE @]
     /\ job' \in {Ended(j, "done"), Retried(j)}
     /\ UNCHANGED <<removed, lock, req, restored, gatewayRefunds>>

\* What an attempt that throws leaves behind: everything of its transaction is
\* rolled back, nothing of the increments and of the gateway's refund is.
Rollback(j) ==
  LET o == job[j].order
  IN /\ Unwrite(o, j)
     /\ Release(o, j)
     /\ refundRow' = [refundRow EXCEPT ![o] = IF @ = j THEN None ELSE @]
     /\ job' = Retried(j)
     /\ UNCHANGED <<status, removed, did, req, restored, gatewayRefunds>>

\* Any call of the attempt throws, its job lock, its marker and its first read included.
JobFail(j) == (job[j].pc = "waiting" \/ InTransaction(j)) /\ Rollback(j)

\* Redlock gives up after its retries: the lock is still held by another owner.
JobLockTimeout(j) ==
  /\ job[j].pc = "lock"
  /\ lock[job[j].order] # None
  /\ Rollback(j)

\* The insert meets a committed row with its gatewayRefundId.
JobDuplicateRefund(j) ==
  /\ job[j].pc = "record"
  /\ refundRow[job[j].order] = "committed"
  /\ Rollback(j)

\* compensationLogic reads the order ...
JobCompensate(j) ==
  LET o == job[j].order
  IN /\ job[j].pc = "compensate"
     /\ job' = IF o \in removed THEN Ended(j, "failed")
               ELSE IF CanTransition(status[o], "REFUNDED")
               THEN [job EXCEPT ![j].pc = "compensateRefund"]
               ELSE [job EXCEPT ![j].pc = "compensateCancel"]
     /\ UNCHANGED <<status, removed, did, lock, writer, req, restored,
                    gatewayRefunds, refundRow>>

\* ... and enqueues a refund job if the payment was captured, a cancel job if
\* it was not, with the notification, in one transaction.
JobEnqueueCompensation(j, row) ==
  /\ job[j].pc \in {"compensateRefund", "compensateCancel"}
  /\ job[row].pc = "none"
  /\ LET kind == IF job[j].pc = "compensateRefund" THEN "ORDER_REFUND" ELSE "ORDER_CANCEL"
     IN job' = [Ended(j, "failed") EXCEPT
                  ![row] = [NoJob EXCEPT !.pc = "waiting", !.kind = kind, !.order = job[j].order]]
  /\ UNCHANGED <<status, removed, did, lock, writer, req, restored,
                 gatewayRefunds, refundRow>>

\* An error of the compensation is logged and swallowed: nothing is persisted
\* and nothing retries it.
JobCompensationLost(j) ==
  /\ job[j].pc \in {"compensate", "compensateRefund", "compensateCancel"}
  /\ job' = Ended(j, "failed")
  /\ UNCHANGED <<status, removed, did, lock, writer, req, restored,
                 gatewayRefunds, refundRow>>

-----------------------------------------------------------------------------
(* Specification *)

\* What a handler, and a job, does unless something fails.
RequestStep(r) ==
  RequestRead(r) \/ RequestReject(r) \/ RequestSave(r) \/ RequestCommit(r) \/ RequestUnlock(r)

JobStep(j) ==
  \/ JobValidate(j) \/ JobSkip(j)
  \/ (\E l \in Lines : JobRelease(j, l)) \/ JobReleased(j)
  \/ JobGatewayRefund(j) \/ JobRecordRefund(j) \/ JobDuplicateRefund(j)
  \/ JobLock(j) \/ JobLockTimeout(j) \/ JobWrite(j) \/ JobUnlock(j) \/ JobCommit(j)
  \/ JobCompensate(j) \/ (\E row \in Jobs : JobEnqueueCompensation(j, row))
  \/ JobCompensationLost(j)

Next ==
  \/ \E o \in Orders : LockExpires(o) \/ AdminRemove(o)
  \/ \E r \in Requests :
       \/ \E op \in ServiceOps, o \in Orders : RequestLock(r, op, o)
       \/ RequestStep(r)
       \/ RequestFail(r)
  \/ \E j \in Jobs : JobStep(j) \/ JobFail(j)

Spec == Init /\ [][Next]_vars

\* Handlers and workers keep running: a step that stays possible is taken.  No
\* fairness for clients, for failures, or for the expiry of a lease.
Fairness ==
  /\ \A r \in Requests : WF_vars(RequestStep(r))
  /\ \A j \in Jobs : WF_vars(JobStep(j))

FairSpec == Spec /\ Fairness

-----------------------------------------------------------------------------
(* Properties *)

PaidOrOverridden(o) == did[o] \cap {"markPaymentAsSucceeded", "adminUpdate"} # {}

\* However handlers, webhooks and jobs interleave, an order is prepared,
\* shipped or delivered only if a payment success (or an administrator's
\* override) was committed for it before.
GoodsArePaidFor ==
  \A o \in Orders : status[o] \in {"PROCESSED", "SHIPPED", "DELIVERED"} => PaidOrOverridden(o)

\* The gateway never gives back money for an order that was not paid.
RefundsArePaidFor ==
  \A g \in gatewayRefunds : PaidOrOverridden(g.order)

\* Two refund jobs, the attempts of one, and a refund that was made by an
\* attempt that was then rolled back: the gateway refunds an order once.
RefundedOnce ==
  \A g, h \in gatewayRefunds : g.order = h.order => g = h

\* An order stands at REFUNDED only when the money went back and the refunds
\* table says so (unless an administrator wrote the status).
RefundedIsBacked ==
  \A o \in Orders :
    status[o] = "REFUNDED" /\ "adminUpdate" \notin did[o] =>
      /\ \E g \in gatewayRefunds : g.order = o
      /\ refundRow[o] = "committed"

\* What the ledger sees of the state.
Paid       == {o \in Orders : "markPaymentAsSucceeded" \in did[o]}
Overridden == {o \in Orders : "adminUpdate" \in did[o]}
Booked     == {o \in Orders : refundRow[o] = "committed"}
Restocked  == {p \in Orders \X Lines : restored[p[1]][p[2]] > 0}

Ledger == INSTANCE OrderLedger WITH
  paid <- Paid, overridden <- Overridden, refunds <- gatewayRefunds,
  booked <- Booked, restocked <- Restocked

\* With locks, transactions, jobs, attempts and failures taken away, orders follow
\* the ledger: no step of a handler or a job gives an order a status that the
\* payments, refunds and stock of the ledger do not cover, and none takes a
\* payment, a refund or returned stock back.
KeepsLedger == Ledger!Spec

\* An order stands at CANCELED only when all its stock was put back.
CanceledIsRestocked ==
  \A o \in Orders :
    status[o] = "CANCELED" /\ "adminUpdate" \notin did[o] =>
      \A l \in Lines : restored[o][l] > 0

\* The strengthenings that make the invariants above inductive.

\* A handler holds an order's row lock only between its save and its commit.
HandlerWrites ==
  \A o \in Orders, r \in Requests :
    writer[o] = r => req[r].pc = "commit" /\ req[r].order = o /\ req[r].target # None

\* Whoever relies on a payment has seen a status that only a payment leads to.
PaymentInv ==
  /\ \A o \in Orders :
       status[o] \in {"PAID", "PROCESSED", "SHIPPED", "DELIVERED"} => PaidOrOverridden(o)
  /\ \A r \in Requests :
       req[r].pc \in {"save", "commit"} /\ req[r].op \in {"ship", "deliver"} =>
         PaidOrOverridden(req[r].order)
  /\ \A j \in Jobs :
       InTransaction(j) /\ job[j].kind \in {"ORDER_PROCESS", "ORDER_REFUND"} =>
         PaidOrOverridden(job[j].order)
  /\ RefundsArePaidFor

\* A line in the refunds table is backed by a refund of the gateway, even while
\* its transaction may still be rolled back.
RefundRowIsBacked ==
  \A o \in Orders : refundRow[o] # None => \E g \in gatewayRefunds : g.order = o

\* The refund comes before its row, the row before the status.
RefundInv ==
  /\ \A g \in gatewayRefunds : g.key = g.order
  /\ \A j \in Jobs :
       /\ job[j].pc \in {"gateway", "record"} => job[j].kind = "ORDER_REFUND"
       /\ job[j].kind = "ORDER_REFUND" =>
            /\ job[j].pc \in {"record", "lock", "write", "unlock", "commit"} =>
                 \E g \in gatewayRefunds : g.order = job[j].order
            /\ job[j].pc \in {"lock", "write", "unlock", "commit"} =>
                 refundRow[job[j].order] = j
  /\ RefundRowIsBacked
  /\ RefundedIsBacked

\* The stock comes before the status.
RestockInv ==
  /\ \A j \in Jobs :
       /\ job[j].pc = "release" => job[j].kind = "ORDER_CANCEL"
       /\ job[j].kind = "ORDER_CANCEL" =>
            /\ job[j].pc = "release" =>
                 \A l \in Lines \ job[j].todo : restored[job[j].order][l] > 0
            /\ job[j].pc \in {"lock", "write", "unlock", "commit"} =>
                 \A l \in Lines : restored[job[j].order][l] > 0
  /\ CanceledIsRestocked

\* The statuses that jobs of the order have written.
WrittenByJobs(o) == {JobTarget(kind) : kind \in did[o] \cap JobKinds}

\* Under a lease that outlasts its holder, the status a handler checked is the
\* committed one until it commits, unless a job, which writes without keeping
\* the lock, has put its own there.
ReadStaysFresh ==
  ~LocksExpire =>
    \A r \in Requests :
      req[r].pc \in {"save", "commit"} =>
        \/ req[r].read = status[req[r].order]
        \/ status[req[r].order] \in WrittenByJobs(req[r].order)

\* So a handler that checks the policy commits only what the policy allows from
\* the status that is committed at that moment: a shipment, a delivery, or the
\* job of a cancellation or a refund.  Jobs are the one thing that can break it.
HandlersFollowPolicy ==
  [][~LocksExpire =>
       \A r \in Requests :
         RequestCommit(r) /\ status[req[r].order] \notin WrittenByJobs(req[r].order) =>
           /\ req[r].op \in {"ship", "deliver"} =>
                CanTransition(status[req[r].order], req[r].target)
           /\ req[r].op \in {"cancel", "refund"} =>
                CanTransition(status[req[r].order], JobTarget(Enqueues(req[r].op)))]_vars

\* Whatever fails, times out or expires: a Redlock key, a row lock and a refund's
\* uncommitted row have an owner that is still at work on that order and has the
\* step ahead that gives them up, and no two operations insert one outbox row.  So
\* nobody waits for an owner that is gone.
OwnersAtWork ==
  /\ \A o \in Orders, r \in Requests :
       /\ lock[o] = r => req[r].pc # "idle" /\ req[r].order = o
       /\ writer[o] = r => req[r].pc = "commit" /\ req[r].order = o
  /\ \A o \in Orders, j \in Jobs :
       /\ lock[o] = j => job[j].pc \in {"write", "unlock"} /\ job[j].order = o
       /\ writer[o] = j => job[j].pc \in {"unlock", "commit"} /\ job[j].order = o
       /\ refundRow[o] = j =>
            /\ job[j].pc \in {"lock", "write", "unlock", "commit"}
            /\ job[j].kind = "ORDER_REFUND" /\ job[j].order = o
  /\ \A r \in Requests :
       req[r].row # None =>
         /\ job[req[r].row].pc = "reserved"
         /\ \A q \in Requests \ {r} : req[q].row # req[r].row

\* What README.md says of jobs, "Before executing, the strategy re-reads the
\* database and validates the precondition", and of the order-update lock, "The
\* lock covers the full transaction": a job moves an order only from a status
\* that its target can be entered from.  The code reads before it takes the lock
\* and gives the lock up before it commits.
JobsFollowPolicy ==
  [][\A j \in Jobs :
       JobCommit(j) => CanTransition(status[job[j].order], JobTarget(job[j].kind))]_vars

\* What README.md says of webhooks, "concurrent webhook deliveries for the same
\* order don't cause split-brain state": a payment success that is delivered
\* again, or late, does not take an order back to PAID.
WebhooksNeverRewind ==
  [][\A r \in Requests :
       RequestCommit(r) /\ req[r].op = "markPaymentAsSucceeded" =>
         status[req[r].order] \in {"PENDING", "PAID"}]_vars

\* Every job ends, in a completed or a failed state, whatever its attempts met.
JobsSettle ==
  \A j \in Jobs : job[j].pc = "waiting" ~> job[j].pc \in {"done", "failed"}
=============================================================================
