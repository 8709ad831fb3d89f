------------------------------- MODULE Outbox -------------------------------
(***************************************************************************)
(* The transactional outbox: OutboxService.add inserts a row in the        *)
(* caller's transaction; OutboxCronProcessor, run every five seconds and   *)
(* after each add in every instance of the API, takes a batch of rows with *)
(* SELECT ... FOR UPDATE SKIP LOCKED, gives each queue its part with one   *)
(* addBulk, deletes the rows and commits.  PostgreSQL and Redis commit     *)
(* apart, so an instance may die, or a call fail, between any two of them. *)
(***************************************************************************)
EXTENDS Naturals, Sequences, FiniteSets

CONSTANTS
  Messages,    \* the messages services add, by the id of their row
  CreatedAt,   \* the created_at of each row: the start of its transaction
  QueueOf,     \* the queue OutboxDispatcher sends each message to
  Queues,      \* the queues, in the order dispatch serves them
  Instances,   \* the API processes
  Runs,        \* invocations of process() under way at one time
  InstanceOf,  \* the process each of them runs in
  Limit,       \* rows in a batch (100 in the code)
  MaxFaults    \* bound on crashes, calls that throw and shutdowns together

ASSUME OutboxAssumption ==
  /\ CreatedAt \in [Messages -> Nat]
  /\ QueueOf \in [Messages -> {Queues[i] : i \in 1 .. Len(Queues)}]
  /\ Len(Queues) \in Nat
  /\ \A i, k \in 1 .. Len(Queues) : Queues[i] = Queues[k] => i = k
  /\ InstanceOf \in [Runs -> Instances]
  /\ Limit \in Nat \ {0}
  /\ MaxFaults \in Nat

VARIABLES
  row,          \* the outbox row of each message
  sent,         \* how many addBulk calls brought each message to its queue
  isProcessing, \* the flag of the cron processor, per instance
  isShuttingDown,
  run,          \* the invocations of process()
  faults,       \* crashes and calls that threw so far
  shutdowns     \* shutdowns so far

vars == <<row, sent, isProcessing, isShuttingDown, run, faults, shutdowns>>

RowStates == {"none", "uncommitted", "present", "deleted", "rolledBack"}

\* A bug: the parts are counted from zero.
IdleFromZero == [pc |-> "idle", batch |-> {}, next |-> 0, deletes |-> FALSE]

Idle == [pc |-> "idle", batch |-> {}, next |-> 1, deletes |-> FALSE]

RunState == [pc : {"idle", "find", "dispatch", "delete", "commit"},
             batch : SUBSET Messages, next : 1 .. Len(Queues) + 1, deletes : BOOLEAN]

TypeOK ==
  /\ row \in [Messages -> RowStates]
  /\ sent \in [Messages -> Nat]
  /\ isProcessing \in [Instances -> BOOLEAN]
  /\ isShuttingDown \in [Instances -> BOOLEAN]
  /\ run \in [Runs -> RunState]
  /\ faults \in Nat
  /\ shutdowns \in Nat

Init ==
  /\ row = [m \in Messages |-> "none"]
  /\ sent = [m \in Messages |-> 0]
  /\ isProcessing = [i \in Instances |-> FALSE]
  /\ isShuttingDown = [i \in Instances |-> FALSE]
  /\ run = [r \in Runs |-> Idle]
  /\ faults = 0
  /\ shutdowns = 0

-----------------------------------------------------------------------------
(* The transactions of the services *)

Add(m) ==
  /\ row[m] = "none"
  /\ row' = [row EXCEPT ![m] = "uncommitted"]
  /\ UNCHANGED <<sent, isProcessing, isShuttingDown, run, faults, shutdowns>>

TransactionCommits(m) ==
  /\ row[m] = "uncommitted"
  /\ row' = [row EXCEPT ![m] = "present"]
  /\ UNCHANGED <<sent, isProcessing, isShuttingDown, run, faults, shutdowns>>

TransactionRollsBack(m) ==
  /\ row[m] = "uncommitted"
  /\ row' = [row EXCEPT ![m] = "rolledBack"]
  /\ UNCHANGED <<sent, isProcessing, isShuttingDown, run, faults, shutdowns>>

-----------------------------------------------------------------------------
(* One invocation of process() *)

\* A bug: SELECT without FOR UPDATE SKIP LOCKED.
LockedNothing == {}

\* A bug: a run's locks end with its last addBulk, and the delete follows alone.
LockedInDispatch == UNION {run[r].batch : r \in {q \in Runs : run[q].pc = "dispatch"}}

Locked == UNION {run[r].batch : r \in Runs}

\* A bug: the SELECT goes on from the newest row that was dispatched.
VisibleSinceLast ==
  {m \in Messages :
     row[m] = "present" /\ \A n \in Messages : row[n] = "deleted" => CreatedAt[n] <= CreatedAt[m]}
    \ Locked

\* The rows a SELECT sees and need not skip.
Visible == {m \in Messages : row[m] = "present"} \ Locked

\* The oldest rows, at most Limit of them.
Batch(b) ==
  /\ Cardinality(b) = IF Cardinality(Visible) < Limit THEN Cardinality(Visible) ELSE Limit
  /\ \A m \in b, n \in Visible \ b : CreatedAt[m] <= CreatedAt[n]

\* Bugs: a run that does not look at isProcessing, or at isShuttingDown.
StartUnserialised(r) ==
  /\ run[r].pc = "idle"
  /\ ~isShuttingDown[InstanceOf[r]]
  /\ isProcessing' = [isProcessing EXCEPT ![InstanceOf[r]] = TRUE]
  /\ run' = [run EXCEPT ![r].pc = "find"]
  /\ UNCHANGED <<row, sent, isShuttingDown, faults, shutdowns>>

StartInShutdown(r) ==
  /\ run[r].pc = "idle"
  /\ ~isProcessing[InstanceOf[r]]
  /\ isProcessing' = [isProcessing EXCEPT ![InstanceOf[r]] = TRUE]
  /\ run' = [run EXCEPT ![r].pc = "find"]
  /\ UNCHANGED <<row, sent, isShuttingDown, faults, shutdowns>>

\* The cron, or the setImmediate of add and of a full batch: a transaction is
\* opened, then the flags are looked at.  When one is set nothing happens.
Start(r) ==
  LET i == InstanceOf[r]
  IN /\ run[r].pc = "idle"
     /\ ~isShuttingDown[i] /\ ~isProcessing[i]
     /\ isProcessing' = [isProcessing EXCEPT ![i] = TRUE]
     /\ run' = [run EXCEPT ![r].pc = "find"]
     /\ UNCHANGED <<row, sent, isShuttingDown, faults, shutdowns>>

FindAndLockBatch(r) ==
  /\ run[r].pc = "find"
  /\ \E b \in SUBSET Visible :
       /\ Batch(b)
       /\ IF b = {}
          THEN /\ run' = [run EXCEPT ![r].pc = "commit"]
               /\ isProcessing' = [isProcessing EXCEPT ![InstanceOf[r]] = FALSE]
          ELSE /\ run' = [run EXCEPT ![r] = [@ EXCEPT !.pc = "dispatch", !.batch = b]]
               /\ UNCHANGED isProcessing
  /\ UNCHANGED <<row, sent, isShuttingDown, faults, shutdowns>>

\* One addBulk, which Redis runs as one transaction.  A job whose id the queue holds
\* already, finished or not, is not added again.
Dispatch(r) ==
  LET part == {m \in run[r].batch : QueueOf[m] = Queues[run[r].next]}
  IN /\ run[r].pc = "dispatch"
     /\ run[r].next <= Len(Queues)
     /\ sent' = [m \in Messages |-> IF m \in part THEN sent[m] + 1 ELSE sent[m]]
     /\ run' = [run EXCEPT ![r].next = @ + 1]
     /\ UNCHANGED <<row, isProcessing, isShuttingDown, faults, shutdowns>>

\* A bug: the last queue's part is left out.
DispatchedButOne(r) ==
  /\ run[r].pc = "dispatch"
  /\ run[r].next = Len(Queues)
  /\ run' = [run EXCEPT ![r].pc = "delete"]
  /\ UNCHANGED <<row, sent, isProcessing, isShuttingDown, faults, shutdowns>>

Dispatched(r) ==
  /\ run[r].pc = "dispatch"
  /\ run[r].next = Len(Queues) + 1
  /\ run' = [run EXCEPT ![r].pc = "delete"]
  /\ UNCHANGED <<row, sent, isProcessing, isShuttingDown, faults, shutdowns>>

\* deleteBulk, and the flag is given back, before the commit.
DeleteBulk(r) ==
  /\ run[r].pc = "delete"
  /\ run' = [run EXCEPT ![r] = [@ EXCEPT !.pc = "commit", !.deletes = TRUE]]
  /\ isProcessing' = [isProcessing EXCEPT ![InstanceOf[r]] = FALSE]
  /\ UNCHANGED <<row, sent, isShuttingDown, faults, shutdowns>>

\* A call of the database or of Redis throws, whether or not it took effect:
\* the error is swallowed and the flag given back; the commit has nothing to
\* delete.
Fails(r) ==
  /\ faults + shutdowns < MaxFaults
  /\ run[r].pc \in {"find", "dispatch", "delete"}
  /\ run' = [run EXCEPT ![r].pc = "commit"]
  /\ isProcessing' = [isProcessing EXCEPT ![InstanceOf[r]] = FALSE]
  /\ faults' = faults + 1
  /\ UNCHANGED <<row, sent, isShuttingDown, shutdowns>>

Commit(r) ==
  /\ run[r].pc = "commit"
  /\ row' = [m \in Messages |->
               IF run[r].deletes /\ m \in run[r].batch THEN "deleted" ELSE row[m]]
  /\ run' = [run EXCEPT ![r] = Idle]
  /\ UNCHANGED <<sent, isProcessing, isShuttingDown, faults, shutdowns>>

CommitFails(r) ==
  /\ faults + shutdowns < MaxFaults
  /\ run[r].pc = "commit"
  /\ run' = [run EXCEPT ![r] = Idle]
  /\ faults' = faults + 1
  /\ UNCHANGED <<row, sent, isProcessing, isShuttingDown, shutdowns>>

-----------------------------------------------------------------------------
(* The life of an instance *)

\* The connections die with the process: PostgreSQL rolls its transactions back.
Restarted(i) ==
  /\ isProcessing' = [isProcessing EXCEPT ![i] = FALSE]
  /\ isShuttingDown' = [isShuttingDown EXCEPT ![i] = FALSE]
  /\ run' = [r \in Runs |-> IF InstanceOf[r] = i THEN Idle ELSE run[r]]

Crash(i) ==
  /\ faults + shutdowns < MaxFaults
  /\ faults' = faults + 1
  /\ Restarted(i)
  /\ UNCHANGED <<row, sent, shutdowns>>

\* onModuleDestroy begins, and polls isProcessing.
ShutDown(i) ==
  /\ faults + shutdowns < MaxFaults
  /\ ~isShuttingDown[i]
  /\ isShuttingDown' = [isShuttingDown EXCEPT ![i] = TRUE]
  /\ shutdowns' = shutdowns + 1
  /\ UNCHANGED <<row, sent, isProcessing, run, faults>>

\* It returns once the flag is given back; the connection pool then waits for
\* the transactions that still have to commit.
Exit(i) ==
  /\ isShuttingDown[i]
  /\ ~isProcessing[i]
  /\ \A r \in Runs : InstanceOf[r] = i => run[r].pc = "idle"
  /\ Restarted(i)
  /\ UNCHANGED <<row, sent, faults, shutdowns>>

-----------------------------------------------------------------------------

RunStep(r) ==
  FindAndLockBatch(r) \/ Dispatch(r) \/ Dispatched(r) \/ DeleteBulk(r) \/ Commit(r)

Next ==
  \/ \E m \in Messages : Add(m) \/ TransactionCommits(m) \/ TransactionRollsBack(m)
  \/ \E r \in Runs : Start(r) \/ RunStep(r) \/ Fails(r) \/ CommitFails(r)
  \/ \E i \in Instances : Crash(i) \/ ShutDown(i) \/ Exit(i)

Spec == Init /\ [][Next]_vars

\* The cron keeps firing in an instance that is up, a run that can go on goes
\* on, a shutdown that can end ends.  Failures and shutdowns are bounded by
\* MaxFaults and never owed.
Fairness ==
  /\ \A i \in Instances : WF_vars(\E r \in Runs : InstanceOf[r] = i /\ Start(r))
  /\ \A r \in Runs : WF_vars(RunStep(r))
  /\ \A i \in Instances : WF_vars(Exit(i))

FairSpec == Spec /\ Fairness

-----------------------------------------------------------------------------
(* Properties *)

Enqueued == {m \in Messages : sent[m] > 0}

\* A message is accepted once its row is committed, and stays so: the row is
\* there until the message has a job.
Accepted == {m \in Messages : row[m] = "present"} \cup Enqueued

Delivery == INSTANCE ReliableDelivery WITH accepted <- Accepted, delivered <- Enqueued

\* The outbox implements reliable delivery: no message of a transaction that
\* rolled back reaches a queue, and no accepted message is lost, whatever dies
\* or fails between addBulk, the delete and the commit.
DeliversReliably == Delivery!Spec

\* An accepted message gets its job, in any of the queues, however many rows
\* are older, once failures cease.
DeliversEventually == Delivery!EveryMessageDelivered

\* While nothing fails a message is brought to its queue once, however many
\* instances and runs look for rows, and each time more it is costs a crash, a
\* call that threw or a commit that failed; a shutdown costs none.
SentAgainOnlyAfterFault == \A m \in Messages : sent[m] <= 1 + faults

\* A row is in the batch of one run at a time, of any instance, from its SELECT
\* to its commit, and is there for as long.
RowsAreHeld ==
  \A r \in Runs :
    /\ \A m \in run[r].batch : row[m] = "present"
    /\ \A s \in Runs \ {r} : run[r].batch \cap run[s].batch = {}

\* isProcessing serialises an instance's work: two of its runs never look for
\* rows or dispatch at the same time, although the flag goes back before the
\* commit.
Working(r) == run[r].pc \in {"find", "dispatch", "delete"}

OneRunAtATime ==
  \A r, s \in Runs :
    r # s /\ InstanceOf[r] = InstanceOf[s] => ~(Working(r) /\ Working(s))

\* A shutdown does not wait for ever on a processor that starts itself again.
ShutdownEnds == \A i \in Instances : isShuttingDown[i] ~> ~isShuttingDown[i]

\* The strengthenings behind DeliversReliably and SentAgainOnlyAfterFault.

\* Where a run stands tells which of its messages have their jobs.
RunInv ==
  \A r \in Runs :
    /\ run[r].pc \in {"idle", "find"} => run[r] = [Idle EXCEPT !.pc = run[r].pc]
    /\ run[r].deletes => run[r].pc = "commit"
    /\ run[r].pc = "dispatch" =>
         \A m \in run[r].batch, i \in 1 .. Len(Queues) :
           i < run[r].next /\ QueueOf[m] = Queues[i] => sent[m] > 0
    /\ run[r].pc = "delete" \/ run[r].deletes => \A m \in run[r].batch : sent[m] > 0

\* A run has sent m, and goes on towards its delete.
Served(r, m) ==
  /\ m \in run[r].batch
  /\ \/ /\ run[r].pc = "dispatch"
        /\ \E i \in 1 .. Len(Queues) : i < run[r].next /\ QueueOf[m] = Queues[i]
     \/ run[r].pc = "delete"
     \/ run[r].deletes

\* Only a message that is deleted, or about to be, was sent once more than
\* failures account for.
SentInv ==
  \A m \in Messages :
    /\ sent[m] <= 1 + faults
    /\ sent[m] > faults => row[m] = "deleted" \/ \E r \in Runs : Served(r, m)
=============================================================================
