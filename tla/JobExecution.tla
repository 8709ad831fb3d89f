---------------------------- MODULE JobExecution ----------------------------
(***************************************************************************)
(* How a job runs: BullMQ hands it to a worker, BaseProcessor takes the    *)
(* Redlock key of the job, looks at the job's idempotency marker in the    *)
(* cache, marks it IN_PROGRESS, runs the strategy, marks the outcome and   *)
(* gives the lock up; when the last attempt has failed the same road leads *)
(* to the strategy's executeAfterFail.  Workers crash, BullMQ takes jobs   *)
(* away from workers that do not renew them, leases and markers expire,    *)
(* and every call of the cache may fail.                                   *)
(***************************************************************************)
EXTENDS Naturals

CONSTANTS
  Jobs,           \* the jobs of the queues
  Workers,        \* the places in which a job runs, in all instances
  MaxAttempts,    \* attempts of the default job options (3)
  MaxStalls,      \* maxStalledCount of the processors (1)
  MaxCrashes,     \* bound on crashes of workers
  None,           \* no worker, no marker
  Dead            \* the owner of a lock whose holder crashed

ASSUME ExecutionAssumption ==
  /\ MaxAttempts \in Nat \ {0}
  /\ MaxStalls \in Nat
  /\ MaxCrashes \in Nat
  /\ None \notin Workers /\ Dead \notin Workers /\ None # Dead
  /\ None \notin {"IN_PROGRESS", "COMPLETED", "FAILED"}

VARIABLES
  state,       \* BullMQ's state of each job
  attempts,    \* attemptsMade
  stalls,      \* how often BullMQ found the job without a worker
  holder,      \* the worker that renews BullMQ's own lock of the job
  lease,       \* the owner of the Redlock key job-execute:<id>
  marker,      \* the idempotency marker of the job in the cache
  worker,      \* the workers
  executed,    \* how many times the strategy's execute committed
  compensated, \* how many times its executeAfterFail did
  crashes,
  faults       \* what failed around each job

vars == <<state, attempts, stalls, holder, lease, marker, worker, executed,
          compensated, crashes, faults>>

\* The lease of a live holder or the marker ran out, or a call of the cache failed:
\* a get that was taken for a miss, or the set of the value that is named.
FaultNames == {"lease", "marker", "get", "IN_PROGRESS", "COMPLETED", "FAILED"}

JobStates == {"waiting", "active", "completed", "failed"}

Markers == {"IN_PROGRESS", "COMPLETED", "FAILED"}

WorkerPcs == {"idle", "acquire", "get", "set", "execute", "succeeded", "threw",
              "release", "settle"}

\* A worker that runs nothing; job is kept from its last run, and means nothing.
WorkerState == [pc : WorkerPcs, job : Jobs \cup {None}, event : {"process", "failed"},
                throws : BOOLEAN]

IdleWorker == [pc |-> "idle", job |-> None, event |-> "process", throws |-> FALSE]

TypeOK ==
  /\ state \in [Jobs -> JobStates]
  /\ attempts \in [Jobs -> Nat]
  /\ stalls \in [Jobs -> Nat]
  /\ holder \in [Jobs -> Workers \cup {None}]
  /\ lease \in [Jobs -> Workers \cup {None, Dead}]
  /\ marker \in [Jobs -> Markers \cup {None}]
  /\ worker \in [Workers -> WorkerState]
  /\ \A w \in Workers : worker[w].pc # "idle" => worker[w].job \in Jobs
  /\ executed \in [Jobs -> Nat]
  /\ compensated \in [Jobs -> Nat]
  /\ crashes \in Nat
  /\ faults \in [Jobs -> SUBSET FaultNames]

Init ==
  /\ state = [j \in Jobs |-> "waiting"]
  /\ attempts = [j \in Jobs |-> 0]
  /\ stalls = [j \in Jobs |-> 0]
  /\ holder = [j \in Jobs |-> None]
  /\ lease = [j \in Jobs |-> None]
  /\ marker = [j \in Jobs |-> None]
  /\ worker = [w \in Workers |-> IdleWorker]
  /\ executed = [j \in Jobs |-> 0]
  /\ compensated = [j \in Jobs |-> 0]
  /\ crashes = 0
  /\ faults = [j \in Jobs |-> {}]

Move(w, pc) == worker' = [worker EXCEPT ![w].pc = pc]

\* The run ends, its lock is given up, and BullMQ is told whether it threw.
Return(w, throws) == worker' = [worker EXCEPT ![w] = [@ EXCEPT !.pc = "release",
                                                               !.throws = throws]]

Record(j, fault) == faults' = [faults EXCEPT ![j] = @ \cup {fault}]

-----------------------------------------------------------------------------
(* BullMQ *)

\* A bug: a worker loses track of its job.
FetchNothing(w, j) ==
  /\ worker[w].pc = "idle"
  /\ state[j] = "waiting"
  /\ state' = [state EXCEPT ![j] = "active"]
  /\ holder' = [holder EXCEPT ![j] = w]
  /\ worker' = [worker EXCEPT ![w].pc = "acquire"]
  /\ UNCHANGED <<attempts, stalls, lease, marker, executed, compensated, crashes, faults>>

\* A worker takes a job that waits, a first time or again after the backoff.
Fetch(w, j) ==
  /\ worker[w].pc = "idle"
  /\ state[j] = "waiting"
  /\ state' = [state EXCEPT ![j] = "active"]
  /\ holder' = [holder EXCEPT ![j] = w]
  /\ worker' = [worker EXCEPT ![w] = [IdleWorker EXCEPT !.pc = "acquire", !.job = j]]
  /\ UNCHANGED <<attempts, stalls, lease, marker, executed, compensated, crashes, faults>>

\* A worker fails to renew its lock of a job in time: its process is gone, or
\* busy.  The job goes back to the queue, but for the one time too many.  The
\* failed event of that time finds attempts left and does nothing.
Stall(j) ==
  /\ state[j] = "active"
  /\ stalls' = [stalls EXCEPT ![j] = @ + 1]
  /\ state' = [state EXCEPT ![j] = IF stalls[j] < MaxStalls THEN "waiting" ELSE "failed"]
  /\ holder' = [holder EXCEPT ![j] = None]
  /\ UNCHANGED <<attempts, lease, marker, worker, executed, compensated, crashes, faults>>

\* The failed handler runs after the last one.
LastAttempt(used) == used >= MaxAttempts

\* What the processor returned or threw reaches BullMQ, unless another worker
\* has the job by now.  A failed handler's outcome only ends the event.
Settle(w) ==
  LET j == worker[w].job
      used == attempts[j] + 1
  IN /\ worker[w].pc = "settle"
     /\ IF worker[w].event = "failed" \/ holder[j] # w
        THEN /\ worker' = [worker EXCEPT ![w] = IdleWorker]
             /\ UNCHANGED <<state, attempts, holder>>
        ELSE /\ holder' = [holder EXCEPT ![j] = None]
             /\ attempts' = [attempts EXCEPT ![j] = used]
             /\ state' = [state EXCEPT ![j] =
                            IF ~worker[w].throws THEN "completed"
                            ELSE IF used < MaxAttempts THEN "waiting" ELSE "failed"]
             /\ worker' = [worker EXCEPT ![w] =
                             IF worker[w].throws /\ LastAttempt(used)
                             THEN [IdleWorker EXCEPT !.pc = "acquire", !.job = j,
                                                     !.event = "failed"]
                             ELSE IdleWorker]
     /\ UNCHANGED <<stalls, lease, marker, executed, compensated, crashes, faults>>

-----------------------------------------------------------------------------
(* BaseProcessor.executeJob *)

\* A bug: the run does not take the lock.
AcquireAnyway(w) ==
  /\ worker[w].pc = "acquire"
  /\ lease' = [lease EXCEPT ![worker[w].job] = w]
  /\ Move(w, "get")
  /\ UNCHANGED <<state, attempts, stalls, holder, marker, executed, compensated, crashes,
                 faults>>

Acquire(w) ==
  LET j == worker[w].job
  IN /\ worker[w].pc = "acquire"
     /\ lease[j] = None
     /\ lease' = [lease EXCEPT ![j] = w]
     /\ Move(w, "get")
     /\ UNCHANGED <<state, attempts, stalls, holder, marker, executed, compensated,
                    crashes, faults>>

\* A bug: the attempt that got no lock tells BullMQ nothing.
AcquireFailsSilently(w) ==
  /\ worker[w].pc = "acquire"
  /\ lease[worker[w].job] # None
  /\ worker' = [worker EXCEPT ![w] = IdleWorker]
  /\ UNCHANGED <<state, attempts, stalls, holder, lease, marker, executed, compensated,
                 crashes, faults>>

\* Redlock gives up after its retries, on a key that is taken or a Redis that does not
\* answer, and the attempt throws.
AcquireFails(w) ==
  /\ worker[w].pc = "acquire"
  /\ worker' = [worker EXCEPT ![w] = [@ EXCEPT !.pc = "settle", !.throws = TRUE]]
  /\ UNCHANGED <<state, attempts, stalls, holder, lease, marker, executed, compensated,
                 crashes, faults>>

\* A bug: only COMPLETED ends the run.
GetMarkerCompleted(w) ==
  /\ worker[w].pc = "get"
  /\ Move(w, IF marker[worker[w].job] # "COMPLETED" THEN "set" ELSE "release")
  /\ UNCHANGED <<state, attempts, stalls, holder, lease, marker, executed, compensated,
                 crashes, faults>>

\* A marker other than FAILED ends the run with no effect, as a success.
GetMarker(w) ==
  /\ worker[w].pc = "get"
  /\ Move(w, IF marker[worker[w].job] \in {None, "FAILED"} THEN "set" ELSE "release")
  /\ UNCHANGED <<state, attempts, stalls, holder, lease, marker, executed, compensated,
                 crashes, faults>>

\* The get fails: it throws, or the client answers it with nothing.
GetMarkerFails(w) ==
  /\ worker[w].pc = "get"
  /\ \/ Return(w, TRUE) /\ UNCHANGED faults
     \/ Move(w, "set") /\ Record(worker[w].job, "get")
  /\ UNCHANGED <<state, attempts, stalls, holder, lease, marker, executed, compensated,
                 crashes>>

SetInProgress(w) ==
  /\ worker[w].pc = "set"
  /\ marker' = [marker EXCEPT ![worker[w].job] = "IN_PROGRESS"]
  /\ Move(w, "execute")
  /\ UNCHANGED <<state, attempts, stalls, holder, lease, executed, compensated, crashes,
                 faults>>

\* The set fails outside the try: the attempt throws, and IN_PROGRESS may be there
\* all the same, or the client says nothing, and the strategy runs unmarked.
SetInProgressFails(w) ==
  LET j == worker[w].job
  IN /\ worker[w].pc = "set"
     /\ \/ Return(w, TRUE) /\ UNCHANGED <<marker, faults>>
        \/ /\ Return(w, TRUE)
           /\ marker' = [marker EXCEPT ![j] = "IN_PROGRESS"]
           /\ Record(j, "IN_PROGRESS")
        \/ Move(w, "execute") /\ Record(j, "IN_PROGRESS") /\ UNCHANGED marker
     /\ UNCHANGED <<state, attempts, stalls, holder, lease, executed, compensated, crashes>>

\* The strategy's execute or executeAfterFail returns, its transaction committed.
Execute(w) ==
  LET j == worker[w].job
  IN /\ worker[w].pc = "execute"
     /\ IF worker[w].event = "process"
        THEN executed' = [executed EXCEPT ![j] = @ + 1] /\ UNCHANGED compensated
        ELSE compensated' = [compensated EXCEPT ![j] = @ + 1] /\ UNCHANGED executed
     /\ Move(w, "succeeded")
     /\ UNCHANGED <<state, attempts, stalls, holder, lease, marker, crashes, faults>>

\* It throws, its transaction rolled back.
ExecuteFails(w) ==
  /\ worker[w].pc = "execute"
  /\ Move(w, "threw")
  /\ UNCHANGED <<state, attempts, stalls, holder, lease, marker, executed, compensated,
                 crashes, faults>>

SetCompleted(w) ==
  /\ worker[w].pc = "succeeded"
  /\ marker' = [marker EXCEPT ![worker[w].job] = "COMPLETED"]
  /\ Return(w, FALSE)
  /\ UNCHANGED <<state, attempts, stalls, holder, lease, executed, compensated, crashes,
                 faults>>

\* The set fails inside the try: what it throws is caught like the strategy's own
\* failure, though the strategy has committed, or the client says nothing.
SetCompletedFails(w) ==
  LET j == worker[w].job
  IN /\ worker[w].pc = "succeeded"
     /\ \/ /\ Move(w, "threw")
           /\ marker' \in {marker, [marker EXCEPT ![j] = "COMPLETED"]}
           /\ Record(j, "COMPLETED")
        \/ Return(w, FALSE) /\ UNCHANGED <<marker, faults>>
     /\ UNCHANGED <<state, attempts, stalls, holder, lease, executed, compensated, crashes>>

\* A bug: the retry after a failed attempt finds it still IN_PROGRESS.
SetFailedNever(w) ==
  /\ worker[w].pc = "threw"
  /\ Return(w, TRUE)
  /\ UNCHANGED <<state, attempts, stalls, holder, lease, marker, executed, compensated,
                 crashes, faults>>

\* Also when the call throws, once the value is there: the attempt throws anyway.
SetFailed(w) ==
  /\ worker[w].pc = "threw"
  /\ marker' = [marker EXCEPT ![worker[w].job] = "FAILED"]
  /\ Return(w, TRUE)
  /\ UNCHANGED <<state, attempts, stalls, holder, lease, executed, compensated, crashes,
                 faults>>

\* The value is not there: the marker stays what it was.
SetFailedFails(w) ==
  /\ worker[w].pc = "threw"
  /\ Return(w, TRUE)
  /\ Record(worker[w].job, "FAILED")
  /\ UNCHANGED <<state, attempts, stalls, holder, lease, marker, executed, compensated,
                 crashes>>

Release(w) ==
  /\ worker[w].pc = "release"
  /\ lease' = [lease EXCEPT ![worker[w].job] = IF @ = w THEN None ELSE @]
  /\ Move(w, "settle")
  /\ UNCHANGED <<state, attempts, stalls, holder, marker, executed, compensated, crashes,
                 faults>>

-----------------------------------------------------------------------------
(* Crashes and expiry *)

Crash(w) ==
  /\ crashes < MaxCrashes
  /\ worker[w].pc # "idle"
  /\ crashes' = crashes + 1
  /\ worker' = [worker EXCEPT ![w] = IdleWorker]
  /\ lease' = [j \in Jobs |-> IF lease[j] = w THEN Dead ELSE lease[j]]
  /\ holder' = [j \in Jobs |-> IF holder[j] = w THEN None ELSE holder[j]]
  /\ UNCHANGED <<state, attempts, stalls, marker, executed, compensated, faults>>

LeaseExpires(j) ==
  /\ lease[j] # None
  /\ lease' = [lease EXCEPT ![j] = None]
  /\ faults' = [faults EXCEPT ![j] = IF lease[j] = Dead THEN @ ELSE @ \cup {"lease"}]
  /\ UNCHANGED <<state, attempts, stalls, holder, marker, worker, executed, compensated,
                 crashes>>

MarkerExpires(j) ==
  /\ marker[j] # None
  /\ marker' = [marker EXCEPT ![j] = None]
  /\ faults' = [faults EXCEPT ![j] = @ \cup {"marker"}]
  /\ UNCHANGED <<state, attempts, stalls, holder, lease, worker, executed, compensated,
                 crashes>>

-----------------------------------------------------------------------------

WorkerStep(w) ==
  \/ Acquire(w) \/ AcquireFails(w)
  \/ GetMarker(w) \/ GetMarkerFails(w) \/ SetInProgress(w) \/ SetInProgressFails(w)
  \/ Execute(w) \/ ExecuteFails(w)
  \/ SetCompleted(w) \/ SetCompletedFails(w) \/ SetFailed(w) \/ SetFailedFails(w)
  \/ Release(w) \/ Settle(w)

Next ==
  \/ \E w \in Workers : (\E j \in Jobs : Fetch(w, j)) \/ WorkerStep(w) \/ Crash(w)
  \/ \E j \in Jobs : Stall(j) \/ LeaseExpires(j) \/ MarkerExpires(j)

Spec == Init /\ [][Next]_vars

\* Workers keep fetching and running jobs, and BullMQ looks for the jobs that
\* no worker renews.
Fairness ==
  /\ \A j \in Jobs : WF_vars(\E w \in Workers : Fetch(w, j))
  /\ \A w \in Workers : WF_vars(WorkerStep(w))
  /\ \A j \in Jobs : WF_vars(holder[j] = None /\ Stall(j))

FairSpec == Spec /\ Fairness

-----------------------------------------------------------------------------
(* Properties *)

Executing(w) == worker[w].pc \in {"execute", "succeeded", "threw"}

\* However often BullMQ hands a job out again, the strategy never runs twice at
\* one time, and its executeAfterFail never beside its execute, while the lock's
\* lease outlasts its live holder.
NeverTwiceAtOnce ==
  \A v, w \in Workers :
    v # w /\ Executing(v) /\ Executing(w) /\ worker[v].job = worker[w].job =>
      "lease" \in faults[worker[v].job]

\* What lets a job have a second effect: two workers inside its lock, or a marker that
\* does not tell of the first one, because it ran out, was not written, was not read,
\* or was set to FAILED after a commit.
MayRepeat == {"lease", "marker", "get", "IN_PROGRESS", "COMPLETED"}

\* A job is compensated only after all its attempts have failed.  Unless one of the
\* faults of MayRepeat hits it, it has one effect: a strategy that committed is not run
\* again, by a stalled job's second worker, by a retry, after a crash, after a get or a
\* set(IN_PROGRESS) that threw and wrote nothing or after a set(FAILED) that failed, nor
\* is it compensated, and a compensation is not repeated.
CompensationExcludesExecution ==
  \A j \in Jobs :
    /\ compensated[j] > 0 => attempts[j] >= MaxAttempts
    /\ executed[j] + compensated[j] > 1 => faults[j] \cap MayRepeat # {}

\* What leaves an IN_PROGRESS behind that no strategy stands for.
MayLose == {"IN_PROGRESS", "FAILED"}

\* How far CompletedIsExecuted below can fail: a job that is completed without its
\* effect was taken from a worker by BullMQ, or its marker kept an IN_PROGRESS because
\* that set threw or set(FAILED) failed.  Failing strategies and retries, leases and
\* markers that run out, and any other failure of the cache lose nothing.
LostOnlyAfterStall ==
  \A j \in Jobs :
    state[j] = "completed" /\ stalls[j] = 0 /\ faults[j] \cap MayLose = {} => executed[j] > 0

Settled(j) == state[j] \in {"completed", "failed"}

\* Whatever a worker from whom BullMQ took a job still does, a job that is completed
\* or failed stays so, and its attempts are counted no more.
SettledForGood ==
  [][\A j \in Jobs : Settled(j) => state'[j] = state[j] /\ attempts'[j] = attempts[j]]_vars

\* Every job is completed or failed in the end: neither a dead worker's lock nor
\* its marker keeps it for ever.
JobsSettle == \A j \in Jobs : <>[]Settled(j)

\* What README.md says of the outbox, "at-least-once delivery guarantees" and
\* "can't lose the event": a job that is completed has had its effect.  Even
\* when nothing fails around it, the marker a crashed or stalled worker leaves
\* behind makes the next one skip the job.
CompletedIsExecuted ==
  \A j \in Jobs : state[j] = "completed" /\ faults[j] = {} => executed[j] > 0

\* The strengthenings behind NeverTwiceAtOnce and CompensationExcludesExecution.

\* Between Acquire and Release a worker owns its job's lock.
LockInv ==
  \A w \in Workers : LET j == worker[w].job IN
    /\ worker[w].pc \in {"get", "set", "execute", "succeeded", "threw", "release"}
    /\ "lease" \notin faults[j]
    => lease[j] = w

\* The marker tells that a run is under way, or that one committed.
MarkerInv ==
  /\ \A w \in Workers : LET j == worker[w].job IN
       faults[j] \cap MayRepeat = {} =>
         /\ worker[w].pc = "set" => marker[j] \in {None, "FAILED"}
         /\ Executing(w) => marker[j] = "IN_PROGRESS"
         /\ worker[w].pc \in {"set", "execute", "threw"} => executed[j] + compensated[j] = 0
  /\ \A j \in Jobs :
       faults[j] \cap MayRepeat = {} =>
         /\ executed[j] + compensated[j] <= 1
         /\ executed[j] + compensated[j] > 0 => marker[j] \in {"IN_PROGRESS", "COMPLETED"}

\* The failed handler runs after the last attempt.
AttemptsInv ==
  /\ \A w \in Workers :
       worker[w].pc # "idle" /\ worker[w].event = "failed" =>
         attempts[worker[w].job] >= MaxAttempts
  /\ \A j \in Jobs : compensated[j] > 0 => attempts[j] >= MaxAttempts

\* The strengthenings behind LostOnlyAfterStall.

\* A job that a worker holds is active, and that worker runs it: an active job that
\* nobody runs has no holder, so BullMQ finds it stalled.
HeldIsRun ==
  \A j \in Jobs : holder[j] # None =>
    /\ state[j] = "active"
    /\ LET v == worker[holder[j]] IN v.pc # "idle" /\ v.job = j /\ v.event = "process"

\* A job that never stalled has at most one run, by its holder; what a run that
\* is not over has found in the marker is what a failed attempt left there.
NeverStalled(j) == stalls[j] = 0 /\ faults[j] \cap MayLose = {}

RunFine(w) ==
  LET j == worker[w].job IN
    worker[w].pc # "idle" =>
      /\ worker[w].event = "failed" => state[j] = "failed"
      /\ worker[w].event = "process" /\ NeverStalled(j) =>
           /\ holder[j] = w
           /\ worker[w].pc \in {"acquire", "get", "set"} => marker[j] \in {None, "FAILED"}
           /\ \/ worker[w].pc = "succeeded"
              \/ worker[w].pc \in {"release", "settle"} /\ ~worker[w].throws
              => executed[j] > 0
           /\ worker[w].pc \in {"release", "settle"} /\ worker[w].throws =>
                marker[j] \in {None, "FAILED"}

JobFine(j) ==
  NeverStalled(j) =>
    /\ state[j] = "waiting" => marker[j] \in {None, "FAILED"}
    /\ state[j] = "completed" => executed[j] > 0

StallFreeInv == (\A w \in Workers : RunFine(w)) /\ (\A j \in Jobs : JobFine(j))
=============================================================================
