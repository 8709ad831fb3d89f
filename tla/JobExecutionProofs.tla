------------------------- MODULE JobExecutionProofs -------------------------
(* What the job lock and the idempotency marker guarantee, for any number   *)
(* of jobs, workers, attempts, stalls and crashes.                          *)
EXTENDS JobExecution, TLAPS

LEMMA IdleIsWorker == IdleWorker \in WorkerState
  BY DEF IdleWorker, WorkerState, WorkerPcs

\* The record of a worker that is handed a job.
LEMMA FetchedIsWorker ==
  ASSUME NEW j \in Jobs, NEW event \in {"process", "failed"}
  PROVE  /\ [IdleWorker EXCEPT !.pc = "acquire", !.job = j] \in WorkerState
         /\ [IdleWorker EXCEPT !.pc = "acquire", !.job = j, !.event = event] \in WorkerState
  BY DEF IdleWorker, WorkerState, WorkerPcs

\* The record of a worker that moves on.
LEMMA WorkerMoves ==
  ASSUME NEW v \in WorkerState, NEW pc \in WorkerPcs
  PROVE  [v EXCEPT !.pc = pc] \in WorkerState
  BY DEF WorkerState

LEMMA WorkerReturns ==
  ASSUME NEW v \in WorkerState, NEW pc \in WorkerPcs, NEW throws \in BOOLEAN
  PROVE  [v EXCEPT !.pc = pc, !.throws = throws] \in WorkerState
  BY DEF WorkerState

-----------------------------------------------------------------------------

\* The faults of a job only grow, those of the others stay, and no lease runs out.
GrowFaults(w) ==
  /\ \A j \in Jobs : faults[j] \subseteq faults'[j]
  /\ \A j \in Jobs : j # worker[w].job => faults'[j] = faults[j]
  /\ \A j \in Jobs : "lease" \in faults'[j] => "lease" \in faults[j]

LEMMA FaultsGrow ==
  ASSUME TypeOK, NEW w \in Workers, WorkerStep(w)
  PROVE  GrowFaults(w) /\ faults' \in [Jobs -> SUBSET FaultNames]
<1> USE DEF TypeOK
<1>1. ASSUME NEW fault \in {"get", "IN_PROGRESS", "COMPLETED", "FAILED"},
             Record(worker[w].job, fault)
      PROVE  GrowFaults(w) /\ faults' \in [Jobs -> SUBSET FaultNames]
  BY <1>1 DEF Record, GrowFaults, FaultNames
<1>2. CASE faults' = faults
  BY <1>2 DEF GrowFaults
<1>3. CASE faults' # faults
  <2>1. \E fault \in {"get", "IN_PROGRESS", "COMPLETED", "FAILED"} : Record(worker[w].job, fault)
    BY <1>3 DEF WorkerStep, Acquire, AcquireFails, GetMarker, GetMarkerFails, SetInProgress,
       SetInProgressFails, Execute, ExecuteFails, SetCompleted, SetCompletedFails, SetFailed,
       SetFailedFails, Release, Settle
  <2>2. QED
    BY <1>1, <2>1
<1>4. QED
  BY <1>2, <1>3

\* A worker's step changes its own record only, and keeps its job and event
\* unless it settles.
LEMMA WorkerFrame ==
  ASSUME TypeOK, NEW w \in Workers, WorkerStep(w)
  PROVE  /\ worker[w].pc # "idle"
         /\ \A v \in Workers \ {w} : worker'[v] = worker[v]
         /\ worker' \in [Workers -> WorkerState]
         /\ worker'[w].pc # "idle" => worker'[w].job = worker[w].job
         /\ ~Settle(w) => worker'[w].job = worker[w].job /\ worker'[w].event = worker[w].event
<1> USE DEF TypeOK
<1> DEFINE v == worker[w]
<1>0. v \in WorkerState /\ (v.pc # "idle" => v.job \in Jobs)
  OBVIOUS
<1>1. ASSUME NEW pc \in WorkerPcs, Move(w, pc), v.pc # "idle"
      PROVE  /\ \A u \in Workers \ {w} : worker'[u] = worker[u]
             /\ worker' \in [Workers -> WorkerState]
             /\ worker'[w].job = v.job /\ worker'[w].event = v.event
  <2>1. [v EXCEPT !.pc = pc] \in WorkerState
    BY <1>0, WorkerMoves
  <2>2. worker' = [worker EXCEPT ![w] = [v EXCEPT !.pc = pc]]
    BY <1>1 DEF Move
  <2>3. [v EXCEPT !.pc = pc].job = v.job /\ [v EXCEPT !.pc = pc].event = v.event
    BY <1>0 DEF WorkerState
  <2>4. QED
    BY <2>1, <2>2, <2>3
<1>2. ASSUME NEW pc \in WorkerPcs, NEW throws \in BOOLEAN, v.pc # "idle",
             worker' = [worker EXCEPT ![w] = [v EXCEPT !.pc = pc, !.throws = throws]]
      PROVE  /\ \A u \in Workers \ {w} : worker'[u] = worker[u]
             /\ worker' \in [Workers -> WorkerState]
             /\ worker'[w].job = v.job /\ worker'[w].event = v.event
  <2>1. [v EXCEPT !.pc = pc, !.throws = throws] \in WorkerState
    BY <1>0, WorkerReturns
  <2>2. /\ [v EXCEPT !.pc = pc, !.throws = throws].job = v.job
        /\ [v EXCEPT !.pc = pc, !.throws = throws].event = v.event
    BY <1>0 DEF WorkerState
  <2>3. QED
    BY <1>2, <2>1, <2>2
<1>3. CASE ~Settle(w)
  <2>1. v.pc # "idle"
    BY <1>3 DEF WorkerStep, Acquire, AcquireFails, GetMarker, GetMarkerFails, SetInProgress,
       SetInProgressFails, Execute, ExecuteFails, SetCompleted, SetCompletedFails, SetFailed,
       SetFailedFails, Release
  <2>2. \/ \E pc \in WorkerPcs : Move(w, pc)
        \/ \E pc \in WorkerPcs, throws \in BOOLEAN :
             worker' = [worker EXCEPT ![w] = [v EXCEPT !.pc = pc, !.throws = throws]]
    BY <1>3 DEF WorkerStep, Acquire, AcquireFails, GetMarker, GetMarkerFails, SetInProgress,
       SetInProgressFails, Execute, ExecuteFails, SetCompleted, SetCompletedFails, SetFailed,
       SetFailedFails, Release, Return, WorkerPcs
  <2>3. QED
    BY <1>1, <1>2, <1>3, <2>1, <2>2
<1>4. CASE Settle(w)
  <2>1. v.pc = "settle" /\ v.job \in Jobs
    BY <1>0, <1>4 DEF Settle, LastAttempt
  <2>2. \/ worker' = [worker EXCEPT ![w] = IdleWorker]
        \/ worker' = [worker EXCEPT ![w] = [IdleWorker EXCEPT !.pc = "acquire", !.job = v.job,
                                                             !.event = "failed"]]
    BY <1>4 DEF Settle, LastAttempt
  <2>3. CASE worker' = [worker EXCEPT ![w] = IdleWorker]
    BY <1>0, <1>4, <2>1, <2>3, IdleIsWorker DEF IdleWorker
  <2>4. CASE worker' = [worker EXCEPT ![w] = [IdleWorker EXCEPT !.pc = "acquire", !.job = v.job,
                                                               !.event = "failed"]]
    <3>1. [IdleWorker EXCEPT !.pc = "acquire", !.job = v.job, !.event = "failed"].job = v.job
      BY DEF IdleWorker
    <3>2. QED
      BY <1>0, <1>4, <2>1, <2>4, <3>1, FetchedIsWorker
  <2>5. QED
    BY <2>2, <2>3, <2>4
<1>5. QED
  BY <1>3, <1>4

LEMMA TypeStep ==
  ASSUME TypeOK, [Next]_vars
  PROVE  TypeOK'
<1> USE ExecutionAssumption DEF TypeOK
<1>1. ASSUME NEW w \in Workers, NEW j \in Jobs, Fetch(w, j)
      PROVE  TypeOK'
  <2>1. [IdleWorker EXCEPT !.pc = "acquire", !.job = j].job = j
    BY DEF IdleWorker
  <2>2. QED
    BY <1>1, <2>1, FetchedIsWorker DEF Fetch, JobStates
<1>2. ASSUME NEW w \in Workers, WorkerStep(w)
      PROVE  TypeOK'
  <2>1. worker[w].job \in Jobs
    BY <1>2, WorkerFrame
  <2>2. /\ worker' \in [Workers -> WorkerState]
        /\ \A v \in Workers : worker'[v].pc # "idle" => worker'[v].job \in Jobs
        /\ faults' \in [Jobs -> SUBSET FaultNames]
    BY <1>2, <2>1, WorkerFrame, FaultsGrow
  <2>3. CASE Acquire(w)
    BY <2>1, <2>2, <2>3 DEF Acquire
  <2>4. CASE AcquireFails(w) \/ GetMarker(w) \/ GetMarkerFails(w) \/ ExecuteFails(w)
             \/ SetFailedFails(w)
    BY <2>2, <2>4 DEF AcquireFails, GetMarker, GetMarkerFails, ExecuteFails, SetFailedFails
  <2>5. CASE SetInProgress(w) \/ SetInProgressFails(w)
    BY <2>1, <2>2, <2>5 DEF SetInProgress, SetInProgressFails, Markers
  <2>6. CASE Execute(w)
    BY <2>1, <2>2, <2>6 DEF Execute
  <2>7. CASE SetCompleted(w) \/ SetCompletedFails(w) \/ SetFailed(w)
    BY <2>1, <2>2, <2>7 DEF SetCompleted, SetCompletedFails, SetFailed, Markers
  <2>8. CASE Release(w)
    BY <2>1, <2>2, <2>8 DEF Release
  <2>9. CASE Settle(w)
    BY <2>1, <2>2, <2>9 DEF Settle, LastAttempt, JobStates
  <2>10. QED
    BY <1>2, <2>3, <2>4, <2>5, <2>6, <2>7, <2>8, <2>9 DEF WorkerStep
<1>3. ASSUME NEW w \in Workers, Crash(w)
      PROVE  TypeOK'
  BY <1>3, IdleIsWorker DEF Crash, IdleWorker
<1>4. ASSUME NEW j \in Jobs, Stall(j)
      PROVE  TypeOK'
  BY <1>4 DEF Stall, JobStates
<1>5. ASSUME NEW j \in Jobs, LeaseExpires(j) \/ MarkerExpires(j)
      PROVE  TypeOK'
  BY <1>5 DEF LeaseExpires, MarkerExpires, FaultNames
<1>6. CASE UNCHANGED vars
  BY <1>6 DEF vars
<1>7. QED
  BY <1>1, <1>2, <1>3, <1>4, <1>5, <1>6 DEF Next

\* Where each action leaves its worker.
LEMMA NextPc ==
  ASSUME TypeOK, NEW w \in Workers
  PROVE  /\ Acquire(w) => worker'[w].pc = "get"
         /\ AcquireFails(w) => worker'[w].pc = "settle"
         /\ GetMarker(w) =>
              worker'[w].pc = IF marker[worker[w].job] \in {None, "FAILED"} THEN "set"
                              ELSE "release"
         /\ SetInProgress(w) => worker'[w].pc = "execute"
         /\ Execute(w) => worker'[w].pc = "succeeded"
         /\ ExecuteFails(w) => worker'[w].pc = "threw"
         /\ GetMarkerFails(w) => worker'[w].pc \in {"set", "release"}
         /\ SetInProgressFails(w) => worker'[w].pc \in {"execute", "release"}
         /\ SetCompletedFails(w) => worker'[w].pc \in {"threw", "release"}
         /\ SetCompleted(w) \/ SetFailed(w) \/ SetFailedFails(w) => worker'[w].pc = "release"
         /\ Release(w) => worker'[w].pc = "settle"
         /\ Settle(w) => worker'[w].pc \in {"idle", "acquire"}
<1> USE DEF TypeOK, Move
<1>1. \A pc \in WorkerPcs : Move(w, pc) => worker'[w].pc = pc
  BY DEF WorkerState
<1>2. AcquireFails(w) => worker'[w].pc = "settle"
  BY DEF AcquireFails, WorkerState
<1>3. \A throws \in BOOLEAN : Return(w, throws) => worker'[w].pc = "release"
  BY DEF Return, WorkerState
<1>4. ASSUME Settle(w)
      PROVE  worker'[w].pc \in {"idle", "acquire"}
  <2>1. \/ worker' = [worker EXCEPT ![w] = IdleWorker]
        \/ worker' = [worker EXCEPT ![w] = [IdleWorker EXCEPT !.pc = "acquire",
                                              !.job = worker[w].job, !.event = "failed"]]
    BY <1>4 DEF Settle, LastAttempt
  <2>2. /\ IdleWorker.pc = "idle"
        /\ [IdleWorker EXCEPT !.pc = "acquire", !.job = worker[w].job, !.event = "failed"].pc
             = "acquire"
    BY DEF IdleWorker
  <2>3. QED
    BY <2>1, <2>2
<1>5. GetMarker(w) =>
        worker'[w].pc = IF marker[worker[w].job] \in {None, "FAILED"} THEN "set" ELSE "release"
  BY DEF GetMarker, WorkerState
<1>6. QED
  BY <1>1, <1>2, <1>3, <1>4, <1>5
  DEF Acquire, GetMarkerFails, SetInProgress, SetInProgressFails, Execute, ExecuteFails,
      SetCompleted, SetCompletedFails, SetFailed, SetFailedFails, Release, WorkerPcs

\* A run that ends says whether it threw.
LEMMA Returned ==
  ASSUME TypeOK, NEW w \in Workers, NEW throws \in BOOLEAN, Return(w, throws)
  PROVE  worker'[w].pc = "release" /\ worker'[w].throws = throws
  BY DEF TypeOK, Return, WorkerState

LEMMA Moved ==
  ASSUME TypeOK, NEW w \in Workers, NEW pc, Move(w, pc)
  PROVE  worker'[w].pc = pc
  BY DEF TypeOK, Move, WorkerState

-----------------------------------------------------------------------------
(* The lock *)

LEMMA LockInvStep ==
  ASSUME TypeOK, LockInv, [Next]_vars
  PROVE  LockInv'
<1> USE ExecutionAssumption DEF TypeOK
<1> DEFINE Critical == {"get", "set", "execute", "succeeded", "threw", "release"}
<1>1. ASSUME NEW w \in Workers, NEW j \in Jobs, Fetch(w, j)
      PROVE  LockInv'
  BY <1>1 DEF Fetch, IdleWorker, LockInv
<1>2. ASSUME NEW w \in Workers, WorkerStep(w)
      PROVE  LockInv'
  <2>1. /\ \A v \in Workers \ {w} : worker'[v] = worker[v]
        /\ ~Settle(w) => worker'[w].job = worker[w].job
        /\ worker[w].job \in Jobs
        /\ \A k \in Jobs : "lease" \notin faults'[k] => "lease" \notin faults[k]
    BY <1>2, WorkerFrame, FaultsGrow DEF GrowFaults
  <2>0. \A v \in Workers : worker[v].pc \in Critical => worker[v].job \in Jobs
    OBVIOUS
  <2>2. CASE Acquire(w)
    <3>1. \A v \in Workers \ {w} :
            worker[v].pc \in Critical /\ "lease" \notin faults[worker[v].job] =>
              /\ worker[v].job \in Jobs /\ lease[worker[v].job] = v
              /\ worker[v].job # worker[w].job
      BY <2>2 DEF Acquire, LockInv
    <3>2. \A v \in Workers \ {w} :
            worker[v].pc \in Critical /\ "lease" \notin faults[worker[v].job] =>
              lease'[worker[v].job] = v
      BY <2>1, <2>2, <3>1 DEF Acquire
    <3>3. lease'[worker'[w].job] = w
      BY <2>1, <2>2 DEF Acquire, Settle, LastAttempt
    <3>4. QED
      BY <2>0, <2>1, <3>2, <3>3 DEF LockInv
  <2>3. CASE Release(w)
    <3>1. worker'[w].pc = "settle"
      BY <2>3, NextPc
    <3>2. QED
      BY <2>0, <2>1, <2>3, <3>1 DEF Release, LockInv
  <2>4. CASE AcquireFails(w) \/ Settle(w)
    <3>1. worker'[w].pc \notin Critical
      BY <2>4, NextPc
    <3>2. lease' = lease
      BY <2>4 DEF AcquireFails, Settle, LastAttempt
    <3>3. QED
      BY <2>0, <2>1, <3>1, <3>2 DEF LockInv
  <2>5. CASE ~(Acquire(w) \/ Release(w) \/ AcquireFails(w) \/ Settle(w))
    <3>1. lease' = lease /\ worker[w].pc \in Critical
      BY <1>2, <2>5 DEF WorkerStep, GetMarker, GetMarkerFails, SetInProgress, SetInProgressFails,
         Execute, ExecuteFails, SetCompleted, SetCompletedFails, SetFailed, SetFailedFails
    <3>2. QED
      BY <2>0, <2>1, <2>5, <3>1 DEF LockInv
  <2>6. QED
    BY <2>2, <2>3, <2>4, <2>5
<1>3. ASSUME NEW w \in Workers, Crash(w)
      PROVE  LockInv'
  <2>1. /\ worker'[w].pc = "idle" /\ faults' = faults
        /\ \A v \in Workers \ {w} : worker'[v] = worker[v]
    BY <1>3 DEF Crash, IdleWorker
  <2>2. \A v \in Workers \ {w} :
          worker[v].pc \in Critical /\ "lease" \notin faults[worker[v].job] =>
            worker[v].job \in Jobs /\ lease[worker[v].job] = v
    BY DEF LockInv
  <2>3. \A v \in Workers \ {w} :
          worker[v].pc \in Critical /\ "lease" \notin faults[worker[v].job] =>
            lease'[worker[v].job] = v
    BY <1>3, <2>2 DEF Crash
  <2>4. QED
    BY <2>1, <2>3 DEF LockInv
\* A dead owner's lease is nobody's, and a live one's counts no more once it faults.
<1>4. ASSUME NEW j \in Jobs, LeaseExpires(j)
      PROVE  LockInv'
  <2> SUFFICES ASSUME NEW w \in Workers, worker[w].pc \in Critical,
                      "lease" \notin faults'[worker[w].job]
               PROVE  lease'[worker[w].job] = w
    BY <1>4 DEF LeaseExpires, LockInv
  <2>1. worker[w].job \in Jobs
    OBVIOUS
  <2>2. "lease" \notin faults[worker[w].job]
    BY <1>4, <2>1 DEF LeaseExpires
  <2>3. lease[worker[w].job] = w
    BY <2>2 DEF LockInv
  <2>4. worker[w].job # j
    BY <1>4, <2>3 DEF LeaseExpires
  <2>5. QED
    BY <1>4, <2>1, <2>3, <2>4 DEF LeaseExpires
<1>5. ASSUME NEW j \in Jobs, MarkerExpires(j)
      PROVE  LockInv'
  <2>1. UNCHANGED <<lease, worker>> /\ \A k \in Jobs : faults[k] \subseteq faults'[k]
    BY <1>5 DEF MarkerExpires
  <2>2. \A w \in Workers : worker[w].pc \in Critical => worker[w].job \in Jobs
    OBVIOUS
  <2>3. QED
    BY <2>1, <2>2 DEF LockInv
<1>6. CASE (\E j \in Jobs : Stall(j)) \/ UNCHANGED vars
  BY <1>6 DEF Stall, vars, LockInv
<1>7. QED
  BY <1>1, <1>2, <1>3, <1>4, <1>5, <1>6 DEF Next

-----------------------------------------------------------------------------
(* The marker *)

\* What a worker's step does to a job that is not its own.
LEMMA OtherJobs ==
  ASSUME TypeOK, NEW w \in Workers, WorkerStep(w), NEW j \in Jobs, j # worker[w].job
  PROVE  /\ marker'[j] = marker[j] /\ executed'[j] = executed[j]
         /\ compensated'[j] = compensated[j] /\ attempts'[j] = attempts[j]
<1> USE DEF TypeOK
<1>1. CASE Acquire(w) \/ AcquireFails(w) \/ GetMarker(w) \/ GetMarkerFails(w) \/ ExecuteFails(w)
           \/ SetFailedFails(w) \/ Release(w)
  BY <1>1 DEF Acquire, AcquireFails, GetMarker, GetMarkerFails, ExecuteFails, SetFailedFails,
     Release
<1>2. CASE SetInProgress(w) \/ SetInProgressFails(w) \/ SetCompleted(w) \/ SetCompletedFails(w)
           \/ SetFailed(w)
  BY <1>2 DEF SetInProgress, SetInProgressFails, SetCompleted, SetCompletedFails, SetFailed
<1>3. CASE Execute(w)
  BY <1>3 DEF Execute
<1>4. CASE Settle(w)
  BY <1>4 DEF Settle, LastAttempt
<1>5. QED
  BY <1>1, <1>2, <1>3, <1>4 DEF WorkerStep

LEMMA MarkerInvStep ==
  ASSUME TypeOK, LockInv, MarkerInv, [Next]_vars
  PROVE  MarkerInv'
<1> USE ExecutionAssumption DEF TypeOK
<1> DEFINE Sum(j) == executed[j] + compensated[j]
           Fine(w) == LET j == worker[w].job IN
             faults[j] \cap MayRepeat = {} =>
               /\ worker[w].pc = "set" => marker[j] \in {None, "FAILED"}
               /\ Executing(w) => marker[j] = "IN_PROGRESS"
               /\ worker[w].pc \in {"set", "execute", "threw"} => Sum(j) = 0
           Once(j) ==
             faults[j] \cap MayRepeat = {} =>
               /\ Sum(j) <= 1
               /\ Sum(j) > 0 => marker[j] \in {"IN_PROGRESS", "COMPLETED"}
<1>0. (\A w \in Workers : Fine(w)) /\ (\A j \in Jobs : Once(j))
  BY DEF MarkerInv
<1> SUFFICES (\A w \in Workers : Fine(w)') /\ (\A j \in Jobs : Once(j)')
  BY DEF MarkerInv
<1>1. ASSUME UNCHANGED <<marker, executed, compensated, faults>>,
             NEW w \in Workers, \A v \in Workers \ {w} : worker'[v] = worker[v],
             worker'[w].pc \in {"idle", "acquire", "get", "release", "settle"}
      PROVE  (\A v \in Workers : Fine(v)') /\ (\A j \in Jobs : Once(j)')
  <2>1. \A v \in Workers \ {w} : Fine(v)'
    BY <1>0, <1>1 DEF Executing
  <2>2. Fine(w)'
    BY <1>1 DEF Executing
  <2>3. QED
    BY <1>0, <1>1, <2>1, <2>2
<1>2. ASSUME NEW w \in Workers, NEW j \in Jobs, Fetch(w, j)
      PROVE  (\A v \in Workers : Fine(v)') /\ (\A k \in Jobs : Once(k)')
  <2>1. worker'[w].pc = "acquire"
    BY <1>2 DEF Fetch, IdleWorker
  <2>2. QED
    BY <1>1, <1>2, <2>1 DEF Fetch
<1>3. ASSUME NEW w \in Workers, Crash(w)
      PROVE  (\A v \in Workers : Fine(v)') /\ (\A k \in Jobs : Once(k)')
  <2>1. worker'[w].pc = "idle"
    BY <1>3 DEF Crash, IdleWorker
  <2>2. QED
    BY <1>1, <1>3, <2>1 DEF Crash
<1>4. ASSUME NEW w \in Workers,
             Acquire(w) \/ AcquireFails(w) \/ Release(w) \/ Settle(w)
      PROVE  (\A v \in Workers : Fine(v)') /\ (\A k \in Jobs : Once(k)')
  <2>1. \A v \in Workers \ {w} : worker'[v] = worker[v]
    BY <1>4, WorkerFrame DEF WorkerStep
  <2>2. worker'[w].pc \in {"idle", "acquire", "get", "release", "settle"}
    BY <1>4, NextPc
  <2>3. UNCHANGED <<marker, executed, compensated, faults>>
    BY <1>4 DEF Acquire, AcquireFails, Release, Settle
  <2>4. QED
    BY <1>1, <2>1, <2>2, <2>3
\* The steps inside the lock: nobody else is inside it for the same job.
<1>5. ASSUME NEW w \in Workers, WorkerStep(w), ~Settle(w),
             worker[w].pc \in {"get", "set", "execute", "succeeded", "threw"},
             Fine(w)', Once(worker[w].job)'
      PROVE  (\A v \in Workers : Fine(v)') /\ (\A k \in Jobs : Once(k)')
  <2> DEFINE j == worker[w].job
  <2>1. /\ j \in Jobs /\ worker'[w].job = j
        /\ \A v \in Workers \ {w} : worker'[v] = worker[v]
        /\ \A k \in Jobs : faults[k] \subseteq faults'[k]
        /\ \A k \in Jobs : k # j => faults'[k] = faults[k]
    BY <1>5, WorkerFrame, FaultsGrow DEF GrowFaults
  <2>2. ASSUME NEW k \in Jobs, k # j
        PROVE  /\ Once(k)'
               /\ marker'[k] = marker[k] /\ executed'[k] = executed[k]
               /\ compensated'[k] = compensated[k]
    BY <1>0, <1>5, <2>1, <2>2, OtherJobs
  <2>3. ASSUME NEW v \in Workers \ {w},
               worker[v].pc \in {"set", "execute", "succeeded", "threw"}
        PROVE  Fine(v)'
    <3> SUFFICES ASSUME faults[worker[v].job] \cap MayRepeat = {}
                 PROVE  Fine(v)'
      BY <2>1, <2>3
    <3>1. worker[v].job \in Jobs
      BY <2>3
    <3>2. worker[v].job # j
      BY <1>5, <2>1, <2>3, <3>1 DEF LockInv, MayRepeat
    <3>3. /\ marker'[worker[v].job] = marker[worker[v].job]
          /\ executed'[worker[v].job] = executed[worker[v].job]
          /\ compensated'[worker[v].job] = compensated[worker[v].job]
      BY <2>2, <3>1, <3>2
    <3>4. Fine(v)
      BY <1>0
    <3>5. worker'[v] = worker[v]
      BY <2>1
    <3>6. QED
      BY <2>1, <3>3, <3>4, <3>5 DEF Executing
  <2>4. ASSUME NEW v \in Workers \ {w},
               worker[v].pc \notin {"set", "execute", "succeeded", "threw"}
        PROVE  Fine(v)'
    BY <2>1, <2>4 DEF Executing
  <2>5. \A v \in Workers : Fine(v)'
    BY <1>5, <2>3, <2>4
  <2>6. \A k \in Jobs : Once(k)'
    BY <1>5, <2>1, <2>2
  <2>7. QED
    BY <2>5, <2>6
<1>6. ASSUME NEW w \in Workers, GetMarker(w)
      PROVE  (\A v \in Workers : Fine(v)') /\ (\A k \in Jobs : Once(k)')
  <2> DEFINE j == worker[w].job
  <2>1. /\ worker'[w].job = j /\ j \in Jobs
        /\ worker'[w].pc = IF marker[j] \in {None, "FAILED"} THEN "set" ELSE "release"
        /\ UNCHANGED <<marker, executed, compensated, faults>>
        /\ worker[w].pc = "get" /\ WorkerStep(w) /\ ~Settle(w)
    BY <1>6, WorkerFrame, NextPc DEF GetMarker, WorkerStep, Settle
  <2>2. executed[j] \in Nat /\ compensated[j] \in Nat
    BY <2>1
  <2>3. Once(j)
    BY <1>0, <2>1
  <2>4. faults[j] \cap MayRepeat = {} /\ marker[j] \in {None, "FAILED"} => Sum(j) = 0
    <3>1. marker[j] \in {None, "FAILED"} => marker[j] \notin {"IN_PROGRESS", "COMPLETED"}
      OBVIOUS
    <3>2. Sum(j) \in Nat
      BY <2>2
    <3>3. QED
      BY <2>3, <3>1, <3>2
  <2>5. Fine(w)' /\ Once(j)'
    BY <2>1, <2>3, <2>4 DEF Executing
  <2>6. QED
    BY <1>5, <2>1, <2>5
<1>7. ASSUME NEW w \in Workers, SetInProgress(w)
      PROVE  (\A v \in Workers : Fine(v)') /\ (\A k \in Jobs : Once(k)')
  <2> DEFINE j == worker[w].job
  <2>1. /\ worker'[w].job = j /\ j \in Jobs /\ worker'[w].pc = "execute"
        /\ marker'[j] = "IN_PROGRESS" /\ UNCHANGED <<executed, compensated, faults>>
        /\ worker[w].pc = "set" /\ WorkerStep(w) /\ ~Settle(w)
    BY <1>7, WorkerFrame, NextPc DEF SetInProgress, WorkerStep, Settle
  <2>2. faults[j] \cap MayRepeat = {} => Sum(j) = 0
    BY <1>0, <2>1
  <2>3. Fine(w)' /\ Once(j)'
    BY <2>1, <2>2 DEF Executing
  <2>4. QED
    BY <1>5, <2>1, <2>3
<1>8. ASSUME NEW w \in Workers, Execute(w)
      PROVE  (\A v \in Workers : Fine(v)') /\ (\A k \in Jobs : Once(k)')
  <2> DEFINE j == worker[w].job
  <2>1. /\ worker'[w].job = j /\ j \in Jobs /\ worker'[w].pc = "succeeded"
        /\ marker' = marker /\ faults' = faults
        /\ worker[w].pc = "execute" /\ WorkerStep(w) /\ ~Settle(w)
    BY <1>8, WorkerFrame, NextPc DEF Execute, WorkerStep, Settle
  <2>2. faults[j] \cap MayRepeat = {} => Sum(j) = 0 /\ marker[j] = "IN_PROGRESS"
    BY <1>0, <2>1 DEF Executing
  <2>3. faults[j] \cap MayRepeat = {} => executed[j] = 0 /\ compensated[j] = 0
    BY <2>1, <2>2
  <2>4. \/ executed'[j] = executed[j] + 1 /\ compensated'[j] = compensated[j]
        \/ executed'[j] = executed[j] /\ compensated'[j] = compensated[j] + 1
    BY <1>8, <2>1 DEF Execute
  <2>5. Fine(w)' /\ Once(j)'
    BY <2>1, <2>2, <2>3, <2>4 DEF Executing
  <2>6. QED
    BY <1>5, <2>1, <2>5
<1>9. ASSUME NEW w \in Workers, ExecuteFails(w)
      PROVE  (\A v \in Workers : Fine(v)') /\ (\A k \in Jobs : Once(k)')
  <2> DEFINE j == worker[w].job
  <2>1. /\ worker'[w].job = j /\ j \in Jobs /\ worker'[w].pc = "threw"
        /\ UNCHANGED <<marker, executed, compensated, faults>>
        /\ worker[w].pc = "execute" /\ WorkerStep(w) /\ ~Settle(w)
    BY <1>9, WorkerFrame, NextPc DEF ExecuteFails, WorkerStep, Settle
  <2>2. faults[j] \cap MayRepeat = {} => Sum(j) = 0 /\ marker[j] = "IN_PROGRESS"
    BY <1>0, <2>1 DEF Executing
  <2>3. Fine(w)' /\ Once(j)'
    BY <2>1, <2>2 DEF Executing
  <2>4. QED
    BY <1>5, <2>1, <2>3
<1>10. ASSUME NEW w \in Workers, SetCompleted(w) \/ SetFailed(w)
       PROVE  (\A v \in Workers : Fine(v)') /\ (\A k \in Jobs : Once(k)')
  <2> DEFINE j == worker[w].job
  <2>1. /\ worker'[w].job = j /\ j \in Jobs /\ worker'[w].pc = "release"
        /\ WorkerStep(w) /\ ~Settle(w)
    BY <1>10, WorkerFrame, NextPc DEF SetCompleted, SetFailed, WorkerStep, Settle
  <2>2. /\ marker'[j] = IF worker[w].pc = "threw" THEN "FAILED" ELSE "COMPLETED"
        /\ UNCHANGED <<executed, compensated, faults>>
        /\ worker[w].pc \in {"succeeded", "threw"}
    BY <1>10, <2>1 DEF SetCompleted, SetFailed
  <2>3. faults[j] \cap MayRepeat = {} => (worker[w].pc = "threw" => Sum(j) = 0) /\ Sum(j) <= 1
    BY <1>0, <2>1
  <2>4. Fine(w)' /\ Once(j)'
    BY <2>1, <2>2, <2>3 DEF Executing
  <2>5. QED
    BY <1>5, <2>1, <2>2, <2>4
\* A failing call ends the run with the marker as it was, or is one of MayRepeat.
<1>11. ASSUME NEW w \in Workers,
              GetMarkerFails(w) \/ SetInProgressFails(w) \/ SetCompletedFails(w)
                \/ SetFailedFails(w)
       PROVE  (\A v \in Workers : Fine(v)') /\ (\A k \in Jobs : Once(k)')
  <2> DEFINE j == worker[w].job
  <2>1. /\ worker'[w].job = j /\ j \in Jobs /\ WorkerStep(w) /\ ~Settle(w)
        /\ faults[j] \subseteq faults'[j]
        /\ worker[w].pc \in {"get", "set", "succeeded", "threw"}
        /\ UNCHANGED <<executed, compensated>>
    BY <1>11, WorkerFrame, FaultsGrow DEF GetMarkerFails, SetInProgressFails, SetCompletedFails,
       SetFailedFails, WorkerStep, Settle, GrowFaults
  <2>2. \/ marker' = marker /\ worker'[w].pc = "release"
        \/ faults'[j] \cap MayRepeat # {}
    <3>1. ASSUME NEW fault \in MayRepeat, Record(j, fault)
          PROVE  faults'[j] \cap MayRepeat # {}
      BY <2>1, <3>1 DEF Record
    <3>2. \A throws \in BOOLEAN : Return(w, throws) => worker'[w].pc = "release"
      BY DEF Return, WorkerState
    <3>3. \/ marker' = marker /\ \E throws \in BOOLEAN : Return(w, throws)
          \/ \E fault \in MayRepeat : Record(j, fault)
      BY <1>11 DEF GetMarkerFails, SetInProgressFails, SetCompletedFails, SetFailedFails, MayRepeat
    <3>4. QED
      BY <3>1, <3>2, <3>3
  <2>3. Once(j)
    BY <1>0, <2>1
  <2>4. Fine(w)' /\ Once(j)'
    BY <2>1, <2>2, <2>3 DEF Executing
  <2>5. QED
    BY <1>5, <2>1, <2>4
<1>12. ASSUME UNCHANGED <<executed, compensated, worker>>,
              \A k \in Jobs : faults'[k] \cap MayRepeat = {} =>
                faults[k] \cap MayRepeat = {} /\ marker'[k] = marker[k]
       PROVE  (\A v \in Workers : Fine(v)') /\ (\A k \in Jobs : Once(k)')
  <2>1. ASSUME NEW v \in Workers
        PROVE  Fine(v)'
    <3>1. CASE worker[v].pc = "idle"
      BY <1>12, <3>1 DEF Executing
    <3>2. CASE worker[v].job \in Jobs
      BY <1>0, <1>12, <3>2 DEF Executing
    <3>3. QED
      BY <3>1, <3>2
  <2>2. QED
    BY <1>0, <1>12, <2>1
<1>13. CASE (\E j \in Jobs : Stall(j) \/ LeaseExpires(j) \/ MarkerExpires(j)) \/ UNCHANGED vars
  <2>1. UNCHANGED <<executed, compensated, worker>>
    BY <1>13 DEF Stall, LeaseExpires, MarkerExpires, vars
  <2>2. \A k \in Jobs : faults'[k] \cap MayRepeat = {} =>
          faults[k] \cap MayRepeat = {} /\ marker'[k] = marker[k]
    <3>1. ASSUME NEW j \in Jobs, LeaseExpires(j)
          PROVE  \A k \in Jobs : faults[k] \subseteq faults'[k] /\ marker'[k] = marker[k]
      BY <3>1 DEF LeaseExpires
    <3>2. ASSUME NEW j \in Jobs, MarkerExpires(j)
          PROVE  \A k \in Jobs : /\ faults[k] \subseteq faults'[k]
                                 /\ (marker'[k] = marker[k] \/ "marker" \in faults'[k])
      BY <3>2 DEF MarkerExpires
    <3>3. CASE (\E j \in Jobs : Stall(j)) \/ UNCHANGED vars
      BY <3>3 DEF Stall, vars
    <3>4. QED
      BY <1>13, <3>1, <3>2, <3>3 DEF MayRepeat
  <2>3. QED
    BY <1>12, <2>1, <2>2
<1>14. QED
  BY <1>2, <1>3, <1>4, <1>6, <1>7, <1>8, <1>9, <1>10, <1>13, <1>11 DEF Next, WorkerStep

-----------------------------------------------------------------------------
(* The attempts *)

LEMMA AttemptsInvStep ==
  ASSUME TypeOK, AttemptsInv, [Next]_vars
  PROVE  AttemptsInv'
<1> USE ExecutionAssumption DEF TypeOK
<1>1. ASSUME UNCHANGED <<attempts, compensated>>,
             NEW w \in Workers, \A v \in Workers \ {w} : worker'[v] = worker[v],
             worker'[w].pc # "idle" /\ worker'[w].event = "failed" =>
               attempts[worker'[w].job] >= MaxAttempts
      PROVE  AttemptsInv'
  BY <1>1 DEF AttemptsInv
<1>2. ASSUME NEW w \in Workers, NEW j \in Jobs, Fetch(w, j)
      PROVE  AttemptsInv'
  <2>1. worker'[w].event = "process" /\ \A v \in Workers \ {w} : worker'[v] = worker[v]
    BY <1>2 DEF Fetch, IdleWorker
  <2>2. QED
    BY <1>1, <1>2, <2>1 DEF Fetch
<1>3. ASSUME NEW w \in Workers, Crash(w)
      PROVE  AttemptsInv'
  <2>1. worker'[w].pc = "idle" /\ \A v \in Workers \ {w} : worker'[v] = worker[v]
    BY <1>3 DEF Crash, IdleWorker
  <2>2. QED
    BY <1>1, <1>3, <2>1 DEF Crash
<1>4. ASSUME NEW w \in Workers, WorkerStep(w), ~Settle(w), ~Execute(w)
      PROVE  AttemptsInv'
  <2>1. /\ \A v \in Workers \ {w} : worker'[v] = worker[v]
        /\ worker'[w].job = worker[w].job /\ worker'[w].event = worker[w].event
        /\ worker[w].pc # "idle"
    BY <1>4, WorkerFrame
  <2>2. UNCHANGED <<attempts, compensated>>
    BY <1>4 DEF WorkerStep, Acquire, AcquireFails, GetMarker, GetMarkerFails, SetInProgress,
       SetInProgressFails, ExecuteFails, SetCompleted, SetCompletedFails, SetFailed,
       SetFailedFails, Release
  <2>3. worker[w].event = "failed" => attempts[worker[w].job] >= MaxAttempts
    BY <2>1 DEF AttemptsInv
  <2>4. QED
    BY <1>1, <2>1, <2>2, <2>3
<1>5. ASSUME NEW w \in Workers, Execute(w)
      PROVE  AttemptsInv'
  <2>1. /\ \A v \in Workers \ {w} : worker'[v] = worker[v]
        /\ worker'[w].job = worker[w].job /\ worker'[w].event = worker[w].event
        /\ worker[w].pc # "idle" /\ worker[w].job \in Jobs
    BY <1>5, WorkerFrame DEF WorkerStep, Execute, Settle
  <2>2. attempts' = attempts
    BY <1>5 DEF Execute
  <2>3. \A j \in Jobs : compensated'[j] # compensated[j] =>
          j = worker[w].job /\ worker[w].event # "process"
    BY <1>5, <2>1 DEF Execute
  <2>4. worker[w].event \in {"process", "failed"}
    BY DEF WorkerState
  <2>5. worker[w].event = "failed" => attempts[worker[w].job] >= MaxAttempts
    BY <2>1 DEF AttemptsInv
  <2>6. \A j \in Jobs : compensated'[j] > 0 => attempts'[j] >= MaxAttempts
    BY <2>2, <2>3, <2>4, <2>5 DEF AttemptsInv
  <2>7. \A v \in Workers : worker'[v].pc # "idle" /\ worker'[v].event = "failed" =>
          attempts'[worker'[v].job] >= MaxAttempts
    BY <2>1, <2>2, <2>5 DEF AttemptsInv
  <2>8. QED
    BY <2>6, <2>7 DEF AttemptsInv
<1>6. ASSUME NEW w \in Workers, Settle(w)
      PROVE  AttemptsInv'
  <2> DEFINE j == worker[w].job
  <2>1. /\ j \in Jobs /\ \A v \in Workers \ {w} : worker'[v] = worker[v]
        /\ worker'[w].pc # "idle" => worker'[w].job = j
    BY <1>6, WorkerFrame DEF WorkerStep
  <2>2. compensated' = compensated
    BY <1>6 DEF Settle, LastAttempt
  <2>3. \A k \in Jobs : attempts[k] \in Nat /\ attempts'[k] \in Nat
                        /\ attempts'[k] >= attempts[k]
    BY <1>6, <2>1 DEF Settle, LastAttempt
  <2>9. ASSUME NEW k \in Jobs, attempts[k] >= MaxAttempts
        PROVE  attempts'[k] >= MaxAttempts
    <3>1. attempts[k] \in Nat /\ attempts'[k] \in Nat /\ attempts'[k] >= attempts[k]
      BY <2>3
    <3>2. MaxAttempts \in Nat
      BY ExecutionAssumption
    <3>3. QED
      BY <2>9, <3>1, <3>2
  <2>4. worker'[w].pc # "idle" => attempts'[j] >= MaxAttempts
    <3>1. CASE worker' = [worker EXCEPT ![w] = IdleWorker]
      BY <3>1 DEF IdleWorker
    <3>2. CASE worker' # [worker EXCEPT ![w] = IdleWorker]
      BY <1>6, <2>1, <3>2 DEF Settle, LastAttempt
    <3>3. QED
      BY <3>1, <3>2
  <2>5. \A v \in Workers \ {w} : worker[v].pc # "idle" => worker[v].job \in Jobs
    OBVIOUS
  <2>6. \A v \in Workers : worker'[v].pc # "idle" /\ worker'[v].event = "failed" =>
          attempts'[worker'[v].job] >= MaxAttempts
    <3> SUFFICES ASSUME NEW v \in Workers, worker'[v].pc # "idle", worker'[v].event = "failed"
                 PROVE  attempts'[worker'[v].job] >= MaxAttempts
      OBVIOUS
    <3>1. CASE v = w
      BY <2>1, <2>4, <3>1
    <3>2. CASE v # w
      <4>1. attempts[worker[v].job] >= MaxAttempts /\ worker[v].job \in Jobs
        BY <2>1, <2>5, <3>2 DEF AttemptsInv
      <4>2. worker'[v].job = worker[v].job
        BY <2>1, <3>2
      <4>3. attempts'[worker[v].job] >= MaxAttempts
        BY <2>9, <4>1
      <4>4. QED
        BY <4>2, <4>3
    <3>3. QED
      BY <3>1, <3>2
  <2>7. \A k \in Jobs : compensated'[k] > 0 => attempts'[k] >= MaxAttempts
    <3> SUFFICES ASSUME NEW k \in Jobs, compensated[k] > 0
                 PROVE  attempts'[k] >= MaxAttempts
      BY <2>2
    <3>1. attempts[k] >= MaxAttempts
      BY DEF AttemptsInv
    <3>2. QED
      BY <2>9, <3>1
  <2>8. QED
    BY <2>6, <2>7 DEF AttemptsInv
<1>7. CASE (\E j \in Jobs : Stall(j) \/ LeaseExpires(j) \/ MarkerExpires(j)) \/ UNCHANGED vars
  <2>1. UNCHANGED <<attempts, compensated, worker>>
    BY <1>7 DEF Stall, LeaseExpires, MarkerExpires, vars
  <2>2. QED
    BY <2>1 DEF AttemptsInv
<1>8. QED
  BY <1>2, <1>3, <1>4, <1>5, <1>6, <1>7 DEF Next

-----------------------------------------------------------------------------
(* What stalls, and what is lost only by stalling *)

\* Every step of a worker but Settle leaves BullMQ's view of the jobs alone, and
\* touches marker and effects of its own job only.
LEMMA RunFrame ==
  ASSUME TypeOK, NEW w \in Workers, WorkerStep(w), ~Settle(w)
  PROVE  /\ UNCHANGED <<state, stalls, holder>>
         /\ worker'[w].pc # "idle"
         /\ \A j \in Jobs : executed'[j] \in Nat /\ executed'[j] >= executed[j]
<1> USE DEF TypeOK
<1>1. UNCHANGED <<state, stalls, holder>>
  BY DEF WorkerStep, Acquire, AcquireFails, GetMarker, GetMarkerFails, SetInProgress,
     SetInProgressFails, Execute, ExecuteFails, SetCompleted, SetCompletedFails, SetFailed,
     SetFailedFails, Release
<1>2. worker'[w].pc # "idle"
  BY NextPc DEF WorkerStep
<1>3. CASE Execute(w)
  <2>1. worker[w].job \in Jobs
    BY WorkerFrame
  <2>2. executed' = executed \/ executed' = [executed EXCEPT ![worker[w].job] = @ + 1]
    BY <1>3 DEF Execute
  <2>3. QED
    BY <1>1, <1>2, <2>1, <2>2
<1>4. CASE ~Execute(w)
  <2>1. executed' = executed
    BY <1>4 DEF WorkerStep, Acquire, AcquireFails, GetMarker, GetMarkerFails, SetInProgress,
       SetInProgressFails, ExecuteFails, SetCompleted, SetCompletedFails, SetFailed,
       SetFailedFails, Release
  <2>2. QED
    BY <1>1, <1>2, <2>1
<1>5. QED
  BY <1>3, <1>4

LEMMA HeldIsRunStep ==
  ASSUME TypeOK, HeldIsRun, [Next]_vars
  PROVE  HeldIsRun'
<1> USE ExecutionAssumption DEF TypeOK
<1> DEFINE Held(j) == holder[j] # None =>
             /\ state[j] = "active"
             /\ worker[holder[j]].pc # "idle" /\ worker[holder[j]].job = j
             /\ worker[holder[j]].event = "process"
<1>0. \A j \in Jobs : Held(j)
  BY DEF HeldIsRun
<1> SUFFICES ASSUME NEW k \in Jobs
             PROVE  Held(k)'
  BY DEF HeldIsRun
<1>1. holder[k] # None => holder[k] \in Workers
  OBVIOUS
<1>2. ASSUME NEW w \in Workers, NEW j \in Jobs, Fetch(w, j)
      PROVE  Held(k)'
  <2>1. /\ worker'[w].pc = "acquire" /\ worker'[w].job = j /\ worker'[w].event = "process"
        /\ \A v \in Workers \ {w} : worker'[v] = worker[v]
    BY <1>2 DEF Fetch, IdleWorker
  <2>2. CASE k = j
    BY <1>2, <2>1, <2>2 DEF Fetch
  <2>3. CASE k # j
    <3>1. holder'[k] = holder[k] /\ state'[k] = state[k] /\ holder[k] # w
      BY <1>0, <1>2, <2>3 DEF Fetch
    <3>2. QED
      BY <1>0, <1>1, <2>1, <3>1
  <2>4. QED
    BY <2>2, <2>3
<1>3. ASSUME NEW w \in Workers, WorkerStep(w), ~Settle(w)
      PROVE  Held(k)'
  BY <1>0, <1>1, <1>3, WorkerFrame, RunFrame
<1>4. ASSUME NEW w \in Workers, Settle(w)
      PROVE  Held(k)'
  <2>1. /\ worker[w].job \in Jobs /\ \A v \in Workers \ {w} : worker'[v] = worker[v]
    BY <1>4, WorkerFrame DEF WorkerStep
  <2>2. holder'[k] # None =>
          holder'[k] = holder[k] /\ state'[k] = state[k] /\ holder[k] # w
    <3>1. CASE worker[w].event = "failed" \/ holder[worker[w].job] # w
      <4>1. UNCHANGED <<state, holder>>
        BY <1>4, <3>1 DEF Settle
      <4>2. holder[k] # w
        BY <1>0, <1>1, <3>1
      <4>3. QED
        BY <4>1, <4>2
    <3>2. CASE ~(worker[w].event = "failed" \/ holder[worker[w].job] # w)
      <4>1. /\ holder' = [holder EXCEPT ![worker[w].job] = None]
            /\ \A i \in Jobs \ {worker[w].job} : state'[i] = state[i]
        BY <1>4, <2>1, <3>2 DEF Settle
      <4>2. holder[k] = w => k = worker[w].job
        BY <1>0
      <4>3. QED
        BY <2>1, <4>1, <4>2
    <3>3. QED
      BY <3>1, <3>2
  <2>3. QED
    BY <1>0, <1>1, <2>1, <2>2
<1>5. ASSUME NEW w \in Workers, Crash(w)
      PROVE  Held(k)'
  <2>1. \A v \in Workers \ {w} : worker'[v] = worker[v]
    BY <1>5 DEF Crash
  <2>2. holder'[k] # None => holder'[k] = holder[k] /\ holder[k] # w /\ state'[k] = state[k]
    BY <1>5 DEF Crash
  <2>3. QED
    BY <1>0, <1>1, <2>1, <2>2
<1>6. ASSUME NEW j \in Jobs, Stall(j)
      PROVE  Held(k)'
  BY <1>0, <1>6 DEF Stall
<1>7. CASE (\E j \in Jobs : LeaseExpires(j) \/ MarkerExpires(j)) \/ UNCHANGED vars
  <2>1. UNCHANGED <<state, holder, worker>>
    BY <1>7 DEF LeaseExpires, MarkerExpires, vars
  <2>2. QED
    BY <1>0, <2>1
<1>8. QED
  BY <1>2, <1>3, <1>4, <1>5, <1>6, <1>7 DEF Next

\* A job that never stalled has one run; only failed handlers may meet on it.
LEMMA OneRun ==
  ASSUME TypeOK, HeldIsRun, NEW v \in Workers, NEW w \in Workers, v # w,
         RunFine(v), RunFine(w), worker[v].pc # "idle", worker[w].pc # "idle",
         worker[v].job = worker[w].job, NeverStalled(worker[w].job)
  PROVE  worker[v].event = "failed"
<1> USE ExecutionAssumption DEF TypeOK
<1>1. worker[v].event \in {"process", "failed"} /\ worker[w].event \in {"process", "failed"}
      /\ worker[w].job \in Jobs
  BY DEF WorkerState
<1>2. SUFFICES ASSUME worker[v].event = "process"
               PROVE  FALSE
  BY <1>1
<1>3. holder[worker[w].job] = v
  BY <1>2 DEF RunFine
<1>4. state[worker[w].job] = "active"
  BY <1>1, <1>3 DEF HeldIsRun
<1>5. worker[w].event = "process"
  BY <1>1, <1>4 DEF RunFine
<1>6. holder[worker[w].job] = w
  BY <1>5 DEF RunFine
<1>7. QED
  BY <1>3, <1>6

\* A step of a worker leaves the other runs and the jobs as they were, so that
\* only its own record needs looking at.
LEMMA RunKeepsOthers ==
  ASSUME TypeOK, HeldIsRun, StallFreeInv, NEW w \in Workers, WorkerStep(w), ~Settle(w),
         RunFine(w)'
  PROVE  StallFreeInv'
<1> USE ExecutionAssumption DEF TypeOK
<1> DEFINE j == worker[w].job
<1>0. /\ \A v \in Workers \ {w} : worker'[v] = worker[v]
      /\ worker[w].pc # "idle" /\ j \in Jobs
      /\ UNCHANGED <<state, stalls, holder>>
      /\ \A k \in Jobs : faults[k] \subseteq faults'[k]
      /\ \A k \in Jobs : /\ executed'[k] \in Nat /\ executed[k] \in Nat
                         /\ executed'[k] >= executed[k]
      /\ \A k \in Jobs \ {j} : marker'[k] = marker[k]
  BY WorkerFrame, RunFrame, OtherJobs, FaultsGrow DEF GrowFaults
<1>1. \A k \in Jobs : NeverStalled(k)' => NeverStalled(k)
  BY <1>0 DEF NeverStalled
<1>2. (\A v \in Workers : RunFine(v)) /\ (\A k \in Jobs : JobFine(k))
  BY DEF StallFreeInv
<1>3. \A k \in Jobs : executed[k] > 0 => executed'[k] > 0
  <2> SUFFICES ASSUME NEW k \in Jobs, executed[k] > 0
               PROVE  executed'[k] > 0
    OBVIOUS
  <2>1. executed'[k] \in Nat /\ executed[k] \in Nat /\ executed'[k] >= executed[k]
    BY <1>0
  <2>2. QED
    BY <2>1
<1>4. ASSUME NEW v \in Workers \ {w}
      PROVE  RunFine(v)'
  <2> SUFFICES ASSUME worker[v].pc # "idle"
               PROVE  RunFine(v)'
    BY <1>0 DEF RunFine
  <2>1. worker[v].job \in Jobs /\ worker'[v] = worker[v] /\ RunFine(v)
    BY <1>0, <1>2
  <2>2. CASE worker[v].job # j
    BY <1>0, <1>1, <1>3, <2>1, <2>2 DEF RunFine
  <2>3. CASE worker[v].job = j /\ NeverStalled(j)
    <3>1. worker[v].event = "failed"
      BY <1>0, <1>2, <2>3, OneRun
    <3>2. QED
      BY <1>0, <2>1, <3>1 DEF RunFine
  <2>4. CASE worker[v].job = j /\ ~NeverStalled(j)
    BY <1>0, <1>1, <2>1, <2>4 DEF RunFine
  <2>5. QED
    BY <2>2, <2>3, <2>4
<1>5. NeverStalled(j) => state[j] # "waiting"
  <2>1. worker[w].event \in {"process", "failed"}
    BY DEF WorkerState
  <2>2. CASE worker[w].event = "failed"
    BY <1>0, <1>2, <2>2 DEF RunFine
  <2>3. CASE worker[w].event = "process"
    <3>1. NeverStalled(j) => holder[j] = w
      BY <1>0, <1>2, <2>3 DEF RunFine
    <3>2. holder[j] # None => state[j] = "active"
      BY <1>0 DEF HeldIsRun
    <3>3. QED
      BY <3>1, <3>2
  <2>4. QED
    BY <2>1, <2>2, <2>3
<1>6. ASSUME NEW k \in Jobs
      PROVE  JobFine(k)'
  <2>1. CASE k = j
    BY <1>0, <1>1, <1>2, <1>3, <1>5, <2>1 DEF JobFine
  <2>2. CASE k # j
    BY <1>0, <1>1, <1>2, <1>3, <2>2 DEF JobFine
  <2>3. QED
    BY <2>1, <2>2
<1>7. (\A v \in Workers : RunFine(v)') /\ (\A k \in Jobs : JobFine(k)')
  BY <1>4, <1>6
<1>8. QED
  BY <1>7 DEF StallFreeInv

\* The worker's own record, step by step.
LEMMA RunStep ==
  ASSUME TypeOK, HeldIsRun, StallFreeInv, NEW w \in Workers, WorkerStep(w), ~Settle(w)
  PROVE  RunFine(w)'
<1> USE ExecutionAssumption DEF TypeOK
<1> DEFINE j == worker[w].job
<1>0. /\ worker'[w].job = j /\ worker'[w].event = worker[w].event
      /\ worker[w].pc # "idle" /\ j \in Jobs
      /\ UNCHANGED <<state, stalls, holder>>
      /\ faults[j] \subseteq faults'[j]
      /\ RunFine(w)
  BY WorkerFrame, RunFrame, FaultsGrow DEF StallFreeInv, GrowFaults
<1>1. NeverStalled(j)' => NeverStalled(j)
  BY <1>0 DEF NeverStalled
<1>2. SUFFICES ASSUME worker[w].event = "process", NeverStalled(j), NeverStalled(j)'
               PROVE  /\ worker'[w].pc \in {"acquire", "get", "set"} => marker'[j] \in {None, "FAILED"}
                      /\ \/ worker'[w].pc = "succeeded"
                         \/ worker'[w].pc \in {"release", "settle"} /\ ~worker'[w].throws
                         => executed'[j] > 0
                      /\ worker'[w].pc \in {"release", "settle"} /\ worker'[w].throws =>
                           marker'[j] \in {None, "FAILED"}
  BY <1>0, <1>1 DEF RunFine
<1>3. CASE Acquire(w)
  <2>1. worker'[w].pc = "get" /\ marker' = marker /\ worker[w].pc = "acquire"
    BY <1>3, NextPc DEF Acquire
  <2>2. QED
    BY <1>0, <1>2, <2>1 DEF RunFine
<1>4. CASE AcquireFails(w)
  <2>1. /\ worker'[w].pc = "settle" /\ worker'[w].throws = TRUE
        /\ marker' = marker /\ worker[w].pc = "acquire"
    BY <1>4 DEF AcquireFails, WorkerState
  <2>2. QED
    BY <1>0, <1>2, <2>1 DEF RunFine
<1>5. CASE GetMarker(w) \/ GetMarkerFails(w)
  <2>1. worker[w].pc = "get" /\ marker' = marker
    BY <1>5 DEF GetMarker, GetMarkerFails
  <2>2. marker[j] \in {None, "FAILED"}
    BY <1>0, <1>2, <2>1 DEF RunFine
  <2>3. worker'[w].pc = "set" \/ (worker'[w].pc = "release" /\ worker'[w].throws)
    <3>1. CASE GetMarker(w)
      BY <2>2, <3>1, NextPc
    <3>2. CASE GetMarkerFails(w)
      <4>1. Return(w, TRUE) \/ Move(w, "set")
        BY <3>2 DEF GetMarkerFails
      <4>2. QED
        BY <4>1, Returned, Moved
    <3>3. QED
      BY <1>5, <3>1, <3>2
  <2>4. QED
    BY <2>1, <2>2, <2>3
<1>6. CASE SetInProgress(w) \/ ExecuteFails(w)
  <2>1. worker'[w].pc \in {"execute", "threw"}
    BY <1>6, NextPc
  <2>2. QED
    BY <2>1
<1>7. CASE Execute(w)
  <2>1. worker'[w].pc = "succeeded"
    BY <1>7, NextPc
  <2>2. executed'[j] = executed[j] + 1 /\ executed[j] \in Nat
    BY <1>0, <1>2, <1>7 DEF Execute
  <2>3. QED
    BY <2>1, <2>2
<1>8. CASE SetCompleted(w)
  <2>1. /\ worker[w].pc = "succeeded" /\ executed' = executed
        /\ worker'[w].pc = "release" /\ worker'[w].throws = FALSE
    BY <1>8 DEF SetCompleted, Return, WorkerState
  <2>2. QED
    BY <1>0, <1>2, <2>1 DEF RunFine
<1>9. CASE SetFailed(w)
  <2>1. marker'[j] = "FAILED" /\ worker'[w].pc = "release" /\ worker'[w].throws = TRUE
    BY <1>0, <1>9 DEF SetFailed, Return, WorkerState
  <2>2. QED
    BY <2>1
\* The failing calls after which nothing is missing; the others are in MayLose.
<1>10. \A fault \in MayLose : ~Record(j, fault)
  BY <1>0, <1>2 DEF Record, NeverStalled
<1>11. CASE SetInProgressFails(w)
  <2>1. /\ worker[w].pc = "set" /\ marker' = marker
        /\ worker'[w].pc = "release" /\ worker'[w].throws = TRUE
    <3>1. worker[w].pc = "set" /\ marker' = marker /\ Return(w, TRUE)
      BY <1>10, <1>11 DEF SetInProgressFails, MayLose
    <3>2. QED
      BY <3>1, Returned
  <2>2. QED
    BY <1>0, <1>2, <2>1 DEF RunFine
<1>12. CASE SetCompletedFails(w)
  <2>1. worker[w].pc = "succeeded" /\ executed' = executed
    BY <1>12 DEF SetCompletedFails
  <2>2. worker'[w].pc = "threw" \/ (worker'[w].pc = "release" /\ ~worker'[w].throws)
    <3>1. Return(w, FALSE) \/ Move(w, "threw")
      BY <1>12 DEF SetCompletedFails
    <3>2. QED
      BY <3>1, Returned, Moved
  <2>3. QED
    BY <1>0, <1>2, <2>1, <2>2 DEF RunFine
<1>13. CASE SetFailedFails(w)
  BY <1>10, <1>13 DEF SetFailedFails, MayLose
<1>14. CASE Release(w)
  <2>1. /\ worker[w].pc = "release" /\ worker'[w].pc = "settle"
        /\ worker'[w].throws = worker[w].throws
        /\ UNCHANGED <<marker, executed>>
    BY <1>14 DEF Release, Move, WorkerState
  <2>2. QED
    BY <1>0, <1>2, <2>1 DEF RunFine
<1>15. QED
  BY <1>3, <1>4, <1>5, <1>6, <1>7, <1>8, <1>9, <1>11, <1>12, <1>13, <1>14 DEF WorkerStep

LEMMA StallFreeStep ==
  ASSUME TypeOK, HeldIsRun, StallFreeInv, [Next]_vars
  PROVE  StallFreeInv'
<1> USE ExecutionAssumption DEF TypeOK
<1>0. (\A v \in Workers : RunFine(v)) /\ (\A k \in Jobs : JobFine(k))
  BY DEF StallFreeInv
<1>1. (\A v \in Workers : RunFine(v)') /\ (\A k \in Jobs : JobFine(k)') => StallFreeInv'
  BY DEF StallFreeInv
<1>2. \A v \in Workers : worker[v].pc # "idle" => worker[v].job \in Jobs
  OBVIOUS
<1>3. ASSUME NEW w \in Workers, NEW j \in Jobs, Fetch(w, j)
      PROVE  StallFreeInv'
  <2>1. /\ worker'[w].pc = "acquire" /\ worker'[w].job = j /\ worker'[w].event = "process"
        /\ \A v \in Workers \ {w} : worker'[v] = worker[v]
        /\ UNCHANGED <<stalls, marker, executed, faults>>
        /\ state[j] = "waiting" /\ state'[j] = "active" /\ holder'[j] = w
        /\ \A k \in Jobs \ {j} : state'[k] = state[k] /\ holder'[k] = holder[k]
    BY <1>3 DEF Fetch, IdleWorker
  <2>2. RunFine(w)'
    BY <1>0, <2>1 DEF RunFine, JobFine, NeverStalled
  <2>3. ASSUME NEW v \in Workers \ {w}
        PROVE  RunFine(v)'
    <3> SUFFICES ASSUME worker[v].pc # "idle"
                 PROVE  RunFine(v)'
      BY <2>1 DEF RunFine
    <3>1. worker[v].job \in Jobs /\ worker'[v] = worker[v] /\ RunFine(v)
      BY <1>0, <1>2, <2>1
    <3>2. CASE worker[v].job # j
      BY <2>1, <3>1, <3>2 DEF RunFine, NeverStalled
    <3>3. CASE worker[v].job = j
      <4>1. worker[v].event # "failed"
        BY <2>1, <3>1, <3>3 DEF RunFine
      <4>2. worker[v].event = "process" => ~NeverStalled(j)
        BY <2>1, <3>1, <3>3 DEF RunFine, HeldIsRun
      <4>3. QED
        BY <2>1, <3>1, <3>3, <4>1, <4>2 DEF RunFine, NeverStalled
    <3>4. QED
      BY <3>2, <3>3
  <2>4. ASSUME NEW k \in Jobs
        PROVE  JobFine(k)'
    BY <1>0, <2>1 DEF JobFine, NeverStalled
  <2>5. QED
    BY <1>1, <2>2, <2>3, <2>4
<1>4. ASSUME NEW w \in Workers, WorkerStep(w), ~Settle(w)
      PROVE  StallFreeInv'
  BY <1>4, RunStep, RunKeepsOthers
<1>5. ASSUME NEW w \in Workers, Settle(w)
      PROVE  StallFreeInv'
  <2> DEFINE j == worker[w].job
  <2>1. /\ j \in Jobs /\ worker[w].pc = "settle" /\ RunFine(w)
        /\ \A v \in Workers \ {w} : worker'[v] = worker[v]
        /\ UNCHANGED <<stalls, marker, executed, faults>>
    BY <1>0, <1>5, WorkerFrame DEF WorkerStep, Settle, LastAttempt
  <2>2. CASE worker[w].event = "failed" \/ holder[j] # w
    <3>1. worker'[w].pc = "idle" /\ UNCHANGED <<state, holder>>
      BY <1>5, <2>2 DEF Settle, IdleWorker
    <3>2. ASSUME NEW v \in Workers
          PROVE  RunFine(v)'
      BY <1>0, <2>1, <3>1 DEF RunFine, NeverStalled
    <3>3. ASSUME NEW k \in Jobs
          PROVE  JobFine(k)'
      BY <1>0, <2>1, <3>1 DEF JobFine, NeverStalled
    <3>4. QED
      BY <1>1, <3>2, <3>3
  <2>3. CASE ~(worker[w].event = "failed" \/ holder[j] # w)
    <3>1. worker[w].event = "process" /\ holder[j] = w /\ state[j] = "active"
      BY <2>1, <2>3 DEF HeldIsRun, WorkerState
    <3>2. /\ \A k \in Jobs \ {j} : state'[k] = state[k] /\ holder'[k] = holder[k]
          /\ state'[j] = IF ~worker[w].throws THEN "completed"
                         ELSE IF attempts[j] + 1 < MaxAttempts THEN "waiting" ELSE "failed"
      BY <1>5, <2>1, <2>3 DEF Settle
    <3>3. \/ worker'[w].pc = "idle"
          \/ /\ worker'[w].job = j
             /\ worker'[w].event = "failed"
             /\ state'[j] = "failed"
      <4>1. CASE worker[w].throws /\ LastAttempt(attempts[j] + 1)
        <5>1. worker' = [worker EXCEPT ![w] = [IdleWorker EXCEPT !.pc = "acquire", !.job = j,
                                                                 !.event = "failed"]]
          BY <1>5, <2>3, <4>1 DEF Settle
        <5>2. attempts[j] + 1 >= MaxAttempts /\ attempts[j] \in Nat /\ MaxAttempts \in Nat
          BY <2>1, <4>1 DEF LastAttempt
        <5>3. state'[j] = "failed"
          BY <3>2, <4>1, <5>2
        <5>4. /\ [IdleWorker EXCEPT !.pc = "acquire", !.job = j, !.event = "failed"].job = j
              /\ [IdleWorker EXCEPT !.pc = "acquire", !.job = j, !.event = "failed"].event
                   = "failed"
          BY DEF IdleWorker
        <5>5. worker'[w] = [IdleWorker EXCEPT !.pc = "acquire", !.job = j, !.event = "failed"]
          BY <5>1, Zenon
        <5>6. QED
          BY <5>3, <5>4, <5>5, Zenon
      <4>2. CASE ~(worker[w].throws /\ LastAttempt(attempts[j] + 1))
        <5>1. worker' = [worker EXCEPT ![w] = IdleWorker]
          BY <1>5, <2>3, <4>2 DEF Settle
        <5>2. QED
          BY <5>1 DEF IdleWorker
      <4>3. QED
        BY <4>1, <4>2
    <3>4. RunFine(w)'
      BY <3>3 DEF RunFine
    <3>5. ASSUME NEW v \in Workers \ {w}
          PROVE  RunFine(v)'
      <4> SUFFICES ASSUME worker[v].pc # "idle"
                   PROVE  RunFine(v)'
        BY <2>1 DEF RunFine
      <4>1. worker[v].job \in Jobs /\ worker'[v] = worker[v] /\ RunFine(v)
        BY <1>0, <1>2, <2>1
      <4>2. CASE worker[v].job # j
        BY <2>1, <3>2, <4>1, <4>2 DEF RunFine, NeverStalled
      <4>3. CASE worker[v].job = j
        <5>1. worker[v].event # "failed"
          BY <3>1, <4>1, <4>3 DEF RunFine
        <5>2. worker[v].event = "process" => ~NeverStalled(j)
          BY <3>1, <4>1, <4>3 DEF RunFine
        <5>3. QED
          BY <2>1, <4>1, <4>3, <5>1, <5>2 DEF RunFine, NeverStalled
      <4>4. QED
        BY <4>2, <4>3
    <3>6. ASSUME NEW k \in Jobs
          PROVE  JobFine(k)'
      <4>1. CASE k # j
        BY <1>0, <2>1, <3>2, <4>1 DEF JobFine, NeverStalled
      <4>2. CASE k = j
        <5>1. worker[w].throws \in BOOLEAN
          BY DEF WorkerState
        <5>2. NeverStalled(j) => IF worker[w].throws THEN marker[j] \in {None, "FAILED"}
                                 ELSE executed[j] > 0
          BY <2>1, <3>1, <5>1 DEF RunFine
        <5>3. QED
          BY <2>1, <3>2, <4>2, <5>1, <5>2 DEF JobFine, NeverStalled
      <4>3. QED
        BY <4>1, <4>2
    <3>7. QED
      BY <1>1, <3>4, <3>5, <3>6
  <2>4. QED
    BY <2>2, <2>3
<1>6. ASSUME NEW w \in Workers, Crash(w)
      PROVE  StallFreeInv'
  <2>1. /\ worker'[w].pc = "idle" /\ UNCHANGED <<state, stalls, marker, executed, faults>>
        /\ \A v \in Workers \ {w} : worker'[v] = worker[v]
        /\ \A k \in Jobs : holder[k] # w => holder'[k] = holder[k]
    BY <1>6 DEF Crash, IdleWorker
  <2>2. ASSUME NEW v \in Workers
        PROVE  RunFine(v)'
    BY <1>0, <1>2, <2>1 DEF RunFine, NeverStalled
  <2>3. ASSUME NEW k \in Jobs
        PROVE  JobFine(k)'
    BY <1>0, <2>1 DEF JobFine, NeverStalled
  <2>4. QED
    BY <1>1, <2>2, <2>3
<1>7. ASSUME NEW j \in Jobs, Stall(j)
      PROVE  StallFreeInv'
  <2>1. /\ UNCHANGED <<worker, marker, executed, faults>> /\ state[j] = "active"
        /\ stalls'[j] # 0
        /\ \A k \in Jobs \ {j} :
             state'[k] = state[k] /\ holder'[k] = holder[k] /\ stalls'[k] = stalls[k]
    BY <1>7 DEF Stall
  <2>2. ~NeverStalled(j)'
    BY <2>1 DEF NeverStalled
  <2>3. ASSUME NEW v \in Workers
        PROVE  RunFine(v)'
    <3> SUFFICES ASSUME worker[v].pc # "idle"
                 PROVE  RunFine(v)'
      BY <2>1 DEF RunFine
    <3>1. worker[v].job \in Jobs /\ RunFine(v)
      BY <1>0, <1>2
    <3>2. CASE worker[v].job # j
      BY <2>1, <3>1, <3>2 DEF RunFine, NeverStalled
    <3>3. CASE worker[v].job = j
      BY <2>1, <2>2, <3>1, <3>3 DEF RunFine
    <3>4. QED
      BY <3>2, <3>3
  <2>4. ASSUME NEW k \in Jobs
        PROVE  JobFine(k)'
    BY <1>0, <2>1, <2>2 DEF JobFine, NeverStalled
  <2>5. QED
    BY <1>1, <2>3, <2>4
<1>8. ASSUME UNCHANGED <<state, stalls, holder, worker, executed>>,
             \A k \in Jobs : /\ faults[k] \subseteq faults'[k]
                            /\ marker'[k] \in {marker[k], None}
      PROVE  StallFreeInv'
  <2>1. \A k \in Jobs : NeverStalled(k)' => NeverStalled(k)
    BY <1>8 DEF NeverStalled
  <2>2. ASSUME NEW v \in Workers
        PROVE  RunFine(v)'
    BY <1>0, <1>2, <1>8, <2>1 DEF RunFine
  <2>3. ASSUME NEW k \in Jobs
        PROVE  JobFine(k)'
    BY <1>0, <1>8, <2>1 DEF JobFine
  <2>4. QED
    BY <1>1, <2>2, <2>3
<1>9. ASSUME NEW j \in Jobs, LeaseExpires(j)
      PROVE  StallFreeInv'
  <2>1. \A k \in Jobs : faults[k] \subseteq faults'[k] /\ marker'[k] = marker[k]
    BY <1>9 DEF LeaseExpires
  <2>2. QED
    BY <1>8, <1>9, <2>1 DEF LeaseExpires
<1>10. ASSUME NEW j \in Jobs, MarkerExpires(j)
       PROVE  StallFreeInv'
  <2>1. \A k \in Jobs : faults[k] \subseteq faults'[k] /\ marker'[k] \in {marker[k], None}
    BY <1>10 DEF MarkerExpires
  <2>2. QED
    BY <1>8, <1>10, <2>1 DEF MarkerExpires
<1>11. CASE UNCHANGED vars
  BY <1>8, <1>11 DEF vars
<1>12. QED
  BY <1>3, <1>4, <1>5, <1>6, <1>7, <1>9, <1>10, <1>11 DEF Next

-----------------------------------------------------------------------------
(* The theorems *)

Invariant == TypeOK /\ LockInv /\ MarkerInv /\ AttemptsInv

\* Lock, marker and attempts together are inductive: only the lock's owner
\* touches the marker, so what a worker read of it is still so when it acts.
THEOREM InvariantHolds == Spec => []Invariant
<1>1. Init => Invariant
  <2> SUFFICES ASSUME Init
               PROVE  Invariant
    OBVIOUS
  <2>1. TypeOK
    BY IdleIsWorker DEF Init, TypeOK, JobStates, IdleWorker
  <2>2. \A w \in Workers : worker[w].pc = "idle"
    BY DEF Init, IdleWorker
  <2>3. \A j \in Jobs : executed[j] = 0 /\ compensated[j] = 0
    BY DEF Init
  <2>4. QED
    BY <2>1, <2>2, <2>3 DEF Invariant, LockInv, MarkerInv, Executing, AttemptsInv
<1>2. Invariant /\ [Next]_vars => Invariant'
  BY TypeStep, LockInvStep, MarkerInvStep, AttemptsInvStep DEF Invariant
<1>3. QED
  BY <1>1, <1>2, PTL DEF Spec

\* Any number of workers, stalls and crashes: the job-execute lock keeps two
\* runs of one job apart while its lease outlasts a live holder.
THEOREM NeverTwiceAtOnceHolds == Spec => []NeverTwiceAtOnce
<1>1. Invariant => NeverTwiceAtOnce
  <2> SUFFICES ASSUME Invariant, NEW v \in Workers, NEW w \in Workers, v # w,
                      worker[v].job = worker[w].job, Executing(v), Executing(w),
                      "lease" \notin faults[worker[v].job]
               PROVE  FALSE
    BY DEF NeverTwiceAtOnce
  <2>1. lease[worker[v].job] = v /\ lease[worker[w].job] = w
    BY DEF Invariant, LockInv, Executing
  <2>2. QED
    BY <2>1
<1>2. QED
  BY <1>1, InvariantHolds, PTL

\* processFailed compensates a job (executeAfterFail) only after its last
\* attempt; lock and marker together leave a job one effect, its strategy's or
\* its compensation's, whatever fails that is not one of MayRepeat.
THEOREM CompensationExcludesExecutionHolds == Spec => []CompensationExcludesExecution
<1>1. Invariant => CompensationExcludesExecution
  <2> SUFFICES ASSUME Invariant, NEW j \in Jobs, faults[j] \cap MayRepeat = {}
               PROVE  ~(executed[j] + compensated[j] > 1)
    BY DEF Invariant, AttemptsInv, CompensationExcludesExecution
  <2>1. executed[j] \in Nat /\ compensated[j] \in Nat
    BY DEF Invariant, TypeOK
  <2>2. executed[j] + compensated[j] <= 1
    BY DEF Invariant, MarkerInv
  <2>3. QED
    BY <2>1, <2>2
<1>2. QED
  BY <1>1, InvariantHolds, PTL

\* What the runs of a job rely on while it never stalls, and who runs it.
THEOREM RunsHold == Spec => [](TypeOK /\ HeldIsRun /\ StallFreeInv)
<1> DEFINE Runs == TypeOK /\ HeldIsRun /\ StallFreeInv
<1>1. Init => Runs
  <2> SUFFICES ASSUME Init
               PROVE  Runs
    OBVIOUS
  <2>1. TypeOK
    BY IdleIsWorker DEF Init, TypeOK, JobStates, IdleWorker
  <2>2. /\ \A w \in Workers : worker[w].pc = "idle"
        /\ \A j \in Jobs : state[j] = "waiting" /\ holder[j] = None /\ marker[j] = None
    BY DEF Init, IdleWorker
  <2>3. HeldIsRun
    BY <2>2 DEF HeldIsRun
  <2>4. StallFreeInv
    BY <2>2 DEF StallFreeInv, RunFine, JobFine
  <2>5. QED
    BY <2>1, <2>3, <2>4
<1>2. Runs /\ [Next]_vars => Runs'
  BY TypeStep, HeldIsRunStep, StallFreeStep
<1>3. QED
  BY <1>1, <1>2, PTL DEF Spec

\* Whoever holds a job runs it: what BullMQ shows as active and held is not
\* stuck, and what is active with no holder is found by the stalled check.
THEOREM HeldIsRunHolds == Spec => []HeldIsRun
BY RunsHold, PTL

\* A worker that was slow and lost its job to another cannot unsettle it.
THEOREM SettledForGoodHolds == Spec => SettledForGood
<1> DEFINE Stays == \A j \in Jobs : Settled(j) => state'[j] = state[j] /\ attempts'[j] = attempts[j]
<1>1. ASSUME TypeOK, HeldIsRun, [Next]_vars
      PROVE  Stays
  <2> SUFFICES ASSUME NEW j \in Jobs, Settled(j)
               PROVE  state'[j] = state[j] /\ attempts'[j] = attempts[j]
    OBVIOUS
  <2>1. state[j] # "waiting" /\ state[j] # "active" /\ holder[j] = None
    BY <1>1 DEF Settled, HeldIsRun
  <2>2. ASSUME NEW w \in Workers, Settle(w)
        PROVE  state'[j] = state[j] /\ attempts'[j] = attempts[j]
    <3>1. CASE worker[w].event = "failed" \/ holder[worker[w].job] # w
      BY <2>2, <3>1 DEF Settle
    <3>2. CASE ~(worker[w].event = "failed" \/ holder[worker[w].job] # w)
      <4>1. worker[w].job # j
        BY <2>1, <3>2, ExecutionAssumption
      <4>2. QED
        BY <1>1, <2>2, <3>2, <4>1 DEF Settle, TypeOK
    <3>3. QED
      BY <3>1, <3>2
  <2>3. ASSUME NEW w \in Workers, WorkerStep(w), ~Settle(w)
        PROVE  UNCHANGED <<state, attempts>>
    BY <2>3 DEF WorkerStep, Acquire, AcquireFails, GetMarker, GetMarkerFails, SetInProgress,
       SetInProgressFails, Execute, ExecuteFails, SetCompleted, SetCompletedFails, SetFailed,
       SetFailedFails, Release
  <2>4. ASSUME NEW w \in Workers, NEW k \in Jobs, Fetch(w, k)
        PROVE  state'[j] = state[j] /\ attempts'[j] = attempts[j]
    BY <1>1, <2>1, <2>4 DEF Fetch, TypeOK
  <2>5. ASSUME NEW k \in Jobs, Stall(k)
        PROVE  state'[j] = state[j] /\ attempts'[j] = attempts[j]
    BY <1>1, <2>1, <2>5 DEF Stall, TypeOK
  <2>6. ASSUME \/ \E w \in Workers : Crash(w)
               \/ \E k \in Jobs : LeaseExpires(k) \/ MarkerExpires(k)
               \/ UNCHANGED vars
        PROVE  UNCHANGED <<state, attempts>>
    BY <2>6 DEF Crash, LeaseExpires, MarkerExpires, vars
  <2>7. QED
    BY <1>1, <2>2, <2>3, <2>4, <2>5, <2>6 DEF Next
<1>2. (TypeOK /\ HeldIsRun /\ StallFreeInv) /\ [Next]_vars => [Stays]_vars
  BY <1>1
<1>3. QED
  BY <1>2, RunsHold, PTL DEF Spec, SettledForGood

\* The effect of a completed job is lost only to a stall, or to a set(IN_PROGRESS) or
\* set(FAILED) that failed; whatever else fails, or runs out, loses none.
THEOREM LostOnlyAfterStallHolds == Spec => []LostOnlyAfterStall
<1>1. StallFreeInv => LostOnlyAfterStall
  BY DEF StallFreeInv, JobFine, NeverStalled, LostOnlyAfterStall
<1>2. QED
  BY <1>1, RunsHold, PTL

\* The variables of job execution keep their types.
THEOREM TypeCorrect == Spec => []TypeOK
<1>1. Invariant => TypeOK
  BY DEF Invariant
<1>2. QED
  BY <1>1, InvariantHolds, PTL
=============================================================================
