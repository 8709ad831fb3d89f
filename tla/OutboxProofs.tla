---------------------------- MODULE OutboxProofs ----------------------------
(* The outbox implements reliable delivery, for any number of messages,     *)
(* instances, runs, queues and failures.                                    *)
EXTENDS Outbox, TLAPS

LEMMA IdleIsRun == Idle \in RunState
  BY OutboxAssumption DEF Idle, RunState

\* What one addBulk of a run brings to its queue.
Part(r) == {m \in run[r].batch : QueueOf[m] = Queues[run[r].next]}

\* addBulk counts its messages, and no other.
LEMMA DispatchSends ==
  ASSUME TypeOK, NEW r \in Runs, Dispatch(r)
  PROVE  /\ sent' \in [Messages -> Nat]
         /\ \A m \in Messages :
              /\ sent'[m] >= sent[m]
              /\ m \in Part(r) => sent'[m] = sent[m] + 1
              /\ m \notin Part(r) => sent'[m] = sent[m]
  BY DEF TypeOK, Dispatch, Part

-----------------------------------------------------------------------------

LEMMA TypeStep ==
  ASSUME TypeOK, [Next]_vars
  PROVE  TypeOK'
<1> USE OutboxAssumption DEF TypeOK
<1>1. ASSUME NEW m \in Messages,
             Add(m) \/ TransactionCommits(m) \/ TransactionRollsBack(m)
      PROVE  TypeOK'
  BY <1>1 DEF Add, TransactionCommits, TransactionRollsBack, RowStates
<1>2. ASSUME NEW r \in Runs, Start(r)
      PROVE  TypeOK'
  <2>1. [run[r] EXCEPT !.pc = "find"] \in RunState
    BY DEF RunState
  <2>2. QED
    BY <1>2, <2>1 DEF Start
<1>3. ASSUME NEW r \in Runs, FindAndLockBatch(r)
      PROVE  TypeOK'
  <2>1. PICK b \in SUBSET Visible :
          IF b = {}
          THEN /\ run' = [run EXCEPT ![r].pc = "commit"]
               /\ isProcessing' = [isProcessing EXCEPT ![InstanceOf[r]] = FALSE]
          ELSE /\ run' = [run EXCEPT ![r] = [@ EXCEPT !.pc = "dispatch", !.batch = b]]
               /\ UNCHANGED isProcessing
    BY <1>3 DEF FindAndLockBatch
  <2>2. b \in SUBSET Messages
    BY DEF Visible
  <2>3. /\ [run[r] EXCEPT !.pc = "commit"] \in RunState
        /\ [run[r] EXCEPT !.pc = "dispatch", !.batch = b] \in RunState
    BY <2>2 DEF RunState
  <2>4. QED
    BY <1>3, <2>1, <2>3 DEF FindAndLockBatch
<1>4. ASSUME NEW r \in Runs, Dispatch(r)
      PROVE  TypeOK'
  <2>1. run[r].next + 1 \in 1 .. Len(Queues) + 1
    BY <1>4 DEF Dispatch, RunState
  <2>2. [run[r] EXCEPT !.next = run[r].next + 1] \in RunState
    BY <2>1 DEF RunState
  <2>3. sent' \in [Messages -> Nat]
    BY <1>4, DispatchSends
  <2>4. QED
    BY <1>4, <2>2, <2>3 DEF Dispatch
<1>5. ASSUME NEW r \in Runs, Dispatched(r) \/ DeleteBulk(r) \/ Fails(r)
      PROVE  TypeOK'
  <2>1. /\ [run[r] EXCEPT !.pc = "delete"] \in RunState
        /\ [run[r] EXCEPT !.pc = "commit"] \in RunState
        /\ [run[r] EXCEPT !.pc = "commit", !.deletes = TRUE] \in RunState
    BY DEF RunState
  <2>2. CASE Dispatched(r)
    BY <2>1, <2>2 DEF Dispatched
  <2>3. CASE DeleteBulk(r)
    BY <2>1, <2>3 DEF DeleteBulk
  <2>4. CASE Fails(r)
    BY <2>1, <2>4 DEF Fails
  <2>5. QED
    BY <1>5, <2>2, <2>3, <2>4
<1>6. ASSUME NEW r \in Runs, Commit(r) \/ CommitFails(r)
      PROVE  TypeOK'
  <2>1. CASE Commit(r)
    BY <2>1, IdleIsRun DEF Commit, RowStates
  <2>2. CASE CommitFails(r)
    BY <2>2, IdleIsRun DEF CommitFails
  <2>3. QED
    BY <1>6, <2>1, <2>2
<1>7. ASSUME NEW i \in Instances, Crash(i) \/ ShutDown(i) \/ Exit(i)
      PROVE  TypeOK'
  <2>1. CASE Restarted(i) /\ UNCHANGED <<row, sent, shutdowns>> /\ faults' \in Nat
    BY <2>1, IdleIsRun DEF Restarted
  <2>2. CASE ShutDown(i)
    BY <2>2 DEF ShutDown
  <2>3. CASE Crash(i)
    <3>1. faults' \in Nat
      BY <2>3 DEF Crash
    <3>2. QED
      BY <2>1, <2>3, <3>1 DEF Crash
  <2>4. CASE Exit(i)
    BY <2>1, <2>4 DEF Exit
  <2>5. QED
    BY <1>7, <2>2, <2>3, <2>4
<1>8. CASE UNCHANGED vars
  BY <1>8 DEF vars
<1>9. QED
  BY <1>1, <1>2, <1>3, <1>4, <1>5, <1>6, <1>7, <1>8 DEF Next, RunStep

-----------------------------------------------------------------------------
(* Row locks *)

LEMMA RowsAreHeldStep ==
  ASSUME TypeOK, RowsAreHeld, [Next]_vars
  PROVE  RowsAreHeld'
<1> USE DEF TypeOK
<1>1. ASSUME row' = row, \A r \in Runs : run'[r].batch \in {run[r].batch, {}}
      PROVE  RowsAreHeld'
  BY <1>1 DEF RowsAreHeld
<1>2. ASSUME NEW m \in Messages,
             Add(m) \/ TransactionCommits(m) \/ TransactionRollsBack(m)
      PROVE  RowsAreHeld'
  BY <1>2 DEF Add, TransactionCommits, TransactionRollsBack, RowsAreHeld, RunState
<1>3. ASSUME NEW r \in Runs, Start(r) \/ Dispatch(r) \/ Dispatched(r) \/ DeleteBulk(r) \/ Fails(r)
      PROVE  RowsAreHeld'
  <2>1. \A s \in Runs : run'[s].batch = run[s].batch
    <3>1. CASE Start(r)
      BY <3>1 DEF Start, RunState
    <3>2. CASE Dispatched(r)
      BY <3>2 DEF Dispatched, RunState
    <3>3. CASE Fails(r)
      BY <3>3 DEF Fails, RunState
    <3>4. CASE Dispatch(r)
      BY <3>4 DEF Dispatch, RunState
    <3>5. CASE DeleteBulk(r)
      BY <3>5 DEF DeleteBulk, RunState
    <3>6. QED
      BY <1>3, <3>1, <3>2, <3>3, <3>4, <3>5
  <2>2. row' = row
    BY <1>3 DEF Start, Dispatch, Dispatched, DeleteBulk, Fails
  <2>3. QED
    BY <1>1, <2>1, <2>2
<1>4. ASSUME NEW r \in Runs, FindAndLockBatch(r)
      PROVE  RowsAreHeld'
  <2>1. PICK b \in SUBSET Visible :
          IF b = {}
          THEN run' = [run EXCEPT ![r].pc = "commit"]
          ELSE run' = [run EXCEPT ![r] = [@ EXCEPT !.pc = "dispatch", !.batch = b]]
    BY <1>4 DEF FindAndLockBatch
  <2>2. run'[r].batch \in {run[r].batch, b} /\ \A s \in Runs \ {r} : run'[s] = run[s]
    BY <2>1 DEF RunState
  <2>3. \A m \in b : row[m] = "present" /\ \A s \in Runs : m \notin run[s].batch
    BY DEF Visible, Locked
  <2>4. row' = row
    BY <1>4 DEF FindAndLockBatch
  <2>5. QED
    BY <2>2, <2>3, <2>4 DEF RowsAreHeld
<1>5. ASSUME NEW r \in Runs, Commit(r)
      PROVE  RowsAreHeld'
  <2>1. run'[r].batch = {} /\ \A s \in Runs \ {r} : run'[s] = run[s]
    BY <1>5 DEF Commit, Idle
  <2>2. \A s \in Runs \ {r} : \A m \in run[s].batch : m \in Messages /\ m \notin run[r].batch
    BY DEF RowsAreHeld, RunState
  <2>3. \A s \in Runs \ {r} : \A m \in run[s].batch : row'[m] = row[m]
    BY <1>5, <2>2 DEF Commit
  <2>4. QED
    BY <2>1, <2>3 DEF RowsAreHeld
<1>6. ASSUME NEW r \in Runs, CommitFails(r)
      PROVE  RowsAreHeld'
  BY <1>1, <1>6 DEF CommitFails, Idle
<1>7. ASSUME NEW i \in Instances, Crash(i) \/ ShutDown(i) \/ Exit(i)
      PROVE  RowsAreHeld'
  BY <1>1, <1>7 DEF Crash, ShutDown, Exit, Restarted, Idle
<1>8. CASE UNCHANGED vars
  BY <1>1, <1>8 DEF vars
<1>9. QED
  BY <1>2, <1>3, <1>4, <1>5, <1>6, <1>7, <1>8 DEF Next, RunStep

-----------------------------------------------------------------------------
(* Where a run stands *)

\* One run's part of RunInv.
RunOk(v, held) ==
  /\ v.pc \in {"idle", "find"} => v = [Idle EXCEPT !.pc = v.pc]
  /\ v.deletes => v.pc = "commit"
  /\ v.pc = "dispatch" =>
       \A m \in v.batch, i \in 1 .. Len(Queues) :
         i < v.next /\ QueueOf[m] = Queues[i] => held[m] > 0
  /\ v.pc = "delete" \/ v.deletes => \A m \in v.batch : held[m] > 0

LEMMA RunOkKept ==
  ASSUME NEW v \in RunState, sent \in [Messages -> Nat],
         NEW held \in [Messages -> Nat], \A m \in Messages : held[m] >= sent[m],
         RunOk(v, sent)
  PROVE  RunOk(v, held)
<1>1. v.batch \subseteq Messages
  BY DEF RunState
<1>2. \A m \in v.batch : sent[m] > 0 => held[m] > 0
  BY <1>1
<1>3. QED
  BY <1>2 DEF RunOk

LEMMA RunInvStep ==
  ASSUME TypeOK, RunInv, [Next]_vars
  PROVE  RunInv'
<1> USE DEF TypeOK
<1>0. \A r \in Runs : RunOk(run[r], sent)
  BY DEF RunInv, RunOk
<1> SUFFICES \A r \in Runs : RunOk(run'[r], sent')
  BY DEF RunInv, RunOk
<1>1. ASSUME sent' = sent, \A r \in Runs : run'[r] \in {run[r], Idle}
      PROVE  \A r \in Runs : RunOk(run'[r], sent')
  <2>1. RunOk(Idle, sent)
    BY DEF RunOk, Idle
  <2>2. QED
    BY <1>0, <1>1, <2>1
<1>2. ASSUME NEW m \in Messages,
             Add(m) \/ TransactionCommits(m) \/ TransactionRollsBack(m)
      PROVE  \A r \in Runs : RunOk(run'[r], sent')
  BY <1>1, <1>2 DEF Add, TransactionCommits, TransactionRollsBack
<1>3. ASSUME NEW r \in Runs, sent' = sent, \A s \in Runs \ {r} : run'[s] = run[s],
             RunOk(run'[r], sent)
      PROVE  \A s \in Runs : RunOk(run'[s], sent')
  BY <1>0, <1>3
<1>4. ASSUME NEW r \in Runs, Start(r)
      PROVE  \A s \in Runs : RunOk(run'[s], sent')
  <2>1. run[r] = Idle
    BY <1>4 DEF Start, RunInv, Idle
  <2>2. run'[r] = [Idle EXCEPT !.pc = "find"]
    BY <1>4, <2>1 DEF Start
  <2>3. RunOk(run'[r], sent)
    BY <2>2 DEF RunOk, Idle
  <2>4. QED
    BY <1>3, <1>4, <2>3 DEF Start
<1>5. ASSUME NEW r \in Runs, FindAndLockBatch(r)
      PROVE  \A s \in Runs : RunOk(run'[s], sent')
  <2>1. PICK b \in SUBSET Visible :
          IF b = {}
          THEN run' = [run EXCEPT ![r].pc = "commit"]
          ELSE run' = [run EXCEPT ![r] = [@ EXCEPT !.pc = "dispatch", !.batch = b]]
    BY <1>5 DEF FindAndLockBatch
  <2>2. run[r] = [Idle EXCEPT !.pc = "find"]
    BY <1>5 DEF FindAndLockBatch, RunInv
  <2>3. run'[r].pc \in {"commit", "dispatch"} /\ run'[r].next = 1 /\ ~run'[r].deletes
    <3>1. run[r].next = 1 /\ ~run[r].deletes
      BY <2>2 DEF Idle
    <3>2. CASE b = {}
      BY <2>1, <3>1, <3>2 DEF RunState
    <3>3. CASE b # {}
      BY <2>1, <3>1, <3>3 DEF RunState
    <3>4. QED
      BY <3>2, <3>3
  <2>4. RunOk(run'[r], sent)
    BY <2>3, OutboxAssumption DEF RunOk
  <2>5. QED
    BY <1>3, <1>5, <2>1, <2>4 DEF FindAndLockBatch
<1>6. ASSUME NEW r \in Runs, Dispatch(r)
      PROVE  \A s \in Runs : RunOk(run'[s], sent')
  <2> DEFINE part == Part(r)
  <2>1. /\ sent' \in [Messages -> Nat]
        /\ \A m \in Messages : sent'[m] >= sent[m] /\ (m \in part => sent'[m] > 0)
    BY <1>6, DispatchSends DEF Part
  <2>2. \A s \in Runs : RunOk(run[s], sent')
    BY <1>0, <2>1, RunOkKept
  <2>3. /\ run'[r].pc = "dispatch" /\ run'[r].batch = run[r].batch
        /\ run'[r].next = run[r].next + 1 /\ run'[r].deletes = run[r].deletes
        /\ run[r].next \in 1 .. Len(Queues) + 1 /\ run[r].pc = "dispatch"
        /\ run[r].batch \subseteq Messages
    BY <1>6 DEF Dispatch, RunState
  <2>4. \A m \in run[r].batch, i \in 1 .. Len(Queues) :
          i < run[r].next + 1 /\ QueueOf[m] = Queues[i] => sent'[m] > 0
    <3> SUFFICES ASSUME NEW m \in run[r].batch, NEW i \in 1 .. Len(Queues),
                        i < run[r].next + 1, QueueOf[m] = Queues[i]
                 PROVE  sent'[m] > 0
      OBVIOUS
    <3>1. CASE i = run[r].next
      BY <2>1, <2>3, <3>1 DEF Part
    <3>2. CASE i < run[r].next
      BY <2>2, <2>3, <3>2 DEF RunOk
    <3>3. QED
      BY <2>3, <3>1, <3>2, OutboxAssumption
  <2>5. ~run[r].deletes
    BY <1>0, <2>3 DEF RunOk
  <2>6. RunOk(run'[r], sent')
    BY <2>3, <2>4, <2>5 DEF RunOk
  <2>7. QED
    BY <1>6, <2>2, <2>6 DEF Dispatch
<1>7. ASSUME NEW r \in Runs, Dispatched(r)
      PROVE  \A s \in Runs : RunOk(run'[s], sent')
  <2>1. /\ run'[r].pc = "delete" /\ run'[r].batch = run[r].batch
        /\ run'[r].deletes = run[r].deletes
        /\ run[r].next = Len(Queues) + 1 /\ run[r].pc = "dispatch"
        /\ run[r].batch \subseteq Messages
    BY <1>7 DEF Dispatched, RunState
  <2>2. \A m \in run[r].batch : \E i \in 1 .. Len(Queues) : QueueOf[m] = Queues[i]
    BY <2>1, OutboxAssumption
  <2>3. \A m \in run[r].batch : sent[m] > 0
    <3> SUFFICES ASSUME NEW m \in run[r].batch
                 PROVE  sent[m] > 0
      OBVIOUS
    <3>1. PICK i \in 1 .. Len(Queues) : QueueOf[m] = Queues[i]
      BY <2>2
    <3>2. i < run[r].next
      BY <2>1, OutboxAssumption
    <3>3. RunOk(run[r], sent)
      BY <1>0
    <3>4. QED
      BY <2>1, <3>1, <3>2, <3>3 DEF RunOk
  <2>4. ~run[r].deletes
    BY <1>0, <2>1 DEF RunOk
  <2>5. RunOk(run'[r], sent)
    BY <2>1, <2>3, <2>4 DEF RunOk
  <2>6. QED
    BY <1>3, <1>7, <2>5 DEF Dispatched
<1>8. ASSUME NEW r \in Runs, DeleteBulk(r)
      PROVE  \A s \in Runs : RunOk(run'[s], sent')
  <2>1. /\ run'[r].pc = "commit" /\ run'[r].batch = run[r].batch /\ run[r].pc = "delete"
    BY <1>8 DEF DeleteBulk, RunState
  <2>2. RunOk(run'[r], sent)
    BY <1>0, <2>1 DEF RunOk
  <2>3. QED
    BY <1>3, <1>8, <2>2 DEF DeleteBulk
<1>9. ASSUME NEW r \in Runs, Fails(r)
      PROVE  \A s \in Runs : RunOk(run'[s], sent')
  <2>1. /\ run'[r].pc = "commit" /\ run'[r].batch = run[r].batch
        /\ run'[r].deletes = run[r].deletes /\ run[r].pc # "commit"
    BY <1>9 DEF Fails, RunState
  <2>2. RunOk(run'[r], sent)
    BY <1>0, <2>1 DEF RunOk
  <2>3. QED
    BY <1>3, <1>9, <2>2 DEF Fails
<1>10. ASSUME NEW r \in Runs, Commit(r) \/ CommitFails(r)
       PROVE  \A s \in Runs : RunOk(run'[s], sent')
  BY <1>1, <1>10 DEF Commit, CommitFails
<1>11. ASSUME NEW i \in Instances, Crash(i) \/ ShutDown(i) \/ Exit(i)
       PROVE  \A s \in Runs : RunOk(run'[s], sent')
  BY <1>1, <1>11 DEF Crash, ShutDown, Exit, Restarted
<1>12. CASE UNCHANGED vars
  BY <1>1, <1>12 DEF vars
<1>13. QED
  BY <1>2, <1>4, <1>5, <1>6, <1>7, <1>8, <1>9, <1>10, <1>11, <1>12 DEF Next, RunStep

-----------------------------------------------------------------------------
(* The processing flag *)

SerialInv ==
  /\ OneRunAtATime
  /\ \A r \in Runs : Working(r) => isProcessing[InstanceOf[r]]

LEMMA SerialInvStep ==
  ASSUME TypeOK, SerialInv, [Next]_vars
  PROVE  SerialInv'
<1> USE OutboxAssumption DEF TypeOK, SerialInv, OneRunAtATime, Working
<1>1. ASSUME isProcessing' = isProcessing,
             \A r \in Runs : Working(r)' => Working(r)
      PROVE  SerialInv'
  BY <1>1
<1>2. ASSUME NEW m \in Messages,
             Add(m) \/ TransactionCommits(m) \/ TransactionRollsBack(m)
      PROVE  SerialInv'
  BY <1>2 DEF Add, TransactionCommits, TransactionRollsBack
<1>3. ASSUME NEW r \in Runs, Start(r)
      PROVE  SerialInv'
  <2>1. \A s \in Runs : InstanceOf[s] = InstanceOf[r] => ~Working(s)
    BY <1>3 DEF Start
  <2>2. \A s \in Runs \ {r} : run'[s] = run[s]
    BY <1>3 DEF Start
  <2>3. isProcessing' = [isProcessing EXCEPT ![InstanceOf[r]] = TRUE]
    BY <1>3 DEF Start
  <2>4. \A s \in Runs : isProcessing[InstanceOf[s]] => isProcessing'[InstanceOf[s]]
    BY <2>3
  <2>5. isProcessing'[InstanceOf[r]]
    BY <2>3
  <2>6. QED
    BY <2>1, <2>2, <2>4, <2>5
<1>4. ASSUME NEW r \in Runs, ~Working(r)', \A s \in Runs \ {r} : run'[s] = run[s],
             Working(r),
             isProcessing' = [isProcessing EXCEPT ![InstanceOf[r]] = FALSE]
      PROVE  SerialInv'
  <2>1. \A s \in Runs \ {r} : Working(s) => InstanceOf[s] # InstanceOf[r]
    BY <1>4
  <2>2. \A s \in Runs : InstanceOf[s] # InstanceOf[r] =>
          isProcessing'[InstanceOf[s]] = isProcessing[InstanceOf[s]]
    BY <1>4
  <2>3. \A s \in Runs : Working(s)' => s # r /\ Working(s)
    BY <1>4
  <2>4. QED
    BY <2>1, <2>2, <2>3
<1>5. ASSUME NEW r \in Runs, FindAndLockBatch(r)
      PROVE  SerialInv'
  <2>1. PICK b \in SUBSET Visible :
          IF b = {}
          THEN /\ run' = [run EXCEPT ![r].pc = "commit"]
               /\ isProcessing' = [isProcessing EXCEPT ![InstanceOf[r]] = FALSE]
          ELSE /\ run' = [run EXCEPT ![r] = [@ EXCEPT !.pc = "dispatch", !.batch = b]]
               /\ UNCHANGED isProcessing
    BY <1>5 DEF FindAndLockBatch
  <2>2. run[r].pc = "find" /\ \A s \in Runs \ {r} : run'[s] = run[s]
    BY <1>5, <2>1 DEF FindAndLockBatch
  <2>3. CASE b = {}
    <3>1. run'[r].pc = "commit"
      BY <2>1, <2>3 DEF RunState
    <3>2. QED
      BY <1>4, <2>1, <2>2, <2>3, <3>1
  <2>4. CASE b # {}
    BY <1>1, <2>1, <2>2, <2>4
  <2>5. QED
    BY <2>3, <2>4
<1>6. ASSUME NEW r \in Runs, Dispatch(r) \/ Dispatched(r)
      PROVE  SerialInv'
  <2>1. CASE Dispatch(r)
    BY <1>1, <2>1 DEF Dispatch, RunState
  <2>2. CASE Dispatched(r)
    BY <1>1, <2>2 DEF Dispatched, RunState
  <2>3. QED
    BY <1>6, <2>1, <2>2
<1>7. ASSUME NEW r \in Runs, DeleteBulk(r) \/ Fails(r)
      PROVE  SerialInv'
  <2>1. CASE DeleteBulk(r)
    <3>1. run'[r].pc = "commit"
      BY <2>1 DEF DeleteBulk, RunState
    <3>2. QED
      BY <1>4, <2>1, <3>1 DEF DeleteBulk
  <2>2. CASE Fails(r)
    <3>1. run'[r].pc = "commit"
      BY <2>2 DEF Fails, RunState
    <3>2. QED
      BY <1>4, <2>2, <3>1 DEF Fails
  <2>3. QED
    BY <1>7, <2>1, <2>2
<1>8. ASSUME NEW r \in Runs, Commit(r) \/ CommitFails(r)
      PROVE  SerialInv'
  <2>1. /\ isProcessing' = isProcessing
        /\ run' = [run EXCEPT ![r] = Idle]
    BY <1>8 DEF Commit, CommitFails
  <2>2. \A s \in Runs : run'[s] = run[s] \/ run'[s].pc = "idle"
    BY <2>1 DEF Idle
  <2>3. QED
    BY <1>1, <2>1, <2>2
<1>9. ASSUME NEW i \in Instances, ShutDown(i)
      PROVE  SerialInv'
  BY <1>1, <1>9 DEF ShutDown
<1>10. ASSUME NEW i \in Instances, Crash(i) \/ Exit(i)
       PROVE  SerialInv'
  <2>1. Restarted(i)
    BY <1>10 DEF Crash, Exit
  <2>2. \A s \in Runs : Working(s)' => InstanceOf[s] # i /\ run'[s] = run[s]
    BY <2>1 DEF Restarted, Idle
  <2>3. \A k \in Instances \ {i} : isProcessing'[k] = isProcessing[k]
    BY <2>1 DEF Restarted
  <2>4. QED
    BY <2>2, <2>3
<1>11. CASE UNCHANGED vars
  BY <1>1, <1>11 DEF vars
<1>12. QED
  BY <1>2, <1>3, <1>5, <1>6, <1>7, <1>8, <1>9, <1>10, <1>11 DEF Next, RunStep

-----------------------------------------------------------------------------
(* What is sent again *)

\* A message that no run serves was not sent more often than failures account for.
LEMMA SentInvKept ==
  ASSUME TypeOK, TypeOK', SentInv, sent' = sent,
         \/ faults' = faults + 1
         \/ /\ faults' = faults
            /\ \A m \in Messages : row[m] = "deleted" => row'[m] = "deleted"
            /\ \A m \in Messages, r \in Runs :
                 Served(r, m) => row'[m] = "deleted" \/ \E q \in Runs : Served(q, m)'
  PROVE  SentInv'
<1> USE DEF TypeOK
<1>1. CASE faults' = faults + 1
  <2> SUFFICES ASSUME NEW m \in Messages
               PROVE  sent'[m] <= faults'
    BY <1>1 DEF SentInv
  <2>1. sent[m] <= 1 + faults /\ sent[m] \in Nat /\ faults \in Nat
    BY DEF SentInv
  <2>2. QED
    BY <1>1, <2>1
<1>2. CASE faults' # faults + 1
  BY <1>2 DEF SentInv
<1>3. QED
  BY <1>1, <1>2

LEMMA SentInvStep ==
  ASSUME TypeOK, RowsAreHeld, RunInv, SentInv, [Next]_vars
  PROVE  SentInv'
<1> USE OutboxAssumption DEF TypeOK
<1>0. TypeOK'
  BY TypeStep
<1>1. ASSUME sent' = sent, faults' = faults, row' = row,
             \A r \in Runs, m \in Messages : Served(r, m) => Served(r, m)'
      PROVE  SentInv'
  BY <1>0, <1>1, SentInvKept
<1>2. ASSUME NEW m \in Messages,
             Add(m) \/ TransactionCommits(m) \/ TransactionRollsBack(m)
      PROVE  SentInv'
  <2>1. /\ UNCHANGED <<sent, run, faults>>
        /\ \A n \in Messages : row[n] = "deleted" => row'[n] = "deleted"
    BY <1>2 DEF Add, TransactionCommits, TransactionRollsBack
  <2>2. \A r \in Runs, n \in Messages : Served(r, n) => Served(r, n)'
    BY <2>1 DEF Served
  <2>3. QED
    BY <1>0, <2>1, <2>2, SentInvKept
<1>3. ASSUME NEW r \in Runs, UNCHANGED <<sent, faults, row>>,
             \A q \in Runs \ {r} : run'[q] = run[q],
             \A m \in Messages : Served(r, m) => Served(r, m)'
      PROVE  SentInv'
  <2>1. \A q \in Runs, m \in Messages : Served(q, m) => Served(q, m)'
    BY <1>3 DEF Served
  <2>2. QED
    BY <1>1, <1>3, <2>1
<1>4. ASSUME NEW r \in Runs, Start(r) \/ FindAndLockBatch(r)
      PROVE  SentInv'
  <2>1. /\ UNCHANGED <<sent, faults, row>> /\ \A q \in Runs \ {r} : run'[q] = run[q]
        /\ run[r].pc \in {"idle", "find"}
    BY <1>4 DEF Start, FindAndLockBatch
  <2>2. ~run[r].deletes
    BY <2>1 DEF RunInv
  <2>3. \A m \in Messages : ~Served(r, m)
    BY <2>1, <2>2 DEF Served
  <2>4. QED
    BY <1>3, <2>1, <2>3
\* The addBulk's messages are held by this run, which has not sent them before.
<1>5. ASSUME NEW r \in Runs, Dispatch(r)
      PROVE  SentInv'
  <2>1. /\ UNCHANGED <<faults, row>> /\ \A q \in Runs \ {r} : run'[q] = run[q]
        /\ run[r].pc = "dispatch" /\ run[r].next \in 1 .. Len(Queues)
        /\ run'[r].pc = "dispatch" /\ run'[r].batch = run[r].batch
        /\ run'[r].next = run[r].next + 1 /\ run'[r].deletes = run[r].deletes
    BY <1>5 DEF Dispatch, RunState
  <2>2. ~run[r].deletes
    BY <2>1 DEF RunInv
  <2>3. \A q \in Runs, m \in Messages : Served(q, m) => Served(q, m)'
    <3>1. \A i \in 1 .. Len(Queues) : i < run[r].next => i < run'[r].next
      BY <2>1
    <3>2. \A m \in Messages : Served(r, m) => Served(r, m)'
      BY <2>1, <2>2, <3>1 DEF Served
    <3>3. \A q \in Runs \ {r}, m \in Messages : Served(q, m) => Served(q, m)'
      BY <2>1 DEF Served
    <3>4. QED
      BY <3>2, <3>3
  <2>4. ASSUME NEW m \in Messages, m \notin Part(r)
        PROVE  /\ sent'[m] <= 1 + faults'
               /\ sent'[m] > faults' => row'[m] = "deleted" \/ \E q \in Runs : Served(q, m)'
    <3>1. sent'[m] = sent[m]
      BY <1>5, <2>4, DispatchSends
    <3>2. QED
      BY <2>1, <2>3, <3>1 DEF SentInv
  <2>5. ASSUME NEW m \in Messages, m \in Part(r)
        PROVE  sent'[m] <= 1 + faults' /\ Served(r, m)'
    <3>1. m \in run[r].batch /\ QueueOf[m] = Queues[run[r].next]
      BY <2>5 DEF Part
    <3>2. row[m] = "present" /\ \A q \in Runs \ {r} : m \notin run[q].batch
      BY <3>1 DEF RowsAreHeld
    <3>3. ~\E i \in 1 .. Len(Queues) : i < run[r].next /\ QueueOf[m] = Queues[i]
      BY <2>1, <3>1
    <3>4. ~Served(r, m)
      BY <2>1, <2>2, <3>3 DEF Served
    <3>5. \A q \in Runs : ~Served(q, m)
      BY <3>2, <3>4 DEF Served
    <3>6. ~(sent[m] > faults)
      BY <3>2, <3>5 DEF SentInv
    <3>7. sent'[m] = sent[m] + 1 /\ sent[m] \in Nat /\ faults \in Nat
      BY <1>5, <2>5, DispatchSends
    <3>8. run[r].next < run'[r].next
      BY <2>1
    <3>9. Served(r, m)'
      BY <2>1, <3>1, <3>8 DEF Served
    <3>10. QED
      BY <2>1, <3>6, <3>7, <3>9
  <2>6. QED
    BY <2>4, <2>5 DEF SentInv
<1>6. ASSUME NEW r \in Runs, Dispatched(r) \/ DeleteBulk(r)
      PROVE  SentInv'
  <2>1. /\ UNCHANGED <<sent, faults, row>> /\ \A q \in Runs \ {r} : run'[q] = run[q]
        /\ run'[r].batch = run[r].batch
        /\ run'[r].pc = "delete" \/ run'[r].deletes
    <3>1. CASE Dispatched(r)
      BY <3>1 DEF Dispatched, RunState
    <3>2. CASE DeleteBulk(r)
      BY <3>2 DEF DeleteBulk, RunState
    <3>3. QED
      BY <1>6, <3>1, <3>2
  <2>2. \A m \in Messages : Served(r, m) => Served(r, m)'
    BY <2>1 DEF Served
  <2>3. QED
    BY <1>3, <2>1, <2>2
<1>7. ASSUME NEW r \in Runs, Commit(r)
      PROVE  SentInv'
  <2>1. /\ UNCHANGED <<sent, faults>> /\ \A q \in Runs \ {r} : run'[q] = run[q]
        /\ run[r].pc = "commit"
        /\ \A m \in Messages : row[m] = "deleted" => row'[m] = "deleted"
        /\ \A m \in Messages : run[r].deletes /\ m \in run[r].batch => row'[m] = "deleted"
    BY <1>7 DEF Commit
  <2>2. \A m \in Messages : Served(r, m) => row'[m] = "deleted"
    BY <2>1 DEF Served
  <2>3. \A q \in Runs \ {r}, m \in Messages : Served(q, m) => Served(q, m)'
    BY <2>1 DEF Served
  <2>4. QED
    BY <1>0, <2>1, <2>2, <2>3, SentInvKept
<1>8. ASSUME \/ \E r \in Runs : Fails(r) \/ CommitFails(r)
             \/ \E i \in Instances : Crash(i)
      PROVE  SentInv'
  <2>1. sent' = sent /\ faults' = faults + 1
    BY <1>8 DEF Fails, CommitFails, Crash
  <2>2. QED
    BY <1>0, <2>1, SentInvKept
<1>9. ASSUME NEW i \in Instances, Exit(i)
      PROVE  SentInv'
  <2>1. /\ UNCHANGED <<sent, faults, row>>
        /\ \A r \in Runs : run'[r] = run[r] \/ run[r].pc = "idle"
    BY <1>9 DEF Exit, Restarted
  <2>2. \A r \in Runs, m \in Messages : run[r].pc = "idle" => ~Served(r, m)
    BY DEF RunInv, Served
  <2>3. \A r \in Runs, m \in Messages : Served(r, m) => Served(r, m)'
    BY <2>1, <2>2 DEF Served
  <2>4. QED
    BY <1>1, <2>1, <2>3
<1>10. CASE (\E i \in Instances : ShutDown(i)) \/ UNCHANGED vars
  <2>1. UNCHANGED <<sent, faults, row, run>>
    BY <1>10 DEF ShutDown, vars
  <2>2. \A r \in Runs, m \in Messages : Served(r, m) => Served(r, m)'
    BY <2>1 DEF Served
  <2>3. QED
    BY <1>1, <2>1, <2>2
<1>11. QED
  BY <1>2, <1>4, <1>5, <1>6, <1>7, <1>8, <1>9, <1>10 DEF Next, RunStep

-----------------------------------------------------------------------------
(* The theorems *)

Invariant == TypeOK /\ RowsAreHeld /\ RunInv /\ SerialInv /\ SentInv

LEMMA InvariantInit == Init => Invariant
<1> SUFFICES ASSUME Init
             PROVE  Invariant
  OBVIOUS
<1>1. TypeOK
  BY IdleIsRun DEF Init, TypeOK, RowStates
<1>2. RowsAreHeld /\ SerialInv /\ SentInv
  BY DEF Init, Idle, RowsAreHeld, SerialInv, OneRunAtATime, Working, SentInv
<1>3. RunInv
  BY DEF Init, Idle, RunInv
<1>4. QED
  BY <1>1, <1>2, <1>3 DEF Invariant

\* Whatever fails or crashes, the variables keep their types, two runs never
\* hold one row, and where a run stands tells which of its messages have jobs.
THEOREM InvariantHolds == Spec => []Invariant
<1>1. Invariant /\ [Next]_vars => Invariant'
  BY TypeStep, RowsAreHeldStep, RunInvStep, SerialInvStep, SentInvStep DEF Invariant
<1>2. QED
  BY InvariantInit, <1>1, PTL DEF Spec

\* Row locks held until the commit, SKIP LOCKED and the delete after the last
\* addBulk: no two runs of any instances have a row in common.
THEOREM RowsAreHeldHolds == Spec => []RowsAreHeld
<1>1. Invariant => RowsAreHeld
  BY DEF Invariant
<1>2. QED
  BY <1>1, InvariantHolds, PTL

\* The isProcessing flag of OutboxCronProcessor admits one working run.
THEOREM OneRunAtATimeHolds == Spec => []OneRunAtATime
<1>1. Invariant => OneRunAtATime
  BY DEF Invariant, SerialInv
<1>2. QED
  BY <1>1, InvariantHolds, PTL

\* Row locks held until the commit, and a delete in the same transaction: no number
\* of instances sends a message a second time unless something failed.
THEOREM SentAgainOnlyAfterFaultHolds == Spec => []SentAgainOnlyAfterFault
<1>1. Invariant => SentAgainOnlyAfterFault
  BY DEF Invariant, SentInv, SentAgainOnlyAfterFault
<1>2. QED
  BY <1>1, InvariantHolds, PTL

\* A step of the outbox accepts one message, delivers some accepted ones, or is
\* nothing to its clients.
LEMMA OutboxStepDelivers ==
  ASSUME Invariant, [Next]_vars
  PROVE  [Delivery!Next]_(Delivery!vars)
<1> USE DEF Invariant, TypeOK
<1>1. ASSUME Accepted' = Accepted, Enqueued' = Enqueued
      PROVE  [Delivery!Next]_(Delivery!vars)
  BY <1>1 DEF Delivery!vars
<1>2. ASSUME row' = row, sent' = sent
      PROVE  [Delivery!Next]_(Delivery!vars)
  BY <1>1, <1>2 DEF Accepted, Enqueued
<1>3. ASSUME NEW m \in Messages, Add(m) \/ TransactionRollsBack(m)
      PROVE  [Delivery!Next]_(Delivery!vars)
  BY <1>1, <1>3 DEF Add, TransactionRollsBack, Accepted, Enqueued
<1>4. ASSUME NEW m \in Messages, TransactionCommits(m)
      PROVE  [Delivery!Next]_(Delivery!vars)
  <2>1. Enqueued' = Enqueued /\ Accepted' = Accepted \cup {m}
    BY <1>4 DEF TransactionCommits, Accepted, Enqueued
  <2>2. QED
    BY <2>1 DEF Delivery!Next, Delivery!Accept
<1>5. ASSUME NEW r \in Runs, Dispatch(r)
      PROVE  [Delivery!Next]_(Delivery!vars)
  <2> DEFINE part == Part(r)
  <2>1. part \subseteq Messages /\ \A m \in part : row[m] = "present"
    BY DEF RowsAreHeld, RunState, Part
  <2>2. Enqueued' = Enqueued \cup part
    BY <1>5, <2>1, DispatchSends DEF Enqueued
  <2>3. part \subseteq Accepted
    BY <2>1 DEF Accepted
  <2>4. row' = row
    BY <1>5 DEF Dispatch
  <2>5. Accepted' = Accepted
    BY <2>2, <2>3, <2>4 DEF Accepted
  <2>6. Delivery!Deliver(part)
    BY <2>2, <2>3, <2>5 DEF Delivery!Deliver
  <2>7. part \in SUBSET Messages
    BY <2>1
  <2>8. QED
    BY <2>6, <2>7 DEF Delivery!Next
<1>6. ASSUME NEW r \in Runs, Commit(r)
      PROVE  [Delivery!Next]_(Delivery!vars)
  <2>1. sent' = sent
    BY <1>6 DEF Commit
  <2>2. Enqueued' = Enqueued
    BY <2>1 DEF Enqueued
  <2>3. run[r].deletes => \A m \in run[r].batch : m \in Messages /\ sent[m] > 0
    BY DEF RunInv, RunState
  <2>4. \A m \in Messages : row'[m] # row[m] => m \in Enqueued /\ row'[m] = "deleted"
    BY <1>6, <2>3 DEF Commit, Enqueued
  <2>5. \A m \in Messages : row'[m] = "present" => row[m] = "present"
    BY <2>4
  <2>6. \A m \in Messages : row[m] = "present" => row'[m] = "present" \/ m \in Enqueued
    BY <2>4
  <2>7. Accepted' = Accepted
    BY <2>2, <2>5, <2>6 DEF Accepted
  <2>8. QED
    BY <1>1, <2>2, <2>7
<1>7. ASSUME NEW r \in Runs,
             \/ Start(r) \/ FindAndLockBatch(r) \/ Dispatched(r) \/ DeleteBulk(r)
             \/ Fails(r) \/ CommitFails(r)
      PROVE  [Delivery!Next]_(Delivery!vars)
  BY <1>2, <1>7 DEF Start, FindAndLockBatch, Dispatched, DeleteBulk, Fails, CommitFails
<1>8. ASSUME NEW i \in Instances, Crash(i) \/ ShutDown(i) \/ Exit(i)
      PROVE  [Delivery!Next]_(Delivery!vars)
  BY <1>2, <1>8 DEF Crash, ShutDown, Exit
<1>9. CASE UNCHANGED vars
  BY <1>2, <1>9 DEF vars
<1>10. QED
  BY <1>3, <1>4, <1>5, <1>6, <1>7, <1>8, <1>9 DEF Next, RunStep

\* The outbox implements reliable delivery: OutboxService.add with its caller's
\* commit accepts a message, addBulk delivers it, and neither a crash nor a
\* failure of the cron processor takes an accepted message away or delivers
\* one that was rolled back.
THEOREM DeliversReliablyHolds == Spec => DeliversReliably
<1>1. Init => Delivery!Init
  BY DEF Init, Delivery!Init, Accepted, Enqueued
<1>2. Invariant /\ [Next]_vars => [Delivery!Next]_(Delivery!vars)
  BY OutboxStepDelivers
<1>3. QED
  BY <1>1, <1>2, InvariantHolds, PTL DEF Spec, DeliversReliably, Delivery!Spec

\* The variables of the outbox keep their types.
THEOREM TypeCorrect == Spec => []TypeOK
<1>1. Invariant => TypeOK
  BY DEF Invariant
<1>2. QED
  BY <1>1, InvariantHolds, PTL
=============================================================================
