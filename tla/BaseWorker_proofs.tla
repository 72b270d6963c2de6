------------------------- MODULE BaseWorker_proofs -------------------------
(***************************************************************************)
(* Theorems about BaseWorker for every set of handlers and of tasks: its   *)
(* invariants, from the inductive invariant IInv, and the refinement of    *)
(* TaskQueue.                                                              *)
(***************************************************************************)
EXTENDS BaseWorker, SequenceTheorems, TLAPS

USE ThreadsDistinct

\* The initial state satisfies the inductive invariant.
LEMMA InitIInv == Init => IInv
<1> SUFFICES ASSUME Init PROVE IInv
  OBVIOUS
<1> USE DEF Init
<1>1. <<>> \in Seq(Task)
  BY EmptySeq
<1>2. TypeOK
  BY <1>1 DEF TypeOK, Kind
<1>3. MutexOwnership /\ FlagCoversQueue /\ NoLostWakeup
  BY DEF MutexOwnership, FlagCoversQueue, NoLostWakeup
<1> QED  BY <1>2, <1>3 DEF IInv

\* Pushing a task keeps the invariant: the pushing thread owns the mutex of the
\* queue and still has to raise its flag.
LEMMA PushIInv ==
  ASSUME IInv, NEW h \in Handler, NEW k \in Kind, NEW t \in Task, HandlerPush(h, k, t)
  PROVE  IInv'
<1> USE DEF IInv, HandlerPush, HandlerGoto, Acquire, wvars, cvvars
<1>1. TypeOK'
  <2>1. Append(m_tasks[k], t) \in Seq(Task)
    BY DEF TypeOK
  <2>2. m_tasks' \in [Kind -> Seq(Task)]
    BY <2>1 DEF TypeOK
  <2> QED  BY <2>2 DEF TypeOK
<1>2. MutexOwnership'
  BY DEF TypeOK, MutexOwnership
<1>3. (\A i, j \in Kind, g \in Handler : m_mutex[i] = g /\ m_mutex[j] = g => i = j)'
  BY DEF TypeOK, MutexOwnership
<1>4. FlagCoversQueue'
  BY DEF TypeOK, MutexOwnership, FlagCoversQueue, Announcing
<1>5. NoLostWakeup'
  BY DEF TypeOK, MutexOwnership, NoLostWakeup, Announcing
<1> QED  BY <1>1, <1>2, <1>3, <1>4, <1>5

\* Raising the flag keeps the invariant: the same thread still has to notify.
LEMMA SetFlagIInv ==
  ASSUME IInv, NEW h \in Handler, NEW k \in Kind, HandlerSetFlag(h, k)
  PROVE  IInv'
<1> USE DEF IInv, HandlerSetFlag, HandlerGoto, hvars, wvars, cvvars
<1>1. TypeOK'
  BY DEF TypeOK
<1>2. MutexOwnership'
  BY DEF TypeOK, MutexOwnership
<1>3. FlagCoversQueue'
  BY DEF TypeOK, MutexOwnership, FlagCoversQueue, Announcing
<1>4. NoLostWakeup'
  BY DEF TypeOK, MutexOwnership, NoLostWakeup, Announcing
<1> QED  BY <1>1, <1>2, <1>3, <1>4

\* Notifying keeps the invariant: a sleeping worker is told; a worker that is
\* about to block owns m_tasks_mutex, so the notifier is not one of visits.
LEMMA NotifyIInv ==
  ASSUME IInv, NEW h \in Handler, NEW k \in Kind, HandlerNotify(h, k)
  PROVE  IInv'
<1> USE DEF IInv, HandlerNotify, HandlerGoto, Notify, Release, hvars, wvars, cvvars
<1>1. TypeOK'
  BY DEF TypeOK
<1>2. MutexOwnership'
  BY DEF TypeOK, MutexOwnership
<1>3. (\A i, j \in Kind, g \in Handler : m_mutex[i] = g /\ m_mutex[j] = g => i = j)'
  BY DEF TypeOK, MutexOwnership
<1>4. FlagCoversQueue'
  BY DEF TypeOK, MutexOwnership, FlagCoversQueue, Announcing
<1>5. NoLostWakeup'
  BY DEF TypeOK, MutexOwnership, NoLostWakeup, Announcing
<1> QED  BY <1>1, <1>2, <1>3, <1>4, <1>5

\* Every step of the worker keeps the invariant.
LEMMA WorkerIInv ==
  ASSUME IInv, WorkerNext \/ SpuriousWake
  PROVE  IInv'
<1> USE DEF IInv, hvars, wvars, cvvars
<1>1. CASE WorkerLoop
  BY <1>1 DEF WorkerLoop, TypeOK, MutexOwnership, FlagCoversQueue, NoLostWakeup, Announcing
<1>2. CASE WorkerWait
  <2> USE <1>2 DEF WorkerWait, Predicate, WaitPredicate, Acquire
  <2>1. TypeOK' /\ MutexOwnership'
    BY DEF TypeOK, MutexOwnership, Kind
  <2>2. FlagCoversQueue' /\ NoLostWakeup'
    BY DEF TypeOK, MutexOwnership, FlagCoversQueue, NoLostWakeup, Announcing, Kind
  <2> QED  BY <2>1, <2>2 DEF TypeOK
<1>3. CASE WorkerBlock
  <2> USE <1>3 DEF WorkerBlock, Release
  <2>1. TypeOK' /\ MutexOwnership'
    BY DEF TypeOK, MutexOwnership, Kind
  <2>2. FlagCoversQueue' /\ NoLostWakeup'
    BY DEF TypeOK, MutexOwnership, FlagCoversQueue, NoLostWakeup, Announcing, Kind
  <2> QED  BY <2>1, <2>2 DEF TypeOK
<1>4. CASE Unblock
  <2> USE <1>4 DEF Unblock, Predicate, Acquire
  <2>1. ~m_mutex["visit"] \in Handler \cup {Worker} /\ "visit" \in Kind
    BY DEF Kind
  <2>2. CASE WaitPredicate
    <3>1. TypeOK'
      BY <2>2 DEF TypeOK
    <3>2. MutexOwnership' /\ FlagCoversQueue'
      BY <2>2 DEF MutexOwnership, FlagCoversQueue, Announcing
    <3> QED  BY <2>2, <3>1, <3>2 DEF NoLostWakeup, TypeOK
  <2>3. CASE ~WaitPredicate
    <3>0. m_mutex' = [m_mutex EXCEPT !["visit"] = Worker] /\ wpc' = "wait"
      BY <2>3
    <3>1. TypeOK'
      BY <2>1, <3>0 DEF TypeOK
    <3>2. MutexOwnership' /\ FlagCoversQueue'
      BY <2>1, <3>0 DEF TypeOK, MutexOwnership, FlagCoversQueue, Announcing
    <3>3. NoLostWakeup'
      BY <2>3 DEF WaitPredicate, NoLostWakeup
    <3>4. (\A i, j \in Kind, g \in Handler : m_mutex[i] = g /\ m_mutex[j] = g => i = j)'
      BY <2>1, <3>0 DEF TypeOK
    <3> QED  BY <2>3, <3>1, <3>2, <3>3, <3>4 DEF TypeOK
  <2> QED  BY <2>2, <2>3
<1>5. CASE WorkerCheck
  BY <1>5 DEF WorkerCheck, LeaveStage, TypeOK, MutexOwnership, FlagCoversQueue,
              NoLostWakeup, Announcing, Kind
<1>6. CASE WorkerSwap
  <2> USE <1>6 DEF WorkerSwap
  <2>1. TypeOK' /\ MutexOwnership'
    BY DEF TypeOK, MutexOwnership
  <2>2. FlagCoversQueue' /\ NoLostWakeup'
    BY DEF TypeOK, MutexOwnership, FlagCoversQueue, NoLostWakeup, Announcing
  <2> QED  BY <2>1, <2>2
<1>7. CASE WorkerServe
  <2> USE <1>7 DEF WorkerServe, LeaveStage
  <2>1. batch # <<>> => Head(batch) \in Task /\ Tail(batch) \in Seq(Task)
    BY HeadTailProperties DEF TypeOK
  <2>2. batch # <<>> => Append(done[stage], Head(batch)) \in Seq(Task)
    BY <2>1 DEF TypeOK
  <2>3. done' \in [Kind -> Seq(Task)] /\ batch' \in Seq(Task)
    <3>1. batch \in Seq(Task) /\ done \in [Kind -> Seq(Task)]
      BY DEF TypeOK
    <3>2. CASE batch # <<>>
      <4>1. batch' = Tail(batch) /\ done' = [done EXCEPT ![stage] = Append(done[stage], Head(batch))]
        BY <3>2
      <4> HIDE <1>7
      <4> QED  BY <2>1, <2>2, <3>1, <3>2, <4>1
    <3>3. CASE batch = <<>>
      BY <3>1, <3>3
    <3> QED  BY <3>2, <3>3
  <2>4. TypeOK' /\ MutexOwnership'
    BY <2>3 DEF TypeOK, MutexOwnership, Kind
  <2>5. FlagCoversQueue' /\ NoLostWakeup'
    BY DEF TypeOK, FlagCoversQueue, NoLostWakeup, Announcing, Kind
  <2> QED  BY <2>4, <2>5
<1> QED  BY <1>1, <1>2, <1>3, <1>4, <1>5, <1>6, <1>7 DEF WorkerNext, WorkerWake, SpuriousWake

\* Every step of the destructor keeps the invariant.
LEMMA DestructorIInv ==
  ASSUME IInv, DestructorNext
  PROVE  IInv'
<1> USE DEF IInv, hvars, wvars, cvvars
<1>1. CASE DestructorStop
  BY <1>1 DEF DestructorStop, TypeOK, MutexOwnership, FlagCoversQueue, NoLostWakeup, Announcing, Kind
<1>2. CASE DestructorNotify
  BY <1>2 DEF DestructorNotify, Notify, TypeOK, MutexOwnership, FlagCoversQueue,
              NoLostWakeup, Announcing
<1>3. CASE DestructorJoin
  BY <1>3 DEF DestructorJoin, TypeOK, MutexOwnership, FlagCoversQueue, NoLostWakeup, Announcing
<1> QED  BY <1>1, <1>2, <1>3 DEF DestructorNext

\* IInv is inductive.
LEMMA NextIInv == IInv /\ [Next]_vars => IInv'
<1> SUFFICES ASSUME IInv, [Next]_vars PROVE IInv'
  OBVIOUS
<1>1. ASSUME NEW h \in Handler, HandlerNext(h) PROVE IInv'
  BY <1>1, PushIInv, SetFlagIInv, NotifyIInv DEF HandlerNext
<1>2. CASE WorkerNext \/ SpuriousWake
  BY <1>2, WorkerIInv
<1>3. CASE DestructorNext
  BY <1>3, DestructorIInv
<1>4. CASE UNCHANGED vars
  BY <1>4 DEF vars, hvars, wvars, cvvars, IInv, TypeOK, MutexOwnership, FlagCoversQueue,
              NoLostWakeup, Announcing
<1> QED  BY <1>1, <1>2, <1>3, <1>4 DEF Next, Terminated

\* IInv holds in every reachable state.
LEMMA Invariance == Spec => []IInv
BY InitIInv, NextIInv, PTL DEF Spec

\* The worker keeps m_tasks_mutex only from a false predicate to the block.
THEOREM TypeCorrect == Spec => []TypeOK
<1>1. IInv => TypeOK
  BY DEF IInv
<1> QED  BY <1>1, Invariance, PTL

\* The push-flag-notify blocks of one queue exclude each other.
THEOREM Exclusion == Spec => []MutexOwnership
<1>1. IInv => MutexOwnership
  BY DEF IInv
<1> QED  BY <1>1, Invariance, PTL

\* No queued task hides behind a cleared flag.
THEOREM FlagsCoverQueues == Spec => []FlagCoversQueue
<1>1. IInv => FlagCoversQueue
  BY DEF IInv
<1> QED  BY <1>1, Invariance, PTL

\* A sleeping worker was told, or is about to be told, of every visit task and of
\* the stop request; only users and locations can slip into the window.
THEOREM WakeupsAccounted == Spec => []NoLostWakeup
<1>1. IInv => NoLostWakeup
  BY DEF IInv
<1> QED  BY <1>1, Invariance, PTL

-------------------------------------------------------------------------------
(***************************************************************************)
(* Refinement: a push submits a task, the worker serves the oldest one of  *)
(* the kind it is at, and every other step leaves the FIFOs as they are.   *)
(***************************************************************************)

AbstractPending == [k \in Kind |-> IF k = stage THEN batch \o m_tasks[k] ELSE m_tasks[k]]

\* Handing a task over is a step Submit of TaskQueue.
LEMMA PushSubmits ==
  ASSUME IInv, NEW h \in Handler, NEW k \in Kind, NEW t \in Task, HandlerPush(h, k, t)
  PROVE  Queues!Submit(k, t)
<1> USE DEF IInv, TypeOK, HandlerPush, wvars
<1>1. batch \o Append(m_tasks[k], t) = Append(batch \o m_tasks[k], t)
  <2>1. Append(m_tasks[k], t) = m_tasks[k] \o <<t>>
    BY AppendIsConcat
  <2>2. batch \o m_tasks[k] \in Seq(Task)
    BY ConcatProperties
  <2>3. Append(batch \o m_tasks[k], t) = (batch \o m_tasks[k]) \o <<t>>
    BY <2>2, AppendIsConcat
  <2>4. <<t>> \in Seq(Task) /\ batch \in Seq(Task) /\ m_tasks[k] \in Seq(Task)
    OBVIOUS
  <2>5. batch \o (m_tasks[k] \o <<t>>) = (batch \o m_tasks[k]) \o <<t>>
    BY <2>4, ConcatAssociative
  <2> QED  BY <2>1, <2>3, <2>5
<1>2. AbstractPending' = [AbstractPending EXCEPT ![k] = Append(@, t)]
  BY <1>1 DEF AbstractPending
<1> QED  BY <1>2 DEF AbstractPending, Queues!Submit

\* Serving the head of the batch is a step Serve of TaskQueue.
LEMMA ServeServes ==
  ASSUME IInv, WorkerServe, batch # <<>>, NEW k \in Kind, k = stage
  PROVE  Queues!Serve(k)
<1> USE DEF IInv, TypeOK, WorkerServe
<1>1. batch \o m_tasks[k] # <<>> /\ Head(batch \o m_tasks[k]) = Head(batch)
  BY ConcatProperties
<1>2. Tail(batch \o m_tasks[k]) = Tail(batch) \o m_tasks[k]
  BY ConcatProperties, HeadTailProperties
<1>3. AbstractPending' = [AbstractPending EXCEPT ![k] = Tail(@)]
  BY <1>2 DEF AbstractPending
<1> QED  BY <1>1, <1>3 DEF AbstractPending, Queues!Serve, hvars

\* Every other step of the worker leaves the FIFOs alone, the swap included.
LEMMA OtherStepsStutter ==
  ASSUME IInv, Next, ~(WorkerServe /\ batch # <<>>),
         \A h \in Handler, k \in Kind, t \in Task : ~HandlerPush(h, k, t)
  PROVE  UNCHANGED <<fresh, AbstractPending, done>>
<1> USE DEF IInv, TypeOK, hvars, wvars, AbstractPending
<1>1. \A s \in Seq(Task) : <<>> \o s = s /\ s \o <<>> = s
  BY ConcatEmptySeq
<1>2. CASE WorkerSwap
  <2>1. batch = <<>> /\ m_tasks' = [m_tasks EXCEPT ![stage] = <<>>] /\ batch' = m_tasks[stage]
    BY <1>2 DEF WorkerSwap
  <2>2. batch' \o m_tasks'[stage] = batch \o m_tasks[stage]
    BY <1>1, <2>1
  <2> QED  BY <1>2, <2>1, <2>2 DEF WorkerSwap
<1>3. batch = <<>> => AbstractPending = m_tasks
  BY <1>1
<1>4. CASE batch = <<>> /\ (WorkerCheck \/ WorkerServe)
  <2>1. batch' = <<>> /\ m_tasks' = m_tasks
    BY <1>4 DEF WorkerCheck, WorkerServe
  <2>2. AbstractPending' = m_tasks'
    BY <1>1, <2>1
  <2> QED  BY <1>3, <1>4, <2>1, <2>2 DEF WorkerCheck, WorkerServe
<1>5. CASE WorkerLoop \/ WorkerWait \/ WorkerBlock \/ Unblock
  BY <1>5 DEF WorkerLoop, WorkerWait, WorkerBlock, Unblock
<1>6. CASE DestructorNext \/ Terminated
  BY <1>6 DEF DestructorNext, DestructorStop, DestructorNotify, DestructorJoin, Terminated, vars
<1>7. CASE \E h \in Handler : HandlerNext(h)
  BY <1>7 DEF HandlerNext, HandlerSetFlag, HandlerNotify
<1> QED  BY <1>2, <1>4, <1>5, <1>6, <1>7 DEF Next, WorkerNext, WorkerWake, SpuriousWake, WorkerCheck

\* BaseWorker implements TaskQueue: whatever the interleaving, the background
\* thread serves every task at most once and the tasks of one kind in order.
THEOREM Refinement == Spec => ImplementsTaskQueue
<1>1. Init => Queues!Init
  BY ConcatEmptySeq, EmptySeq DEF Init, Queues!Init
<1>2. IInv /\ [Next]_vars => [Queues!Next]_Queues!vars
  <2> SUFFICES ASSUME IInv, [Next]_vars PROVE [Queues!Next]_Queues!vars
    OBVIOUS
  <2>1. ASSUME NEW h \in Handler, NEW k \in Kind, NEW t \in Task, HandlerPush(h, k, t)
        PROVE  Queues!Next
    BY <2>1, PushSubmits DEF Queues!Next
  <2>2. CASE WorkerServe /\ batch # <<>>
    <3>1. PICK k \in Kind : k = stage
      BY DEF IInv, TypeOK
    <3>2. Queues!Serve(k)
      BY <2>2, <3>1, ServeServes
    <3>3. Queues!Next
      BY <3>2 DEF Queues!Next
    <3> QED  BY <3>3
  <2>3. CASE UNCHANGED vars
    BY <2>3 DEF vars, hvars, wvars, Queues!vars
  <2> QED  BY <2>1, <2>2, <2>3, OtherStepsStutter DEF AbstractPending, Queues!vars
<1> QED  BY <1>1, <1>2, Invariance, PTL DEF Spec, ImplementsTaskQueue, Queues!Spec
=============================================================================
