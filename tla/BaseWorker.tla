------------------------------ MODULE BaseWorker ------------------------------
(***************************************************************************)
(* The hand-over of work from the request threads to the background thread *)
(* of class base (base.cpp, base.h): three queues, each with a mutex and   *)
(* an atomic "data" flag, one condition variable m_cv that is used with    *)
(* m_tasks_mutex, thread_function, and the destructor.                     *)
(*                                                                         *)
(* The three queues have the same code, so each family of members is one   *)
(* function on Kind.  m_mutex["visit"] is m_tasks_mutex, the only mutex    *)
(* m_cv waits with; the producers of users and locations set their flag    *)
(* and notify under another mutex.  What serving a task does to the maps   *)
(* and the cached serializations is modelled in VisitIndex and             *)
(* ObjectCache.                                                            *)
(***************************************************************************)
EXTENDS Naturals, Sequences

CONSTANTS Handler, \* the threads that call insert and update
          Task,    \* identities of the tasks they push; bounds the run
          Worker,  \* the thread that runs thread_function
          None     \* no thread

ASSUME ThreadsDistinct == Worker \notin Handler /\ None \notin Handler \cup {Worker}

Kind == {"visit", "user", "location"}

VARIABLES
  m_tasks,     \* m_tasks, m_tasks_user, m_tasks_location
  m_data_flag, \* m_data_visit_flag, m_data_user_flag, m_data_location_flag
  m_mutex,     \* holder of m_tasks_mutex, m_tasks_user_mutex, m_tasks_location_mutex
  m_stop_flag,
  signalled,   \* m_cv was notified since the worker blocked on it
  wpc,         \* where thread_function is
  stage,       \* which of its three if-blocks it is in
  batch,       \* visits_temp, users_temp or locations_temp
  hpc,         \* where each handler is in its critical section
  dpc,         \* where ~base is
  missed,      \* history: kinds notified between a false predicate and the block
  fresh,       \* history: tasks not pushed yet
  done         \* history: tasks served, by kind, in order

hvars == <<hpc, fresh>>
wvars == <<wpc, stage, batch, done>>
cvvars == <<signalled, missed>>
vars == <<m_tasks, m_data_flag, m_mutex, m_stop_flag, cvvars, dpc, hvars, wvars>>

Init ==
  /\ m_tasks = [k \in Kind |-> <<>>]
  /\ m_data_flag = [k \in Kind |-> FALSE]
  /\ m_mutex = [k \in Kind |-> None]
  /\ m_stop_flag = FALSE
  /\ signalled = FALSE
  /\ missed = {}
  /\ wpc = "loop"
  /\ stage = "visit"
  /\ batch = <<>>
  /\ hpc = [h \in Handler |-> "idle"]
  /\ dpc = "alive"
  /\ fresh = Task
  /\ done = [k \in Kind |-> <<>>]

-------------------------------------------------------------------------------
(***************************************************************************)
(* Request threads: the block "lock_guard; push; flag = true; notify_one"  *)
(* at the end of insert and of update.  The kind a handler works on is the *)
(* kind of the mutex it holds.                                             *)
(***************************************************************************)

Acquire(k, th) == m_mutex[k] = None /\ m_mutex' = [m_mutex EXCEPT ![k] = th]
Release(k) == m_mutex' = [m_mutex EXCEPT ![k] = None]

HandlerGoto(h, from, to) == hpc[h] = from /\ hpc' = [hpc EXCEPT ![h] = to]

\* The mutex and the push are one step: the queue is touched under the mutex only.
\* The process is torn down only after the request threads were joined.
HandlerPush(h, k, t) ==
  /\ dpc = "alive"
  /\ HandlerGoto(h, "idle", "flag")
  /\ Acquire(k, h)
  /\ t \in fresh
  /\ fresh' = fresh \ {t}
  /\ m_tasks' = [m_tasks EXCEPT ![k] = Append(@, t)]
  /\ UNCHANGED <<m_data_flag, m_stop_flag, cvvars, dpc, wvars>>

\* Mutant: the flag of the queue is not raised.
HandlerSetFlag_Forgotten(h, k) ==
  /\ m_mutex[k] = h
  /\ HandlerGoto(h, "flag", "notify")
  /\ UNCHANGED <<m_tasks, m_data_flag, m_mutex, m_stop_flag, cvvars, dpc, fresh, wvars>>

HandlerSetFlag(h, k) ==
  /\ m_mutex[k] = h
  /\ HandlerGoto(h, "flag", "notify")
  /\ m_data_flag' = [m_data_flag EXCEPT ![k] = TRUE]
  /\ UNCHANGED <<m_tasks, m_mutex, m_stop_flag, cvvars, dpc, fresh, wvars>>

\* Mutant: no notify_one and no notify_all.
Notify_Never(kinds) == UNCHANGED cvvars

\* A notification is lost unless the worker is already blocked on m_cv.
Notify(kinds) == /\ signalled' = (signalled \/ wpc = "blocked")
                 /\ missed' = IF wpc = "wait" THEN missed \cup kinds ELSE missed

HandlerNotify(h, k) ==
  /\ m_mutex[k] = h
  /\ HandlerGoto(h, "notify", "idle")
  /\ Notify({k})
  /\ Release(k)
  /\ UNCHANGED <<m_tasks, m_data_flag, m_stop_flag, dpc, fresh, wvars>>

-------------------------------------------------------------------------------
(***************************************************************************)
(* thread_function                                                         *)
(***************************************************************************)

\* while (!m_stop_flag): read without a lock.
WorkerLoop ==
  /\ wpc = "loop"
  /\ wpc' = IF m_stop_flag THEN "exited" ELSE "lock"
  /\ UNCHANGED <<m_tasks, m_data_flag, m_mutex, m_stop_flag, cvvars, dpc, hvars, stage, batch, done>>

\* Mutant: the lambda forgets m_stop_flag.
WaitPredicate_NoStop == \E k \in Kind : m_data_flag[k]

\* The four flags are loaded one after the other; only this thread clears one,
\* so the disjunction has the value it had at the first load or a later one.
WaitPredicate == m_stop_flag \/ \E k \in Kind : m_data_flag[k]

\* Take m_tasks_mutex and evaluate the predicate: if it holds, wait returns and
\* the mutex is released; if not, the worker is about to block, mutex in hand.
Predicate ==
  /\ m_mutex["visit"] = None
  /\ IF WaitPredicate THEN wpc' = "check" /\ UNCHANGED m_mutex
                      ELSE wpc' = "wait" /\ Acquire("visit", Worker)

WorkerWait ==
  /\ wpc = "lock"
  /\ Predicate
  /\ UNCHANGED <<m_tasks, m_data_flag, m_stop_flag, cvvars, dpc, hvars, stage, batch, done>>

\* wait releases m_tasks_mutex and blocks, atomically.
WorkerBlock ==
  /\ wpc = "wait"
  /\ Release("visit")
  /\ wpc' = "blocked"
  /\ UNCHANGED <<m_tasks, m_data_flag, m_stop_flag, cvvars, dpc, hvars, stage, batch, done>>

Unblock ==
  /\ wpc = "blocked"
  /\ Predicate
  /\ signalled' = FALSE
  /\ missed' = {}
  /\ UNCHANGED <<m_tasks, m_data_flag, m_stop_flag, dpc, hvars, stage, batch, done>>

WorkerWake == signalled /\ Unblock
SpuriousWake == ~signalled /\ Unblock

\* Mutant: the block for locations is gone.
LeaveStage_NoLocation ==
  /\ wpc' = IF stage = "user" THEN "loop" ELSE "check"
  /\ stage' = IF stage = "user" THEN "visit" ELSE "user"

LeaveStage ==
  /\ wpc' = IF stage = "location" THEN "loop" ELSE "check"
  /\ stage' = CASE stage = "visit" -> "user"
                [] stage = "user" -> "location"
                [] stage = "location" -> "visit"

\* Mutant: the flag is cleared before the mutex is taken for the swap.
WorkerCheck_ClearsFlag ==
  /\ wpc = "check"
  /\ IF m_data_flag[stage] THEN wpc' = "swap" /\ UNCHANGED stage ELSE LeaveStage
  /\ m_data_flag' = [m_data_flag EXCEPT ![stage] = FALSE]
  /\ UNCHANGED <<m_tasks, m_mutex, m_stop_flag, cvvars, dpc, hvars, batch, done>>

\* if (m_data_..._flag): read without a lock.
WorkerCheck ==
  /\ wpc = "check"
  /\ IF m_data_flag[stage] THEN wpc' = "swap" /\ UNCHANGED stage ELSE LeaveStage
  /\ UNCHANGED <<m_tasks, m_data_flag, m_mutex, m_stop_flag, cvvars, dpc, hvars, batch, done>>

\* lock_guard; swap; flag = false.  One step: nothing else touches the queue
\* without the lock, and the flag is read without it only by the worker.
WorkerSwap ==
  /\ wpc = "swap"
  /\ m_mutex[stage] = None
  /\ batch' = m_tasks[stage]
  /\ m_tasks' = [m_tasks EXCEPT ![stage] = <<>>]
  /\ m_data_flag' = [m_data_flag EXCEPT ![stage] = FALSE]
  /\ wpc' = "serve"
  /\ UNCHANGED <<m_mutex, m_stop_flag, cvvars, dpc, hvars, stage, done>>

\* Mutant: if (size > 0) instead of while (size > 0).
WorkerServe_OnlyFirst ==
  /\ wpc = "serve"
  /\ done' = IF batch = <<>> THEN done ELSE [done EXCEPT ![stage] = Append(@, Head(batch))]
  /\ batch' = <<>>
  /\ LeaveStage
  /\ UNCHANGED <<m_tasks, m_data_flag, m_mutex, m_stop_flag, cvvars, dpc, hvars>>

WorkerServe ==
  /\ wpc = "serve"
  /\ \/ /\ batch # <<>>
        /\ done' = [done EXCEPT ![stage] = Append(@, Head(batch))]
        /\ batch' = Tail(batch)
        /\ UNCHANGED <<wpc, stage>>
     \/ /\ batch = <<>>
        /\ LeaveStage
        /\ UNCHANGED <<batch, done>>
  /\ UNCHANGED <<m_tasks, m_data_flag, m_mutex, m_stop_flag, cvvars, dpc, hvars>>

-------------------------------------------------------------------------------
(***************************************************************************)
(* ~base, run at process exit, after the request threads were joined.      *)
(***************************************************************************)

\* Mutant: the stop flag is set without m_tasks_mutex.
DestructorStop_NoLock ==
  /\ dpc = "alive"
  /\ \A h \in Handler : hpc[h] = "idle"
  /\ m_stop_flag' = TRUE
  /\ dpc' = "notify"
  /\ UNCHANGED <<m_tasks, m_data_flag, m_mutex, cvvars, hvars, wvars>>

DestructorStop ==
  /\ dpc = "alive"
  /\ \A h \in Handler : hpc[h] = "idle"
  /\ m_mutex["visit"] = None
  /\ m_stop_flag' = TRUE
  /\ dpc' = "notify"
  /\ UNCHANGED <<m_tasks, m_data_flag, m_mutex, cvvars, hvars, wvars>>

DestructorNotify ==
  /\ dpc = "notify"
  /\ Notify({})
  /\ dpc' = "join"
  /\ UNCHANGED <<m_tasks, m_data_flag, m_mutex, m_stop_flag, hvars, wvars>>

DestructorJoin ==
  /\ dpc = "join"
  /\ wpc = "exited"
  /\ dpc' = "joined"
  /\ UNCHANGED <<m_tasks, m_data_flag, m_mutex, m_stop_flag, cvvars, hvars, wvars>>

Terminated == dpc = "joined" /\ UNCHANGED vars

-------------------------------------------------------------------------------
HandlerNext(h) ==
  \E k \in Kind : \/ \E t \in Task : HandlerPush(h, k, t)
                  \/ HandlerSetFlag(h, k)
                  \/ HandlerNotify(h, k)

WorkerNext == \/ WorkerLoop \/ WorkerWait \/ WorkerBlock \/ WorkerWake
              \/ WorkerCheck \/ WorkerSwap \/ WorkerServe

DestructorNext == DestructorStop \/ DestructorNotify \/ DestructorJoin

Next == \/ \E h \in Handler : HandlerNext(h)
        \/ WorkerNext
        \/ SpuriousWake
        \/ DestructorNext
        \/ Terminated

Spec == Init /\ [][Next]_vars

(***************************************************************************)
(* Fairness: the operating system runs a thread that can run.  Nothing is  *)
(* assumed of spurious wake-ups, of new requests or of the process being   *)
(* torn down.  Weak fairness suffices for the locks because a run has      *)
(* finitely many tasks, so nobody can take a mutex again and again.        *)
(***************************************************************************)
Fairness ==
  /\ WF_vars(WorkerNext)
  /\ WF_vars(DestructorNotify)
  /\ WF_vars(DestructorJoin)
  /\ \A h \in Handler :
       WF_vars(\E k \in Kind : HandlerSetFlag(h, k) \/ HandlerNotify(h, k))

FairSpec == Spec /\ Fairness

-------------------------------------------------------------------------------
(***************************************************************************)
(* Properties                                                              *)
(***************************************************************************)

\* The types; and outside a single step the worker holds a mutex only between a
\* false predicate and the block (elsewhere its swap would wait for itself).
TypeOK ==
  /\ m_tasks \in [Kind -> Seq(Task)]
  /\ m_data_flag \in [Kind -> BOOLEAN]
  /\ m_mutex \in [Kind -> Handler \cup {Worker, None}]
  /\ m_stop_flag \in BOOLEAN
  /\ signalled \in BOOLEAN
  /\ missed \in SUBSET Kind
  /\ wpc \in {"loop", "lock", "wait", "blocked", "check", "swap", "serve", "exited"}
  /\ stage \in Kind
  /\ batch \in Seq(Task)
  /\ hpc \in [Handler -> {"idle", "flag", "notify"}]
  /\ dpc \in {"alive", "notify", "join", "joined"}
  /\ fresh \in SUBSET Task
  /\ done \in [Kind -> Seq(Task)]
  /\ \A k \in Kind : m_mutex[k] = Worker <=> k = "visit" /\ wpc = "wait"

\* No two request threads are in the push-flag-notify block of one queue: every
\* handler inside a block owns a mutex, and owns none outside.
MutexOwnership ==
  /\ \A k \in Kind, h \in Handler : m_mutex[k] = h => hpc[h] # "idle"
  /\ \A h \in Handler : hpc[h] # "idle" => \E k \in Kind : m_mutex[k] = h

Announcing(k, pc) == \E h \in Handler : m_mutex[k] = h /\ hpc[h] = pc

\* A queued task is never hidden behind a cleared flag: the flag of a nonempty
\* queue is up, or the thread that pushed is about to raise it.
FlagCoversQueue ==
  \A k \in Kind : m_tasks[k] # <<>> => m_data_flag[k] \/ Announcing(k, "flag")

\* While the worker sleeps, work it was not told of is about to be announced or
\* its notification fell into the window between the predicate and the block;
\* visits, pushed under the mutex the worker waits with, never meet that window,
\* and neither does the stop request.
NoLostWakeup ==
  wpc \in {"wait", "blocked"} /\ ~signalled =>
    /\ \A k \in Kind : m_data_flag[k] => Announcing(k, "notify") \/ k \in missed \ {"visit"}
    /\ m_stop_flag => wpc = "blocked" /\ dpc = "notify"

\* What the properties above need to be inductive: nobody owns two mutexes, the
\* worker is told only while it sleeps, and a batch exists only while it is served.
IInv ==
  /\ TypeOK
  /\ MutexOwnership
  /\ \A k, l \in Kind, h \in Handler : m_mutex[k] = h /\ m_mutex[l] = h => k = l
  /\ FlagCoversQueue
  /\ NoLostWakeup
  /\ signalled => wpc = "blocked"
  /\ m_stop_flag <=> dpc # "alive"
  /\ batch # <<>> => wpc = "serve"

\* The three queues with their flags, mutexes and batches are one FIFO of tasks
\* per kind: none is lost, served twice or overtaken by a later one of its kind.
Queues == INSTANCE TaskQueue WITH
  pending <- [k \in Kind |-> IF k = stage THEN batch \o m_tasks[k] ELSE m_tasks[k]]

ImplementsTaskQueue == Queues!Spec

Queued(k, t) == \E i \in DOMAIN m_tasks[k] : m_tasks[k][i] = t
Served(t) == \E k \in Kind : \E i \in DOMAIN done[k] : done[k][i] = t

\* A visit task that was pushed is served, whatever the interleaving, unless
\* the process is torn down first.
VisitTasksServed == \A t \in Task : Queued("visit", t) ~> Served(t) \/ m_stop_flag

\* A user or location task whose wake-up was lost (its flag is up, the worker
\* sleeps) is not lost for good: a visit task that is queued while it waits takes
\* the worker through all three queues.  Without a visit task it may wait for ever.
StrandedTasksRescued ==
  \A t, v \in Task, k \in {"user", "location"} :
    Queued(k, t) /\ m_data_flag[k] /\ Queued("visit", v) ~> Served(t) \/ m_stop_flag

\* ~base returns: the worker always notices the stop request and exits.
DestructorReturns == m_stop_flag ~> dpc = "joined"

-------------------------------------------------------------------------------
===============================================================================
