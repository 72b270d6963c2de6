------------------------------ MODULE VisitIndex ------------------------------
(***************************************************************************)
(* The visits of class base and the two indexes over them (base.cpp):      *)
(* m_visits, m_user_visit and m_location_visit; the branches of insert and *)
(* update that write visits, and what thread_function does with their      *)
(* tasks.                                                                  *)
(*                                                                         *)
(* The request threads add visits and hand tasks over; only the background *)
(* thread writes the indexes and, in move, the fields of a visit that      *)
(* exists.  No lock covers a visit's fields or the indexes, so every field *)
(* that is copied or moved and every index operation is a step of its own. *)
(* The queue is the FIFO that BaseWorker is shown to implement.            *)
(*                                                                         *)
(* The hash tables are built with their assertions.  They have an empty key*)
(* and no deleted key: to insert the one, and to erase anything, ends the  *)
(* process.                                                                *)
(***************************************************************************)
EXTENDS Naturals, Sequences, FiniteSets

CONSTANTS Handler, \* the threads that call insert and update
          Id,      \* identifiers of visits, but the empty key (see Dispatch)
          Key,     \* identifiers of users and of locations
          EmptyKey, \* the one of them that set_empty_key takes, if it is there
          Time, MarkValue,  \* what else a visit holds: m_visited_at and m_mark
          NoVisit,
          MaxOutstanding \* bound: requests under way and tasks not yet served

Field == {"user", "location", "visited_at", "mark"}
IndexField == {"user", "location"}
Visit == [user : Key, location : Key, visited_at : Time, mark : MarkValue]

\* The order in which the copy constructor and move go through the fields.
NextField == [location |-> "user", user |-> "visited_at", visited_at |-> "mark", mark |-> "push"]

ASSUME NoVisitIsNone == NoVisit \notin Visit \cup Id

VARIABLES
  m_visits,  \* the fields of every visit object, NoVisit where there is none
  index,     \* m_user_visit and m_location_visit; an absent entry is an empty set
  m_tasks,   \* tasks handed over, the one being served first
  wstep,     \* what thread_function is about to do for the first task, or
             \* "aborted" once it has ended the process,
  wfield,    \* and for which field
  hpc,       \* where each handler is in insert or update
  hid,       \* the visit it works on, if any
  temp,      \* *visit_temp_ptr, if any
  contended  \* history: handlers whose update met another update of its visit

wvars == <<index, wstep, wfield>>
hvars == <<hpc, hid, temp, contended>>
vars == <<m_visits, m_tasks, wvars, hvars>>

InsertTask(id) == [id |-> id, update |-> FALSE, new |-> m_visits[id]]
UpdateTask(id, v) == [id |-> id, update |-> TRUE, new |-> v]

-------------------------------------------------------------------------------
(* Request threads *)

Alive == wstep # "aborted"

Busy == {h \in Handler : hpc[h] # "idle"}
Outstanding == Len(m_tasks) + Cardinality(Busy)

Start(h, id, pc) ==
  /\ Alive
  /\ hpc[h] = "idle"
  /\ Outstanding < MaxOutstanding
  /\ hpc' = [hpc EXCEPT ![h] = pc]
  /\ hid' = [hid EXCEPT ![h] = id]

Finish(h, pc) ==
  /\ Alive
  /\ hpc[h] = pc
  /\ hpc' = [hpc EXCEPT ![h] = "idle"]
  /\ hid' = [hid EXCEPT ![h] = NoVisit]
  /\ temp' = [temp EXCEPT ![h] = NoVisit]
  /\ contended' = contended \ {h}

\* insert: the new object enters m_visits under m_visit_mutex.
InsertVisit(h, id, v) ==
  /\ m_visits[id] = NoVisit
  /\ Start(h, id, "announce")
  /\ m_visits' = [m_visits EXCEPT ![id] = v]
  /\ UNCHANGED <<m_tasks, temp, contended, wvars>>

\* Mutant: insert returns without pushing a task.
AnnounceInsert_NoTask(h) == Finish(h, "announce") /\ UNCHANGED <<m_visits, m_tasks, wvars>>

\* insert: its task is pushed after that mutex was released.
AnnounceInsert(h) ==
  /\ Finish(h, "announce")
  /\ m_tasks' = Append(m_tasks, InsertTask(hid[h]))
  /\ UNCHANGED <<m_visits, wvars>>

UpdatePc == {"location", "user", "visited_at", "mark", "push"}
Updating(h, id) == hpc[h] \in UpdatePc /\ hid[h] = id
UpdateQueued(id) == \E i \in DOMAIN m_tasks : m_tasks[i].update /\ m_tasks[i].id = id

\* update: the object is looked up under m_visit_mutex.
BeginUpdate(h, id) ==
  LET others == {g \in Handler : Updating(g, id)}
  IN /\ m_visits[id] # NoVisit
     /\ Start(h, id, "location")
     /\ temp' = [temp EXCEPT ![h] = m_visits[id]]  \* every field is copied below
     /\ contended' = (contended \ {h}) \cup others
                       \cup (IF others # {} \/ UpdateQueued(id) THEN {h} ELSE {})
     /\ UNCHANGED <<m_visits, m_tasks, wvars>>

\* Mutant: the copy constructor reads m_location for m_user.
CopyField_Mixed(h, f) ==
  /\ Alive
  /\ hpc[h] = f
  /\ temp' = [temp EXCEPT ![h][f] = m_visits[hid[h]][IF f = "user" THEN "location" ELSE f]]
  /\ hpc' = [hpc EXCEPT ![h] = NextField[f]]
  /\ UNCHANGED <<m_visits, m_tasks, hid, contended, wvars>>

\* update: visit(visit&) reads the fields one after the other, without a lock.
CopyField(h, f) ==
  /\ Alive
  /\ hpc[h] = f
  /\ temp' = [temp EXCEPT ![h][f] = m_visits[hid[h]][f]]
  /\ hpc' = [hpc EXCEPT ![h] = NextField[f]]
  /\ UNCHANGED <<m_visits, m_tasks, hid, contended, wvars>>

\* The visit v with the fields a request body names overwritten.
Merge(v, body) == [f \in Field |-> IF f \in DOMAIN body THEN body[f] ELSE v[f]]

Body == {[f \in F |-> v[f]] : F \in SUBSET Field, v \in Visit}

\* update: deserializate overwrites the fields the body names; push.
PushUpdate(h, body) ==
  /\ Finish(h, "push")
  /\ m_tasks' = Append(m_tasks, UpdateTask(hid[h], Merge(temp[h], body)))
  /\ UNCHANGED <<m_visits, wvars>>

\* update: deserializate rejects the body; the copy is dropped.
RejectUpdate(h) ==
  /\ Finish(h, "push")
  /\ UNCHANGED <<m_visits, m_tasks, wvars>>

-------------------------------------------------------------------------------
(* thread_function, the queue of visits; the first task stays in m_tasks    *)
(* until it is done.                                                        *)

task == Head(m_tasks)
old == m_visits[task.id]

WorkerAt(step, f) == m_tasks # <<>> /\ wstep = step /\ wfield = f
WorkerGoto(step, f) == wstep' = step /\ wfield' = f

\* erase(ts.m_old_ptr->m_id) from the list under the old key, if there is one
EraseOld(f) ==
  /\ WorkerAt("compare", f)
  /\ task.update
  /\ old[f] # task.new[f]
  /\ index[f][old[f]] # {task.id}
  /\ index' = [index EXCEPT ![f][old[f]] = @ \ {task.id}]
  /\ WorkerGoto("insert", f)
  /\ UNCHANGED <<m_visits, m_tasks, hvars>>

\* Mutant: the list is dropped while it has one visit left.
EraseLast_SizeOne(f) ==
  /\ WorkerAt("compare", f)
  /\ task.update
  /\ old[f] # task.new[f]
  /\ Cardinality(index[f][old[f]] \ {task.id}) = 1
  /\ index' = [index EXCEPT ![f][old[f]] = {}]
  /\ WorkerGoto("aborted", f)
  /\ UNCHANGED <<m_visits, m_tasks, hvars>>

\* The visit was the last of its list: the list is erased from the table, which
\* has no deleted key to put in its place.
EraseLast(f) ==
  /\ WorkerAt("compare", f)
  /\ task.update
  /\ old[f] # task.new[f]
  /\ index[f][old[f]] = {task.id}
  /\ index' = [index EXCEPT ![f][old[f]] = {}]
  /\ WorkerGoto("aborted", f)
  /\ UNCHANGED <<m_visits, m_tasks, hvars>>

AfterIndex(f) == IF f = "user" THEN WorkerGoto("compare", "location")
                               ELSE WorkerGoto("move", "location")

\* Mutant: the id is added only to a list that exists.
InsertNew_ExistingList(f) ==
  /\ WorkerAt("insert", f)
  /\ task.new[f] # EmptyKey
  /\ index' = IF index[f][task.new[f]] = {} THEN index
                ELSE [index EXCEPT ![f][task.new[f]] = @ \cup {task.id}]
  /\ AfterIndex(f)
  /\ UNCHANGED <<m_visits, m_tasks, hvars>>

InsertNew(f) ==
  /\ WorkerAt("insert", f)
  /\ task.new[f] # EmptyKey
  /\ index' = [index EXCEPT ![f][task.new[f]] = @ \cup {task.id}]
  /\ AfterIndex(f)
  /\ UNCHANGED <<m_visits, m_tasks, hvars>>

SameKey(f) ==
  /\ WorkerAt("compare", f)
  /\ task.update
  /\ old[f] = task.new[f]
  /\ AfterIndex(f)
  /\ UNCHANGED <<m_visits, m_tasks, index, hvars>>

Pop == m_tasks' = Tail(m_tasks) /\ WorkerGoto("compare", "user")

\* Mutant: move forgets m_user.
MoveField_NoUser(f) ==
  /\ WorkerAt("move", f)
  /\ m_visits' = [m_visits EXCEPT ![task.id][f] = task.new[f]]
  /\ CASE f = "location" -> WorkerGoto("move", "visited_at") /\ UNCHANGED m_tasks
       [] f = "mark" -> Pop
       [] OTHER -> WorkerGoto("move", NextField[f]) /\ UNCHANGED m_tasks
  /\ UNCHANGED <<index, hvars>>

\* ts.m_old_ptr->move(*ts.m_new_ptr), one field after the other.
MoveField(f) ==
  /\ WorkerAt("move", f)
  /\ m_visits' = [m_visits EXCEPT ![task.id][f] = task.new[f]]
  /\ IF f = "mark" THEN Pop ELSE WorkerGoto("move", NextField[f]) /\ UNCHANGED m_tasks
  /\ UNCHANGED <<index, hvars>>

\* Mutant: the task carries a copy of the object, made when it was pushed.
ListInserted_Copy(f) ==
  /\ WorkerAt("compare", f)
  /\ ~task.update
  /\ task.new[f] # EmptyKey
  /\ index' = [index EXCEPT ![f][task.new[f]] = @ \cup {task.id}]
  /\ IF f = "user" THEN WorkerGoto("compare", "location") /\ UNCHANGED m_tasks ELSE Pop
  /\ UNCHANGED <<m_visits, hvars>>

\* The task of an insert: m_new_ptr is the stored object itself, so the keys
\* are those the object has now, not those it was inserted with.
ListInserted(f) ==
  /\ WorkerAt("compare", f)
  /\ ~task.update
  /\ old[f] # EmptyKey
  /\ index' = [index EXCEPT ![f][old[f]] = @ \cup {task.id}]
  /\ IF f = "user" THEN WorkerGoto("compare", "location") /\ UNCHANGED m_tasks ELSE Pop
  /\ UNCHANGED <<m_visits, hvars>>

\* operator[] would make a list under the empty key.
InsertEmptyKey(f) ==
  /\ \/ WorkerAt("insert", f) /\ task.new[f] = EmptyKey
     \/ WorkerAt("compare", f) /\ ~task.update /\ old[f] = EmptyKey
  /\ WorkerGoto("aborted", f)
  /\ UNCHANGED <<m_visits, index, m_tasks, hvars>>

-------------------------------------------------------------------------------
Init ==
  /\ m_visits = [id \in Id |-> NoVisit]
  /\ index = [f \in IndexField |-> [k \in Key |-> {}]]
  /\ m_tasks = <<>>
  /\ wstep = "compare"
  /\ wfield = "user"
  /\ hpc = [h \in Handler |-> "idle"]
  /\ hid = [h \in Handler |-> NoVisit]
  /\ temp = [h \in Handler |-> NoVisit]
  /\ contended = {}

HandlerNext(h) ==
  \/ \E id \in Id, v \in Visit : InsertVisit(h, id, v)
  \/ AnnounceInsert(h)
  \/ \E id \in Id : BeginUpdate(h, id)
  \/ \E f \in Field : CopyField(h, f)
  \/ \E body \in Body : PushUpdate(h, body)
  \/ RejectUpdate(h)

WorkerNext ==
  \/ \E f \in IndexField : \/ EraseOld(f) \/ EraseLast(f) \/ InsertNew(f) \/ SameKey(f)
                           \/ ListInserted(f) \/ InsertEmptyKey(f)
  \/ \E f \in Field : MoveField(f)

Next == WorkerNext \/ \E h \in Handler : HandlerNext(h)

Spec == Init /\ [][Next]_vars

\* Fairness: a thread that can run runs.  Nothing obliges a client to send a request.
Fairness ==
  /\ WF_vars(WorkerNext)
  /\ \A h \in Handler :
       WF_vars(\/ AnnounceInsert(h)
               \/ \E f \in Field : CopyField(h, f)
               \/ \E body \in Body : PushUpdate(h, body)
               \/ RejectUpdate(h))

FairSpec == Spec /\ Fairness

-------------------------------------------------------------------------------
(* Properties *)

HandlerPc == {"idle", "announce", "location", "user", "visited_at", "mark", "push"}
Task == [id : Id, update : BOOLEAN, new : Visit]

\* The types; a queued task and a request under way are about a visit that
\* exists, and the place the worker is at fits the kind of the first task.
TypeOK ==
  /\ m_visits \in [Id -> Visit \cup {NoVisit}]
  /\ index \in [IndexField -> [Key -> SUBSET Id]]
  /\ m_tasks \in Seq(Task)
  /\ wstep \in {"compare", "insert", "move", "aborted"}
  /\ wfield \in Field
  /\ hpc \in [Handler -> HandlerPc]
  /\ hid \in [Handler -> Id \cup {NoVisit}]
  /\ temp \in [Handler -> Visit \cup {NoVisit}]
  /\ contended \in SUBSET Handler
  /\ \A i \in DOMAIN m_tasks : m_visits[m_tasks[i].id] # NoVisit
  /\ \A h \in Busy : hid[h] \in Id /\ m_visits[hid[h]] # NoVisit
  /\ wfield \notin IndexField => wstep = "move"
  /\ m_tasks = <<>> => wstep = "compare" /\ wfield = "user"
  /\ wstep \in {"insert", "move"} => task.update

Changing(id) == m_tasks # <<>> /\ task.update /\ task.id = id
Between(id, f) == Changing(id) /\ wstep \in {"insert", "aborted"} /\ wfield = f

\* The worker is past field f of the first task.
Past(f) == wstep = "move" \/ (f = "user" /\ wfield = "location")

\* The key under which visit id may be listed: the one its update gives it once
\* the worker is past the field, the one it has otherwise.
ListKey(id, f) == IF Changing(id) /\ Past(f) THEN task.new[f] ELSE m_visits[id][f]

\* No index ever lists a visit under a key that is not its own, and none lists
\* one twice, whatever updates of it overlap or overtake its insertion.
IndexSound ==
  \A f \in IndexField, k \in Key : \A id \in index[f][k] :
    m_visits[id] # NoVisit /\ k = ListKey(id, f) /\ ~Between(id, f)

InsertPending(id, f) ==
  \/ \E h \in Handler : hpc[h] = "announce" /\ hid[h] = id
  \/ \E i \in DOMAIN m_tasks : /\ ~m_tasks[i].update /\ m_tasks[i].id = id
                               /\ i = 1 => ~Past(f)

\* Every visit is on the list of its user and of its location, unless its
\* insertion was not served yet or the worker is between erase and insert, which
\* is also where it may have ended the process.
IndexComplete ==
  \A id \in Id, f \in IndexField :
    m_visits[id] # NoVisit =>
      id \in index[f][ListKey(id, f)] \/ InsertPending(id, f) \/ Between(id, f)

\* Of the two defects of the tables that end the process here, the worker meets
\* one only for the empty key, and the other only when the visit it takes off a
\* list is the only one with that user or location that was ever listed: as long
\* as another one is on the list, updates are harmless.
EndsOnlyWhenLast ==
  ~Alive =>
    IF task.update
    THEN \/ task.new[wfield] = EmptyKey
         \/ \A id \in Id \ {task.id} :
              m_visits[id] # NoVisit /\ m_visits[id][wfield] = old[wfield]
                => InsertPending(id, wfield)
    ELSE old[wfield] = EmptyKey

\* An update that met no other update of its visit, neither under way nor still
\* queued, starts from an exact copy: it changes the fields it names and no other.
\* (One that did meet another may take back what that one wrote.)
UncontendedCopyExact ==
  \A h \in Handler : hpc[h] = "push" /\ h \notin contended => temp[h] = m_visits[hid[h]]

\* What makes these inductive: an uncontended copy never differs from its visit
\* because nobody may change that visit meanwhile, and a field once moved holds
\* the task's value.
UncontendedAlone ==
  \A h \in Handler \ contended : hpc[h] \in UpdatePc =>
    /\ temp[h] = m_visits[hid[h]]
    /\ ~UpdateQueued(hid[h])
    /\ \A g \in Handler \ {h} : ~Updating(g, hid[h])

MovedSoFar ==
  wstep = "move" => /\ wfield # "location" => old["location"] = task.new["location"]
                    /\ wfield \notin IndexField => old["user"] = task.new["user"]
                    /\ wfield = "mark" => old["visited_at"] = task.new["visited_at"]

IInv ==
  /\ TypeOK
  /\ \A h \in Handler : hpc[h] \in UpdatePc => temp[h] \in Visit
  /\ MovedSoFar
  /\ IndexSound
  /\ IndexComplete
  /\ UncontendedAlone

Started == m_tasks # <<>> /\ ~(wstep = "compare" /\ wfield = "user")

AbstractStore == [id \in Id |-> IF Started /\ Changing(id) THEN task.new ELSE m_visits[id]]
AbstractLog == IF Started THEN Tail(m_tasks) ELSE m_tasks
Store == INSTANCE VisitStore WITH store <- AbstractStore, log <- AbstractLog

\* Each accepted write takes effect whole and in the order of acceptance,
\* although it is applied field by field; it counts from the worker's first step.
ImplementsVisitStore == Store!Spec

\* An inserted visit gets on the list of its user, whoever updates it meanwhile,
\* unless the process ends first.
InsertedIsListed ==
  \A id \in Id : m_visits[id] # NoVisit ~>
    \/ \E k \in Key : id \in index["user"][k] /\ k = m_visits[id]["user"]
    \/ ~Alive
===============================================================================
