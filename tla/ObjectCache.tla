------------------------------ MODULE ObjectCache ------------------------------
(***************************************************************************)
(* One user or location of class base and the serialization it caches      *)
(* (base.cpp; the two classes have the same code): insert, update, the     *)
(* background thread's forced refresh, and the answer to GET /users/<id>   *)
(* or GET /locations/<id> (get_object, and processor.cpp).                 *)
(*                                                                         *)
(* Unlike a visit, a user or location is overwritten by the request thread *)
(* itself.  Nothing locks the fields or m_serialization, so every field    *)
(* that is read or written is a step of its own; the string operations     *)
(* clear, assign, empty, length and append are one step each.              *)
(***************************************************************************)
EXTENDS Naturals, FiniteSets

CONSTANTS Updater,    \* threads that insert or update
          Getter,     \* threads that answer GET
          Worker,     \* the background thread
          FieldCount, \* members of the object
          Value,      \* what a member may hold
          None,
          MaxOutstanding \* bound: updates under way and tasks not yet served

ASSUME ActorsDistinct == /\ Updater \cap Getter = {}
                         /\ Worker \notin Updater \cup Getter
ASSUME FieldCountPositive == FieldCount \in Nat \ {0}

Field == 1 .. FieldCount
Object == [Field -> Value]
Thread == Updater \cup Getter \cup {Worker}

ASSUME NoneIsNoObject == None \notin Object

VARIABLES
  obj,             \* the fields of the object, None before it is inserted
  m_serialization, \* the cached text, as the object it shows; None if empty
  m_tasks,         \* how often the object is in m_tasks_user / m_tasks_location
  pc, at,          \* where each thread is, and at which field
  buf,             \* its *user_temp_ptr or its buffer
  answer,          \* what each getter answered last
  contended,       \* history: updaters whose update met another one
  racing,          \* history: getters that saw a field move while they built
  tainted,         \* history: the cached text was built by such a getter
  touched          \* history: getters whose string changed while they answered

history == <<contended, racing, tainted, touched>>
vars == <<obj, m_serialization, m_tasks, pc, at, buf, answer, history>>

Goto(t, from, to) ==
  /\ pc[t] = from
  /\ pc' = [pc EXCEPT ![t] = to]

\* One field done by t: the next one, or the place `to` after the last one.
NextField(t, from, to) ==
  /\ Goto(t, from, IF at[t] = FieldCount THEN to ELSE from)
  /\ at' = [at EXCEPT ![t] = IF @ = FieldCount THEN 1 ELSE @ + 1]

\* Read field at[t] of the object into t's own copy.
ReadField(t, from, to) ==
  /\ NextField(t, from, to)
  /\ buf' = [buf EXCEPT ![t][at[t]] = obj[at[t]]]
  /\ UNCHANGED <<obj, m_serialization, m_tasks, answer, history>>

-------------------------------------------------------------------------------
(* insert and update *)

InUpdate == {h \in Updater : pc[h] \in {"copy", "merge", "move", "clear"}}
Outstanding == m_tasks + Cardinality({h \in Updater : pc[h] # "idle"})

\* insert: the object enters the map; its task is pushed by PushTask.
Insert(h, v) ==
  /\ obj = None
  /\ Goto(h, "idle", "push")
  /\ obj' = v
  /\ UNCHANGED <<m_serialization, m_tasks, at, buf, answer, history>>

\* update: the object is looked up; the copy constructor reads it field by field.
BeginUpdate(h) ==
  /\ obj # None
  /\ Outstanding < MaxOutstanding
  /\ Goto(h, "idle", "copy")
  /\ buf' = [buf EXCEPT ![h] = obj]  \* every field is copied below
  /\ contended' = (contended \ {h}) \cup (IF InUpdate = {} THEN {} ELSE InUpdate \cup {h})
  /\ UNCHANGED <<obj, m_serialization, m_tasks, at, answer, racing, tainted, touched>>

CopyField(h) == h \in Updater /\ ReadField(h, "copy", "merge")

\* deserializate overwrites the members F that the body names in the copy.
Deserializate(h) ==
  /\ Goto(h, "merge", "move")
  /\ \E F \in SUBSET Field : \E v \in [F -> Value] :
       buf' = [buf EXCEPT ![h] = [f \in Field |-> IF f \in F THEN v[f] ELSE @[f]]]
  /\ UNCHANGED <<obj, m_serialization, m_tasks, at, answer, history>>

\* deserializate returns false; the copy is dropped.
RejectUpdate(h) ==
  /\ Goto(h, "merge", "idle")
  /\ buf' = [buf EXCEPT ![h] = None]
  /\ contended' = contended \ {h}
  /\ UNCHANGED <<obj, m_serialization, m_tasks, at, answer, racing, tainted, touched>>

\* Mutant: move leaves out the last member.
MoveField_NotLast(h) ==
  /\ NextField(h, "move", "clear")
  /\ obj' = IF at[h] = FieldCount THEN obj ELSE [obj EXCEPT ![at[h]] = buf[h][at[h]]]
  /\ racing' = racing \cup {g \in Getter : pc[g] \in {"build", "assign"}}
  /\ UNCHANGED <<m_serialization, m_tasks, buf, answer, contended, tainted, touched>>

\* move: the members of the object are overwritten one after the other.
MoveField(h) ==
  /\ NextField(h, "move", "clear")
  /\ obj' = [obj EXCEPT ![at[h]] = buf[h][at[h]]]
  /\ racing' = racing \cup {g \in Getter : pc[g] \in {"build", "assign"}}
  /\ UNCHANGED <<m_serialization, m_tasks, buf, answer, contended, tainted, touched>>

\* The shared string gets the content s; a getter that is answering notices.
SetCache(s) ==
  /\ m_serialization' = s
  /\ touched' = touched \cup {g \in Getter : pc[g] \in {"check", "length", "body"}}

\* move: m_serialization->clear().
Clear(h) ==
  /\ Goto(h, "clear", "push")
  /\ SetCache(None)
  /\ tainted' = FALSE
  /\ UNCHANGED <<obj, m_tasks, at, buf, answer, contended, racing>>

\* insert and update: the object is queued for the background thread.
PushTask(h) ==
  /\ Goto(h, "push", "idle")
  /\ m_tasks' = m_tasks + 1
  /\ buf' = [buf EXCEPT ![h] = None]
  /\ contended' = contended \ {h}
  /\ UNCHANGED <<obj, m_serialization, at, answer, racing, tainted, touched>>

-------------------------------------------------------------------------------
(* serializate: the getter's is skipped when the text is there, the worker's  *)
(* is forced.                                                                 *)

BeginBuild(t, from) ==
  /\ Goto(t, from, "build")
  /\ buf' = [buf EXCEPT ![t] = obj]  \* every field is read below

BuildField(t) == t \notin Updater /\ ReadField(t, "build", "assign")

\* Mutant: serializate() instead of serializate(true).
WorkerBegin_NotForced ==
  /\ m_tasks > 0
  /\ IF m_serialization = None
     THEN BeginBuild(Worker, "idle") /\ UNCHANGED m_tasks
     ELSE pc[Worker] = "idle" /\ m_tasks' = m_tasks - 1 /\ UNCHANGED <<pc, buf>>
  /\ UNCHANGED <<obj, m_serialization, at, answer, history>>

WorkerBegin ==
  /\ m_tasks > 0
  /\ BeginBuild(Worker, "idle")
  /\ UNCHANGED <<obj, m_serialization, m_tasks, at, answer, history>>

WorkerAssign ==
  /\ Goto(Worker, "assign", "idle")
  /\ SetCache(buf[Worker])
  /\ tainted' = FALSE
  /\ m_tasks' = m_tasks - 1
  /\ buf' = [buf EXCEPT ![Worker] = None]
  /\ UNCHANGED <<obj, at, answer, contended, racing>>

\* Mutant: the text is returned whether it is there or not.
GetterBegin_NoBuild(g) ==
  /\ obj # None
  /\ Goto(g, "idle", "check")
  /\ touched' = touched \ {g}
  /\ answer' = [answer EXCEPT ![g] = None]
  /\ UNCHANGED <<obj, m_serialization, m_tasks, at, buf, contended, racing, tainted>>

\* get_object, for an object that exists: if (force || m_serialization->empty())
GetterBegin(g) ==
  /\ obj # None
  /\ IF m_serialization = None THEN BeginBuild(g, "idle")
                               ELSE Goto(g, "idle", "check") /\ UNCHANGED buf
  /\ racing' = racing \ {g}
  /\ touched' = touched \ {g}
  /\ answer' = [answer EXCEPT ![g] = None]
  /\ UNCHANGED <<obj, m_serialization, m_tasks, at, contended, tainted>>

GetterAssign(g) ==
  /\ Goto(g, "assign", "check")
  /\ SetCache(buf[g])
  /\ tainted' = (g \in racing)
  /\ buf' = [buf EXCEPT ![g] = None]
  /\ UNCHANGED <<obj, m_tasks, at, answer, contended, racing>>

\* handle: the returned pointer shares the string; if (res->empty()) send404.
GetterCheck(g) ==
  /\ IF m_serialization = None
     THEN /\ Goto(g, "check", "idle")
          /\ answer' = [answer EXCEPT ![g] = [status |-> 404]]
     ELSE Goto(g, "check", "length") /\ UNCHANGED answer
  /\ UNCHANGED <<obj, m_serialization, m_tasks, at, buf, history>>

\* send200: std::to_string(data.length()), which the text it measures stands for.
GetterLength(g) ==
  /\ Goto(g, "length", "body")
  /\ buf' = [buf EXCEPT ![g] = m_serialization]
  /\ UNCHANGED <<obj, m_serialization, m_tasks, at, answer, history>>

\* send200: + data, and write.
GetterBody(g) ==
  /\ Goto(g, "body", "idle")
  /\ answer' = [answer EXCEPT ![g] = [status |-> 200, length |-> buf[g], body |-> m_serialization]]
  /\ buf' = [buf EXCEPT ![g] = None]
  /\ UNCHANGED <<obj, m_serialization, m_tasks, at, history>>

-------------------------------------------------------------------------------
Init ==
  /\ obj = None
  /\ m_serialization = None
  /\ m_tasks = 0
  /\ pc = [t \in Thread |-> "idle"]
  /\ at = [t \in Thread |-> 1]
  /\ buf = [t \in Thread |-> None]
  /\ answer = [g \in Getter |-> None]
  /\ contended = {}
  /\ racing = {}
  /\ tainted = FALSE
  /\ touched = {}

UpdaterNext(h) ==
  \/ \E v \in Object : Insert(h, v)
  \/ BeginUpdate(h) \/ CopyField(h) \/ Deserializate(h) \/ RejectUpdate(h)
  \/ MoveField(h) \/ Clear(h) \/ PushTask(h)

GetterNext(g) == \/ GetterBegin(g) \/ BuildField(g) \/ GetterAssign(g)
                 \/ GetterCheck(g) \/ GetterLength(g) \/ GetterBody(g)

WorkerNext == WorkerBegin \/ BuildField(Worker) \/ WorkerAssign

Next == \/ \E h \in Updater : UpdaterNext(h)
        \/ \E g \in Getter : GetterNext(g)
        \/ WorkerNext

Spec == Init /\ [][Next]_vars

-------------------------------------------------------------------------------
(* Properties *)

\* The types; before the object is inserted nobody is doing anything with it.
TypeOK ==
  /\ obj \in Object \cup {None}
  /\ m_serialization \in Object \cup {None}
  /\ m_tasks \in Nat
  /\ pc \in [Thread -> {"idle", "copy", "merge", "move", "clear", "push",
                        "build", "assign", "check", "length", "body"}]
  /\ at \in [Thread -> Field]
  /\ buf \in [Thread -> Object \cup {None}]
  /\ answer \in [Getter -> {None, [status |-> 404]} \cup
       [status : {200}, length : Object \cup {None}, body : Object \cup {None}]]
  /\ contended \in SUBSET Updater
  /\ racing \in SUBSET Getter
  /\ tainted \in BOOLEAN
  /\ touched \in SUBSET Getter
  /\ obj = None => m_tasks = 0 /\ m_serialization = None /\ \A t \in Thread : pc[t] = "idle"

\* No insert or update is under way and every task was served.
Settled == m_tasks = 0 /\ \A t \in Updater \cup {Worker} : pc[t] = "idle"

\* Once the writes have settled the cached text shows the object, whatever
\* overlapped, unless a getter filled it that began before a field moved: such
\* a late fill comes after the refresh and stays until the next update.
FreshWhenSettled == obj # None /\ Settled => m_serialization = obj \/ tainted

\* An update that overlaps no other one changes exactly what its body names: its
\* copy is exact, and after its move the object is the merged copy.
UncontendedUpdateExact ==
  \A h \in Updater \ contended :
    pc[h] \in {"merge", "clear"} => obj = buf[h]

\* A getter answers an existing object with 200, a body, and that body's length,
\* unless the string was cleared or refreshed under it after get_object returned.
AnswerIntact ==
  \A g \in Getter \ touched :
    answer[g] # None => answer[g].status = 200 /\ answer[g].length = answer[g].body
===============================================================================
