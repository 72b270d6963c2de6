-------------------------- MODULE ObjectCache_proofs --------------------------
(***************************************************************************)
(* Theorems about ObjectCache for any numbers of threads and of members    *)
(* and any values: its invariants, from the inductive invariant IInv.      *)
(***************************************************************************)
EXTENDS ObjectCache, TLAPS

Updating == {"copy", "merge", "move", "clear"}
WillPush == {"move", "clear", "push"}
Answering == {"check", "length", "body"}

\* Each kind of thread is in its own code, with a copy of the object where it
\* works on one.
Shape ==
  /\ TypeOK
  /\ \A h \in Updater : pc[h] \in {"idle", "push"} \cup Updating
  /\ \A g \in Getter : pc[g] \in {"idle", "build", "assign"} \cup Answering
  /\ pc[Worker] \in {"idle", "build", "assign"}
  /\ pc[Worker] # "idle" => m_tasks > 0
  /\ \A t \in Thread : pc[t] \in Updating \cup {"build", "assign"} => buf[t] \in Object
  /\ \A t \in Thread : pc[t] \notin {"copy", "move", "build"} => at[t] = 1

\* The worker's text will be exact, or there will be another task after it.
WorkerFresh ==
  pc[Worker] # "idle" =>
    buf[Worker] = obj \/ m_tasks >= 2 \/ \E h \in Updater : pc[h] \in WillPush

\* As FreshWhenSettled, and while updates are under way that have moved nothing.
CacheFresh ==
  obj # None /\ m_tasks = 0 /\ (\A h \in Updater : pc[h] \notin WillPush) =>
    m_serialization = obj \/ tainted

\* A getter that saw no field move has read the object as it is.
GetterFresh == \A g \in Getter \ racing : pc[g] \in {"build", "assign"} => buf[g] = obj

\* An update that is not contended is the only one under way.
Alone ==
  \A h \in Updater \ contended : pc[h] \in Updating =>
    \A k \in Updater : pc[k] \in Updating => k = h

\* Its copy is exact, and move has brought the members before at[h] over.
UpdateExact ==
  \A h \in Updater \ contended :
    /\ pc[h] \in {"copy", "merge", "clear"} => buf[h] = obj
    /\ pc[h] = "move" => \A f \in Field : f < at[h] => obj[f] = buf[h][f]

\* A getter whose string did not change is answering with a text that is there.
AnswerSound ==
  \A g \in Getter :
    /\ pc[g] # "idle" => answer[g] = None
    /\ g \notin touched /\ pc[g] \in Answering => m_serialization # None
    /\ g \notin touched /\ pc[g] = "body" => buf[g] = m_serialization
    /\ g \notin touched /\ answer[g] # None =>
         answer[g].status = 200 /\ answer[g].length = answer[g].body

IInv ==
  /\ Shape /\ WorkerFresh /\ CacheFresh /\ GetterFresh
  /\ Alone /\ UpdateExact /\ AnswerSound

USE ActorsDistinct, NoneIsNoObject, FieldCountPositive

-------------------------------------------------------------------------------

LEMMA InitIInv == Init => IInv
<1> SUFFICES ASSUME Init PROVE IInv
  OBVIOUS
<1> USE DEF Init
<1>1. TypeOK
  <2>1. 1 \in Field
    BY DEF Field
  <2> QED
    BY <2>1 DEF TypeOK, Thread
<1>2. Shape
  BY <1>1 DEF Shape, Thread, Updating, Answering
<1> QED
  BY <1>2 DEF IInv, WorkerFresh, CacheFresh, GetterFresh, Alone, UpdateExact, AnswerSound,
     Thread, Updating, WillPush, Answering

\* The last member that move brings over makes the object equal to the copy.
LEMMA LastMember ==
  ASSUME NEW o \in Object, NEW b \in Object, \A f \in Field : f < FieldCount => o[f] = b[f]
  PROVE  [o EXCEPT ![FieldCount] = b[FieldCount]] = b
<1>1. \A f \in Field : [o EXCEPT ![FieldCount] = b[FieldCount]][f] = b[f]
  BY DEF Field, Object
<1> QED  BY <1>1 DEF Object

\* The step from one member to the next stays within the object.
LEMMA NextFieldAt ==
  ASSUME TypeOK, NEW t \in Thread, NEW CONSTANT from, NEW CONSTANT to, NextField(t, from, to)
  PROVE  /\ at' \in [Thread -> Field]
         /\ at'[t] = IF at[t] = FieldCount THEN 1 ELSE at[t] + 1
         /\ \A u \in Thread : u # t => at'[u] = at[u]
<1>1. at[t] \in Field /\ at \in [Thread -> Field]
  BY DEF TypeOK
<1>2. at[t] # FieldCount => at[t] + 1 \in Field
  BY <1>1 DEF Field
<1>3. 1 \in Field
  BY DEF Field
<1> QED  BY <1>1, <1>2, <1>3 DEF NextField

\* A member read at the thread's place: its copy keeps its type, and a copy that
\* was exact stays exact.
LEMMA ReadFieldBuf ==
  ASSUME TypeOK, NEW t \in Thread, NEW CONSTANT from, NEW CONSTANT to, ReadField(t, from, to),
         buf[t] \in Object, obj \in Object
  PROVE  /\ buf' \in [Thread -> Object \cup {None}]
         /\ buf'[t] \in Object
         /\ buf[t] = obj => buf'[t] = obj
         /\ \A u \in Thread : u # t => buf'[u] = buf[u]
<1>1. at[t] \in Field /\ buf \in [Thread -> Object \cup {None}]
  BY DEF TypeOK
<1>2. buf' = [buf EXCEPT ![t] = [buf[t] EXCEPT ![at[t]] = obj[at[t]]]]
  BY <1>1 DEF ReadField
<1>3. [buf[t] EXCEPT ![at[t]] = obj[at[t]]] \in Object
  BY <1>1 DEF Object
<1>4. buf[t] = obj => [buf[t] EXCEPT ![at[t]] = obj[at[t]]] = obj
  BY <1>1 DEF Object
<1> QED  BY <1>1, <1>2, <1>3, <1>4

LEMMA InsertIInv ==
  ASSUME IInv, NEW h \in Updater, NEW v \in Object, Insert(h, v)
  PROVE  IInv'
<1> USE DEF IInv, Shape, TypeOK, Thread, Updating, WillPush, Answering, Insert, Goto, history
<1>0. TypeOK'
  OBVIOUS
<1>1. Shape'
  BY <1>0
<1>2. WorkerFresh'
  BY <1>1 DEF WorkerFresh
<1>3. CacheFresh'
  BY <1>1 DEF CacheFresh
<1>4. GetterFresh'
  BY <1>1 DEF GetterFresh
<1>5. Alone'
  BY <1>1 DEF Alone
<1>6. UpdateExact'
  BY <1>1 DEF UpdateExact
<1>7. AnswerSound'
  BY <1>1 DEF AnswerSound
<1> QED
  BY <1>1, <1>2, <1>3, <1>4, <1>5, <1>6, <1>7

LEMMA BeginUpdateIInv ==
  ASSUME IInv, NEW h \in Updater, BeginUpdate(h)
  PROVE  IInv'
<1> USE DEF IInv, Shape, TypeOK, Thread, Updating, WillPush, Answering, BeginUpdate, Goto, InUpdate
<1>0. TypeOK'
  OBVIOUS
<1>1. Shape'
  BY <1>0
<1>2. WorkerFresh'
  BY <1>1 DEF WorkerFresh
<1>3. CacheFresh'
  BY <1>1 DEF CacheFresh
<1>4. GetterFresh'
  BY <1>1 DEF GetterFresh
<1>5. Alone'
  BY <1>1 DEF Alone
<1>6. UpdateExact'
  BY <1>1 DEF UpdateExact
<1>7. AnswerSound'
  BY <1>1 DEF AnswerSound
<1> QED
  BY <1>1, <1>2, <1>3, <1>4, <1>5, <1>6, <1>7

LEMMA CopyFieldIInv ==
  ASSUME IInv, NEW h \in Updater, CopyField(h)
  PROVE  IInv'
<1> USE DEF IInv, Shape, TypeOK, Thread, Updating, WillPush, Answering
<1>a. obj \in Object /\ buf[h] \in Object /\ h \in Thread
  BY DEF CopyField, ReadField, NextField, Goto
<1>b. ReadField(h, "copy", "merge")
  BY DEF CopyField
<1>c. NextField(h, "copy", "merge")
  BY <1>b DEF ReadField
<1>d. /\ at' \in [Thread -> Field]
      /\ at'[h] = IF at[h] = FieldCount THEN 1 ELSE at[h] + 1
      /\ \A u \in Thread : u # h => at'[u] = at[u]
  BY <1>c, NextFieldAt
<1>e. /\ buf' \in [Thread -> Object \cup {None}]
      /\ buf'[h] \in Object
      /\ buf[h] = obj => buf'[h] = obj
      /\ \A u \in Thread : u # h => buf'[u] = buf[u]
  BY <1>a, <1>b, ReadFieldBuf
<1>f. /\ pc[h] = "copy"
      /\ pc' = [pc EXCEPT ![h] = IF at[h] = FieldCount THEN "merge" ELSE "copy"]
      /\ UNCHANGED <<obj, m_serialization, m_tasks, answer, contended, racing, tainted, touched>>
  BY <1>b DEF ReadField, NextField, Goto, history
<1>0. TypeOK'
  BY <1>a, <1>d, <1>e, <1>f
<1>1. Shape'
  BY <1>0, <1>a, <1>d, <1>e, <1>f
<1>2. WorkerFresh'
  BY <1>1, <1>a, <1>e, <1>f DEF WorkerFresh
<1>3. CacheFresh'
  BY <1>1, <1>a, <1>e, <1>f DEF CacheFresh
<1>4. GetterFresh'
  BY <1>1, <1>a, <1>e, <1>f DEF GetterFresh
<1>5. Alone'
  BY <1>1, <1>a, <1>e, <1>f DEF Alone
<1>6. UpdateExact'
  BY <1>1, <1>a, <1>d, <1>e, <1>f DEF UpdateExact
<1>7. AnswerSound'
  BY <1>1, <1>a, <1>e, <1>f DEF AnswerSound
<1> QED
  BY <1>1, <1>2, <1>3, <1>4, <1>5, <1>6, <1>7

LEMMA DeserializateIInv ==
  ASSUME IInv, NEW h \in Updater, Deserializate(h)
  PROVE  IInv'
<1> USE DEF IInv, Shape, TypeOK, Thread, Updating, WillPush, Answering
<1>a. PICK b \in Object : buf' = [buf EXCEPT ![h] = b]
  <2>1. PICK F \in SUBSET Field : \E v \in [F -> Value] :
          buf' = [buf EXCEPT ![h] = [f \in Field |-> IF f \in F THEN v[f] ELSE @[f]]]
    BY DEF Deserializate
  <2>a. PICK v \in [F -> Value] :
          buf' = [buf EXCEPT ![h] = [f \in Field |-> IF f \in F THEN v[f] ELSE buf[h][f]]]
    BY <2>1
  <2>2. buf[h] \in Object
    BY DEF Deserializate, Goto
  <2>3. [f \in Field |-> IF f \in F THEN v[f] ELSE buf[h][f]] \in Object
    BY <2>2 DEF Object
  <2> QED  BY <2>a, <2>3
<1>b. Goto(h, "merge", "move") /\ UNCHANGED <<obj, m_serialization, m_tasks, at, answer, contended,
        racing, tainted, touched>>
  BY DEF Deserializate, history
<1>0. TypeOK'
  BY <1>a, <1>b DEF Goto
<1>1. Shape'
  BY <1>0, <1>a, <1>b DEF Goto
<1>2. WorkerFresh'
  BY <1>1, <1>a, <1>b DEF Goto, WorkerFresh
<1>3. CacheFresh'
  BY <1>1, <1>a, <1>b DEF Goto, CacheFresh
<1>4. GetterFresh'
  BY <1>1, <1>a, <1>b DEF Goto, GetterFresh
<1>5. Alone'
  BY <1>1, <1>a, <1>b DEF Goto, Alone
<1>6. UpdateExact'
  <2>1. at[h] = 1 /\ at' = at
    BY <1>b DEF Goto
  <2>2. \A f \in Field : ~(f < 1)
    BY DEF Field
  <2> QED  BY <1>1, <1>a, <1>b, <2>1, <2>2 DEF Goto, UpdateExact
<1>7. AnswerSound'
  BY <1>1, <1>a, <1>b DEF Goto, AnswerSound
<1> QED
  BY <1>1, <1>2, <1>3, <1>4, <1>5, <1>6, <1>7

LEMMA RejectUpdateIInv ==
  ASSUME IInv, NEW h \in Updater, RejectUpdate(h)
  PROVE  IInv'
<1> USE DEF IInv, Shape, TypeOK, Thread, Updating, WillPush, Answering, RejectUpdate, Goto
<1>0. TypeOK'
  OBVIOUS
<1>1. Shape'
  BY <1>0
<1>2. WorkerFresh'
  BY <1>1 DEF WorkerFresh
<1>3. CacheFresh'
  BY <1>1 DEF CacheFresh
<1>4. GetterFresh'
  BY <1>1 DEF GetterFresh
<1>5. Alone'
  BY <1>1 DEF Alone
<1>6. UpdateExact'
  BY <1>1 DEF UpdateExact
<1>7. AnswerSound'
  BY <1>1 DEF AnswerSound
<1> QED
  BY <1>1, <1>2, <1>3, <1>4, <1>5, <1>6, <1>7

LEMMA MoveFieldIInv ==
  ASSUME IInv, NEW h \in Updater, MoveField(h)
  PROVE  IInv'
<1> USE DEF IInv, Shape, TypeOK, Thread, Updating, WillPush, Answering
<1>a. /\ at' \in [Thread -> Field]
      /\ at'[h] = IF at[h] = FieldCount THEN 1 ELSE at[h] + 1
      /\ \A u \in Thread : u # h => at'[u] = at[u]
  BY NextFieldAt DEF MoveField
<1>b. obj \in Object /\ buf[h] \in Object /\ at[h] \in Field /\ pc[h] = "move"
  BY DEF MoveField, NextField, Goto
<1>c. obj' \in Object
  BY <1>b DEF MoveField, Object
<1>d. /\ pc' = [pc EXCEPT ![h] = IF at[h] = FieldCount THEN "clear" ELSE "move"]
      /\ obj' = [obj EXCEPT ![at[h]] = buf[h][at[h]]]
      /\ racing' = racing \cup {g \in Getter : pc[g] \in {"build", "assign"}}
      /\ UNCHANGED <<m_serialization, m_tasks, buf, answer, contended, tainted, touched>>
  BY DEF MoveField, NextField, Goto
<1>0. TypeOK'
  BY <1>a, <1>b, <1>c, <1>d
<1>1. Shape'
  BY <1>0, <1>a, <1>b, <1>c, <1>d
<1>2. WorkerFresh'
  BY <1>1, <1>b, <1>c, <1>d DEF WorkerFresh
<1>3. CacheFresh'
  BY <1>1, <1>b, <1>c, <1>d DEF CacheFresh
<1>4. GetterFresh'
  BY <1>1, <1>b, <1>c, <1>d DEF GetterFresh
<1>5. Alone'
  BY <1>1, <1>b, <1>c, <1>d DEF Alone
<1>6. UpdateExact'
  <2> SUFFICES ASSUME NEW k \in Updater \ contended
               PROVE  /\ pc'[k] \in {"copy", "merge", "clear"} => buf[k] = obj'
                      /\ pc'[k] = "move" => \A f \in Field : f < at'[k] => obj'[f] = buf[k][f]
    BY <1>d DEF UpdateExact
  <2>1. CASE k # h
    <3>1. pc'[k] \notin Updating
      BY <1>b, <1>d, <2>1 DEF Alone
    <3> QED  BY <3>1
  <2>2. CASE k = h
    <3>1. \A f \in Field : f < at[h] => obj[f] = buf[h][f]
      BY <1>b, <2>2 DEF UpdateExact
    <3>2. \A f \in Field : obj'[f] = IF f = at[h] THEN buf[h][f] ELSE obj[f]
      BY <1>b, <1>d DEF Object
    <3>3. CASE at[h] = FieldCount
      <4>1. obj' = buf[h]
        BY <1>b, <1>d, <3>1, <3>3, LastMember
      <4>2. pc'[h] = "clear"
        BY <1>b, <1>d, <3>3
      <4> QED  BY <2>2, <4>1, <4>2
    <3>4. CASE at[h] # FieldCount
      <4>1. pc'[h] = "move" /\ at'[h] = at[h] + 1
        BY <1>a, <1>d, <3>4
      <4>2. \A f \in Field : f < at[h] + 1 => f < at[h] \/ f = at[h]
        BY <1>b DEF Field
      <4> QED  BY <2>2, <3>1, <3>2, <4>1, <4>2
    <3> QED  BY <3>3, <3>4
  <2> QED  BY <2>1, <2>2
<1>7. AnswerSound'
  BY <1>1, <1>b, <1>c, <1>d DEF AnswerSound
<1> QED
  BY <1>1, <1>2, <1>3, <1>4, <1>5, <1>6, <1>7

LEMMA ClearIInv ==
  ASSUME IInv, NEW h \in Updater, Clear(h)
  PROVE  IInv'
<1> USE DEF IInv, Shape, TypeOK, Thread, Updating, WillPush, Answering, Clear, SetCache, Goto
<1>0. TypeOK'
  OBVIOUS
<1>1. Shape'
  BY <1>0
<1>2. WorkerFresh'
  BY <1>1 DEF WorkerFresh
<1>3. CacheFresh'
  BY <1>1 DEF CacheFresh
<1>4. GetterFresh'
  BY <1>1 DEF GetterFresh
<1>5. Alone'
  BY <1>1 DEF Alone
<1>6. UpdateExact'
  BY <1>1 DEF UpdateExact
<1>7. AnswerSound'
  BY <1>1 DEF AnswerSound
<1> QED
  BY <1>1, <1>2, <1>3, <1>4, <1>5, <1>6, <1>7

LEMMA PushTaskIInv ==
  ASSUME IInv, NEW h \in Updater, PushTask(h)
  PROVE  IInv'
<1> USE DEF IInv, Shape, TypeOK, Thread, Updating, WillPush, Answering, PushTask, Goto
<1>0. TypeOK'
  OBVIOUS
<1>1. Shape'
  BY <1>0
<1>2. WorkerFresh'
  BY <1>1 DEF WorkerFresh
<1>3. CacheFresh'
  BY <1>1 DEF CacheFresh
<1>4. GetterFresh'
  BY <1>1 DEF GetterFresh
<1>5. Alone'
  BY <1>1 DEF Alone
<1>6. UpdateExact'
  BY <1>1 DEF UpdateExact
<1>7. AnswerSound'
  BY <1>1 DEF AnswerSound
<1> QED
  BY <1>1, <1>2, <1>3, <1>4, <1>5, <1>6, <1>7

LEMMA WorkerBeginIInv ==
  ASSUME IInv, WorkerBegin
  PROVE  IInv'
<1> USE DEF IInv, Shape, TypeOK, Thread, Updating, WillPush, Answering, WorkerBegin, BeginBuild, Goto, history
<1>0. TypeOK'
  OBVIOUS
<1>1. Shape'
  BY <1>0
<1>2. WorkerFresh'
  BY <1>1 DEF WorkerFresh
<1>3. CacheFresh'
  BY <1>1 DEF CacheFresh
<1>4. GetterFresh'
  BY <1>1 DEF GetterFresh
<1>5. Alone'
  BY <1>1 DEF Alone
<1>6. UpdateExact'
  BY <1>1 DEF UpdateExact
<1>7. AnswerSound'
  BY <1>1 DEF AnswerSound
<1> QED
  BY <1>1, <1>2, <1>3, <1>4, <1>5, <1>6, <1>7

LEMMA BuildFieldIInv ==
  ASSUME IInv, NEW t \in Getter \cup {Worker}, BuildField(t)
  PROVE  IInv'
<1> USE DEF IInv, Shape, TypeOK, Thread, Updating, WillPush, Answering
<1>a. obj \in Object /\ buf[t] \in Object /\ t \in Thread
  BY DEF BuildField, ReadField, NextField, Goto
<1>b. ReadField(t, "build", "assign")
  BY DEF BuildField
<1>c. NextField(t, "build", "assign")
  BY <1>b DEF ReadField
<1>d. /\ at' \in [Thread -> Field]
      /\ at'[t] = IF at[t] = FieldCount THEN 1 ELSE at[t] + 1
      /\ \A u \in Thread : u # t => at'[u] = at[u]
  BY <1>c, NextFieldAt
<1>e. /\ buf' \in [Thread -> Object \cup {None}]
      /\ buf'[t] \in Object
      /\ buf[t] = obj => buf'[t] = obj
      /\ \A u \in Thread : u # t => buf'[u] = buf[u]
  BY <1>a, <1>b, ReadFieldBuf
<1>f. /\ pc[t] = "build"
      /\ pc' = [pc EXCEPT ![t] = IF at[t] = FieldCount THEN "assign" ELSE "build"]
      /\ UNCHANGED <<obj, m_serialization, m_tasks, answer, contended, racing, tainted, touched>>
  BY <1>b DEF ReadField, NextField, Goto, history
<1>0. TypeOK'
  BY <1>a, <1>d, <1>e, <1>f
<1>1. Shape'
  BY <1>0, <1>a, <1>d, <1>e, <1>f
<1>2. WorkerFresh'
  BY <1>1, <1>a, <1>e, <1>f DEF WorkerFresh
<1>3. CacheFresh'
  BY <1>1, <1>a, <1>e, <1>f DEF CacheFresh
<1>4. GetterFresh'
  BY <1>1, <1>a, <1>e, <1>f DEF GetterFresh
<1>5. Alone'
  BY <1>1, <1>a, <1>e, <1>f DEF Alone
<1>6. UpdateExact'
  BY <1>1, <1>a, <1>d, <1>e, <1>f DEF UpdateExact
<1>7. AnswerSound'
  BY <1>1, <1>a, <1>e, <1>f DEF AnswerSound
<1> QED
  BY <1>1, <1>2, <1>3, <1>4, <1>5, <1>6, <1>7

LEMMA WorkerAssignIInv ==
  ASSUME IInv, WorkerAssign
  PROVE  IInv'
<1> USE DEF IInv, Shape, TypeOK, Thread, Updating, WillPush, Answering, WorkerAssign, SetCache, Goto
<1>a. m_tasks \in Nat /\ m_tasks > 0 /\ m_tasks - 1 \in Nat /\ (m_tasks - 1 = 0 => ~(m_tasks >= 2))
  <2>1. m_tasks \in Nat /\ m_tasks > 0
    OBVIOUS
  <2> QED  BY <2>1
<1>b. buf[Worker] \in Object /\ obj \in Object /\ pc[Worker] = "assign"
  OBVIOUS
<1>0. TypeOK'
  BY <1>a, <1>b
<1>1. Shape'
  BY <1>0
<1>2. WorkerFresh'
  BY <1>1 DEF WorkerFresh
<1>3. CacheFresh'
  BY <1>a, <1>b DEF CacheFresh, WorkerFresh
<1>4. GetterFresh'
  BY <1>1 DEF GetterFresh
<1>5. Alone'
  BY <1>1 DEF Alone
<1>6. UpdateExact'
  BY <1>1 DEF UpdateExact
<1>7. AnswerSound'
  BY <1>1 DEF AnswerSound
<1> QED
  BY <1>1, <1>2, <1>3, <1>4, <1>5, <1>6, <1>7

LEMMA GetterBeginIInv ==
  ASSUME IInv, NEW g \in Getter, GetterBegin(g)
  PROVE  IInv'
<1> USE DEF IInv, Shape, TypeOK, Thread, Updating, WillPush, Answering, GetterBegin, BeginBuild, Goto
<1>0. TypeOK'
  OBVIOUS
<1>1. Shape'
  BY <1>0
<1>2. WorkerFresh'
  BY <1>1 DEF WorkerFresh
<1>3. CacheFresh'
  BY <1>1 DEF CacheFresh
<1>4. GetterFresh'
  BY <1>1 DEF GetterFresh
<1>5. Alone'
  BY <1>1 DEF Alone
<1>6. UpdateExact'
  BY <1>1 DEF UpdateExact
<1>7. AnswerSound'
  BY <1>1 DEF AnswerSound
<1> QED
  BY <1>1, <1>2, <1>3, <1>4, <1>5, <1>6, <1>7

LEMMA GetterAssignIInv ==
  ASSUME IInv, NEW g \in Getter, GetterAssign(g)
  PROVE  IInv'
<1> USE DEF IInv, Shape, TypeOK, Thread, Updating, WillPush, Answering, GetterAssign, SetCache, Goto
<1>0. TypeOK'
  OBVIOUS
<1>1. Shape'
  BY <1>0
<1>2. WorkerFresh'
  BY <1>1 DEF WorkerFresh
<1>3. CacheFresh'
  BY <1>1 DEF CacheFresh, GetterFresh
<1>4. GetterFresh'
  BY <1>1 DEF GetterFresh
<1>5. Alone'
  BY <1>1 DEF Alone
<1>6. UpdateExact'
  BY <1>1 DEF UpdateExact
<1>7. AnswerSound'
  BY <1>1 DEF AnswerSound
<1> QED
  BY <1>1, <1>2, <1>3, <1>4, <1>5, <1>6, <1>7

LEMMA GetterCheckIInv ==
  ASSUME IInv, NEW g \in Getter, GetterCheck(g)
  PROVE  IInv'
<1> USE DEF IInv, Shape, TypeOK, Thread, Updating, WillPush, Answering, GetterCheck, Goto, history
<1>0. TypeOK'
  OBVIOUS
<1>1. Shape'
  BY <1>0
<1>2. WorkerFresh'
  BY <1>1 DEF WorkerFresh
<1>3. CacheFresh'
  BY <1>1 DEF CacheFresh
<1>4. GetterFresh'
  BY <1>1 DEF GetterFresh
<1>5. Alone'
  BY <1>1 DEF Alone
<1>6. UpdateExact'
  BY <1>1 DEF UpdateExact
<1>7. AnswerSound'
  BY <1>1 DEF AnswerSound
<1> QED
  BY <1>1, <1>2, <1>3, <1>4, <1>5, <1>6, <1>7

LEMMA GetterLengthIInv ==
  ASSUME IInv, NEW g \in Getter, GetterLength(g)
  PROVE  IInv'
<1> USE DEF IInv, Shape, TypeOK, Thread, Updating, WillPush, Answering, GetterLength, Goto, history
<1>0. TypeOK'
  OBVIOUS
<1>1. Shape'
  BY <1>0
<1>2. WorkerFresh'
  BY <1>1 DEF WorkerFresh
<1>3. CacheFresh'
  BY <1>1 DEF CacheFresh
<1>4. GetterFresh'
  BY <1>1 DEF GetterFresh
<1>5. Alone'
  BY <1>1 DEF Alone
<1>6. UpdateExact'
  BY <1>1 DEF UpdateExact
<1>7. AnswerSound'
  BY <1>1 DEF AnswerSound
<1> QED
  BY <1>1, <1>2, <1>3, <1>4, <1>5, <1>6, <1>7

LEMMA GetterBodyIInv ==
  ASSUME IInv, NEW g \in Getter, GetterBody(g)
  PROVE  IInv'
<1> USE DEF IInv, Shape, TypeOK, Thread, Updating, WillPush, Answering, GetterBody, Goto, history
<1>0. TypeOK'
  OBVIOUS
<1>1. Shape'
  BY <1>0
<1>2. WorkerFresh'
  BY <1>1 DEF WorkerFresh
<1>3. CacheFresh'
  BY <1>1 DEF CacheFresh
<1>4. GetterFresh'
  BY <1>1 DEF GetterFresh
<1>5. Alone'
  BY <1>1 DEF Alone
<1>6. UpdateExact'
  BY <1>1 DEF UpdateExact
<1>7. AnswerSound'
  BY <1>1 DEF AnswerSound
<1> QED
  BY <1>1, <1>2, <1>3, <1>4, <1>5, <1>6, <1>7

LEMMA StepIInv == IInv /\ [Next]_vars => IInv'
<1> SUFFICES ASSUME IInv, [Next]_vars
             PROVE  IInv'
  OBVIOUS
<1>1. CASE UNCHANGED vars
  BY <1>1 DEF vars, history, IInv, Shape, TypeOK, WorkerFresh, CacheFresh, GetterFresh, Alone,
     UpdateExact, AnswerSound
<1>2. ASSUME NEW h \in Updater, UpdaterNext(h)
      PROVE  IInv'
  BY <1>2, InsertIInv, BeginUpdateIInv, CopyFieldIInv, DeserializateIInv, RejectUpdateIInv,
     MoveFieldIInv, ClearIInv, PushTaskIInv DEF UpdaterNext
<1>3. ASSUME NEW g \in Getter, GetterNext(g)
      PROVE  IInv'
  BY <1>3, GetterBeginIInv, BuildFieldIInv, GetterAssignIInv, GetterCheckIInv, GetterLengthIInv,
     GetterBodyIInv DEF GetterNext
<1>4. CASE WorkerNext
  BY <1>4, WorkerBeginIInv, BuildFieldIInv, WorkerAssignIInv DEF WorkerNext
<1> QED
  BY <1>1, <1>2, <1>3, <1>4 DEF Next

LEMMA IInvAlways == Spec => []IInv
BY InitIInv, StepIInv, PTL DEF Spec

-------------------------------------------------------------------------------
(* The theorems *)

\* Every variable of an object and its cache keeps its type, and nothing is
\* done with an object that was not inserted.
THEOREM TypeCorrect == Spec => []TypeOK
<1>1. IInv => TypeOK
  BY DEF IInv, Shape
<1> QED  BY <1>1, IInvAlways, PTL

\* When the writes have settled the cached text of a user or location shows its
\* members, unless a getter filled it that saw one of them change.
THEOREM FreshAfterSettling == Spec => []FreshWhenSettled
<1>1. IInv => FreshWhenSettled
  BY DEF IInv, CacheFresh, FreshWhenSettled, Settled, WillPush
<1> QED  BY <1>1, IInvAlways, PTL

\* An update that meets no other one changes exactly the members its body names.
THEOREM UpdatesExact == Spec => []UncontendedUpdateExact
<1>1. IInv => UncontendedUpdateExact
  BY DEF IInv, UpdateExact, UncontendedUpdateExact
<1> QED  BY <1>1, IInvAlways, PTL

\* The answer to GET of an existing object is a 200 with a text and its length,
\* unless the text was changed while it was being sent.
THEOREM AnswersIntact == Spec => []AnswerIntact
<1>1. IInv => AnswerIntact
  BY DEF IInv, AnswerSound, AnswerIntact
<1> QED  BY <1>1, IInvAlways, PTL
===============================================================================
