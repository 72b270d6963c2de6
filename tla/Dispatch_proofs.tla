---------------------------- MODULE Dispatch_proofs ----------------------------
(***************************************************************************)
(* Theorems about Dispatch for any set of requests and any bound of the    *)
(* queue: what is stored is always whole, every answer is the one that the *)
(* request deserves, a request changes nothing but the members it gives of *)
(* the object it names, and a GET shows what the accepted writes amount to.*)
(***************************************************************************)
EXTENDS Dispatch, TLAPS

-------------------------------------------------------------------------------
(* deserializate *)

LEMMA CharsType == \A t \in Text : Chars[t] \in Nat
  BY DEF Text, Chars

LEMMA Names ==
  ASSUME NEW e \in Entity
  PROVE  /\ "id" \in DOMAIN Domain(e)
         /\ Domain(e)["id"] = Uint32
         /\ ToSet(Asked(e, FALSE)) = DOMAIN Domain(e)
         /\ ToSet(Asked(e, TRUE)) = DOMAIN Domain(e) \ {"id"}
<1>1. CASE e = "users"
  BY <1>1 DEF Domain, Asked, Members, ToSet
<1>2. CASE e = "locations"
  BY <1>2 DEF Domain, Asked, Members, ToSet
<1>3. CASE e = "visits"
  BY <1>3 DEF Domain, Asked, Members, ToSet
<1> QED  BY <1>1, <1>2, <1>3 DEF Entity

LEMMA AcceptsDomain ==
  ASSUME NEW e \in Entity, NEW m \in DOMAIN Domain(e), NEW v
  PROVE  Accepts(m, v) <=> v \in Domain(e)[m]
<1>0. /\ v \in Text /\ ~(50 <= Chars[v]) <=> v \in {t \in Text : Chars[t] < 50}
      /\ v \in Text /\ ~(100 <= Chars[v]) <=> v \in {t \in Text : Chars[t] < 100}
  BY CharsType
<1>1. CASE e = "users"
  <2>0. m \in {"id", "email", "first_name", "last_name", "gender", "birth_date"}
    BY <1>1 DEF Domain
  <2>1. CASE m = "id"
    BY <1>0, <1>1, <2>1 DEF Domain, Accepts
  <2>2. CASE m = "email"
    BY <1>0, <1>1, <2>2 DEF Domain, Accepts
  <2>3. CASE m = "first_name"
    BY <1>0, <1>1, <2>3 DEF Domain, Accepts
  <2>4. CASE m = "last_name"
    BY <1>0, <1>1, <2>4 DEF Domain, Accepts
  <2>5. CASE m = "gender"
    BY <1>0, <1>1, <2>5 DEF Domain, Accepts
  <2>6. CASE m = "birth_date"
    BY <1>0, <1>1, <2>6 DEF Domain, Accepts
  <2> QED  BY <2>0, <2>1, <2>2, <2>3, <2>4, <2>5, <2>6
<1>2. CASE e = "locations"
  <2>0. m \in {"id", "place", "country", "city", "distance"}
    BY <1>2 DEF Domain
  <2>1. CASE m = "id"
    BY <1>0, <1>2, <2>1 DEF Domain, Accepts
  <2>2. CASE m = "place"
    BY <1>0, <1>2, <2>2 DEF Domain, Accepts
  <2>3. CASE m = "country"
    BY <1>0, <1>2, <2>3 DEF Domain, Accepts
  <2>4. CASE m = "city"
    BY <1>0, <1>2, <2>4 DEF Domain, Accepts
  <2>5. CASE m = "distance"
    BY <1>0, <1>2, <2>5 DEF Domain, Accepts
  <2> QED  BY <2>0, <2>1, <2>2, <2>3, <2>4, <2>5
<1>3. CASE e = "visits"
  <2>0. m \in {"id", "location", "user", "visited_at", "mark"}
    BY <1>3 DEF Domain
  <2>1. CASE m = "id"
    BY <1>0, <1>3, <2>1 DEF Domain, Accepts
  <2>2. CASE m = "location"
    BY <1>0, <1>3, <2>2 DEF Domain, Accepts
  <2>3. CASE m = "user"
    BY <1>0, <1>3, <2>3 DEF Domain, Accepts
  <2>4. CASE m = "visited_at"
    BY <1>0, <1>3, <2>4 DEF Domain, Accepts
  <2>5. CASE m = "mark"
    BY <1>0, <1>3, <2>5 DEF Domain, Accepts
  <2> QED  BY <2>0, <2>1, <2>2, <2>3, <2>4, <2>5
<1> QED  BY <1>1, <1>2, <1>3 DEF Entity

\* What is left of deserializate when its loop is over: whether it accepts the
\* body, and if so which object comes out.
Wanted(e, update) == IF update THEN DOMAIN Domain(e) \ {"id"} ELSE DOMAIN Domain(e)
Taken(e, body, update) == [m \in Wanted(e, update) \cap DOMAIN Document(body) |-> Document(body)[m]]

THEOREM DeserializateResult ==
  ASSUME NEW e \in Entity, NEW obj, NEW body, NEW update \in BOOLEAN
  PROVE  LET result == Deserializate(e, obj, body, update)
         IN /\ result.ok <=> /\ update \/ Wanted(e, update) \subseteq DOMAIN Document(body)
                             /\ \A m \in Wanted(e, update) \cap DOMAIN Document(body) :
                                   Document(body)[m] \in Domain(e)[m]
            /\ result.ok => result.obj = Over(Taken(e, body, update), obj)
<1> DEFINE doc == Document(body)
           asked == Asked(e, update)
           Passes(m) == IF m \in DOMAIN doc THEN Accepts(m, doc[m]) ELSE update
           taken == {asked[j] : j \in {i \in DOMAIN asked : /\ asked[i] \in DOMAIN doc
                                                          /\ \A k \in 1 .. i : Passes(asked[k])}}
           result == Deserializate(e, obj, body, update)
<1>1. Wanted(e, update) = {asked[i] : i \in DOMAIN asked}
  BY Names DEF Wanted, ToSet
<1>2. result.ok <=> \A i \in DOMAIN asked : Passes(asked[i])
  BY DEF Deserializate
<1>3. result.obj = Over([m \in taken |-> doc[m]], obj)
  BY DEF Deserializate
<1>4. \A m \in Wanted(e, update) : \A v : Accepts(m, v) <=> v \in Domain(e)[m]
  BY AcceptsDomain DEF Wanted
<1>5. PICK n \in Nat : DOMAIN asked = 1 .. n
  <2>1. Asked(e, update) = IF update THEN Tail(Members(e)) ELSE Members(e)
    BY DEF Asked
  <2>2. CASE e = "users"
    <3>1. DOMAIN Members(e) = 1 .. 6 /\ DOMAIN Tail(Members(e)) = 1 .. 5
      BY <2>2 DEF Members
    <3> QED  BY <2>1, <3>1
  <2>3. CASE e \in {"locations", "visits"}
    <3>1. DOMAIN Members(e) = 1 .. 5 /\ DOMAIN Tail(Members(e)) = 1 .. 4
      BY <2>3 DEF Members
    <3> QED  BY <2>1, <3>1
  <2> QED  BY <2>2, <2>3 DEF Entity
<1> HIDE DEF asked, doc
<1>6. result.ok <=> \A m \in Wanted(e, update) : Passes(m)
  BY <1>1, <1>2
<1>7. ASSUME result.ok PROVE taken = Wanted(e, update) \cap DOMAIN doc
  <2>1. \A i \in DOMAIN asked : \A k \in 1 .. i : k \in DOMAIN asked
    BY <1>5
  <2> QED  BY <1>1, <1>2, <1>7, <2>1
<1>8. result.ok => result.obj = Over(Taken(e, body, update), obj)
  BY <1>3, <1>7 DEF Taken, doc
<1>9. result.ok <=> /\ update \/ Wanted(e, update) \subseteq DOMAIN doc
                    /\ \A m \in Wanted(e, update) \cap DOMAIN doc : doc[m] \in Domain(e)[m]
  BY <1>4, <1>6
<1> QED  BY <1>8, <1>9 DEF doc

\* The objects of an entity that TypeOK allows.
Object(e) ==
  {obj \in [DOMAIN Domain(e) -> UNION {Domain(e)[m] : m \in DOMAIN Domain(e)}] :
     \A m \in DOMAIN Domain(e) : obj[m] \in Domain(e)[m]}

\* An accepted body of a new object is that object.
LEMMA Inserted ==
  ASSUME NEW e \in Entity, NEW body, Deserializate(e, None, body, FALSE).ok
  PROVE  LET obj == Deserializate(e, None, body, FALSE).obj
         IN /\ obj \in Object(e)
            /\ obj["id"] \in Uint32 /\ obj["id"] = Document(body)["id"]
            /\ obj = Given(e, body)
<1> DEFINE obj == Deserializate(e, None, body, FALSE).obj
           doc == Document(body)
           all == DOMAIN Domain(e)
<1>1. /\ all \subseteq DOMAIN doc
      /\ \A m \in all : doc[m] \in Domain(e)[m]
      /\ obj = Over(Taken(e, body, FALSE), None)
  BY DeserializateResult DEF Wanted
<1>2. "id" \in all /\ Domain(e)["id"] = Uint32 /\ ToSet(Members(e)) = all
  BY Names DEF Asked
<1>3. obj = [m \in all |-> doc[m]]
  <2>1. Taken(e, body, FALSE) = [m \in all |-> doc[m]]
    <3>1. all \cap DOMAIN doc = all
      BY <1>1
    <3> QED  BY <3>1 DEF Taken, Wanted
  <2>2. DOMAIN None = {}
    BY DEF None
  <2>3. Over([m \in all |-> doc[m]], None) = [m \in all |-> doc[m]]
    BY <2>2 DEF Over
  <2> QED  BY <1>1, <2>1, <2>3
<1>4. obj = Given(e, body)
  BY <1>1, <1>2, <1>3 DEF Given
<1>5. obj \in Object(e)
  BY <1>1, <1>3 DEF Object
<1> QED  BY <1>1, <1>2, <1>3, <1>4, <1>5

\* An accepted update of an object is that object with the members of the body
\* over its own, all but the id.
LEMMA Updated ==
  ASSUME NEW e \in Entity, NEW body, NEW old \in Object(e),
         Deserializate(e, old, body, TRUE).ok
  PROVE  LET obj == Deserializate(e, old, body, TRUE).obj
         IN /\ obj \in Object(e) /\ obj["id"] = old["id"]
            /\ obj = Over([m \in DOMAIN Given(e, body) \ {"id"} |-> Document(body)[m]], old)
<1> DEFINE obj == Deserializate(e, old, body, TRUE).obj
           doc == Document(body)
           all == DOMAIN Domain(e)
           over == (all \ {"id"}) \cap DOMAIN doc
<1>1. /\ \A m \in over : doc[m] \in Domain(e)[m]
      /\ obj = Over(Taken(e, body, TRUE), old)
  BY DeserializateResult DEF Wanted
<1>2. "id" \in all /\ ToSet(Members(e)) = all
  BY Names DEF Asked
<1>3. Taken(e, body, TRUE) = [m \in over |-> doc[m]]
  BY DEF Taken, Wanted
<1>4. DOMAIN old = all /\ \A m \in all : old[m] \in Domain(e)[m]
  BY DEF Object
<1>5. obj = [m \in all |-> IF m \in over THEN doc[m] ELSE old[m]]
  BY <1>1, <1>3, <1>4 DEF Over
<1>6. obj \in Object(e)
  <2>1. \A m \in all : obj[m] \in Domain(e)[m]
    BY <1>1, <1>4, <1>5
  <2> HIDE DEF obj
  <2> QED  BY <1>5, <2>1 DEF Object
<1>7. DOMAIN Given(e, body) \ {"id"} = over
  BY <1>2 DEF Given
<1> QED  BY <1>1, <1>2, <1>3, <1>5, <1>6, <1>7

-------------------------------------------------------------------------------
(* The inductive invariant *)

Task == [kind : {"insert", "update"}, id : Uint32, new : Object("visits")]
UpdateOf(i, id) == m_tasks[i].kind = "update" /\ m_tasks[i].id = id

\* An object that no update overtook is what the accepted writes amount to, in
\* its task while one is queued, and there is at most one.
Faithful(id) ==
  /\ ~Queued(id) => m_objects["visits"][id] = accepted["visits"][id]
  /\ \A i \in DOMAIN m_tasks : UpdateOf(i, id) => m_tasks[i].new = accepted["visits"][id]
  /\ \A i, j \in DOMAIN m_tasks : UpdateOf(i, id) /\ UpdateOf(j, id) => i = j

Stored ==
  /\ DOMAIN m_objects = Entity /\ DOMAIN accepted = Entity
  /\ \A e \in Entity : /\ DOMAIN m_objects[e] \subseteq Uint32 \ {EmptyKey}
                        /\ DOMAIN accepted[e] = DOMAIN m_objects[e]
                        /\ \A id \in DOMAIN m_objects[e] :
                             m_objects[e][id] \in Object(e) /\ m_objects[e][id]["id"] = id

Tasks ==
  /\ m_tasks \in Seq(Task)
  /\ \A i \in DOMAIN m_tasks : /\ m_tasks[i].id \in DOMAIN m_objects["visits"]
                               /\ m_tasks[i].new["id"] = m_tasks[i].id
  /\ Len(m_tasks) <= MaxQueue
  /\ overtaken \subseteq DOMAIN m_objects["visits"]

Writes ==
  /\ \A e \in Entity \ {"visits"} : \A id \in DOMAIN m_objects[e] : m_objects[e][id] = accepted[e][id]
  /\ \A id \in DOMAIN m_objects["visits"] \ overtaken : Faithful(id)

Data == Stored /\ Tasks /\ Writes

Answer ==
  /\ req \in Request \cup {None}
  /\ status \in {0, 200, 400, 404}
  /\ alive \in BOOLEAN
  /\ status = 0 => shown = None

IInv == Data /\ Answer

\* What is left alone keeps Data.
LEMMA DataStays ==
  ASSUME Data, UNCHANGED <<m_objects, m_tasks, accepted, overtaken>>
  PROVE  Data'
BY DEF Data, Stored, Tasks, Writes, Faithful, Queued, Tasked, UpdateOf

\* A task is put at the end of the queue, and taken from its front.
LEMMA Enqueued ==
  ASSUME Data, NEW t \in Task, t.id \in DOMAIN m_objects["visits"]', t.new["id"] = t.id,
         Enqueue(t), UNCHANGED overtaken \/ overtaken' \subseteq DOMAIN m_objects["visits"],
         DOMAIN m_objects["visits"] \subseteq DOMAIN m_objects["visits"]'
  PROVE  /\ Len(m_tasks) \in Nat
         /\ DOMAIN m_tasks' = DOMAIN m_tasks \cup {Len(m_tasks) + 1}
         /\ Len(m_tasks) + 1 \notin DOMAIN m_tasks
         /\ m_tasks'[Len(m_tasks) + 1] = t
         /\ \A i \in DOMAIN m_tasks : m_tasks'[i] = m_tasks[i]
         /\ Tasks'
<1>1. /\ m_tasks \in Seq(Task) /\ Len(m_tasks) \in Nat /\ Len(m_tasks) < MaxQueue
      /\ m_tasks' = Append(m_tasks, t)
  BY DEF Data, Tasks, Enqueue
<1>2. /\ m_tasks' \in Seq(Task)
      /\ Len(m_tasks') = Len(m_tasks) + 1
      /\ DOMAIN m_tasks' = DOMAIN m_tasks \cup {Len(m_tasks) + 1}
      /\ Len(m_tasks) + 1 \notin DOMAIN m_tasks
      /\ m_tasks'[Len(m_tasks) + 1] = t
      /\ \A i \in DOMAIN m_tasks : m_tasks'[i] = m_tasks[i]
  BY <1>1
<1>3. \A i \in DOMAIN m_tasks' : /\ m_tasks'[i].id \in DOMAIN m_objects["visits"]'
                                /\ m_tasks'[i].new["id"] = m_tasks'[i].id
  BY <1>2 DEF Data, Tasks
<1>4. Len(m_tasks') <= MaxQueue
  BY <1>1, <1>2, MaxQueueOK
<1>5. overtaken' \subseteq DOMAIN m_objects["visits"]'
  BY DEF Data, Tasks
<1> QED  BY <1>1, <1>2, <1>3, <1>4, <1>5 DEF Tasks

LEMMA Dequeued ==
  ASSUME Data, m_tasks # <<>>, m_tasks' = Tail(m_tasks), UNCHANGED overtaken,
         DOMAIN m_objects["visits"]' = DOMAIN m_objects["visits"]
  PROVE  /\ 1 \in DOMAIN m_tasks /\ Head(m_tasks) = m_tasks[1] /\ Head(m_tasks) \in Task
         /\ \A i \in DOMAIN m_tasks' : /\ i \in Int /\ i + 1 \in DOMAIN m_tasks /\ i + 1 # 1
                                       /\ m_tasks'[i] = m_tasks[i + 1]
         /\ \A i \in DOMAIN m_tasks : i # 1 => i - 1 \in DOMAIN m_tasks' /\ m_tasks'[i - 1] = m_tasks[i]
         /\ Tasks'
<1>1. /\ m_tasks \in Seq(Task) /\ Len(m_tasks) \in Nat
      /\ 1 \in DOMAIN m_tasks /\ Head(m_tasks) = m_tasks[1] /\ Head(m_tasks) \in Task
  BY DEF Data, Tasks
<1>2. /\ m_tasks' \in Seq(Task)
      /\ Len(m_tasks') = Len(m_tasks) - 1
      /\ \A i \in DOMAIN m_tasks' : /\ i \in Int /\ i + 1 \in DOMAIN m_tasks /\ i + 1 # 1
                                    /\ m_tasks'[i] = m_tasks[i + 1]
      /\ \A i \in DOMAIN m_tasks : i # 1 => i - 1 \in DOMAIN m_tasks' /\ m_tasks'[i - 1] = m_tasks[i]
  BY <1>1
<1>3. \A i \in DOMAIN m_tasks' : /\ m_tasks'[i].id \in DOMAIN m_objects["visits"]'
                                /\ m_tasks'[i].new["id"] = m_tasks'[i].id
  BY <1>2 DEF Data, Tasks
<1>4. Len(m_tasks') <= MaxQueue
  BY <1>1, <1>2, MaxQueueOK DEF Data, Tasks
<1> QED  BY <1>1, <1>2, <1>3, <1>4 DEF Data, Tasks

LEMMA IInvTypes == IInv => TypeOK
<1> SUFFICES ASSUME IInv PROVE TypeOK
  OBVIOUS
<1>1. \A e \in Entity : \A id \in DOMAIN m_objects[e] :
        /\ DOMAIN m_objects[e][id] = DOMAIN Domain(e)
        /\ \A m \in DOMAIN m_objects[e][id] : m_objects[e][id][m] \in Domain(e)[m]
        /\ m_objects[e][id].id = id /\ id # EmptyKey
  BY DEF IInv, Data, Stored, Object
<1> QED  BY <1>1 DEF IInv, Data, Stored, Tasks, Answer, TypeOK

\* A new object is stored under an id that no object has and no task names; a
\* visit is queued as well.
LEMMA InsertData ==
  ASSUME Data, NEW e \in Entity, NEW obj \in Object(e), NEW id \in Uint32 \ {EmptyKey},
         obj["id"] = id, id \notin DOMAIN m_objects[e],
         m_objects' = [m_objects EXCEPT ![e] = Over([i \in {id} |-> obj], @)],
         accepted' = [accepted EXCEPT ![e] = Over([i \in {id} |-> obj], @)],
         IF e = "visits" THEN Enqueue([kind |-> "insert", id |-> id, new |-> obj])
                         ELSE UNCHANGED m_tasks,
         UNCHANGED overtaken
  PROVE  Data'
<1>1. /\ DOMAIN m_objects' = Entity /\ DOMAIN accepted' = Entity
      /\ \A f \in Entity \ {e} : m_objects'[f] = m_objects[f] /\ accepted'[f] = accepted[f]
      /\ m_objects'[e] = Over([i \in {id} |-> obj], m_objects[e])
      /\ accepted'[e] = Over([i \in {id} |-> obj], accepted[e])
  BY DEF Data, Stored
<1>2. /\ DOMAIN m_objects'[e] = DOMAIN m_objects[e] \cup {id}
      /\ DOMAIN accepted'[e] = DOMAIN accepted[e] \cup {id}
      /\ m_objects'[e][id] = obj /\ accepted'[e][id] = obj
      /\ \A i \in DOMAIN m_objects[e] :
           m_objects'[e][i] = m_objects[e][i] /\ accepted'[e][i] = accepted[e][i]
  BY <1>1 DEF Data, Stored, Over
<1>3. Stored'
  <2>1. ASSUME NEW f \in Entity
        PROVE  /\ DOMAIN m_objects'[f] \subseteq Uint32 \ {EmptyKey}
               /\ DOMAIN accepted'[f] = DOMAIN m_objects'[f]
               /\ \A i \in DOMAIN m_objects'[f] :
                    m_objects'[f][i] \in Object(f) /\ m_objects'[f][i]["id"] = i
    <3>1. CASE f = e
      <4>1. DOMAIN m_objects[e] \subseteq Uint32 \ {EmptyKey} /\ DOMAIN accepted[e] = DOMAIN m_objects[e]
        BY DEF Data, Stored
      <4>2. \A i \in DOMAIN m_objects[e] : m_objects[e][i] \in Object(e) /\ m_objects[e][i]["id"] = i
        BY DEF Data, Stored
      <4> QED  BY <1>2, <3>1, <4>1, <4>2
    <3>2. CASE f # e
      BY <1>1, <3>2 DEF Data, Stored
    <3> QED  BY <3>1, <3>2
  <2> QED  BY <1>1, <2>1 DEF Stored
<1>4. /\ Tasks' /\ DOMAIN m_tasks \subseteq DOMAIN m_tasks'
      /\ \A i \in DOMAIN m_tasks : m_tasks'[i] = m_tasks[i]
      /\ \A i \in DOMAIN m_tasks' : m_tasks'[i].kind = "update" => i \in DOMAIN m_tasks
  <2>1. CASE e = "visits"
    <3>1. [kind |-> "insert", id |-> id, new |-> obj] \in Task
      BY <2>1 DEF Task
    <3>2. PICK t \in Task : t = [kind |-> "insert", id |-> id, new |-> obj]
      BY <3>1
    <3>3. Enqueue(t) /\ t.kind = "insert" /\ t.id = id /\ t.new = obj
      BY <2>1, <3>2
    <3>4. id \in DOMAIN m_objects["visits"]' /\ DOMAIN m_objects["visits"] \subseteq DOMAIN m_objects["visits"]'
      BY <1>2, <2>1
    <3>5. /\ DOMAIN m_tasks' = DOMAIN m_tasks \cup {Len(m_tasks) + 1}
          /\ m_tasks'[Len(m_tasks) + 1] = t
          /\ \A i \in DOMAIN m_tasks : m_tasks'[i] = m_tasks[i]
          /\ Tasks'
      BY <3>3, <3>4, Enqueued
    <3> QED  BY <3>3, <3>5
  <2>2. CASE e # "visits"
    BY <1>1, <2>2 DEF Data, Tasks, Entity
  <2> QED  BY <2>1, <2>2
<1>5. Writes'
  <2>1. ASSUME NEW f \in Entity \ {"visits"}, NEW i \in DOMAIN m_objects'[f]
        PROVE  m_objects'[f][i] = accepted'[f][i]
    BY <1>1, <1>2, <2>1 DEF Data, Writes, Stored
  <2>2. ASSUME NEW i \in DOMAIN m_objects'["visits"] \ overtaken' PROVE Faithful(i)'
    <3>0. \A k \in DOMAIN m_tasks' : UpdateOf(k, i)' => k \in DOMAIN m_tasks /\ UpdateOf(k, i)
      BY <1>4 DEF UpdateOf
    <3>1. CASE e = "visits" /\ i = id
      <4>1. \A k \in DOMAIN m_tasks : m_tasks[k].id # id
        BY <3>1 DEF Data, Tasks
      <4>2. \A k \in DOMAIN m_tasks' : ~UpdateOf(k, i)'
        BY <3>0, <3>1, <4>1 DEF UpdateOf
      <4> QED  BY <1>2, <3>1, <4>2 DEF Faithful
    <3>2. CASE ~(e = "visits" /\ i = id)
      <4>1. /\ i \in DOMAIN m_objects["visits"] \ overtaken
            /\ m_objects'["visits"][i] = m_objects["visits"][i]
            /\ accepted'["visits"][i] = accepted["visits"][i]
        BY <1>1, <1>2, <2>2, <3>2 DEF Entity
      <4>2. Faithful(i)
        BY <4>1 DEF Data, Writes
      <4>3. Queued(i) => Queued(i)'
        BY <1>4 DEF Queued, Tasked
      <4> QED  BY <1>4, <3>0, <4>1, <4>2, <4>3 DEF Faithful
    <3> QED  BY <3>1, <3>2
  <2> QED  BY <2>1, <2>2 DEF Writes
<1> QED  BY <1>3, <1>4, <1>5 DEF Data

\* An update of a user or a location is done at once.
LEMMA UpdateData ==
  ASSUME Data, NEW e \in Entity \ {"visits"}, NEW id \in DOMAIN m_objects[e],
         NEW obj \in Object(e), obj["id"] = id,
         m_objects' = [m_objects EXCEPT ![e][id] = obj],
         accepted' = [accepted EXCEPT ![e][id] = obj],
         UNCHANGED <<m_tasks, overtaken>>
  PROVE  Data'
<1>1. /\ DOMAIN m_objects' = Entity /\ DOMAIN accepted' = Entity
      /\ \A f \in Entity \ {e} : m_objects'[f] = m_objects[f] /\ accepted'[f] = accepted[f]
      /\ m_objects'[e] = [m_objects[e] EXCEPT ![id] = obj]
      /\ accepted'[e] = [accepted[e] EXCEPT ![id] = obj]
  BY DEF Data, Stored
<1>2. /\ DOMAIN m_objects'[e] = DOMAIN m_objects[e]
      /\ DOMAIN accepted'[e] = DOMAIN accepted[e]
      /\ m_objects'[e][id] = obj /\ accepted'[e][id] = obj
      /\ \A i \in DOMAIN m_objects[e] \ {id} :
           m_objects'[e][i] = m_objects[e][i] /\ accepted'[e][i] = accepted[e][i]
  BY <1>1 DEF Data, Stored
<1>3. m_objects'["visits"] = m_objects["visits"] /\ accepted'["visits"] = accepted["visits"]
  BY <1>1 DEF Entity
<1>4. Stored'
  <2>1. ASSUME NEW f \in Entity
        PROVE  /\ DOMAIN m_objects'[f] \subseteq Uint32 \ {EmptyKey}
               /\ DOMAIN accepted'[f] = DOMAIN m_objects'[f]
               /\ \A i \in DOMAIN m_objects'[f] :
                    m_objects'[f][i] \in Object(f) /\ m_objects'[f][i]["id"] = i
    <3>1. CASE f = e
      BY <1>2, <3>1 DEF Data, Stored
    <3>2. CASE f # e
      BY <1>1, <3>2 DEF Data, Stored
    <3> QED  BY <3>1, <3>2
  <2> QED  BY <1>1, <2>1 DEF Stored
<1>5. Tasks'
  BY <1>3 DEF Data, Tasks
<1>6. Writes'
  <2>1. ASSUME NEW f \in Entity \ {"visits"}, NEW i \in DOMAIN m_objects'[f]
        PROVE  m_objects'[f][i] = accepted'[f][i]
    BY <1>1, <1>2, <2>1 DEF Data, Writes, Stored
  <2>2. \A i \in DOMAIN m_objects'["visits"] \ overtaken' : Faithful(i)'
    BY <1>3 DEF Data, Writes, Faithful, Queued, Tasked, UpdateOf
  <2> QED  BY <2>1, <2>2 DEF Writes
<1> QED  BY <1>4, <1>5, <1>6 DEF Data

\* An update of a visit is queued; while another one is, it overtakes.
LEMMA QueueData ==
  ASSUME Data, NEW id \in DOMAIN m_objects["visits"],
         NEW given, NEW obj \in Object("visits"), obj["id"] = id,
         obj = Over(given, m_objects["visits"][id]),
         Enqueue([kind |-> "update", id |-> id, new |-> obj]),
         overtaken' = IF Queued(id) THEN overtaken \cup {id} ELSE overtaken,
         accepted' = [accepted EXCEPT !["visits"][id] = Over(given, @)],
         UNCHANGED m_objects
  PROVE  Data'
<1>1. /\ DOMAIN accepted' = Entity
      /\ \A f \in Entity \ {"visits"} : accepted'[f] = accepted[f]
      /\ DOMAIN accepted'["visits"] = DOMAIN accepted["visits"]
      /\ accepted'["visits"][id] = Over(given, accepted["visits"][id])
      /\ \A i \in DOMAIN accepted["visits"] \ {id} : accepted'["visits"][i] = accepted["visits"][i]
  BY DEF Data, Stored, Entity
<1>2. [kind |-> "update", id |-> id, new |-> obj] \in Task
  BY DEF Data, Stored, Task, Entity
<1>3. PICK t \in Task : t = [kind |-> "update", id |-> id, new |-> obj]
  BY <1>2
<1>4. Enqueue(t) /\ t.kind = "update" /\ t.id = id /\ t.new = obj
  BY <1>3
<1>5. Stored'
  BY <1>1 DEF Data, Stored
<1>6. /\ DOMAIN m_tasks' = DOMAIN m_tasks \cup {Len(m_tasks) + 1}
      /\ Len(m_tasks) + 1 \notin DOMAIN m_tasks
      /\ m_tasks'[Len(m_tasks) + 1] = t
      /\ \A i \in DOMAIN m_tasks : m_tasks'[i] = m_tasks[i]
      /\ Tasks'
  <2>1. overtaken' \subseteq DOMAIN m_objects["visits"]
    BY DEF Data, Tasks
  <2> QED  BY <1>4, <2>1, Enqueued
<1>7. Writes'
  <2>1. \A f \in Entity \ {"visits"} : \A i \in DOMAIN m_objects'[f] : m_objects'[f][i] = accepted'[f][i]
    BY <1>1 DEF Data, Writes
  <2>2. ASSUME NEW i \in DOMAIN m_objects'["visits"] \ overtaken' PROVE Faithful(i)'
    <3>1. i \in DOMAIN m_objects["visits"] \ overtaken /\ Faithful(i) /\ i \in DOMAIN accepted["visits"]
      BY <2>2 DEF Data, Writes, Stored, Entity
    <3>2. CASE i = id
      <4>1. ~Queued(id) /\ accepted'["visits"][id] = obj
        BY <1>1, <2>2, <3>1, <3>2 DEF Faithful
      <4>2. \A k \in DOMAIN m_tasks' : UpdateOf(k, id)' <=> k = Len(m_tasks) + 1
        BY <1>4, <1>6, <4>1 DEF Queued, Tasked, UpdateOf
      <4>3. Queued(id)'
        BY <1>6, <4>2 DEF Queued, Tasked, UpdateOf
      <4> QED  BY <1>4, <1>6, <3>2, <4>1, <4>2, <4>3 DEF Faithful
    <3>3. CASE i # id
      <4>1. accepted'["visits"][i] = accepted["visits"][i]
        BY <1>1, <3>1, <3>3
      <4>2. \A k \in DOMAIN m_tasks' : UpdateOf(k, i)' => k \in DOMAIN m_tasks /\ UpdateOf(k, i)
        BY <1>4, <1>6, <3>3 DEF UpdateOf
      <4>3. Queued(i) => Queued(i)'
        BY <1>6 DEF Queued, Tasked
      <4> QED  BY <1>6, <3>1, <4>1, <4>2, <4>3 DEF Faithful
    <3> QED  BY <3>2, <3>3
  <2> QED  BY <2>1, <2>2 DEF Writes
<1> QED  BY <1>5, <1>6, <1>7 DEF Data

\* The background thread stores the object of the first task, if it is an update.
LEMMA ServeUpdateData ==
  ASSUME Data, ServeUpdate
  PROVE  Data'
<1> DEFINE h == Head(m_tasks)
<1>1. /\ 1 \in DOMAIN m_tasks /\ h = m_tasks[1] /\ h \in Task /\ h.kind = "update"
      /\ h.id \in DOMAIN m_objects["visits"] /\ h.new["id"] = h.id /\ h.new \in Object("visits")
  <2>1. m_tasks \in Seq(Task) /\ m_tasks # <<>> /\ h.kind = "update"
    BY DEF Data, Tasks, ServeUpdate
  <2>2. 1 \in DOMAIN m_tasks /\ h = m_tasks[1] /\ h \in Task
    BY <2>1
  <2> QED  BY <2>1, <2>2 DEF Data, Tasks, Task
<1>2. /\ DOMAIN m_objects' = Entity
      /\ \A f \in Entity \ {"visits"} : m_objects'[f] = m_objects[f]
      /\ DOMAIN m_objects'["visits"] = DOMAIN m_objects["visits"]
      /\ m_objects'["visits"][h.id] = h.new
      /\ \A i \in DOMAIN m_objects["visits"] \ {h.id} : m_objects'["visits"][i] = m_objects["visits"][i]
      /\ UNCHANGED <<accepted, overtaken>>
  BY <1>1 DEF Data, Stored, ServeUpdate, Entity
<1>3. /\ \A i \in DOMAIN m_tasks' : /\ i \in Int /\ i + 1 \in DOMAIN m_tasks /\ i + 1 # 1
                                    /\ m_tasks'[i] = m_tasks[i + 1]
      /\ \A i \in DOMAIN m_tasks : i # 1 => i - 1 \in DOMAIN m_tasks' /\ m_tasks'[i - 1] = m_tasks[i]
      /\ Tasks'
  BY <1>2, Dequeued DEF ServeUpdate
<1> HIDE DEF h
<1>4. Stored'
  <2>1. ASSUME NEW f \in Entity
        PROVE  /\ DOMAIN m_objects'[f] \subseteq Uint32 \ {EmptyKey}
               /\ DOMAIN accepted'[f] = DOMAIN m_objects'[f]
               /\ \A i \in DOMAIN m_objects'[f] :
                    m_objects'[f][i] \in Object(f) /\ m_objects'[f][i]["id"] = i
    <3>1. CASE f = "visits"
      BY <1>1, <1>2, <3>1 DEF Data, Stored
    <3>2. CASE f # "visits"
      BY <1>2, <3>2 DEF Data, Stored
    <3> QED  BY <3>1, <3>2
  <2> QED  BY <1>2, <2>1 DEF Data, Stored
<1>5. Writes'
  <2>1. \A f \in Entity \ {"visits"} : \A i \in DOMAIN m_objects'[f] : m_objects'[f][i] = accepted'[f][i]
    BY <1>2 DEF Data, Writes
  <2>2. ASSUME NEW i \in DOMAIN m_objects'["visits"] \ overtaken' PROVE Faithful(i)'
    <3>1. Faithful(i) /\ i \in DOMAIN m_objects["visits"]
      BY <1>2, <2>2 DEF Data, Writes
    <3>2. /\ \A k \in DOMAIN m_tasks' : UpdateOf(k, i)' <=> UpdateOf(k + 1, i)
          /\ UpdateOf(1, i) <=> i = h.id
      BY <1>1, <1>3 DEF UpdateOf
    <3>3. ~Queued(i)' => m_objects'["visits"][i] = accepted'["visits"][i]
      <4>1. CASE i = h.id
        <5>1. m_tasks[1].new = accepted["visits"][i]
          BY <1>1, <3>1, <3>2, <4>1 DEF Faithful
        <5> QED  BY <1>1, <1>2, <4>1, <5>1
      <4>2. CASE i # h.id
        <5>1. Queued(i) => Queued(i)'
          BY <1>1, <1>3, <4>2 DEF Queued, Tasked
        <5> QED  BY <1>2, <3>1, <4>2, <5>1 DEF Faithful
      <4> QED  BY <4>1, <4>2
    <3>4. \A k \in DOMAIN m_tasks' : UpdateOf(k, i)' => m_tasks'[k].new = accepted'["visits"][i]
      BY <1>2, <1>3, <3>1, <3>2 DEF Faithful
    <3>5. \A k, l \in DOMAIN m_tasks' : UpdateOf(k, i)' /\ UpdateOf(l, i)' => k = l
      BY <1>3, <3>1, <3>2 DEF Faithful
    <3> QED  BY <3>3, <3>4, <3>5 DEF Faithful
  <2> QED  BY <2>1, <2>2 DEF Writes
<1> QED  BY <1>3, <1>4, <1>5 DEF Data

\* An insertion only leaves the queue.
LEMMA ServeInsertionData ==
  ASSUME Data, ServeInsertion
  PROVE  Data'
<1>1. Head(m_tasks).kind = "insert" /\ UNCHANGED <<m_objects, accepted, overtaken>>
  BY DEF ServeInsertion
<1>2. /\ 1 \in DOMAIN m_tasks /\ Head(m_tasks) = m_tasks[1]
      /\ \A i \in DOMAIN m_tasks' : /\ i \in Int /\ i + 1 \in DOMAIN m_tasks /\ i + 1 # 1
                                    /\ m_tasks'[i] = m_tasks[i + 1]
      /\ \A i \in DOMAIN m_tasks : i # 1 => i - 1 \in DOMAIN m_tasks' /\ m_tasks'[i - 1] = m_tasks[i]
      /\ Tasks'
  BY <1>1, Dequeued DEF ServeInsertion
<1>3. Stored'
  BY <1>1 DEF Data, Stored
<1>4. ASSUME NEW i \in DOMAIN m_objects["visits"] \ overtaken PROVE Faithful(i)'
  <2>1. Faithful(i)
    BY DEF Data, Writes
  <2>2. \A k \in DOMAIN m_tasks' : UpdateOf(k, i)' <=> UpdateOf(k + 1, i)
    BY <1>2 DEF UpdateOf
  <2>3. Queued(i) => Queued(i)'
    <3>1. m_tasks[1].kind # "update"
      BY <1>1, <1>2
    <3> QED  BY <1>2, <3>1 DEF Queued, Tasked
  <2>4. \A k, l \in DOMAIN m_tasks' : UpdateOf(k, i)' /\ UpdateOf(l, i)' => k = l
    BY <1>2, <2>1, <2>2 DEF Faithful
  <2>5. \A k \in DOMAIN m_tasks' : UpdateOf(k, i)' => m_tasks'[k].new = accepted'["visits"][i]
    BY <1>1, <1>2, <2>1, <2>2 DEF Faithful
  <2> QED  BY <1>1, <2>1, <2>3, <2>4, <2>5 DEF Faithful
<1>5. Writes'
  BY <1>1, <1>4 DEF Data, Writes
<1> QED  BY <1>2, <1>3, <1>5 DEF Data

-------------------------------------------------------------------------------
(* The steps *)

\* What is known of a request while it is handled.
LEMMA Handled ==
  ASSUME IInv, Handling
  PROVE  /\ req \in Request /\ status = 0
         /\ Len(req.path) \in Nat
         /\ req.body.kind \in {"none", "unparsable", "value", "object"}
<1>1. req \in Request /\ status = 0
  BY DEF IInv, Answer, Handling
<1> QED  BY <1>1, RequestOK

LEMMA EmptyIsAlone == Empty # "visits" /\ Empty # "avg" /\ Empty # "other"
BY Zenon DEF Empty

LEMMA NewIsNotEmpty == Empty # "new"
BY Zenon DEF Empty

LEMMA FuncParts ==
  ASSUME Len(req.path) \in Nat, Len(req.path) >= 3
  PROVE  /\ Func = Empty <=> (Len(req.path) = 3 \/ (Len(req.path) = 4 /\ req.path[4] = Empty))
         /\ Func = "visits" <=> (Len(req.path) = 4 /\ req.path[4] = "visits")
         /\ Func = "avg" <=> (Len(req.path) = 4 /\ req.path[4] = "avg")
<1>1. ASSUME NEW n \in Nat, n >= 3, NEW last, NEW f,
             f = IF n < 4 THEN Empty ELSE IF n = 4 THEN last ELSE "other"
      PROVE  /\ f = Empty <=> (n = 3 \/ (n = 4 /\ last = Empty))
             /\ f = "visits" <=> (n = 4 /\ last = "visits")
             /\ f = "avg" <=> (n = 4 /\ last = "avg")
  BY <1>1, EmptyIsAlone
<1> QED  BY <1>1 DEF Func

\* Only ids of the texts for numbers are stored.
LEMMA NewIsNoId ==
  ASSUME IInv
  PROVE  \A e \in Entity : "new" \notin DOMAIN m_objects[e]
<1>1. "new" \notin Uint32
  BY DEF Uint32
<1> QED  BY <1>1 DEF IInv, Data, Stored

LEMMA InsertKeeps ==
  ASSUME IInv, Insert
  PROVE  Data'
<1> DEFINE e == Name
           new == Deserializate(e, None, req.body, FALSE)
           id == new.obj["id"]
<1>1. CASE e \in Entity /\ new.ok /\ id \notin DOMAIN m_objects[e]
  <2>1. /\ new.obj \in Object(e) /\ id \in Uint32 /\ new.obj = Given(e, req.body)
    BY <1>1, Inserted
  <2>2. /\ m_objects' = [m_objects EXCEPT ![e] = Over([i \in {id} |-> new.obj], @)]
        /\ accepted' = [accepted EXCEPT ![e] = Over([i \in {id} |-> new.obj], @)]
        /\ IF e = "visits" THEN Enqueue([kind |-> "insert", id |-> id, new |-> new.obj])
                          ELSE UNCHANGED m_tasks
        /\ UNCHANGED overtaken /\ id # EmptyKey
    BY <1>1, <2>1 DEF Insert
  <2> HIDE DEF e, new
  <2> QED  BY <1>1, <2>1, <2>2, InsertData DEF IInv
<1>2. CASE ~(e \in Entity /\ new.ok /\ id \notin DOMAIN m_objects[e])
  <2>1. UNCHANGED <<m_objects, m_tasks, accepted, overtaken>>
    BY <1>2 DEF Insert
  <2> QED  BY <2>1, DataStays DEF IInv
<1> QED  BY <1>1, <1>2

LEMMA AcceptUpdateKeeps ==
  ASSUME IInv, AcceptUpdate
  PROVE  Data'
<1> DEFINE e == Name
           id == IdText
           old == m_objects[e][id]
           copy == Deserializate(e, old, req.body, TRUE)
           given == [m \in DOMAIN Given(e, req.body) \ {"id"} |-> Document(req.body)[m]]
<1>1. e \in Entity /\ id \in DOMAIN m_objects[e] /\ copy.ok
  <2>1. Found /\ copy.ok
    BY DEF AcceptUpdate
  <2> HIDE DEF copy
  <2> QED  BY <2>1 DEF Found
<1>2. old \in Object(e) /\ old["id"] = id
  <2> HIDE DEF copy
  <2> QED  BY <1>1 DEF IInv, Data, Stored
<1>3. copy.obj \in Object(e) /\ copy.obj["id"] = id /\ copy.obj = Over(given, old)
  <2> HIDE DEF e, id, old
  <2> QED  BY <1>1, <1>2, Updated
<1>4. accepted' = [accepted EXCEPT ![e][id] = Over(given, @)]
  BY DEF AcceptUpdate
<1>5. CASE e = "visits"
  <2>1. /\ Enqueue([kind |-> "update", id |-> id, new |-> copy.obj])
        /\ overtaken' = IF Queued(id) THEN overtaken \cup {id} ELSE overtaken
        /\ UNCHANGED m_objects
    BY <1>5 DEF AcceptUpdate
  <2> HIDE DEF e, id, copy, given
  <2> QED  BY <1>1, <1>3, <1>4, <1>5, <2>1, QueueData DEF IInv
<1>6. CASE e # "visits"
  <2>1. m_objects' = [m_objects EXCEPT ![e][id] = copy.obj] /\ UNCHANGED <<m_tasks, overtaken>>
    BY <1>6 DEF AcceptUpdate
  <2>2. accepted[e][id] = old
    BY <1>1, <1>6 DEF IInv, Data, Writes
  <2> HIDE DEF e, id, copy, given
  <2>3. accepted' = [accepted EXCEPT ![e][id] = copy.obj]
    BY <1>3, <1>4, <2>2
  <2> QED  BY <1>1, <1>3, <1>6, <2>1, <2>3, UpdateData DEF IInv
<1> QED  BY <1>5, <1>6

\* All other actions leave the data alone.
LEMMA OthersKeep ==
  ASSUME IInv,
         \/ \E r \in Request : Receive(r)
         \/ BadRequest \/ GetObject \/ GetVisits \/ GetMark \/ OtherGet
         \/ BadPost \/ Throws \/ InsertsEmptyKey \/ RejectUpdate
         \/ ServeEnds \/ Finish \/ UNCHANGED vars
  PROVE  UNCHANGED <<m_objects, m_tasks, accepted, overtaken>>
BY DEF Receive, BadRequest, GetObject, GetVisits, GetMark, Listing, OtherGet, BadPost, Throws,
       InsertsEmptyKey, RejectUpdate, ServeEnds, Finish, Stays, vars

LEMMA StepData ==
  ASSUME IInv, [Next]_vars
  PROVE  Data'
<1>1. CASE Insert
  BY <1>1, InsertKeeps
<1>2. CASE AcceptUpdate
  BY <1>2, AcceptUpdateKeeps
<1>3. CASE ServeUpdate \/ ServeInsertion
  BY <1>3, ServeUpdateData, ServeInsertionData DEF IInv
<1>4. CASE ~Insert /\ ~AcceptUpdate /\ ~ServeUpdate /\ ~ServeInsertion
  <2>1. UNCHANGED <<m_objects, m_tasks, accepted, overtaken>>
    BY <1>4, OthersKeep DEF Next, Handle, Serve
  <2> QED  BY <2>1, DataStays DEF IInv
<1> QED  BY <1>1, <1>2, <1>3, <1>4

LEMMA StepAnswer ==
  ASSUME IInv, [Next]_vars
  PROVE  Answer'
<1>1. CASE \E r \in Request : Receive(r)
  BY <1>1 DEF Receive, IInv, Answer
<1>2. CASE Finish
  BY <1>2 DEF Finish, IInv, Answer
<1>3. CASE Serve \/ Throws \/ InsertsEmptyKey
  <2>1. UNCHANGED <<req, status, shown>> /\ alive' \in {alive, FALSE}
    BY <1>3 DEF Serve, ServeInsertion, ServeUpdate, ServeEnds, Throws, InsertsEmptyKey
  <2> QED  BY <2>1 DEF IInv, Answer
<1>4. CASE UNCHANGED vars
  BY <1>4 DEF vars, IInv, Answer
<1>5. ASSUME status' \in {200, 400, 404}, UNCHANGED <<req, alive>> PROVE Answer'
  BY <1>5 DEF IInv, Answer
<1>6. CASE BadRequest \/ OtherGet \/ BadPost
  BY <1>5, <1>6 DEF BadRequest, OtherGet, BadPost, Send, Stays
<1>7. CASE GetObject \/ GetVisits \/ GetMark
  BY <1>5, <1>7 DEF GetObject, GetVisits, GetMark, Listing, Send, Stays
<1>8. CASE Insert \/ AcceptUpdate \/ RejectUpdate
  BY <1>5, <1>8 DEF Insert, AcceptUpdate, RejectUpdate, Send, Stays
<1> QED
  BY <1>1, <1>2, <1>3, <1>4, <1>6, <1>7, <1>8 DEF Next, Handle

LEMMA InitIInv == Init => IInv
<1> SUFFICES ASSUME Init PROVE IInv
  OBVIOUS
<1>1. DOMAIN None = {} /\ m_tasks = <<>> /\ m_tasks \in Seq(Task)
  BY DEF None, Init
<1>2. Stored
  BY <1>1 DEF Init, Stored
<1>3. Tasks
  BY <1>1, MaxQueueOK DEF Init, Tasks
<1>4. Writes
  BY <1>1, <1>2 DEF Init, Writes, Entity
<1> QED  BY <1>2, <1>3, <1>4 DEF Init, IInv, Data, Answer

THEOREM Inductive == Spec => []IInv
<1>1. IInv /\ [Next]_vars => IInv'
  BY StepData, StepAnswer DEF IInv
<1> QED  BY <1>1, InitIInv, PTL DEF Spec

\* Whatever is posted, every stored object has all its members, each within its
\* limits, and lies under its own id, for any requests and any bound of the queue.
THEOREM TypeCorrect == Spec => []TypeOK
BY Inductive, IInvTypes, PTL

-------------------------------------------------------------------------------
(* What a step may do *)

\* Where the table of answers sends a request to the lookup, in terms of handle.
LEMMA AddressesIs ==
  ASSUME Len(req.path) \in Nat
  PROVE  Addresses(req) <=>
           /\ Name \in Entity /\ IdOK
           /\ \/ /\ Len(req.path) = 3 \/ (Len(req.path) = 4 /\ req.path[4] = Empty)
                 /\ req.method = "GET" \/ (req.method = "POST" /\ req.body.kind # "none")
              \/ /\ req.method = "GET" /\ Len(req.path) = 4
                 /\ \/ req.path[4] = "visits" /\ Name = "users" /\ VisitsParamsOK
                    \/ req.path[4] = "avg" /\ Name = "locations" /\ MarkParamsOK
<1>1. CASE Len(req.path) = 3
  BY <1>1, EmptyIsAlone DEF Addresses, Name, IdOK, IdText
<1>2. CASE Len(req.path) = 4
  BY <1>2, EmptyIsAlone DEF Addresses, Name, IdOK, IdText, VisitsParamsOK, MarkParamsOK, Param
<1>3. CASE Len(req.path) \notin {3, 4}
  BY <1>3 DEF Addresses
<1> QED  BY <1>1, <1>2, <1>3

LEMMA BadRequestAnswers ==
  ASSUME IInv, BadRequest
  PROVE  AnswersAsExpected
<1>1. status = 0 /\ status' = 400 /\ alive' = alive /\ Len(req.path) \in Nat
  BY Handled DEF BadRequest, Send, Stays
<1>2. Len(req.path) < 3 \/ req.method \notin {"GET", "POST"}
  BY DEF BadRequest
<1>3. ~Creates(req) /\ ~Fatal(req) /\ ~Addresses(req) /\ ~NoSuchName(req)
  BY <1>1, <1>2, AddressesIs DEF Creates, OffersNew, Fatal, FatalBody, NoSuchName, Bare
<1> QED  BY <1>1, <1>3 DEF AnswersAsExpected, ExpectedStatus

LEMMA GetObjectAnswers ==
  ASSUME IInv, GetObject
  PROVE  AnswersAsExpected
<1>1. /\ status = 0 /\ alive' = alive /\ req.method = "GET"
      /\ Len(req.path) \in Nat /\ Len(req.path) >= 3
      /\ status' = IF IdOK /\ Found THEN 200 ELSE 404
  BY Handled DEF GetObject, Routed, Send, Stays
<1>2. Bare(req)
  BY <1>1, FuncParts DEF GetObject, Bare
<1>3. Addresses(req) <=> Name \in Entity /\ IdOK
  BY <1>1, <1>2, AddressesIs DEF Bare
<1>4. ~Creates(req) /\ ~Fatal(req) /\ (NoSuchName(req) <=> ~Addresses(req))
  BY <1>1, <1>2 DEF Creates, OffersNew, Fatal, FatalBody, NoSuchName
<1>5. Found <=> Name \in Entity /\ Exists(req)
  BY DEF Found, Exists, Name, IdText
<1> QED  BY <1>1, <1>3, <1>4, <1>5 DEF AnswersAsExpected, ExpectedStatus

LEMMA ListingAnswers ==
  ASSUME IInv, GetVisits \/ GetMark
  PROVE  AnswersAsExpected
<1>1. /\ status = 0 /\ alive' = alive /\ req.method = "GET"
      /\ Len(req.path) \in Nat /\ Len(req.path) >= 3
  BY Handled DEF GetVisits, GetMark, Listing, Routed, Send, Stays
<1>2. CASE GetVisits
  <2>1. /\ Func = "visits" /\ Name = "users"
        /\ status' = IF ~IdOK \/ ~VisitsParamsOK THEN 400 ELSE IF Found THEN 200 ELSE 404
    BY <1>2 DEF GetVisits, Listing, Send
  <2>2. Len(req.path) = 4 /\ req.path[4] = "visits" /\ ~Bare(req)
    BY <1>1, <2>1, FuncParts, EmptyIsAlone DEF Bare
  <2>3. Addresses(req) <=> IdOK /\ VisitsParamsOK
    BY <1>1, <2>1, <2>2, AddressesIs, EmptyIsAlone DEF Entity
  <2>4. ~Creates(req) /\ ~Fatal(req) /\ ~NoSuchName(req)
    BY <2>2 DEF Creates, OffersNew, Fatal, FatalBody, NoSuchName
  <2>5. Found <=> Exists(req)
    BY <2>1 DEF Found, Exists, Name, IdText, Entity
  <2> QED  BY <1>1, <2>1, <2>3, <2>4, <2>5 DEF AnswersAsExpected, ExpectedStatus
<1>3. CASE GetMark
  <2>1. /\ Func = "avg" /\ Name = "locations"
        /\ status' = IF ~IdOK \/ ~MarkParamsOK THEN 400 ELSE IF Found THEN 200 ELSE 404
    BY <1>3 DEF GetMark, Listing, Send
  <2>2. Len(req.path) = 4 /\ req.path[4] = "avg" /\ ~Bare(req)
    BY <1>1, <2>1, FuncParts, EmptyIsAlone DEF Bare
  <2>3. Addresses(req) <=> IdOK /\ MarkParamsOK
    BY <1>1, <2>1, <2>2, AddressesIs, EmptyIsAlone DEF Entity
  <2>4. ~Creates(req) /\ ~Fatal(req) /\ ~NoSuchName(req)
    BY <2>2 DEF Creates, OffersNew, Fatal, FatalBody, NoSuchName
  <2>5. Found <=> Exists(req)
    BY <2>1 DEF Found, Exists, Name, IdText, Entity
  <2> QED  BY <1>1, <2>1, <2>3, <2>4, <2>5 DEF AnswersAsExpected, ExpectedStatus
<1> QED  BY <1>2, <1>3

LEMMA OtherGetAnswers ==
  ASSUME IInv, OtherGet
  PROVE  AnswersAsExpected
<1>1. /\ status = 0 /\ status' = 400 /\ alive' = alive /\ req.method = "GET"
      /\ Len(req.path) \in Nat /\ Len(req.path) >= 3
  BY Handled DEF OtherGet, Routed, Send, Stays
<1>2. ~Bare(req)
  BY <1>1, FuncParts DEF OtherGet, Bare
<1>3. ~Addresses(req)
  BY <1>1, <1>2, AddressesIs, FuncParts DEF OtherGet, Bare
<1>4. ~Creates(req) /\ ~Fatal(req) /\ ~NoSuchName(req)
  BY <1>2 DEF Creates, OffersNew, Fatal, FatalBody, NoSuchName
<1> QED  BY <1>1, <1>3, <1>4 DEF AnswersAsExpected, ExpectedStatus

LEMMA BadPostAnswers ==
  ASSUME IInv, BadPost
  PROVE  AnswersAsExpected
<1>1. /\ status = 0 /\ status' = 400 /\ alive' = alive /\ req.method = "POST"
      /\ Len(req.path) \in Nat /\ Len(req.path) >= 3
  BY Handled DEF BadPost, Routed, Send, Stays
<1>2. req.body.kind = "none" \/ ~Bare(req)
  BY <1>1, FuncParts DEF BadPost, Bare
<1>3. ~Addresses(req)
  BY <1>1, <1>2, AddressesIs DEF Bare
<1>4. ~Creates(req) /\ ~Fatal(req) /\ ~NoSuchName(req)
  BY <1>1, <1>2 DEF Creates, OffersNew, Fatal, FatalBody, NoSuchName
<1> QED  BY <1>1, <1>3, <1>4 DEF AnswersAsExpected, ExpectedStatus

\* What is known of a POST whose body is looked at.
LEMMA PostedIs ==
  ASSUME IInv, Posted
  PROVE  /\ status = 0 /\ req.method = "POST" /\ Len(req.path) \in Nat
         /\ req.body.kind \in {"unparsable", "value", "object"}
         /\ Bare(req) /\ ~NoSuchName(req)
         /\ Addresses(req) <=> Name \in Entity /\ IdOK
         /\ Name \in Entity => (Found <=> Exists(req))
<1>1. /\ status = 0 /\ req.method = "POST"
      /\ Len(req.path) \in Nat /\ Len(req.path) >= 3
      /\ req.body.kind \in {"unparsable", "value", "object"}
  BY Handled DEF Posted, Routed
<1>2. Bare(req)
  BY <1>1, FuncParts DEF Posted, Bare
<1>3. Addresses(req) <=> Name \in Entity /\ IdOK
  BY <1>1, <1>2, AddressesIs DEF Bare
<1> QED  BY <1>1, <1>2, <1>3 DEF NoSuchName, Found, Exists, Name, IdText

\* Whether a body is accepted, in the words of the table.
JsonBody(body) == body.kind \in {"unparsable", "object"}
GoodNew(e, body) ==
  /\ body.kind = "object"
  /\ DOMAIN Domain(e) \subseteq DOMAIN body.members
  /\ GoodMembers(e, body.members)
GoodChange(e, body) ==
  body.kind = "object" => GoodMembers(e, [m \in DOMAIN body.members \ {"id"} |-> body.members[m]])

LEMMA InsertAccepted ==
  ASSUME NEW e \in Entity, NEW body, JsonBody(body), NEW new, new = Deserializate(e, None, body, FALSE)
  PROVE  (new.ok => GoodNew(e, body)) /\ (GoodNew(e, body) => new.ok)
<1>1. new.ok <=>
        /\ DOMAIN Domain(e) \subseteq DOMAIN Document(body)
        /\ \A m \in DOMAIN Domain(e) \cap DOMAIN Document(body) : Document(body)[m] \in Domain(e)[m]
  BY DeserializateResult DEF Wanted
<1>2. CASE body.kind = "object"
  BY <1>1, <1>2 DEF Document, GoodMembers, GoodNew
<1>3. CASE body.kind = "unparsable"
  <2>1. DOMAIN Document(body) = {}
    BY <1>3 DEF Document, None
  <2>2. "id" \in DOMAIN Domain(e)
    BY Names
  <2> QED  BY <1>1, <1>3, <2>1, <2>2 DEF GoodNew
<1> QED  BY <1>2, <1>3 DEF JsonBody

LEMMA OffersIs ==
  ASSUME IInv, Posted, IdText = "new", Name \in Entity, req.body.kind # "value",
         NEW new, new = Deserializate(Name, None, req.body, FALSE)
  PROVE  /\ new.ok => /\ OffersNew(req) /\ req.body.kind = "object"
                      /\ new.obj["id"] = req.body.members.id
         /\ OffersNew(req) => new.ok
<1>1. Bare(req) /\ req.method = "POST" /\ JsonBody(req.body)
  BY PostedIs DEF JsonBody
<1>2. (new.ok => GoodNew(Name, req.body)) /\ (GoodNew(Name, req.body) => new.ok)
  BY <1>1, InsertAccepted
<1>3. OffersNew(req) <=> GoodNew(Name, req.body)
  BY <1>1 DEF OffersNew, GoodNew, Name, IdText
<1>4. ASSUME new.ok PROVE new.obj["id"] = req.body.members.id
  <2>1. new.obj["id"] = Document(req.body)["id"]
    BY <1>4, Inserted
  <2> QED  BY <1>2, <1>4, <2>1 DEF GoodNew, Document
<1> QED  BY <1>2, <1>3, <1>4 DEF GoodNew

LEMMA UpdateAccepted ==
  ASSUME NEW e \in Entity, NEW old, NEW body, JsonBody(body),
         NEW copy, copy = Deserializate(e, old, body, TRUE)
  PROVE  (copy.ok => GoodChange(e, body)) /\ (GoodChange(e, body) => copy.ok)
<1>1. copy.ok <=>
        \A m \in (DOMAIN Domain(e) \ {"id"}) \cap DOMAIN Document(body) : Document(body)[m] \in Domain(e)[m]
  BY DeserializateResult DEF Wanted
<1>2. CASE body.kind = "object"
  BY <1>1, <1>2 DEF Document, GoodMembers, GoodChange
<1>3. CASE body.kind = "unparsable"
  <2>1. DOMAIN Document(body) = {}
    BY <1>3 DEF Document, None
  <2> QED  BY <1>1, <1>3, <2>1 DEF GoodChange
<1> QED  BY <1>2, <1>3 DEF JsonBody

LEMMA ThrowsAnswers ==
  ASSUME IInv, Throws
  PROVE  AnswersAsExpected
<1>1. Posted /\ status' = status
  BY DEF Throws
<1>2. FatalBody(req) /\ Handling
  BY <1>1, PostedIs, Handled DEF Throws, FatalBody, IdOK, Name, IdText, Exists, Found, Posted, Routed
<1> QED  BY <1>1, <1>2 DEF AnswersAsExpected, Fatal

LEMMA InsertsEmptyKeyAnswers ==
  ASSUME IInv, InsertsEmptyKey
  PROVE  AnswersAsExpected
<1> DEFINE new == Deserializate(Name, None, req.body, FALSE)
<1>1. /\ Posted /\ status' = status /\ IdText = "new" /\ Name \in Entity
      /\ req.body.kind # "value" /\ new.ok /\ new.obj["id"] = EmptyKey
  BY DEF InsertsEmptyKey
<1>2. OffersNew(req) /\ req.body.members.id = EmptyKey
  BY <1>1, OffersIs
<1> QED  BY <1>1, <1>2 DEF AnswersAsExpected, Fatal, Posted, Routed

LEMMA InsertAnswers ==
  ASSUME IInv, Insert
  PROVE  AnswersAsExpected
<1> DEFINE new == Deserializate(Name, None, req.body, FALSE)
<1>1. /\ Posted /\ IdText = "new" /\ alive' = alive
      /\ Name \in Entity => req.body.kind # "value" /\ (new.ok => new.obj["id"] # EmptyKey)
      /\ status' = IF Name \in Entity /\ new.ok /\ new.obj["id"] \notin DOMAIN m_objects[Name]
                   THEN 200 ELSE 400
  BY DEF Insert, Send
<1>2. ~IdOK
  <2>1. "new" \notin Uint32 /\ "new" # Empty
    BY NewIsNotEmpty DEF Uint32
  <2> QED  BY <1>1, <2>1 DEF IdOK, Uint32Text
<1>3. ~FatalBody(req) /\ ~Addresses(req) /\ ~NoSuchName(req) /\ status = 0
  BY <1>1, <1>2, PostedIs DEF FatalBody, Name
<1>4. CASE Name \in Entity
  <2>1. /\ new.ok => OffersNew(req) /\ new.obj["id"] = req.body.members.id
        /\ OffersNew(req) => new.ok
    <3> HIDE DEF new
    <3>1. new = Deserializate(Name, None, req.body, FALSE)
      BY DEF new
    <3> QED  BY <1>1, <1>4, <3>1, OffersIs
  <2>2. Creates(req) <=> new.ok /\ new.obj["id"] \notin DOMAIN m_objects[Name]
    BY <2>1 DEF Creates, Name
  <2>3. ~Fatal(req)
    BY <1>1, <1>3, <1>4, <2>1 DEF Fatal
  <2> QED  BY <1>1, <1>3, <1>4, <2>2, <2>3 DEF AnswersAsExpected, ExpectedStatus
<1>5. CASE Name \notin Entity
  <2>1. ~Creates(req) /\ ~Fatal(req) /\ status' = 400
    BY <1>1, <1>3, <1>5 DEF Creates, OffersNew, Fatal, Name
  <2> QED  BY <1>1, <1>3, <2>1 DEF AnswersAsExpected, ExpectedStatus
<1> QED  BY <1>4, <1>5

LEMMA AcceptUpdateAnswers ==
  ASSUME IInv, AcceptUpdate
  PROVE  AnswersAsExpected
<1> DEFINE body == req.body
<1>1. /\ Posted /\ body.kind # "value" /\ IdOK /\ Found
      /\ Deserializate(Name, m_objects[Name][IdText], body, TRUE).ok
      /\ status' = 200 /\ alive' = alive
  BY DEF AcceptUpdate, Send
<1>2. /\ Name \in Entity /\ status = 0 /\ body.kind \in {"unparsable", "object"}
      /\ Addresses(req) /\ Exists(req) /\ ~NoSuchName(req) /\ req.method = "POST"
  BY <1>1, PostedIs DEF Found
<1>3. GoodChange(Name, body)
  <2> DEFINE old == m_objects[Name][IdText]
             copy == Deserializate(Name, old, body, TRUE)
  <2>1. JsonBody(body) /\ copy.ok
    BY <1>1, <1>2 DEF JsonBody
  <2> HIDE DEF body, old, copy
  <2>2. copy = Deserializate(Name, old, body, TRUE)
    BY DEF copy
  <2> QED  BY <1>2, <2>1, <2>2, UpdateAccepted
<1>4. ~Fatal(req)
  <2>1. IdText # "new"
    BY <1>1, <1>2, NewIsNoId DEF Found
  <2> QED  BY <1>1, <2>1 DEF Fatal, FatalBody, OffersNew, IdText
<1> QED  BY <1>1, <1>2, <1>3, <1>4 DEF AnswersAsExpected, ExpectedStatus, Name, GoodChange

LEMMA RejectUpdateAnswers ==
  ASSUME IInv, RejectUpdate
  PROVE  AnswersAsExpected
<1> DEFINE body == req.body
<1>1. /\ Posted /\ IdText # "new" /\ alive' = alive
      /\ IdOK /\ Found => /\ body.kind # "value"
                          /\ ~Deserializate(Name, m_objects[Name][IdText], body, TRUE).ok
      /\ status' = IF IdOK /\ Name \in Entity /\ ~Found THEN 404 ELSE 400
  BY DEF RejectUpdate, Send, Stays
<1>2. /\ status = 0 /\ req.method = "POST" /\ ~NoSuchName(req)
      /\ Addresses(req) <=> Name \in Entity /\ IdOK
      /\ Name \in Entity => (Found <=> Exists(req))
      /\ body.kind \in {"unparsable", "value", "object"}
  BY <1>1, PostedIs
<1>3. ~Creates(req) /\ (Fatal(req) => IdOK /\ Found /\ body.kind = "value")
  BY <1>1, <1>2 DEF Creates, OffersNew, Fatal, FatalBody, IdText, IdOK, Name
<1>4. CASE IdOK /\ Found
  <2>1. Name \in Entity
    BY <1>4 DEF Found
  <2>2. ~GoodChange(Name, body)
    <3> DEFINE old == m_objects[Name][IdText]
               copy == Deserializate(Name, old, body, TRUE)
    <3>1. JsonBody(body) /\ ~copy.ok
      BY <1>1, <1>2, <1>4 DEF JsonBody
    <3> HIDE DEF body, old, copy
    <3>2. copy = Deserializate(Name, old, body, TRUE)
      BY DEF copy
    <3> QED  BY <2>1, <3>1, <3>2, UpdateAccepted
  <2>3. status' = 400 /\ ~Fatal(req) /\ Addresses(req) /\ Exists(req)
    BY <1>1, <1>2, <1>3, <1>4, <2>1
  <2> QED  BY <1>1, <1>2, <1>3, <2>2, <2>3 DEF AnswersAsExpected, ExpectedStatus, Name, GoodChange
<1>5. CASE ~(IdOK /\ Found)
  BY <1>1, <1>2, <1>3, <1>5 DEF AnswersAsExpected, ExpectedStatus
<1> QED  BY <1>4, <1>5

\* Every request gets the answer of the table, whatever requests there are, unless
\* it is one of those that end the process; besides them only tasks do.
THEOREM AnswersCorrect == Spec => StatusContract
<1>1. IInv /\ [Next]_vars => [AnswersAsExpected]_vars
  <2> SUFFICES ASSUME IInv, Next PROVE AnswersAsExpected
    OBVIOUS
  <2>1. CASE (\E r \in Request : Receive(r)) \/ Serve
    BY <2>1 DEF Receive, Serve, ServeInsertion, ServeUpdate, ServeEnds, AnswersAsExpected
  <2>2. CASE Finish
    BY <2>2 DEF Finish, AnswersAsExpected
  <2>3. CASE Handle
    BY <2>3, BadRequestAnswers, GetObjectAnswers, ListingAnswers, OtherGetAnswers, BadPostAnswers,
       ThrowsAnswers, InsertsEmptyKeyAnswers, InsertAnswers, AcceptUpdateAnswers, RejectUpdateAnswers DEF Handle
  <2> QED  BY <2>1, <2>2, <2>3 DEF Next
<1> QED  BY <1>1, Inductive, PTL DEF Spec, StatusContract

LEMMA NothingChanges ==
  ASSUME IInv, UNCHANGED <<m_objects, m_tasks>>
  PROVE  NamedChanges
<1>1. ~(Len(m_tasks') > Len(m_tasks))
  BY DEF IInv, Data, Tasks
<1> QED  BY <1>1 DEF NamedChanges, MayChange

LEMMA EnqueuedLast ==
  ASSUME m_tasks \in Seq(Task), NEW t, m_tasks' = Append(m_tasks, t)
  PROVE  Last(m_tasks') = t
<1>1. Len(m_tasks') = Len(m_tasks) + 1 /\ m_tasks'[Len(m_tasks) + 1] = t
  OBVIOUS
<1> QED  BY <1>1 DEF Last

\* What an accepted update makes of an object.
LEMMA UpdateIsNamed ==
  ASSUME NEW e \in Entity, NEW body, JsonBody(body), NEW old \in Object(e),
         Deserializate(e, old, body, TRUE).ok
  PROVE  ChangedBy(body, Deserializate(e, old, body, TRUE).obj, old)
<1> DEFINE obj == Deserializate(e, old, body, TRUE).obj
           given == [m \in DOMAIN Given(e, body) \ {"id"} |-> Document(body)[m]]
<1>1. obj \in Object(e) /\ obj = Over(given, old)
  BY Updated
<1>2. DOMAIN obj = DOMAIN old
  BY <1>1 DEF Object
<1>3. DOMAIN given = DOMAIN Given(e, body) \ {"id"} /\ \A m \in DOMAIN given : given[m] = Document(body)[m]
  OBVIOUS
<1> HIDE DEF obj, given
<1>4. ASSUME NEW m \in DOMAIN old, obj[m] # old[m]
      PROVE  body.kind = "object" /\ m \in DOMAIN body.members \ {"id"} /\ obj[m] = body.members[m]
  <2>1. m \in DOMAIN given /\ obj[m] = given[m]
    BY <1>1, <1>4 DEF Over
  <2>2. m \in DOMAIN Document(body) \ {"id"} /\ obj[m] = Document(body)[m]
    BY <1>3, <2>1 DEF Given
  <2>3. body.kind = "object"
    BY <2>2 DEF Document, None
  <2> QED  BY <2>2, <2>3 DEF Document
<1> QED  BY <1>2, <1>4 DEF ChangedBy, obj

LEMMA InsertIsNamed ==
  ASSUME IInv, Insert
  PROVE  NamedChanges
<1> DEFINE new == Deserializate(Name, None, req.body, FALSE)
           id == new.obj["id"]
<1>0. DOMAIN m_objects = Entity
  BY DEF IInv, Data, Stored
<1>1. CASE Name \in Entity /\ new.ok /\ id \notin DOMAIN m_objects[Name]
  <2>1. /\ Posted /\ IdText = "new" /\ status' = 200 /\ req.body.kind # "value"
        /\ m_objects' = [m_objects EXCEPT ![Name] = Over([i \in {id} |-> new.obj], @)]
        /\ IF Name = "visits" THEN Enqueue([kind |-> "insert", id |-> id, new |-> new.obj])
                             ELSE UNCHANGED m_tasks
    BY <1>1 DEF Insert, Send
  <2>2. Accepting(Name) /\ req.path[3] = "new"
    BY <2>1, PostedIs DEF Accepting, Name, IdText
  <2>3. /\ req.body.kind = "object" /\ id = req.body.members.id
    <3> HIDE DEF new
    <3>1. new = Deserializate(Name, None, req.body, FALSE)
      BY DEF new
    <3> QED  BY <1>1, <2>1, <3>1, OffersIs
  <2>4. MadeOf(req.body, new.obj)
    <3>1. new.obj = Given(Name, req.body)
      BY <1>1, Inserted
    <3> QED  BY <2>3, <3>1 DEF MadeOf, Given, Document
  <2> HIDE DEF new
  <2>5. /\ m_objects'[Name] = Over([i \in {id} |-> new.obj], m_objects[Name])
        /\ \A e \in Entity \ {Name} : m_objects'[e] = m_objects[e]
    BY <1>0, <1>1, <2>1
  <2>6. /\ DOMAIN m_objects'[Name] = DOMAIN m_objects[Name] \cup {id}
        /\ m_objects'[Name][id] = new.obj
        /\ \A i \in DOMAIN m_objects[Name] : m_objects'[Name][i] = m_objects[Name][i]
    BY <1>1, <2>5 DEF Over
  <2>7. ASSUME NEW e \in Entity
        PROVE  /\ DOMAIN m_objects[e] \subseteq DOMAIN m_objects'[e]
               /\ \A i \in DOMAIN m_objects'[e] : MayChange(e, i)
    BY <1>1, <2>2, <2>3, <2>4, <2>5, <2>6 DEF MayChange
  <2>8. ASSUME Len(m_tasks') > Len(m_tasks) PROVE MayQueue(Last(m_tasks'))
    <3>1. CASE Name = "visits"
      <4>1. Last(m_tasks') = [kind |-> "insert", id |-> id, new |-> new.obj]
        BY <2>1, <3>1, EnqueuedLast DEF IInv, Data, Tasks, Enqueue
      <4> QED  BY <2>2, <2>3, <2>4, <3>1, <4>1 DEF MayQueue
    <3>2. CASE Name # "visits"
      <4>1. Len(m_tasks) \in Nat
        BY DEF IInv, Data, Tasks
      <4> QED  BY <2>1, <2>8, <3>2, <4>1
    <3> QED  BY <3>1, <3>2
  <2> QED  BY <2>7, <2>8 DEF NamedChanges
<1>2. CASE ~(Name \in Entity /\ new.ok /\ id \notin DOMAIN m_objects[Name])
  <2>1. UNCHANGED <<m_objects, m_tasks>>
    BY <1>2 DEF Insert
  <2> QED  BY <2>1, NothingChanges
<1> QED  BY <1>1, <1>2

LEMMA AcceptUpdateIsNamed ==
  ASSUME IInv, AcceptUpdate
  PROVE  NamedChanges
<1> DEFINE old == m_objects[Name][IdText]
           copy == Deserializate(Name, old, req.body, TRUE)
<1>1. /\ Posted /\ req.body.kind # "value" /\ Found /\ copy.ok /\ status' = 200
      /\ IF Name = "visits" THEN /\ Enqueue([kind |-> "update", id |-> IdText, new |-> copy.obj])
                                /\ UNCHANGED m_objects
                           ELSE /\ m_objects' = [m_objects EXCEPT ![Name][IdText] = copy.obj]
                                /\ UNCHANGED m_tasks
  BY DEF AcceptUpdate, Send
<1>2. /\ DOMAIN m_objects = Entity /\ Name \in Entity /\ IdText \in DOMAIN m_objects[Name]
      /\ old \in Object(Name) /\ Len(m_tasks) \in Nat
  BY <1>1 DEF IInv, Data, Stored, Tasks, Found
<1>3. Accepting(Name) /\ req.path[3] = IdText /\ JsonBody(req.body)
  BY <1>1, PostedIs DEF Accepting, Name, IdText, JsonBody
<1>4. ChangedBy(req.body, copy.obj, old)
  <2> HIDE DEF old
  <2> QED  BY <1>1, <1>2, <1>3, UpdateIsNamed
<1> HIDE DEF copy
<1>5. CASE Name = "visits"
  <2>1. Last(m_tasks') = [kind |-> "update", id |-> IdText, new |-> copy.obj]
    BY <1>1, <1>5, EnqueuedLast DEF IInv, Data, Tasks, Enqueue
  <2>2. MayQueue(Last(m_tasks'))
    BY <1>2, <1>3, <1>4, <1>5, <2>1 DEF MayQueue
  <2> QED  BY <1>1, <1>5, <2>2 DEF NamedChanges, MayChange
<1>6. CASE Name # "visits"
  <2>1. /\ m_objects'[Name] = [m_objects[Name] EXCEPT ![IdText] = copy.obj]
        /\ \A e \in Entity \ {Name} : m_objects'[e] = m_objects[e]
    BY <1>1, <1>2, <1>6
  <2>2. /\ DOMAIN m_objects'[Name] = DOMAIN m_objects[Name]
        /\ m_objects'[Name][IdText] = copy.obj
        /\ \A i \in DOMAIN m_objects[Name] \ {IdText} : m_objects'[Name][i] = m_objects[Name][i]
    BY <1>2, <2>1
  <2>3. MayChange(Name, IdText)
    BY <1>2, <1>3, <1>4, <1>6, <2>2 DEF MayChange
  <2>4. \A i \in DOMAIN m_objects'[Name] \ {IdText} : MayChange(Name, i)
    BY <2>2 DEF MayChange
  <2>5. ASSUME NEW e \in Entity \ {Name}
        PROVE  DOMAIN m_objects[e] \subseteq DOMAIN m_objects'[e] /\ \A i \in DOMAIN m_objects'[e] : MayChange(e, i)
    BY <2>1 DEF MayChange
  <2>6. ~(Len(m_tasks') > Len(m_tasks))
    BY <1>1, <1>2, <1>6
  <2> QED  BY <2>2, <2>3, <2>4, <2>5, <2>6 DEF NamedChanges
<1> QED  BY <1>5, <1>6

LEMMA ServeIsNamed ==
  ASSUME IInv, ServeUpdate \/ ServeInsertion
  PROVE  NamedChanges
<1>1. m_tasks' = Tail(m_tasks) /\ m_tasks # <<>>
  BY DEF ServeUpdate, ServeInsertion
<1>2. ~(Len(m_tasks') > Len(m_tasks))
  BY <1>1 DEF IInv, Data, Tasks
<1>3. CASE ServeInsertion
  BY <1>2, <1>3 DEF ServeInsertion, NamedChanges, MayChange
<1>4. CASE ServeUpdate
  <2> DEFINE h == Head(m_tasks)
  <2>1. m_objects' = [m_objects EXCEPT !["visits"][h.id] = h.new] /\ DOMAIN m_objects = Entity
    BY <1>4 DEF ServeUpdate, IInv, Data, Stored
  <2>2. h.id \in DOMAIN m_objects["visits"]
    <3>1. m_tasks \in Seq(Task)
      BY DEF IInv, Data, Tasks
    <3>2. 1 \in DOMAIN m_tasks /\ h = m_tasks[1]
      BY <1>1, <3>1
    <3> QED  BY <3>2 DEF IInv, Data, Tasks
  <2> HIDE DEF h
  <2>3. /\ m_objects'["visits"] = [m_objects["visits"] EXCEPT ![h.id] = h.new]
        /\ \A e \in Entity \ {"visits"} : m_objects'[e] = m_objects[e]
    BY <2>1 DEF Entity
  <2>4. /\ DOMAIN m_objects'["visits"] = DOMAIN m_objects["visits"]
        /\ m_objects'["visits"][h.id] = h.new
        /\ \A i \in DOMAIN m_objects["visits"] \ {h.id} : m_objects'["visits"][i] = m_objects["visits"][i]
    BY <2>2, <2>3
  <2>5. MayChange("visits", h.id)
    BY <1>1, <2>2, <2>4 DEF MayChange, h
  <2>6. ASSUME NEW e \in Entity
        PROVE  DOMAIN m_objects[e] \subseteq DOMAIN m_objects'[e] /\ \A i \in DOMAIN m_objects'[e] : MayChange(e, i)
    BY <2>3, <2>4, <2>5 DEF MayChange
  <2> QED  BY <1>2, <2>6 DEF NamedChanges
<1> QED  BY <1>3, <1>4

\* Only the object that an accepted POST names changes, or is queued, in the
\* members that its body gives; nothing disappears.
THEOREM ChangesNamed == Spec => OnlyNamedChanges
<1>1. IInv /\ [Next]_vars => [NamedChanges]_vars
  <2> SUFFICES ASSUME IInv, Next PROVE NamedChanges
    OBVIOUS
  <2>1. CASE Insert
    BY <2>1, InsertIsNamed
  <2>2. CASE AcceptUpdate
    BY <2>2, AcceptUpdateIsNamed
  <2>3. CASE ServeUpdate \/ ServeInsertion
    BY <2>3, ServeIsNamed
  <2>4. CASE ~Insert /\ ~AcceptUpdate /\ ~ServeUpdate /\ ~ServeInsertion
    <3>1. UNCHANGED <<m_objects, m_tasks>>
      BY <2>4, OthersKeep DEF Next, Handle, Serve
    <3> QED  BY <3>1, NothingChanges
  <2> QED  BY <2>1, <2>2, <2>3, <2>4
<1> QED  BY <1>1, Inductive, PTL DEF Spec, OnlyNamedChanges

\* A GET shows all accepted writes, but for queued and overtaken visits.
THEOREM WritesShown == Spec => AcceptedWritesShown
<1>1. IInv /\ [Next]_vars => [ShowsAccepted]_vars
  <2> SUFFICES ASSUME IInv, Next, status = 0, status' = 200, shown' # None
               PROVE  \/ shown' = accepted[Name][IdText]
                      \/ Name = "visits" /\ (Queued(IdText) \/ IdText \in overtaken)
    BY DEF ShowsAccepted, Name, IdText
  <2>1. shown = None
    BY DEF IInv, Answer
  <2>2. GetObject
    BY <2>1 DEF Next, Handle, Receive, BadRequest, GetVisits, GetMark, Listing, OtherGet, BadPost, Throws,
                InsertsEmptyKey, Insert, AcceptUpdate, RejectUpdate, Finish,
                Serve, ServeInsertion, ServeUpdate, ServeEnds
  <2>3. Name \in Entity /\ IdText \in DOMAIN m_objects[Name] /\ shown' = m_objects[Name][IdText]
    BY <2>1, <2>2 DEF GetObject, Found
  <2> QED  BY <2>3 DEF IInv, Data, Writes, Faithful
<1> QED  BY <1>1, Inductive, PTL DEF Spec, AcceptedWritesShown
===============================================================================
