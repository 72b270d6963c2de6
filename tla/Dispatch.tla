------------------------------- MODULE Dispatch -------------------------------
(***************************************************************************)
(* Requests one after the other: processor::handle (processor.cpp), what   *)
(* base::insert, update and get_object decide, and deserializate of users, *)
(* locations and visits (base.cpp).                                        *)
(*                                                                         *)
(* A request is already parsed.  Its path is split at the slashes; values  *)
(* are tokens, for numbers some on each side of a type's bounds, for texts *)
(* one for each side of a length limit.  A new visit, and an accepted      *)
(* update of one, is queued for the background thread, which serves the    *)
(* queue at any time.  The lists that it keeps are in VisitIndex, with its *)
(* single steps; here they only matter where a task ends the process.      *)
(***************************************************************************)
EXTENDS Naturals, Sequences, SequencesExt

CONSTANTS Request,  \* [method, path, params, body]
          MaxQueue  \* bound: tasks for the background thread not yet served

ASSUME RequestOK ==
  \A r \in Request : /\ r.path \in Seq(STRING)
                     /\ r.body.kind \in {"none", "unparsable", "value", "object"}
ASSUME MaxQueueOK == MaxQueue \in Nat

None == <<>>
Empty == ""

\* What f says over what g says.
Over(f, g) == [x \in DOMAIN f \cup DOMAIN g |-> IF x \in DOMAIN f THEN f[x] ELSE g[x]]

Uint32 == {"0", "1", "6", "3000000000"}
Int32 == {"-1", "0", "1", "6"}
\* What format<uint32_t> and format<long> take: no sign, and nothing at all is 0.
Uint32Text == Uint32 \cup {Empty}
LongText == Uint32Text \cup {"5000000000"}
Chars == [t \in {"m", "f", "word", "chars49", "chars50", "chars99", "chars100"} |->
            CASE t \in {"m", "f"} -> 1 [] t = "word" -> 4 [] t = "chars49" -> 49
              [] t = "chars50" -> 50 [] t = "chars99" -> 99 [] t = "chars100" -> 100]
Text == DOMAIN Chars

Entity == {"users", "locations", "visits"}

\* The tables' key for an empty bucket; to insert it fails an assertion.
EmptyKey == "0"

\* In the order in which deserializate asks for them.
Members(e) ==
  CASE e = "users" -> <<"id", "email", "first_name", "last_name", "gender", "birth_date">>
    [] e = "locations" -> <<"id", "place", "country", "city", "distance">>
    [] e = "visits" -> <<"id", "location", "user", "visited_at", "mark">>

\* Mutant: limits are off by one.
Accepts_OneMore(m, v) ==
  CASE m = "email" -> v \in Text /\ Chars[v] <= 100
    [] m \in {"first_name", "last_name", "country", "city"} -> v \in Text /\ Chars[v] <= 50
    [] m = "place" -> v \in Text
    [] m = "gender" -> v \in {"m", "f"}
    [] m \in {"birth_date", "visited_at"} -> v \in Int32
    [] m \in {"id", "location", "user", "distance", "mark"} -> v \in Uint32

\* IsString, IsUint, IsInt and what is asked of the text.
Accepts(m, v) ==
  CASE m = "email" -> v \in Text /\ ~(100 <= Chars[v])
    [] m \in {"first_name", "last_name", "country", "city"} -> v \in Text /\ ~(50 <= Chars[v])
    [] m = "place" -> v \in Text
    [] m = "gender" -> v \in {"m", "f"}
    [] m \in {"birth_date", "visited_at"} -> v \in Int32
    [] m \in {"id", "location", "user", "distance", "mark"} -> v \in Uint32

\* A text that is no JSON leaves the document the empty object it was set to.
Document(body) == IF body.kind = "object" THEN body.members ELSE None

\* An update does not ask for the id.
Asked(e, update) == IF update THEN Tail(Members(e)) ELSE Members(e)

\* The members are asked for one by one until one is not accepted, or misses in
\* a new object; those before it are taken over.
Deserializate(e, obj, body, update) ==
  LET doc == Document(body)
      asked == Asked(e, update)
      Passes(m) == IF m \in DOMAIN doc THEN Accepts(m, doc[m]) ELSE update
      taken == {asked[j] : j \in {i \in DOMAIN asked : /\ asked[i] \in DOMAIN doc
                                                     /\ \A k \in 1 .. i : Passes(asked[k])}}
  IN [ok |-> \A i \in DOMAIN asked : Passes(asked[i]),
      obj |-> Over([m \in taken |-> doc[m]], obj)]

-------------------------------------------------------------------------------
VARIABLES
  m_objects, \* m_users, m_locations, m_visits: what is stored under which id
  m_tasks,   \* new visits and accepted updates of visits that are not served
  req,       \* the request that is handled, if any
  status,    \* its answer, 0 as long as there is none
  shown,     \* the object that a GET answered with
  alive,     \* no exception left a thread and no assertion failed
  accepted,  \* history: what the accepted writes amount to
  overtaken  \* history: visits updated while an update of them was queued

vars == <<m_objects, m_tasks, req, status, shown, alive, accepted, overtaken>>

Func == IF Len(req.path) < 4 THEN Empty ELSE IF Len(req.path) = 4 THEN req.path[4] ELSE "other"
Name == req.path[2]
IdText == req.path[3]
IdOK == IdText \in Uint32Text
Found == Name \in Entity /\ IdText \in DOMAIN m_objects[Name]

Handling == req # None /\ status = 0
Routed(method) == Handling /\ Len(req.path) >= 3 /\ req.method = method
Send(answer) == status' = answer
Stays == UNCHANGED <<m_objects, m_tasks, alive, accepted, overtaken>>

Receive(r) ==
  /\ req = None
  /\ req' = r
  /\ UNCHANGED <<m_objects, m_tasks, status, shown, alive, accepted, overtaken>>

Finish ==
  /\ status # 0
  /\ req' = None /\ status' = 0 /\ shown' = None
  /\ UNCHANGED <<m_objects, m_tasks, alive, accepted, overtaken>>

\* Fewer than two slashes in the path, or a method that is neither GET nor POST.
BadRequest ==
  /\ Handling
  /\ Len(req.path) < 3 \/ req.method \notin {"GET", "POST"}
  /\ Send(400)
  /\ UNCHANGED <<req, shown>> /\ Stays

GetObject ==
  /\ Routed("GET")
  /\ Func = Empty
  /\ IF IdOK /\ Found THEN Send(200) /\ shown' = m_objects[Name][IdText]
                      ELSE Send(404) /\ UNCHANGED shown
  /\ UNCHANGED req /\ Stays

Param(name, type) == name \in DOMAIN req.params => req.params[name] \in type

\* Mutant: the filters of the other query are checked.
VisitsParamsOK_Ages ==
  /\ Param("fromDate", LongText) /\ Param("toDate", LongText)
  /\ Param("fromAge", Uint32Text) /\ Param("toAge", Uint32Text)

VisitsParamsOK ==
  Param("fromDate", LongText) /\ Param("toDate", LongText) /\ Param("toDistance", Uint32Text)

MarkParamsOK ==
  /\ Param("fromDate", LongText) /\ Param("toDate", LongText)
  /\ Param("fromAge", Uint32Text) /\ Param("toAge", Uint32Text)
  /\ Param("gender", {"m", "f"})

Listing(name, func, paramsOK) ==
  /\ Routed("GET")
  /\ Func = func /\ Name = name
  /\ Send(IF ~IdOK \/ ~paramsOK THEN 400 ELSE IF Found THEN 200 ELSE 404)
  /\ UNCHANGED <<req, shown>> /\ Stays

GetVisits == Listing("users", "visits", VisitsParamsOK)
GetMark == Listing("locations", "avg", MarkParamsOK)

OtherGet ==
  /\ Routed("GET")
  /\ Func # Empty
  /\ ~(Func = "visits" /\ Name = "users") /\ ~(Func = "avg" /\ Name = "locations")
  /\ Send(400)
  /\ UNCHANGED <<req, shown>> /\ Stays

\* No body, or something after the id.
BadPost ==
  /\ Routed("POST")
  /\ req.body.kind = "none" \/ Func # Empty
  /\ Send(400)
  /\ UNCHANGED <<req, shown>> /\ Stays

Posted == Routed("POST") /\ req.body.kind # "none" /\ Func = Empty

\* JSON that is no object: the first HasMember throws, and nobody catches.
Throws ==
  /\ Posted
  /\ req.body.kind = "value"
  /\ Name \in Entity
  /\ IdText = "new" \/ (IdOK /\ Found)
  /\ alive' = FALSE
  /\ UNCHANGED <<m_objects, m_tasks, req, status, shown, accepted, overtaken>>

\* A new object whose id is the empty key: the table's insert asserts.
InsertsEmptyKey ==
  LET new == Deserializate(Name, None, req.body, FALSE)
  IN /\ Posted
     /\ IdText = "new"
     /\ Name \in Entity
     /\ req.body.kind # "value"
     /\ new.ok
     /\ new.obj["id"] = EmptyKey
     /\ alive' = FALSE
     /\ UNCHANGED <<m_objects, m_tasks, req, status, shown, accepted, overtaken>>

Given(e, body) == [m \in DOMAIN Document(body) \cap ToSet(Members(e)) |-> Document(body)[m]]

Enqueue(task) == Len(m_tasks) < MaxQueue /\ m_tasks' = Append(m_tasks, task)

Insert ==
  LET new == Deserializate(Name, None, req.body, FALSE)
      id == new.obj["id"]
  IN /\ Posted
     /\ IdText = "new"
     /\ Name \in Entity => req.body.kind # "value" /\ (new.ok => id # EmptyKey)
     /\ IF Name \in Entity /\ new.ok /\ id \notin DOMAIN m_objects[Name]
        THEN /\ m_objects' = [m_objects EXCEPT ![Name] = Over([i \in {id} |-> new.obj], @)]
             /\ accepted' =
                  [accepted EXCEPT ![Name] = Over([i \in {id} |-> Given(Name, req.body)], @)]
             /\ IF Name = "visits" THEN Enqueue([kind |-> "insert", id |-> id, new |-> new.obj])
                                   ELSE UNCHANGED m_tasks
             /\ Send(200)
        ELSE Send(400) /\ UNCHANGED <<m_objects, m_tasks, accepted>>
     /\ UNCHANGED <<req, shown, alive, overtaken>>

Tasked(kind, id) == \E i \in DOMAIN m_tasks : m_tasks[i].kind = kind /\ m_tasks[i].id = id
Queued(id) == Tasked("update", id)

\* The body is merged into a copy, which users and locations are then moved
\* from and visits are queued with.
AcceptUpdate ==
  LET copy == Deserializate(Name, m_objects[Name][IdText], req.body, TRUE)
      given == [m \in DOMAIN Given(Name, req.body) \ {"id"} |-> Document(req.body)[m]]
  IN /\ Posted
     /\ req.body.kind # "value"
     /\ IdOK /\ Found
     /\ copy.ok
     /\ IF Name = "visits"
        THEN /\ Enqueue([kind |-> "update", id |-> IdText, new |-> copy.obj])
             /\ overtaken' = IF Queued(IdText) THEN overtaken \cup {IdText} ELSE overtaken
             /\ UNCHANGED m_objects
        ELSE /\ m_objects' = [m_objects EXCEPT ![Name][IdText] = copy.obj]
             /\ UNCHANGED <<m_tasks, overtaken>>
     /\ accepted' = [accepted EXCEPT ![Name][IdText] = Over(given, @)]
     /\ Send(200)
     /\ UNCHANGED <<req, shown, alive>>

\* Mutant: the body is merged into the stored object itself.
RejectUpdate_InPlace ==
  LET copy == Deserializate(Name, m_objects[Name][IdText], req.body, TRUE)
  IN /\ Posted
     /\ IdText # "new"
     /\ IdOK /\ Found => req.body.kind # "value" /\ ~copy.ok
     /\ Send(IF IdOK /\ Name \in Entity /\ ~Found THEN 404 ELSE 400)
     /\ m_objects' = IF IdOK /\ Found THEN [m_objects EXCEPT ![Name][IdText] = copy.obj]
                                     ELSE m_objects
     /\ UNCHANGED <<m_tasks, req, shown, alive, accepted, overtaken>>

RejectUpdate ==
  /\ Posted
  /\ IdText # "new"
  /\ IdOK /\ Found => /\ req.body.kind # "value"
                      /\ ~Deserializate(Name, m_objects[Name][IdText], req.body, TRUE).ok
  /\ Send(IF IdOK /\ Name \in Entity /\ ~Found THEN 404 ELSE 400)
  /\ UNCHANGED <<req, shown>> /\ Stays

\* No other visit that is on a list is under the same user or location.
LastOf(id, key) ==
  \A other \in DOMAIN m_objects["visits"] \ {id} :
    m_objects["visits"][other][key] = m_objects["visits"][id][key] => Tasked("insert", other)

\* A visit cannot be put on the list of key 0, nor the last one be taken off a
\* list, which would then be erased: the tables have no key for that.
EndsProcess(task) ==
  \E key \in {"user", "location"} :
    LET old == m_objects["visits"][task.id][key]
    IN IF task.kind = "insert" THEN task.new[key] = EmptyKey
       ELSE task.new[key] # old /\ (task.new[key] = EmptyKey \/ LastOf(task.id, key))

ServeInsertion ==
  /\ m_tasks # <<>> /\ Head(m_tasks).kind = "insert"
  /\ ~EndsProcess(Head(m_tasks))
  /\ m_tasks' = Tail(m_tasks)
  /\ UNCHANGED <<m_objects, req, status, shown, alive, accepted, overtaken>>

\* Mutant: the queue is emptied after the first task.
ServeUpdate_OnlyFirst ==
  /\ m_tasks # <<>> /\ Head(m_tasks).kind = "update"
  /\ ~EndsProcess(Head(m_tasks))
  /\ m_objects' = [m_objects EXCEPT !["visits"][Head(m_tasks).id] = Head(m_tasks).new]
  /\ m_tasks' = <<>>
  /\ UNCHANGED <<req, status, shown, alive, accepted, overtaken>>

\* The background thread moves the next visit.
ServeUpdate ==
  /\ m_tasks # <<>> /\ Head(m_tasks).kind = "update"
  /\ ~EndsProcess(Head(m_tasks))
  /\ m_objects' = [m_objects EXCEPT !["visits"][Head(m_tasks).id] = Head(m_tasks).new]
  /\ m_tasks' = Tail(m_tasks)
  /\ UNCHANGED <<req, status, shown, alive, accepted, overtaken>>

ServeEnds ==
  /\ m_tasks # <<>> /\ EndsProcess(Head(m_tasks))
  /\ alive' = FALSE
  /\ UNCHANGED <<m_objects, m_tasks, req, status, shown, accepted, overtaken>>

Init ==
  /\ m_objects = [e \in Entity |-> None]
  /\ m_tasks = <<>>
  /\ req = None
  /\ status = 0
  /\ shown = None
  /\ alive = TRUE
  /\ accepted = [e \in Entity |-> None]
  /\ overtaken = {}

Serve == ServeInsertion \/ ServeUpdate \/ ServeEnds

Handle ==
  \/ BadRequest \/ GetObject \/ GetVisits \/ GetMark \/ OtherGet
  \/ BadPost \/ Throws \/ InsertsEmptyKey \/ Insert \/ AcceptUpdate \/ RejectUpdate

Next ==
  /\ alive
  /\ (\E r \in Request : Receive(r)) \/ Handle \/ Finish \/ Serve

Spec == Init /\ [][Next]_vars

-------------------------------------------------------------------------------
(* Properties *)

\* What a member may be, said per entity and without the order of the checks.
Domain(e) ==
  LET short == {t \in Text : Chars[t] < 50}
  IN CASE e = "users" -> [id |-> Uint32, email |-> {t \in Text : Chars[t] < 100},
                          first_name |-> short, last_name |-> short,
                          gender |-> {"m", "f"}, birth_date |-> Int32]
       [] e = "locations" -> [id |-> Uint32, place |-> Text, country |-> short, city |-> short,
                              distance |-> Uint32]
       [] e = "visits" -> [id |-> Uint32, location |-> Uint32, user |-> Uint32,
                           visited_at |-> Int32, mark |-> Uint32]

\* The types.  Whatever was inserted, merged and moved, every stored object has
\* all its members, each within its limits, and is stored under its own id,
\* which is not the tables' empty key.
TypeOK ==
  /\ status \in {0, 200, 400, 404}
  /\ alive \in BOOLEAN
  /\ DOMAIN m_objects = Entity
  /\ \A e \in Entity : \A id \in DOMAIN m_objects[e] :
       LET obj == m_objects[e][id]
       IN /\ DOMAIN obj = DOMAIN Domain(e)
          /\ \A m \in DOMAIN obj : obj[m] \in Domain(e)[m]
          /\ obj.id = id /\ id # EmptyKey
  /\ \A i \in DOMAIN m_tasks : m_tasks[i].id \in DOMAIN m_objects["visits"]
  /\ Len(m_tasks) <= MaxQueue
  /\ overtaken \subseteq DOMAIN m_objects["visits"]

GoodMembers(e, members) == \A m \in DOMAIN Domain(e) \cap DOMAIN members : members[m] \in Domain(e)[m]

\* Nothing follows the id, though a slash may.
Bare(r) == Len(r.path) = 3 \/ (Len(r.path) = 4 /\ r.path[4] = Empty)

\* A POST of a whole new object, every member of it good.
OffersNew(r) ==
  /\ r.method = "POST" /\ Bare(r) /\ r.path[2] \in Entity /\ r.path[3] = "new"
  /\ r.body.kind = "object"
  /\ DOMAIN Domain(r.path[2]) \subseteq DOMAIN r.body.members
  /\ GoodMembers(r.path[2], r.body.members)

Creates(r) == OffersNew(r) /\ r.body.members.id \notin DOMAIN m_objects[r.path[2]]

\* A POST to an object, or a GET of one or of its list, that reaches the lookup.
Addresses(r) ==
  LET list == IF Len(r.path) = 4 THEN r.path[4] ELSE Empty
      good(p, type) == p \in DOMAIN r.params => r.params[p] \in type
  IN /\ Len(r.path) \in {3, 4} /\ r.path[2] \in Entity /\ r.path[3] \in Uint32Text
     /\ \/ r.method = "POST" /\ list = Empty /\ r.body.kind # "none"
        \/ r.method = "GET" /\ list = Empty
        \/ /\ r.method = "GET" /\ <<r.path[2], list>> \in {<<"users", "visits">>, <<"locations", "avg">>}
           /\ good("fromDate", LongText) /\ good("toDate", LongText)
           /\ list = "visits" => good("toDistance", Uint32Text)
           /\ list = "avg" => /\ good("fromAge", Uint32Text) /\ good("toAge", Uint32Text)
                              /\ good("gender", {"m", "f"})

\* A GET of one object that cannot be looked up is not found, rather than bad.
NoSuchName(r) == r.method = "GET" /\ Bare(r) /\ ~Addresses(r)

Exists(r) == r.path[3] \in DOMAIN m_objects[r.path[2]]

ExpectedStatus(r) ==
  IF Creates(r) THEN 200
  ELSE IF NoSuchName(r) \/ (Addresses(r) /\ ~Exists(r)) THEN 404
  ELSE IF Addresses(r) /\ (r.method = "POST" /\ r.body.kind = "object"
                             => GoodMembers(r.path[2], [m \in DOMAIN r.body.members \ {"id"} |->
                                                          r.body.members[m]])) THEN 200
  ELSE 400

\* A body that is JSON but no object, where its members would be asked for.
FatalBody(r) ==
  /\ r.method = "POST" /\ r.body.kind = "value" /\ Bare(r)
  /\ r.path[2] \in Entity
  /\ r.path[3] = "new" \/ (r.path[3] \in Uint32Text /\ Exists(r))

Fatal(r) == FatalBody(r) \/ (OffersNew(r) /\ r.body.members.id = EmptyKey)

\* Through the nested conditions of handle every request gets one answer, and it
\* is 200, 400 or 404 as the table above says, unless it is fatal: a body that is
\* no object, or a new object with id 0.  Nothing else ends the process but a
\* task that the lists cannot take.
AnswersAsExpected ==
  /\ status' # status /\ status' # 0 => status = 0 /\ ~Fatal(req) /\ status' = ExpectedStatus(req)
  /\ alive' # alive => (Handling /\ Fatal(req)) \/ (m_tasks # <<>> /\ EndsProcess(Head(m_tasks)))
StatusContract == [][AnswersAsExpected]_vars

\* obj is old but for members that body gives, the id not among them.
ChangedBy(body, obj, old) ==
  /\ DOMAIN obj = DOMAIN old
  /\ \A m \in DOMAIN old :
       obj[m] # old[m] => /\ body.kind = "object" /\ m \in DOMAIN body.members \ {"id"}
                          /\ obj[m] = body.members[m]

\* obj has nothing but what body gives.
MadeOf(body, obj) == \A m \in DOMAIN obj : m \in DOMAIN body.members /\ obj[m] = body.members[m]

Accepting(e) == status = 0 /\ status' = 200 /\ req.method = "POST" /\ req.path[2] = e

\* An object is new and made of the body, is a user or a location that the body
\* changes, is the visit of the task that is served, or stays what it is.
MayChange(e, id) ==
  \/ id \in DOMAIN m_objects[e] /\ m_objects'[e][id] = m_objects[e][id]
  \/ /\ Accepting(e) /\ req.path[3] = "new"
     /\ id \notin DOMAIN m_objects[e]
     /\ id = req.body.members.id /\ MadeOf(req.body, m_objects'[e][id])
  \/ /\ Accepting(e) /\ e # "visits" /\ id = req.path[3] /\ id \in DOMAIN m_objects[e]
     /\ ChangedBy(req.body, m_objects'[e][id], m_objects[e][id])
  \/ /\ e = "visits" /\ m_tasks # <<>> /\ m_tasks' = Tail(m_tasks) /\ id \in DOMAIN m_objects[e]
     /\ id = Head(m_tasks).id /\ m_objects'[e][id] = Head(m_tasks).new

\* A task is for the visit that an accepted POST names: the new one, or the
\* stored one as the body changes it.
MayQueue(task) ==
  /\ Accepting("visits")
  /\ \/ req.path[3] = "new" /\ task.id = req.body.members.id /\ MadeOf(req.body, task.new)
     \/ /\ task.id = req.path[3] /\ task.id \in DOMAIN m_objects["visits"]
        /\ ChangedBy(req.body, task.new, m_objects["visits"][task.id])

\* Nothing that is stored disappears, and nothing changes or is queued but what
\* an accepted POST names, in the members that its body gives; a visit becomes
\* what was queued for it.
NamedChanges ==
  /\ \A e \in Entity : /\ DOMAIN m_objects[e] \subseteq DOMAIN m_objects'[e]
                        /\ \A id \in DOMAIN m_objects'[e] : MayChange(e, id)
  /\ Len(m_tasks') > Len(m_tasks) => MayQueue(Last(m_tasks'))
OnlyNamedChanges == [][NamedChanges]_vars

\* A GET shows all accepted writes of its object and nothing else.  A visit may
\* lack what is still queued, and what an update overtook may be lost.
ShowsAccepted ==
  status = 0 /\ status' = 200 /\ shown' # None =>
    \/ shown' = accepted[req.path[2]][req.path[3]]
    \/ req.path[2] = "visits" /\ (Queued(req.path[3]) \/ req.path[3] \in overtaken)
AcceptedWritesShown == [][ShowsAccepted]_vars

\* base.h:187 says of a visit's mark: 0-5.
MarksAsDocumented ==
  \A id \in DOMAIN m_objects["visits"] :
    m_objects["visits"][id].mark \in {"0", "1", "2", "3", "4", "5"}
===============================================================================
