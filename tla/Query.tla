-------------------------------- MODULE Query --------------------------------
(***************************************************************************)
(* The two queries over visits (base.cpp): get_visits, the visits of a user*)
(* in order of time, and get_mark, the average mark of a location.  They   *)
(* run in the request threads, without a lock, while VisitIndex goes on.   *)
(*                                                                         *)
(* Both walk one list of an index, join every visit to an object of the    *)
(* other kind and filter.  Which users and locations there are does not    *)
(* change here; whether one passes the filters on its own members (country,*)
(* distance, age, gender) is part of the request.  Every access to a       *)
(* visit's members is a step.  Walking a set while the worker changes it is*)
(* undefined: such a walk may skip visits and meet one again.              *)
(***************************************************************************)
EXTENDS VisitIndex, Functions

CONSTANTS Reader,  \* threads that answer queries
          Request, \* the queries they get
          Known,   \* ids of the users and of the locations there are
          MaxSteps, \* bound: elements met in one walk of a list that changed
          MaxWrites \* bound: insertions and updates in a behaviour

None == [of |-> NoVisit]  \* no query, no element of a list
Absent == 0                                \* a date that the query does not give
Other(f) == IF f = "user" THEN "location" ELSE "user"

ASSUME NumbersOK == Time \subseteq Nat /\ MarkValue \subseteq Nat
ASSUME RequestOK ==
  \A q \in Request : /\ q.field \in IndexField /\ q.key \in Key
                     /\ q.from \in Nat /\ q.to \in Nat
                     /\ q.fits \in SUBSET Key
ASSUME KnownOK == Known \in [IndexField -> SUBSET Key]
ASSUME MaxWritesOK == MaxWrites \in Nat

VARIABLES
  rpc,   \* where each reader is
  query, \* what it was asked
  met,   \* list_it->second: the elements met so far, in order
  cur,   \* visit_it and location_it or user_it
  row,   \* object: the text of a visit, as far as it is written
  rows,  \* ordered_buffer
  marks, \* counter and mark: the marks added so far, with their visits
  m_buffer_for_avg, \* its two halves
  result,    \* what of m_buffer_for_avg went into the answer
  writes,    \* insertions and updates begun so far, for the bound
  disturbed, \* history: readers whose list changed under the walk
  touched,   \* history: for each reader, visits written since it was asked
  clash      \* history: readers that shared m_buffer_for_avg with another

reader == <<rpc, query, met, cur, row, rows, marks, result>>
history == <<disturbed, touched, clash>>
qvars == <<vars, reader, m_buffer_for_avg, history, writes>>

-------------------------------------------------------------------------------
Goto(r, from, to) == rpc[r] = from /\ rpc' = [rpc EXCEPT ![r] = to]

\* Mutant: the list of the other index.
List_OtherIndex(r) == index[Other(query[r].field)][query[r].key]

List(r) == index[query[r].field][query[r].key]
Asked == {r \in Reader : rpc[r] # "idle"}

\* The user or location is looked up, then its list; no list is an empty one.
Ask(r, q) ==
  /\ Goto(r, "idle", IF q.key \in Known[q.field] THEN "walk" ELSE "done")
  /\ query' = [query EXCEPT ![r] = q]
  /\ UNCHANGED <<vars, writes, met, cur, row, rows, marks, result, m_buffer_for_avg, history>>

\* The next visit of the list and the object it is joined to, if there is one.
Walk(r) ==
  /\ rpc[r] = "walk"
  /\ \E id \in List(r) :
       /\ id \notin Range(met[r]) \/ r \in disturbed
       /\ Len(met[r]) < MaxSteps
       /\ met' = [met EXCEPT ![r] = Append(@, id)]
       /\ LET other == Other(query[r].field)
              joined == m_visits[id] # NoVisit /\ m_visits[id][other] \in Known[other]
          IN /\ Goto(r, "walk", IF joined THEN "from" ELSE "walk")
             /\ cur' = [cur EXCEPT ![r] = IF joined THEN [of |-> id, key |-> m_visits[id][other]]
                                          ELSE None]
       /\ UNCHANGED <<vars, writes, query, row, rows, marks, result, m_buffer_for_avg, history>>

Member(r, f) == m_visits[cur[r].of][f]

\* Mutant: the limit is inclusive.
PassesFrom_Inclusive(q, at) == q.from # Absent => q.from <= at

PassesFrom(q, at) == q.from # Absent => ~(q.from >= at)

FilterFrom(r) ==
  /\ LET passes == PassesFrom(query[r], Member(r, "visited_at"))
     IN /\ Goto(r, "from", IF passes THEN "to" ELSE "walk")
        /\ cur' = IF passes THEN cur ELSE [cur EXCEPT ![r] = None]
  /\ UNCHANGED <<vars, writes, query, met, row, rows, marks, result, m_buffer_for_avg, history>>

\* m_visited_at is read once more; then come the members of the other object.
PassesTo(q, at) == q.to # Absent => ~(q.to <= at)

FilterTo(r) ==
  /\ LET passes == PassesTo(query[r], Member(r, "visited_at")) /\ cur[r].key \in query[r].fits
     IN /\ Goto(r, "to", IF passes THEN "mark" ELSE "walk")
        /\ cur' = IF passes THEN cur ELSE [cur EXCEPT ![r] = None]
  /\ UNCHANGED <<vars, writes, query, met, row, rows, marks, result, m_buffer_for_avg, history>>

-------------------------------------------------------------------------------
(* get_visits *)

WriteMark(r) ==
  /\ Goto(r, "mark", "at")
  /\ query[r].field = "user"
  /\ row' = [row EXCEPT ![r] = [of |-> cur[r].of, mark |-> Member(r, "mark"), at |-> 0]]
  /\ UNCHANGED <<vars, writes, query, met, cur, rows, marks, result, m_buffer_for_avg, history>>

WriteAt(r) ==
  /\ Goto(r, "at", "add")
  /\ row' = [row EXCEPT ![r].at = Member(r, "visited_at")]
  /\ UNCHANGED <<vars, writes, query, met, cur, rows, marks, result, m_buffer_for_avg, history>>

\* Mutant: the key is the visit's mark.
Add_ByMark(r) ==
  /\ Goto(r, "add", "walk")
  /\ rows' = [rows EXCEPT ![r] =
       IF \E x \in @ : x.key = Member(r, "mark") THEN @
       ELSE @ \cup {[key |-> Member(r, "mark"), text |-> row[r]]}]
  /\ cur' = [cur EXCEPT ![r] = None]
  /\ row' = [row EXCEPT ![r] = None]
  /\ UNCHANGED <<vars, writes, query, met, marks, result, m_buffer_for_avg, history>>

\* std::map::insert does nothing if the key is there.
Add(r) ==
  /\ Goto(r, "add", "walk")
  /\ rows' = [rows EXCEPT ![r] =
       IF \E x \in @ : x.key = Member(r, "visited_at") THEN @
       ELSE @ \cup {[key |-> Member(r, "visited_at"), text |-> row[r]]}]
  /\ cur' = [cur EXCEPT ![r] = None]
  /\ row' = [row EXCEPT ![r] = None]
  /\ UNCHANGED <<vars, writes, query, met, marks, result, m_buffer_for_avg, history>>

-------------------------------------------------------------------------------
(* get_mark *)

AddMark(r) ==
  /\ Goto(r, "mark", "walk")
  /\ query[r].field = "location"
  /\ marks' = [marks EXCEPT ![r] = Append(@, [of |-> cur[r].of, mark |-> Member(r, "mark")])]
  /\ cur' = [cur EXCEPT ![r] = None]
  /\ UNCHANGED <<vars, writes, query, met, row, rows, result, m_buffer_for_avg, history>>

Sum(ms) == SumFunction([i \in DOMAIN ms |-> ms[i].mark])
Average(ms) == [sum |-> Sum(ms), counter |-> Len(ms)]

Printing == {r \in Reader : rpc[r] \in {"print", "printed", "append"}}

\* sprintf into the shared buffer: first one part of it, then the other.
PrintAverage(r) ==
  /\ \/ /\ Goto(r, "print", "printed")
        /\ m_buffer_for_avg' = [m_buffer_for_avg EXCEPT ![1] = Average(marks[r])]
     \/ /\ Goto(r, "printed", "append")
        /\ m_buffer_for_avg' = [m_buffer_for_avg EXCEPT ![2] = Average(marks[r])]
  /\ clash' = IF Printing = {r} THEN clash ELSE clash \cup Printing
  /\ UNCHANGED <<vars, writes, query, met, cur, row, rows, marks, result, disturbed, touched>>

AppendBuffer(r) ==
  /\ Goto(r, "append", "done")
  /\ result' = [result EXCEPT ![r] = m_buffer_for_avg]
  /\ UNCHANGED <<vars, writes, query, met, cur, row, rows, marks, m_buffer_for_avg, history>>

-------------------------------------------------------------------------------
\* The end of the list; get_visits puts the answer together from ordered_buffer.
EndOfList(r) ==
  /\ Goto(r, "walk", IF marks[r] # <<>> THEN "print" ELSE "done")
  /\ List(r) \subseteq Range(met[r]) \/ r \in disturbed
  /\ UNCHANGED <<vars, writes, query, met, cur, row, rows, marks, result, m_buffer_for_avg, history>>

\* The answer is sent (or 404); nothing is kept.
Reply(r) ==
  /\ Goto(r, "done", "idle")
  /\ query' = [query EXCEPT ![r] = None]
  /\ met' = [met EXCEPT ![r] = <<>>]
  /\ rows' = [rows EXCEPT ![r] = {}]
  /\ marks' = [marks EXCEPT ![r] = <<>>]
  /\ result' = [result EXCEPT ![r] = <<>>]
  /\ disturbed' = disturbed \ {r}
  /\ touched' = [touched EXCEPT ![r] = {}]
  /\ clash' = clash \ {r}
  /\ UNCHANGED <<vars, writes, cur, row, m_buffer_for_avg>>

\* A step of VisitIndex, and what it means to the queries under way.
WriterStep ==
  /\ Next
  /\ writes' = IF Cardinality(Busy') > Cardinality(Busy) THEN writes + 1 ELSE writes
  /\ writes' <= MaxWrites
  /\ UNCHANGED <<reader, m_buffer_for_avg, clash>>
  /\ disturbed' = disturbed \cup {r \in Asked : List(r)' # List(r)}
  /\ touched' = [r \in Reader |-> IF r \in Asked
                   THEN touched[r] \cup {id \in Id : m_visits'[id] # m_visits[id]} ELSE {}]

QueryInit ==
  /\ Init
  /\ rpc = [r \in Reader |-> "idle"]
  /\ query = [r \in Reader |-> None]
  /\ met = [r \in Reader |-> <<>>]
  /\ cur = [r \in Reader |-> None]
  /\ row = [r \in Reader |-> None]
  /\ rows = [r \in Reader |-> {}]
  /\ marks = [r \in Reader |-> <<>>]
  /\ m_buffer_for_avg = [half \in 1 .. 2 |-> Average(<<>>)]
  /\ result = [r \in Reader |-> <<>>]
  /\ writes = 0
  /\ disturbed = {}
  /\ touched = [r \in Reader |-> {}]
  /\ clash = {}

ReaderNext(r) ==
  \/ \E q \in Request : Ask(r, q)
  \/ Walk(r) \/ FilterFrom(r) \/ FilterTo(r) \/ WriteMark(r) \/ WriteAt(r) \/ Add(r)
  \/ AddMark(r) \/ PrintAverage(r) \/ AppendBuffer(r) \/ EndOfList(r) \/ Reply(r)

QueryNext == WriterStep \/ (Alive /\ \E r \in Reader : ReaderNext(r))

QuerySpec == QueryInit /\ [][QueryNext]_qvars
-------------------------------------------------------------------------------
(* Properties *)

Averages == [sum : Nat, counter : Nat]
Text == [of : Id, mark : Nat, at : Nat]

\* The types; a reader between two accesses to a visit's members has a visit and
\* an object that exist.
QueryTypeOK ==
  /\ rpc \in [Reader -> {"idle", "walk", "from", "to", "mark", "at", "add",
                         "print", "printed", "append", "done"}]
  /\ query \in [Reader -> Request \cup {None}]
  /\ met \in [Reader -> Seq(Id)]
  /\ cur \in [Reader -> {None} \cup [of : Id, key : Key]]
  /\ row \in [Reader -> {None} \cup Text]
  /\ rows \in [Reader -> SUBSET [key : Nat, text : Text]]
  /\ marks \in [Reader -> Seq([of : Id, mark : Nat])]
  /\ m_buffer_for_avg \in [1 .. 2 -> Averages]
  /\ result \in [Reader -> {<<>>} \cup [1 .. 2 -> Averages]]
  /\ writes \in 0 .. MaxWrites
  /\ disturbed \in SUBSET Asked
  /\ touched \in [Reader -> SUBSET Id]
  /\ clash \in SUBSET Asked
  /\ \A r \in Reader : rpc[r] \in {"from", "to", "mark", "at", "add"} <=> cur[r] # None
  /\ \A r \in Asked : cur[r] # None =>
       m_visits[cur[r].of] # NoVisit /\ cur[r].key \in Known[Other(query[r].field)]

\* What a query asks for, said once more: the visits of the list that fall
\* strictly between its dates and are joined to an object that fits.
At(id) == m_visits[id]["visited_at"]
Mark(id) == m_visits[id]["mark"]
Before(d) == {n \in 0 .. d : n # d}
Selected(q, id) ==
  /\ q.from = Absent \/ q.from \in Before(At(id))
  /\ q.to = Absent \/ At(id) \in Before(q.to)
  /\ m_visits[id][Other(q.field)] \in q.fits \cap Known[Other(q.field)]

Answered(r, f) == rpc[r] = "done" /\ query[r].field = f /\ query[r].key \in Known[f]

\* get_visits, though it locks nothing: if no visit came to or left the user's
\* list meanwhile, every selected visit that was not written meanwhile is shown, or
\* another of the same second is, and whatever is shown of it is its own.
VisitsAnswered ==
  \A r \in Asked : Answered(r, "user") /\ r \notin disturbed =>
    /\ \A id \in List(r) \ touched[r] :
         Selected(query[r], id) => \E x \in rows[r] : x.key = At(id)
    /\ \A x \in rows[r] : LET id == x.text.of IN id \notin touched[r] =>
         /\ id \in List(r)
         /\ Selected(query[r], id)
         /\ x.key = At(id)
         /\ x.text.at = At(id)
         /\ x.text.mark = Mark(id)

\* Even while lists change a query meets no stranger: each visit it meets belongs
\* to the user or location asked for, unless an update of it is being served.
NoStrangers ==
  \A r \in Asked : \A id \in Range(met[r]) \ touched[r] :
    m_visits[id][query[r].field] = query[r].key \/ Changing(id)

\* get_mark: if nothing on the location's list changed and no other average was
\* printed into the shared buffer, the average is that of the selected visits.
AverageExact ==
  \A r \in Asked :
    /\ Answered(r, "location")
    /\ r \notin disturbed \cup clash
    /\ List(r) \cap touched[r] = {}
    => LET chosen == {id \in List(r) : Selected(query[r], id)}
           average == [sum |-> SumFunction([id \in chosen |-> Mark(id)]), counter |-> Cardinality(chosen)]
       IN result[r] = IF chosen = {} THEN <<>> ELSE <<average, average>>
===============================================================================
