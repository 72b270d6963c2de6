----------------------------- MODULE Query_proofs -----------------------------
(***************************************************************************)
(* Theorems about the visits (VisitIndex) and the queries over them        *)
(* (Query), for all handlers, readers, requests, visits, keys and values:  *)
(* the indexes agree with the visits, accepted writes take effect whole    *)
(* and in order (VisitStore), and what a query that locks nothing can      *)
(* still rely on.                                                          *)
(***************************************************************************)
EXTENDS Query, SequenceTheorems, FiniteSetTheorems, WellFoundedInduction, TLAPS

-------------------------------------------------------------------------------
(* Sums, which the library defines by a fold over a finite set *)

\* The least number principle, from which the inductions below are made: the
\* library's induction theorems have an operator as a parameter.
LEMMA Least ==
  ASSUME NEW T, T \subseteq Nat, T # {}
  PROVE  \E n \in T : \A m \in T : n <= m
<1>1. \E n \in T : \A m \in T : ~(<<m, n>> \in OpToRel(<, Nat))
  BY NatLessThanWellFounded, WFMin, Zenon
<1>2. \A m, n \in Nat : m < n => <<m, n>> \in OpToRel(<, Nat)
  BY DEF OpToRel
<1>3. \E n \in T : \A m \in T : ~(m < n)
  BY <1>1, <1>2, Zenon
<1> QED  BY <1>3

\* Among subsets of a finite set one is least: removing any element leads out.
LEMMA LeastSubset ==
  ASSUME NEW T, IsFiniteSet(T), NEW B, B \subseteq SUBSET T, B # {}
  PROVE  \E s \in B : IsFiniteSet(s) /\ \A x \in s : s \ {x} \notin B
<1> DEFINE sizes == {n \in Nat : \E s \in B : Cardinality(s) = n}
<1>1. \A s \in B : IsFiniteSet(s) /\ Cardinality(s) \in Nat
  BY FS_Subset, FS_CardinalityType
<1>2. sizes # {} /\ sizes \subseteq Nat
  BY <1>1
<1>3. PICK n \in sizes : \A m \in sizes : n <= m
  <2> HIDE DEF sizes
  <2> QED  BY <1>2, Least
<1>4. PICK s \in B : Cardinality(s) = n
  BY <1>3
<1>5. ASSUME NEW x \in s, s \ {x} \in B PROVE FALSE
  <2>1. Cardinality(s \ {x}) = n - 1 /\ n \in Nat
    BY <1>1, <1>4, FS_RemoveElement
  <2>2. n - 1 \in sizes
    BY <1>1, <1>5, <2>1
  <2> QED  BY <1>3, <2>1, <2>2
<1> QED  BY <1>1, <1>4, <1>5

Pick(s) == CHOOSE x \in s : TRUE

\* What the fold's local function g is at s, and that it is so for all sets in T.
Step(f, g, s) == IF s = {} THEN 0 ELSE f[Pick(s)] + g[s \ {Pick(s)}]
Fold(f, g, T) == \A s \in SUBSET T : g[s] = Step(f, g, s)

Iter(f, S) == CHOOSE g : g = [s \in SUBSET S |-> Step(f, g, s)]

\* The sum is the value of that function at the whole set.
LEMMA SumIs ==
  ASSUME NEW f, NEW S
  PROVE  SumFunctionOnSet(f, S) = Iter(f, S)[S]
BY DEF SumFunctionOnSet, FoldFunctionOnSet, MapThenFoldSet, Iter, Step, Pick

LEMMA PickIn == ASSUME NEW s, s # {} PROVE Pick(s) \in s
BY DEF Pick

\* There is such a function: by induction on the size of the sets.
LEMMA FoldExists ==
  ASSUME NEW T, IsFiniteSet(T), NEW f
  PROVE  \E g : g = [s \in SUBSET T |-> Step(f, g, s)]
<1> DEFINE Good(g, n) == /\ g = [s \in SUBSET T |-> g[s]]
                         /\ \A s \in SUBSET T : Cardinality(s) <= n => g[s] = Step(f, g, s)
           bad == {n \in Nat : ~\E g : Good(g, n)}
<1>1. \A s \in SUBSET T : IsFiniteSet(s) /\ Cardinality(s) \in Nat
  BY FS_Subset, FS_CardinalityType
<1>2. bad = {}
  <2> SUFFICES ASSUME bad # {} PROVE FALSE
    OBVIOUS
  <2>1. PICK n \in bad : \A m \in bad : n <= m
    <3>1. bad \subseteq Nat
      OBVIOUS
    <3> HIDE DEF bad
    <3> QED  BY <3>1, Least
  <2>2. CASE n = 0
    <3> DEFINE g == [s \in SUBSET T |-> 0]
    <3>1. \A s \in SUBSET T : Cardinality(s) <= 0 => s = {}
      BY <1>1, FS_EmptySet
    <3>2. Good(g, 0)
      BY <3>1 DEF Step
    <3> QED  BY <2>1, <2>2, <3>2
  <2>3. CASE n # 0
    <3>1. n - 1 \in Nat /\ n - 1 \notin bad /\ n \in Nat
      <4>1. n \in Nat
        OBVIOUS
      <4> HIDE DEF bad
      <4> QED  BY <2>1, <2>3, <4>1
    <3>2. PICK g : Good(g, n - 1)
      BY <3>1
    <3> DEFINE h == [s \in SUBSET T |-> Step(f, g, s)]
    <3>3. \A s \in SUBSET T : Cardinality(s) <= n - 1 => h[s] = g[s]
      BY <3>2
    <3>4. \A s \in SUBSET T : Cardinality(s) <= n => h[s] = Step(f, h, s)
      <4> SUFFICES ASSUME NEW s \in SUBSET T, Cardinality(s) <= n, s # {} PROVE Step(f, g, s) = Step(f, h, s)
        BY DEF Step
      <4>1. Pick(s) \in s
        BY PickIn
      <4>2. Cardinality(s \ {Pick(s)}) = Cardinality(s) - 1 /\ Cardinality(s) \in Nat
        BY <1>1, <4>1, FS_RemoveElement
      <4>3. h[s \ {Pick(s)}] = g[s \ {Pick(s)}]
        <5>1. s \ {Pick(s)} \in SUBSET T /\ Cardinality(s \ {Pick(s)}) <= n - 1
          BY <3>1, <4>2
        <5> HIDE DEF h
        <5> QED  BY <3>3, <5>1
      <4> HIDE DEF h
      <4> QED  BY <4>3 DEF Step
    <3>5. Good(h, n)
      <4>1. h = [s \in SUBSET T |-> h[s]]
        OBVIOUS
      <4> HIDE DEF h
      <4> QED  BY <3>4, <4>1
    <3> QED  BY <3>5
  <2> QED  BY <2>2, <2>3
<1>3. PICK g : Good(g, Cardinality(T))
  <2>1. Cardinality(T) \in Nat
    BY FS_CardinalityType
  <2> QED  BY <1>2, <2>1
<1>4. \A s \in SUBSET T : Cardinality(s) <= Cardinality(T)
  BY FS_Subset
<1>5. g = [s \in SUBSET T |-> Step(f, g, s)]
  BY <1>3, <1>4
<1> QED  BY <1>5

LEMMA IterFolds ==
  ASSUME NEW T, IsFiniteSet(T), NEW f
  PROVE  Fold(f, Iter(f, T), T)
<1> DEFINE g == Iter(f, T)
<1>1. g = [s \in SUBSET T |-> Step(f, g, s)]
  BY FoldExists DEF Iter
<1> HIDE DEF g
<1>2. \A s \in SUBSET T : g[s] = Step(f, g, s)
  BY <1>1
<1> QED  BY <1>2 DEF Fold, g

\* It does not matter over which larger set the fold runs.
LEMMA FoldUnique ==
  ASSUME NEW T, IsFiniteSet(T), NEW f, NEW g, NEW h, NEW k, Fold(f, g, T), Fold(h, k, T),
         \A x \in T : f[x] = h[x]
  PROVE  \A s \in SUBSET T : g[s] = k[s]
<1> DEFINE bad == {s \in SUBSET T : g[s] # k[s]}
<1> SUFFICES ASSUME bad # {} PROVE FALSE
  OBVIOUS
<1>1. PICK s \in bad : \A x \in s : s \ {x} \notin bad
  <2>1. bad \subseteq SUBSET T
    OBVIOUS
  <2> HIDE DEF bad
  <2> QED  BY <2>1, LeastSubset
<1>2. CASE s = {}
  BY <1>2 DEF Fold, Step
<1>3. CASE s # {}
  <2>1. Pick(s) \in s
    BY <1>3, PickIn
  <2>2. g[s \ {Pick(s)}] = k[s \ {Pick(s)}]
    BY <1>1, <2>1
  <2>3. f[Pick(s)] = h[Pick(s)]
    BY <2>1
  <2>4. g[s] = Step(f, g, s) /\ k[s] = Step(h, k, s)
    BY DEF Fold
  <2> QED  BY <2>2, <2>3, <2>4 DEF Step
<1> QED  BY <1>2, <1>3

LEMMA FoldNat ==
  ASSUME NEW T, IsFiniteSet(T), NEW f, NEW g, Fold(f, g, T), \A x \in T : f[x] \in Nat
  PROVE  \A s \in SUBSET T : g[s] \in Nat
<1> DEFINE bad == {s \in SUBSET T : g[s] \notin Nat}
<1> SUFFICES ASSUME bad # {} PROVE FALSE
  OBVIOUS
<1>1. PICK s \in bad : \A x \in s : s \ {x} \notin bad
  <2>1. bad \subseteq SUBSET T
    OBVIOUS
  <2> HIDE DEF bad
  <2> QED  BY <2>1, LeastSubset
<1>2. CASE s = {}
  <2>1. g[s] = Step(f, g, s) /\ Step(f, g, s) = 0
    BY <1>2 DEF Fold, Step
  <2>2. g[s] \notin Nat
    OBVIOUS
  <2> HIDE DEF bad
  <2> QED  BY <2>1, <2>2
<1>3. CASE s # {}
  <2>1. Pick(s) \in s
    BY <1>3, PickIn
  <2>2. g[s \ {Pick(s)}] \in Nat /\ f[Pick(s)] \in Nat
    BY <1>1, <2>1
  <2>3. g[s] = Step(f, g, s)
    BY DEF Fold
  <2> QED  BY <1>3, <2>2, <2>3 DEF Step
<1> QED  BY <1>2, <1>3

\* Whichever element the fold takes first, an element more adds its value.
LEMMA FoldAdd ==
  ASSUME NEW T, IsFiniteSet(T), NEW f, NEW g, Fold(f, g, T), \A x \in T : f[x] \in Nat
  PROVE  \A s \in SUBSET T : \A x \in T \ s : g[s \cup {x}] = f[x] + g[s]
<1> DEFINE bad == {s \in SUBSET T : \E x \in T \ s : g[s \cup {x}] # f[x] + g[s]}
<1> SUFFICES ASSUME bad # {} PROVE FALSE
  OBVIOUS
<1>1. PICK s \in bad : \A x \in s : s \ {x} \notin bad
  <2>1. bad \subseteq SUBSET T
    OBVIOUS
  <2> HIDE DEF bad
  <2> QED  BY <2>1, LeastSubset
<1>2. PICK x \in T \ s : g[s \cup {x}] # f[x] + g[s]
  OBVIOUS
<1> DEFINE c == Pick(s \cup {x})
<1>3. c \in s \cup {x}
  BY PickIn
<1>4. g[s \cup {x}] = f[c] + g[(s \cup {x}) \ {c}]
  <2>1. s \cup {x} \in SUBSET T /\ s \cup {x} # {}
    OBVIOUS
  <2>2. g[s \cup {x}] = Step(f, g, s \cup {x})
    BY <2>1 DEF Fold
  <2> QED  BY <2>1, <2>2 DEF Step
<1> HIDE DEF c
<1>5. CASE c = x
  <2>1. (s \cup {x}) \ {c} = s
    BY <1>5
  <2> QED  BY <1>2, <1>4, <1>5, <2>1
<1>6. CASE c # x
  <2> DEFINE r == s \ {c}
  <2>1. c \in s /\ r \in SUBSET T /\ r \notin bad /\ x \in T \ r /\ c \in T \ r
    BY <1>1, <1>3, <1>6
  <2>2. g[r \cup {x}] = f[x] + g[r] /\ g[r \cup {c}] = f[c] + g[r]
    BY <2>1
  <2>3. (s \cup {x}) \ {c} = r \cup {x} /\ r \cup {c} = s
    BY <1>6, <2>1
  <2>4. f[x] \in Nat /\ f[c] \in Nat /\ g[r] \in Nat
    BY <2>1, FoldNat
  <2> HIDE DEF r
  <2>5. g[s \cup {x}] = f[c] + g[r \cup {x}] /\ g[s] = f[c] + g[r]
    BY <1>4, <2>2, <2>3, Zenon
  <2>6. g[s \cup {x}] = f[x] + g[s]
    BY <2>2, <2>4, <2>5
  <2> QED  BY <1>2, <2>6
<1> QED  BY <1>5, <1>6

\* What the model's sums rely on.
LEMMA SumOfNone == ASSUME NEW f, DOMAIN f = {} PROVE SumFunction(f) = 0
<1>1. Fold(f, Iter(f, {}), {})
  BY IterFolds, FS_EmptySet
<1>2. Iter(f, {})[{}] = 0
  BY <1>1 DEF Fold, Step
<1> QED  BY <1>2, SumIs DEF SumFunction

LEMMA SumIsNat ==
  ASSUME NEW f, IsFiniteSet(DOMAIN f), \A x \in DOMAIN f : f[x] \in Nat
  PROVE  SumFunction(f) \in Nat
<1>1. Fold(f, Iter(f, DOMAIN f), DOMAIN f)
  BY IterFolds
<1>2. Iter(f, DOMAIN f)[DOMAIN f] \in Nat
  BY <1>1, FoldNat
<1> QED  BY <1>2, SumIs DEF SumFunction

LEMMA SumOfOneMore ==
  ASSUME NEW f, IsFiniteSet(DOMAIN f), NEW h, NEW x, x \notin DOMAIN f, DOMAIN h = DOMAIN f \cup {x},
         \A y \in DOMAIN h : h[y] \in Nat,
         \A y \in DOMAIN f : f[y] = h[y]
  PROVE  SumFunction(h) = h[x] + SumFunction(f)
<1> DEFINE S == DOMAIN f
           T == DOMAIN h
           k == Iter(h, T)
           g == Iter(f, S)
<1>1. IsFiniteSet(T)
  BY FS_AddElement
<1>2. Fold(h, k, T) /\ Fold(f, g, S)
  BY <1>1, IterFolds
<1>3. Fold(h, k, S)
  BY <1>2 DEF Fold
<1> HIDE DEF S, T, k, g
<1>4. S \in SUBSET T /\ x \in T \ S /\ T = S \cup {x} /\ S \in SUBSET S
  BY DEF S, T
<1>5. k[T] = h[x] + k[S]
  <2>1. \A y \in T : h[y] \in Nat
    BY DEF T
  <2> QED  BY <1>1, <1>2, <1>4, <2>1, FoldAdd
<1>6. g[S] = k[S]
  <2>1. \A y \in S : f[y] = h[y]
    BY DEF S
  <2>2. IsFiniteSet(S)
    BY DEF S
  <2>3. \A s \in SUBSET S : g[s] = k[s]
    BY <1>2, <1>3, <2>1, <2>2, FoldUnique
  <2> QED  BY <2>3
<1>7. SumFunction(h) = k[T] /\ SumFunction(f) = g[S]
  BY SumIs DEF SumFunction, S, T, k, g
<1> QED  BY <1>5, <1>6, <1>7
-------------------------------------------------------------------------------
(* VisitIndex *)

USE NoVisitIsNone

\* What a field may hold.
Holds(f) == CASE f \in IndexField -> Key [] f = "visited_at" -> Time [] f = "mark" -> MarkValue

TempOK == \A h \in Handler : hpc[h] \in UpdatePc => temp[h] \in Visit

(* Facts about the queue *)

\* Appending leaves the entries that are there, the first one included.
LEMMA AppendFacts ==
  ASSUME NEW S, NEW s \in Seq(S), NEW e \in S
  PROVE  /\ Append(s, e) \in Seq(S)
         /\ DOMAIN Append(s, e) = DOMAIN s \cup {Len(s) + 1}
         /\ \A i \in DOMAIN s : Append(s, e)[i] = s[i]
         /\ Append(s, e)[Len(s) + 1] = e
         /\ s # <<>> => Head(Append(s, e)) = Head(s) /\ Tail(Append(s, e)) = Append(Tail(s), e)
         /\ Append(s, e) # <<>>
         /\ s = <<>> => Head(Append(s, e)) = e /\ Tail(Append(s, e)) = <<>> /\ DOMAIN s = {}
BY AppendProperties, HeadTailAppend, LenProperties

\* Entry i of the tail is entry i + 1 of the queue.
LEMMA TailFacts ==
  ASSUME NEW S, NEW s \in Seq(S), s # <<>>
  PROVE  /\ Tail(s) \in Seq(S)
         /\ Head(s) = s[1] /\ 1 \in DOMAIN s /\ s[1] \in S
         /\ \A i \in DOMAIN Tail(s) : i \in Nat /\ i + 1 \in DOMAIN s /\ Tail(s)[i] = s[i + 1]
         /\ \A i \in DOMAIN s \ {1} : i - 1 \in DOMAIN Tail(s) /\ Tail(s)[i - 1] = s[i] /\ i \in Nat
BY HeadTailProperties, LenProperties

\* The first task is well formed and about a visit that exists.
LEMMA TaskFacts ==
  ASSUME TypeOK, m_tasks # <<>>
  PROVE  /\ task \in Task /\ task = m_tasks[1] /\ 1 \in DOMAIN m_tasks
         /\ task.id \in Id /\ task.update \in BOOLEAN /\ task.new \in Visit
         /\ m_visits[task.id] \in Visit /\ m_visits[task.id] # NoVisit
<1>1. task = m_tasks[1] /\ 1 \in DOMAIN m_tasks /\ task \in Task
  BY TailFacts DEF TypeOK, task
<1>2. task.id \in Id /\ task.update \in BOOLEAN /\ task.new \in Visit
  BY <1>1 DEF Task
<1> QED  BY <1>1, <1>2 DEF TypeOK

\* The keys of a visit are keys.
LEMMA VisitFacts ==
  ASSUME NEW v \in Visit
  PROVE  /\ \A f \in IndexField : v[f] \in Key
         /\ \A f \in Field : v[f] \in Holds(f)
         /\ \A f \in Field : \A x \in Holds(f) : [v EXCEPT ![f] = x] \in Visit
         /\ v # NoVisit
BY DEF Visit, Holds, Field, IndexField

\* Where the copy and move go on.
LEMMA NextFieldFacts ==
  ASSUME NEW f \in Field
  PROVE  /\ NextField[f] \in UpdatePc \cap HandlerPc
         /\ f # "mark" => NextField[f] \in Field
         /\ NextField[f] # "location"
         /\ NextField[f] \notin IndexField => f # "location"
         /\ NextField[f] = "mark" => f = "visited_at"
BY DEF NextField, Field, IndexField, UpdatePc, HandlerPc

\* An update that names any fields turns a visit into a visit.
LEMMA MergeIsVisit ==
  ASSUME NEW v \in Visit, NEW body \in Body
  PROVE  Merge(v, body) \in Visit
BY DEF Merge, Body, Visit, Field

\* One list of one index is replaced by the set S.
LEMMA IndexExcept ==
  ASSUME index \in [IndexField -> [Key -> SUBSET Id]],
         NEW f \in IndexField, NEW k \in Key, NEW S \in SUBSET Id,
         index' = [index EXCEPT ![f][k] = S]
  PROVE  /\ index' \in [IndexField -> [Key -> SUBSET Id]]
         /\ \A g \in IndexField, j \in Key :
              index'[g][j] = IF g = f /\ j = k THEN S ELSE index[g][j]
<1>1. index[f] \in [Key -> SUBSET Id]
  OBVIOUS
<1>2. PICK line \in [Key -> SUBSET Id] : line = [index[f] EXCEPT ![k] = S]
  BY <1>1
<1>3. index' = [index EXCEPT ![f] = line]
  BY <1>2
<1>4. \A j \in Key : line[j] = IF j = k THEN S ELSE index[f][j]
  BY <1>1, <1>2
<1>5. index'[f] = line /\ \A g \in IndexField : g # f => index'[g] = index[g]
  BY <1>3
<1>6. index' \in [IndexField -> [Key -> SUBSET Id]]
  BY <1>3
<1> QED  BY <1>4, <1>5, <1>6

-------------------------------------------------------------------------------
(* IInv is inductive *)

\* The initial state satisfies the inductive invariant.
LEMMA InitIInv == Init => IInv
<1> SUFFICES ASSUME Init PROVE IInv
  OBVIOUS
<1> USE DEF Init
<1>1. TypeOK
  <2>1. m_tasks \in Seq(Task) /\ DOMAIN m_tasks = {}
    BY EmptySeq
  <2> QED  BY <2>1 DEF TypeOK, IndexField, Field, HandlerPc, Busy
<1>2. MovedSoFar /\ IndexSound /\ IndexComplete
  BY DEF MovedSoFar, IndexSound, IndexComplete
<1> QED  BY <1>1, <1>2 DEF IInv, UncontendedAlone, UpdatePc

\* insert puts the object in the map: nothing was known of its id before.
LEMMA InsertVisitIInv ==
  ASSUME IInv, NEW h \in Handler, NEW id \in Id, NEW v \in Visit, InsertVisit(h, id, v)
  PROVE  IInv'
<1> USE DEF InsertVisit, Start, wvars
<1>1. TypeOK /\ TempOK /\ MovedSoFar /\ IndexSound /\ IndexComplete /\ UncontendedAlone
  BY DEF IInv, TempOK
<1>2. v # NoVisit /\ \A i \in DOMAIN m_tasks : m_tasks[i].id # id
  BY <1>1 DEF TypeOK
<1>3. m_tasks # <<>> => task.id # id /\ task' = task
  BY <1>1, <1>2, TaskFacts DEF task
<1>4. \A g \in Handler : hpc[g] # "idle" => hid[g] # id
  BY <1>1 DEF TypeOK, Busy
<1>5. TypeOK'
  BY <1>1, <1>2, <1>3 DEF TypeOK, HandlerPc, Busy
<1>6. TempOK' /\ UncontendedAlone'
  BY <1>1, <1>4 DEF TypeOK, TempOK, UncontendedAlone, UpdatePc, UpdateQueued, Updating
<1>7. MovedSoFar'
  BY <1>1, <1>3 DEF TypeOK, MovedSoFar, old
<1>8. IndexSound'
  BY <1>1, <1>2, <1>3 DEF TypeOK, IndexSound, ListKey, Changing, Between, Past
<1>9. IndexComplete'
  <2> SUFFICES ASSUME NEW i \in Id, NEW f \in IndexField, (m_visits[i] # NoVisit)'
               PROVE  (i \in index[f][ListKey(i, f)] \/ InsertPending(i, f) \/ Between(i, f))'
    BY DEF IndexComplete
  <2>1. CASE i = id
    BY <2>1, <1>1 DEF TypeOK, InsertPending
  <2>2. CASE i # id
    <3>1. i \in index[f][ListKey(i, f)] \/ InsertPending(i, f) \/ Between(i, f)
      BY <2>2, <1>1 DEF TypeOK, IndexComplete
    <3> QED  BY <2>2, <3>1, <1>1, <1>3 DEF TypeOK, ListKey, Changing, Between, Past, InsertPending
  <2> QED  BY <2>1, <2>2
<1> QED  BY <1>5, <1>6, <1>7, <1>8, <1>9 DEF IInv, TempOK

\* A handler that pushes its task: a task of an insertion replaces the handler
\* as the reason why the visit is not listed yet; one of an update concerns a
\* visit no uncontended update is working on.
LEMMA PushIInv ==
  ASSUME IInv, NEW h \in Handler, NEW pc \in {"announce", "push"}, Finish(h, pc),
         NEW e \in Task, e.id = hid[h], e.update <=> pc = "push",
         m_tasks' = Append(m_tasks, e), UNCHANGED <<m_visits, wvars>>
  PROVE  IInv'
<1> USE DEF Finish, wvars
<1>1. TypeOK /\ TempOK /\ MovedSoFar /\ IndexSound /\ IndexComplete /\ UncontendedAlone
  BY DEF IInv, TempOK
<1>2. m_tasks \in Seq(Task) /\ m_visits[e.id] # NoVisit /\ Len(m_tasks) \in Nat
  BY <1>1, LenProperties DEF TypeOK, Busy
<1>3. /\ m_tasks' \in Seq(Task) /\ m_tasks' # <<>>
      /\ DOMAIN m_tasks' = DOMAIN m_tasks \cup {Len(m_tasks) + 1}
      /\ \A i \in DOMAIN m_tasks : m_tasks'[i] = m_tasks[i]
      /\ m_tasks'[Len(m_tasks) + 1] = e
  BY <1>2, AppendFacts
<1>4. m_tasks # <<>> => task' = task
  BY <1>2, AppendFacts DEF task
<1>5. m_tasks = <<>> => /\ task' = e /\ wstep = "compare" /\ wfield = "user"
                        /\ Len(m_tasks) + 1 = 1
  BY <1>1, <1>2, AppendFacts, EmptySeq DEF task, TypeOK
<1>6. TypeOK'
  <2>1. \A i \in DOMAIN m_tasks' : m_visits[m_tasks'[i].id] # NoVisit
    BY <1>1, <1>2, <1>3 DEF TypeOK
  <2>2. \A g \in Handler : g # h => hpc'[g] = hpc[g] /\ hid'[g] = hid[g]
    BY <1>1 DEF TypeOK
  <2>3. hpc'[h] = "idle" /\ hpc' \in [Handler -> HandlerPc] /\ hid' \in [Handler -> Id \cup {NoVisit}]
        /\ temp' \in [Handler -> Visit \cup {NoVisit}] /\ contended' \in SUBSET Handler
    BY <1>1 DEF TypeOK, HandlerPc
  <2>4. \A g \in Busy' : hid'[g] \in Id /\ m_visits[hid'[g]] # NoVisit
    BY <1>1, <2>2, <2>3 DEF TypeOK, Busy
  <2>5. wstep \in {"insert", "move"} => task'.update
    BY <1>1, <1>4, <1>5 DEF TypeOK
  <2> QED  BY <1>1, <1>3, <2>1, <2>3, <2>4, <2>5 DEF TypeOK
<1>7. TempOK'
  BY <1>1 DEF TypeOK, TempOK, UpdatePc
<1>8. UncontendedAlone'
  <2> SUFFICES ASSUME NEW g \in Handler \ contended', hpc'[g] \in UpdatePc
               PROVE  /\ temp'[g] = m_visits[hid'[g]]
                      /\ ~UpdateQueued(hid[g])'
                      /\ \A j \in Handler \ {g} : ~Updating(j, hid[g])'
    BY DEF UncontendedAlone
  <2>1. g # h /\ hpc[g] \in UpdatePc /\ temp'[g] = temp[g] /\ hid'[g] = hid[g] /\ g \notin contended
    BY <1>1 DEF TypeOK, UpdatePc
  <2>2. /\ temp[g] = m_visits[hid[g]] /\ ~UpdateQueued(hid[g])
        /\ \A j \in Handler \ {g} : ~Updating(j, hid[g])
    BY <1>1, <2>1 DEF UncontendedAlone
  <2>3. pc = "push" => hid[h] # hid[g]
    BY <2>1, <2>2 DEF Updating, UpdatePc
  <2>4. ~UpdateQueued(hid[g])'
    BY <1>3, <2>1, <2>2, <2>3 DEF UpdateQueued
  <2>5. \A j \in Handler \ {g} : ~Updating(j, hid[g])'
    BY <1>1, <2>1, <2>2 DEF Updating, UpdatePc, TypeOK
  <2> QED  BY <2>1, <2>2, <2>4, <2>5
<1>9. MovedSoFar'
  BY <1>1, <1>4, <1>5 DEF MovedSoFar, old
<1>10. \A i \in Id, f \in IndexField : /\ ListKey(i, f)' = ListKey(i, f)
                                       /\ Between(i, f)' = Between(i, f)
  BY <1>3, <1>4, <1>5 DEF ListKey, Changing, Between, Past
<1>11. IndexSound'
  BY <1>1, <1>10 DEF IndexSound, TypeOK
<1>12. IndexComplete'
  <2> SUFFICES ASSUME NEW i \in Id, NEW f \in IndexField, InsertPending(i, f)
               PROVE  InsertPending(i, f)'
    BY <1>1, <1>10 DEF IndexComplete
  <2>1. CASE hpc[h] = "announce" /\ hid[h] = i
    BY <2>1, <1>2, <1>3, <1>5 DEF InsertPending, Past
  <2>2. CASE \E g \in Handler : g # h /\ hpc[g] = "announce" /\ hid[g] = i
    BY <2>2, <1>1 DEF InsertPending, TypeOK
  <2>3. CASE \E j \in DOMAIN m_tasks : /\ ~m_tasks[j].update /\ m_tasks[j].id = i
                                       /\ j = 1 => ~Past(f)
    BY <2>3, <1>3 DEF InsertPending, Past
  <2> QED  BY <2>1, <2>2, <2>3 DEF InsertPending
<1> QED  BY <1>6, <1>7, <1>8, <1>9, <1>11, <1>12 DEF IInv, TempOK

\* Announcing an insertion is such a push.
LEMMA AnnounceInsertIInv ==
  ASSUME IInv, NEW h \in Handler, AnnounceInsert(h)
  PROVE  IInv'
<1>1. TypeOK /\ hpc[h] = "announce"
  BY DEF IInv, AnnounceInsert, Finish
<1>2. hid[h] \in Id /\ m_visits[hid[h]] \in Visit
  BY <1>1 DEF TypeOK, Busy
<1>3. InsertTask(hid[h]) \in Task
  BY <1>2 DEF InsertTask, Task
<1> QED  BY <1>3, PushIInv DEF AnnounceInsert, InsertTask

\* Handing an update over is such a push.
LEMMA PushUpdateIInv ==
  ASSUME IInv, NEW h \in Handler, NEW body \in Body, PushUpdate(h, body)
  PROVE  IInv'
<1>1. TypeOK /\ TempOK /\ hpc[h] = "push"
  BY DEF IInv, TempOK, PushUpdate, Finish
<1>2. hid[h] \in Id /\ temp[h] \in Visit
  BY <1>1 DEF TypeOK, TempOK, Busy, UpdatePc
<1>3. UpdateTask(hid[h], Merge(temp[h], body)) \in Task
  BY <1>2, MergeIsVisit DEF UpdateTask, Task
<1> QED  BY <1>3, PushIInv DEF PushUpdate, UpdateTask

\* A rejected update leaves the visits, the queue and the indexes alone.
LEMMA RejectUpdateIInv ==
  ASSUME IInv, NEW h \in Handler, RejectUpdate(h)
  PROVE  IInv'
<1> USE DEF RejectUpdate, Finish, wvars
<1>1. TypeOK /\ TempOK /\ MovedSoFar /\ IndexSound /\ IndexComplete /\ UncontendedAlone
  BY DEF IInv, TempOK
<1>2. TypeOK'
  BY <1>1 DEF TypeOK, HandlerPc, Busy, task
<1>3. TempOK' /\ UncontendedAlone'
  BY <1>1 DEF TypeOK, TempOK, UncontendedAlone, UpdatePc, UpdateQueued, Updating
<1>4. MovedSoFar' /\ IndexSound'
  BY <1>1 DEF MovedSoFar, IndexSound, ListKey, Changing, Between, Past, old, task
<1>5. \A i \in Id, f \in IndexField : InsertPending(i, f) => InsertPending(i, f)'
  BY <1>1 DEF TypeOK, InsertPending, Past
<1>6. IndexComplete'
  BY <1>1, <1>5 DEF IndexComplete, ListKey, Changing, Between, Past, task
<1> QED  BY <1>2, <1>3, <1>4, <1>6 DEF IInv, TempOK

\* What a handler copies is no concern of the queue and of the indexes.
LEMMA CopyingKeepsIndexes ==
  ASSUME IInv, NEW h \in Handler, hpc[h] # "announce", NEW pc \in UpdatePc,
         hpc' = [hpc EXCEPT ![h] = pc], \A g \in Handler \ {h} : hid'[g] = hid[g],
         UNCHANGED <<m_visits, m_tasks, wvars>>
  PROVE  MovedSoFar' /\ IndexSound' /\ IndexComplete'
<1> USE DEF wvars
<1>1. TypeOK /\ MovedSoFar /\ IndexSound /\ IndexComplete
  BY DEF IInv
<1>2. MovedSoFar' /\ IndexSound'
  BY <1>1 DEF MovedSoFar, IndexSound, ListKey, Changing, Between, Past, old, task
<1>3. \A i \in Id, f \in IndexField : InsertPending(i, f) => InsertPending(i, f)'
  BY <1>1 DEF TypeOK, InsertPending, Past
<1>4. IndexComplete'
  BY <1>1, <1>3 DEF IndexComplete, ListKey, Changing, Between, Past, task
<1> QED  BY <1>2, <1>4

\* An update that begins makes every other update of its visit contended, and
\* is contended itself unless there is none, under way or queued.
LEMMA BeginUpdateIInv ==
  ASSUME IInv, NEW h \in Handler, NEW id \in Id, BeginUpdate(h, id)
  PROVE  IInv'
<1> USE DEF BeginUpdate, Start, wvars
<1>1. TypeOK /\ TempOK /\ UncontendedAlone
  BY DEF IInv, TempOK
<1>2. m_visits[id] \in Visit /\ "location" \in UpdatePc /\ "location" \in HandlerPc
  BY <1>1 DEF TypeOK, UpdatePc, HandlerPc
<1>3. TypeOK'
  <2>1. hpc' \in [Handler -> HandlerPc] /\ hid' \in [Handler -> Id \cup {NoVisit}]
        /\ temp' \in [Handler -> Visit \cup {NoVisit}] /\ contended' \in SUBSET Handler
    BY <1>1, <1>2 DEF TypeOK
  <2>2. \A g \in Busy' : hid'[g] \in Id /\ m_visits[hid'[g]] # NoVisit
    BY <1>1 DEF TypeOK, Busy
  <2> QED  BY <1>1, <2>1, <2>2 DEF TypeOK, task
<1>4. TempOK'
  BY <1>1, <1>2 DEF TypeOK, TempOK
<1>5. UncontendedAlone'
  <2> SUFFICES ASSUME NEW g \in Handler \ contended', hpc'[g] \in UpdatePc
               PROVE  /\ temp'[g] = m_visits[hid'[g]]
                      /\ ~UpdateQueued(hid[g])'
                      /\ \A j \in Handler \ {g} : ~Updating(j, hid[g])'
    BY DEF UncontendedAlone
  <2>1. CASE g = h
    <3>1. ~UpdateQueued(id) /\ \A j \in Handler : ~Updating(j, id)
      BY <2>1
    <3>2. hid'[h] = id /\ temp'[h] = m_visits[id]
      BY <1>1 DEF TypeOK
    <3>3. \A j \in Handler \ {h} : hpc'[j] = hpc[j] /\ hid'[j] = hid[j]
      BY <1>1 DEF TypeOK
    <3> QED  BY <2>1, <3>1, <3>2, <3>3 DEF Updating, UpdateQueued
  <2>2. CASE g # h
    <3>1. /\ g \notin contended /\ hpc[g] \in UpdatePc /\ hpc'[g] = hpc[g]
          /\ hid'[g] = hid[g] /\ temp'[g] = temp[g]
      BY <2>2, <1>1 DEF TypeOK
    <3>2. ~Updating(g, id)
      BY <2>2
    <3>3. hid[g] # id
      BY <3>1, <3>2 DEF Updating
    <3>4. /\ temp[g] = m_visits[hid[g]] /\ ~UpdateQueued(hid[g])
          /\ \A j \in Handler \ {g} : ~Updating(j, hid[g])
      BY <1>1, <3>1 DEF UncontendedAlone
    <3>5. hid'[h] = id /\ \A j \in Handler \ {h} : hpc'[j] = hpc[j] /\ hid'[j] = hid[j]
      BY <1>1 DEF TypeOK
    <3> QED  BY <3>1, <3>3, <3>4, <3>5 DEF Updating, UpdateQueued
  <2> QED  BY <2>1, <2>2
<1>6. MovedSoFar' /\ IndexSound' /\ IndexComplete'
  BY <1>1, <1>2, CopyingKeepsIndexes DEF TypeOK
<1> QED  BY <1>3, <1>4, <1>5, <1>6 DEF IInv, TempOK

\* A copied field holds what an uncontended copy held already.
LEMMA CopyFieldIInv ==
  ASSUME IInv, NEW h \in Handler, NEW f \in Field, CopyField(h, f)
  PROVE  IInv'
<1> USE DEF CopyField, wvars
<1>1. TypeOK /\ TempOK /\ UncontendedAlone
  BY DEF IInv, TempOK
<1>2. f \in UpdatePc /\ hpc[h] \in UpdatePc /\ temp[h] \in Visit
  BY <1>1 DEF TempOK, Field, UpdatePc
<1>3. m_visits[hid[h]] \in Visit /\ hid[h] \in Id
  BY <1>1, <1>2 DEF TypeOK, Busy, UpdatePc
<1>4. PICK pc \in UpdatePc \cap HandlerPc : hpc' = [hpc EXCEPT ![h] = pc]
  BY NextFieldFacts
<1>5. temp' = [temp EXCEPT ![h] = [temp[h] EXCEPT ![f] = m_visits[hid[h]][f]]]
  OBVIOUS
<1>6. [temp[h] EXCEPT ![f] = m_visits[hid[h]][f]] \in Visit
  BY <1>2, <1>3, VisitFacts
<1>7. TypeOK'
  <2>1. \A g \in Handler : hpc'[g] # "idle" => hpc[g] # "idle"
    BY <1>1, <1>2, <1>4 DEF TypeOK, UpdatePc
  <2>2. hpc' \in [Handler -> HandlerPc] /\ temp' \in [Handler -> Visit \cup {NoVisit}]
    <3> HIDE DEF CopyField
    <3>1. hpc' \in [Handler -> HandlerPc]
      BY <1>1, <1>4 DEF TypeOK
    <3>2. temp' \in [Handler -> Visit \cup {NoVisit}]
      BY <1>1, <1>5, <1>6 DEF TypeOK
    <3> QED  BY <3>1, <3>2
  <2>3. Busy' \subseteq Busy
    BY <2>1 DEF Busy
  <2> QED  BY <1>1, <2>2, <2>3 DEF TypeOK, task
<1>8. TempOK'
  BY <1>1, <1>2, <1>4, <1>5, <1>6 DEF TypeOK, TempOK
<1>9. UncontendedAlone'
  <2> SUFFICES ASSUME NEW g \in Handler \ contended, hpc'[g] \in UpdatePc
               PROVE  /\ temp'[g] = m_visits[hid[g]]
                      /\ ~UpdateQueued(hid[g])'
                      /\ \A j \in Handler \ {g} : ~Updating(j, hid[g])'
    BY DEF UncontendedAlone
  <2>1. \A j \in Handler : hpc'[j] \in UpdatePc => hpc[j] \in UpdatePc
    BY <1>1, <1>2, <1>4 DEF TypeOK
  <2>2. /\ temp[g] = m_visits[hid[g]] /\ ~UpdateQueued(hid[g])
        /\ \A j \in Handler \ {g} : ~Updating(j, hid[g])
    BY <1>1, <2>1 DEF UncontendedAlone
  <2>3. temp'[g] = m_visits[hid[g]]
    <3>1. CASE g = h
      <4>1. [temp[h] EXCEPT ![f] = temp[h][f]] = temp[h]
        BY <1>2 DEF Visit
      <4> QED  BY <3>1, <4>1, <1>1, <1>5, <2>2 DEF TypeOK
    <3> QED  BY <3>1, <1>1, <1>5, <2>2 DEF TypeOK
  <2> QED  BY <2>1, <2>2, <2>3 DEF Updating, UpdateQueued
<1>10. MovedSoFar' /\ IndexSound' /\ IndexComplete'
  BY <1>2, <1>4, CopyingKeepsIndexes DEF UpdatePc
<1> QED  BY <1>7, <1>8, <1>9, <1>10 DEF IInv, TempOK

\* A step of the worker may touch only the visit of the task it serves, and only
\* if the task is an update: no uncontended copy is taken of that visit.
LEMMA WorkerKeepsHandlers ==
  ASSUME IInv, m_tasks # <<>>, UNCHANGED hvars,
         m_tasks' \in {m_tasks, Tail(m_tasks)},
         m_visits' \in [Id -> Visit \cup {NoVisit}], m_visits'[task.id] # NoVisit,
         \A i \in Id : i # task.id \/ ~task.update => m_visits'[i] = m_visits[i]
  PROVE  /\ TempOK' /\ UncontendedAlone'
         /\ m_tasks' \in Seq(Task)
         /\ \A i \in DOMAIN m_tasks' : m_visits'[m_tasks'[i].id] # NoVisit
         /\ \A h \in Busy' : hid'[h] \in Id /\ m_visits'[hid'[h]] # NoVisit
<1> USE DEF hvars
<1>1. TypeOK /\ TempOK /\ UncontendedAlone /\ m_tasks \in Seq(Task)
  BY DEF IInv, TempOK, TypeOK
<1>2. \A i \in Id : m_visits[i] # NoVisit => m_visits'[i] # NoVisit
  OBVIOUS
<1>3. /\ m_tasks' \in Seq(Task)
      /\ \A i \in DOMAIN m_tasks' : \E j \in DOMAIN m_tasks : m_tasks'[i] = m_tasks[j]
  <2>1. CASE m_tasks' = m_tasks
    BY <1>1, <2>1
  <2>2. CASE m_tasks' = Tail(m_tasks)
    <3>1. /\ Tail(m_tasks) \in Seq(Task)
          /\ \A i \in DOMAIN Tail(m_tasks) : i + 1 \in DOMAIN m_tasks /\ Tail(m_tasks)[i] = m_tasks[i + 1]
      BY <1>1, TailFacts
    <3> QED  BY <2>2, <3>1
  <2> QED  BY <2>1, <2>2
<1>4. \A j \in DOMAIN m_tasks : m_tasks[j].id \in Id /\ m_visits[m_tasks[j].id] # NoVisit
  <2>1. \A j \in DOMAIN m_tasks : m_tasks[j] \in Task
    BY <1>1, ElementOfSeq, LenProperties
  <2> QED  BY <1>1, <2>1 DEF TypeOK, Task
<1>5. \A i \in DOMAIN m_tasks' : m_visits'[m_tasks'[i].id] # NoVisit
  <2> SUFFICES ASSUME NEW i \in DOMAIN m_tasks' PROVE m_visits'[m_tasks'[i].id] # NoVisit
    OBVIOUS
  <2>1. PICK j \in DOMAIN m_tasks : m_tasks'[i] = m_tasks[j]
    BY <1>3
  <2> QED  BY <1>2, <1>4, <2>1
<1>6. \A h \in Busy' : hid'[h] \in Id /\ m_visits'[hid'[h]] # NoVisit
  BY <1>1, <1>2 DEF TypeOK, Busy
<1>7. TempOK'
  BY <1>1 DEF TempOK
<1>8. UncontendedAlone'
  <2> SUFFICES ASSUME NEW g \in Handler \ contended, hpc[g] \in UpdatePc
               PROVE  /\ temp[g] = m_visits'[hid[g]]
                      /\ ~UpdateQueued(hid[g])'
                      /\ \A j \in Handler \ {g} : ~Updating(j, hid[g])'
    BY DEF UncontendedAlone
  <2>1. /\ temp[g] = m_visits[hid[g]] /\ ~UpdateQueued(hid[g])
        /\ \A j \in Handler \ {g} : ~Updating(j, hid[g])
    BY <1>1 DEF UncontendedAlone
  <2>2. hid[g] # task.id \/ ~task.update
    BY <1>1, <2>1, TaskFacts DEF UpdateQueued
  <2>3. hid[g] \in Id
    BY <1>1 DEF TypeOK, Busy, UpdatePc
  <2>4. ~UpdateQueued(hid[g])'
    BY <1>3, <2>1 DEF UpdateQueued
  <2> QED  BY <2>1, <2>2, <2>3, <2>4 DEF Updating
<1> QED  BY <1>3, <1>5, <1>6, <1>7, <1>8

\* The indexes without the first task's visit on its list for field f.
Erased(f) == [index EXCEPT ![f][old[f]] = @ \ {task.id}]

\* After erase the visit is on no list for that field, and Between says so.
LEMMA ErasingIInv ==
  ASSUME IInv, NEW f \in IndexField, NEW step \in {"insert", "aborted"},
         m_tasks # <<>>, task.update, wstep = "compare", wfield = f,
         index' = Erased(f),
         wstep' = step, wfield' = f, UNCHANGED <<m_visits, m_tasks, hvars>>
  PROVE  IInv'
<1> USE DEF IndexField
<1>1. TypeOK /\ MovedSoFar /\ IndexSound /\ IndexComplete /\ m_tasks # <<>>
  BY DEF IInv
<1>2. /\ task \in Task /\ task.id \in Id /\ old \in Visit /\ old = m_visits[task.id]
      /\ old[f] \in Key /\ task' = task /\ task.update
  BY <1>1, TaskFacts, VisitFacts DEF task, old
<1>3. TempOK' /\ UncontendedAlone'
  BY <1>1, <1>2, WorkerKeepsHandlers DEF TypeOK
<1>4. /\ index' \in [IndexField -> [Key -> SUBSET Id]]
      /\ \A g \in IndexField, k \in Key :
           index'[g][k] = IF g = f /\ k = old[f] THEN index[g][k] \ {task.id} ELSE index[g][k]
  <2>0. index \in [IndexField -> [Key -> SUBSET Id]]
    BY <1>1 DEF TypeOK
  <2>1. PICK k \in Key, S \in SUBSET Id : k = old[f] /\ S = index[f][k] \ {task.id}
    BY <1>2, <2>0
  <2>2. index' = [index EXCEPT ![f][k] = S]
    BY <2>1 DEF Erased
  <2> HIDE DEF IndexField
  <2>4. /\ index' \in [IndexField -> [Key -> SUBSET Id]]
        /\ \A g \in IndexField, j \in Key :
             index'[g][j] = IF g = f /\ j = k THEN S ELSE index[g][j]
    BY <2>0, <2>2, IndexExcept
  <2> QED  BY <2>1, <2>4
<1>5. TypeOK'
  BY <1>1, <1>2, <1>4 DEF TypeOK, Field, hvars, Busy
<1>6. /\ \A i \in Id, g \in IndexField : ListKey(i, g)' = ListKey(i, g)
      /\ \A g \in IndexField : Past(g)' = Past(g)
      /\ \A i \in Id, g \in IndexField : Between(i, g)' <=> i = task.id /\ g = f
      /\ ListKey(task.id, f) = old[f]
  BY <1>1, <1>2 DEF ListKey, Changing, Between, Past
<1>7. IndexSound'
  <2> SUFFICES ASSUME NEW g \in IndexField, NEW k \in Key, NEW id \in index'[g][k]
               PROVE  m_visits'[id] # NoVisit /\ k = ListKey(id, g)' /\ ~Between(id, g)'
    BY DEF IndexSound
  <2>0. UNCHANGED m_visits
    OBVIOUS
  <2> HIDE DEF IndexField
  <2>1. id \in index[g][k] /\ ~(g = f /\ k = old[f] /\ id = task.id)
    <3>1. index'[g][k] = IF g = f /\ k = old[f] THEN index[g][k] \ {task.id} ELSE index[g][k]
      BY <1>4
    <3>2. CASE g = f /\ k = old[f]
      <4>1. index'[g][k] = index[g][k] \ {task.id}
        BY <3>1, <3>2
      <4> QED  BY <4>1
    <3>3. CASE ~(g = f /\ k = old[f])
      <4>1. index'[g][k] = index[g][k]
        BY <3>1, <3>3
      <4> QED  BY <3>3, <4>1
    <3> QED  BY <3>2, <3>3
  <2>2. id \in Id
    BY <1>1, <2>1 DEF TypeOK
  <2>3. m_visits[id] # NoVisit /\ k = ListKey(id, g)
    BY <1>1, <2>1 DEF IndexSound
  <2>4. ~(id = task.id /\ g = f)
    BY <1>6, <2>1, <2>3
  <2> QED  BY <1>6, <2>0, <2>2, <2>3, <2>4
<1>8. \A i \in Id, g \in IndexField : /\ InsertPending(i, g)' = InsertPending(i, g)
                                      /\ ~Between(i, g)
  BY <1>1, <1>6 DEF InsertPending, Between, hvars
<1>9. IndexComplete'
  <2> SUFFICES ASSUME NEW i \in Id, NEW g \in IndexField, m_visits[i] # NoVisit,
                      ~(i = task.id /\ g = f), i \in index[g][ListKey(i, g)]
               PROVE  i \in index'[g][ListKey(i, g)]
    BY <1>1, <1>6, <1>8 DEF IndexComplete
  <2>1. ListKey(i, g) \in Key
    BY <1>1, <1>2, TaskFacts, VisitFacts DEF TypeOK, ListKey
  <2> QED  BY <1>4, <2>1
<1> QED  BY <1>3, <1>5, <1>7, <1>9 DEF IInv, TempOK, MovedSoFar

\* A list that keeps other visits stays in the table.
LEMMA EraseOldIInv ==
  ASSUME IInv, NEW f \in IndexField, EraseOld(f)
  PROVE  IInv'
BY ErasingIInv DEF EraseOld, Erased, WorkerAt, WorkerGoto

\* A list that loses its last visit ends the process.
LEMMA EraseLastIInv ==
  ASSUME IInv, NEW f \in IndexField, EraseLast(f)
  PROVE  IInv'
<1>1. index' = Erased(f)
  BY DEF EraseLast, Erased
<1> QED  BY <1>1, ErasingIInv DEF EraseLast, WorkerAt, WorkerGoto

\* So does an insertion under the empty key, which changes no list.
LEMMA InsertEmptyKeyIInv ==
  ASSUME IInv, NEW f \in IndexField, InsertEmptyKey(f)
  PROVE  IInv'
<1>1. /\ m_tasks # <<>> /\ wfield = f /\ wfield' = f /\ wstep' = "aborted"
      /\ UNCHANGED <<m_visits, index, m_tasks, hvars>>
      /\ wstep = "insert" \/ (wstep = "compare" /\ ~task.update)
  BY DEF InsertEmptyKey, WorkerAt, WorkerGoto
<1>2. TypeOK /\ TempOK /\ IndexSound /\ IndexComplete /\ UncontendedAlone /\ task' = task
  BY <1>1 DEF IInv, TempOK, task
<1>3. TypeOK' /\ TempOK' /\ UncontendedAlone' /\ MovedSoFar'
  <2>1. TypeOK'
    BY <1>1, <1>2 DEF TypeOK, hvars, Busy
  <2>2. TempOK' /\ UncontendedAlone' /\ MovedSoFar'
    BY <1>1, <1>2 DEF TempOK, UncontendedAlone, UpdateQueued, Updating, MovedSoFar, hvars
  <2> QED  BY <2>1, <2>2
<1>4. \A i \in Id, g \in IndexField :
        /\ ListKey(i, g)' = ListKey(i, g) /\ InsertPending(i, g)' = InsertPending(i, g)
        /\ Between(i, g)' <=> Between(i, g)
  BY <1>1, <1>2 DEF ListKey, Changing, Past, Between, InsertPending, hvars
<1>5. IndexSound' /\ IndexComplete'
  <2>1. \A g \in IndexField, k \in Key : index[g][k] \subseteq Id
    BY <1>2 DEF TypeOK
  <2> QED  BY <1>1, <1>2, <1>4, <2>1 DEF IndexSound, IndexComplete
<1> QED  BY <1>3, <1>5 DEF IInv, TempOK

\* The worker is past field f: from there on the visit is listed under the key
\* its update gives it.
LEMMA PassFieldIInv ==
  ASSUME IInv, m_tasks # <<>>, task.update, NEW f \in IndexField,
         wstep \in {"compare", "insert"}, wfield = f, AfterIndex(f),
         UNCHANGED <<m_visits, m_tasks, hvars>>,
         index' \in [IndexField -> [Key -> SUBSET Id]],
         \A g \in IndexField, k \in Key, i \in Id :
           i # task.id \/ g # f => (i \in index'[g][k] <=> i \in index[g][k]),
         \A k \in Key : task.id \in index'[f][k] => k = task.new[f],
         task.id \in index'[f][task.new[f]] \/ InsertPending(task.id, f)
  PROVE  IInv'
<1> USE DEF AfterIndex, WorkerGoto, IndexField
<1>1. TypeOK /\ IndexSound /\ IndexComplete
  BY DEF IInv
<1>2. task \in Task /\ task.id \in Id /\ task' = task /\ task.new[f] \in Key
  BY <1>1, TaskFacts, VisitFacts DEF task
<1>3. TempOK' /\ UncontendedAlone'
  BY <1>1, WorkerKeepsHandlers, TaskFacts DEF TypeOK
<1>4. TypeOK'
  BY <1>1, <1>2 DEF TypeOK, Field, hvars, Busy
<1>5. MovedSoFar'
  BY DEF MovedSoFar
<1>6. \A g \in IndexField : Past(g)' <=> Past(g) \/ g = f
  BY DEF Past
<1>7. ~Past(f) /\ \A i \in Id, g \in IndexField : ~Between(i, g)'
  BY DEF Past, Between
<1>8. \A i \in Id, g \in IndexField :
         ListKey(i, g)' = IF i = task.id /\ g = f THEN task.new[f] ELSE ListKey(i, g)
  BY <1>2, <1>6 DEF ListKey, Changing
<1>9. IndexSound'
  <2> SUFFICES ASSUME NEW g \in IndexField, NEW k \in Key, NEW i \in Id, i \in index'[g][k]
               PROVE  m_visits[i] # NoVisit /\ k = ListKey(i, g)'
    BY <1>1, <1>7 DEF IndexSound, TypeOK
  <2>1. CASE i = task.id /\ g = f
    BY <1>1, <1>2, <1>8, <2>1, TaskFacts
  <2>2. CASE ~(i = task.id /\ g = f)
    <3>1. i \in index[g][k]
      BY <2>2
    <3>2. m_visits[i] # NoVisit /\ k = ListKey(i, g)
      BY <1>1, <3>1 DEF IndexSound
    <3> QED  BY <1>8, <2>2, <3>2
  <2> QED  BY <2>1, <2>2
<1>10. \A i \in Id, g \in IndexField : InsertPending(i, g) => InsertPending(i, g)'
  BY <1>1, TaskFacts DEF InsertPending, hvars
<1>11. IndexComplete'
  <2> SUFFICES ASSUME NEW i \in Id, NEW g \in IndexField, m_visits[i] # NoVisit,
                      ~InsertPending(i, g)
               PROVE  i \in index'[g][ListKey(i, g)']
    BY <1>10 DEF IndexComplete
  <2>1. CASE i = task.id /\ g = f
    BY <1>2, <1>8, <2>1
  <2>2. CASE ~(i = task.id /\ g = f)
    <3>1. ~Between(i, g)
      BY <2>2 DEF Between, Changing
    <3>2. i \in index[g][ListKey(i, g)] /\ ListKey(i, g) \in Key
      <4>1. i \in index[g][ListKey(i, g)]
        BY <1>1, <3>1 DEF IndexComplete
      <4>2. m_visits[i] \in Visit
        BY <1>1 DEF TypeOK
      <4>3. m_visits[i][g] \in Key
        BY <4>2, VisitFacts
      <4>4. Changing(i) => task.new[g] \in Key
        BY <1>1, TaskFacts, VisitFacts DEF Changing
      <4> QED  BY <4>1, <4>3, <4>4 DEF ListKey
    <3> QED  BY <1>8, <2>2, <3>2
  <2> QED  BY <2>1, <2>2
<1> QED  BY <1>3, <1>4, <1>5, <1>9, <1>11 DEF IInv, TempOK

\* The insertion after erase: no list holds the visit.
LEMMA InsertNewIInv ==
  ASSUME IInv, NEW f \in IndexField, InsertNew(f)
  PROVE  IInv'
<1> USE DEF InsertNew, WorkerAt
<1>1. TypeOK /\ IndexSound /\ m_tasks # <<>> /\ index \in [IndexField -> [Key -> SUBSET Id]]
  BY DEF IInv, TypeOK
<1>2. task.update /\ task.id \in Id /\ task.new[f] \in Key
  BY <1>1, TaskFacts, VisitFacts DEF TypeOK
<1>3. \A k \in Key : task.id \notin index[f][k]
  BY <1>1, <1>2 DEF IndexSound, Between, Changing
<1>4. /\ index' \in [IndexField -> [Key -> SUBSET Id]]
      /\ \A g \in IndexField, k \in Key :
           index'[g][k] = IF g = f /\ k = task.new[f] THEN index[g][k] \cup {task.id}
                                                     ELSE index[g][k]
  <2>1. PICK k \in Key, S \in SUBSET Id : k = task.new[f] /\ S = index[f][k] \cup {task.id}
    BY <1>1, <1>2
  <2>2. index' = [index EXCEPT ![f][k] = S]
    BY <2>1
  <2> HIDE DEF InsertNew
  <2>3. /\ index' \in [IndexField -> [Key -> SUBSET Id]]
        /\ \A g \in IndexField, j \in Key :
             index'[g][j] = IF g = f /\ j = k THEN S ELSE index[g][j]
    BY <1>1, <2>2, IndexExcept
  <2> QED  BY <2>1, <2>3
<1>5. /\ wstep \in {"compare", "insert"} /\ wfield = f /\ AfterIndex(f)
      /\ UNCHANGED <<m_visits, m_tasks, hvars>>
  OBVIOUS
<1> HIDE DEF InsertNew
<1>6. /\ \A g \in IndexField, k \in Key, i \in Id :
           i # task.id \/ g # f => (i \in index'[g][k] <=> i \in index[g][k])
      /\ \A k \in Key : task.id \in index'[f][k] => k = task.new[f]
      /\ task.id \in index'[f][task.new[f]]
  <2>1. \A g \in IndexField, k \in Key, i \in Id :
          i \in index'[g][k] <=> i \in index[g][k] \/ (i = task.id /\ g = f /\ k = task.new[f])
    <3> SUFFICES ASSUME NEW g \in IndexField, NEW k \in Key
                 PROVE  \A i \in Id : i \in index'[g][k]
                          <=> i \in index[g][k] \/ (i = task.id /\ g = f /\ k = task.new[f])
      OBVIOUS
    <3>1. CASE g = f /\ k = task.new[f]
      <4>1. index'[g][k] = index[g][k] \cup {task.id}
        BY <1>4, <3>1
      <4> QED  BY <3>1, <4>1
    <3>2. CASE ~(g = f /\ k = task.new[f])
      <4>1. index'[g][k] = index[g][k]
        BY <1>4, <3>2
      <4> QED  BY <3>2, <4>1
    <3> QED  BY <3>1, <3>2
  <2> QED  BY <1>2, <1>3, <2>1
<1> QED  BY <1>1, <1>2, <1>4, <1>5, <1>6, PassFieldIInv

\* Nothing to do when the key does not change: the visit is on no other list.
LEMMA SameKeyIInv ==
  ASSUME IInv, NEW f \in IndexField, SameKey(f)
  PROVE  IInv'
<1> USE DEF SameKey, WorkerAt
<1>1. TypeOK /\ IndexSound /\ IndexComplete /\ m_tasks # <<>>
      /\ index \in [IndexField -> [Key -> SUBSET Id]]
  BY DEF IInv, TypeOK
<1>2. task.id \in Id /\ task.new[f] \in Key /\ old = m_visits[task.id] /\ old # NoVisit
  BY <1>1, TaskFacts, VisitFacts DEF old
<1>3. ListKey(task.id, f) = task.new[f]
  BY <1>2 DEF ListKey
<1>4. \A k \in Key : task.id \in index[f][k] => k = task.new[f]
  BY <1>1, <1>3 DEF IndexSound
<1>5. task.id \in index[f][task.new[f]] \/ InsertPending(task.id, f)
  BY <1>1, <1>2, <1>3 DEF IndexComplete, Between
<1>6. /\ wstep \in {"compare", "insert"} /\ wfield = f /\ AfterIndex(f) /\ task.update
      /\ UNCHANGED <<m_visits, m_tasks, hvars>> /\ index' = index
  OBVIOUS
<1> HIDE DEF SameKey
<1> QED  BY <1>1, <1>4, <1>5, <1>6, PassFieldIInv

\* The first task is done: the entries behind it move up.
LEMMA PopFacts ==
  ASSUME TypeOK, m_tasks # <<>>, Pop, UNCHANGED <<hpc, hid>>
  PROVE  /\ \A i \in Id, g \in IndexField :
              /\ ListKey(i, g)' = m_visits'[i][g]
              /\ ~Between(i, g)'
              /\ InsertPending(i, g) /\ (task.update \/ task.id # i \/ Past(g)) => InsertPending(i, g)'
         /\ wstep' = "compare" /\ wfield' = "user"
<1> USE DEF Pop, WorkerGoto
<1>1. \A g \in IndexField : ~Past(g)'
  BY DEF Past
<1>2. m_tasks \in Seq(Task)
  BY DEF TypeOK
<1>3. ASSUME NEW i \in Id, NEW g \in IndexField, InsertPending(i, g),
             task.update \/ task.id # i \/ Past(g)
      PROVE  InsertPending(i, g)'
  <2>1. CASE \E h \in Handler : hpc[h] = "announce" /\ hid[h] = i
    BY <2>1 DEF InsertPending
  <2>2. CASE \E j \in DOMAIN m_tasks : /\ ~m_tasks[j].update /\ m_tasks[j].id = i
                                       /\ j = 1 => ~Past(g)
    <3>1. PICK j \in DOMAIN m_tasks : ~m_tasks[j].update /\ m_tasks[j].id = i /\ (j = 1 => ~Past(g))
      BY <2>2
    <3>2. j # 1
      BY <1>3, <3>1, TaskFacts
    <3>3. j - 1 \in DOMAIN m_tasks' /\ m_tasks'[j - 1] = m_tasks[j]
      BY <1>2, <3>2, TailFacts
    <3> QED  BY <1>1, <1>3, <3>1, <3>3 DEF InsertPending
  <2> QED  BY <1>3, <2>1, <2>2 DEF InsertPending
<1> QED  BY <1>1, <1>3 DEF ListKey, Between

\* The task of an insertion lists the visit under the keys it has now.
LEMMA ListInsertedIInv ==
  ASSUME IInv, NEW f \in IndexField, ListInserted(f)
  PROVE  IInv'
<1> USE DEF ListInserted, WorkerAt, WorkerGoto
<1>1. /\ TypeOK /\ IndexSound /\ IndexComplete /\ m_tasks # <<>> /\ ~task.update
      /\ index \in [IndexField -> [Key -> SUBSET Id]] /\ m_tasks \in Seq(Task)
  BY DEF IInv, TypeOK
<1>2. task.id \in Id /\ old \in Visit /\ old[f] \in Key /\ old = m_visits[task.id]
  BY <1>1, TaskFacts, VisitFacts DEF old
<1>3. /\ index' \in [IndexField -> [Key -> SUBSET Id]]
      /\ \A g \in IndexField, k \in Key :
           index'[g][k] = IF g = f /\ k = old[f] THEN index[g][k] \cup {task.id} ELSE index[g][k]
  <2>1. PICK k \in Key, S \in SUBSET Id : k = old[f] /\ S = index[f][k] \cup {task.id}
    BY <1>1, <1>2
  <2>2. index' = [index EXCEPT ![f][k] = S]
    BY <2>1
  <2> HIDE DEF ListInserted
  <2>3. /\ index' \in [IndexField -> [Key -> SUBSET Id]]
        /\ \A g \in IndexField, j \in Key :
             index'[g][j] = IF g = f /\ j = k THEN S ELSE index[g][j]
    BY <1>1, <2>2, IndexExcept
  <2> QED  BY <2>1, <2>3
<1>4. /\ wstep = "compare" /\ wfield = f /\ UNCHANGED <<m_visits, hvars>> /\ wstep' = "compare"
      /\ \/ f = "user" /\ wfield' = "location" /\ m_tasks' = m_tasks
         \/ f = "location" /\ Pop
  BY DEF IndexField, Pop
<1> HIDE DEF ListInserted
<1>5. /\ TempOK' /\ UncontendedAlone' /\ m_tasks' \in Seq(Task)
      /\ \A i \in DOMAIN m_tasks' : m_visits'[m_tasks'[i].id] # NoVisit
      /\ \A h \in Busy' : hid'[h] \in Id /\ m_visits'[hid'[h]] # NoVisit
  BY <1>1, <1>4, WorkerKeepsHandlers, TaskFacts DEF TypeOK, Pop
<1>6. TypeOK'
  <2>1. wfield' \in Field /\ wfield' \in IndexField /\ (m_tasks' = <<>> => wfield' = "user")
    BY <1>1, <1>4 DEF Field, IndexField, Pop
  <2> QED  BY <1>1, <1>3, <1>4, <1>5, <2>1 DEF TypeOK, hvars
<1>7. MovedSoFar'
  BY <1>4 DEF MovedSoFar
<1>8. \A i \in Id, g \in IndexField : /\ ListKey(i, g) = m_visits[i][g]
                                      /\ ~Between(i, g)
  BY <1>1 DEF ListKey, Between, Changing
<1>9. \A i \in Id, g \in IndexField :
        /\ ListKey(i, g)' = m_visits[i][g]
        /\ ~Between(i, g)'
        /\ InsertPending(i, g) /\ ~(i = task.id /\ g = f) => InsertPending(i, g)'
  <2>1. CASE f = "user" /\ wfield' = "location" /\ m_tasks' = m_tasks
    <3>1. task' = task /\ \A g \in IndexField : Past(g)' <=> g = f
      BY <1>4, <2>1 DEF Past, task, IndexField
    <3>2. \A i \in Id, g \in IndexField : ListKey(i, g)' = m_visits[i][g] /\ ~Between(i, g)'
      BY <1>1, <1>4, <3>1 DEF ListKey, Between, Changing
    <3>3. \A i \in Id, g \in IndexField :
            InsertPending(i, g) /\ ~(i = task.id /\ g = f) => InsertPending(i, g)'
      BY <1>1, <1>4, <2>1, <3>1, TaskFacts DEF InsertPending, hvars
    <3> QED  BY <3>2, <3>3
  <2>2. CASE f = "location" /\ Pop
    <3>1. \A g \in IndexField : Past(g) \/ g = f
      BY <1>4, <2>2 DEF Past, IndexField
    <3> QED  BY <1>1, <1>4, <2>2, <3>1, PopFacts DEF hvars
  <2> QED  BY <1>4, <2>1, <2>2
<1>10. IndexSound'
  <2> SUFFICES ASSUME NEW g \in IndexField, NEW k \in Key, NEW i \in Id, i \in index'[g][k]
               PROVE  m_visits[i] # NoVisit /\ k = m_visits[i][g]
    BY <1>3, <1>4, <1>9 DEF IndexSound
  <2>1. CASE i \in index[g][k]
    BY <1>1, <1>8, <2>1 DEF IndexSound
  <2>2. CASE i = task.id /\ g = f /\ k = old[f]
    BY <1>2, <2>2, VisitFacts
  <2>3. i \in index[g][k] \/ (i = task.id /\ g = f /\ k = old[f])
    <3>1. CASE g = f /\ k = old[f]
      <4>1. index'[g][k] = index[g][k] \cup {task.id}
        BY <1>3, <3>1
      <4> QED  BY <3>1, <4>1
    <3>2. CASE ~(g = f /\ k = old[f])
      <4>1. index'[g][k] = index[g][k]
        BY <1>3, <3>2
      <4> QED  BY <4>1
    <3> QED  BY <3>1, <3>2
  <2> QED  BY <2>1, <2>2, <2>3
<1>11. IndexComplete'
  <2> SUFFICES ASSUME NEW i \in Id, NEW g \in IndexField, m_visits[i] # NoVisit,
                      ~InsertPending(i, g)'
               PROVE  i \in index'[g][m_visits[i][g]]
    BY <1>4, <1>9 DEF IndexComplete
  <2>1. CASE i = task.id /\ g = f
    BY <1>2, <1>3, <2>1
  <2>2. CASE ~(i = task.id /\ g = f)
    <3>1. i \in index[g][m_visits[i][g]] /\ m_visits[i][g] \in Key
      BY <1>1, <1>8, <1>9, <2>2, VisitFacts DEF IndexComplete, TypeOK
    <3> QED  BY <1>3, <3>1
  <2> QED  BY <2>1, <2>2
<1> QED  BY <1>5, <1>6, <1>7, <1>10, <1>11 DEF IInv, TempOK

\* While a field is moved the visit is listed under the task's keys; when all
\* are moved these are its own.
LEMMA MoveFieldIInv ==
  ASSUME IInv, NEW f \in Field, MoveField(f)
  PROVE  IInv'
<1> USE DEF MoveField, WorkerAt, WorkerGoto
<1>1. /\ TypeOK /\ MovedSoFar /\ IndexSound /\ IndexComplete /\ m_tasks # <<>> /\ task.update
      /\ wstep = "move"
  BY DEF IInv, TypeOK
<1>2. /\ task \in Task /\ task.id \in Id /\ task.new \in Visit /\ old \in Visit
      /\ old = m_visits[task.id] /\ task.new[f] \in Holds(f)
  BY <1>1, TaskFacts, VisitFacts DEF old
<1>3. PICK v \in Visit : v = [old EXCEPT ![f] = task.new[f]]
  BY <1>2, VisitFacts
<1>4. m_visits' = [m_visits EXCEPT ![task.id] = v]
  BY <1>2, <1>3
<1>5. /\ wfield = f /\ UNCHANGED <<index, hvars>>
      /\ \/ f # "mark" /\ wstep' = "move" /\ wfield' = NextField[f] /\ m_tasks' = m_tasks
         \/ f = "mark" /\ Pop
  BY DEF Field, Pop
<1> HIDE DEF MoveField
<1>6. /\ m_visits' \in [Id -> Visit \cup {NoVisit}] /\ m_visits'[task.id] = v
      /\ \A i \in Id : i # task.id => m_visits'[i] = m_visits[i]
      /\ v # NoVisit /\ v[f] = task.new[f]
      /\ \A g \in Field : g # f => v[g] = old[g]
  <2>1. v # NoVisit /\ v[f] = task.new[f] /\ \A g \in Field : g # f => v[g] = old[g]
    <3>1. DOMAIN old = Field
      BY <1>2 DEF Visit, Field
    <3> QED  BY <1>2, <1>3, <3>1, VisitFacts
  <2> QED  BY <1>1, <1>2, <1>4, <2>1 DEF TypeOK
<1>7. /\ TempOK' /\ UncontendedAlone' /\ m_tasks' \in Seq(Task)
      /\ \A i \in DOMAIN m_tasks' : m_visits'[m_tasks'[i].id] # NoVisit
      /\ \A h \in Busy' : hid'[h] \in Id /\ m_visits'[hid'[h]] # NoVisit
  BY <1>1, <1>5, <1>6, WorkerKeepsHandlers DEF Pop
<1>8. TypeOK'
  <2>1. /\ wstep' \in {"compare", "move"} /\ wfield' \in Field
        /\ wfield' \notin IndexField => wstep' = "move"
        /\ m_tasks' = <<>> => wstep' = "compare" /\ wfield' = "user"
        /\ wstep' # "compare" => task'.update
    BY <1>1, <1>5, NextFieldFacts DEF Pop, Field, IndexField, WorkerGoto, task
  <2> QED  BY <1>1, <1>5, <1>6, <1>7, <2>1 DEF TypeOK, hvars
<1>9. /\ wfield # "location" => v["location"] = task.new["location"]
      /\ wfield \notin IndexField => v["user"] = task.new["user"]
      /\ wfield = "mark" => v["visited_at"] = task.new["visited_at"]
      /\ v[f] = task.new[f]
  BY <1>1, <1>2, <1>5, <1>6 DEF MovedSoFar, Field, IndexField
<1>10. MovedSoFar'
  <2>1. CASE Pop
    BY <2>1 DEF Pop, MovedSoFar
  <2>2. CASE f # "mark" /\ m_tasks' = m_tasks /\ wfield' = NextField[f]
    <3>1. task' = task /\ old' = v
      BY <1>6, <2>2 DEF task, old
    <3>2. v["location"] = task.new["location"]
      BY <1>5, <1>9
    <3>3. wfield' \notin IndexField => v["user"] = task.new["user"]
      BY <1>5, <1>9, <2>2, NextFieldFacts DEF IndexField
    <3>4. wfield' = "mark" => v["visited_at"] = task.new["visited_at"]
      BY <1>5, <1>9, <2>2, NextFieldFacts
    <3> QED  BY <3>1, <3>2, <3>3, <3>4 DEF MovedSoFar
  <2> QED  BY <1>5, <2>1, <2>2
<1>11. \A i \in Id, g \in IndexField :
         ListKey(i, g) = IF i = task.id THEN task.new[g] ELSE m_visits[i][g]
  BY <1>1 DEF ListKey, Changing, Past
<1>12. \A i \in Id, g \in IndexField :
         ListKey(i, g)' = ListKey(i, g) /\ ~Between(i, g)' /\ ~Between(i, g)
  <2>1. CASE m_tasks' = m_tasks /\ wstep' = "move"
    BY <1>1, <1>6, <1>11, <2>1 DEF ListKey, Changing, Past, Between, task
  <2>2. CASE f = "mark" /\ Pop
    <3>1. \A i \in Id, g \in IndexField : ListKey(i, g)' = m_visits'[i][g] /\ ~Between(i, g)'
      BY <1>1, <1>5, <2>2, PopFacts DEF hvars
    <3>2. \A g \in IndexField : v[g] = task.new[g]
      BY <1>5, <1>9, <2>2 DEF IndexField
    <3> QED  BY <1>1, <1>6, <1>11, <3>1, <3>2 DEF Between
  <2> QED  BY <1>5, <2>1, <2>2
<1>13. \A i \in Id : m_visits'[i] # NoVisit <=> m_visits[i] # NoVisit
  BY <1>1, <1>6, TaskFacts
<1>14. \A i \in Id, g \in IndexField : InsertPending(i, g) => InsertPending(i, g)'
  <2>1. CASE m_tasks' = m_tasks
    BY <1>1, <1>5, <2>1, TaskFacts DEF InsertPending, hvars
  <2>2. CASE Pop
    BY <1>1, <1>5, <2>2, PopFacts DEF hvars
  <2> QED  BY <1>5, <2>1, <2>2
<1>15. IndexSound'
  BY <1>1, <1>5, <1>12, <1>13 DEF IndexSound, TypeOK
<1>16. IndexComplete'
  BY <1>1, <1>5, <1>12, <1>13, <1>14 DEF IndexComplete
<1> QED  BY <1>7, <1>8, <1>10, <1>15, <1>16 DEF IInv, TempOK

\* Every step preserves the inductive invariant.
LEMMA NextIInv == IInv /\ [Next]_vars => IInv'
<1> SUFFICES ASSUME IInv, [Next]_vars PROVE IInv'
  OBVIOUS
<1>1. CASE \E h \in Handler : HandlerNext(h)
  BY <1>1, InsertVisitIInv, AnnounceInsertIInv, BeginUpdateIInv, CopyFieldIInv, PushUpdateIInv,
     RejectUpdateIInv DEF HandlerNext
<1>2. CASE WorkerNext
  BY <1>2, EraseOldIInv, EraseLastIInv, InsertNewIInv, SameKeyIInv, ListInsertedIInv,
     InsertEmptyKeyIInv, MoveFieldIInv DEF WorkerNext
<1>3. CASE UNCHANGED vars
  <2> USE <1>3 DEF vars, wvars, hvars
  <2>1. TypeOK' /\ TempOK'
    BY DEF IInv, TypeOK, TempOK, Busy, task
  <2>2. MovedSoFar' /\ IndexSound'
    BY DEF IInv, MovedSoFar, IndexSound, old, task, ListKey, Between, Changing, Past
  <2>3. IndexComplete'
    <3>1. IndexComplete
      BY DEF IInv
    <3>2. \A i, f : /\ InsertPending(i, f)' = InsertPending(i, f) /\ ListKey(i, f)' = ListKey(i, f)
                    /\ Between(i, f)' = Between(i, f)
      BY DEF InsertPending, task, ListKey, Between, Changing, Past
    <3> QED  BY <3>1, <3>2 DEF IndexComplete
  <2>4. UncontendedAlone'
    BY DEF IInv, UncontendedAlone, UpdateQueued, Updating
  <2> QED  BY <2>1, <2>2, <2>3, <2>4 DEF IInv, TempOK
<1> QED  BY <1>1, <1>2, <1>3 DEF Next

\* The inductive invariant holds of every reachable state.
LEMMA Invariance == Spec => []IInv
BY InitIInv, NextIInv, PTL DEF Spec

-------------------------------------------------------------------------------
(* The theorems about VisitIndex *)

\* Queued tasks and requests under way are always about visits that exist.
THEOREM TypeCorrect == Spec => []TypeOK
<1>1. IInv => TypeOK
  BY DEF IInv
<1> QED  BY <1>1, Invariance, PTL

\* No list ever holds a visit that does not belong on it, however updates of
\* the visit overlap or overtake its insertion.
THEOREM IndexesSound == Spec => []IndexSound
<1>1. IInv => IndexSound
  BY DEF IInv
<1> QED  BY <1>1, Invariance, PTL

\* A visit is missing from the list of its user or location only until its
\* insertion is served, or between the two halves of a change of key, where the
\* erase of an empty list may also have ended the process.
THEOREM IndexesComplete == Spec => []IndexComplete
<1>1. IInv => IndexComplete
  BY DEF IInv
<1> QED  BY <1>1, Invariance, PTL

\* The worker ends the process only for the empty key, or when the visit it takes
\* off a list is the only one with that key that was ever listed.
LEMMA EndsStep == IInv /\ EndsOnlyWhenLast /\ [Next]_vars => EndsOnlyWhenLast'
<1> SUFFICES ASSUME IInv, EndsOnlyWhenLast, [Next]_vars, ~Alive'
             PROVE  EndsOnlyWhenLast'
  BY DEF EndsOnlyWhenLast
<1>1. TypeOK /\ IndexComplete
  BY DEF IInv
<1>2. CASE UNCHANGED vars
  BY <1>2 DEF vars, wvars, hvars, EndsOnlyWhenLast, Alive, task, old, InsertPending, Past
<1>3. ASSUME NEW f \in IndexField, EraseLast(f)
      PROVE  EndsOnlyWhenLast'
  <2>1. /\ m_tasks # <<>> /\ wstep = "compare" /\ wfield = f /\ wfield' = f /\ task.update
        /\ index[f][old[f]] = {task.id} /\ wstep' = "aborted" /\ UNCHANGED <<m_visits, m_tasks, hvars>>
    BY <1>3 DEF EraseLast, WorkerAt, WorkerGoto
  <2>2. task' = task /\ old' = old /\ \A id \in Id : InsertPending(id, f)' <=> InsertPending(id, f)
    BY <2>1 DEF task, old, InsertPending, Past, hvars
  <2>3. ASSUME NEW id \in Id \ {task.id}, m_visits[id] # NoVisit, m_visits[id][f] = old[f]
        PROVE  InsertPending(id, f)
    BY <1>1, <2>1, <2>3 DEF IndexComplete, ListKey, Changing, Between
  <2> QED  BY <2>1, <2>2, <2>3 DEF EndsOnlyWhenLast
<1>4. ASSUME NEW f \in IndexField, InsertEmptyKey(f)
      PROVE  EndsOnlyWhenLast'
  <2>1. /\ wfield' = f /\ UNCHANGED <<m_visits, m_tasks>>
        /\ IF task.update THEN task.new[f] = EmptyKey ELSE old[f] = EmptyKey
    BY <1>1, <1>4 DEF InsertEmptyKey, WorkerAt, WorkerGoto, TypeOK
  <2>2. task' = task /\ old' = old
    BY <2>1 DEF task, old
  <2> QED  BY <2>1, <2>2 DEF EndsOnlyWhenLast
<1>5. ASSUME NEW h \in Handler, HandlerNext(h)
      PROVE  FALSE
  BY <1>5 DEF HandlerNext, InsertVisit, AnnounceInsert, BeginUpdate, CopyField, PushUpdate,
     RejectUpdate, Start, Finish, Alive, wvars
<1>6. CASE WorkerNext
  BY <1>3, <1>4, <1>6 DEF WorkerNext, EraseOld, InsertNew, SameKey, AfterIndex, ListInserted, MoveField,
     Pop, WorkerGoto, Alive
<1> QED  BY <1>2, <1>5, <1>6 DEF Next

\* The process is not ended by the worker as long as the lists it takes visits off
\* hold others, but for the empty key.
THEOREM EndsOnlyLast == Spec => []EndsOnlyWhenLast
<1>1. Init => EndsOnlyWhenLast
  BY DEF Init, EndsOnlyWhenLast, Alive
<1> QED  BY <1>1, EndsStep, Invariance, PTL DEF Spec

\* An update that met no other update of its visit was made from an exact copy.
THEOREM CopiesExact == Spec => []UncontendedCopyExact
<1>1. IInv => UncontendedCopyExact
  BY DEF IInv, UncontendedAlone, UncontendedCopyExact, UpdatePc
<1> QED  BY <1>1, Invariance, PTL

-------------------------------------------------------------------------------
(* VisitIndex implements VisitStore *)

\* Adding a visit is a step Insert.
LEMMA InsertInserts ==
  ASSUME IInv, NEW h \in Handler, NEW id \in Id, NEW v \in Visit, InsertVisit(h, id, v)
  PROVE  Store!Insert(id, v)
<1> USE DEF InsertVisit, Start, wvars
<1>1. TypeOK /\ (Started' <=> Started) /\ m_tasks' = m_tasks /\ task' = task
  BY DEF IInv, Started, task
<1>2. m_tasks # <<>> => task.id # id
  BY <1>1, TaskFacts
<1>3. AbstractStore[id] = NoVisit
  BY <1>2 DEF AbstractStore, Changing
<1>4. AbstractStore' = [AbstractStore EXCEPT ![id] = v]
  BY <1>1, <1>2 DEF AbstractStore, Changing, TypeOK
<1> QED  BY <1>1, <1>3, <1>4 DEF Store!Insert, AbstractLog

\* Handing a task over is a step Accept.
LEMMA PushAccepts ==
  ASSUME IInv, NEW e \in Task, m_visits[e.id] # NoVisit,
         m_tasks' = Append(m_tasks, e), UNCHANGED <<m_visits, wvars>>
  PROVE  Store!Next
<1> USE DEF wvars
<1>1. TypeOK /\ m_tasks \in Seq(Task) /\ e.id \in Id
  BY DEF IInv, TypeOK, Task
<1>2. /\ m_tasks' # <<>>
      /\ m_tasks # <<>> => task' = task /\ Tail(m_tasks') = Append(Tail(m_tasks), e)
  BY <1>1, AppendFacts DEF task
<1>3. Started' <=> Started
  BY <1>1, <1>2 DEF Started, TypeOK
<1>4. AbstractStore' = AbstractStore
  BY <1>2, <1>3 DEF AbstractStore, Changing, Started
<1>5. AbstractLog' = Append(AbstractLog, e)
  BY <1>2, <1>3 DEF AbstractLog, Started
<1>6. AbstractStore[e.id] # NoVisit
  BY <1>1, TaskFacts, VisitFacts DEF AbstractStore, Started
<1>7. Store!Accept(e)
  BY <1>4, <1>5, <1>6 DEF Store!Accept
<1> QED  BY <1>7 DEF Store!Next, Store!Write, Task

\* The worker's first step for a task is the step Apply.
LEMMA StartApplies ==
  ASSUME IInv, ~Started, Started', UNCHANGED <<m_visits, m_tasks>>
  PROVE  Store!Apply
<1>1. TypeOK /\ m_tasks # <<>> /\ task' = task
  BY DEF IInv, Started, task
<1>2. AbstractLog = m_tasks /\ AbstractLog' = Tail(m_tasks) /\ AbstractStore = m_visits
  BY <1>1 DEF AbstractLog, AbstractStore, TypeOK
<1>3. AbstractStore' = IF task.update THEN [m_visits EXCEPT ![task.id] = task.new] ELSE m_visits
  BY <1>1, TaskFacts DEF AbstractStore, TypeOK, Changing
<1> QED  BY <1>1, <1>2, <1>3 DEF Store!Apply, task

\* As long as the worker is busy with a task, nothing changes.
LEMMA WorkingStutters ==
  ASSUME IInv, Started, Started', m_tasks' = m_tasks,
         \A i \in Id : ~Changing(i) => m_visits'[i] = m_visits[i]
  PROVE  UNCHANGED <<AbstractStore, AbstractLog>>
BY DEF AbstractStore, AbstractLog, Changing, task

\* When it is done with an update, the visit is what the update made of it.
LEMMA MovedWhole ==
  ASSUME IInv, MoveField("mark")
  PROVE  UNCHANGED <<AbstractStore, AbstractLog>>
<1> USE DEF MoveField, WorkerAt
<1>1. TypeOK /\ m_tasks # <<>> /\ task.update /\ Started /\ ~Started'
  BY DEF IInv, TypeOK, Started, Pop, WorkerGoto
<1>2. /\ task.id \in Id /\ task.new \in Visit /\ old \in Visit /\ old = m_visits[task.id]
      /\ old["location"] = task.new["location"] /\ old["user"] = task.new["user"]
      /\ old["visited_at"] = task.new["visited_at"]
  BY <1>1, TaskFacts DEF old, IInv, MovedSoFar, IndexField
<1>3. [old EXCEPT !["mark"] = task.new["mark"]] = task.new
  BY <1>2 DEF Visit, Field
<1>4. m_visits' = [m_visits EXCEPT ![task.id] = task.new]
  BY <1>2, <1>3
<1>5. AbstractStore = m_visits' /\ AbstractStore' = m_visits'
  <2> HIDE DEF MoveField
  <2>1. m_visits \in [Id -> Visit \cup {NoVisit}]
    BY <1>1 DEF TypeOK
  <2>2. \A i \in Id : AbstractStore[i] = m_visits'[i] /\ AbstractStore'[i] = m_visits'[i]
    BY <1>1, <1>2, <1>4, <2>1 DEF AbstractStore, Changing
  <2>3. m_visits' = [i \in Id |-> m_visits'[i]]
    BY <1>4, <2>1
  <2> QED  BY <2>2, <2>3 DEF AbstractStore
<1>6. AbstractLog = m_tasks' /\ AbstractLog' = m_tasks'
  BY <1>1 DEF AbstractLog, Pop
<1> QED  BY <1>5, <1>6

\* Every step of the worker is Apply or changes nothing.
LEMMA WorkerApplies ==
  ASSUME IInv, WorkerNext
  PROVE  Store!Apply \/ UNCHANGED <<AbstractStore, AbstractLog>>
<1>1. TypeOK
  BY DEF IInv
<1>2. ASSUME NEW f \in IndexField, \/ EraseOld(f) \/ EraseLast(f) \/ InsertNew(f) \/ SameKey(f)
                                    \/ InsertEmptyKey(f)
      PROVE  Store!Apply \/ UNCHANGED <<AbstractStore, AbstractLog>>
  <2>1. Started' /\ UNCHANGED <<m_visits, m_tasks>>
    BY <1>2 DEF EraseOld, EraseLast, InsertNew, SameKey, InsertEmptyKey, AfterIndex, WorkerGoto,
       WorkerAt, Started, IndexField
  <2> QED  BY <2>1, StartApplies, WorkingStutters
<1>3. ASSUME NEW f \in IndexField, ListInserted(f)
      PROVE  Store!Apply \/ UNCHANGED <<AbstractStore, AbstractLog>>
  <2> USE <1>3 DEF ListInserted, WorkerAt, WorkerGoto
  <2>1. CASE f = "user"
    <3>1. Started' /\ ~Started /\ UNCHANGED <<m_visits, m_tasks>>
      BY <2>1 DEF Started
    <3> QED  BY <3>1, StartApplies
  <2>2. CASE f = "location"
    <3>1. Started /\ ~Started' /\ m_visits' = m_visits /\ m_tasks' = Tail(m_tasks) /\ ~task.update
      BY <2>2 DEF Started, Pop
    <3>2. AbstractStore' = AbstractStore
      BY <3>1 DEF AbstractStore, Changing
    <3> QED  BY <3>1, <3>2 DEF AbstractLog
  <2> QED  BY <2>1, <2>2 DEF IndexField
<1>4. ASSUME NEW f \in Field, MoveField(f)
      PROVE  UNCHANGED <<AbstractStore, AbstractLog>>
  <2>1. CASE f = "mark"
    BY <1>4, <2>1, MovedWhole
  <2>2. CASE f # "mark"
    <3> USE <1>4, <2>2 DEF MoveField, WorkerAt, WorkerGoto
    <3>1. Started /\ Started' /\ m_tasks' = m_tasks /\ task.update
      BY <1>1 DEF Started, TypeOK, Field
    <3>2. \A i \in Id : ~Changing(i) => m_visits'[i] = m_visits[i]
      BY <1>1, <3>1 DEF TypeOK, Changing
    <3> QED  BY <3>1, <3>2, WorkingStutters
  <2> QED  BY <2>1, <2>2
<1> QED  BY <1>2, <1>3, <1>4 DEF WorkerNext

\* Every step of a handler is Insert, Accept, or changes nothing.
LEMMA HandlerAccepts ==
  ASSUME IInv, NEW h \in Handler, HandlerNext(h)
  PROVE  Store!Next \/ UNCHANGED <<AbstractStore, AbstractLog>>
<1>1. TypeOK /\ TempOK
  BY DEF IInv, TempOK
<1>2. hpc[h] # "idle" => hid[h] \in Id /\ m_visits[hid[h]] \in Visit /\ m_visits[hid[h]] # NoVisit
  BY <1>1 DEF TypeOK, Busy
<1>3. ASSUME NEW id \in Id, NEW v \in Visit, InsertVisit(h, id, v)
      PROVE  Store!Next
  BY <1>3, InsertInserts DEF Store!Next
<1>4. CASE AnnounceInsert(h)
  <2>1. PICK e \in Task : e = InsertTask(hid[h])
    BY <1>2, <1>4 DEF AnnounceInsert, Finish, InsertTask, Task
  <2>2. /\ m_visits[e.id] # NoVisit /\ m_tasks' = Append(m_tasks, e)
        /\ UNCHANGED <<m_visits, wvars>>
    BY <1>2, <1>4, <2>1 DEF AnnounceInsert, Finish, InsertTask
  <2> QED  BY <2>2, PushAccepts
<1>5. ASSUME NEW body \in Body, PushUpdate(h, body)
      PROVE  Store!Next
  <2>1. hid[h] \in Id /\ temp[h] \in Visit /\ m_visits[hid[h]] # NoVisit
    BY <1>1, <1>2, <1>5 DEF TempOK, PushUpdate, Finish, UpdatePc
  <2>2. PICK e \in Task : e = UpdateTask(hid[h], Merge(temp[h], body))
    BY <2>1, MergeIsVisit DEF UpdateTask, Task
  <2>3. /\ m_visits[e.id] # NoVisit /\ m_tasks' = Append(m_tasks, e)
        /\ UNCHANGED <<m_visits, wvars>>
    BY <1>5, <2>1, <2>2 DEF PushUpdate, UpdateTask
  <2> QED  BY <2>3, PushAccepts
<1>6. UNCHANGED <<m_visits, m_tasks, wvars>> => UNCHANGED <<AbstractStore, AbstractLog>>
  BY DEF wvars, AbstractStore, AbstractLog, Changing, Started, task
<1> QED  BY <1>3, <1>4, <1>5, <1>6 DEF HandlerNext, BeginUpdate, CopyField, RejectUpdate

\* Although visits are written field by field and no lock covers them, writes
\* take effect whole and in the order of acceptance.
THEOREM Refinement == Spec => ImplementsVisitStore
<1>1. Init => Store!Init
  BY DEF Init, Store!Init, AbstractStore, AbstractLog, Started
<1>2. IInv /\ [Next]_vars => [Store!Next]_Store!vars
  <2>1. UNCHANGED vars => UNCHANGED <<AbstractStore, AbstractLog>>
    BY DEF vars, wvars, AbstractStore, AbstractLog, Changing, Started, task
  <2> QED  BY <2>1, WorkerApplies, HandlerAccepts DEF Next, Store!Next, Store!vars
<1> QED  BY <1>1, <1>2, Invariance, PTL DEF Spec, ImplementsVisitStore, Store!Spec

-------------------------------------------------------------------------------
(* Query: sums of marks *)

\* ms are the marks of the visits ids, one of each.
Added(ms, ids) == Sum(ms) = SumFunction([id \in ids |-> Mark(id)]) /\ Len(ms) = Cardinality(ids)

\* Sums of marks are numbers, and of one mark more they are greater by it.
LEMMA SumType ==
  ASSUME NEW ms \in Seq([of : Id, mark : Nat])
  PROVE  Sum(ms) \in Nat /\ Len(ms) \in Nat /\ Average(ms) \in Averages
<1> DEFINE f == [i \in DOMAIN ms |-> ms[i].mark]
<1>1. DOMAIN f = 1 .. Len(ms) /\ Len(ms) \in Nat
  <2>1. DOMAIN ms = 1 .. Len(ms) /\ Len(ms) \in Nat
    BY LenProperties
  <2> QED  BY <2>1
<1>2. IsFiniteSet(DOMAIN f)
  BY <1>1, FS_Interval
<1>3. \A i \in DOMAIN f : f[i] \in Nat
  <2>1. \A i \in 1 .. Len(ms) : ms[i] \in [of : Id, mark : Nat]
    BY ElementOfSeq
  <2>2. DOMAIN ms = 1 .. Len(ms)
    BY LenProperties
  <2> QED  BY <2>1, <2>2
<1> HIDE DEF f
<1>4. SumFunction(f) \in Nat
  BY <1>2, <1>3, SumIsNat
<1> QED  BY <1>1, <1>4 DEF Sum, Average, Averages, f

LEMMA NothingAdded == ASSUME NEW ms, ms = <<>> PROVE Added(ms, {})
<1>1. SumFunction([i \in DOMAIN ms |-> ms[i].mark]) = 0
  BY SumOfNone
<1>2. SumFunction([id \in {} |-> Mark(id)]) = 0
  BY SumOfNone
<1> QED  BY <1>1, <1>2, FS_EmptySet DEF Added, Sum

LEMMA OneMoreAdded ==
  ASSUME NEW ids, IsFiniteSet(ids), NEW id, id \notin ids, Mark(id) \in Nat,
         \A i \in ids : Mark(i) \in Nat,
         NEW ms \in Seq([of : Id, mark : Nat]), Added(ms, ids),
         NEW new \in [of : Id, mark : Nat], new.mark = Mark(id)
  PROVE  Added(Append(ms, new), ids \cup {id})
<1> DEFINE f == [i \in DOMAIN ms |-> ms[i].mark]
           h == [i \in DOMAIN Append(ms, new) |-> Append(ms, new)[i].mark]
           n == Len(ms) + 1
<1>1. /\ DOMAIN f = 1 .. Len(ms) /\ Len(ms) \in Nat
      /\ DOMAIN h = DOMAIN f \cup {n} /\ n \notin DOMAIN f
      /\ \A i \in DOMAIN f : f[i] = h[i] /\ f[i] \in Nat
      /\ h[n] = Mark(id)
      /\ Len(Append(ms, new)) = n
  <2>1. /\ Len(ms) \in Nat /\ DOMAIN ms = 1 .. Len(ms)
        /\ DOMAIN Append(ms, new) = DOMAIN ms \cup {n}
        /\ \A i \in DOMAIN ms : Append(ms, new)[i] = ms[i] /\ ms[i] \in [of : Id, mark : Nat]
        /\ Append(ms, new)[n] = new /\ Len(Append(ms, new)) = n
    <3>1. \A i \in 1 .. Len(ms) : ms[i] \in [of : Id, mark : Nat]
      BY ElementOfSeq
    <3>2. DOMAIN ms = 1 .. Len(ms) /\ Len(ms) \in Nat /\ Len(Append(ms, new)) = n
      BY LenProperties, AppendProperties
    <3> QED  BY <3>1, <3>2, AppendFacts
  <2> QED  BY <2>1
<1>2. IsFiniteSet(DOMAIN f)
  BY <1>1, FS_Interval
<1> HIDE DEF f, h
<1>3. SumFunction(h) = Mark(id) + SumFunction(f)
  <2> HIDE DEF n
  <2>1. \A i \in DOMAIN h : h[i] \in Nat
    BY <1>1
  <2>2. SumFunction(h) = h[n] + SumFunction(f)
    BY <1>1, <1>2, <2>1, SumOfOneMore
  <2> QED  BY <1>1, <2>2
<1> DEFINE g == [i \in ids |-> Mark(i)]
           k == [i \in ids \cup {id} |-> Mark(i)]
<1>4. SumFunction(k) = Mark(id) + SumFunction(g)
  <2>1. /\ IsFiniteSet(DOMAIN g) /\ id \notin DOMAIN g /\ DOMAIN k = DOMAIN g \cup {id}
        /\ \A i \in DOMAIN k : k[i] \in Nat
        /\ \A i \in DOMAIN g : g[i] = k[i]
        /\ k[id] = Mark(id)
    OBVIOUS
  <2> HIDE DEF g, k
  <2> QED  BY <2>1, SumOfOneMore
<1>5. Cardinality(ids \cup {id}) = Cardinality(ids) + 1
  BY FS_AddElement
<1>6. SumFunction(f) = SumFunction(g)
  BY DEF Added, Sum, f, g
<1>7. SumFunction(h) = SumFunction(k)
  BY <1>3, <1>4, <1>6
<1> QED  BY <1>1, <1>5, <1>7 DEF Added, Sum, h, k

-------------------------------------------------------------------------------
(* Query: its inductive invariant *)

USE NumbersOK, RequestOK, KnownOK

\* All limits of a query at once.
Passes(q, at, key) == PassesFrom(q, at) /\ PassesTo(q, at) /\ key \in q.fits

ReaderTypes ==
  /\ rpc \in [Reader -> {"idle", "walk", "from", "to", "mark", "at", "add",
                         "print", "printed", "append", "done"}]
  /\ query \in [Reader -> Request \cup {None}]
  /\ met \in [Reader -> Seq(Id)]
  /\ cur \in [Reader -> {None} \cup [of : Id, key : Key]]
  /\ row \in [Reader -> {None} \cup Text]
  /\ rows \in [Reader -> SUBSET [key : Nat, text : Text]]
  /\ touched \in [Reader -> SUBSET Id]

\* What a reader has between requests and while it is answering one.
Kept(r) ==
  /\ rpc[r] = "idle" => met[r] = <<>> /\ rows[r] = {} /\ touched[r] = {}
  /\ rpc[r] # "idle" => query[r] \in Request
  /\ rpc[r] \in {"from", "to", "mark", "at", "add"} <=> cur[r] # None
  /\ rpc[r] \in {"at", "add"} => row[r] \in Text /\ row[r].of = cur[r].of
  /\ cur[r] # None =>
       /\ cur[r] \in [of : Id, key : Key]
       /\ cur[r].of \in Range(met[r])
       /\ cur[r].key \in Known[Other(query[r].field)]
       /\ m_visits[cur[r].of] \in Visit

\* Visit id has key k in field f, or the update being served gives it that key.
Friend(id, f, k) ==
  \/ m_visits[id][f] = k
  \/ Changing(id) /\ Past(f) /\ task.new[f] = k

Friends(r) ==
  \A id \in Range(met[r]) \ touched[r] : Friend(id, query[r].field, query[r].key)

\* The visit that get_visits is at, as far as it has been looked at.
Current(r) ==
  LET id == cur[r].of
  IN cur[r] # None /\ id \notin touched[r] =>
       /\ cur[r].key = m_visits[id]["location"]
       /\ rpc[r] # "from" => PassesFrom(query[r], At(id))
       /\ rpc[r] \notin {"from", "to"} => Passes(query[r], At(id), cur[r].key)
       /\ rpc[r] \in {"at", "add"} => row[r].mark = Mark(id)
       /\ rpc[r] = "add" => row[r].at = At(id)

\* The answer to get_visits so far, if the list has not changed.
Shown(r) ==
  /\ \A id \in Range(met[r]) \ touched[r] : id \in List(r)
  /\ \A id \in Range(met[r]) \ touched[r] :
       (cur[r] = None \/ cur[r].of # id) /\ Selected(query[r], id) =>
         \E x \in rows[r] : x.key = At(id)
  /\ \A x \in rows[r] : LET id == x.text.of IN id \notin touched[r] =>
       /\ id \in Range(met[r])
       /\ Selected(query[r], id)
       /\ x.key = At(id)
       /\ x.text.at = At(id)
       /\ x.text.mark = Mark(id)
  /\ rpc[r] \in {"print", "printed", "append", "done"} /\ query[r].key \in Known["user"] =>
       List(r) \subseteq Range(met[r])

ReaderInv(r) ==
  /\ Kept(r)
  /\ r \in Asked => Friends(r)
  /\ r \in Asked /\ r \notin disturbed /\ query[r].field = "user" => Current(r) /\ Shown(r)

QInv == IInv /\ ReaderTypes /\ \A r \in Reader : ReaderInv(r)

LEMMA InitQInv == QueryInit => QInv
<1> SUFFICES ASSUME QueryInit PROVE QInv
  OBVIOUS
<1>1. IInv
  BY InitIInv DEF QueryInit
<1>2. ReaderTypes
  BY DEF QueryInit, ReaderTypes
<1>3. \A r \in Reader : ReaderInv(r)
  BY DEF QueryInit, ReaderInv, Kept, Asked
<1> QED  BY <1>1, <1>2, <1>3 DEF QInv

-------------------------------------------------------------------------------
(* What the writers do to a reader *)

\* The key of a visit that does not change, or the update that gives it its new
\* one, stay; an update ends when every field has its new value.
LEMMA FriendsStay ==
  ASSUME IInv, Next, NEW CONSTANT id \in Id, NEW CONSTANT f \in IndexField, NEW CONSTANT k,
         m_visits'[id] = m_visits[id], Friend(id, f, k)
  PROVE  Friend(id, f, k)'
<1>1. CASE m_visits[id][f] = k
  BY <1>1 DEF Friend
<1>2. CASE Changing(id) /\ Past(f) /\ task.new[f] = k
  <2>1. m_tasks \in Seq(Task) /\ m_tasks # <<>>
    BY <1>2 DEF IInv, TypeOK, Changing
  <2>2. CASE WorkerNext
    <3>1. ASSUME NEW g \in IndexField, \/ EraseOld(g) \/ EraseLast(g) \/ InsertNew(g)
                                      \/ SameKey(g) \/ ListInserted(g) \/ InsertEmptyKey(g)
          PROVE  Friend(id, f, k)'
      <4>1. ~ListInserted(g)
        BY <1>2 DEF Changing, ListInserted
      <4>2. m_tasks' = m_tasks /\ task' = task
        BY <3>1, <4>1 DEF EraseOld, EraseLast, InsertNew, SameKey, InsertEmptyKey, task
      <4>3. Past(f)'
        BY <1>2, <3>1, <4>1 DEF EraseOld, EraseLast, InsertNew, SameKey, InsertEmptyKey, Past, WorkerAt, WorkerGoto, AfterIndex,
           IndexField
      <4> QED  BY <1>2, <4>2, <4>3 DEF Friend, Changing
    <3>2. ASSUME NEW g \in Field, MoveField(g)
          PROVE  Friend(id, f, k)'
      <4>1. CASE g = "mark"
        <5>1. wstep = "move" /\ wfield = "mark"
          BY <3>2, <4>1 DEF MoveField, WorkerAt
        <5>2. m_visits[id][f] = k
          BY <1>2, <5>1 DEF IInv, MovedSoFar, old, IndexField, Changing
        <5> QED  BY <5>2 DEF Friend
      <4>2. CASE g # "mark"
        <5>1. m_tasks' = m_tasks /\ wstep' = "move"
          BY <3>2, <4>2 DEF MoveField, WorkerGoto, Field
        <5> QED  BY <1>2, <5>1 DEF Friend, Changing, Past, task
      <4> QED  BY <4>1, <4>2
    <3> QED  BY <2>2, <3>1, <3>2 DEF WorkerNext
  <2>3. ASSUME NEW h \in Handler, HandlerNext(h)
        PROVE  Friend(id, f, k)'
    <3>1. UNCHANGED <<wstep, wfield>>
      BY <2>3 DEF HandlerNext, InsertVisit, AnnounceInsert, BeginUpdate, CopyField, PushUpdate,
         RejectUpdate, wvars
    <3>2. m_tasks' # <<>> /\ task' = task
      <4>1. CASE m_tasks' = m_tasks
        BY <2>1, <4>1 DEF task
      <4>2. ASSUME NEW e, m_tasks' = Append(m_tasks, e)
            PROVE  m_tasks' # <<>> /\ task' = task
        <5>1. Len(m_tasks) \in Nat /\ Len(m_tasks) # 0
          BY <2>1, EmptySeq
        <5>2. Append(m_tasks, e) # <<>> /\ Append(m_tasks, e)[1] = m_tasks[1]
          BY <2>1, <5>1
        <5> QED  BY <2>1, <4>2, <5>2 DEF task
      <4>3. UNCHANGED m_tasks \/ \E e : m_tasks' = Append(m_tasks, e)
        BY <2>3 DEF HandlerNext, InsertVisit, AnnounceInsert, BeginUpdate, CopyField, PushUpdate,
           RejectUpdate
      <4> QED  BY <4>1, <4>2, <4>3
    <3> QED  BY <1>2, <3>1, <3>2 DEF Friend, Changing, Past
  <2> QED  BY <2>2, <2>3 DEF Next
<1> QED  BY <1>1, <1>2 DEF Friend

\* A visit that exists goes on existing.
LEMMA VisitsStay ==
  ASSUME IInv, Next, NEW CONSTANT id \in Id, m_visits[id] \in Visit
  PROVE  m_visits'[id] \in Visit
<1>1. m_visits' \in [Id -> Visit \cup {NoVisit}]
  <2>1. IInv'
    BY NextIInv
  <2> QED  BY <2>1 DEF IInv, TypeOK
<1>2. m_visits \in [Id -> Visit \cup {NoVisit}]
  BY DEF IInv, TypeOK
<1>3. CASE m_visits' = m_visits
  BY <1>3
<1>4. ASSUME NEW h \in Handler, NEW j \in Id, NEW v \in Visit, InsertVisit(h, j, v)
      PROVE  m_visits'[id] \in Visit
  BY <1>2, <1>4 DEF InsertVisit
<1>5. ASSUME NEW f \in Field, MoveField(f)
      PROVE  m_visits'[id] \in Visit
  <2>1. m_tasks \in Seq(Task) /\ m_tasks # <<>>
    BY <1>5 DEF MoveField, WorkerAt, IInv, TypeOK
  <2>2. task.id \in Id /\ task.new[f] \in Holds(f)
    <3>1. task.id \in Id /\ task.new \in Visit
      BY <2>1, TaskFacts DEF IInv
    <3> QED  BY <3>1, VisitFacts
  <2>3. m_visits' = [m_visits EXCEPT ![task.id] = [m_visits[task.id] EXCEPT ![f] = task.new[f]]]
    BY <1>2, <2>2, <1>5 DEF MoveField
  <2>4. CASE task.id = id
    BY <1>2, <2>2, <2>3, <2>4, VisitFacts
  <2>5. CASE task.id # id
    BY <1>2, <2>2, <2>3, <2>5
  <2> QED  BY <2>4, <2>5
<1>6. \/ UNCHANGED m_visits
      \/ \E h \in Handler, j \in Id, v \in Visit : InsertVisit(h, j, v)
      \/ \E f \in Field : MoveField(f)
  BY DEF Next, HandlerNext, WorkerNext, AnnounceInsert, BeginUpdate, CopyField, PushUpdate,
     RejectUpdate, EraseOld, EraseLast, InsertNew, SameKey, ListInserted, InsertEmptyKey
<1> QED  BY <1>3, <1>4, <1>5, <1>6

LEMMA WriterReaderInv ==
  ASSUME QInv, WriterStep, NEW CONSTANT r \in Reader
  PROVE  ReaderInv(r)'
<1>1. ReaderInv(r) /\ IInv /\ ReaderTypes
  BY DEF QInv
<1>2. /\ UNCHANGED <<rpc, query, met, cur, row, rows, marks, result>>
      /\ Next
      /\ disturbed' = disturbed \cup {s \in Asked : List(s)' # List(s)}
      /\ touched'[r] = IF r \in Asked THEN touched[r] \cup {id \in Id : m_visits'[id] # m_visits[id]}
                                      ELSE {}
  BY DEF WriterStep, reader
<1>3. met[r] \in Seq(Id) /\ Range(met[r]) \subseteq Id
  BY <1>1 DEF ReaderTypes, Range
<1>4. Asked' = Asked
  BY <1>2 DEF Asked
<1>5. Kept(r)'
  <2>1. cur[r] # None => m_visits'[cur[r].of] \in Visit
    BY <1>1, <1>2, <1>3, VisitsStay DEF ReaderInv, Kept
  <2> QED  BY <1>1, <1>2, <2>1 DEF ReaderInv, Kept, Asked
<1>6. ASSUME r \in Asked PROVE Friends(r)'
  <2> SUFFICES ASSUME NEW id \in Range(met[r]), id \notin touched'[r]
               PROVE  Friend(id, query[r].field, query[r].key)'
    BY <1>2 DEF Friends
  <2>1. id \in Id /\ id \notin touched[r] /\ m_visits'[id] = m_visits[id]
    BY <1>2, <1>3, <1>6
  <2>2. PICK f \in IndexField, k \in Key : f = query[r].field /\ k = query[r].key
    BY <1>1, <1>6 DEF ReaderInv, Kept, Asked
  <2>3. Friend(id, f, k)
    BY <1>1, <1>6, <2>1, <2>2 DEF ReaderInv, Friends
  <2>4. Friend(id, f, k)'
    BY <1>1, <1>2, <2>1, <2>3, FriendsStay
  <2> QED  BY <1>2, <2>2, <2>4 DEF Friend
<1>7. ASSUME r \in Asked, r \notin disturbed', query[r].field = "user"
      PROVE  Current(r)' /\ Shown(r)'
  <2>1. r \notin disturbed /\ List(r)' = List(r)
    BY <1>2, <1>7
  <2>2. Current(r) /\ Shown(r)
    BY <1>1, <1>7, <2>1 DEF ReaderInv
  <2>3. /\ touched[r] \subseteq touched'[r]
        /\ \A id \in Id : id \notin touched'[r] => m_visits'[id] = m_visits[id]
    BY <1>2, <1>7
  <2>4. \A id \in Id : id \notin touched'[r] =>
          /\ At(id)' = At(id) /\ Mark(id)' = Mark(id)
          /\ Selected(query[r], id)' = Selected(query[r], id)
    BY <1>2, <2>3 DEF At, Mark, Selected
  <2>5. cur[r] # None => cur[r].of \in Id
    BY <1>1 DEF ReaderInv, Kept
  <2>6. Current(r)'
    BY <1>2, <2>2, <2>3, <2>4, <2>5 DEF Current, Passes, PassesFrom, PassesTo
  <2>7. \A x \in rows[r] : x.text.of \in Id
    BY <1>1 DEF ReaderTypes, Text
  <2>8. Shown(r)'
    BY <1>2, <1>3, <2>1, <2>2, <2>3, <2>4, <2>7 DEF Shown
  <2> QED  BY <2>6, <2>8
<1> QED  BY <1>2, <1>4, <1>5, <1>6, <1>7 DEF ReaderInv

-------------------------------------------------------------------------------
(* What the readers do *)

Unconcerned(s) ==
  /\ rpc'[s] = rpc[s] /\ query'[s] = query[s] /\ met'[s] = met[s]
  /\ cur'[s] = cur[s] /\ row'[s] = row[s] /\ rows'[s] = rows[s]
  /\ touched'[s] = touched[s] /\ (s \in disturbed' <=> s \in disturbed)

\* A step that leaves a reader alone keeps its invariant.
LEMMA OtherReader ==
  ASSUME NEW CONSTANT s \in Reader, ReaderInv(s), UNCHANGED vars, Unconcerned(s)
  PROVE  ReaderInv(s)'
<1>1. UNCHANGED <<m_visits, m_tasks, index, wstep, wfield>>
  BY DEF vars, wvars
<1>2. (s \in Asked)' = (s \in Asked)
  BY DEF Asked, Unconcerned
<1>3. Kept(s)'
  BY <1>1 DEF ReaderInv, Kept, Unconcerned
<1>4. Friends(s)' = Friends(s)
  BY <1>1 DEF Friends, Friend, Changing, Past, task, Unconcerned
<1>5. List(s)' = List(s)
  BY <1>1 DEF List, Unconcerned
<1>6. Current(s)' = Current(s)
  BY <1>1 DEF Current, Passes, PassesFrom, PassesTo, At, Mark, Unconcerned
<1>7. Shown(s)' = Shown(s)
  BY <1>1, <1>5 DEF Shown, Selected, At, Mark, Unconcerned
<1> QED  BY <1>2, <1>3, <1>4, <1>6, <1>7 DEF ReaderInv, Unconcerned

\* What the accepted part of a visit says, while no visit is written.
LEMMA ReadsStay ==
  ASSUME m_visits' = m_visits, NEW CONSTANT r \in Reader, query'[r] = query[r]
  PROVE  \A id : /\ At(id)' = At(id) /\ Mark(id)' = Mark(id)
                 /\ Selected(query[r], id)' = Selected(query[r], id)
<1>1. \A id : At(id)' = At(id) /\ Mark(id)' = Mark(id)
  BY DEF At, Mark
<1>2. \A id : Selected(query[r], id)' = Selected(query[r], id)
  BY DEF Selected, At
<1> QED  BY <1>1, <1>2

LEMMA ReaderStep ==
  ASSUME QInv, NEW CONSTANT r \in Reader, UNCHANGED vars, ReaderTypes', ReaderInv(r)',
         \A s \in Reader \ {r} : Unconcerned(s)
  PROVE  QInv'
<1>1. IInv'
  BY NextIInv DEF QInv
<1>2. \A s \in Reader \ {r} : ReaderInv(s)'
  BY OtherReader DEF QInv
<1> QED  BY <1>1, <1>2 DEF QInv

LEMMA AskQInv ==
  ASSUME QInv, NEW CONSTANT r \in Reader, NEW CONSTANT q \in Request, Ask(r, q)
  PROVE  QInv'
<1>1. /\ rpc[r] = "idle"
      /\ rpc' = [rpc EXCEPT ![r] = IF q.key \in Known[q.field] THEN "walk" ELSE "done"]
      /\ query' = [query EXCEPT ![r] = q]
      /\ UNCHANGED <<vars, met, cur, row, rows, disturbed, touched>>
  BY DEF Ask, Goto, history
<1>2. ReaderTypes'
  BY <1>1 DEF QInv, ReaderTypes
<1>3. \A s \in Reader \ {r} : Unconcerned(s)
  BY <1>1 DEF QInv, ReaderTypes, Unconcerned
<1>4. /\ rpc'[r] = IF q.key \in Known[q.field] THEN "walk" ELSE "done"
      /\ query'[r] = q /\ met'[r] = <<>> /\ rows'[r] = {} /\ touched'[r] = {} /\ cur'[r] = None
  BY <1>1 DEF QInv, ReaderTypes, ReaderInv, Kept
<1>5. Range(met'[r]) = {}
  BY <1>4 DEF Range
<1>6. ReaderInv(r)'
  BY <1>4, <1>5 DEF ReaderInv, Kept, Friends, Current, Shown
<1> QED  BY <1>1, <1>2, <1>3, <1>6, ReaderStep

\* The elements met so far and one more.
LEMMA RangeAppend ==
  ASSUME NEW S, NEW s \in Seq(S), NEW e \in S
  PROVE  Append(s, e) \in Seq(S) /\ Range(Append(s, e)) = Range(s) \cup {e}
<1>1. /\ Append(s, e) \in Seq(S)
      /\ DOMAIN Append(s, e) = DOMAIN s \cup {Len(s) + 1}
      /\ \A i \in DOMAIN s : Append(s, e)[i] = s[i]
      /\ Append(s, e)[Len(s) + 1] = e
  BY AppendFacts
<1> QED  BY <1>1 DEF Range

\* A visit on the list of a user or location that exists is a friend.
LEMMA ListedIsFriend ==
  ASSUME IInv, NEW f \in IndexField, NEW k \in Key, NEW id \in index[f][k]
  PROVE  id \in Id /\ m_visits[id] \in Visit /\ Friend(id, f, k)
BY DEF IInv, TypeOK, IndexSound, ListKey, Friend

LEMMA WalkQInv ==
  ASSUME QInv, NEW CONSTANT r \in Reader, Walk(r)
  PROVE  QInv'
<1>1. rpc[r] = "walk" /\ UNCHANGED <<vars, query, row, rows, disturbed, touched>>
  BY DEF Walk, history
<1>2. PICK id \in List(r) :
        /\ met' = [met EXCEPT ![r] = Append(@, id)]
        /\ LET other == Other(query[r].field)
               joined == m_visits[id] # NoVisit /\ m_visits[id][other] \in Known[other]
           IN /\ Goto(r, "walk", IF joined THEN "from" ELSE "walk")
              /\ cur' = [cur EXCEPT ![r] = IF joined THEN [of |-> id, key |-> m_visits[id][other]]
                                           ELSE None]
  BY DEF Walk
<1>3. /\ IInv /\ ReaderTypes /\ ReaderInv(r)
      /\ query[r] \in Request /\ cur[r] = None
  BY <1>1 DEF QInv, ReaderInv, Kept
<1>4. PICK f \in IndexField, k \in Key : f = query[r].field /\ k = query[r].key
  BY <1>3
<1>5. id \in Id /\ m_visits[id] \in Visit /\ m_visits[id] # NoVisit /\ Friend(id, f, k)
  BY <1>2, <1>3, <1>4, ListedIsFriend DEF List
<1>6. Other(f) \in IndexField /\ m_visits[id][Other(f)] \in Key
  BY <1>5, VisitFacts DEF Other, IndexField
<1>7. CASE m_visits[id][Other(f)] \in Known[Other(f)]
  <2>1. /\ rpc' = [rpc EXCEPT ![r] = "from"]
        /\ cur' = [cur EXCEPT ![r] = [of |-> id, key |-> m_visits[id][Other(f)]]]
    BY <1>2, <1>4, <1>5, <1>7 DEF Goto
  <2>2. [of |-> id, key |-> m_visits[id][Other(f)]] \in [of : Id, key : Key]
    BY <1>5, <1>6
  <2>3. Append(met[r], id) \in Seq(Id) /\ Range(Append(met[r], id)) = Range(met[r]) \cup {id}
    BY <1>3, <1>5, RangeAppend DEF ReaderTypes
  <2>4. ReaderTypes'
    <3>1. met' \in [Reader -> Seq(Id)]
      BY <1>2, <1>3, <2>3 DEF ReaderTypes
    <3>2. cur' \in [Reader -> {None} \cup [of : Id, key : Key]]
      BY <1>3, <2>1, <2>2 DEF ReaderTypes
    <3>3. rpc' \in [Reader -> {"idle", "walk", "from", "to", "mark", "at", "add",
                               "print", "printed", "append", "done"}]
      BY <1>3, <2>1 DEF ReaderTypes
    <3> QED  BY <1>1, <1>3, <3>1, <3>2, <3>3 DEF ReaderTypes
  <2>5. \A s \in Reader \ {r} : Unconcerned(s)
    BY <1>1, <1>2, <1>3, <2>1 DEF ReaderTypes, Unconcerned
  <2>6. /\ rpc'[r] = "from" /\ met'[r] = Append(met[r], id)
        /\ cur'[r] = [of |-> id, key |-> m_visits[id][Other(f)]] /\ cur'[r] # None
        /\ cur'[r].of = id /\ cur'[r].key = m_visits[id][Other(f)]
    <3>1. rpc'[r] = "from" /\ met'[r] = Append(met[r], id)
      BY <1>2, <1>3, <2>1 DEF ReaderTypes
    <3>2. cur'[r] = [of |-> id, key |-> m_visits[id][Other(f)]]
      BY <1>3, <2>1 DEF ReaderTypes
    <3>3. \A v : [of |-> id, key |-> v] # None
      BY DEF None
    <3> QED  BY <3>1, <3>2, <3>3
  <2>7. UNCHANGED <<m_visits, m_tasks, index, wstep, wfield>>
    BY <1>1 DEF vars, wvars
  <2>8. Kept(r)'
    BY <1>1, <1>3, <1>4, <1>5, <1>7, <2>2, <2>3, <2>6, <2>7 DEF Kept
  <2>9. Friends(r)'
    BY <1>1, <1>3, <1>4, <1>5, <2>3, <2>6, <2>7 DEF ReaderInv, Asked, Friends, Friend, Changing, Past, task
  <2>10. ASSUME r \notin disturbed, query[r].field = "user" PROVE Current(r)' /\ Shown(r)'
    <3>1. Shown(r) /\ f = "user" /\ Other(f) = "location" /\ r \in Asked
      BY <1>1, <1>3, <1>4, <2>10 DEF ReaderInv, Asked, Other
    <3>2. Current(r)'
      BY <2>6, <2>7, <3>1 DEF Current
    <3>3. List(r)' = List(r)
      BY <1>1, <2>7 DEF List
    <3>4. /\ query'[r] = query[r] /\ rows'[r] = rows[r] /\ touched'[r] = touched[r]
          /\ Range(met'[r]) = Range(met[r]) \cup {id} /\ id \in List(r)
          /\ cur[r] = None /\ cur'[r].of = id /\ cur'[r] # None /\ rpc'[r] = "from"
      BY <1>1, <1>2, <1>3, <2>3, <2>6
    <3>5. \A i : /\ At(i)' = At(i) /\ Mark(i)' = Mark(i)
                 /\ Selected(query[r], i)' = Selected(query[r], i)
      BY <2>7, <3>4, ReadsStay
    <3>6. \A i \in Range(met'[r]) \ touched[r] : i \in List(r)
      BY <3>1, <3>4 DEF Shown
    <3>7. ASSUME NEW i \in Range(met'[r]) \ touched[r], i # id, Selected(query[r], i)
          PROVE  \E x \in rows[r] : x.key = At(i)
      BY <3>1, <3>4, <3>7 DEF Shown
    <3>8. \A x \in rows[r] : x.text.of \notin touched[r] =>
            /\ x.text.of \in Range(met'[r]) /\ Selected(query[r], x.text.of)
            /\ x.key = At(x.text.of) /\ x.text.at = At(x.text.of) /\ x.text.mark = Mark(x.text.of)
      BY <3>1, <3>4 DEF Shown
    <3>9. Shown(r)'
      BY <3>3, <3>4, <3>5, <3>6, <3>7, <3>8 DEF Shown
    <3> QED  BY <3>2, <3>9
  <2>11. ReaderInv(r)'
    BY <1>1, <2>8, <2>9, <2>10 DEF ReaderInv
  <2> QED  BY <1>1, <2>4, <2>5, <2>11, ReaderStep
<1>8. CASE m_visits[id][Other(f)] \notin Known[Other(f)]
  <2>1. /\ rpc' = rpc /\ cur' = cur
    BY <1>1, <1>2, <1>3, <1>4, <1>5, <1>8 DEF Goto, ReaderTypes
  <2>3. Append(met[r], id) \in Seq(Id) /\ Range(Append(met[r], id)) = Range(met[r]) \cup {id}
    BY <1>3, <1>5, RangeAppend DEF ReaderTypes
  <2>4. ReaderTypes'
    BY <1>1, <1>2, <1>3, <2>1, <2>3 DEF ReaderTypes
  <2>5. \A s \in Reader \ {r} : Unconcerned(s)
    BY <1>1, <1>2, <1>3, <2>1 DEF ReaderTypes, Unconcerned
  <2>6. met'[r] = Append(met[r], id) /\ rpc'[r] = "walk" /\ cur'[r] = None
    BY <1>1, <1>2, <1>3, <2>1 DEF ReaderTypes
  <2>7. UNCHANGED <<m_visits, m_tasks, index, wstep, wfield>>
    BY <1>1 DEF vars, wvars
  <2>8. Kept(r)'
    BY <1>1, <1>3, <2>6 DEF Kept
  <2>9. Friends(r)'
    BY <1>1, <1>3, <1>4, <1>5, <2>3, <2>6, <2>7 DEF ReaderInv, Asked, Friends, Friend, Changing, Past, task
  <2>10. ASSUME r \notin disturbed, query[r].field = "user" PROVE Current(r)' /\ Shown(r)'
    <3>1. Shown(r) /\ f = "user" /\ Other(f) = "location" /\ r \in Asked
      BY <1>1, <1>3, <1>4, <2>10 DEF ReaderInv, Asked, Other
    <3>2. ~Selected(query[r], id)
      BY <1>4, <1>8 DEF Selected
    <3>3. List(r)' = List(r)
      BY <1>1, <2>7 DEF List
    <3>4. /\ query'[r] = query[r] /\ rows'[r] = rows[r] /\ touched'[r] = touched[r]
          /\ Range(met'[r]) = Range(met[r]) \cup {id} /\ id \in List(r)
          /\ cur[r] = None /\ cur'[r] = None /\ rpc'[r] = "walk"
      BY <1>1, <1>2, <1>3, <2>3, <2>6
    <3>5. \A i : /\ At(i)' = At(i) /\ Mark(i)' = Mark(i)
                 /\ Selected(query[r], i)' = Selected(query[r], i)
      BY <2>7, <3>4, ReadsStay
    <3>6. Shown(r)'
      BY <3>1, <3>2, <3>3, <3>4, <3>5 DEF Shown
    <3> QED  BY <2>6, <3>6 DEF Current
  <2>11. ReaderInv(r)'
    BY <1>1, <2>8, <2>9, <2>10 DEF ReaderInv
  <2> QED  BY <1>1, <2>4, <2>5, <2>11, ReaderStep
<1> QED  BY <1>7, <1>8

\* The steps of a query on the visit it is at: they move on, and may write the
\* visit's text; the filter drops a visit that is not selected.

\* The two limits of time, as Selected says them.
LEMMA LimitsSelected ==
  ASSUME QInv, NEW CONSTANT r \in Reader, cur[r] # None
  PROVE  LET id == cur[r].of
         IN /\ id \in Id /\ m_visits[id] \in Visit /\ At(id) \in Nat /\ query[r] \in Request
            /\ PassesFrom(query[r], At(id)) <=> (query[r].from = Absent \/ query[r].from \in Before(At(id)))
            /\ PassesTo(query[r], At(id)) <=> (query[r].to = Absent \/ At(id) \in Before(query[r].to))
<1> DEFINE id == cur[r].of
<1>1. /\ id \in Id /\ m_visits[id] \in Visit /\ query[r] \in Request /\ query[r].from \in Nat
      /\ query[r].to \in Nat
  BY DEF QInv, ReaderInv, Kept, ReaderTypes
<1>2. At(id) \in Nat
  BY <1>1, VisitFacts DEF At, Field, Holds
<1>3. PICK at \in Nat : at = At(id)
  BY <1>2
<1>4. /\ PassesFrom(query[r], at) <=> (query[r].from = Absent \/ query[r].from \in Before(at))
      /\ PassesTo(query[r], at) <=> (query[r].to = Absent \/ at \in Before(query[r].to))
  BY <1>1 DEF PassesFrom, PassesTo, Before
<1> QED  BY <1>1, <1>3, <1>4

\* A visit that a limit leaves out is not one of those asked for.
LEMMA SkipQInv ==
  ASSUME QInv, NEW CONSTANT r \in Reader, rpc[r] \in {"from", "to"},
         rpc' = [rpc EXCEPT ![r] = "walk"], cur' = [cur EXCEPT ![r] = None],
         UNCHANGED <<vars, query, met, row, rows, disturbed, touched>>,
         Current(r) /\ query[r].field = "user" /\ cur[r].of \notin touched[r]
           => ~Selected(query[r], cur[r].of)
  PROVE  QInv'
<1>1. ReaderTypes /\ ReaderInv(r)
  BY DEF QInv
<1>2. ReaderTypes'
  BY <1>1 DEF ReaderTypes
<1>3. \A s \in Reader \ {r} : Unconcerned(s)
  BY <1>1 DEF ReaderTypes, Unconcerned
<1>4. UNCHANGED <<m_visits, m_tasks, index, wstep, wfield>>
  BY DEF vars, wvars
<1>5. rpc'[r] = "walk" /\ cur'[r] = None
  BY <1>1 DEF ReaderTypes
<1>6. Kept(r)'
  BY <1>1, <1>4, <1>5 DEF ReaderInv, Kept
<1>7. Friends(r)'
  BY <1>1, <1>4 DEF ReaderInv, Asked, Friends, Friend, Changing, Past, task
<1>8. ASSUME r \notin disturbed, query[r].field = "user" PROVE Current(r)' /\ Shown(r)'
  <2>1. Current(r) /\ Shown(r) /\ cur[r] # None
    BY <1>1, <1>8 DEF ReaderInv, Kept, Asked
  <2>2. List(r)' = List(r) /\ query'[r] = query[r]
    BY <1>4 DEF List
  <2>3. \A i : /\ At(i)' = At(i) /\ Mark(i)' = Mark(i)
               /\ Selected(query[r], i)' = Selected(query[r], i)
    BY <1>4, <2>2, ReadsStay
  <2>4. cur[r].of \notin touched[r] => ~Selected(query[r], cur[r].of)
    BY <1>8, <2>1
  <2>5. Shown(r)'
    BY <1>5, <2>1, <2>2, <2>3, <2>4 DEF Shown
  <2> QED  BY <1>5, <2>5 DEF Current
<1>9. ReaderInv(r)'
  BY <1>1, <1>6, <1>7, <1>8 DEF ReaderInv, Asked
<1> QED  BY <1>2, <1>3, <1>9, ReaderStep

\* One that it lets through goes on, with the limits it passed.
LEMMA GoOnQInv ==
  ASSUME QInv, NEW CONSTANT r \in Reader, NEW CONSTANT pc \in {"to", "mark"}, rpc[r] \in {"from", "to"},
         rpc' = [rpc EXCEPT ![r] = pc], UNCHANGED <<vars, query, met, cur, row, rows, disturbed, touched>>,
         Current(r) /\ query[r].field = "user" /\ cur[r].of \notin touched[r]
           => /\ PassesFrom(query[r], At(cur[r].of))
              /\ pc = "mark" => Passes(query[r], At(cur[r].of), cur[r].key)
  PROVE  QInv'
<1>1. ReaderTypes /\ ReaderInv(r)
  BY DEF QInv
<1>2. ReaderTypes'
  BY <1>1 DEF ReaderTypes
<1>3. \A s \in Reader \ {r} : Unconcerned(s)
  BY <1>1 DEF ReaderTypes, Unconcerned
<1>4. UNCHANGED <<m_visits, m_tasks, index, wstep, wfield>>
  BY DEF vars, wvars
<1>5. rpc'[r] = pc
  BY <1>1 DEF ReaderTypes
<1>6. Kept(r)'
  BY <1>1, <1>4, <1>5 DEF ReaderInv, Kept
<1>7. Friends(r)'
  BY <1>1, <1>4 DEF ReaderInv, Asked, Friends, Friend, Changing, Past, task
<1>8. ASSUME r \notin disturbed, query[r].field = "user" PROVE Current(r)' /\ Shown(r)'
  <2>1. Current(r) /\ Shown(r) /\ cur[r] # None
    BY <1>1, <1>8 DEF ReaderInv, Kept, Asked
  <2>2. List(r)' = List(r) /\ query'[r] = query[r]
    BY <1>4 DEF List
  <2>3. \A i : /\ At(i)' = At(i) /\ Mark(i)' = Mark(i)
               /\ Selected(query[r], i)' = Selected(query[r], i)
    BY <1>4, <2>2, ReadsStay
  <2>4. cur[r].of \notin touched[r] =>
          /\ PassesFrom(query[r], At(cur[r].of))
          /\ pc = "mark" => Passes(query[r], At(cur[r].of), cur[r].key)
    BY <1>8, <2>1
  <2>5. Current(r)'
    <3>1. cur'[r] = cur[r] /\ touched'[r] = touched[r]
      OBVIOUS
    <3>2. \A at, key : /\ PassesFrom(query[r], at)' <=> PassesFrom(query[r], at)
                       /\ Passes(query[r], at, key)' <=> Passes(query[r], at, key)
      BY <2>2 DEF Passes, PassesFrom, PassesTo
    <3> QED  BY <1>4, <1>5, <2>1, <2>2, <2>3, <2>4, <3>1 DEF Current, Passes, PassesFrom, PassesTo
  <2>6. Shown(r)'
    BY <1>5, <2>1, <2>2, <2>3 DEF Shown
  <2> QED  BY <2>5, <2>6
<1>9. ReaderInv(r)'
  BY <1>1, <1>6, <1>7, <1>8 DEF ReaderInv, Asked
<1> QED  BY <1>2, <1>3, <1>9, ReaderStep

LEMMA FilterFromQInv ==
  ASSUME QInv, NEW CONSTANT r \in Reader, FilterFrom(r)
  PROVE  QInv'
<1>1. /\ rpc[r] = "from" /\ UNCHANGED <<vars, query, met, row, rows, disturbed, touched>>
      /\ Member(r, "visited_at") = At(cur[r].of)
  BY DEF FilterFrom, Goto, history, Member, At
<1>2. cur[r] # None
  BY <1>1 DEF QInv, ReaderInv, Kept
<1>3. CASE PassesFrom(query[r], At(cur[r].of))
  <2>1. rpc' = [rpc EXCEPT ![r] = "to"] /\ cur' = cur
    BY <1>1, <1>3 DEF FilterFrom, Goto
  <2> QED  BY <1>1, <1>3, <2>1, GoOnQInv
<1>4. CASE ~PassesFrom(query[r], At(cur[r].of))
  <2>1. rpc' = [rpc EXCEPT ![r] = "walk"] /\ cur' = [cur EXCEPT ![r] = None]
    BY <1>1, <1>4 DEF FilterFrom, Goto
  <2>2. ~Selected(query[r], cur[r].of)
    BY <1>2, <1>4, LimitsSelected DEF Selected
  <2> QED  BY <1>1, <2>1, <2>2, SkipQInv
<1> QED  BY <1>3, <1>4

LEMMA FilterToQInv ==
  ASSUME QInv, NEW CONSTANT r \in Reader, FilterTo(r)
  PROVE  QInv'
<1> DEFINE passes == PassesTo(query[r], At(cur[r].of)) /\ cur[r].key \in query[r].fits
<1>1. /\ rpc[r] = "to" /\ UNCHANGED <<vars, query, met, row, rows, disturbed, touched>>
      /\ Member(r, "visited_at") = At(cur[r].of)
  BY DEF FilterTo, Goto, history, Member, At
<1>2. cur[r] # None
  BY <1>1 DEF QInv, ReaderInv, Kept
<1>3. CASE passes
  <2>1. rpc' = [rpc EXCEPT ![r] = "mark"] /\ cur' = cur
    BY <1>1, <1>3 DEF FilterTo, Goto
  <2>2. Current(r) /\ cur[r].of \notin touched[r] => Passes(query[r], At(cur[r].of), cur[r].key)
    BY <1>1, <1>2, <1>3 DEF Current, Passes
  <2> QED  BY <1>1, <2>1, <2>2, GoOnQInv DEF Passes
<1>4. CASE ~passes
  <2>1. rpc' = [rpc EXCEPT ![r] = "walk"] /\ cur' = [cur EXCEPT ![r] = None]
    BY <1>1, <1>4 DEF FilterTo, Goto
  <2>2. Current(r) /\ query[r].field = "user" /\ cur[r].of \notin touched[r]
          => ~Selected(query[r], cur[r].of)
    <3>1. Current(r) /\ cur[r].of \notin touched[r] => cur[r].key = m_visits[cur[r].of]["location"]
      BY <1>2 DEF Current
    <3> QED  BY <1>2, <1>4, <3>1, LimitsSelected DEF Selected, Other
  <2> HIDE DEF passes
  <2> QED  BY <1>1, <2>1, <2>2, SkipQInv
<1> QED  BY <1>3, <1>4

LEMMA WriteMarkQInv ==
  ASSUME QInv, NEW CONSTANT r \in Reader, WriteMark(r)
  PROVE  QInv'
<1>1. /\ rpc[r] = "mark"
      /\ rpc' = [rpc EXCEPT ![r] = "at"]
      /\ row' = [row EXCEPT ![r] = [of |-> cur[r].of, mark |-> Member(r, "mark"), at |-> 0]]
      /\ UNCHANGED <<vars, query, met, cur, rows, disturbed, touched>>
  BY DEF WriteMark, Goto, history
<1>2. ReaderTypes /\ ReaderInv(r)
  BY DEF QInv
<1>3. Member(r, "mark") = Mark(cur[r].of)
  BY DEF Member, Mark
<1>4. cur[r] # None /\ cur[r].of \in Id /\ m_visits[cur[r].of] \in Visit
  BY <1>1, <1>2 DEF ReaderInv, Kept
<1>5. Mark(cur[r].of) \in Nat
  BY <1>4, VisitFacts DEF Mark, Field, Holds
<1>6. [of |-> cur[r].of, mark |-> Mark(cur[r].of), at |-> 0] \in Text
  BY <1>4, <1>5 DEF Text
<1>7. ReaderTypes'
  BY <1>1, <1>2, <1>3, <1>6 DEF ReaderTypes
<1>8. \A s \in Reader \ {r} : Unconcerned(s)
  BY <1>1, <1>2 DEF ReaderTypes, Unconcerned
<1>9. UNCHANGED <<m_visits, m_tasks, index, wstep, wfield>>
  BY <1>1 DEF vars, wvars
<1>10. rpc'[r] = "at" /\ row'[r] = [of |-> cur[r].of, mark |-> Mark(cur[r].of), at |-> 0]
  BY <1>1, <1>2, <1>3 DEF ReaderTypes
<1>11. Kept(r)'
  BY <1>1, <1>2, <1>6, <1>9, <1>10 DEF ReaderInv, Kept
<1>12. Friends(r)'
  BY <1>1, <1>2, <1>9 DEF ReaderInv, Asked, Friends, Friend, Changing, Past, task
<1>13. ASSUME r \notin disturbed, query[r].field = "user" PROVE Current(r)' /\ Shown(r)'
  <2>1. Current(r) /\ Shown(r)
    BY <1>1, <1>2, <1>13 DEF ReaderInv, Asked
  <2>2. List(r)' = List(r)
    BY <1>1, <1>9 DEF List
  <2>3. /\ query'[r] = query[r] /\ rows'[r] = rows[r] /\ touched'[r] = touched[r] /\ met'[r] = met[r]
        /\ cur'[r] = cur[r] /\ rpc'[r] = "at"
    BY <1>1, <1>10
  <2>4. \A i : /\ At(i)' = At(i) /\ Mark(i)' = Mark(i)
               /\ Selected(query[r], i)' = Selected(query[r], i)
    BY <1>9, <2>3, ReadsStay
  <2>5. Current(r)'
    <3>1. row'[r].mark = Mark(cur[r].of)
      BY <1>10
    <3>2. Passes(query[r], At(cur[r].of), cur[r].key)' <=> Passes(query[r], At(cur[r].of), cur[r].key)
      BY <2>3, <2>4 DEF Passes, PassesFrom, PassesTo
    <3> QED  BY <1>1, <1>9, <2>1, <2>3, <2>4, <3>1, <3>2 DEF Current
  <2>6. Shown(r)'
    BY <1>1, <2>1, <2>2, <2>3, <2>4 DEF Shown
  <2> QED  BY <2>5, <2>6
<1>14. ReaderInv(r)'
  BY <1>1, <1>11, <1>12, <1>13 DEF ReaderInv
<1> QED  BY <1>1, <1>7, <1>8, <1>14, ReaderStep

LEMMA WriteAtQInv ==
  ASSUME QInv, NEW CONSTANT r \in Reader, WriteAt(r)
  PROVE  QInv'
<1>1. /\ rpc[r] = "at"
      /\ rpc' = [rpc EXCEPT ![r] = "add"]
      /\ row' = [row EXCEPT ![r].at = Member(r, "visited_at")]
      /\ UNCHANGED <<vars, query, met, cur, rows, disturbed, touched>>
  BY DEF WriteAt, Goto, history
<1>2. ReaderTypes /\ ReaderInv(r)
  BY DEF QInv
<1>3. Member(r, "visited_at") = At(cur[r].of)
  BY DEF Member, At
<1>4. cur[r] # None /\ cur[r].of \in Id /\ m_visits[cur[r].of] \in Visit /\ row[r] \in Text
  BY <1>1, <1>2 DEF ReaderInv, Kept
<1>5. At(cur[r].of) \in Nat
  BY <1>4, VisitFacts DEF At, Field, Holds
<1>6. PICK text \in Text : /\ text.of = row[r].of /\ text.mark = row[r].mark /\ text.at = At(cur[r].of)
                           /\ row' = [row EXCEPT ![r] = text]
  <2>1. [row[r] EXCEPT !.at = At(cur[r].of)] \in Text
    BY <1>4, <1>5 DEF Text
  <2>2. row' = [row EXCEPT ![r] = [row[r] EXCEPT !.at = At(cur[r].of)]]
    BY <1>1, <1>3
  <2> QED  BY <1>4, <2>1, <2>2 DEF Text
<1>7. ReaderTypes'
  <2>1. row' \in [Reader -> {None} \cup Text]
    BY <1>2, <1>6 DEF ReaderTypes
  <2>2. rpc' \in [Reader -> {"idle", "walk", "from", "to", "mark", "at", "add",
                             "print", "printed", "append", "done"}]
    BY <1>1, <1>2 DEF ReaderTypes
  <2> QED  BY <1>1, <1>2, <2>1, <2>2 DEF ReaderTypes
<1>8. \A s \in Reader \ {r} : Unconcerned(s)
  BY <1>1, <1>2, <1>6 DEF ReaderTypes, Unconcerned
<1>9. UNCHANGED <<m_visits, m_tasks, index, wstep, wfield>>
  BY <1>1 DEF vars, wvars
<1>10. rpc'[r] = "add" /\ row'[r] = text
  BY <1>1, <1>2, <1>6 DEF ReaderTypes
<1>11. Kept(r)'
  BY <1>1, <1>2, <1>6, <1>9, <1>10 DEF ReaderInv, Kept
<1>12. Friends(r)'
  BY <1>1, <1>2, <1>9 DEF ReaderInv, Asked, Friends, Friend, Changing, Past, task
<1>13. ASSUME r \notin disturbed, query[r].field = "user" PROVE Current(r)' /\ Shown(r)'
  <2>1. Current(r) /\ Shown(r)
    BY <1>1, <1>2, <1>13 DEF ReaderInv, Asked
  <2>2. List(r)' = List(r)
    BY <1>1, <1>9 DEF List
  <2>3. /\ query'[r] = query[r] /\ rows'[r] = rows[r] /\ touched'[r] = touched[r] /\ met'[r] = met[r]
        /\ cur'[r] = cur[r] /\ rpc'[r] = "add"
    BY <1>1, <1>10
  <2>4. \A i : /\ At(i)' = At(i) /\ Mark(i)' = Mark(i)
               /\ Selected(query[r], i)' = Selected(query[r], i)
    BY <1>9, <2>3, ReadsStay
  <2>5. Current(r)'
    <3>1. row'[r].mark = row[r].mark /\ row'[r].at = At(cur[r].of)
      BY <1>6, <1>10
    <3>2. Passes(query[r], At(cur[r].of), cur[r].key)' <=> Passes(query[r], At(cur[r].of), cur[r].key)
      BY <2>3, <2>4 DEF Passes, PassesFrom, PassesTo
    <3> QED  BY <1>1, <1>9, <2>1, <2>3, <2>4, <3>1, <3>2 DEF Current
  <2>6. Shown(r)'
    BY <1>1, <2>1, <2>2, <2>3, <2>4 DEF Shown
  <2> QED  BY <2>5, <2>6
<1>14. ReaderInv(r)'
  BY <1>1, <1>11, <1>12, <1>13 DEF ReaderInv
<1> QED  BY <1>1, <1>7, <1>8, <1>14, ReaderStep

\* The text is kept under the visit's time, unless another has that time.
LEMMA AddQInv ==
  ASSUME QInv, NEW CONSTANT r \in Reader, Add(r)
  PROVE  QInv'
<1>1. /\ rpc[r] = "add"
      /\ rpc' = [rpc EXCEPT ![r] = "walk"]
      /\ rows' = [rows EXCEPT ![r] = IF \E x \in @ : x.key = Member(r, "visited_at") THEN @
                                     ELSE @ \cup {[key |-> Member(r, "visited_at"), text |-> row[r]]}]
      /\ cur' = [cur EXCEPT ![r] = None]
      /\ row' = [row EXCEPT ![r] = None]
      /\ UNCHANGED <<vars, query, met, disturbed, touched>>
  BY DEF Add, Goto, history
<1>2. ReaderTypes /\ ReaderInv(r)
  BY DEF QInv
<1>3. Member(r, "visited_at") = At(cur[r].of)
  BY DEF Member, At
<1>4. /\ cur[r] # None /\ cur[r].of \in Id /\ m_visits[cur[r].of] \in Visit /\ row[r] \in Text
      /\ row[r].of = cur[r].of /\ query[r] \in Request
      /\ cur[r].of \in Range(met[r]) /\ cur[r].key \in Known[Other(query[r].field)]
  BY <1>1, <1>2 DEF ReaderInv, Kept
<1>5. At(cur[r].of) \in Nat
  BY <1>4, VisitFacts DEF At, Field, Holds
<1>6. PICK R \in SUBSET [key : Nat, text : Text] :
        /\ rows' = [rows EXCEPT ![r] = R]
        /\ rows[r] \subseteq R
        /\ \E x \in R : x.key = At(cur[r].of)
        /\ \A x \in R \ rows[r] : x.key = At(cur[r].of) /\ x.text = row[r]
  <2>1. [key |-> At(cur[r].of), text |-> row[r]] \in [key : Nat, text : Text]
    BY <1>4, <1>5
  <2>2. rows[r] \subseteq [key : Nat, text : Text]
    BY <1>2 DEF ReaderTypes
  <2>3. CASE \E x \in rows[r] : x.key = At(cur[r].of)
    BY <1>1, <1>3, <2>2, <2>3
  <2>4. CASE ~ \E x \in rows[r] : x.key = At(cur[r].of)
    <3> DEFINE S == rows[r] \cup {[key |-> At(cur[r].of), text |-> row[r]]}
    <3>1. rows' = [rows EXCEPT ![r] = S]
      BY <1>1, <1>3, <2>4
    <3>2. S \in SUBSET [key : Nat, text : Text] /\ rows[r] \subseteq S
      BY <2>1, <2>2
    <3>3. \E x \in S : x.key = At(cur[r].of)
      <4>1. [key |-> At(cur[r].of), text |-> row[r]] \in S
        OBVIOUS
      <4>2. [key |-> At(cur[r].of), text |-> row[r]].key = At(cur[r].of)
        OBVIOUS
      <4> QED  BY <4>1, <4>2
    <3>4. \A x \in S \ rows[r] : x.key = At(cur[r].of) /\ x.text = row[r]
      OBVIOUS
    <3> HIDE DEF S
    <3> QED  BY <3>1, <3>2, <3>3, <3>4
  <2> QED  BY <2>3, <2>4
<1>7. ReaderTypes'
  BY <1>1, <1>2, <1>6 DEF ReaderTypes
<1>8. \A s \in Reader \ {r} : Unconcerned(s)
  BY <1>1, <1>2, <1>6 DEF ReaderTypes, Unconcerned
<1>9. UNCHANGED <<m_visits, m_tasks, index, wstep, wfield>>
  BY <1>1 DEF vars, wvars
<1>10. rpc'[r] = "walk" /\ cur'[r] = None /\ rows'[r] = R
  BY <1>1, <1>2, <1>6 DEF ReaderTypes
<1>11. Kept(r)'
  BY <1>1, <1>2, <1>9, <1>10 DEF ReaderInv, Kept
<1>12. Friends(r)'
  BY <1>1, <1>2, <1>9 DEF ReaderInv, Asked, Friends, Friend, Changing, Past, task
<1>13. ASSUME r \notin disturbed, query[r].field = "user" PROVE Current(r)' /\ Shown(r)'
  <2>1. Current(r) /\ Shown(r)
    BY <1>1, <1>2, <1>13 DEF ReaderInv, Asked
  <2>2. List(r)' = List(r)
    BY <1>1, <1>9 DEF List
  <2>3. cur[r].of \notin touched[r] =>
          /\ row[r].of = cur[r].of /\ row[r].mark = Mark(cur[r].of) /\ row[r].at = At(cur[r].of)
          /\ Selected(query[r], cur[r].of)
    <3>1. query[r].from \in Nat /\ query[r].to \in Nat
      BY <1>4
    <3>2. cur[r].of \notin touched[r] =>
            /\ row[r].mark = Mark(cur[r].of) /\ row[r].at = At(cur[r].of)
            /\ cur[r].key = m_visits[cur[r].of]["location"]
            /\ Passes(query[r], At(cur[r].of), cur[r].key)
      BY <1>1, <1>4, <2>1 DEF Current
    <3> DEFINE from == query[r].from
               to == query[r].to
               at == At(cur[r].of)
    <3>3. \A d \in Nat, n \in Nat : n \in Before(d) <=> ~(n >= d)
      BY DEF Before
    <3>4. Other(query[r].field) = "location"
      BY <1>13 DEF Other
    <3>5. cur[r].of \notin touched[r] => Passes(query[r], at, cur[r].key)
      BY <3>2
    <3> HIDE DEF at
    <3>6. cur[r].of \notin touched[r] => /\ from = Absent \/ from \in Before(at)
                                         /\ to = Absent \/ at \in Before(to)
                                         /\ cur[r].key \in query[r].fits
      <4>1. at \in Nat
        BY <1>5 DEF at
      <4> QED  BY <3>1, <3>3, <3>5, <4>1 DEF Passes, PassesFrom, PassesTo
    <3> QED  BY <1>4, <3>2, <3>4, <3>6 DEF Selected, at
  <2>4. \A x \in R : x \in rows[r] \/ (x.key = At(cur[r].of) /\ x.text = row[r])
    BY <1>6
  <2>5. /\ \A id \in Range(met[r]) \ touched[r] : Selected(query[r], id) => \E x \in R : x.key = At(id)
        /\ \A x \in R : LET id == x.text.of IN id \notin touched[r] =>
             id \in Range(met[r]) /\ Selected(query[r], id) /\ x.key = At(id) /\ x.text.at = At(id)
             /\ x.text.mark = Mark(id)
    <3>1. \A id \in Range(met[r]) \ touched[r] : Selected(query[r], id) => \E x \in R : x.key = At(id)
      BY <1>6, <2>1 DEF Shown
    <3>2. ASSUME NEW x \in R, x.text.of \notin touched[r]
          PROVE  LET id == x.text.of IN
             id \in Range(met[r]) /\ Selected(query[r], id) /\ x.key = At(id) /\ x.text.at = At(id)
             /\ x.text.mark = Mark(id)
      <4>1. CASE x \in rows[r]
        BY <2>1, <3>2, <4>1 DEF Shown
      <4>2. CASE x.key = At(cur[r].of) /\ x.text = row[r]
        <5>1. row[r].of = cur[r].of
          BY <1>4
        <5> QED  BY <1>4, <2>3, <3>2, <4>2, <5>1
      <4> QED  BY <2>4, <4>1, <4>2
    <3> QED  BY <3>1, <3>2
  <2>6. /\ query'[r] = query[r] /\ touched'[r] = touched[r] /\ met'[r] = met[r]
        /\ rows'[r] = R /\ rpc'[r] = "walk"
    BY <1>1, <1>10
  <2>7. \A i : /\ At(i)' = At(i) /\ Mark(i)' = Mark(i)
               /\ Selected(query[r], i)' = Selected(query[r], i)
    BY <1>9, <2>6, ReadsStay
  <2>8. Shown(r)'
    BY <2>1, <2>2, <2>5, <2>6, <2>7 DEF Shown
  <2> QED  BY <1>10, <2>8 DEF Current
<1>14. ReaderInv(r)'
  BY <1>1, <1>11, <1>12, <1>13 DEF ReaderInv
<1> QED  BY <1>1, <1>7, <1>8, <1>14, ReaderStep

\* A mark is added for a location's visit.
LEMMA AddMarkQInv ==
  ASSUME QInv, NEW CONSTANT r \in Reader, AddMark(r)
  PROVE  QInv'
<1>1. /\ rpc[r] = "mark" /\ query[r].field = "location"
      /\ rpc' = [rpc EXCEPT ![r] = "walk"]
      /\ cur' = [cur EXCEPT ![r] = None]
      /\ UNCHANGED <<vars, query, met, row, rows, disturbed, touched>>
  BY DEF AddMark, Goto, history
<1>2. ReaderTypes /\ ReaderInv(r)
  BY DEF QInv
<1>3. ReaderTypes'
  BY <1>1, <1>2 DEF ReaderTypes
<1>4. \A s \in Reader \ {r} : Unconcerned(s)
  BY <1>1, <1>2 DEF ReaderTypes, Unconcerned
<1>5. UNCHANGED <<m_visits, m_tasks, index, wstep, wfield>>
  BY <1>1 DEF vars, wvars
<1>6. rpc'[r] = "walk" /\ cur'[r] = None
  BY <1>1, <1>2 DEF ReaderTypes
<1>7. Kept(r)'
  BY <1>1, <1>2, <1>5, <1>6 DEF ReaderInv, Kept
<1>8. Friends(r)'
  BY <1>1, <1>2, <1>5 DEF ReaderInv, Asked, Friends, Friend, Changing, Past, task
<1>9. ReaderInv(r)'
  BY <1>1, <1>7, <1>8 DEF ReaderInv
<1> QED  BY <1>1, <1>3, <1>4, <1>9, ReaderStep

Ended == {"print", "printed", "append", "done"}

\* From the end of the list on only the buffer and the answer are touched.
LEMMA EndedQInv ==
  ASSUME QInv, NEW CONSTANT r \in Reader, NEW CONSTANT to \in Ended,
         rpc[r] \in Ended \cup {"walk"}, rpc' = [rpc EXCEPT ![r] = to],
         rpc[r] = "walk" => List(r) \subseteq Range(met[r]) \/ r \in disturbed,
         UNCHANGED <<vars, query, met, cur, row, rows, disturbed, touched>>
  PROVE  QInv'
<1>1. ReaderTypes /\ ReaderInv(r)
  BY DEF QInv
<1>2. ReaderTypes'
  BY <1>1 DEF ReaderTypes, Ended
<1>3. \A s \in Reader \ {r} : Unconcerned(s)
  BY <1>1 DEF ReaderTypes, Unconcerned
<1>4. UNCHANGED <<m_visits, m_tasks, index, wstep, wfield>>
  BY DEF vars, wvars
<1>5. rpc'[r] = to
  BY <1>1 DEF ReaderTypes
<1>6. Kept(r)'
  BY <1>1, <1>4, <1>5 DEF ReaderInv, Kept, Ended
<1>7. Friends(r)'
  BY <1>1, <1>4 DEF ReaderInv, Asked, Friends, Friend, Changing, Past, task, Ended
<1>8. ASSUME r \notin disturbed, query[r].field = "user" PROVE Current(r)' /\ Shown(r)'
  <2>1. Shown(r) /\ cur[r] = None
    BY <1>1, <1>8 DEF ReaderInv, Kept, Asked, Ended
  <2>2. List(r)' = List(r)
    BY <1>4 DEF List
  <2>3. query[r].key \in Known["user"] => List(r) \subseteq Range(met[r])
    BY <1>8, <2>1 DEF Shown, Ended
  <2>4. Shown(r)'
    BY <1>4, <1>5, <2>1, <2>2, <2>3 DEF Shown, Selected, At, Mark
  <2> QED  BY <2>1, <2>4 DEF Current
<1>9. ReaderInv(r)'
  BY <1>6, <1>7, <1>8 DEF ReaderInv
<1> QED  BY <1>2, <1>3, <1>9, ReaderStep

LEMMA ReplyQInv ==
  ASSUME QInv, NEW CONSTANT r \in Reader, Reply(r)
  PROVE  QInv'
<1>1. /\ rpc[r] = "done"
      /\ rpc' = [rpc EXCEPT ![r] = "idle"]
      /\ query' = [query EXCEPT ![r] = None]
      /\ met' = [met EXCEPT ![r] = <<>>]
      /\ rows' = [rows EXCEPT ![r] = {}]
      /\ disturbed' = disturbed \ {r}
      /\ touched' = [touched EXCEPT ![r] = {}]
      /\ UNCHANGED <<vars, cur, row>>
  BY DEF Reply, Goto
<1>2. ReaderTypes /\ ReaderInv(r)
  BY DEF QInv
<1>3. <<>> \in Seq(Id)
  BY EmptySeq
<1>4. ReaderTypes'
  BY <1>1, <1>2, <1>3 DEF ReaderTypes
<1>5. \A s \in Reader \ {r} : Unconcerned(s)
  BY <1>1, <1>2 DEF ReaderTypes, Unconcerned
<1>6. rpc'[r] = "idle" /\ met'[r] = <<>> /\ rows'[r] = {} /\ touched'[r] = {} /\ cur'[r] = None
  BY <1>1, <1>2 DEF ReaderTypes, ReaderInv, Kept
<1>7. ReaderInv(r)'
  BY <1>6 DEF ReaderInv, Kept, Asked
<1> QED  BY <1>1, <1>4, <1>5, <1>7, ReaderStep

LEMMA StepQInv == QInv /\ [QueryNext]_qvars => QInv'
<1> SUFFICES ASSUME QInv, [QueryNext]_qvars PROVE QInv'
  OBVIOUS
<1>1. CASE UNCHANGED qvars
  <2>1. /\ UNCHANGED <<vars, rpc, query, met, cur, row, rows, disturbed, touched>>
    BY <1>1 DEF qvars, reader, history
  <2>2. IInv'
    BY <2>1, NextIInv DEF QInv
  <2>3. ReaderTypes'
    BY <2>1 DEF QInv, ReaderTypes
  <2>4. \A s \in Reader : ReaderInv(s)'
    BY <2>1, OtherReader DEF QInv, Unconcerned
  <2> QED  BY <2>2, <2>3, <2>4 DEF QInv
<1>2. CASE WriterStep
  <2>1. IInv'
    BY <1>2, NextIInv DEF QInv, WriterStep
  <2>2. ReaderTypes'
    <3>1. touched' \in [Reader -> SUBSET Id]
      BY <1>2 DEF QInv, ReaderTypes, WriterStep
    <3> QED  BY <1>2, <3>1 DEF QInv, ReaderTypes, WriterStep, reader
  <2> QED  BY <1>2, <2>1, <2>2, WriterReaderInv DEF QInv
<1>3. ASSUME NEW CONSTANT r \in Reader, ReaderNext(r)
      PROVE  QInv'
  <2>1. ASSUME PrintAverage(r) PROVE QInv'
    <3>1. PICK to \in Ended : rpc[r] \in Ended /\ rpc' = [rpc EXCEPT ![r] = to]
      BY <2>1 DEF PrintAverage, Goto, Ended
    <3>2. UNCHANGED <<vars, query, met, cur, row, rows, disturbed, touched>>
      BY <2>1 DEF PrintAverage
    <3> QED  BY <3>1, <3>2, EndedQInv DEF Ended
  <2>2. ASSUME AppendBuffer(r) PROVE QInv'
    <3>1. "done" \in Ended /\ rpc[r] \in Ended /\ rpc' = [rpc EXCEPT ![r] = "done"] /\ rpc[r] # "walk"
      BY <2>2 DEF AppendBuffer, Goto, Ended
    <3>2. UNCHANGED <<vars, query, met, cur, row, rows, disturbed, touched>>
      BY <2>2 DEF AppendBuffer, history
    <3> QED  BY <3>1, <3>2, EndedQInv
  <2>3. ASSUME EndOfList(r) PROVE QInv'
    <3>1. PICK to \in Ended : rpc[r] = "walk" /\ rpc' = [rpc EXCEPT ![r] = to]
      BY <2>3 DEF EndOfList, Goto, Ended
    <3>2. UNCHANGED <<vars, query, met, cur, row, rows, disturbed, touched>>
      BY <2>3 DEF EndOfList, history
    <3>3. List(r) \subseteq Range(met[r]) \/ r \in disturbed
      BY <2>3 DEF EndOfList
    <3> QED  BY <3>1, <3>2, <3>3, EndedQInv
  <2> QED
    BY <1>3, <2>1, <2>2, <2>3, AskQInv, WalkQInv, FilterFromQInv, FilterToQInv, WriteMarkQInv, WriteAtQInv, AddQInv,
       AddMarkQInv, ReplyQInv DEF ReaderNext
<1> QED  BY <1>1, <1>2, <1>3 DEF QueryNext

LEMMA QInvariance == QuerySpec => []QInv
BY InitQInv, StepQInv, PTL DEF QuerySpec

-------------------------------------------------------------------------------
(* Query: averages *)

USE MaxWritesOK

\* The types of what the averages need.
AverageTypes ==
  /\ marks \in [Reader -> Seq([of : Id, mark : Nat])]
  /\ m_buffer_for_avg \in [1 .. 2 -> Averages]
  /\ result \in [Reader -> {<<>>} \cup [1 .. 2 -> Averages]]
  /\ writes \in 0 .. MaxWrites
  /\ disturbed \in SUBSET Asked
  /\ clash \in SUBSET Asked

\* What a reader printed is still in the buffer, unless another printed too.
Buffered(r) ==
  /\ rpc[r] # "done" => result[r] = <<>>
  /\ rpc[r] = "idle" => marks[r] = <<>>
  /\ rpc[r] \in {"print", "printed", "append"} => marks[r] # <<>>
  /\ r \notin clash =>
       /\ rpc[r] \in {"printed", "append"} => m_buffer_for_avg[1] = Average(marks[r])
       /\ rpc[r] = "append" => m_buffer_for_avg[2] = Average(marks[r])
       /\ rpc[r] = "done" =>
            result[r] = IF marks[r] = <<>> THEN <<>> ELSE <<Average(marks[r]), Average(marks[r])>>

\* No list changed under the query for an average, and no visit on its list was written.
Calm(r) ==
  r \in Asked /\ r \notin disturbed /\ query[r].field = "location" /\ List(r) \cap touched[r] = {}

\* The visits whose marks were added.
Chosen(r) == {id \in Range(met[r]) : (cur[r] = None \/ cur[r].of # id) /\ Selected(query[r], id)}

Averaged(r) ==
  /\ rpc[r] \notin {"at", "add"}
  /\ Range(met[r]) \subseteq List(r)
  /\ cur[r] # None =>
       /\ cur[r].key = m_visits[cur[r].of]["user"]
       /\ rpc[r] # "from" => PassesFrom(query[r], At(cur[r].of))
       /\ rpc[r] \notin {"from", "to"} => Passes(query[r], At(cur[r].of), cur[r].key)
  /\ Added(marks[r], Chosen(r))
  /\ rpc[r] \in Ended /\ query[r].key \in Known["location"] => List(r) \subseteq Range(met[r])

AvgInv ==
  /\ QInv
  /\ AverageTypes
  /\ \A r \in Reader : Buffered(r) /\ (Calm(r) => Averaged(r))

-------------------------------------------------------------------------------
\* A sequence has finitely many elements.
LEMMA RangeFinite ==
  ASSUME NEW S, NEW s \in Seq(S)
  PROVE  IsFiniteSet(Range(s))
<1>1. DOMAIN s = 1 .. Len(s) /\ Len(s) \in Nat
  BY LenProperties
<1>2. IsFiniteSet(DOMAIN s)
  <2>1. 1 \in Int /\ Len(s) \in Int
    BY <1>1
  <2>2. IsFiniteSet(1 .. Len(s))
    BY <2>1, FS_Interval
  <2> QED  BY <1>1, <2>2
<1>3. s \in [DOMAIN s -> Range(s)] /\ \A e \in Range(s) : \E i \in DOMAIN s : s[i] = e
  BY SeqDef, <1>1 DEF Range
<1>4. s \in Surjection(DOMAIN s, Range(s))
  BY <1>3 DEF Surjection
<1> QED  BY <1>2, <1>4, FS_Surjection

LEMMA MarkType == ASSUME NEW id, m_visits[id] \in Visit PROVE Mark(id) \in Nat
<1>1. m_visits[id]["mark"] \in MarkValue
  BY VisitFacts DEF Field, Holds
<1> QED  BY <1>1 DEF Mark

LEMMA InitAvg == QueryInit => AvgInv
<1> SUFFICES ASSUME QueryInit PROVE AvgInv
  OBVIOUS
<1>1. QInv
  BY InitQInv
<1>2. <<>> \in Seq([of : Id, mark : Nat]) /\ Average(<<>>) \in Averages
  BY EmptySeq, SumType
<1>3. AverageTypes
  BY <1>2 DEF QueryInit, AverageTypes
<1>4. \A r \in Reader : Buffered(r) /\ ~Calm(r)
  BY DEF QueryInit, Buffered, Calm, Asked
<1> QED  BY <1>1, <1>3, <1>4 DEF AvgInv

\* What a step means to the types.
LEMMA StepTypes ==
  ASSUME AvgInv, [QueryNext]_qvars
  PROVE  AverageTypes'
<1>1. QInv' /\ AverageTypes /\ ReaderTypes /\ ReaderTypes'
  BY StepQInv DEF AvgInv, QInv
<1>2. CASE UNCHANGED qvars
  BY <1>1, <1>2 DEF qvars, reader, history, AverageTypes, Asked
<1>3. CASE WriterStep
  <2>1. UNCHANGED <<rpc, marks, result, m_buffer_for_avg, clash>> /\ Asked' = Asked
    BY <1>3 DEF WriterStep, reader, Asked
  <2>2. writes' \in 0 .. MaxWrites
    BY <1>1, <1>3 DEF WriterStep, AverageTypes
  <2>3. disturbed' \in SUBSET Asked
    BY <1>1, <1>3 DEF WriterStep, AverageTypes
  <2> QED  BY <1>1, <2>1, <2>2, <2>3 DEF AverageTypes
<1>4. ASSUME NEW CONSTANT r \in Reader, ReaderNext(r) PROVE AverageTypes'
  <2>1. ASSUME NEW CONSTANT q \in Request, Ask(r, q) PROVE AverageTypes'
    <3>1. UNCHANGED <<marks, result, m_buffer_for_avg, writes, disturbed, clash>>
      BY <2>1 DEF Ask, history
    <3>2. Asked \subseteq Asked'
      BY <1>1, <2>1 DEF Ask, Goto, Asked, ReaderTypes
    <3> QED  BY <1>1, <3>1, <3>2 DEF AverageTypes
  <2>2. ASSUME Walk(r) \/ FilterFrom(r) \/ FilterTo(r) \/ WriteMark(r) \/ WriteAt(r) \/ Add(r) \/ EndOfList(r)
        PROVE  AverageTypes'
    <3>1. UNCHANGED <<marks, result, m_buffer_for_avg, writes, disturbed, clash>>
      BY <2>2 DEF Walk, FilterFrom, FilterTo, WriteMark, WriteAt, Add, EndOfList, history
    <3>2. Asked \subseteq Asked'
      BY <1>1, <2>2 DEF Walk, FilterFrom, FilterTo, WriteMark, WriteAt, Add, EndOfList, Goto, Asked, ReaderTypes
    <3> QED  BY <1>1, <3>1, <3>2 DEF AverageTypes
  <2>3. ASSUME AddMark(r) PROVE AverageTypes'
    <3>1. UNCHANGED <<result, m_buffer_for_avg, writes, disturbed, clash>>
      BY <2>3 DEF AddMark, history
    <3>2. Asked \subseteq Asked'
      BY <1>1, <2>3 DEF AddMark, Goto, Asked, ReaderTypes
    <3>3. [of |-> cur[r].of, mark |-> Member(r, "mark")] \in [of : Id, mark : Nat]
      <4>1. cur[r].of \in Id /\ m_visits[cur[r].of] \in Visit
        BY <2>3 DEF AvgInv, QInv, ReaderInv, Kept, AddMark, Goto
      <4>2. Member(r, "mark") \in Nat
        BY <4>1, MarkType DEF Member, Mark
      <4> QED  BY <4>1, <4>2
    <3>4. marks' \in [Reader -> Seq([of : Id, mark : Nat])]
      <4>1. Append(marks[r], [of |-> cur[r].of, mark |-> Member(r, "mark")]) \in Seq([of : Id, mark : Nat])
        <5>1. marks[r] \in Seq([of : Id, mark : Nat])
          BY <1>1 DEF AverageTypes
        <5> QED  BY <3>3, <5>1, AppendProperties
      <4> QED  BY <1>1, <2>3, <4>1 DEF AddMark, AverageTypes
    <3> QED  BY <1>1, <3>1, <3>2, <3>4 DEF AverageTypes
  <2>4. ASSUME PrintAverage(r) PROVE AverageTypes'
    <3>1. UNCHANGED <<marks, result, writes, disturbed>>
      BY <2>4 DEF PrintAverage
    <3>2. Asked \subseteq Asked' /\ clash' \subseteq clash \cup Printing
      BY <1>1, <2>4 DEF PrintAverage, Goto, Asked, ReaderTypes
    <3>3. Average(marks[r]) \in Averages
      BY <1>1, SumType DEF AverageTypes
    <3>4. m_buffer_for_avg' \in [1 .. 2 -> Averages]
      BY <1>1, <2>4, <3>3 DEF PrintAverage, AverageTypes
    <3>5. Printing \subseteq Asked
      BY DEF Printing, Asked
    <3> QED  BY <1>1, <3>1, <3>2, <3>4, <3>5 DEF AverageTypes
  <2>5. ASSUME AppendBuffer(r) PROVE AverageTypes'
    <3>1. UNCHANGED <<marks, m_buffer_for_avg, writes, disturbed, clash>>
      BY <2>5 DEF AppendBuffer, history
    <3>2. Asked \subseteq Asked'
      BY <1>1, <2>5 DEF AppendBuffer, Goto, Asked, ReaderTypes
    <3>3. result' \in [Reader -> {<<>>} \cup [1 .. 2 -> Averages]]
      BY <1>1, <2>5 DEF AppendBuffer, AverageTypes
    <3> QED  BY <1>1, <3>1, <3>2, <3>3 DEF AverageTypes
  <2>6. ASSUME Reply(r) PROVE AverageTypes'
    <3>1. UNCHANGED <<m_buffer_for_avg, writes>> /\ disturbed' = disturbed \ {r} /\ clash' = clash \ {r}
      BY <2>6 DEF Reply
    <3>2. Asked' = Asked \ {r}
      BY <1>1, <2>6 DEF Reply, Goto, Asked, ReaderTypes
    <3>3. <<>> \in Seq([of : Id, mark : Nat])
      BY EmptySeq
    <3>4. /\ marks' \in [Reader -> Seq([of : Id, mark : Nat])]
          /\ result' \in [Reader -> {<<>>} \cup [1 .. 2 -> Averages]]
      BY <1>1, <2>6, <3>3 DEF Reply, AverageTypes
    <3> QED  BY <1>1, <3>1, <3>2, <3>4 DEF AverageTypes
  <2> QED  BY <1>4, <2>1, <2>2, <2>3, <2>4, <2>5, <2>6 DEF ReaderNext
<1> QED  BY <1>2, <1>3, <1>4 DEF QueryNext
-------------------------------------------------------------------------------
\* A step that leaves a reader's print alone keeps what is known of it.
LEMMA BufferedStays ==
  ASSUME NEW CONSTANT s \in Reader, Buffered(s),
         rpc'[s] = rpc[s], marks'[s] = marks[s], result'[s] = result[s], s \in clash => s \in clash',
         s \in clash' \/ rpc[s] \notin {"printed", "append"} \/ m_buffer_for_avg' = m_buffer_for_avg
  PROVE  Buffered(s)'
BY DEF Buffered, Average, Sum

\* Steps that neither print nor reply.
LEMMA NoPrint ==
  ASSUME AvgInv, UNCHANGED <<result, m_buffer_for_avg, clash>>, NEW CONSTANT r \in Reader,
         \A s \in Reader \ {r} : rpc'[s] = rpc[s] /\ marks'[s] = marks[s],
         rpc[r] \notin {"print", "printed", "append", "done"},
         rpc'[r] \notin {"idle", "printed", "append"},
         rpc'[r] = "print" => marks'[r] # <<>>,
         rpc'[r] = "done" => marks'[r] = <<>>
  PROVE  \A s \in Reader : Buffered(s)'
<1>1. \A s \in Reader : Buffered(s)
  BY DEF AvgInv
<1>2. \A s \in Reader \ {r} : Buffered(s)'
  BY <1>1, BufferedStays
<1>3. Buffered(r)'
  <2>1. result'[r] = <<>>
    BY <1>1 DEF Buffered
  <2> QED  BY <2>1 DEF Buffered
<1> QED  BY <1>2, <1>3

\* What is printed stays, or the readers clash.
LEMMA StepBuffered ==
  ASSUME AvgInv, [QueryNext]_qvars, NEW CONSTANT s \in Reader
  PROVE  Buffered(s)'
<1>1. AverageTypes /\ ReaderTypes /\ Buffered(s)
  BY DEF AvgInv, QInv
<1>2. CASE UNCHANGED qvars
  BY <1>1, <1>2, BufferedStays DEF qvars, reader, history
<1>3. CASE WriterStep
  BY <1>1, <1>3, BufferedStays DEF WriterStep, reader
<1>4. ASSUME NEW CONSTANT r \in Reader, ReaderNext(r) PROVE Buffered(s)'
  <2>1. ASSUME NEW CONSTANT q \in Request, Ask(r, q) PROVE Buffered(s)'
    <3>1. /\ UNCHANGED <<marks, result, m_buffer_for_avg, clash>>
          /\ rpc[r] = "idle" /\ rpc'[r] \in {"walk", "done"}
          /\ \A i \in Reader \ {r} : rpc'[i] = rpc[i]
      BY <1>1, <2>1 DEF Ask, Goto, history, ReaderTypes
    <3>2. marks[r] = <<>>
      BY <3>1 DEF AvgInv, Buffered
    <3> QED  BY <3>1, <3>2, NoPrint
  <2>2. ASSUME Walk(r) \/ FilterFrom(r) \/ FilterTo(r) \/ WriteMark(r) \/ WriteAt(r) \/ Add(r) PROVE Buffered(s)'
    <3>1. /\ UNCHANGED <<marks, result, m_buffer_for_avg, clash>>
          /\ rpc[r] \in {"walk", "from", "to", "mark", "at", "add"}
          /\ rpc'[r] \in {"walk", "from", "to", "mark", "at", "add"}
          /\ \A i \in Reader \ {r} : rpc'[i] = rpc[i]
      BY <1>1, <2>2 DEF Walk, FilterFrom, FilterTo, WriteMark, WriteAt, Add, Goto, history, ReaderTypes
    <3> QED  BY <3>1, NoPrint
  <2>3. ASSUME AddMark(r) PROVE Buffered(s)'
    <3>1. /\ UNCHANGED <<result, m_buffer_for_avg, clash>>
          /\ rpc[r] = "mark" /\ rpc'[r] = "walk"
          /\ \A i \in Reader \ {r} : rpc'[i] = rpc[i] /\ marks'[i] = marks[i]
      BY <1>1, <2>3 DEF AddMark, Goto, history, ReaderTypes, AverageTypes
    <3> QED  BY <3>1, NoPrint
  <2>4. ASSUME EndOfList(r) PROVE Buffered(s)'
    <3>1. /\ UNCHANGED <<marks, result, m_buffer_for_avg, clash>>
          /\ rpc[r] = "walk" /\ rpc'[r] = IF marks[r] # <<>> THEN "print" ELSE "done"
          /\ \A i \in Reader \ {r} : rpc'[i] = rpc[i]
      BY <1>1, <2>4 DEF EndOfList, Goto, history, ReaderTypes
    <3> QED  BY <3>1, NoPrint
  <2>5. ASSUME PrintAverage(r) PROVE Buffered(s)'
    <3>1. /\ UNCHANGED <<marks, result>>
          /\ clash' = IF Printing = {r} THEN clash ELSE clash \cup Printing
          /\ r \in Printing
          /\ \A i \in Reader \ {r} : rpc'[i] = rpc[i]
      BY <1>1, <2>5 DEF PrintAverage, Goto, Printing, ReaderTypes
    <3>2. CASE s # r
      <4>1. rpc[s] \in {"printed", "append"} => s \in Printing
        BY DEF Printing
      <4> QED  BY <1>1, <3>1, <3>2, <4>1, BufferedStays
    <3>3. CASE s = r
      <4>1. \/ /\ rpc[r] = "print" /\ rpc'[r] = "printed"
               /\ m_buffer_for_avg'[1] = Average(marks[r])
            \/ /\ rpc[r] = "printed" /\ rpc'[r] = "append"
               /\ m_buffer_for_avg'[2] = Average(marks[r])
               /\ m_buffer_for_avg'[1] = m_buffer_for_avg[1]
        BY <1>1, <2>5 DEF PrintAverage, Goto, ReaderTypes, AverageTypes
      <4>2. Average(marks[r])' = Average(marks[r])
        BY <3>1 DEF Average, Sum
      <4> QED  BY <1>1, <3>1, <3>3, <4>1, <4>2 DEF Buffered
    <3> QED  BY <3>2, <3>3
  <2>6. ASSUME AppendBuffer(r) PROVE Buffered(s)'
    <3>1. /\ UNCHANGED <<marks, m_buffer_for_avg, clash>>
          /\ rpc[r] = "append" /\ rpc'[r] = "done" /\ result'[r] = m_buffer_for_avg
          /\ \A i \in Reader \ {r} : rpc'[i] = rpc[i] /\ result'[i] = result[i]
      BY <1>1, <2>6 DEF AppendBuffer, Goto, history, ReaderTypes, AverageTypes
    <3>2. CASE s # r
      BY <1>1, <3>1, <3>2, BufferedStays
    <3>3. CASE s = r
      <4>1. m_buffer_for_avg = <<m_buffer_for_avg[1], m_buffer_for_avg[2]>>
        BY <1>1 DEF AverageTypes
      <4>2. Average(marks[r])' = Average(marks[r])
        BY <3>1 DEF Average, Sum
      <4> QED  BY <1>1, <3>1, <3>3, <4>1, <4>2 DEF Buffered
    <3> QED  BY <3>2, <3>3
  <2>7. ASSUME Reply(r) PROVE Buffered(s)'
    <3>1. /\ rpc'[r] = "idle" /\ marks'[r] = <<>> /\ result'[r] = <<>>
          /\ m_buffer_for_avg' = m_buffer_for_avg /\ clash' = clash \ {r}
          /\ \A i \in Reader \ {r} : rpc'[i] = rpc[i] /\ result'[i] = result[i] /\ marks'[i] = marks[i]
      BY <1>1, <2>7 DEF Reply, Goto, history, ReaderTypes, AverageTypes
    <3>2. CASE s # r
      BY <1>1, <3>1, <3>2, BufferedStays
    <3>3. CASE s = r
      BY <3>1, <3>3 DEF Buffered
    <3> QED  BY <3>2, <3>3
  <2> QED  BY <1>4, <2>1, <2>2, <2>3, <2>4, <2>5, <2>6, <2>7 DEF ReaderNext
<1> QED  BY <1>2, <1>3, <1>4 DEF QueryNext
-------------------------------------------------------------------------------
\* What is known of a reader's average depends on its list and the visits on it.
LEMMA AveragedStays ==
  ASSUME NEW CONSTANT s \in Reader, Calm(s) => Averaged(s), Kept(s),
         rpc'[s] = rpc[s], query'[s] = query[s], met'[s] = met[s], cur'[s] = cur[s],
         marks'[s] = marks[s], s \in disturbed => s \in disturbed', touched[s] \subseteq touched'[s],
         Calm(s)' => List(s)' = List(s) /\ \A id \in List(s) : m_visits'[id] = m_visits[id]
  PROVE  Calm(s)' => Averaged(s)'
<1> SUFFICES ASSUME Calm(s)' PROVE Averaged(s)'
  OBVIOUS
<1>1. Calm(s) /\ List(s)' = List(s) /\ \A id \in List(s) : m_visits'[id] = m_visits[id]
  BY DEF Calm, Asked
<1>2. Averaged(s) /\ Range(met[s]) \subseteq List(s) /\ (cur[s] # None => cur[s].of \in List(s))
  BY <1>1 DEF Averaged, Kept
<1>3. \A id \in List(s) : Selected(query[s], id)' = Selected(query[s], id) /\ Mark(id)' = Mark(id)
                          /\ At(id)' = At(id)
  BY <1>1 DEF Selected, Mark, At
<1>4. Chosen(s)' = Chosen(s)
  BY <1>2, <1>3 DEF Chosen
<1>5. Added(marks[s], Chosen(s))'
  <2> DEFINE f == [id \in Chosen(s) |-> Mark(id)]
  <2>1. f' = f
    BY <1>2, <1>3, <1>4 DEF Chosen
  <2>2. Sum(marks[s]) = SumFunction(f) /\ Len(marks[s]) = Cardinality(Chosen(s))
    BY <1>2 DEF Averaged, Added
  <2>3. Sum(marks[s])' = Sum(marks[s])
    BY DEF Sum
  <2> QED  BY <1>4, <2>1, <2>2, <2>3 DEF Added
<1>6. Averaged(s)' <=>
        /\ rpc[s] \notin {"at", "add"}
        /\ Range(met[s]) \subseteq List(s)
        /\ cur[s] # None =>
             /\ cur[s].key = m_visits[cur[s].of]["user"]
             /\ rpc[s] # "from" => PassesFrom(query[s], At(cur[s].of))
             /\ rpc[s] \notin {"from", "to"} => Passes(query[s], At(cur[s].of), cur[s].key)
        /\ Added(marks[s], Chosen(s))'
        /\ rpc[s] \in Ended /\ query[s].key \in Known["location"] => List(s) \subseteq Range(met[s])
  BY <1>1, <1>2, <1>3 DEF Averaged, Passes, PassesFrom, PassesTo
<1> QED  BY <1>2, <1>5, <1>6 DEF Averaged

\* The steps of the query itself.
LEMMA AskAveraged ==
  ASSUME AvgInv, NEW CONSTANT r \in Reader, NEW CONSTANT q \in Request, Ask(r, q), Calm(r)'
  PROVE  Averaged(r)'
<1>1. /\ rpc[r] = "idle" /\ rpc'[r] = IF q.key \in Known[q.field] THEN "walk" ELSE "done"
      /\ query'[r] = q /\ met'[r] = <<>> /\ cur'[r] = None /\ marks'[r] = <<>>
  BY DEF Ask, Goto, AvgInv, QInv, ReaderTypes, ReaderInv, Kept, Buffered
<1>2. Range(met'[r]) = {}
  BY <1>1 DEF Range
<1>3. Chosen(r)' = {}
  BY <1>2 DEF Chosen
<1>4. Added(marks[r], Chosen(r))'
  BY <1>1, <1>3, NothingAdded DEF Added
<1>5. rpc'[r] \in Ended /\ query'[r].key \in Known["location"] => FALSE
  <2>1. q.field = "location"
    BY <1>1 DEF Calm
  <2> QED  BY <1>1, <2>1 DEF Ended
<1>6. rpc'[r] \notin {"at", "add"}
  BY <1>1
<1> QED  BY <1>1, <1>2, <1>4, <1>5, <1>6 DEF Averaged

LEMMA WalkAveraged ==
  ASSUME AvgInv, NEW CONSTANT r \in Reader, Walk(r), Calm(r)'
  PROVE  Averaged(r)'
<1>1. /\ rpc[r] = "walk"
      /\ UNCHANGED <<vars, query, marks, disturbed, touched>>
  BY DEF Walk, history
<1>2. UNCHANGED <<m_visits, index>> /\ List(r)' = List(r)
  BY <1>1 DEF vars, wvars, List
<1>3. Calm(r) /\ Averaged(r) /\ r \notin disturbed
  BY <1>1, <1>2 DEF Calm, Asked, AvgInv
<1>4. /\ IInv /\ ReaderTypes /\ cur[r] = None /\ query[r] \in Request
      /\ query[r].field = "location" /\ query[r].key \in Key
  BY <1>1, <1>3 DEF AvgInv, QInv, ReaderInv, Kept, Calm
<1>5. PICK id \in List(r) :
        /\ id \notin Range(met[r])
        /\ met' = [met EXCEPT ![r] = Append(@, id)]
        /\ LET joined == m_visits[id] # NoVisit /\ m_visits[id]["user"] \in Known["user"]
           IN /\ Goto(r, "walk", IF joined THEN "from" ELSE "walk")
              /\ cur' = [cur EXCEPT ![r] = IF joined THEN [of |-> id, key |-> m_visits[id]["user"]]
                                           ELSE None]
  BY <1>3, <1>4 DEF Walk, Other
<1>6. id \in Id /\ m_visits[id] \in Visit /\ m_visits[id] # NoVisit
  BY <1>4, ListedIsFriend DEF List, IndexField
<1>7. met'[r] = Append(met[r], id) /\ Range(met'[r]) = Range(met[r]) \cup {id}
  BY <1>4, <1>5, <1>6, RangeAppend DEF ReaderTypes
<1>8. \A i : Selected(query[r], i)' = Selected(query[r], i) /\ Mark(i)' = Mark(i)
  BY <1>1, <1>2 DEF Selected, Mark, At
<1>9. CASE m_visits[id]["user"] \in Known["user"]
  <2>1. rpc'[r] = "from" /\ cur'[r] = [of |-> id, key |-> m_visits[id]["user"]]
    BY <1>4, <1>5, <1>6, <1>9 DEF Goto, ReaderTypes
  <2>2. cur'[r] # None /\ cur'[r].of = id /\ cur'[r].key = m_visits[id]["user"]
    BY <1>6, <2>1 DEF None
  <2>3. Chosen(r)' = Chosen(r)
    BY <1>1, <1>4, <1>5, <1>7, <1>8, <2>2 DEF Chosen
  <2>4. Added(marks[r], Chosen(r))'
    BY <1>1, <1>3, <1>8, <2>3 DEF Averaged, Added, Sum
  <2> QED  BY <1>1, <1>2, <1>3, <1>7, <2>1, <2>2, <2>4 DEF Averaged, Ended
<1>10. CASE m_visits[id]["user"] \notin Known["user"]
  <2>1. rpc'[r] = "walk" /\ cur'[r] = None
    BY <1>4, <1>5, <1>6, <1>10 DEF Goto, ReaderTypes
  <2>2. ~Selected(query[r], id)
    BY <1>4, <1>10 DEF Selected, Other
  <2>3. Chosen(r)' = Chosen(r)
    BY <1>1, <1>4, <1>5, <1>7, <1>8, <2>1, <2>2 DEF Chosen
  <2>4. Added(marks[r], Chosen(r))'
    BY <1>1, <1>3, <1>8, <2>3 DEF Averaged, Added, Sum
  <2> QED  BY <1>1, <1>2, <1>3, <1>7, <2>1, <2>4 DEF Averaged, Ended
<1> QED  BY <1>9, <1>10

\* A visit that is looked at passes the filter just if it is selected.
LEMMA PassesIfSelected ==
  ASSUME AvgInv, NEW CONSTANT r \in Reader, Calm(r), cur[r] # None
  PROVE  /\ cur[r].of \in Range(met[r]) /\ m_visits[cur[r].of] \in Visit /\ cur[r].of \in Id
         /\ Passes(query[r], At(cur[r].of), cur[r].key) <=> Selected(query[r], cur[r].of)
         /\ Selected(query[r], cur[r].of) => PassesFrom(query[r], At(cur[r].of))
<1> DEFINE id == cur[r].of
<1>1. /\ id \in Range(met[r]) /\ m_visits[id] \in Visit /\ id \in Id /\ query[r] \in Request
      /\ cur[r].key \in Known["user"] /\ cur[r].key = m_visits[id]["user"] /\ query[r].field = "location"
  BY DEF AvgInv, QInv, ReaderInv, Kept, Calm, Asked, Averaged, Other
<1>2. At(id) \in Nat
  <2>1. m_visits[id]["visited_at"] \in Time
    BY <1>1, VisitFacts DEF Field, Holds
  <2> QED  BY <2>1 DEF At
<1>3. query[r].from \in Nat /\ query[r].to \in Nat
  BY <1>1
<1>4. \A d \in Nat, n \in Nat : n \in Before(d) <=> ~(n >= d)
  BY DEF Before
<1>5. Other(query[r].field) = "user"
  BY <1>1 DEF Other
<1> HIDE DEF id
<1>6. /\ Passes(query[r], At(id), cur[r].key) <=> Selected(query[r], id)
      /\ Selected(query[r], id) => PassesFrom(query[r], At(id))
  BY <1>1, <1>2, <1>3, <1>4, <1>5 DEF Passes, PassesFrom, PassesTo, Selected
<1> QED  BY <1>1, <1>6 DEF id

\* A visit that a limit leaves out is not one of those asked for.
LEMMA SkipAveraged ==
  ASSUME AvgInv, NEW CONSTANT r \in Reader, Calm(r)', rpc[r] \in {"from", "to"},
         rpc' = [rpc EXCEPT ![r] = "walk"], cur' = [cur EXCEPT ![r] = None],
         UNCHANGED <<vars, query, met, marks, disturbed, touched>>,
         Calm(r) => ~Selected(query[r], cur[r].of)
  PROVE  Averaged(r)'
<1>1. UNCHANGED <<m_visits, index>> /\ List(r)' = List(r)
  BY DEF vars, wvars, List
<1>2. Calm(r) /\ Averaged(r) /\ cur[r] # None /\ ReaderTypes
  BY <1>1 DEF Calm, Asked, AvgInv, QInv, ReaderInv, Kept
<1>3. rpc'[r] = "walk" /\ cur'[r] = None
  BY <1>2 DEF ReaderTypes
<1>4. \A i : Selected(query[r], i)' = Selected(query[r], i) /\ Mark(i)' = Mark(i)
  BY <1>1 DEF Selected, Mark, At
<1>5. Chosen(r)' = Chosen(r)
  BY <1>2, <1>3, <1>4 DEF Chosen
<1>6. Added(marks[r], Chosen(r))'
  BY <1>2, <1>4, <1>5 DEF Averaged, Added, Sum
<1> QED  BY <1>1, <1>2, <1>3, <1>6 DEF Averaged, Ended

\* One that it lets through goes on, with the limits it passed.
LEMMA GoOnAveraged ==
  ASSUME AvgInv, NEW CONSTANT r \in Reader, NEW CONSTANT pc \in {"to", "mark"}, Calm(r)',
         rpc[r] \in {"from", "to"}, rpc' = [rpc EXCEPT ![r] = pc],
         UNCHANGED <<vars, query, met, cur, marks, disturbed, touched>>,
         Calm(r) => /\ PassesFrom(query[r], At(cur[r].of))
                    /\ pc = "mark" => Passes(query[r], At(cur[r].of), cur[r].key)
  PROVE  Averaged(r)'
<1>1. UNCHANGED <<m_visits, index>> /\ List(r)' = List(r)
  BY DEF vars, wvars, List
<1>2. Calm(r) /\ Averaged(r) /\ cur[r] # None /\ ReaderTypes
  BY <1>1 DEF Calm, Asked, AvgInv, QInv, ReaderInv, Kept
<1>3. rpc'[r] = pc /\ cur'[r] = cur[r]
  BY <1>2 DEF ReaderTypes
<1>4. \A i : Selected(query[r], i)' = Selected(query[r], i) /\ Mark(i)' = Mark(i) /\ At(i)' = At(i)
  BY <1>1 DEF Selected, Mark, At
<1>5. Chosen(r)' = Chosen(r)
  BY <1>3, <1>4 DEF Chosen
<1>6. Added(marks[r], Chosen(r))'
  BY <1>2, <1>4, <1>5 DEF Averaged, Added, Sum
<1>7. /\ PassesFrom(query[r], At(cur[r].of))'
      /\ pc = "mark" => Passes(query[r], At(cur[r].of), cur[r].key)'
  BY <1>2, <1>3, <1>4 DEF Passes, PassesFrom, PassesTo
<1> QED  BY <1>1, <1>2, <1>3, <1>6, <1>7 DEF Averaged, Ended

LEMMA FilterAveraged ==
  ASSUME AvgInv, NEW CONSTANT r \in Reader, FilterFrom(r) \/ FilterTo(r), Calm(r)'
  PROVE  Averaged(r)'
<1>1. /\ UNCHANGED <<vars, query, met, marks, disturbed, touched>>
      /\ Member(r, "visited_at") = At(cur[r].of)
      /\ rpc[r] \in {"from", "to"}
  BY DEF FilterFrom, FilterTo, Goto, history, Member, At
<1>2. cur[r] # None
  BY <1>1 DEF AvgInv, QInv, ReaderInv, Kept
<1>3. CASE cur' = cur
  <2>1. CASE FilterFrom(r)
    <3>1. rpc' = [rpc EXCEPT ![r] = "to"] /\ PassesFrom(query[r], At(cur[r].of))
      <4>1. ReaderTypes /\ cur'[r] # None
        BY <1>2, <1>3 DEF AvgInv, QInv
      <4> QED  BY <1>1, <2>1, <4>1 DEF FilterFrom, Goto, ReaderTypes
    <3> QED  BY <1>1, <1>3, <3>1, GoOnAveraged
  <2>2. CASE FilterTo(r)
    <3>1. /\ rpc' = [rpc EXCEPT ![r] = "mark"] /\ rpc[r] = "to"
          /\ PassesTo(query[r], At(cur[r].of)) /\ cur[r].key \in query[r].fits
      <4>1. ReaderTypes /\ cur'[r] # None
        BY <1>2, <1>3 DEF AvgInv, QInv
      <4> QED  BY <1>1, <2>2, <4>1 DEF FilterTo, Goto, ReaderTypes
    <3>2. Calm(r) => PassesFrom(query[r], At(cur[r].of))
      BY <1>2, <3>1 DEF AvgInv, Averaged
    <3> QED  BY <1>1, <1>3, <3>1, <3>2, GoOnAveraged DEF Passes
  <2> QED  BY <2>1, <2>2
<1>4. CASE cur' # cur
  <2>1. /\ rpc' = [rpc EXCEPT ![r] = "walk"] /\ cur' = [cur EXCEPT ![r] = None]
        /\ \/ ~PassesFrom(query[r], At(cur[r].of))
           \/ ~(PassesTo(query[r], At(cur[r].of)) /\ cur[r].key \in query[r].fits)
    BY <1>1, <1>4 DEF FilterFrom, FilterTo, Goto
  <2>2. Calm(r) => ~Selected(query[r], cur[r].of)
    BY <1>2, <2>1, PassesIfSelected DEF Passes
  <2> QED  BY <1>1, <2>1, <2>2, SkipAveraged
<1> QED  BY <1>3, <1>4

LEMMA AddMarkAveraged ==
  ASSUME AvgInv, NEW CONSTANT r \in Reader, AddMark(r), Calm(r)'
  PROVE  Averaged(r)'
<1> DEFINE id == cur[r].of
           new == [of |-> id, mark |-> Mark(id)]
<1>1. /\ rpc[r] = "mark" /\ rpc' = [rpc EXCEPT ![r] = "walk"]
      /\ UNCHANGED <<vars, query, met, disturbed, touched>>
      /\ marks' = [marks EXCEPT ![r] = Append(@, new)]
      /\ cur' = [cur EXCEPT ![r] = None]
  BY DEF AddMark, history, Goto, Member, Mark
<1>2. UNCHANGED <<m_visits, index>> /\ List(r)' = List(r)
  BY <1>1 DEF vars, wvars, List
<1>3. Calm(r) /\ Averaged(r) /\ cur[r] # None /\ ReaderTypes /\ AverageTypes
  BY <1>1, <1>2 DEF Calm, Asked, AvgInv, QInv, ReaderInv, Kept
<1>4. rpc'[r] = "walk" /\ cur'[r] = None /\ marks'[r] = Append(marks[r], new)
  BY <1>1, <1>3 DEF ReaderTypes, AverageTypes
<1>5. id \in Range(met[r]) /\ m_visits[id] \in Visit /\ id \in Id /\ Selected(query[r], id)
  BY <1>1, <1>3, PassesIfSelected DEF Averaged
<1>6. \A i : Selected(query[r], i)' = Selected(query[r], i) /\ Mark(i)' = Mark(i)
  BY <1>1, <1>2 DEF Selected, Mark, At
<1>7. Chosen(r)' = Chosen(r) \cup {id} /\ id \notin Chosen(r)
  BY <1>1, <1>3, <1>4, <1>5, <1>6 DEF Chosen
<1>8. IsFiniteSet(Chosen(r)) /\ \A i \in Chosen(r) : Mark(i) \in Nat
  <2>1. met[r] \in Seq(Id)
    BY <1>3 DEF ReaderTypes
  <2>2. IsFiniteSet(Range(met[r]))
    BY <2>1, RangeFinite
  <2>3. Chosen(r) \subseteq Range(met[r]) /\ Chosen(r) \subseteq List(r)
    BY <1>3 DEF Chosen, Averaged
  <2>4. \A i \in List(r) : m_visits[i] \in Visit
    <3>1. IInv /\ query[r] \in Request
      BY <1>3 DEF AvgInv, QInv, ReaderInv, Kept, Calm, Asked
    <3> QED  BY <3>1, ListedIsFriend DEF List
  <2> QED  BY <2>2, <2>3, <2>4, MarkType, FS_Subset
<1>9. Added(marks[r], Chosen(r))'
  <2>1. marks[r] \in Seq([of : Id, mark : Nat]) /\ Mark(id) \in Nat /\ new \in [of : Id, mark : Nat]
    BY <1>3, <1>5, MarkType DEF AverageTypes
  <2>2. Added(marks[r], Chosen(r))
    BY <1>3 DEF Averaged
  <2>3. new.mark = Mark(id)
    OBVIOUS
  <2> HIDE DEF id, new
  <2>4. Added(Append(marks[r], new), Chosen(r) \cup {id})
    BY <1>7, <1>8, <2>1, <2>2, <2>3, OneMoreAdded
  <2> QED  BY <1>4, <1>6, <1>7, <2>4 DEF Added, Sum
<1> QED  BY <1>1, <1>2, <1>3, <1>4, <1>9 DEF Averaged, Ended

\* After the end of the list nothing more is added.
LEMMA EndedAveraged ==
  ASSUME AvgInv, NEW CONSTANT r \in Reader, NEW CONSTANT to \in Ended,
         rpc[r] \in Ended \cup {"walk"}, rpc' = [rpc EXCEPT ![r] = to],
         rpc[r] = "walk" => List(r) \subseteq Range(met[r]) \/ r \in disturbed,
         UNCHANGED <<vars, query, met, cur, marks, disturbed, touched>>,
         Calm(r)'
  PROVE  Averaged(r)'
<1>1. UNCHANGED <<m_visits, index>> /\ List(r)' = List(r)
  BY DEF vars, wvars, List
<1>2. Calm(r) /\ Averaged(r) /\ r \notin disturbed /\ cur[r] = None
  BY <1>1 DEF Calm, Asked, AvgInv, QInv, ReaderInv, Kept, Ended
<1>3. \A i : Selected(query[r], i)' = Selected(query[r], i) /\ Mark(i)' = Mark(i)
  BY <1>1 DEF Selected, Mark, At
<1>4. Chosen(r)' = Chosen(r)
  BY <1>3 DEF Chosen
<1>5. Added(marks[r], Chosen(r))'
  BY <1>2, <1>3, <1>4 DEF Averaged, Added, Sum
<1>6. rpc'[r] = to
  BY DEF AvgInv, QInv, ReaderTypes
<1> QED  BY <1>1, <1>2, <1>5, <1>6 DEF Averaged, Ended

LEMMA StepAveraged ==
  ASSUME AvgInv, [QueryNext]_qvars, NEW CONSTANT s \in Reader
  PROVE  Calm(s)' => Averaged(s)'
<1>1. AverageTypes /\ ReaderTypes /\ (Calm(s) => Averaged(s)) /\ Kept(s) /\ IInv
  BY DEF AvgInv, QInv, ReaderInv
<1>2. CASE UNCHANGED qvars
  <2>1. UNCHANGED <<m_visits, index, rpc, query, met, cur, marks, disturbed, touched>>
    BY <1>2 DEF qvars, reader, history, vars, wvars
  <2> QED  BY <1>1, <2>1, AveragedStays DEF List
<1>3. CASE WriterStep
  <2>1. /\ UNCHANGED <<rpc, query, met, cur, marks>>
        /\ disturbed' = disturbed \cup {r \in Asked : List(r)' # List(r)}
        /\ touched'[s] = IF s \in Asked THEN touched[s] \cup {id \in Id : m_visits'[id] # m_visits[id]}
                                        ELSE {}
    BY <1>3 DEF WriterStep, reader
  <2>2. Calm(s)' => s \in Asked /\ List(s)' = List(s) /\ List(s) \subseteq Id
    <3>1. Calm(s)' => s \in Asked /\ List(s)' = List(s) /\ query[s] \in Request
      BY <1>1, <2>1 DEF Calm, Asked, Kept
    <3> QED  BY <1>1, <3>1, ListedIsFriend DEF List
  <2>3. Calm(s)' => \A id \in List(s) : m_visits'[id] = m_visits[id]
    BY <2>1, <2>2 DEF Calm
  <2>4. touched[s] \subseteq touched'[s] \/ s \notin Asked
    BY <2>1
  <2>5. s \notin Asked => ~Calm(s)'
    BY <2>2
  <2> QED  BY <1>1, <2>1, <2>2, <2>3, <2>4, <2>5, AveragedStays
<1>4. ASSUME NEW CONSTANT r \in Reader, ReaderNext(r) PROVE Calm(s)' => Averaged(s)'
  <2>1. CASE s # r
    <3>1. /\ UNCHANGED vars
          /\ rpc'[s] = rpc[s] /\ query'[s] = query[s] /\ met'[s] = met[s] /\ cur'[s] = cur[s]
          /\ marks'[s] = marks[s] /\ touched'[s] = touched[s] /\ (s \in disturbed => s \in disturbed')
      <4> USE DEF Goto, ReaderTypes, AverageTypes, history
      <4>1. CASE Walk(r) \/ \E q \in Request : Ask(r, q)
        <5>1. CASE Walk(r)
          BY <1>1, <2>1, <5>1 DEF Walk
        <5>2. CASE \E q \in Request : Ask(r, q)
          BY <1>1, <2>1, <5>2 DEF Ask
        <5> QED  BY <4>1, <5>1, <5>2
      <4>2. CASE FilterFrom(r) \/ FilterTo(r) \/ WriteMark(r) \/ WriteAt(r)
        BY <1>1, <2>1, <4>2 DEF FilterFrom, FilterTo, WriteMark, WriteAt
      <4>3. CASE Add(r) \/ AddMark(r)
        BY <1>1, <2>1, <4>3 DEF Add, AddMark
      <4>4. CASE PrintAverage(r) \/ AppendBuffer(r) \/ EndOfList(r)
        BY <1>1, <2>1, <4>4 DEF PrintAverage, AppendBuffer, EndOfList
      <4>5. CASE Reply(r)
        BY <1>1, <2>1, <4>5 DEF Reply
      <4> QED  BY <1>4, <4>1, <4>2, <4>3, <4>4, <4>5 DEF ReaderNext
    <3>2. UNCHANGED <<m_visits, index>>
      BY <3>1 DEF vars, wvars
    <3> QED  BY <1>1, <3>1, <3>2, AveragedStays DEF List
  <2>2. CASE s = r
    <3> SUFFICES ASSUME Calm(r)' PROVE Averaged(r)'
      BY <2>2
    <3>1. CASE WriteMark(r) \/ WriteAt(r) \/ Add(r)
      <4>1. Calm(r) /\ query[r].field = "location" /\ Averaged(r)
        BY <1>1, <2>2, <3>1 DEF WriteMark, WriteAt, Add, Goto, history, vars, wvars, List, Calm, Asked
      <4> QED  BY <3>1, <4>1 DEF WriteMark, WriteAt, Add, Goto, Averaged
    <3>2. CASE PrintAverage(r)
      <4>1. PICK to \in Ended : rpc[r] \in Ended /\ rpc' = [rpc EXCEPT ![r] = to]
        BY <3>2 DEF PrintAverage, Goto, Ended
      <4>2. UNCHANGED <<vars, query, met, cur, marks, disturbed, touched>>
        BY <3>2 DEF PrintAverage
      <4> QED  BY <4>1, <4>2, EndedAveraged DEF Ended
    <3>3. CASE AppendBuffer(r)
      <4>1. "done" \in Ended /\ rpc[r] \in Ended /\ rpc' = [rpc EXCEPT ![r] = "done"] /\ rpc[r] # "walk"
        BY <3>3 DEF AppendBuffer, Goto, Ended
      <4>2. UNCHANGED <<vars, query, met, cur, marks, disturbed, touched>>
        BY <3>3 DEF AppendBuffer, history
      <4> QED  BY <4>1, <4>2, EndedAveraged
    <3>4. CASE EndOfList(r)
      <4>1. PICK to \in Ended : rpc[r] = "walk" /\ rpc' = [rpc EXCEPT ![r] = to]
        BY <3>4 DEF EndOfList, Goto, Ended
      <4>2. UNCHANGED <<vars, query, met, cur, marks, disturbed, touched>>
        BY <3>4 DEF EndOfList, history
      <4>3. List(r) \subseteq Range(met[r]) \/ r \in disturbed
        BY <3>4 DEF EndOfList
      <4> QED  BY <4>1, <4>2, <4>3, EndedAveraged
    <3>5. CASE Reply(r)
      BY <1>1, <3>5 DEF Reply, Goto, ReaderTypes, Calm, Asked
    <3> QED  BY <1>4, <3>1, <3>2, <3>3, <3>4, <3>5, AskAveraged, WalkAveraged, FilterAveraged,
                AddMarkAveraged DEF ReaderNext
  <2> QED  BY <2>1, <2>2
<1> QED  BY <1>2, <1>3, <1>4 DEF QueryNext

LEMMA AvgInvariance == QuerySpec => []AvgInv
<1>1. AvgInv /\ [QueryNext]_qvars => AvgInv'
  <2> SUFFICES ASSUME AvgInv, [QueryNext]_qvars PROVE AvgInv'
    OBVIOUS
  <2>1. QInv'
    BY StepQInv DEF AvgInv
  <2> QED  BY <2>1, StepTypes, StepBuffered, StepAveraged DEF AvgInv
<1> QED  BY <1>1, InitAvg, PTL DEF QuerySpec

-------------------------------------------------------------------------------
(* The theorems *)

\* A query meets only visits of the user or location it is about, except those
\* an update is just giving to it or taking from it.
THEOREM MeetsNoStrangers == QuerySpec => []NoStrangers
<1>1. QInv => NoStrangers
  BY DEF QInv, ReaderInv, Friends, Friend, NoStrangers, Asked
<1> QED  BY <1>1, QInvariance, PTL

\* GET /users/<id>/visits of an undisturbed list shows every selected visit or
\* another of its second, and of each visit shown its own mark and time.
THEOREM AnswersVisits == QuerySpec => []VisitsAnswered
<1>1. QInv => VisitsAnswered
  <2> SUFFICES ASSUME QInv, NEW r \in Asked, Answered(r, "user"), r \notin disturbed
               PROVE  /\ \A id \in List(r) \ touched[r] :
                           Selected(query[r], id) => \E x \in rows[r] : x.key = At(id)
                      /\ \A x \in rows[r] : LET id == x.text.of IN id \notin touched[r] =>
                           /\ id \in List(r)
                           /\ Selected(query[r], id)
                           /\ x.key = At(id)
                           /\ x.text.at = At(id)
                           /\ x.text.mark = Mark(id)
    BY DEF VisitsAnswered
  <2>1. rpc[r] = "done" /\ query[r].field = "user" /\ query[r].key \in Known["user"] /\ r \in Reader
    BY DEF Answered, Asked
  <2>2. Shown(r) /\ cur[r] = None
    BY <2>1 DEF QInv, ReaderInv, Kept
  <2> QED  BY <2>1, <2>2 DEF Shown
<1> QED  BY <1>1, QInvariance, PTL

\* Type correctness: between two accesses to a visit's members a reader has a
\* visit and an object that exist, whatever the writers do.
THEOREM QueryTypeCorrect == QuerySpec => []QueryTypeOK
<1>1. AvgInv => QueryTypeOK
  <2> SUFFICES ASSUME AvgInv PROVE QueryTypeOK
    OBVIOUS
  <2>1. ReaderTypes /\ AverageTypes /\ \A r \in Reader : Kept(r)
    BY DEF AvgInv, QInv, ReaderInv
  <2>2. \A r \in Reader : rpc[r] \in {"from", "to", "mark", "at", "add"} <=> cur[r] # None
    BY <2>1 DEF Kept
  <2>3. \A r \in Asked : cur[r] # None =>
          m_visits[cur[r].of] # NoVisit /\ cur[r].key \in Known[Other(query[r].field)]
    BY <2>1 DEF Kept, Asked
  <2> QED  BY <2>1, <2>2, <2>3 DEF ReaderTypes, AverageTypes, QueryTypeOK
<1> QED  BY <1>1, AvgInvariance, PTL

\* GET /locations/<id>/avg of a location whose list did not change, while nobody
\* else printed, is the average of exactly the selected visits.
THEOREM AveragesExact == QuerySpec => []AverageExact
<1>1. AvgInv => AverageExact
  <2> SUFFICES ASSUME AvgInv, NEW r \in Asked, Answered(r, "location"), r \notin disturbed \cup clash,
                      List(r) \cap touched[r] = {}
               PROVE  LET chosen == {id \in List(r) : Selected(query[r], id)}
                          average == [sum |-> SumFunction([id \in chosen |-> Mark(id)]),
                                      counter |-> Cardinality(chosen)]
                      IN result[r] = IF chosen = {} THEN <<>> ELSE <<average, average>>
    BY DEF AverageExact
  <2> DEFINE chosen == {id \in List(r) : Selected(query[r], id)}
             average == [sum |-> SumFunction([id \in chosen |-> Mark(id)]), counter |-> Cardinality(chosen)]
  <2>1. /\ r \in Reader /\ Calm(r) /\ Averaged(r) /\ Buffered(r) /\ cur[r] = None /\ rpc[r] = "done"
        /\ ReaderTypes /\ AverageTypes
    BY DEF AvgInv, QInv, ReaderInv, Kept, Calm, Asked, Answered
  <2>2. Range(met[r]) = List(r)
    BY <2>1 DEF Averaged, Ended, Answered
  <2>3. Chosen(r) = chosen
    BY <2>1, <2>2 DEF Chosen
  <2>4. Average(marks[r]) = average
    BY <2>1, <2>3 DEF Averaged, Added, Average
  <2>5. marks[r] = <<>> <=> chosen = {}
    <3>1. Len(marks[r]) = Cardinality(chosen)
      BY <2>1, <2>3 DEF Averaged, Added
    <3>2. IsFiniteSet(chosen)
      <4>1. met[r] \in Seq(Id)
        BY <2>1 DEF ReaderTypes
      <4> QED  BY <2>2, <4>1, RangeFinite, FS_Subset
    <3>3. Cardinality(chosen) = 0 <=> chosen = {}
      BY <3>2, FS_EmptySet
    <3>4. marks[r] \in Seq([of : Id, mark : Nat])
      BY <2>1 DEF AverageTypes
    <3>5. Len(marks[r]) = 0 <=> marks[r] = <<>>
      BY <3>4, EmptySeq
    <3> HIDE DEF chosen
    <3> QED  BY <3>1, <3>3, <3>5
  <2>6. result[r] = IF marks[r] = <<>> THEN <<>> ELSE <<Average(marks[r]), Average(marks[r])>>
    BY <2>1 DEF Buffered
  <2> HIDE DEF chosen, average
  <2>7. result[r] = IF chosen = {} THEN <<>> ELSE <<average, average>>
    BY <2>4, <2>5, <2>6
  <2> QED  BY <2>7 DEF chosen, average
<1> QED  BY <1>1, AvgInvariance, PTL
===============================================================================
