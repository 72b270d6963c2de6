--------------------------------- MODULE Ages ---------------------------------
(***************************************************************************)
(* The age limits of an average mark (base.h, base::get_mark): the text of *)
(* fromAge and toAge is converted by Numbers, the age is looked up in a    *)
(* table that was made when the program started, or computed, and birth    *)
(* dates are compared with the limit.                                      *)
(*                                                                         *)
(* A date is [year, mon, day], the year counted from 1900.  A day has      *)
(* DaySeconds seconds.  The program runs in UTC, as mktime takes m_tm for  *)
(* local time.                                                             *)
(***************************************************************************)
EXTENDS Numbers

CONSTANTS IntSize,    \* the number of values of int and of uint32_t
          DaySeconds, \* bound: seconds of a day
          Date,       \* the dates on which something happens
          BirthDate   \* the dates of birth

UInt == [size |-> IntSize, signed |-> FALSE]
SInt == [size |-> IntSize, signed |-> TRUE]

ASSUME UIntAssumption == UInt \in Type
ASSUME DayAssumption == DaySeconds \in Nat \ {0}

Leap(y) == y % 4 = 0 /\ (y % 100 # 0 \/ y % 400 = 0)
MonthStart == <<0, 31, 59, 90, 120, 151, 181, 212, 243, 273, 304, 334>>
MonthDays == <<31, 28, 31, 30, 31, 30, 31, 31, 30, 31, 30, 31>>

\* A date of the calendar.
OnCalendar(d) ==
  /\ d \in [year : Int, mon : 1 .. 12, day : 1 .. 31]
  /\ d.day <= MonthDays[d.mon] + (IF d.mon = 2 /\ Leap(1900 + d.year) THEN 1 ELSE 0)

\* Clocks show what an int can count from 1900.
ASSUME DatesAssumption ==
  /\ \A d \in Date \cup BirthDate : OnCalendar(d)
  /\ \A d \in Date : d.year \in 0 .. Largest(SInt)

VARIABLES m_tm,   \* the date at start-up
          m_ages, \* the limits of the ages up to 99
          today,
          limit   \* what get_mark compares birth dates with

ageVars == <<m_tm, m_ages, today, limit>>

\* mktime: seconds, for a date that need not exist (29 February is 1 March).
mktime(d, second) ==
  LET y == 1900 + d.year
      days == 365 * y + (y - 1) \div 4 - (y - 1) \div 100 + (y - 1) \div 400
                + MonthStart[d.mon] + (IF Leap(y) /\ d.mon > 2 THEN 1 ELSE 0) + d.day
  IN days * DaySeconds + second

\* Mutant: the limit is the end of the day, not the second after it.
generate_timestamp_from_age_NoPlus(start, age) ==
  LET born == [start EXCEPT !.year = Wrap(SInt, @ - age)]
  IN [first |-> mktime(born, DaySeconds - 1), second |-> mktime(born, 0) - 1]

\* tm_year is an int, from which a long is subtracted.
generate_timestamp_from_age(start, age) ==
  LET born == [start EXCEPT !.year = Wrap(SInt, @ - age)]
  IN [first |-> mktime(born, DaySeconds - 1) + 1, second |-> mktime(born, 0) - 1]

initialize_ages(start) == [age \in 0 .. 99 |-> generate_timestamp_from_age(start, age)]

get_timestamp_fromAge(age) ==
  IF age > 99 THEN generate_timestamp_from_age(m_tm, age).first ELSE m_ages[age].first
get_timestamp_toAge(age) ==
  IF age > 99 THEN generate_timestamp_from_age(m_tm, age).second ELSE m_ages[age].second

NoLimit == [age |-> -1]

AgesInit ==
  /\ NumInit
  /\ m_tm \in Date /\ today = m_tm
  /\ m_ages = initialize_ages(m_tm)
  /\ limit = NoLimit

\* The next parameter of any type is converted.
Parameter ==
  /\ \E t \in Type, s \in Text : Call(t, s)
  /\ UNCHANGED ageVars

Convert == Atoi /\ UNCHANGED ageVars

\* get_mark with the age that was converted.
LookUp ==
  /\ pc = "done" /\ T = UInt /\ limit = NoLimit
  /\ limit' = [age |-> result, from |-> get_timestamp_fromAge(result),
               to |-> get_timestamp_toAge(result)]
  /\ UNCHANGED <<numVars, m_tm, m_ages, today>>

Answer ==
  /\ Leave
  /\ limit' = NoLimit
  /\ UNCHANGED <<m_tm, m_ages, today>>

\* get_mark skips users born at the limit or on its other side.
FromPasses(birth) == ~(limit.from <= birth)
ToPasses(birth) == ~(limit.to >= birth)

Later(d) == mktime(d, 0) > mktime(today, 0)

\* Midnight passes; nobody makes the table again.
NewDay ==
  /\ \E d \in Date : Later(d) /\ today' = d
  /\ UNCHANGED <<numVars, m_tm, m_ages, limit>>

AgesNext == Parameter \/ Convert \/ LookUp \/ Answer \/ NewDay
AgesSpec == AgesInit /\ [][AgesNext]_<<numVars, ageVars>> /\ WF_numVars(Convert)

-------------------------------------------------------------------------------
(* Properties *)

\* Whole years of life on a date, by the calendar on the wall.
Before(a, b) == a.mon < b.mon \/ (a.mon = b.mon /\ a.day < b.day)
AgeOn(birth, d) == d.year - birth.year - (IF Before(d, birth) THEN 1 ELSE 0)
Birthday(birth, d) == birth.mon = d.mon /\ birth.day = d.day

\* The ages a person may be taken for, neither too old nor too young.
OldEnough(birth, d) == AgeOn(birth, d) >= limit.age
YoungEnough(birth, d) == AgeOn(birth, d) < limit.age \/ (AgeOn(birth, d) = limit.age /\ Birthday(birth, d))

\* Years before the int's least value come out after its largest one.
YearWraps == m_tm.year - limit.age < Least(SInt)
\* 29 February, counted back to a year without one, is 1 March.
LeapDay == m_tm.mon = 2 /\ m_tm.day = 29 /\ ~Leap(1900 + m_tm.year - limit.age)
\* The program was started on an earlier day, and it mattered.
OutOfDate(birth) ==
  \/ OldEnough(birth, m_tm) # OldEnough(birth, today)
  \/ YoungEnough(birth, m_tm) # YoungEnough(birth, today)

\* At any second of the day of birth, fromAge lets through those who are of that
\* age and toAge those who are younger or have that birthday today: but for the
\* date of the start-up, which is the date all answers are given for, and for a
\* start-up on 29 February.  An age so large that the year wraps turns the limits
\* round: all that were born until now are of the age that nobody can have.
LimitsRight ==
  limit # NoLimit =>
    \A birth \in BirthDate : \A second \in 0 .. DaySeconds - 1 :
      LET born == mktime(birth, second)
      IN /\ YearWraps /\ mktime(birth, 0) <= mktime(m_tm, 0) => FromPasses(born) /\ ~ToPasses(born)
         /\ ~(YearWraps \/ LeapDay \/ OutOfDate(birth)) =>
              /\ FromPasses(born) = OldEnough(birth, today)
              /\ ToPasses(born) = YoungEnough(birth, today)
===============================================================================
