---------------------------- MODULE ScheduleProofs ----------------------------
(***************************************************************************)
(* What the windowed searches over rules return, for every set of rules    *)
(* and every instant; that nothing comes into force between an instant and *)
(* the next transition computed at it; and that the scheduler and the      *)
(* manual commands keep to that transition.                                *)
(***************************************************************************)
EXTENDS ScheduleClock, Scheduler, WellFoundedInduction, TLAPS

(* Least and greatest elements                                             *)

LEMMA NatLess ==
  \E R : IsWellFoundedOn(R, Nat) /\ \A x, y \in Nat : x < y => <<x, y>> \in R
  <1> DEFINE R == OpToRel(<, Nat)
  <1>1. \A x, y \in Nat : x < y => <<x, y>> \in R
    BY DEF OpToRel
  <1> QED
    BY <1>1, NatLessThanWellFounded

LEMMA NatLeast ==
  ASSUME NEW S \in SUBSET Nat, S # {}
  PROVE  \E x \in S : \A y \in S : x =< y
  <1>1. PICK R : IsWellFoundedOn(R, Nat) /\ \A x, y \in Nat : x < y => <<x, y>> \in R
    BY NatLess
  <1>2. PICK x \in S : \A y \in S : ~(<<y, x>> \in R)
    <2>1. S \subseteq Nat /\ IsWellFoundedOn(R, Nat)
      BY <1>1
    <2> QED
      BY <2>1, WFMin, Zenon
  <1>3. ASSUME NEW y \in S PROVE x =< y
    <2>1. ~(y < x)
      BY <1>1, <1>2, Zenon
    <2> QED
      BY <2>1
  <1> QED
    BY <1>3, Zenon

LEMMA MinOfBounded ==
  ASSUME NEW S \in SUBSET Int, S # {}, NEW b \in Int, \A x \in S : b =< x
  PROVE  Min(S) \in S /\ \A y \in S : Min(S) =< y
  <1> DEFINE T == {n \in Nat : b + n \in S}
  <1>1. T \in SUBSET Nat /\ T # {}
    <2>1. PICK x \in S : TRUE
      OBVIOUS
    <2>2. x - b \in T
      BY <2>1
    <2> QED
      BY <2>2
  <1>2. PICK n \in T : \A m \in T : n =< m
    <2> HIDE DEF T
    <2> QED
      BY <1>1, NatLeast
  <1>3. ASSUME NEW y \in S PROVE b + n =< y
    <2>1. y - b \in T
      BY <1>3
    <2> QED
      BY <1>2, <2>1
  <1>4. b + n \in S
    BY <1>2
  <1>5. \E x \in S : \A y \in S : x =< y
    BY <1>3, <1>4
  <1> QED
    BY <1>5, Zenon DEF Min

LEMMA MaxOfBounded ==
  ASSUME NEW S \in SUBSET Int, S # {}, NEW b \in Int, \A x \in S : x =< b
  PROVE  Max(S) \in S /\ \A y \in S : Max(S) >= y
  <1> DEFINE T == {n \in Nat : b - n \in S}
  <1>1. T \in SUBSET Nat /\ T # {}
    <2>1. PICK x \in S : TRUE
      OBVIOUS
    <2>2. b - x \in T
      BY <2>1
    <2> QED
      BY <2>2
  <1>2. PICK n \in T : \A m \in T : n =< m
    <2> HIDE DEF T
    <2> QED
      BY <1>1, NatLeast
  <1>3. ASSUME NEW y \in S PROVE b - n >= y
    <2>1. b - y \in T
      BY <1>3
    <2> QED
      BY <1>2, <2>1
  <1>4. b - n \in S
    BY <1>2
  <1>5. \E x \in S : \A y \in S : x >= y
    BY <1>3, <1>4
  <1> QED
    BY <1>5, Zenon DEF Max

-----------------------------------------------------------------------------
(* One rule                                                                *)

\* t is an occurrence of r, by its weekday and its time of day alone.
Occurs(r, t) == weekday(Day(t)) \in r.days /\ t = OccurrenceOn(r, Day(t))

LEMMA DayOfMinute ==
  ASSUME NEW d \in Int, NEW s \in 0 .. 1439
  PROVE  (1440 * d + s) \div 1440 = d
  OBVIOUS

LEMMA OccurrenceDay ==
  ASSUME NEW d \in Int, NEW r, r.time_minutes \in 0 .. 1439
  PROVE  OccurrenceOn(r, d) \in Int /\ Day(OccurrenceOn(r, d)) = d
  <1>1. PICK s \in 0 .. 1439 : s = r.time_minutes
    OBVIOUS
  <1>2. OccurrenceOn(r, d) = 1440 * d + s
    BY <1>1 DEF OccurrenceOn
  <1> QED
    BY <1>2, DayOfMinute DEF Day

LEMMA DayOrder ==
  ASSUME NEW t \in Int
  PROVE  Day(t) \in Int /\ 1440 * Day(t) =< t /\ t < 1440 * Day(t) + 1440
  BY DEF Day

\* Every weekday is among the seven days after d, and among the seven before.
LEMMA WeekAhead ==
  ASSUME NEW d \in Int, NEW w \in 0 .. 6
  PROVE  \E o \in 1 .. 7 : (d + o) % 7 = w
  <1>1. ((w - d - 1) % 7) \in 0 .. 6
    OBVIOUS
  <1>2. (d + ((w - d - 1) % 7) + 1) % 7 = w
    OBVIOUS
  <1> QED
    BY <1>1, <1>2

LEMMA WeekBack ==
  ASSUME NEW d \in Int, NEW w \in 0 .. 6
  PROVE  \E o \in 1 .. 7 : (d - o) % 7 = w
  <1>1. PICK o \in 1 .. 7 : ((d - 8) + o) % 7 = w
    BY WeekAhead
  <1>2. 8 - o \in 1 .. 7 /\ d - (8 - o) = (d - 8) + o
    OBVIOUS
  <1> QED
    BY <1>1, <1>2

\* A rule that is enabled has a next run: its least occurrence after now_.
LEMMA NextRun ==
  ASSUME NEW r, NEW G, RuleOK(r, G), r.enabled, NEW now_ \in Int
  PROVE  LET n == schedule_rule_next_run(r, now_)
         IN  /\ n \in Int /\ n > now_ /\ Occurs(r, n)
             /\ \A t \in Int : Occurs(r, t) /\ t > now_ => n =< t
  <1> DEFINE d == Day(now_)
             Offsets == {o \in 0 .. 8 : /\ weekday(d + o) \in r.days
                                        /\ OccurrenceOn(r, d + o) > now_}
             m == Min(Offsets)
  <1>a. PICK s \in 0 .. 1439 : r.time_minutes = s
    BY DEF RuleOK
  <1>0. \A e \in Int : OccurrenceOn(r, e) = 1440 * e + s
    BY <1>a DEF OccurrenceOn
  <1>1. d \in Int /\ 1440 * d =< now_ /\ now_ < 1440 * d + 1440
    BY DayOrder
  <1>2. PICK w \in r.days : w \in 0 .. 6
    BY DEF RuleOK
  <1>4. Offsets # {}
    <2> HIDE DEF d
    <2>1. PICK o \in 1 .. 7 : (d + o) % 7 = w
      BY <1>1, <1>2, WeekAhead
    <2>2. OccurrenceOn(r, d + o) > now_
      BY <1>0, <1>1, <2>1
    <2>3. o \in Offsets
      BY <1>2, <2>1, <2>2 DEF weekday
    <2> QED
      BY <2>3
  <1>5. m \in Offsets /\ \A o \in Offsets : m =< o
    <2>1. Offsets \in SUBSET Int /\ \A o \in Offsets : 0 =< o
      OBVIOUS
    <2> HIDE DEF Offsets
    <2> QED
      BY <1>4, <2>1, MinOfBounded
  <1>6. schedule_rule_next_run(r, now_) = OccurrenceOn(r, d + m)
    BY <1>4 DEF schedule_rule_next_run
  <1>9. /\ m \in 0 .. 8 /\ weekday(d + m) \in r.days
        /\ OccurrenceOn(r, d + m) > now_
    <2> HIDE DEF m
    <2> QED
      BY <1>5
  <1> HIDE DEF m
  <1>7. d + m \in Int /\ OccurrenceOn(r, d + m) \in Int
        /\ Day(OccurrenceOn(r, d + m)) = d + m
    <2> HIDE DEF d
    <2>1. d + m \in Int
      BY <1>1, <1>9
    <2> QED
      BY <1>a, <2>1, OccurrenceDay
  <1>8. ASSUME NEW t \in Int, Occurs(r, t), t > now_
        PROVE  OccurrenceOn(r, d + m) =< t
    <2>0. Day(t) \in Int /\ 1440 * Day(t) =< t /\ t < 1440 * Day(t) + 1440
      BY DayOrder
    <2>1. PICK e \in Int : e = Day(t) /\ 1440 * e =< t /\ t < 1440 * e + 1440
      BY <2>0
    <2>2. t = OccurrenceOn(r, e) /\ weekday(e) \in r.days
      BY <1>8, <2>1 DEF Occurs
    <2>3. e - d \in 0 .. 8 => e - d \in Offsets
      <3> HIDE DEF d
      <3>1. d + (e - d) = e
        BY <1>1
      <3>2. OccurrenceOn(r, e) > now_
        BY <1>8, <2>2
      <3> QED
        BY <2>2, <3>1, <3>2
    <2> HIDE DEF d, Offsets
    <2>4. d =< e
      BY <1>1, <1>8, <2>1
    <2>5. m =< e - d
      <3>1. e - d \in Int /\ e - d >= 0 /\ m \in 0 .. 8
        BY <1>1, <1>9, <2>4
      <3>2. CASE e - d \in 0 .. 8
        BY <1>5, <2>3, <3>2
      <3>3. CASE e - d > 8
        BY <3>1, <3>3
      <3> QED
        BY <3>1, <3>2, <3>3
    <2>6. 1440 * (d + m) + s =< 1440 * e + s
      BY <1>1, <1>9, <2>5
    <2> QED
      BY <1>0, <1>7, <2>2, <2>6
  <1> QED
    BY <1>6, <1>7, <1>8, <1>9 DEF Occurs

\* What rule_last_occurrence has to return: the greatest occurrence that is
\* neither before effective_from nor after now_, or None if there is none.
IsLast(r, now_, l) ==
  LET Past == {t \in Int : Occurs(r, t) /\ r.effective_from =< t /\ t =< now_}
  IN  \/ l = None /\ Past = {}
      \/ l \in Past /\ \A t \in Past : t =< l

LEMMA LastOccurrence ==
  ASSUME NEW r, NEW G, RuleOK(r, G), NEW now_ \in Int
  PROVE  IsLast(r, now_, rule_last_occurrence(r, now_))
  <1> DEFINE d == Day(now_)
             Offsets == {o \in 0 .. 7 : /\ weekday(d - o) \in r.days
                                        /\ OccurrenceOn(r, d - o) =< now_
                                        /\ OccurrenceOn(r, d - o) >= r.effective_from}
             m == Min(Offsets)
  <1>a. PICK s \in 0 .. 1439 : r.time_minutes = s
    BY DEF RuleOK
  <1>0. \A e \in Int : OccurrenceOn(r, e) = 1440 * e + s
    BY <1>a DEF OccurrenceOn
  <1>1. d \in Int /\ 1440 * d =< now_ /\ now_ < 1440 * d + 1440
    BY DayOrder
  <1>2. PICK f \in Int : f = r.effective_from
    BY DEF RuleOK
  <1>3. r.days \in SUBSET (0 .. 6)
    BY DEF RuleOK
  <1>4. ASSUME NEW t \in Int, Occurs(r, t), f =< t, t =< now_
        PROVE  \E o \in Offsets : t =< OccurrenceOn(r, d - o)
    <2>0. Day(t) \in Int /\ 1440 * Day(t) =< t /\ t < 1440 * Day(t) + 1440
      BY DayOrder
    <2>1. PICK e \in Int : e = Day(t) /\ 1440 * e =< t /\ t < 1440 * e + 1440
      BY <2>0
    <2>2. t = OccurrenceOn(r, e) /\ e % 7 \in r.days
      BY <1>4, <2>1 DEF Occurs, weekday
    <2> HIDE DEF d
    <2>3. e =< d
      BY <1>1, <1>4, <2>1
    <2>4. CASE d - e =< 7
      <3>1. d - e \in 0 .. 7 /\ d - (d - e) = e
        BY <1>1, <2>3, <2>4
      <3>2. OccurrenceOn(r, e) =< now_ /\ OccurrenceOn(r, e) >= r.effective_from
        BY <1>2, <1>4, <2>2
      <3>3. d - e \in Offsets
        BY <2>2, <3>1, <3>2 DEF weekday
      <3> QED
        BY <2>2, <3>1, <3>3
    <2>5. CASE d - e > 7
      <3>1. PICK o \in 1 .. 7 : (d - o) % 7 = e % 7
        BY <1>1, <1>3, <2>2, WeekBack
      <3>2. e < d - o /\ d - o < d
        BY <1>1, <2>5
      <3>3. OccurrenceOn(r, d - o) =< now_ /\ OccurrenceOn(r, d - o) >= t
        BY <1>0, <1>1, <2>2, <3>2
      <3>4. OccurrenceOn(r, d - o) \in Int /\ OccurrenceOn(r, d - o) >= f
        BY <1>0, <1>1, <1>4, <3>3
      <3>5. o \in Offsets
        BY <1>2, <2>2, <3>1, <3>3, <3>4 DEF weekday
      <3> QED
        BY <3>3, <3>5
    <2> QED
      BY <1>1, <2>4, <2>5
  <1>5. CASE Offsets = {}
    <2>1. rule_last_occurrence(r, now_) = None
      BY <1>5 DEF rule_last_occurrence
    <2> QED
      BY <1>2, <1>4, <1>5, <2>1 DEF IsLast
  <1>6. CASE Offsets # {}
    <2>1. rule_last_occurrence(r, now_) = OccurrenceOn(r, d - m)
      BY <1>6 DEF rule_last_occurrence
    <2>2. m \in Offsets /\ \A o \in Offsets : m =< o
      <3>1. Offsets \in SUBSET Int /\ \A o \in Offsets : 0 =< o
        OBVIOUS
      <3> HIDE DEF Offsets
      <3> QED
        BY <1>6, <3>1, MinOfBounded
    <2>3. /\ m \in 0 .. 7 /\ weekday(d - m) \in r.days
          /\ OccurrenceOn(r, d - m) =< now_
          /\ OccurrenceOn(r, d - m) >= r.effective_from
      <3> HIDE DEF m
      <3> QED
        BY <2>2
    <2> HIDE DEF m
    <2>4. d - m \in Int /\ OccurrenceOn(r, d - m) \in Int
          /\ Day(OccurrenceOn(r, d - m)) = d - m
      <3> HIDE DEF d
      <3>1. d - m \in Int
        BY <1>1, <2>3
      <3> QED
        BY <1>a, <3>1, OccurrenceDay
    <2>5. ASSUME NEW t \in Int, Occurs(r, t), f =< t, t =< now_
          PROVE  t =< OccurrenceOn(r, d - m)
      <3>1. PICK o \in Offsets : t =< OccurrenceOn(r, d - o)
        BY <1>4, <2>5
      <3>2. o \in 0 .. 7 /\ m =< o
        BY <2>2, <3>1
      <3> HIDE DEF d, Offsets
      <3>3. OccurrenceOn(r, d - o) =< OccurrenceOn(r, d - m)
        <4>1. d \in Int /\ m \in Int /\ o \in Int /\ m =< o
          BY <1>1, <2>3, <3>2
        <4>2. /\ OccurrenceOn(r, d - o) = 1440 * (d - o) + s
              /\ OccurrenceOn(r, d - m) = 1440 * (d - m) + s
          BY <1>0, <4>1
        <4> QED
          BY <4>1, <4>2
      <3>4. OccurrenceOn(r, d - o) \in Int
        BY <1>0, <1>1, <3>2
      <3> QED
        BY <2>4, <3>1, <3>3, <3>4
    <2> QED
      BY <1>2, <2>1, <2>3, <2>4, <2>5 DEF IsLast, Occurs
  <1> QED
    BY <1>5, <1>6

-----------------------------------------------------------------------------
(* Between an instant and the next run of a rule that took effect          *)

\* Before its next run the last occurrence of a rule does not change, at its
\* next run it is that run, and an occurrence that is new is not earlier.
LEMMA LastBetweenRuns ==
  ASSUME NEW r, NEW G, RuleOK(r, G), r.enabled, None \notin Int,
         NEW n1 \in Int, NEW n2 \in Int, n1 < n2, r.effective_from =< n1
  PROVE  LET l1 == rule_last_occurrence(r, n1)
             l2 == rule_last_occurrence(r, n2)
             x == schedule_rule_next_run(r, n1)
         IN  /\ x \in Int /\ x > n1
             /\ l1 \in Int \cup {None} /\ l2 \in Int \cup {None}
             /\ l1 \in Int => l1 =< n1
             /\ l2 \in Int => l2 =< n2
             /\ n2 < x => l2 = l1
             /\ n2 = x => l2 = n2
             /\ x =< n2 => l2 \in Int /\ x =< l2
             /\ l1 = None /\ l2 # None => x =< l2
  <1> DEFINE l1 == rule_last_occurrence(r, n1)
             l2 == rule_last_occurrence(r, n2)
             x == schedule_rule_next_run(r, n1)
             Past(n) == {t \in Int : Occurs(r, t) /\ r.effective_from =< t /\ t =< n}
  <1>0. r.effective_from \in Int
    BY DEF RuleOK
  <1>1. /\ x \in Int /\ x > n1 /\ Occurs(r, x)
        /\ \A t \in Int : Occurs(r, t) /\ t > n1 => x =< t
    BY NextRun
  <1>2. \/ l1 = None /\ Past(n1) = {}
        \/ l1 \in Past(n1) /\ \A t \in Past(n1) : t =< l1
    BY LastOccurrence DEF IsLast
  <1>3. \/ l2 = None /\ Past(n2) = {}
        \/ l2 \in Past(n2) /\ \A t \in Past(n2) : t =< l2
    BY LastOccurrence DEF IsLast
  <1>4. ASSUME n2 < x PROVE l2 = l1
    <2>1. Past(n2) = Past(n1)
      <3>1. ASSUME NEW t \in Past(n2) PROVE t =< n1
        BY <1>1, <1>4, <3>1
      <3>2. ASSUME NEW t \in Past(n1) PROVE t =< n2
        BY <3>2
      <3> QED
        BY <3>1, <3>2
    <2>2. Past(n1) \subseteq Int
      OBVIOUS
    <2> HIDE DEF l1, l2, Past, x
    <2> QED
      BY <1>2, <1>3, <2>1, <2>2
  <1>5. ASSUME n2 = x PROVE l2 = n2
    <2>1. n2 \in Past(n2)
      BY <1>0, <1>1, <1>5
    <2>2. \A t \in Past(n2) : t \in Int /\ t =< n2
      OBVIOUS
    <2> HIDE DEF l1, l2, Past, x
    <2> QED
      BY <1>3, <2>1, <2>2
  <1>8. ASSUME x =< n2 PROVE l2 \in Int /\ x =< l2
    <2>1. x \in Past(n2)
      BY <1>0, <1>1, <1>8
    <2>2. \A t \in Past(n2) : t \in Int
      OBVIOUS
    <2> HIDE DEF l1, l2, Past, x
    <2> QED
      BY <1>3, <2>1, <2>2
  <1>6. ASSUME l1 = None, l2 # None PROVE x =< l2
    <2>1. l2 \in Int /\ Occurs(r, l2) /\ r.effective_from =< l2 /\ l2 =< n2
      <3> HIDE DEF l2
      <3> QED
        BY <1>3, <1>6
    <2>2. Past(n1) = {}
      <3>1. Past(n1) \subseteq Int
        OBVIOUS
      <3> HIDE DEF l1, Past
      <3> QED
        BY <1>2, <1>6, <3>1
    <2>3. l2 > n1
      <3> HIDE DEF l2
      <3> QED
        BY <2>1, <2>2
    <2> HIDE DEF l2, x
    <2> QED
      BY <1>1, <2>1, <2>3
  <1>7. /\ l1 \in Int \cup {None} /\ l2 \in Int \cup {None}
        /\ l1 \in Int => l1 =< n1
        /\ l2 \in Int => l2 =< n2
    <2> HIDE DEF l1, l2
    <2> QED
      BY <1>2, <1>3
  <1> HIDE DEF l1, l2, x
  <1> QED
    BY <1>1, <1>4, <1>5, <1>6, <1>7, <1>8 DEF l1, l2, x

-----------------------------------------------------------------------------
(* Several rules                                                           *)

\* The rules whose last occurrence at n exists.
Seen(R, ids, n) == {i \in ids : rule_last_occurrence(R[i], n) # None}

\* The winner of a scope is a rule of it that occurred, and none occurred
\* later.
LEMMA Winner ==
  ASSUME NEW R, NEW ids \in SUBSET Nat, NEW n \in Int, None \notin Int,
         \A i \in ids : LET l == rule_last_occurrence(R[i], n)
                        IN  l \in Int \cup {None} /\ (l \in Int => l =< n)
  PROVE  LET w == scope_winner(R, ids, n)
         IN  /\ Seen(R, ids, n) = {} => w = None
             /\ Seen(R, ids, n) # {} =>
                  /\ w \in Seen(R, ids, n) /\ w # None
                  /\ \A i \in Seen(R, ids, n) :
                       rule_last_occurrence(R[i], n) =< rule_last_occurrence(R[w], n)
  <1> DEFINE l(i) == rule_last_occurrence(R[i], n)
             got == Seen(R, ids, n)
             Lasts == {l(i) : i \in got}
             Latest == {i \in got : l(i) = Max(Lasts)}
  <1>1. scope_winner(R, ids, n) = IF got = {} THEN None ELSE Min(Latest)
    BY DEF scope_winner, Seen
  <1>2. ASSUME got # {}
        PROVE  /\ Min(Latest) \in got
               /\ \A i \in got : l(i) =< l(Min(Latest))
    <2>1. Lasts \in SUBSET Int /\ Lasts # {} /\ \A x \in Lasts : x =< n
      BY <1>2 DEF Seen
    <2>2. Max(Lasts) \in Lasts /\ \A x \in Lasts : Max(Lasts) >= x
      <3> HIDE DEF Lasts
      <3> QED
        BY <2>1, MaxOfBounded
    <2>3. Latest # {} /\ Latest \in SUBSET Int /\ \A i \in Latest : 0 =< i
      <3>1. got \subseteq Nat
        BY DEF Seen
      <3>2. PICK i \in got : l(i) = Max(Lasts)
        <4> HIDE DEF l, got
        <4> QED
          BY <2>2
      <3>3. i \in Latest
        BY <3>2
      <3>4. Latest \subseteq got
        OBVIOUS
      <3> HIDE DEF Latest, got
      <3> QED
        BY <3>1, <3>3, <3>4
    <2>4. Min(Latest) \in Latest
      <3> HIDE DEF Latest
      <3> QED
        BY <2>3, MinOfBounded
    <2>5. Min(Latest) \in got /\ l(Min(Latest)) = Max(Lasts)
      BY <2>4
    <2>6. \A i \in got : l(i) \in Lasts /\ l(i) \in Int
      BY DEF Seen
    <2> HIDE DEF l, got, Lasts, Latest
    <2> QED
      BY <2>1, <2>2, <2>5, <2>6
  <1>3. \A w \in got : w # None
    BY DEF Seen
  <1> QED
    BY <1>1, <1>2, <1>3

\* The winner depends on the last occurrences alone.
LEMMA SameWinner ==
  ASSUME NEW R, NEW ids, NEW n1, NEW n2,
         \A i \in ids : rule_last_occurrence(R[i], n2) = rule_last_occurrence(R[i], n1)
  PROVE  scope_winner(R, ids, n2) = scope_winner(R, ids, n1)
  <1> DEFINE l(i, n) == rule_last_occurrence(R[i], n)
             got(n) == {i \in ids : l(i, n) # None}
             last(n) == Max({l(i, n) : i \in got(n)})
             latest(n) == {i \in got(n) : l(i, n) = last(n)}
  <1>1. got(n2) = got(n1)
    OBVIOUS
  <1>2. {l(i, n2) : i \in got(n2)} = {l(i, n1) : i \in got(n1)}
    BY <1>1
  <1>3. last(n2) = last(n1)
    BY <1>2
  <1>4. latest(n2) = latest(n1)
    <2>1. \A i \in got(n1) : l(i, n2) = l(i, n1)
      OBVIOUS
    <2> HIDE DEF l, got, last
    <2> QED
      BY <1>1, <1>3, <2>1
  <1>5. \A n : scope_winner(R, ids, n) = IF got(n) = {} THEN None ELSE Min(latest(n))
    BY Zenon DEF scope_winner
  <1> HIDE DEF got, latest
  <1> QED
    BY <1>1, <1>4, <1>5

\* The next transition of a scope is the least of the next runs of its rules.
LEMMA NextTransition ==
  ASSUME NEW R, NEW ids, NEW n \in Int, None \notin Int,
         \A i \in ids : LET x == schedule_rule_next_run(R[i], n)
                        IN  x \in Int /\ x > n
  PROVE  LET next == scope_next_transition(R, ids, n)
         IN  \/ next = None /\ ids = {}
             \/ /\ next \in Int
                /\ \E i \in ids : next = schedule_rule_next_run(R[i], n)
                /\ \A i \in ids : next =< schedule_rule_next_run(R[i], n)
  <1> DEFINE x(i) == schedule_rule_next_run(R[i], n)
             runs == {x(i) : i \in ids}
  <1>1. runs \in SUBSET Int /\ (\A y \in runs : n =< y) /\ runs \ {None} = runs
    OBVIOUS
  <1>2. scope_next_transition(R, ids, n) = IF runs = {} THEN None ELSE Min(runs)
    BY <1>1 DEF scope_next_transition
  <1>3. runs = {} <=> ids = {}
    OBVIOUS
  <1>4. runs # {} => Min(runs) \in runs /\ \A y \in runs : Min(runs) =< y
    <2> HIDE DEF runs
    <2> QED
      BY <1>1, MinOfBounded
  <1> QED
    BY <1>1, <1>2, <1>3, <1>4

-----------------------------------------------------------------------------
(* The schedule of one miner                                               *)

\* Rules that took effect by n1, and a later instant n2.
Settled(R, n1, n2) ==
  /\ None \notin Int /\ n1 \in Int /\ n2 \in Int /\ n1 < n2
  /\ DOMAIN R \subseteq Nat
  /\ \E G : \A i \in DOMAIN R : RuleOK(R[i], G) /\ R[i].effective_from =< n1

\* The facts of LastBetweenRuns, for a scope.
LEMMA ScopeBetweenRuns ==
  ASSUME NEW R, NEW n1, NEW n2, Settled(R, n1, n2),
         NEW ids \in SUBSET DOMAIN R, \A i \in ids : R[i].enabled
  PROVE  /\ \A i \in ids :
             LET l1 == rule_last_occurrence(R[i], n1)
                 l2 == rule_last_occurrence(R[i], n2)
                 x == schedule_rule_next_run(R[i], n1)
             IN  /\ x \in Int /\ x > n1
                 /\ l1 \in Int \cup {None} /\ l2 \in Int \cup {None}
                 /\ l1 \in Int => l1 =< n1
                 /\ l2 \in Int => l2 =< n2
                 /\ n2 < x => l2 = l1
                 /\ n2 = x => l2 = n2
                 /\ x =< n2 => l2 \in Int /\ x =< l2
                 /\ l1 = None /\ l2 # None => x =< l2
  <1>1. PICK G : \A i \in DOMAIN R : RuleOK(R[i], G) /\ R[i].effective_from =< n1
    BY DEF Settled
  <1>2. n1 \in Int /\ n2 \in Int /\ n1 < n2 /\ None \notin Int
    BY DEF Settled
  <1> SUFFICES ASSUME NEW i \in ids
               PROVE  LET l1 == rule_last_occurrence(R[i], n1)
                          l2 == rule_last_occurrence(R[i], n2)
                          x == schedule_rule_next_run(R[i], n1)
                      IN  /\ x \in Int /\ x > n1
                          /\ l1 \in Int \cup {None} /\ l2 \in Int \cup {None}
                          /\ l1 \in Int => l1 =< n1
                          /\ l2 \in Int => l2 =< n2
                          /\ n2 < x => l2 = l1
                          /\ n2 = x => l2 = n2
                          /\ x =< n2 => l2 \in Int /\ x =< l2
                          /\ l1 = None /\ l2 # None => x =< l2
    OBVIOUS
  <1>3. RuleOK(R[i], G) /\ R[i].effective_from =< n1 /\ R[i].enabled
    BY <1>1
  <1> QED
    BY <1>2, <1>3, LastBetweenRuns

\* A scope none of whose rules runs up to n2 has the same winner; one of whose
\* rules runs at n2, and none before, has a winner that occurred at n2.
LEMMA ScopeWinnerLater ==
  ASSUME NEW R, NEW n1, NEW n2, Settled(R, n1, n2),
         NEW ids \in SUBSET DOMAIN R, \A i \in ids : R[i].enabled
  PROVE  LET x(i) == schedule_rule_next_run(R[i], n1)
             w1 == scope_winner(R, ids, n1)
             w2 == scope_winner(R, ids, n2)
         IN  /\ w1 \in ids \cup {None} /\ w2 \in ids \cup {None}
             /\ (\A i \in ids : n2 < x(i)) => w2 = w1
             /\ (\E i \in ids : n2 = x(i)) =>
                  w2 # None /\ rule_last_occurrence(R[w2], n2) = n2
             /\ w1 = None /\ w2 # None /\ (\A i \in ids : n2 =< x(i)) =>
                  rule_last_occurrence(R[w2], n2) = n2
  <1> DEFINE l(i, n) == rule_last_occurrence(R[i], n)
             x(i) == schedule_rule_next_run(R[i], n1)
             w(n) == scope_winner(R, ids, n)
  <1>0. n1 \in Int /\ n2 \in Int /\ n1 < n2 /\ None \notin Int /\ ids \in SUBSET Nat
    BY DEF Settled
  <1>1. \A i \in ids : /\ l(i, n1) \in Int \cup {None} /\ l(i, n2) \in Int \cup {None}
                       /\ l(i, n1) \in Int => l(i, n1) =< n1
                       /\ l(i, n2) \in Int => l(i, n2) =< n2
    BY ScopeBetweenRuns
  <1>2. \A i \in ids : /\ x(i) \in Int
                       /\ n2 < x(i) => l(i, n2) = l(i, n1)
                       /\ n2 = x(i) => l(i, n2) = n2
                       /\ l(i, n1) = None /\ l(i, n2) # None => x(i) =< l(i, n2)
    BY ScopeBetweenRuns
  <1>3. /\ Seen(R, ids, n1) = {} => w(n1) = None
        /\ Seen(R, ids, n1) # {} => w(n1) \in Seen(R, ids, n1) /\ w(n1) # None
    BY <1>0, <1>1, Winner
  <1>4. /\ Seen(R, ids, n2) = {} => w(n2) = None
        /\ Seen(R, ids, n2) # {} =>
             /\ w(n2) \in Seen(R, ids, n2) /\ w(n2) # None
             /\ \A i \in Seen(R, ids, n2) : l(i, n2) =< l(w(n2), n2)
    BY <1>0, <1>1, Winner
  <1>5. \A i \in ids : /\ i \in Seen(R, ids, n1) <=> l(i, n1) # None
                       /\ i \in Seen(R, ids, n2) <=> l(i, n2) # None
    BY DEF Seen
  <1>6. Seen(R, ids, n1) \subseteq ids /\ Seen(R, ids, n2) \subseteq ids
    BY DEF Seen
  <1>7. ASSUME \A i \in ids : n2 < x(i) PROVE w(n2) = w(n1)
    <2>1. \A i \in ids : l(i, n2) = l(i, n1)
      BY <1>2, <1>7
    <2> QED
      BY <2>1, SameWinner
  <1> HIDE DEF l, x, w
  <1>8. ASSUME NEW i \in ids, n2 = x(i) PROVE w(n2) # None /\ l(w(n2), n2) = n2
    <2>1. l(i, n2) = n2 /\ i \in Seen(R, ids, n2)
      BY <1>0, <1>2, <1>5, <1>8
    <2>2. /\ w(n2) \in ids /\ w(n2) # None /\ n2 =< l(w(n2), n2)
          /\ l(w(n2), n2) # None
      BY <1>4, <1>5, <1>6, <2>1
    <2>3. l(w(n2), n2) \in Int /\ l(w(n2), n2) =< n2
      BY <1>1, <2>2
    <2> QED
      BY <1>0, <2>2, <2>3
  <1>9. ASSUME w(n1) = None, w(n2) # None, \A i \in ids : n2 =< x(i)
        PROVE  l(w(n2), n2) = n2
    <2>1. w(n2) \in Seen(R, ids, n2)
      BY <1>4, <1>9
    <2>2. w(n2) \in ids /\ l(w(n2), n2) # None
      BY <1>5, <1>6, <2>1
    <2>3. l(w(n2), n1) = None
      BY <1>3, <1>5, <1>9, <2>2
    <2>4. l(w(n2), n2) \in Int /\ l(w(n2), n2) =< n2 /\ x(w(n2)) =< l(w(n2), n2)
      BY <1>1, <1>2, <2>2, <2>3
    <2>5. x(w(n2)) \in Int /\ n2 =< x(w(n2))
      BY <1>2, <1>9, <2>2
    <2> QED
      BY <1>0, <2>4, <2>5
  <1>10. w(n1) \in ids \cup {None} /\ w(n2) \in ids \cup {None}
    BY <1>3, <1>4, <1>6
  <1> QED
    BY <1>7, <1>8, <1>9, <1>10 DEF l, x, w

\* Which rule is in force at a later instant, and since when.
InForceOf(R, g, n) ==
  LET i == active_rule(R, g, n)
  IN  <<i, IF i = None THEN None ELSE rule_last_occurrence(R[i], n)>>

LEMMA InForceLater ==
  ASSUME NEW R, NEW n1, NEW n2, Settled(R, n1, n2), NEW g
  PROVE  LET next == next_transition(R, g, n1)
         IN  /\ (next = None \/ n2 < next) => InForceOf(R, g, n2) = InForceOf(R, g, n1)
             /\ n2 = next => InForceOf(R, g, n2)[2] = n2
  <1> DEFINE next == next_transition(R, g, n1)
             l(i, n) == rule_last_occurrence(R[i], n)
             x(i) == schedule_rule_next_run(R[i], n1)
             FR == FarmRules(R)
             GR == GroupRules(R, g)
             fw(n) == scope_winner(R, FR, n)
             gw(n) == scope_winner(R, GR, n)
  <1>0. n1 \in Int /\ n2 \in Int /\ n1 < n2 /\ None \notin Int
    BY DEF Settled
  <1>1. /\ FR \in SUBSET DOMAIN R /\ \A i \in FR : R[i].enabled
        /\ GR \in SUBSET DOMAIN R /\ \A i \in GR : R[i].enabled
        /\ FR \cup GR \in SUBSET DOMAIN R /\ \A i \in FR \cup GR : R[i].enabled
    BY DEF FarmRules, GroupRules
  <1>2. \A i \in FR \cup GR :
          /\ x(i) \in Int /\ x(i) > n1
          /\ n2 < x(i) => l(i, n2) = l(i, n1)
    BY <1>1, ScopeBetweenRuns
  <1>3. /\ fw(n1) \in FR \cup {None} /\ fw(n2) \in FR \cup {None}
        /\ (\A i \in FR : n2 < x(i)) => fw(n2) = fw(n1)
        /\ (\E i \in FR : n2 = x(i)) => fw(n2) # None /\ l(fw(n2), n2) = n2
    BY <1>1, ScopeWinnerLater
  <1>4. /\ gw(n1) \in GR \cup {None} /\ gw(n2) \in GR \cup {None}
        /\ (\A i \in GR : n2 < x(i)) => gw(n2) = gw(n1)
        /\ (\E i \in GR : n2 = x(i)) => gw(n2) # None /\ l(gw(n2), n2) = n2
        /\ gw(n1) = None /\ gw(n2) # None /\ (\A i \in GR : n2 =< x(i)) =>
             l(gw(n2), n2) = n2
    BY <1>1, ScopeWinnerLater
  <1>5. /\ InForceOf(R, g, n1) =
             LET i == IF gw(n1) # None THEN gw(n1) ELSE fw(n1)
             IN  <<i, IF i = None THEN None ELSE l(i, n1)>>
        /\ InForceOf(R, g, n2) =
             LET i == IF gw(n2) # None THEN gw(n2) ELSE fw(n2)
             IN  <<i, IF i = None THEN None ELSE l(i, n2)>>
    BY DEF InForceOf, active_rule
  <1>6. CASE gw(n1) # None
    <2>1. \/ next = None /\ GR = {}
          \/ /\ next \in Int /\ \E i \in GR : next = x(i)
             /\ \A i \in GR : next =< x(i)
      <3>1. next = scope_next_transition(R, GR, n1)
        BY <1>6 DEF next_transition
      <3>2. \A i \in GR : x(i) \in Int /\ x(i) > n1
        BY <1>2
      <3> HIDE DEF GR
      <3> QED
        BY <1>0, <3>1, <3>2, NextTransition
    <2> HIDE DEF next, l, x, FR, GR, fw, gw
    <2>2. ASSUME next = None \/ n2 < next
          PROVE  gw(n2) = gw(n1) /\ l(gw(n1), n2) = l(gw(n1), n1)
      <3>1. \A i \in GR : n2 < x(i)
        BY <1>0, <1>2, <2>1, <2>2
      <3> QED
        BY <1>2, <1>4, <1>6, <3>1
    <2>3. ASSUME n2 = next PROVE gw(n2) # None /\ l(gw(n2), n2) = n2
      BY <1>0, <1>4, <2>1, <2>3
    <2> QED
      BY <1>5, <1>6, <2>2, <2>3 DEF next
  <1>7. CASE gw(n1) = None
    <2>1. \/ next = None /\ FR \cup GR = {}
          \/ /\ next \in Int /\ \E i \in FR \cup GR : next = x(i)
             /\ \A i \in FR \cup GR : next =< x(i)
      <3>1. next = scope_next_transition(R, FR \cup GR, n1)
        BY <1>7 DEF next_transition
      <3>2. \A i \in FR \cup GR : x(i) \in Int /\ x(i) > n1
        BY <1>2
      <3> HIDE DEF FR, GR
      <3> QED
        BY <1>0, <3>1, <3>2, NextTransition
    <2> HIDE DEF next, l, x, FR, GR, fw, gw
    <2>2. ASSUME next = None \/ n2 < next
          PROVE  /\ gw(n2) = None /\ fw(n2) = fw(n1)
                 /\ fw(n1) # None => l(fw(n1), n2) = l(fw(n1), n1)
      <3>1. \A i \in FR \cup GR : n2 < x(i)
        BY <1>0, <1>2, <2>1, <2>2
      <3> QED
        BY <1>2, <1>3, <1>4, <1>7, <3>1
    <2>3. ASSUME n2 = next
          PROVE  \/ gw(n2) # None /\ l(gw(n2), n2) = n2
                 \/ /\ gw(n2) = None /\ fw(n2) # None
                    /\ l(fw(n2), n2) = n2
      <3>1. /\ \A i \in GR : n2 =< x(i)
            /\ \E i \in FR \cup GR : n2 = x(i)
        BY <1>0, <2>1, <2>3
      <3>2. CASE gw(n2) # None
        BY <1>4, <1>7, <3>1, <3>2
      <3>3. CASE gw(n2) = None
        BY <1>3, <1>4, <3>1, <3>3
      <3> QED
        BY <3>2, <3>3
    <2> QED
      BY <1>5, <1>7, <2>2, <2>3 DEF next
  <1> QED
    BY <1>6, <1>7

\* A scope of which a rule ran by n2 has a winner that did not occur before that
\* run; and if no rule of it had occurred at n1, none before the first run.
LEMMA ScopeWinnerNotEarlier ==
  ASSUME NEW R, NEW n1, NEW n2, Settled(R, n1, n2), NEW y \in Int,
         NEW ids \in SUBSET DOMAIN R, \A i \in ids : R[i].enabled,
         \A i \in ids : y =< schedule_rule_next_run(R[i], n1)
  PROVE  LET x(i) == schedule_rule_next_run(R[i], n1)
             w1 == scope_winner(R, ids, n1)
             w2 == scope_winner(R, ids, n2)
             l2 == rule_last_occurrence(R[w2], n2)
         IN  /\ y =< n2 /\ (\E i \in ids : x(i) = y) => w2 # None /\ l2 \in Int /\ y =< l2
             /\ w1 = None /\ w2 # None => l2 \in Int /\ y =< l2
  <1> DEFINE l(i, n) == rule_last_occurrence(R[i], n)
             x(i) == schedule_rule_next_run(R[i], n1)
             w(n) == scope_winner(R, ids, n)
  <1>0. n1 \in Int /\ n2 \in Int /\ n1 < n2 /\ None \notin Int /\ ids \in SUBSET Nat
    BY DEF Settled
  <1>1. \A i \in ids : /\ l(i, n1) \in Int \cup {None} /\ l(i, n2) \in Int \cup {None}
                       /\ l(i, n1) \in Int => l(i, n1) =< n1
                       /\ l(i, n2) \in Int => l(i, n2) =< n2
    BY ScopeBetweenRuns
  <1>2. \A i \in ids : /\ x(i) \in Int
                       /\ x(i) =< n2 => l(i, n2) \in Int /\ x(i) =< l(i, n2)
                       /\ l(i, n1) = None /\ l(i, n2) # None => x(i) =< l(i, n2)
    BY ScopeBetweenRuns
  <1>3. /\ Seen(R, ids, n1) = {} => w(n1) = None
        /\ Seen(R, ids, n1) # {} => w(n1) \in Seen(R, ids, n1) /\ w(n1) # None
    BY <1>0, <1>1, Winner
  <1>4. /\ Seen(R, ids, n2) = {} => w(n2) = None
        /\ Seen(R, ids, n2) # {} =>
             /\ w(n2) \in Seen(R, ids, n2) /\ w(n2) # None
             /\ \A i \in Seen(R, ids, n2) : l(i, n2) =< l(w(n2), n2)
    BY <1>0, <1>1, Winner
  <1>5. \A i : /\ i \in Seen(R, ids, n1) <=> i \in ids /\ l(i, n1) # None
               /\ i \in Seen(R, ids, n2) <=> i \in ids /\ l(i, n2) # None
    BY DEF Seen
  <1>6. \A i \in ids : y =< x(i)
    OBVIOUS
  <1> HIDE DEF l, x, w
  <1>7. ASSUME NEW i \in ids, x(i) = y, y =< n2
        PROVE  w(n2) # None /\ l(w(n2), n2) \in Int /\ y =< l(w(n2), n2)
    <2>1. l(i, n2) \in Int /\ y =< l(i, n2) /\ i \in Seen(R, ids, n2)
      BY <1>0, <1>2, <1>5, <1>7
    <2>2. w(n2) \in ids /\ w(n2) # None /\ l(w(n2), n2) # None
          /\ l(i, n2) =< l(w(n2), n2)
      BY <1>4, <1>5, <2>1
    <2> QED
      BY <1>1, <2>1, <2>2
  <1>8. ASSUME w(n1) = None, w(n2) # None
        PROVE  l(w(n2), n2) \in Int /\ y =< l(w(n2), n2)
    <2>1. w(n2) \in ids /\ l(w(n2), n2) # None
      BY <1>4, <1>5, <1>8
    <2>2. l(w(n2), n1) = None
      BY <1>3, <1>5, <1>8, <2>1
    <2>3. x(w(n2)) =< l(w(n2), n2) /\ y =< x(w(n2)) /\ l(w(n2), n2) \in Int
      BY <1>1, <1>2, <1>6, <2>1, <2>2
    <2> QED
      BY <1>2, <2>1, <2>3
  <1> QED
    BY <1>7, <1>8 DEF l, x, w

\* From the next transition on, what is in force came into force at it or later.
LEMMA InForceFromTheTransition ==
  ASSUME NEW R, NEW n1, NEW n2, Settled(R, n1, n2), NEW g,
         next_transition(R, g, n1) # None, next_transition(R, g, n1) =< n2
  PROVE  LET next == next_transition(R, g, n1)
         IN  /\ next \in Int /\ next > n1
             /\ InForceOf(R, g, n2)[2] \in Int /\ next =< InForceOf(R, g, n2)[2]
  <1> DEFINE next == next_transition(R, g, n1)
             l(i, n) == rule_last_occurrence(R[i], n)
             x(i) == schedule_rule_next_run(R[i], n1)
             FR == FarmRules(R)
             GR == GroupRules(R, g)
             fw(n) == scope_winner(R, FR, n)
             gw(n) == scope_winner(R, GR, n)
  <1>0. n1 \in Int /\ n2 \in Int /\ n1 < n2 /\ None \notin Int
    BY DEF Settled
  <1>1. /\ FR \in SUBSET DOMAIN R /\ \A i \in FR : R[i].enabled
        /\ GR \in SUBSET DOMAIN R /\ \A i \in GR : R[i].enabled
        /\ FR \cup GR \in SUBSET DOMAIN R /\ \A i \in FR \cup GR : R[i].enabled
    BY DEF FarmRules, GroupRules
  <1>2. \A i \in FR \cup GR : x(i) \in Int /\ x(i) > n1
    BY <1>1, ScopeBetweenRuns
  <1>3. InForceOf(R, g, n2) =
          LET i == IF gw(n2) # None THEN gw(n2) ELSE fw(n2)
          IN  <<i, IF i = None THEN None ELSE l(i, n2)>>
    BY DEF InForceOf, active_rule
  <1>4. next # None /\ next =< n2
    OBVIOUS
  <1>5. CASE gw(n1) # None
    <2>1. next = scope_next_transition(R, GR, n1)
      BY <1>5 DEF next_transition
    <2>2. /\ next \in Int /\ \E i \in GR : next = x(i)
          /\ \A i \in GR : next =< x(i)
      <3>1. \A i \in GR : x(i) \in Int /\ x(i) > n1
        BY <1>2
      <3> HIDE DEF GR
      <3> QED
        BY <1>0, <1>4, <2>1, <3>1, NextTransition
    <2>3. gw(n2) # None /\ l(gw(n2), n2) \in Int /\ next =< l(gw(n2), n2)
      <3> HIDE DEF next, GR
      <3> QED
        BY <1>1, <1>4, <2>2, ScopeWinnerNotEarlier
    <2> HIDE DEF next, l, x, FR, GR, fw, gw
    <2> QED
      BY <1>2, <1>3, <2>2, <2>3 DEF next
  <1>6. CASE gw(n1) = None
    <2>1. next = scope_next_transition(R, FR \cup GR, n1)
      BY <1>6 DEF next_transition
    <2>2. /\ next \in Int /\ \E i \in FR \cup GR : next = x(i)
          /\ \A i \in FR \cup GR : next =< x(i)
      <3>1. \A i \in FR \cup GR : x(i) \in Int /\ x(i) > n1
        BY <1>2
      <3> HIDE DEF FR, GR
      <3> QED
        BY <1>0, <1>4, <2>1, <3>1, NextTransition
    <2>3. /\ (\E i \in GR : x(i) = next) =>
                gw(n2) # None /\ l(gw(n2), n2) \in Int /\ next =< l(gw(n2), n2)
          /\ gw(n2) # None => l(gw(n2), n2) \in Int /\ next =< l(gw(n2), n2)
      <3>1. \A i \in GR : next =< x(i)
        BY <2>2
      <3> HIDE DEF next, GR
      <3> QED
        BY <1>1, <1>4, <1>6, <2>2, <3>1, ScopeWinnerNotEarlier
    <2>4. (\E i \in FR : x(i) = next) =>
             fw(n2) # None /\ l(fw(n2), n2) \in Int /\ next =< l(fw(n2), n2)
      <3>1. \A i \in FR : next =< x(i)
        BY <2>2
      <3> HIDE DEF next, FR
      <3> QED
        BY <1>1, <1>4, <2>2, <3>1, ScopeWinnerNotEarlier
    <2> HIDE DEF next, l, x, FR, GR, fw, gw
    <2> QED
      BY <1>2, <1>3, <2>2, <2>3, <2>4 DEF next
  <1> QED
    BY <1>5, <1>6

\* Rows that schedule_normalize_input let through.
Valid(R) ==
  DOMAIN R \subseteq Nat /\ \E G : \A i \in DOMAIN R : RuleOK(R[i], G)

LEMMA LastsArePast ==
  ASSUME NEW R, Valid(R), NEW n \in Int, None \notin Int
  PROVE  \A i \in DOMAIN R :
           LET l == rule_last_occurrence(R[i], n)
           IN  l \in Int \cup {None} /\ (l \in Int => l =< n)
  <1>1. PICK G : \A i \in DOMAIN R : RuleOK(R[i], G)
    BY DEF Valid
  <1>2. ASSUME NEW i \in DOMAIN R
        PROVE  LET l == rule_last_occurrence(R[i], n)
               IN  l \in Int \cup {None} /\ (l \in Int => l =< n)
    <2>1. IsLast(R[i], n, rule_last_occurrence(R[i], n))
      BY <1>1, LastOccurrence
    <2> QED
      BY <2>1 DEF IsLast
  <1> QED
    BY <1>2

LEMMA ScopesOfTable ==
  ASSUME NEW R, NEW g, Valid(R)
  PROVE  /\ FarmRules(R) \in SUBSET DOMAIN R /\ GroupRules(R, g) \in SUBSET DOMAIN R
         /\ DOMAIN R \in SUBSET Nat
         /\ \A i \in FarmRules(R) \cup GroupRules(R, g) : R[i].enabled
  BY DEF FarmRules, GroupRules, Valid

\* What is in force came into force in the past.
LEMMA InForceInThePast ==
  ASSUME NEW R, Valid(R), NEW n \in Int, NEW g, None \notin Int
  PROVE  \/ InForceOf(R, g, n)[2] = None
         \/ InForceOf(R, g, n)[2] \in Int /\ InForceOf(R, g, n)[2] =< n
  <1> DEFINE w(ids) == scope_winner(R, ids, n)
             l(i) == rule_last_occurrence(R[i], n)
  <1>1. \A i \in DOMAIN R : l(i) \in Int \cup {None} /\ (l(i) \in Int => l(i) =< n)
    BY LastsArePast
  <1>2. ASSUME NEW ids \in SUBSET DOMAIN R
        PROVE  w(ids) = None \/ w(ids) \in DOMAIN R
    <2>1. ids \in SUBSET Nat
      BY DEF Valid
    <2>2. \/ Seen(R, ids, n) = {} /\ w(ids) = None
          \/ w(ids) \in Seen(R, ids, n)
      BY <1>1, <2>1, Winner
    <2> QED
      BY <2>2 DEF Seen
  <1>3. /\ w(FarmRules(R)) = None \/ w(FarmRules(R)) \in DOMAIN R
        /\ w(GroupRules(R, g)) = None \/ w(GroupRules(R, g)) \in DOMAIN R
    <2> HIDE DEF w
    <2> QED
      BY <1>2, ScopesOfTable
  <1>4. active_rule(R, g, n) = None \/ active_rule(R, g, n) \in DOMAIN R
    BY <1>3 DEF active_rule
  <1> HIDE DEF l
  <1> QED
    BY <1>1, <1>4 DEF InForceOf, l

LEMMA SettledSince ==
  ASSUME NEW R, Valid(R), NEW n1 \in Int, NEW n2 \in Int, n1 < n2, None \notin Int,
         \A i \in DOMAIN R : R[i].effective_from =< n1
  PROVE  Settled(R, n1, n2)
  BY DEF Valid, Settled

\* The next transition lies ahead.
LEMMA TransitionIsAhead ==
  ASSUME NEW R, Valid(R), NEW n \in Int, NEW g, None \notin Int,
         next_transition(R, g, n) # None
  PROVE  next_transition(R, g, n) \in Int /\ next_transition(R, g, n) > n
  <1> DEFINE x(i) == schedule_rule_next_run(R[i], n)
             FR == FarmRules(R)
             GR == GroupRules(R, g)
  <1>1. PICK G : \A i \in DOMAIN R : RuleOK(R[i], G)
    BY DEF Valid
  <1>2. \A i \in FR \cup GR : x(i) \in Int /\ x(i) > n
    <2>1. \A i \in FR \cup GR : RuleOK(R[i], G) /\ R[i].enabled
      BY <1>1, ScopesOfTable
    <2> QED
      BY <2>1, NextRun
  <1>3. ASSUME NEW ids \in SUBSET (FR \cup GR), scope_next_transition(R, ids, n) # None
        PROVE  /\ scope_next_transition(R, ids, n) \in Int
               /\ scope_next_transition(R, ids, n) > n
    <2> HIDE DEF FR, GR
    <2> QED
      BY <1>2, <1>3, NextTransition
  <1>4. \/ next_transition(R, g, n) = scope_next_transition(R, GR, n)
        \/ next_transition(R, g, n) = scope_next_transition(R, FR \cup GR, n)
    BY DEF next_transition
  <1> HIDE DEF FR, GR
  <1> QED
    BY <1>3, <1>4

\* If there is no transition ahead there is no rule, at any time.
LEMMA NoRuleWithoutTransition ==
  ASSUME NEW R, Valid(R), NEW n1 \in Int, NEW n2, NEW g, None \notin Int,
         next_transition(R, g, n1) = None
  PROVE  active_rule(R, g, n2) = None
  <1> DEFINE x(i) == schedule_rule_next_run(R[i], n1)
             FR == FarmRules(R)
             GR == GroupRules(R, g)
  <1>1. PICK G : \A i \in DOMAIN R : RuleOK(R[i], G)
    BY DEF Valid
  <1>2. \A i \in FR \cup GR : x(i) \in Int /\ x(i) > n1
    <2>1. \A i \in FR \cup GR : RuleOK(R[i], G) /\ R[i].enabled
      BY <1>1, ScopesOfTable
    <2> QED
      BY <2>1, NextRun
  <1>3. scope_winner(R, GR, n1) = None \/ GR # {}
    BY DEF scope_winner
  <1>4. /\ GR # {} => scope_next_transition(R, GR, n1) # None
        /\ FR \cup GR # {} => scope_next_transition(R, FR \cup GR, n1) # None
    <2> HIDE DEF FR, GR
    <2> QED
      BY <1>2, NextTransition
  <1>5. FR = {} /\ GR = {}
    BY <1>3, <1>4 DEF next_transition
  <1> QED
    BY <1>5 DEF active_rule, scope_winner

-----------------------------------------------------------------------------
(* The table that nobody edits                                             *)

\* The window of a week finds the last of all occurrences.
LEMMA LastOfAllOccurrences ==
  ASSUME NEW r, NEW G, RuleOK(r, G), NEW n \in Int, None \notin Int,
         History \subseteq Int, \A o \in 0 .. 7 : Day(n) - o \in History
  PROVE  LET l == rule_last_occurrence(r, n)
         IN  \/ l = None /\ Occurrences(r, n) = {}
             \/ l \in Occurrences(r, n) /\ \A u \in Occurrences(r, n) : u \in Int /\ u =< l
  <1> DEFINE l == rule_last_occurrence(r, n)
             d == Day(n)
             Offsets == {o \in 0 .. 7 : /\ weekday(d - o) \in r.days
                                        /\ OccurrenceOn(r, d - o) =< n
                                        /\ OccurrenceOn(r, d - o) >= r.effective_from}
  <1>1. r.effective_from \in Int /\ r.time_minutes \in 0 .. 1439
    BY DEF RuleOK
  <1>2. \A u \in Occurrences(r, n) :
          u \in Int /\ Occurs(r, u) /\ r.effective_from =< u /\ u =< n
    <2> SUFFICES ASSUME NEW e \in History, weekday(e) \in r.days
                 PROVE  OccurrenceOn(r, e) \in Int /\ Occurs(r, OccurrenceOn(r, e))
      BY DEF Occurrences
    <2>1. OccurrenceOn(r, e) \in Int /\ Day(OccurrenceOn(r, e)) = e
      BY <1>1, OccurrenceDay
    <2> QED
      BY <2>1 DEF Occurs
  <1>3. \/ l = None
        \/ l \in Occurrences(r, n)
    <2>1. CASE Offsets = {}
      BY <2>1 DEF rule_last_occurrence
    <2>2. CASE Offsets # {}
      <3>1. Min(Offsets) \in Offsets
        <4>1. Offsets \in SUBSET Int /\ \A o \in Offsets : 0 =< o
          OBVIOUS
        <4> HIDE DEF Offsets
        <4> QED
          BY <2>2, <4>1, MinOfBounded
      <3>2. PICK m \in Offsets : m = Min(Offsets)
        BY <3>1
      <3>3. l = OccurrenceOn(r, d - m)
        BY <2>2, <3>2 DEF rule_last_occurrence
      <3> HIDE DEF l
      <3>4. d - m \in History /\ weekday(d - m) \in r.days
        OBVIOUS
      <3> QED
        BY <3>3, <3>4 DEF Occurrences
    <2> QED
      BY <2>1, <2>2
  <1>4. IsLast(r, n, l)
    BY LastOccurrence
  <1> HIDE DEF l
  <1>5. CASE l \in Occurrences(r, n)
    <2>1. l \in Int /\ Occurs(r, l) /\ r.effective_from =< l /\ l =< n
      BY <1>2, <1>5
    <2>2. \A u \in Occurrences(r, n) : u =< l
      BY <1>2, <1>4, <2>1 DEF IsLast
    <2> QED
      BY <1>2, <1>5, <2>2 DEF l
  <1>6. CASE l = None /\ l \notin Occurrences(r, n)
    <2>1. ASSUME NEW u \in Occurrences(r, n) PROVE FALSE
      <3>1. u \in Int /\ Occurs(r, u) /\ r.effective_from =< u /\ u =< n
        BY <1>2
      <3>2. l \in Int /\ Occurs(r, l) /\ r.effective_from =< l /\ l =< n
        BY <1>4, <3>1 DEF IsLast
      <3> QED
        BY <1>6, <3>2
    <2> QED
      BY <1>6, <2>1 DEF l
  <1> QED
    BY <1>3, <1>5, <1>6

LEMMA LatestOfScope ==
  ASSUME TableOK, NEW ids \in SUBSET DOMAIN rules
  PROVE  LET Latest == UNION {Occurrences(rules[i], now) : i \in ids}
             w == scope_winner(rules, ids, now)
         IN  /\ Latest = {} => w = None
             /\ Latest # {} => w # None /\ rule_last_occurrence(rules[w], now) = Max(Latest)
  <1> DEFINE l(i) == rule_last_occurrence(rules[i], now)
             Occ(i) == Occurrences(rules[i], now)
             Latest == UNION {Occ(i) : i \in ids}
             w == scope_winner(rules, ids, now)
  <1>0. now \in Int /\ None \notin Int /\ ids \in SUBSET Nat /\ Valid(rules)
    BY TableAssumption DEF TableOK, Valid
  <1>1. \A i \in ids :
          \/ l(i) = None /\ Occ(i) = {}
          \/ l(i) \in Occ(i) /\ \A u \in Occ(i) : u \in Int /\ u =< l(i)
    <2> SUFFICES ASSUME NEW i \in ids
                 PROVE  \/ l(i) = None /\ Occ(i) = {}
                        \/ l(i) \in Occ(i) /\ \A u \in Occ(i) : u \in Int /\ u =< l(i)
      OBVIOUS
    <2>1. RuleOK(rules[i], Groups) /\ now \in Instants
      BY DEF TableOK
    <2>2. History \subseteq Int /\ \A o \in 0 .. 7 : Day(now) - o \in History
      BY <2>1, ClockAssumption
    <2> QED
      BY <1>0, <2>1, <2>2, LastOfAllOccurrences
  <1>2. \A i \in ids : l(i) \in Int \cup {None} /\ (l(i) \in Int => l(i) =< now)
    BY <1>0, LastsArePast
  <1>3. /\ Seen(rules, ids, now) = {} => w = None
        /\ Seen(rules, ids, now) # {} =>
             /\ w \in Seen(rules, ids, now) /\ w # None
             /\ \A i \in Seen(rules, ids, now) : l(i) =< l(w)
    BY <1>0, <1>2, Winner
  <1>4. \A i : i \in Seen(rules, ids, now) <=> i \in ids /\ l(i) # None
    BY DEF Seen
  <1>5. \A u : u \in Latest <=> \E i \in ids : u \in Occ(i)
    OBVIOUS
  <1> HIDE DEF l, Occ, Latest, w
  <1>6. ASSUME Latest = {} PROVE w = None
    <2>1. \A i \in ids : l(i) = None
      BY <1>1, <1>5, <1>6
    <2> QED
      BY <1>3, <1>4, <2>1
  <1>7. ASSUME Latest # {} PROVE w # None /\ l(w) = Max(Latest)
    <2>1. PICK i \in ids : l(i) # None
      BY <1>0, <1>1, <1>5, <1>7
    <2>2. w \in ids /\ w # None /\ l(w) # None
          /\ \A j \in ids : l(j) # None => l(j) =< l(w)
      BY <1>3, <1>4, <2>1
    <2>3. l(w) \in Latest /\ l(w) \in Int
      BY <1>1, <1>2, <1>5, <2>2
    <2>4. \A u \in Latest : u \in Int /\ u =< l(w)
      <3> SUFFICES ASSUME NEW u \in Latest PROVE u \in Int /\ u =< l(w)
        OBVIOUS
      <3>1. PICK j \in ids : u \in Occ(j)
        BY <1>5
      <3>2. l(j) # None /\ u \in Int /\ u =< l(j)
        BY <1>0, <1>1, <3>1
      <3>3. l(j) \in Int /\ l(j) =< l(w)
        BY <1>2, <2>2, <3>2
      <3> QED
        BY <2>3, <3>2, <3>3
    <2>5. Max(Latest) \in Latest /\ \A u \in Latest : Max(Latest) >= u
      <3>1. Latest \in SUBSET Int
        BY <2>4
      <3> QED
        BY <1>7, <2>3, <2>4, <3>1, MaxOfBounded
    <2>6. Max(Latest) \in Int /\ Max(Latest) >= l(w) /\ Max(Latest) =< l(w)
      BY <2>3, <2>4, <2>5
    <2> QED
      BY <2>2, <2>3, <2>6
  <1> QED
    BY <1>6, <1>7 DEF l, Occ, Latest, w

LEMMA ClockInvariant == ClockSpec => []TableOK
  <1>1. ClockInit => TableOK
    BY ClockAssumption DEF ClockInit, TableOK
  <1>2. TableOK /\ [ClockTick]_clock_vars => TableOK'
    <2> SUFFICES ASSUME TableOK, [ClockTick]_clock_vars PROVE TableOK'
      OBVIOUS
    <2>1. CASE ClockTick
      <3>1. \A i \in DOMAIN rules : rules[i].effective_from \in Int
        BY DEF TableOK, RuleOK
      <3>2. /\ now \in Int /\ now' \in Instants /\ now' \in Int /\ now' > now
            /\ rules' = rules
        BY <2>1, TableAssumption DEF ClockTick, TableOK
      <3> QED
        BY <3>1, <3>2 DEF TableOK
    <2>2. CASE UNCHANGED clock_vars
      BY <2>2 DEF clock_vars, TableOK
    <2> QED
      BY <2>1, <2>2
  <1> QED
    BY <1>1, <1>2, PTL DEF ClockSpec

\* InForceIsTheLatest, of _scope_state_details and _rule_last_occurrence: the
\* rule in force is the one that occurred last of all occurrences, those more
\* than a week ago included, of the group's rules first.
THEOREM InForceIsTheLastToOccur == ClockSpec => []InForceIsTheLatest
  <1>1. ASSUME TableOK PROVE InForceIsTheLatest
    <2> SUFFICES
          ASSUME NEW g \in Groups \cup {None}
          PROVE  LET Latest(ids) == UNION {Occurrences(rules[i], now) : i \in ids}
                     gw == Latest(GroupRules(rules, g))
                     fw == Latest(FarmRules(rules))
                 IN  InForce(g, now)[2] = IF gw # {} THEN Max(gw)
                                          ELSE IF fw # {} THEN Max(fw) ELSE None
      BY DEF InForceIsTheLatest
    <2> DEFINE Latest(ids) == UNION {Occurrences(rules[i], now) : i \in ids}
               w(ids) == scope_winner(rules, ids, now)
               l(i) == rule_last_occurrence(rules[i], now)
               gr == GroupRules(rules, g)
               fr == FarmRules(rules)
    <2>1. Valid(rules)
      BY <1>1, TableAssumption DEF TableOK, Valid
    <2>2. \A ids \in SUBSET DOMAIN rules :
            /\ Latest(ids) = {} => w(ids) = None
            /\ Latest(ids) # {} => w(ids) # None /\ l(w(ids)) = Max(Latest(ids))
      BY <1>1, LatestOfScope
    <2>3. gr \in SUBSET DOMAIN rules /\ fr \in SUBSET DOMAIN rules
      BY <2>1, ScopesOfTable
    <2>4. InForce(g, now)[2] =
            LET i == IF w(gr) # None THEN w(gr) ELSE w(fr)
            IN  IF i = None THEN None ELSE l(i)
      BY DEF InForce, active_rule
    <2> HIDE DEF Latest, w, l, gr, fr
    <2>5. InForce(g, now)[2] = IF Latest(gr) # {} THEN Max(Latest(gr))
                               ELSE IF Latest(fr) # {} THEN Max(Latest(fr)) ELSE None
      BY <2>2, <2>3, <2>4
    <2> QED
      BY <2>5 DEF Latest, gr, fr
  <1> QED
    BY <1>1, ClockInvariant, PTL

\* TransitionsAreExact, of _effective_schedule_details: whatever the rules,
\* nothing comes into force before the next transition, and at it a rule does.
THEOREM NextTransitionIsExact == ClockSpec => TransitionsAreExact
  <1> DEFINE Exact(g) ==
        LET next == next_transition(rules, g, now) IN
        /\ (next = None \/ now' < next) => InForce(g, now)' = InForce(g, now)
        /\ now' = next => InForce(g, now')[2] = now'
  <1>1. ASSUME TableOK, ClockTick, NEW g \in Groups \cup {None} PROVE Exact(g)
    <2>1. PICK n2 \in Int : n2 = now' /\ now < n2 /\ rules' = rules
      BY <1>1, TableAssumption DEF TableOK, ClockTick
    <2>2. Settled(rules, now, n2)
      BY <1>1, <2>1, TableAssumption DEF TableOK, Settled
    <2>3. /\ InForce(g, now) = InForceOf(rules, g, now)
          /\ InForce(g, now') = InForceOf(rules, g, n2)
          /\ InForce(g, now)' = InForceOf(rules, g, n2)
      BY <2>1 DEF InForce, InForceOf
    <2> QED
      BY <2>1, <2>2, <2>3, InForceLater
  <1>2. TableOK /\ [ClockTick]_clock_vars => [\A g \in Groups \cup {None} : Exact(g)]_clock_vars
    BY <1>1
  <1> QED
    BY <1>2, ClockInvariant, PTL DEF ClockSpec, TransitionsAreExact

-----------------------------------------------------------------------------
(* The scheduler thread and the manual commands                            *)

\* u is what a manual command stored that looked at the clock at the instant
\* at, for a miner of group g, and no rule took effect since then.
Stored(u, g, at) ==
  /\ at \in Instants /\ at =< now
  /\ \A i \in DOMAIN rules : rules[i].effective_from =< at
  /\ LET next == next_transition(rules, g, at)
     IN  u = IF next = None THEN 0 ELSE next

MinersOK ==
  /\ DOMAIN group = Miners /\ DOMAIN override = Miners /\ DOMAIN job = Miners
  /\ DOMAIN manual_at = Miners /\ DOMAIN edited = Miners

OverridesOK ==
  \A m \in Miners : manual_at[m] # None /\ ~edited[m] =>
    Stored(override[m], group[m], manual_at[m])

\* A command on its way to storing its override.
OpOK ==
  op # None =>
    /\ op = [pc |-> op.pc, miner |-> op.miner, action |-> op.action,
             until |-> op.until, at |-> op.at, edited |-> op.edited]
    /\ op.miner \in Miners
    /\ op.pc = "override" /\ ~op.edited =>
         Stored(op.until, group[op.miner], op.at)

\* An iteration has the snapshot of its miners, and commands only those whose
\* override had ended in it.
IterOK ==
  /\ iter = [pc |-> iter.pc, now |-> iter.now, rows |-> iter.rows,
             todo |-> iter.todo]
  /\ iter.pc \in {"miners", "rules", "call", "lock"} =>
       iter.now \in Instants /\ iter.now =< now
  /\ iter.pc \in {"rules", "call", "lock"} => DOMAIN iter.rows \subseteq Miners
  /\ iter.pc \in {"call", "lock"} =>
       /\ DOMAIN iter.todo \subseteq DOMAIN iter.rows /\ DOMAIN iter.todo # {}
       /\ \A m \in DOMAIN iter.todo :
            iter.rows[m].override = None \/ iter.rows[m].override =< iter.now

\* What an iteration found for a miner of group g: its group, then a rule.
Found(m, g) ==
  /\ iter.pc = "rules" /\ m \in DOMAIN iter.rows => iter.rows[m].group = g
  /\ iter.pc \in {"call", "lock"} /\ m \in DOMAIN iter.todo =>
       active_rule(rules, g, iter.now) # None

\* That is still so for a command given before the iteration began.
IterKnows ==
  /\ \A m \in Miners :
       manual_at[m] # None /\ ~edited[m] /\ manual_at[m] < iter.now =>
         Found(m, group[m])
  /\ op # None => (op.pc = "override" /\ ~op.edited /\ op.at < iter.now =>
         Found(op.miner, group[op.miner]))

SchedulerInv ==
  TableOK /\ MinersOK /\ OverridesOK /\ OpOK /\ IterOK /\ IterKnows

LEMMA SchedulerInit == Init => SchedulerInv
  <1> SUFFICES ASSUME Init PROVE SchedulerInv
    OBVIOUS
  <1>1. TableOK
    <2>1. \A i \in DOMAIN rules : rules[i].effective_from =< now
      BY DEF Init
    <2>2. \A i \in DOMAIN rules : i \in RuleIds /\ RuleOK(rules[i], Groups)
      BY SchedulerAssumption DEF Init
    <2> QED
      BY <2>1, <2>2 DEF Init, TableOK
  <1>2. MinersOK
    BY DEF Init, MinersOK
  <1>3. OverridesOK /\ OpOK
    BY DEF Init, OverridesOK, OpOK
  <1>4. IterOK
    BY DEF Init, IterOK, Idle
  <1>5. IterKnows
    BY DEF Init, IterKnows, Found, Idle
  <1> QED
    BY <1>1, <1>2, <1>3, <1>4, <1>5 DEF SchedulerInv

\* What the invariant is about.
known == <<now, rules, group, override, manual_at, edited, op, iter>>

LEMMA KnownUnchanged ==
  ASSUME SchedulerInv, UNCHANGED known, DOMAIN job' = DOMAIN job
  PROVE  SchedulerInv'
  <1>1. TableOK' /\ MinersOK'
    BY DEF SchedulerInv, TableOK, MinersOK, known
  <1>2. OverridesOK' /\ OpOK'
    BY DEF SchedulerInv, OverridesOK, OpOK, Stored, known
  <1>3. IterOK'
    BY DEF SchedulerInv, IterOK, known
  <1>4. IterKnows'
    BY DEF SchedulerInv, IterKnows, Found, known
  <1> QED
    BY <1>1, <1>2, <1>3, <1>4 DEF SchedulerInv

LEMMA TickInv ==
  ASSUME SchedulerInv, Tick
  PROVE  SchedulerInv'
  <1>0. /\ now \in Int /\ now' \in Instants /\ now' \in Int /\ now < now'
        /\ UNCHANGED <<rules, group, override, manual_at, edited, op, iter, job>>
    BY TableAssumption DEF Tick, miners, SchedulerInv, TableOK
  <1>1. TableOK'
    <2>1. \A i \in DOMAIN rules : rules[i].effective_from \in Int
      BY DEF SchedulerInv, TableOK, RuleOK
    <2> QED
      BY <1>0, <2>1 DEF SchedulerInv, TableOK
  <1>2. MinersOK'
    BY <1>0 DEF SchedulerInv, MinersOK
  <1>3. \A u, g, at : Stored(u, g, at) => Stored(u, g, at)'
    <2> SUFFICES ASSUME NEW u, NEW g, NEW at, Stored(u, g, at)
                 PROVE  Stored(u, g, at)'
      OBVIOUS
    <2>1. at \in Instants /\ at \in Int /\ at =< now
      BY TableAssumption DEF Stored
    <2>2. at =< now'
      BY <1>0, <2>1
    <2> QED
      BY <1>0, <2>1, <2>2 DEF Stored
  <1>4. OverridesOK'
    BY <1>0, <1>3 DEF SchedulerInv, OverridesOK
  <1>5. OpOK'
    BY <1>0, <1>3 DEF SchedulerInv, OpOK
  <1>6. IterOK'
    <2>1. iter.pc \in {"miners", "rules", "call", "lock"} =>
            iter.now \in Instants /\ iter.now \in Int /\ iter.now =< now
      BY TableAssumption DEF SchedulerInv, IterOK
    <2> QED
      BY <1>0, <2>1 DEF SchedulerInv, IterOK
  <1>7. IterKnows'
    BY <1>0 DEF SchedulerInv, IterKnows, Found
  <1> QED
    BY <1>1, <1>2, <1>4, <1>5, <1>6, <1>7 DEF SchedulerInv

\* A step that changes nothing but op, and the jobs.
LEMMA CommandInv ==
  ASSUME SchedulerInv, DOMAIN job' = DOMAIN job,
         UNCHANGED <<now, rules, group, override, manual_at, edited, iter>>,
         OpOK',
         op' # None => (op'.pc = "override" => op'.at = now)
  PROVE  SchedulerInv'
  <1>1. TableOK' /\ MinersOK' /\ IterOK'
    BY DEF SchedulerInv, TableOK, MinersOK, IterOK
  <1>2. OverridesOK'
    BY DEF SchedulerInv, OverridesOK, Stored
  <1>3. IterKnows'
    <2>1. \A m, g : Found(m, g)' <=> Found(m, g)
      BY DEF Found
    <2>2. \A m \in Miners :
            manual_at[m] # None /\ ~edited[m] /\ manual_at[m] < iter.now =>
              Found(m, group[m])
      BY DEF SchedulerInv, IterKnows
    <2>3. ASSUME op' # None, op'.pc = "override", op'.at < iter.now
          PROVE  Found(op'.miner, group[op'.miner])
      <3>1. now \in Int /\ now < iter.now
        BY <2>3, TableAssumption DEF SchedulerInv, TableOK
      <3>2. iter.pc \in {"miners", "rules", "call", "lock"} =>
              iter.now \in Int /\ iter.now =< now
        BY TableAssumption DEF SchedulerInv, IterOK
      <3>3. iter.pc \notin {"rules", "call", "lock"}
        BY <3>1, <3>2
      <3> QED
        BY <3>3 DEF Found
    <2> QED
      BY <2>1, <2>2, <2>3 DEF IterKnows
  <1> QED
    BY <1>1, <1>2, <1>3 DEF SchedulerInv

LEMMA ManualLockInv ==
  ASSUME SchedulerInv, NEW m \in Miners, NEW a, ManualLock(m, a)
  PROVE  SchedulerInv'
  <1>1. op' = [pc |-> "transition", miner |-> m, action |-> a, until |-> None,
               at |-> None, edited |-> FALSE]
    BY DEF ManualLock
  <1>2. OpOK'
    BY <1>1 DEF OpOK
  <1>3. op'.pc # "override"
    BY <1>1
  <1> QED
    BY <1>2, <1>3, CommandInv DEF ManualLock, miners

LEMMA ManualTransitionInv ==
  ASSUME SchedulerInv, ManualTransition
  PROVE  SchedulerInv'
  <1> DEFINE next == next_transition(rules, group[op.miner], now)
             u == IF next = None THEN 0 ELSE next
  <1>1. /\ op = [pc |-> op.pc, miner |-> op.miner, action |-> op.action,
                 until |-> op.until, at |-> op.at, edited |-> op.edited]
        /\ op.miner \in Miners /\ op # None
        /\ op' = [op EXCEPT !.pc = "override", !.at = now, !.until = u]
    BY DEF ManualTransition, SchedulerInv, OpOK
  <1>2. op' = [pc |-> "override", miner |-> op.miner, action |-> op.action,
               until |-> u, at |-> now, edited |-> op.edited]
    <2> HIDE DEF u
    <2> QED
      BY <1>1
  <1>3. Stored(u, group[op.miner], now)
    BY TableAssumption DEF Stored, SchedulerInv, TableOK
  <1>4. UNCHANGED <<now, rules, group, override, manual_at, edited, iter, job>>
    BY DEF ManualTransition, miners
  <1>5. OpOK'
    <2>1. op'.until = u /\ op'.at = now /\ op'.miner = op.miner
      <3> HIDE DEF u
      <3> QED
        BY <1>2
    <2>2. Stored(op'.until, group[op'.miner], op'.at)
      BY <1>3, <2>1
    <2>3. Stored(op.until, group[op.miner], op.at)'
      BY <1>4, <2>2 DEF Stored
    <2>4. /\ op' = [pc |-> op'.pc, miner |-> op'.miner, action |-> op'.action,
                    until |-> op'.until, at |-> op'.at, edited |-> op'.edited]
          /\ op'.miner \in Miners
      <3> HIDE DEF u
      <3> QED
        BY <1>1, <1>2
    <2> QED
      BY <2>3, <2>4 DEF OpOK
  <1>6. op'.at = now
    <2> HIDE DEF u
    <2> QED
      BY <1>2
  <1> QED
    BY <1>4, <1>5, <1>6, CommandInv

LEMMA CreateJobInv ==
  ASSUME SchedulerInv, create_control_job
  PROVE  SchedulerInv'
  <1>1. op' = None /\ UNCHANGED <<now, rules, group, override, manual_at, edited, iter>>
        /\ DOMAIN job' = DOMAIN job
    BY DEF create_control_job, miners
  <1>2. OpOK'
    BY <1>1 DEF OpOK
  <1> QED
    BY <1>1, <1>2, CommandInv

LEMMA SetOverrideInv ==
  ASSUME SchedulerInv, set_manual_override
  PROVE  SchedulerInv'
  <1> DEFINE m == op.miner
  <1>1. /\ op # None /\ op.pc = "override" /\ m \in Miners
        /\ override' = [override EXCEPT ![m] = op.until]
        /\ manual_at' = [manual_at EXCEPT ![m] = op.at]
        /\ edited' = [edited EXCEPT ![m] = op.edited]
        /\ op' = [op EXCEPT !.pc = "create"]
        /\ UNCHANGED <<now, rules, group, iter, job>>
    BY DEF set_manual_override, SchedulerInv, OpOK
  <1>2. /\ DOMAIN override = Miners /\ DOMAIN manual_at = Miners
        /\ DOMAIN edited = Miners
    BY DEF SchedulerInv, MinersOK
  <1>3. TableOK' /\ MinersOK' /\ IterOK'
    BY <1>1, <1>2 DEF SchedulerInv, TableOK, MinersOK, IterOK
  <1>4. /\ override'[m] = op.until /\ manual_at'[m] = op.at
        /\ edited'[m] <=> op.edited
        /\ \A n \in Miners : n # m =>
             /\ override'[n] = override[n] /\ manual_at'[n] = manual_at[n]
             /\ edited'[n] <=> edited[n]
    BY <1>1, <1>2
  <1>5. ~op.edited => Stored(op.until, group[m], op.at)
    BY <1>1 DEF SchedulerInv, OpOK
  <1>6. OverridesOK'
    <2> SUFFICES ASSUME NEW n \in Miners, manual_at'[n] # None, ~edited'[n]
                 PROVE  Stored(override[n], group[n], manual_at[n])'
      BY DEF OverridesOK
    <2>1. Stored(override'[n], group[n], manual_at'[n])
      <3>1. CASE n = m
        BY <1>4, <1>5, <3>1
      <3>2. CASE n # m
        BY <1>4, <3>2 DEF SchedulerInv, OverridesOK
      <3> QED
        BY <3>1, <3>2
    <2> QED
      BY <1>1, <2>1 DEF Stored
  <1>7. OpOK'
    <2>1. /\ op' = [pc |-> op'.pc, miner |-> op'.miner, action |-> op'.action,
                    until |-> op'.until, at |-> op'.at, edited |-> op'.edited]
          /\ op'.miner \in Miners /\ op'.pc = "create"
      <3>1. op = [pc |-> op.pc, miner |-> op.miner, action |-> op.action,
                  until |-> op.until, at |-> op.at, edited |-> op.edited]
        BY <1>1 DEF SchedulerInv, OpOK
      <3> QED
        BY <1>1, <3>1
    <2> QED
      BY <2>1 DEF OpOK
  <1>8. IterKnows'
    <2>1. \A n, g : Found(n, g)' <=> Found(n, g)
      BY <1>1 DEF Found
    <2>2. ASSUME NEW n \in Miners, manual_at'[n] # None, ~edited'[n],
                 manual_at'[n] < iter.now
          PROVE  Found(n, group[n])
      <3>1. CASE n = m
        BY <1>1, <1>4, <2>2, <3>1 DEF SchedulerInv, IterKnows
      <3>2. CASE n # m
        BY <1>4, <2>2, <3>2 DEF SchedulerInv, IterKnows
      <3> QED
        BY <3>1, <3>2
    <2>3. op'.pc = "create"
      <3>1. op = [pc |-> op.pc, miner |-> op.miner, action |-> op.action,
                  until |-> op.until, at |-> op.at, edited |-> op.edited]
        BY <1>1 DEF SchedulerInv, OpOK
      <3> QED
        BY <1>1, <3>1
    <2> QED
      BY <1>1, <2>1, <2>2, <2>3 DEF IterKnows
  <1> QED
    BY <1>3, <1>6, <1>7, <1>8 DEF SchedulerInv

\* A step that changes nothing but iter, and the jobs.
LEMMA IterationInv ==
  ASSUME SchedulerInv, DOMAIN job' = DOMAIN job,
         UNCHANGED <<now, rules, group, override, manual_at, edited, op>>,
         IterOK',
         \A at : \A m \in Miners :
           /\ at < iter'.now
           /\ at < iter.now /\ iter'.now = iter.now => Found(m, group[m])
           => Found(m, group[m])'
  PROVE  SchedulerInv'
  <1>1. TableOK' /\ MinersOK' /\ OpOK'
    BY DEF SchedulerInv, TableOK, MinersOK, OpOK, Stored
  <1>2. OverridesOK'
    BY DEF SchedulerInv, OverridesOK, Stored
  <1>3. IterKnows'
    <2>1. ASSUME NEW m \in Miners, manual_at[m] # None, ~edited[m],
                 manual_at[m] < iter'.now
          PROVE  Found(m, group[m])'
      <3>1. manual_at[m] < iter.now => Found(m, group[m])
        BY <2>1 DEF SchedulerInv, IterKnows
      <3> QED
        BY <2>1, <3>1
    <2>2. ASSUME op # None, op.pc = "override", ~op.edited, op.at < iter'.now
          PROVE  Found(op.miner, group[op.miner])'
      <3>1. op.miner \in Miners
        BY <2>2 DEF SchedulerInv, OpOK
      <3>2. op.at < iter.now => Found(op.miner, group[op.miner])
        BY <2>2 DEF SchedulerInv, IterKnows
      <3>3. PICK m \in Miners : m = op.miner /\ op'.miner = m
        BY <3>1
      <3>4. Found(m, group[m])'
        BY <2>2, <3>2, <3>3
      <3> QED
        BY <3>3, <3>4 DEF Found
    <2> QED
      BY <2>1, <2>2 DEF IterKnows
  <1> QED
    BY <1>1, <1>2, <1>3 DEF SchedulerInv

LEMMA IterationEnds ==
  ASSUME SchedulerInv, iter' = Idle, DOMAIN job' = DOMAIN job,
         UNCHANGED <<now, rules, group, override, manual_at, edited, op>>
  PROVE  SchedulerInv'
  <1>1. iter' = [pc |-> "idle", now |-> 0, rows |-> <<>>, todo |-> <<>>]
    BY DEF Idle
  <1>2. IterOK'
    BY <1>1 DEF IterOK
  <1>3. \A m, g : Found(m, g)'
    BY <1>1 DEF Found
  <1> QED
    BY <1>2, <1>3, IterationInv

LEMMA IterationStartsInv ==
  ASSUME SchedulerInv, IterationStarts
  PROVE  SchedulerInv'
  <1>1. /\ iter' = [pc |-> "miners", now |-> now, rows |-> <<>>, todo |-> <<>>]
        /\ UNCHANGED <<now, rules, group, override, manual_at, edited, op, job>>
    BY DEF IterationStarts, Idle, miners
  <1>2. IterOK'
    BY <1>1, TableAssumption DEF IterOK, SchedulerInv, TableOK
  <1>3. \A m, g : Found(m, g)'
    BY <1>1 DEF Found
  <1> QED
    BY <1>1, <1>2, <1>3, IterationInv

LEMMA ReadsMinersInv ==
  ASSUME SchedulerInv, IterationReadsMiners
  PROVE  SchedulerInv'
  <1> DEFINE Rows_ == [m \in list_schedulable_miners |->
                         [group |-> group[m], last_state |-> last_state[m],
                          override |-> override[m], seen |-> seen[m],
                          cooling |-> cooling[m]]]
  <1>1. /\ iter = [pc |-> "miners", now |-> iter.now, rows |-> iter.rows,
                   todo |-> iter.todo]
        /\ iter.now \in Instants /\ iter.now =< now
    BY DEF IterationReadsMiners, SchedulerInv, IterOK
  <1>2. iter' = [iter EXCEPT !.pc = "rules", !.rows = Rows_]
    BY DEF IterationReadsMiners
  <1>3. iter' = [pc |-> "rules", now |-> iter.now, rows |-> Rows_, todo |-> iter.todo]
    <2> HIDE DEF Rows_
    <2> QED
      BY <1>1, <1>2
  <1>4. UNCHANGED <<now, rules, group, override, manual_at, edited, op, job>>
    BY DEF IterationReadsMiners, miners
  <1>5. DOMAIN Rows_ \subseteq Miners
    BY DEF list_schedulable_miners
  <1>6. \A m \in DOMAIN Rows_ : Rows_[m].group = group[m]
    OBVIOUS
  <1>7. /\ iter'.pc = "rules" /\ iter'.now = iter.now /\ iter'.rows = Rows_
        /\ iter' = [pc |-> iter'.pc, now |-> iter'.now, rows |-> iter'.rows,
                    todo |-> iter'.todo]
    <2> HIDE DEF Rows_
    <2> QED
      BY <1>3
  <1> HIDE DEF Rows_
  <1>8. IterOK'
    BY <1>1, <1>4, <1>5, <1>7 DEF IterOK
  <1>9. \A m \in Miners : Found(m, group[m])'
    BY <1>4, <1>6, <1>7 DEF Found
  <1> QED
    BY <1>4, <1>8, <1>9, IterationInv

\* The loop commands only miners of the snapshot whose override has ended and
\* whose rules say something.
LEMMA CommandsOfRows ==
  ASSUME NEW rows, NEW t
  PROVE  /\ DOMAIN Commands(rows, t) \subseteq DOMAIN rows
         /\ \A m \in DOMAIN Commands(rows, t) :
              /\ rows[m].override = None \/ rows[m].override =< t
              /\ active_rule(rules, rows[m].group, t) # None
  <1> DEFINE Command(m) == Wanted(<<desired_state(rules, rows[m].group, t),
                                    rows[m].last_state>>)
             able == {m \in DOMAIN rows :
                        /\ rows[m].override = None \/ rows[m].override =< t
                        /\ rows[m].seen /\ ~rows[m].cooling}
  <1>1. Commands(rows, t) = [m \in {n \in able : Command(n) # None} |-> Command(m)]
    BY Zenon DEF Commands
  <1>2. DOMAIN Commands(rows, t) = {n \in able : Command(n) # None}
    <2> HIDE DEF Command, able
    <2> QED
      BY <1>1
  <1>3. ASSUME NEW m \in able, Command(m) # None
        PROVE  active_rule(rules, rows[m].group, t) # None
    <2>1. \A d, s : Wanted(<<d, s>>) # None => d \in {"MINING", "PAUSED"}
      BY DEF Wanted, Resumes, Pauses
    <2>2. desired_state(rules, rows[m].group, t) \in States
      BY <1>3, <2>1 DEF States
    <2> QED
      BY <2>2, SchedulerAssumption DEF desired_state
  <1>4. \A m \in able : m \in DOMAIN rows
                         /\ (rows[m].override = None \/ rows[m].override =< t)
    OBVIOUS
  <1> HIDE DEF Command, able
  <1> QED
    BY <1>2, <1>3, <1>4

LEMMA ReadsRulesInv ==
  ASSUME SchedulerInv, IterationReadsRules
  PROVE  SchedulerInv'
  <1>1. /\ iter = [pc |-> "rules", now |-> iter.now, rows |-> iter.rows,
                   todo |-> iter.todo]
        /\ iter.now \in Instants /\ iter.now =< now
        /\ DOMAIN iter.rows \subseteq Miners
    BY DEF IterationReadsRules, SchedulerInv, IterOK
  <1>2. UNCHANGED <<now, rules, group, override, manual_at, edited, op, job>>
    BY DEF IterationReadsRules, miners
  <1>3. PICK todo : todo = Commands(iter.rows, iter.now)
    OBVIOUS
  <1>4. iter' = IF todo = <<>> THEN Idle
                ELSE [iter EXCEPT !.pc = "call", !.todo = todo]
    BY <1>3 DEF IterationReadsRules
  <1>5. CASE iter' = Idle
    BY <1>2, <1>5, IterationEnds
  <1>6. CASE iter' = [iter EXCEPT !.pc = "call", !.todo = todo] /\ todo # <<>>
    <2>1. /\ DOMAIN todo \subseteq DOMAIN iter.rows
          /\ \A m \in DOMAIN todo :
               /\ iter.rows[m].override = None \/ iter.rows[m].override =< iter.now
               /\ active_rule(rules, iter.rows[m].group, iter.now) # None
      BY <1>3, CommandsOfRows
    <2>2. DOMAIN todo # {}
      <3>1. todo = [m \in DOMAIN todo |-> todo[m]]
        BY <1>3 DEF Commands
      <3> QED
        BY <1>6, <3>1
    <2>3. /\ iter'.pc = "call" /\ iter'.now = iter.now /\ iter'.rows = iter.rows
          /\ iter'.todo = todo
          /\ iter' = [pc |-> iter'.pc, now |-> iter'.now, rows |-> iter'.rows,
                      todo |-> iter'.todo]
      BY <1>1, <1>6
    <2>4. IterOK'
      BY <1>1, <1>2, <2>1, <2>2, <2>3 DEF IterOK
    <2>5. \A m \in Miners : Found(m, group[m]) => Found(m, group[m])'
      BY <1>1, <1>2, <2>1, <2>3 DEF Found
    <2> QED
      BY <1>2, <2>3, <2>4, <2>5, IterationInv
  <1> QED
    BY <1>4, <1>5, <1>6

\* The loop goes on with fewer miners, or ends.
LEMMA DoneInv ==
  ASSUME SchedulerInv, iter.pc \in {"call", "lock"}, Done, DOMAIN job' = DOMAIN job,
         UNCHANGED <<now, rules, group, override, manual_at, edited, op>>
  PROVE  SchedulerInv'
  <1>1. PICK todo : /\ DOMAIN todo = DOMAIN iter.todo \ {Current}
                    /\ todo = [m \in DOMAIN iter.todo \ {Current} |-> iter.todo[m]]
    <2>1. PICK rest : rest = DOMAIN iter.todo \ {Current}
      OBVIOUS
    <2>2. PICK todo : todo = [m \in rest |-> iter.todo[m]]
      OBVIOUS
    <2>3. DOMAIN todo = rest
      BY <2>2
    <2> QED
      BY <2>1, <2>2, <2>3
  <1>2. iter' = IF DOMAIN todo = {} THEN Idle
                ELSE [iter EXCEPT !.pc = "call", !.todo = todo]
    BY <1>1 DEF Done
  <1>3. CASE iter' = Idle
    BY <1>3, IterationEnds
  <1>4. CASE DOMAIN todo # {} /\ iter' = [iter EXCEPT !.pc = "call", !.todo = todo]
    <2>1. iter = [pc |-> iter.pc, now |-> iter.now, rows |-> iter.rows,
                  todo |-> iter.todo]
      BY DEF SchedulerInv, IterOK
    <2>2. /\ iter'.pc = "call" /\ iter'.now = iter.now /\ iter'.rows = iter.rows
          /\ iter'.todo = todo
          /\ iter' = [pc |-> iter'.pc, now |-> iter'.now, rows |-> iter'.rows,
                      todo |-> iter'.todo]
      BY <1>4, <2>1
    <2>3. DOMAIN todo \subseteq DOMAIN iter.todo
      BY <1>1
    <2>4. IterOK'
      BY <1>4, <2>2, <2>3 DEF SchedulerInv, IterOK
    <2>5. \A m \in Miners : Found(m, group[m]) => Found(m, group[m])'
      BY <2>2, <2>3 DEF Found
    <2> QED
      BY <2>2, <2>4, <2>5, IterationInv
  <1> QED
    BY <1>2, <1>3, <1>4

LEMMA IterationCallsInv ==
  ASSUME SchedulerInv, IterationCalls
  PROVE  SchedulerInv'
  <1>1. iter.pc = "call"
        /\ UNCHANGED <<now, rules, group, override, manual_at, edited, op, job>>
    BY DEF IterationCalls, miners
  <1>2. CASE Done
    BY <1>1, <1>2, DoneInv
  <1>3. CASE iter' = [iter EXCEPT !.pc = "lock"]
    <2>1. iter = [pc |-> iter.pc, now |-> iter.now, rows |-> iter.rows,
                  todo |-> iter.todo]
      BY DEF SchedulerInv, IterOK
    <2>2. /\ iter'.pc = "lock" /\ iter'.now = iter.now /\ iter'.rows = iter.rows
          /\ iter'.todo = iter.todo
          /\ iter' = [pc |-> iter'.pc, now |-> iter'.now, rows |-> iter'.rows,
                      todo |-> iter'.todo]
      BY <1>3, <2>1
    <2>3. IterOK'
      BY <1>1, <2>2 DEF SchedulerInv, IterOK
    <2>4. \A m \in Miners : Found(m, group[m]) => Found(m, group[m])'
      BY <1>1, <2>2 DEF Found
    <2> QED
      BY <1>1, <2>2, <2>3, <2>4, IterationInv
  <1> QED
    BY <1>2, <1>3 DEF IterationCalls

LEMMA IterationQueuesInv ==
  ASSUME SchedulerInv, IterationQueues
  PROVE  SchedulerInv'
  <1>1. /\ iter.pc = "lock" /\ Done /\ DOMAIN job' = DOMAIN job
        /\ UNCHANGED <<now, rules, group, override, manual_at, edited, op>>
    BY DEF IterationQueues, miners
  <1> QED
    BY <1>1, DoneInv

\* A row that takes effect at another instant is as valid.
LEMMA Redated ==
  ASSUME NEW r, NEW G, RuleOK(r, G), NEW t \in Int
  PROVE  LET q == [r EXCEPT !.effective_from = t]
         IN  RuleOK(q, G) /\ q.effective_from = t
  BY DEF RuleOK

LEMMA EditRulesInv ==
  ASSUME SchedulerInv, NEW t \in Tables, EditRules(t)
  PROVE  SchedulerInv'
  <1> DEFINE Kept(i) == i \in DOMAIN rules
               /\ rules[i] = [t[i] EXCEPT !.effective_from = rules[i].effective_from]
  <1>1. /\ rules' = [i \in DOMAIN t |-> IF Kept(i) THEN rules[i]
                                        ELSE [t[i] EXCEPT !.effective_from = now]]
        /\ edited' = [m \in Miners |-> TRUE]
        /\ op' = IF op = None THEN None ELSE [op EXCEPT !.edited = TRUE]
        /\ UNCHANGED <<now, group, override, manual_at, iter, job>>
    BY DEF EditRules, miners
  <1>2. now \in Instants /\ now \in Int
    BY TableAssumption DEF SchedulerInv, TableOK
  <1>3. TableOK'
    <2>1. DOMAIN rules' = DOMAIN t /\ DOMAIN t \subseteq RuleIds
      BY <1>1, SchedulerAssumption
    <2>2. ASSUME NEW i \in DOMAIN t
          PROVE  RuleOK(rules'[i], Groups) /\ rules'[i].effective_from =< now
      <3>1. CASE Kept(i)
        <4>1. rules'[i] = rules[i]
          BY <1>1, <3>1
        <4> QED
          BY <3>1, <4>1 DEF SchedulerInv, TableOK
      <3>2. CASE ~Kept(i)
        <4>1. rules'[i] = [t[i] EXCEPT !.effective_from = now]
          <5> HIDE DEF Kept
          <5> QED
            BY <1>1, <3>2
        <4>2. RuleOK(t[i], Groups)
          BY SchedulerAssumption
        <4> QED
          BY <1>2, <4>1, <4>2, Redated
      <3> QED
        BY <3>1, <3>2
    <2> HIDE DEF Kept
    <2> QED
      BY <1>1, <1>2, <2>1, <2>2 DEF TableOK
  <1> HIDE DEF Kept
  <1>4. MinersOK'
    BY <1>1 DEF SchedulerInv, MinersOK
  <1>5. \A m \in Miners : edited'[m]
    BY <1>1
  <1>6. OverridesOK'
    BY <1>5 DEF OverridesOK
  <1>7. op' # None =>
          /\ op'.edited /\ op'.miner \in Miners
          /\ op' = [pc |-> op'.pc, miner |-> op'.miner, action |-> op'.action,
                    until |-> op'.until, at |-> op'.at, edited |-> op'.edited]
    <2> SUFFICES ASSUME op # None, op' = [op EXCEPT !.edited = TRUE]
                 PROVE  /\ op'.edited /\ op'.miner \in Miners
                        /\ op' = [pc |-> op'.pc, miner |-> op'.miner, action |-> op'.action,
                                  until |-> op'.until, at |-> op'.at, edited |-> op'.edited]
      BY <1>1
    <2>1. /\ op = [pc |-> op.pc, miner |-> op.miner, action |-> op.action,
                   until |-> op.until, at |-> op.at, edited |-> op.edited]
          /\ op.miner \in Miners
      BY DEF SchedulerInv, OpOK
    <2> QED
      BY <2>1
  <1>8. OpOK'
    BY <1>7 DEF OpOK
  <1>9. IterOK'
    BY <1>1 DEF SchedulerInv, IterOK
  <1>10. IterKnows'
    BY <1>5, <1>7 DEF IterKnows
  <1> QED
    BY <1>3, <1>4, <1>6, <1>8, <1>9, <1>10 DEF SchedulerInv

LEMMA SetGroupInv ==
  ASSUME SchedulerInv, NEW m \in Miners, NEW g, set_miner_group(m, g)
  PROVE  SchedulerInv'
  <1>1. /\ group' = [group EXCEPT ![m] = g]
        /\ edited' = [edited EXCEPT ![m] = TRUE]
        /\ op' = IF op = None \/ op.miner # m THEN op ELSE [op EXCEPT !.edited = TRUE]
        /\ UNCHANGED <<now, rules, override, manual_at, iter, job>>
    BY DEF set_miner_group
  <1>2. DOMAIN group = Miners /\ DOMAIN edited = Miners
    BY DEF SchedulerInv, MinersOK
  <1>3. TableOK' /\ MinersOK' /\ IterOK'
    BY <1>1, <1>2 DEF SchedulerInv, TableOK, MinersOK, IterOK
  <1>4. /\ edited'[m]
        /\ \A n \in Miners : n # m => group'[n] = group[n] /\ (edited'[n] <=> edited[n])
    BY <1>1, <1>2
  <1>5. \A u, h, at : Stored(u, h, at)' <=> Stored(u, h, at)
    BY <1>1 DEF Stored
  <1>6. OverridesOK'
    <2> SUFFICES ASSUME NEW n \in Miners, n # m, manual_at[n] # None, ~edited[n]
                 PROVE  Stored(override[n], group[n], manual_at[n])'
      BY <1>1, <1>4 DEF OverridesOK
    <2> QED
      BY <1>1, <1>4, <1>5 DEF SchedulerInv, OverridesOK
  <1>7. op' # None =>
          /\ op'.miner \in Miners
          /\ op' = [pc |-> op'.pc, miner |-> op'.miner, action |-> op'.action,
                    until |-> op'.until, at |-> op'.at, edited |-> op'.edited]
          /\ op'.edited \/ (op' = op /\ op.miner # m /\ op # None)
    <2> SUFFICES ASSUME op # None, op.miner = m, op' = [op EXCEPT !.edited = TRUE]
                 PROVE  /\ op'.miner \in Miners /\ op'.edited
                        /\ op' = [pc |-> op'.pc, miner |-> op'.miner, action |-> op'.action,
                                  until |-> op'.until, at |-> op'.at, edited |-> op'.edited]
      BY <1>1 DEF SchedulerInv, OpOK
    <2>1. /\ op = [pc |-> op.pc, miner |-> op.miner, action |-> op.action,
                   until |-> op.until, at |-> op.at, edited |-> op.edited]
          /\ op.miner \in Miners
      BY DEF SchedulerInv, OpOK
    <2> QED
      BY <2>1
  <1>8. OpOK'
    <2>1. ASSUME op' # None, op'.pc = "override", ~op'.edited
          PROVE  Stored(op.until, group[op.miner], op.at)'
      <3>1. op' = op /\ op.miner # m /\ op # None /\ op.miner \in Miners
        BY <1>7, <2>1
      <3>2. Stored(op.until, group[op.miner], op.at)
        BY <2>1, <3>1 DEF SchedulerInv, OpOK
      <3> QED
        BY <1>4, <1>5, <3>1, <3>2
    <2> QED
      BY <1>7, <2>1 DEF OpOK
  <1>9. IterKnows'
    <2>1. \A n, h : Found(n, h)' <=> Found(n, h)
      BY <1>1 DEF Found
    <2>2. ASSUME NEW n \in Miners, manual_at[n] # None, ~edited'[n],
                 manual_at[n] < iter.now
          PROVE  Found(n, group'[n])
      <3>1. n # m /\ group'[n] = group[n] /\ ~edited[n]
        BY <1>4, <2>2
      <3> QED
        BY <2>2, <3>1 DEF SchedulerInv, IterKnows
    <2>3. ASSUME op' # None, op'.pc = "override", ~op'.edited, op'.at < iter.now
          PROVE  Found(op'.miner, group'[op'.miner])
      <3>1. op' = op /\ op.miner # m /\ op # None /\ op.miner \in Miners
        BY <1>7, <2>3
      <3> QED
        BY <1>4, <2>3, <3>1 DEF SchedulerInv, IterKnows
    <2> QED
      BY <1>1, <2>1, <2>2, <2>3 DEF IterKnows
  <1> QED
    BY <1>3, <1>6, <1>8, <1>9 DEF SchedulerInv

\* A step that forgets manual commands, at most.
LEMMA ForgetInv ==
  ASSUME SchedulerInv, DOMAIN override' = Miners, DOMAIN manual_at' = Miners,
         \A m \in Miners : manual_at'[m] # None =>
                            manual_at'[m] = manual_at[m] /\ override'[m] = override[m],
         UNCHANGED <<now, rules, group, edited, op, iter, job>>
  PROVE  SchedulerInv'
  <1>1. TableOK' /\ MinersOK' /\ IterOK'
    BY DEF SchedulerInv, TableOK, MinersOK, IterOK
  <1>2. OverridesOK'
    BY DEF SchedulerInv, OverridesOK, Stored
  <1>3. OpOK'
    BY DEF SchedulerInv, OpOK, Stored
  <1>4. IterKnows'
    BY DEF SchedulerInv, IterKnows, Found
  <1> QED
    BY <1>1, <1>2, <1>3, <1>4 DEF SchedulerInv

LEMMA RestartInv ==
  ASSUME SchedulerInv, Restart
  PROVE  SchedulerInv'
  <1>1. /\ iter' = [pc |-> "idle", now |-> 0, rows |-> <<>>, todo |-> <<>>]
        /\ op' = None /\ DOMAIN job' = Miners
        /\ UNCHANGED <<now, rules, group, override, manual_at, edited>>
    BY DEF Restart, Idle, miners
  <1>2. TableOK' /\ MinersOK' /\ OpOK' /\ IterOK'
    BY <1>1 DEF SchedulerInv, TableOK, MinersOK, OpOK, IterOK
  <1>3. OverridesOK'
    BY <1>1 DEF SchedulerInv, OverridesOK, Stored
  <1>4. IterKnows'
    BY <1>1 DEF IterKnows, Found
  <1> QED
    BY <1>2, <1>3, <1>4 DEF SchedulerInv

LEMMA SchedulerStep == SchedulerInv /\ [Next]_vars => SchedulerInv'
  <1> SUFFICES ASSUME SchedulerInv, [Next]_vars PROVE SchedulerInv'
    OBVIOUS
  <1>1. CASE Tick
    BY <1>1, TickInv
  <1>2. CASE Manual
    <2>1. ASSUME NEW m \in Miners, NEW a \in ControlActions, ManualLock(m, a)
          PROVE  SchedulerInv'
      BY <2>1, ManualLockInv
    <2>2. ASSUME NEW m \in Miners, ManualReboot(m) PROVE SchedulerInv'
      BY <2>2, KnownUnchanged DEF ManualReboot, known, miners
    <2> QED
      BY <1>2, <2>1, <2>2, ManualTransitionInv, SetOverrideInv, CreateJobInv DEF Manual
  <1>3. CASE IterationStarts
    BY <1>3, IterationStartsInv
  <1>4. CASE IterationStep
    BY <1>4, ReadsMinersInv, ReadsRulesInv, IterationCallsInv, IterationQueuesInv
       DEF IterationStep
  <1>5. CASE IterationFails
    BY <1>5, IterationEnds DEF IterationFails, miners
  <1>6. CASE Edit
    <2>1. ASSUME NEW t \in Tables, EditRules(t) PROVE SchedulerInv'
      BY <2>1, EditRulesInv
    <2>2. ASSUME NEW m \in Miners, NEW g \in Groups \cup {None}, set_miner_group(m, g)
          PROVE  SchedulerInv'
      BY <2>2, SetGroupInv
    <2>3. ASSUME NEW m \in Miners, NEW set \in BOOLEAN, set_miner_manual_driver(m, set)
          PROVE  SchedulerInv'
      <3>1. DOMAIN override = Miners /\ DOMAIN manual_at = Miners
        BY DEF SchedulerInv, MinersOK
      <3>2. /\ override' = [override EXCEPT ![m] = None]
            /\ manual_at' = [manual_at EXCEPT ![m] = None]
            /\ UNCHANGED <<now, rules, group, edited, op, iter, job>>
        BY <2>3 DEF set_miner_manual_driver
      <3> QED
        BY <3>1, <3>2, ForgetInv
    <2>4. CASE clear_manual_overrides
      <3>1. /\ override' = [m \in Miners |-> None]
            /\ manual_at' = [m \in Miners |-> None]
            /\ UNCHANGED <<now, rules, group, edited, op, iter, job>>
        BY <2>4 DEF clear_manual_overrides
      <3> QED
        BY <3>1, ForgetInv
    <2>5. ASSUME \/ scheduler_toggle
                 \/ \E m \in Miners : toggle_schedule(m) \/ toggle_enabled(m)
                 \/ \E on \in BOOLEAN : schedule_all(on)
          PROVE  SchedulerInv'
      <3>1. UNCHANGED known /\ job' = job
        BY <2>5 DEF scheduler_toggle, toggle_schedule, toggle_enabled, schedule_all,
                    known, miners
      <3> QED
        BY <3>1, KnownUnchanged
    <2> QED
      BY <1>6, <2>1, <2>2, <2>3, <2>4, <2>5 DEF Edit
  <1>7. CASE Restart
    BY <1>7, RestartInv
  <1>8. ASSUME NEW m \in Miners, Device(m) PROVE SchedulerInv'
    <2>1. UNCHANGED known /\ DOMAIN job' = DOMAIN job
      BY <1>8 DEF Device, PollSaves, Unseen, JobSends, JobEnds, CooledDown, known, miners
    <2> QED
      BY <2>1, KnownUnchanged
  <1>9. CASE UNCHANGED vars
    BY <1>9, KnownUnchanged DEF vars, known, miners
  <1> QED
    BY <1>1, <1>2, <1>3, <1>4, <1>5, <1>6, <1>7, <1>8, <1>9 DEF Next

LEMMA SchedulerInvariant == Spec => []SchedulerInv
  BY SchedulerInit, SchedulerStep, PTL DEF Spec

\* UneditedOverrideEndsAtTheTransition, of queue_control: while an override
\* lasts that nobody's edit made stale, no rule has come into force since the
\* command, for all tables, groups, instants and numbers of commands.
THEOREM OverrideEndsAtTheTransition ==
  Spec => []UneditedOverrideEndsAtTheTransition
  <1>1. ASSUME SchedulerInv PROVE UneditedOverrideEndsAtTheTransition
    <2> SUFFICES ASSUME NEW m \in Miners, manual_at[m] # None, ~edited[m],
                        override[m] > now
                 PROVE  InForceSince(m, now) = None \/ InForceSince(m, now) =< manual_at[m]
      BY DEF UneditedOverrideEndsAtTheTransition
    <2>1. Stored(override[m], group[m], manual_at[m])
      BY <1>1 DEF SchedulerInv, OverridesOK
    <2>2. PICK at, g : at = manual_at[m] /\ g = group[m]
      OBVIOUS
    <2>3. PICK next : next = next_transition(rules, g, at)
      OBVIOUS
    <2>4. /\ at \in Nat /\ at =< now /\ now \in Nat /\ None \notin Int
          /\ override[m] = IF next = None THEN 0 ELSE next
          /\ \A i \in DOMAIN rules : rules[i].effective_from =< at
      BY <1>1, <2>1, <2>2, <2>3, SchedulerAssumption, TableAssumption
         DEF Stored, SchedulerInv, TableOK
    <2>5. next # None /\ now < next
      BY <2>4
    <2>6. Valid(rules)
      BY <1>1, TableAssumption DEF SchedulerInv, TableOK, Valid
    <2>7. \/ InForceOf(rules, g, at)[2] = None
          \/ InForceOf(rules, g, at)[2] \in Int /\ InForceOf(rules, g, at)[2] =< at
      BY <2>4, <2>6, InForceInThePast
    <2>8. InForceOf(rules, g, now) = InForceOf(rules, g, at)
      <3>1. CASE at = now
        BY <3>1
      <3>2. CASE at < now
        <4>1. Settled(rules, at, now)
          BY <2>4, <2>6, <3>2, SettledSince
        <4> QED
          BY <2>3, <2>5, <4>1, InForceLater
      <3> QED
        BY <2>4, <3>1, <3>2
    <2>9. InForceSince(m, now) = InForceOf(rules, g, now)[2]
      BY <2>2 DEF InForceSince, InForce, InForceOf
    <2> QED
      BY <2>2, <2>7, <2>8, <2>9
  <1> QED
    BY <1>1, SchedulerInvariant, PTL

LEMMA QueueingStep ==
  ASSUME SchedulerInv, [Next]_vars, NEW m \in Miners, QueuedByScheduler(m)
  PROVE  /\ m \in DOMAIN iter.todo /\ iter.pc = "lock"
  <1>1. /\ iter.pc = "lock" /\ iter' # iter /\ job[m] = None /\ job'[m] # None
    BY DEF QueuedByScheduler
  <1>2. IterationQueues
    <2>1. Tick => iter' = iter
      BY DEF Tick
    <2>2. Manual => iter' = iter
      BY DEF Manual, ManualLock, ManualTransition, set_manual_override,
             create_control_job, ManualReboot
    <2>3. IterationStarts => job' = job
      BY DEF IterationStarts
    <2>4. IterationStep => IterationQueues \/ job' = job
      BY DEF IterationStep, IterationReadsMiners, IterationReadsRules, IterationCalls
    <2>5. IterationFails => job' = job
      BY DEF IterationFails
    <2>6. Edit => iter' = iter
      BY DEF Edit, EditRules, set_miner_group, scheduler_toggle, toggle_schedule,
             toggle_enabled, schedule_all, set_miner_manual_driver,
             clear_manual_overrides
    <2>7. Restart => job'[m] = None
      BY DEF Restart
    <2>8. \A n \in Miners : Device(n) => iter' = iter
      BY DEF Device, PollSaves, Unseen, JobSends, JobEnds, CooledDown
    <2>9. UNCHANGED vars => iter' = iter
      BY DEF vars
    <2> QED
      BY <1>1, <2>1, <2>2, <2>3, <2>4, <2>5, <2>6, <2>7, <2>8, <2>9 DEF Next
  <1>3. m = Current
    <2>1. PICK c : c = Current
      OBVIOUS
    <2>2. m # c => job'[m] = job[m]
      BY <1>2, <2>1 DEF IterationQueues, SchedulerInv, MinersOK
    <2> QED
      BY <1>1, <2>1, <2>2
  <1>4. Current \in DOMAIN iter.todo
    <2>1. DOMAIN iter.todo \subseteq Nat /\ DOMAIN iter.todo # {}
      BY <1>1, SchedulerAssumption DEF SchedulerInv, IterOK
    <2>2. Min(DOMAIN iter.todo) \in DOMAIN iter.todo
      <3>1. PICK S : S = DOMAIN iter.todo
        OBVIOUS
      <3>2. S \in SUBSET Int /\ S # {} /\ \A x \in S : 0 =< x
        BY <2>1, <3>1
      <3>3. Min(S) \in S
        BY <3>2, MinOfBounded
      <3> QED
        BY <3>1, <3>3
    <2> QED
      BY <2>2 DEF Current
  <1> QED
    BY <1>1, <1>3, <1>4

\* SchedulerWaitsForTransition, of scheduler_iteration: a miner that was
\* commanded by hand is commanded by the scheduler only for a rule that came
\* into force since, unless an edit or the age of the snapshot excuses it.
THEOREM TheSchedulerWaits == Spec => SchedulerWaitsForTransition
  <1> DEFINE Waits(m) ==
        /\ QueuedByScheduler(m) /\ manual_at[m] # None /\ ~edited[m]
        => \/ InForceSince(m, iter.now) # None /\ InForceSince(m, iter.now) > manual_at[m]
           \/ iter.rows[m].override # override[m]
           \/ override[m] = 0 /\ manual_at[m] >= iter.now
  <1>1. ASSUME SchedulerInv, [Next]_vars, NEW m \in Miners PROVE Waits(m)
    <2> SUFFICES ASSUME QueuedByScheduler(m), manual_at[m] # None, ~edited[m],
                        iter.rows[m].override = override[m],
                        ~(override[m] = 0 /\ manual_at[m] >= iter.now)
                 PROVE  InForceSince(m, iter.now) # None
                        /\ InForceSince(m, iter.now) > manual_at[m]
      OBVIOUS
    <2>0. m \in DOMAIN iter.todo /\ iter.pc = "lock"
      BY <1>1, QueueingStep
    <2>1. Stored(override[m], group[m], manual_at[m])
      BY <1>1 DEF SchedulerInv, OverridesOK
    <2>2. PICK at, g, t : at = manual_at[m] /\ g = group[m] /\ t = iter.now
      OBVIOUS
    <2>3. PICK next : next = next_transition(rules, g, at)
      OBVIOUS
    <2>4. /\ at \in Nat /\ at =< now /\ now \in Nat /\ None \notin Int
          /\ override[m] = IF next = None THEN 0 ELSE next
          /\ \A i \in DOMAIN rules : rules[i].effective_from =< at
      BY <1>1, <2>1, <2>2, <2>3, SchedulerAssumption, TableAssumption
         DEF Stored, SchedulerInv, TableOK
    <2>5. /\ t \in Nat /\ t =< now
          /\ iter.rows[m].override = None \/ iter.rows[m].override =< t
      BY <1>1, <2>0, <2>2, SchedulerAssumption DEF SchedulerInv, IterOK
    <2>6. Valid(rules)
      BY <1>1, TableAssumption DEF SchedulerInv, TableOK, Valid
    <2>7. next # None
      <3>1. SUFFICES ASSUME next = None PROVE FALSE
        OBVIOUS
      <3>2. override[m] = 0 /\ at < t
        BY <2>2, <2>4, <2>5, <3>1
      <3>3. active_rule(rules, g, t) # None
        BY <1>1, <2>0, <2>2, <3>2 DEF SchedulerInv, IterKnows, Found
      <3>4. at \in Int /\ next_transition(rules, g, at) = None
        BY <2>3, <2>4, <3>1
      <3>5. active_rule(rules, g, t) = None
        BY <2>4, <2>6, <3>4, NoRuleWithoutTransition
      <3> QED
        BY <3>3, <3>5
    <2>8. next \in Int /\ next > at
      BY <2>3, <2>4, <2>6, <2>7, TransitionIsAhead
    <2>9. override[m] = next /\ next =< t
      BY <2>4, <2>5, <2>7, <2>8
    <2>10. Settled(rules, at, t)
      BY <2>4, <2>5, <2>6, <2>8, <2>9, SettledSince
    <2>11. InForceOf(rules, g, t)[2] \in Int /\ next =< InForceOf(rules, g, t)[2]
      BY <2>3, <2>7, <2>9, <2>10, InForceFromTheTransition
    <2>12. InForceSince(m, iter.now) = InForceOf(rules, g, t)[2]
      BY <2>2 DEF InForceSince, InForce, InForceOf
    <2> QED
      BY <2>2, <2>4, <2>8, <2>11, <2>12
  <1>2. SchedulerInv /\ [Next]_vars => [\A m \in Miners : Waits(m)]_vars
    <2> HIDE DEF Waits
    <2> QED
      BY <1>1
  <1> QED
    BY <1>2, SchedulerInvariant, PTL DEF Spec, SchedulerWaitsForTransition
=============================================================================
