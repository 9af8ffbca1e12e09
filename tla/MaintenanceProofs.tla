-------------------------- MODULE MaintenanceProofs --------------------------
(***************************************************************************)
(* Proofs about Maintenance, for windows, processes and operators of any   *)
(* number, any shapes and any length of days, weeks and months: no         *)
(* occurrence is announced twice, and none is missed; a window is on       *)
(* exactly while an occurrence runs, and the next one is the first to      *)
(* come.                                                                   *)
(***************************************************************************)
EXTENDS Maintenance, FiniteSetTheorems, TLAPS

-----------------------------------------------------------------------------
(* Arithmetic.                                                             *)

\* How often a period fits.
LEMMA Quotient ==
    ASSUME NEW a \in Nat, NEW p \in Nat \ {0}
    PROVE  /\ a \div p \in Nat
           /\ (a \div p) * p <= a
           /\ a < (a \div p) * p + p
OBVIOUS

\* Multiples of a period come in order, a period apart.
LEMMA Multiples ==
    ASSUME NEW p \in Nat \ {0}, NEW k \in Nat, NEW l \in Nat
    PROVE  /\ k * p \in Nat /\ k <= k * p
           /\ k < l => k * p + p <= l * p
           /\ k * p < l * p => k < l
<1>1. k * p \in Nat /\ k <= k * p
  OBVIOUS
<1>2. k < l => k * p + p <= l * p
  OBVIOUS
<1>3. k * p < l * p => k < l
  OBVIOUS
<1> QED
  BY <1>1, <1>2, <1>3

\* Some numbers have a least one: that of the smallest interval from 0.
LEMMA LeastOne ==
    ASSUME NEW T, T \subseteq Nat, T # {}
    PROVE  Min(T) \in T /\ \A y \in T : Min(T) <= y
<1> DEFINE Below(x) == 0 .. x
           intervals == {Below(x) : x \in T}
           smaller == StrictSubsetOrdering(Nat)
<1>1. \A x \in Nat : Below(x) \in FiniteSubsetsOf(Nat)
  BY FS_Interval DEF FiniteSubsetsOf
<1>2. IsWellFoundedOn(smaller, FiniteSubsetsOf(Nat))
  BY FS_StrictSubsetOrderingWellFounded
<1>3. intervals \subseteq FiniteSubsetsOf(Nat) /\ intervals # {}
  BY <1>1
<1>4. \E i \in intervals : \A j \in intervals : ~(<<j, i>> \in smaller)
  <2> HIDE DEF intervals, smaller
  <2> QED
    BY <1>2, <1>3, WFMin
<1>5. PICK x \in T : \A j \in intervals : ~(<<j, Below(x)>> \in smaller)
  BY <1>4
<1>6. \A y \in T : x <= y
  <2> SUFFICES ASSUME NEW y \in T, y < x PROVE FALSE
    OBVIOUS
  <2>1. Below(y) \subseteq Below(x) /\ Below(y) # Below(x)
    <3>1. x \in Below(x) /\ x \notin Below(y)
      OBVIOUS
    <3> QED
      BY <3>1
  <2>2. <<Below(y), Below(x)>> \in smaller
    BY <2>1 DEF StrictSubsetOrdering
  <2> QED
    BY <1>5, <2>2
<1> QED
  BY <1>6 DEF Min

\* It is the only one.
LEMMA LeastOnly ==
    ASSUME NEW T, T \subseteq Nat, NEW k \in T, \A y \in T : k <= y
    PROVE  Min(T) = k
<1>1. PICK m \in T : m = Min(T) /\ m <= k
  BY LeastOne
<1>2. k <= m /\ k \in Nat /\ m \in Nat
  BY <1>1
<1> QED
  BY <1>1, <1>2

\* The greatest number is the only one.
LEMMA GreatestOnly ==
    ASSUME NEW T, T \subseteq Nat, NEW k \in T, \A y \in T : y <= k
    PROVE  Max(T) = k
<1>1. \A x \in T : (\A y \in T : x >= y) => x = k
  BY DEF Max
<1>2. \A y \in T : k >= y
  OBVIOUS
<1> QED
  BY <1>1, <1>2 DEF Max

\* Some numbers that are bounded have a greatest one.
LEMMA GreatestOne ==
    ASSUME NEW T, T \subseteq Nat, T # {}, NEW b \in Nat, \A y \in T : y <= b
    PROVE  Max(T) \in T /\ \A y \in T : y <= Max(T)
<1> DEFINE rest == {b - y : y \in T}
<1>1. rest \subseteq Nat /\ rest # {}
  <2>1. \A y \in T : b - y \in Nat /\ b - y \in rest
    OBVIOUS
  <2> QED
    BY <2>1
<1>2. PICK y \in T : Min(rest) = b - y
  <2>1. Min(rest) \in rest
    <3> HIDE DEF rest
    <3> QED BY <1>1, LeastOne
  <2> QED
    BY <2>1
<1>3. \A z \in T : b - y <= b - z
  <2>1. \A r \in rest : Min(rest) <= r
    <3> HIDE DEF rest
    <3> QED BY <1>1, LeastOne
  <2> QED
    BY <1>2, <2>1
<1>4. \A z \in T : z <= y
  BY <1>3
<1>5. Max(T) = y
  BY <1>4, GreatestOnly
<1> QED
  BY <1>4, <1>5

-----------------------------------------------------------------------------
(* The calendar.                                                           *)

Last == Len(MonthDays)

\* Units of a month.
Length(m) == MonthDays[m] * Day

\* Months have days, and days units.
LEMMA MonthsHaveDays ==
    /\ Day \in Nat \ {0} /\ Last \in Nat \ {0} /\ Months = 1 .. Last
    /\ \A m \in Months : MonthDays[m] \in Nat \ {0} /\ Length(m) \in Nat \ {0}
<1>1. Day \in Nat \ {0} /\ Last \in Nat \ {0} /\ Months = 1 .. Last
  BY WindowAssumption, CalendarAssumption DEF Last, Months
<1>2. \A m \in Months : MonthDays[m] \in Nat \ {0}
  BY CalendarAssumption DEF Months
<1>3. \A m \in Months : Length(m) \in Nat /\ MonthDays[m] <= Length(m)
  BY <1>1, <1>2, Multiples DEF Length
<1> QED
  BY <1>1, <1>2, <1>3

\* The first instants of the first n months, f being a table of them.
Table(f, n) == \A m \in 1 .. n : f[m] = IF m = 1 THEN 0 ELSE f[m - 1] + Length(m - 1)

\* There is such a table of any length: no shortest one is missing.
LEMMA TableExists ==
    \E f : f = [m \in Months |-> IF m = 1 THEN 0 ELSE f[m - 1] + MonthDays[m - 1] * Day]
<1> DEFINE missing == {n \in 0 .. Last : ~ \E f \in [1 .. n -> Nat] : Table(f, n)}
<1>1. missing = {}
  <2> SUFFICES ASSUME missing # {} PROVE FALSE
    OBVIOUS
  <2> DEFINE n == Min(missing)
  <2>1. missing \subseteq Nat
    BY MonthsHaveDays
  <2>2. n \in missing /\ \A k \in missing : n <= k
    <3> HIDE DEF missing
    <3> QED
      BY <2>1, LeastOne
  <2>3. n \in 0 .. Last /\ Last \in Nat /\ ~ \E f \in [1 .. n -> Nat] : Table(f, n)
    BY <2>2, MonthsHaveDays
  <2>4. \A k \in 0 .. Last : k < n => \E f \in [1 .. k -> Nat] : Table(f, k)
    <3> SUFFICES ASSUME NEW k \in 0 .. Last, k < n, k \in missing PROVE FALSE
      OBVIOUS
    <3>1. n <= k
      BY <2>2
    <3> QED
      BY <2>3, <3>1
  <2> HIDE DEF missing, n
  <2>5. n # 0
    <3>1. ASSUME n = 0 PROVE \E f \in [1 .. n -> Nat] : Table(f, n)
      <4>1. [m \in 1 .. n |-> 0] \in [1 .. n -> Nat] /\ 1 .. n = {}
        BY <3>1
      <4>2. Table([m \in 1 .. n |-> 0], n)
        BY <4>1 DEF Table
      <4> QED
        BY <4>1, <4>2
    <3> QED
      BY <2>3, <3>1
  <2>6. n - 1 \in 0 .. Last /\ n - 1 < n
    BY <2>3, <2>5
  <2>7. PICK f \in [1 .. n - 1 -> Nat] : Table(f, n - 1)
    BY <2>4, <2>6
  <2> DEFINE v == IF n = 1 THEN 0 ELSE f[n - 1] + Length(n - 1)
             g == [m \in 1 .. n |-> IF m = n THEN v ELSE f[m]]
  <2>8. v \in Nat
    <3>1. CASE n = 1
      BY <3>1
    <3>2. CASE n # 1
      <4>1. n - 1 \in 1 .. n - 1 /\ n - 1 \in Months
        BY <2>3, <2>5, <3>2, MonthsHaveDays
      <4>2. f[n - 1] \in Nat /\ Length(n - 1) \in Nat
        BY <2>7, <4>1, MonthsHaveDays
      <4> QED
        BY <3>2, <4>2
    <3> QED
      BY <3>1, <3>2
  <2>9. g \in [1 .. n -> Nat]
    <3> HIDE DEF v
    <3> QED
      BY <2>3, <2>5, <2>8
  <2>10. ASSUME NEW m \in 1 .. n
         PROVE  g[m] = IF m = 1 THEN 0 ELSE g[m - 1] + Length(m - 1)
    <3>1. CASE m = n
      <4>1. g[m] = v
        BY <3>1
      <4>2. m # 1 => m - 1 \in 1 .. n /\ m - 1 # n
        BY <2>3, <3>1
      <4>3. m # 1 => g[m - 1] = f[m - 1]
        BY <4>2
      <4> QED
        BY <3>1, <4>1, <4>3
    <3>2. CASE m # n
      <4>1. m \in 1 .. n - 1 /\ (m # 1 => m - 1 \in 1 .. n /\ m - 1 # n)
        BY <2>3, <3>2
      <4>2. g[m] = f[m] /\ (m # 1 => g[m - 1] = f[m - 1])
        BY <3>2, <4>1
      <4>3. f[m] = IF m = 1 THEN 0 ELSE f[m - 1] + Length(m - 1)
        BY <2>7, <4>1 DEF Table
      <4> HIDE DEF g
      <4> QED
        BY <4>2, <4>3
    <3> QED
      BY <3>1, <3>2
  <2>11. Table(g, n)
    BY <2>10 DEF Table
  <2> QED
    BY <2>3, <2>9, <2>11
<1>2. \E f \in [1 .. Last -> Nat] : Table(f, Last)
  <2>1. Last \in 0 .. Last
    BY MonthsHaveDays
  <2> QED
    BY <1>1, <2>1
<1>3. PICK f \in [1 .. Last -> Nat] : Table(f, Last)
  BY <1>2
<1>4. f = [m \in Months |-> IF m = 1 THEN 0 ELSE f[m - 1] + MonthDays[m - 1] * Day]
  BY <1>3, MonthsHaveDays DEF Table, Length
<1> QED
  BY <1>4

\* So the first instants of the months are what their definition says.
LEMMA MonthStarts ==
    \A m \in Months : MonthStart[m] = IF m = 1 THEN 0 ELSE MonthStart[m - 1] + Length(m - 1)
<1>1. MonthStart = [m \in Months |-> IF m = 1 THEN 0
                                     ELSE MonthStart[m - 1] + MonthDays[m - 1] * Day]
  <2>1. MonthStart = CHOOSE f : f = [m \in Months |-> IF m = 1 THEN 0
                                     ELSE f[m - 1] + MonthDays[m - 1] * Day]
    BY DEF MonthStart
  <2> QED
    BY <2>1, TableExists
<1>2. ASSUME NEW m \in Months
      PROVE  MonthStart[m] = IF m = 1 THEN 0 ELSE MonthStart[m - 1] + Length(m - 1)
  <2>1. [i \in Months |-> IF i = 1 THEN 0 ELSE MonthStart[i - 1] + MonthDays[i - 1] * Day][m]
        = IF m = 1 THEN 0 ELSE MonthStart[m - 1] + MonthDays[m - 1] * Day
    OBVIOUS
  <2> QED
    BY <1>1, <2>1 DEF Length
<1> QED
  BY <1>2

\* The months follow each other.
LEMMA MonthsInOrder ==
    /\ \A m \in Months : MonthStart[m] \in Nat
    /\ \A m, n \in Months : m < n => MonthStart[m] + Length(m) <= MonthStart[n]
<1>1. \A m \in Months : MonthStart[m] \in Nat
  <2> DEFINE bad == {m \in Months : MonthStart[m] \notin Nat}
             m == Min(bad)
  <2> SUFFICES ASSUME bad # {} PROVE FALSE
    OBVIOUS
  <2>1. bad \subseteq Nat
    BY MonthsHaveDays
  <2>2. m \in bad /\ \A k \in bad : m <= k
    <3> HIDE DEF bad
    <3> QED
      BY <2>1, LeastOne
  <2>3. m \in Months /\ MonthStart[m] \notin Nat
    BY <2>2
  <2> HIDE DEF bad, m
  <2>4. m # 1
    BY <2>3, MonthStarts
  <2>5. m - 1 \in Months /\ m - 1 < m
    BY <2>3, <2>4, MonthsHaveDays
  <2>6. MonthStart[m - 1] \in Nat
    <3>1. m - 1 \notin bad
      BY <2>2, <2>3, <2>5, MonthsHaveDays
    <3> QED
      BY <2>5, <3>1 DEF bad
  <2> QED
    BY <2>3, <2>4, <2>5, <2>6, MonthStarts, MonthsHaveDays
<1>2. ASSUME NEW m \in Months
      PROVE  \A n \in Months : m < n => MonthStart[m] + Length(m) <= MonthStart[n]
  <2> DEFINE bad == {n \in Months : m < n /\ ~(MonthStart[m] + Length(m) <= MonthStart[n])}
             n == Min(bad)
  <2> SUFFICES ASSUME bad # {} PROVE FALSE
    OBVIOUS
  <2>1. bad \subseteq Nat
    BY MonthsHaveDays
  <2>2. n \in bad /\ \A k \in bad : n <= k
    <3> HIDE DEF bad
    <3> QED
      BY <2>1, LeastOne
  <2>3. n \in Months /\ m < n /\ ~(MonthStart[m] + Length(m) <= MonthStart[n])
    BY <2>2
  <2> HIDE DEF n
  <2>4. n - 1 \in Months /\ n # 1 /\ m <= n - 1
    BY <2>3, MonthsHaveDays
  <2>5. MonthStart[n] = MonthStart[n - 1] + Length(n - 1)
    BY <2>3, <2>4, MonthStarts
  <2>6. n - 1 \notin bad
    <3> HIDE DEF bad
    <3> QED
      BY <2>2, <2>3, <2>4, MonthsHaveDays
  <2>7. m = n - 1 \/ MonthStart[m] + Length(m) <= MonthStart[n - 1]
    BY <2>4, <2>6, MonthsHaveDays
  <2> HIDE DEF bad
  <2>8. MonthStart[m] \in Nat /\ MonthStart[n - 1] \in Nat /\ Length(m) \in Nat /\ Length(n - 1) \in Nat
    BY <1>1, <2>4, MonthsHaveDays
  <2> QED
    BY <2>3, <2>5, <2>7, <2>8
<1> QED
  BY <1>1, <1>2

\* The month of an instant is the one that has begun while the next has not.
LEMMA MonthFound ==
    ASSUME NEW t \in Nat
    PROVE  /\ MonthOf(t) \in Months /\ MonthStart[MonthOf(t)] <= t
           /\ \A m \in Months : MonthOf(t) < m => t < MonthStart[m]
           /\ \A m \in Months : (MonthStart[m] <= t /\ \A n \in Months : m < n => t < MonthStart[n])
                 => MonthOf(t) = m
<1> DEFINE begun == {m \in Months : MonthStart[m] <= t}
<1>1. begun \subseteq Nat /\ Last \in Nat /\ \A m \in begun : m <= Last
  BY MonthsHaveDays
<1>2. 1 \in begun
  <2>1. 1 \in Months
    BY MonthsHaveDays
  <2> QED
    BY <2>1, MonthStarts
<1>3. Max(begun) \in begun /\ \A m \in begun : m <= Max(begun)
  <2> HIDE DEF begun
  <2> QED
    BY <1>1, <1>2, GreatestOne
<1>4. MonthOf(t) = Max(begun)
  BY DEF MonthOf
<1>5. \A m \in Months : MonthStart[m] \in Nat /\ m \in Nat
  BY MonthsInOrder, MonthsHaveDays
<1>6. ASSUME NEW m \in Months, MonthStart[m] <= t, \A n \in Months : m < n => t < MonthStart[n]
      PROVE  MonthOf(t) = m
  <2>1. m \in begun
    BY <1>6
  <2>2. \A n \in begun : n <= m
    BY <1>5, <1>6
  <2> HIDE DEF begun
  <2> QED
    BY <1>1, <1>4, <2>1, <2>2, GreatestOnly
<1>7. ASSUME NEW m \in Months, MonthOf(t) < m PROVE t < MonthStart[m]
  <2>1. m \notin begun
    <3> HIDE DEF begun
    <3>1. Max(begun) \in Nat
      BY <1>1, <1>3
    <3> QED
      BY <1>3, <1>4, <1>5, <1>7, <3>1
  <2> QED
    BY <1>5, <2>1
<1>8. MonthOf(t) \in Months /\ MonthStart[MonthOf(t)] <= t
  <2>1. MonthOf(t) \in begun
    <3> HIDE DEF begun
    <3> QED
      BY <1>3, <1>4
  <2> QED
    BY <2>1
<1> QED
  BY <1>6, <1>7, <1>8

\* Later instants are in later months.
LEMMA MonthsOfOrder ==
    ASSUME NEW s \in Nat, NEW t \in Nat, s <= t
    PROVE  MonthOf(s) <= MonthOf(t)
<1>1. /\ MonthOf(s) \in Months /\ MonthStart[MonthOf(s)] <= s
      /\ MonthOf(t) \in Months /\ \A m \in Months : MonthOf(t) < m => t < MonthStart[m]
  BY MonthFound
<1>2. MonthOf(s) \in Nat /\ MonthOf(t) \in Nat /\ MonthStart[MonthOf(s)] \in Nat
  BY <1>1, MonthsInOrder, MonthsHaveDays
<1> QED
  BY <1>1, <1>2

\* Two months follow that of an instant which the calendar reaches.
LEMMA MonthsFollow ==
    ASSUME NEW t \in Nat, Reaches(t)
    PROVE  MonthOf(t) + 2 <= Last
<1>1. Last \in Nat /\ Last - 1 \in Months /\ t < MonthStart[Last - 1]
  BY MonthsHaveDays DEF Reaches, Last
<1>2. MonthOf(t) \in Months /\ MonthStart[MonthOf(t)] <= t
  BY MonthFound
<1>3. MonthOf(t) < Last - 1
  <2>1. MonthStart[MonthOf(t)] \in Nat /\ MonthOf(t) \in Nat /\ MonthStart[Last - 1] \in Nat
        /\ Length(Last - 1) \in Nat
    BY <1>1, <1>2, MonthsInOrder, MonthsHaveDays
  <2>2. MonthOf(t) # Last - 1
    BY <1>1, <1>2, <2>1
  <2>3. Last - 1 < MonthOf(t) => MonthStart[Last - 1] + Length(Last - 1) <= MonthStart[MonthOf(t)]
    BY <1>1, <1>2, MonthsInOrder
  <2> QED
    BY <1>1, <1>2, <2>1, <2>2, <2>3
<1> QED
  BY <1>1, <1>2, <1>3, MonthsHaveDays

\* The day of the month, as far as month m has it, and the time of day of an instant.
DayIn(m, t) == Min({(t - MonthStart[MonthOf(t)]) \div Day, MonthDays[m] - 1})
TimeOf(t) == (t - MonthStart[MonthOf(t)]) % Day

\* In each month it is the day of the instant, or the last one if the month is too short.
LEMMA SameDay ==
    ASSUME NEW t \in Nat, NEW m \in Months
    PROVE  LET wanted == (t - MonthStart[MonthOf(t)]) \div Day
           IN  /\ InMonth(m, t) = MonthStart[m] + DayIn(m, t) * Day + TimeOf(t)
               /\ TimeOf(t) \in Nat /\ TimeOf(t) < Day
               /\ wanted \in Nat /\ DayIn(m, t) \in Nat
               /\ DayIn(m, t) <= wanted /\ DayIn(m, t) < MonthDays[m]
               /\ DayIn(m, t) = wanted \/ DayIn(m, t) = MonthDays[m] - 1
<1> DEFINE into == t - MonthStart[MonthOf(t)]
           wanted == into \div Day
           longest == MonthDays[m] - 1
<1>1. into \in Nat /\ Day \in Nat \ {0} /\ longest \in Nat
  <2>1. MonthStart[MonthOf(t)] \in Nat /\ MonthStart[MonthOf(t)] <= t
    BY MonthFound, MonthsInOrder
  <2>2. MonthDays[m] \in Nat \ {0} /\ Day \in Nat \ {0}
    BY MonthsHaveDays
  <2> QED
    BY <2>1, <2>2
<1>2. InMonth(m, t) = MonthStart[m] + DayIn(m, t) * Day + TimeOf(t)
  BY DEF InMonth, DayIn, TimeOf
<1>3. DayIn(m, t) = Min({wanted, longest}) /\ TimeOf(t) = into % Day
  BY DEF DayIn, TimeOf
<1>4. into % Day \in Nat /\ into % Day < Day /\ wanted \in Nat
  <2> HIDE DEF into
  <2> QED
    BY <1>1
<1>5. Min({wanted, longest}) \in {wanted, longest}
      /\ \A y \in {wanted, longest} : Min({wanted, longest}) <= y
  <2>1. {wanted, longest} \subseteq Nat /\ {wanted, longest} # {}
    BY <1>1, <1>4
  <2> HIDE DEF wanted, longest
  <2> QED
    BY <2>1, LeastOne
<1>6. MonthDays[m] \in Nat /\ longest = MonthDays[m] - 1
  BY MonthsHaveDays
<1> HIDE DEF wanted, longest, into
<1>7. DayIn(m, t) \in Nat /\ DayIn(m, t) <= wanted /\ DayIn(m, t) < MonthDays[m]
  BY <1>1, <1>3, <1>4, <1>5, <1>6
<1>8. DayIn(m, t) = wanted \/ DayIn(m, t) = longest
  BY <1>3, <1>5
<1> QED
  BY <1>2, <1>3, <1>4, <1>6, <1>7, <1>8 DEF wanted, into

\* The instant is in that month.
LEMMA WithinMonth ==
    ASSUME NEW t \in Nat, NEW m \in Months
    PROVE  /\ InMonth(m, t) \in Nat /\ MonthStart[m] <= InMonth(m, t)
           /\ InMonth(m, t) < MonthStart[m] + Length(m)
           /\ MonthOf(InMonth(m, t)) = m
<1> DEFINE d == DayIn(m, t)
<1>1. /\ InMonth(m, t) = MonthStart[m] + d * Day + TimeOf(t)
      /\ TimeOf(t) \in Nat /\ TimeOf(t) < Day /\ d \in Nat /\ d < MonthDays[m]
  BY SameDay
<1>2. /\ Day \in Nat \ {0} /\ MonthDays[m] \in Nat /\ Length(m) = MonthDays[m] * Day
      /\ MonthStart[m] \in Nat
  BY MonthsHaveDays, MonthsInOrder DEF Length
<1> HIDE DEF d
<1>3. d * Day \in Nat /\ d * Day + Day <= MonthDays[m] * Day
  BY <1>1, <1>2, Multiples
<1>4. MonthDays[m] * Day \in Nat
  BY <1>2
<1>5. /\ InMonth(m, t) \in Nat /\ MonthStart[m] <= InMonth(m, t)
      /\ InMonth(m, t) < MonthStart[m] + Length(m)
  BY <1>1, <1>2, <1>3, <1>4
<1>6. \A n \in Months : m < n => InMonth(m, t) < MonthStart[n]
  <2>1. \A n \in Months : MonthStart[n] \in Nat
        /\ (m < n => MonthStart[m] + Length(m) <= MonthStart[n])
    BY MonthsInOrder
  <2>2. Length(m) \in Nat
    BY <1>2, <1>4
  <2> QED
    BY <1>2, <1>5, <2>1, <2>2
<1>7. MonthOf(InMonth(m, t)) = m
  BY <1>5, <1>6, MonthFound
<1> QED
  BY <1>5, <1>7

\* In the month of the instant it is the instant, if the month has an end.
LEMMA OwnMonth ==
    ASSUME NEW t \in Nat, MonthOf(t) < Last
    PROVE  InMonth(MonthOf(t), t) = t
<1> DEFINE m == MonthOf(t)
           into == t - MonthStart[m]
<1>1. m \in Months /\ m + 1 \in Months /\ MonthStart[m] <= t /\ t < MonthStart[m + 1]
  <2>1. /\ m \in Months /\ MonthStart[m] <= t /\ m < Last
        /\ \A n \in Months : m < n => t < MonthStart[n]
    BY MonthFound
  <2>2. m + 1 \in Months /\ m < m + 1
    <3> HIDE DEF m
    <3> QED
      BY <2>1, MonthsHaveDays
  <2> QED
    BY <2>1, <2>2
<1>2. MonthStart[m + 1] = MonthStart[m] + Length(m) /\ MonthStart[m] \in Nat
  BY <1>1, MonthStarts, MonthsInOrder, MonthsHaveDays
<1>3. /\ Day \in Nat \ {0} /\ MonthDays[m] \in Nat \ {0} /\ Length(m) = MonthDays[m] * Day
      /\ Length(m) \in Nat
  BY <1>1, MonthsHaveDays DEF Length
<1>4. /\ InMonth(m, t) = MonthStart[m] + DayIn(m, t) * Day + TimeOf(t)
      /\ DayIn(m, t) = Min({into \div Day, MonthDays[m] - 1}) /\ TimeOf(t) = into % Day
  BY <1>1, SameDay DEF DayIn, TimeOf
<1>5. into \in Nat /\ into < MonthDays[m] * Day
  BY <1>1, <1>2, <1>3
<1>6. t = MonthStart[m] + into
  BY <1>1, <1>2
<1> HIDE DEF m, into
<1>7. into \div Day \in Nat /\ (into \div Day) * Day + (into % Day) = into
      /\ (into \div Day) * Day <= into
  BY <1>3, <1>5, Quotient
<1>8. into \div Day < MonthDays[m]
  BY <1>3, <1>5, <1>7, Multiples
<1>9. Min({into \div Day, MonthDays[m] - 1}) = into \div Day
  <2>1. {into \div Day, MonthDays[m] - 1} \subseteq Nat
    BY <1>3, <1>7
  <2>2. \A y \in {into \div Day, MonthDays[m] - 1} : into \div Day <= y
    BY <1>3, <1>7, <1>8
  <2> QED
    BY <2>1, <2>2, LeastOnly
<1>10. InMonth(m, t) = MonthStart[m] + (into \div Day) * Day + (into % Day)
  BY <1>4, <1>9
<1>11. (into \div Day) * Day \in Nat /\ into % Day \in Nat
  BY <1>3, <1>5, <1>7
<1>12. InMonth(m, t) = t
  BY <1>2, <1>5, <1>6, <1>7, <1>10, <1>11
<1> QED
  BY <1>12 DEF m

\* The shortest month.
Shortest == Min({MonthDays[m] : m \in Months})

\* It has a day, and no month has fewer.
LEMMA ShortestMonth ==
    /\ Shortest \in Nat \ {0} /\ Day * Shortest \in Nat \ {0}
    /\ \A m \in Months : Shortest <= MonthDays[m] /\ Day * Shortest <= Length(m)
<1> DEFINE lengths == {MonthDays[m] : m \in Months}
<1>1. lengths \subseteq Nat \ {0} /\ lengths # {}
  <2>1. 1 \in Months
    BY MonthsHaveDays
  <2> QED
    BY <2>1, MonthsHaveDays
<1>2. Shortest \in lengths /\ \A n \in lengths : Shortest <= n
  <2>1. Shortest = Min(lengths)
    BY DEF Shortest
  <2> HIDE DEF lengths
  <2> QED
    BY <1>1, <2>1, LeastOne
<1>3. Shortest \in Nat \ {0} /\ \A m \in Months : Shortest <= MonthDays[m]
  BY <1>1, <1>2
<1>4. ASSUME NEW a \in Nat, NEW b \in Nat, NEW d \in Nat, a <= b PROVE d * a <= b * d
  BY <1>4
<1>5. Day \in Nat \ {0} /\ \A m \in Months : MonthDays[m] \in Nat /\ Length(m) = MonthDays[m] * Day
  BY MonthsHaveDays DEF Length
<1>6. \A m \in Months : Day * Shortest <= Length(m)
  BY <1>3, <1>4, <1>5
<1>7. Day * Shortest \in Nat \ {0}
  BY <1>3, <1>5
<1> QED
  BY <1>3, <1>6, <1>7

\* From month to month it is at least the shortest month, whichever of the two months is
\* too short for the day.
LEMMA MonthApart ==
    ASSUME NEW t \in Nat, NEW m \in Months, NEW n \in Months, m < n
    PROVE  InMonth(m, t) + Day * Shortest <= InMonth(n, t)
<1>1. /\ InMonth(m, t) \in Nat /\ InMonth(m, t) < MonthStart[m] + Length(m)
      /\ InMonth(n, t) \in Nat /\ MonthStart[n] <= InMonth(n, t)
  BY WithinMonth
<1>2. /\ \A k \in Months : MonthStart[k] \in Nat /\ Length(k) \in Nat /\ Day * Shortest <= Length(k)
      /\ Day * Shortest \in Nat
  BY MonthsInOrder, MonthsHaveDays, ShortestMonth
<1>3. CASE m + 1 = n
  <2> DEFINE a == DayIn(m, t)
             b == DayIn(n, t)
  <2>1. /\ InMonth(m, t) = MonthStart[m] + a * Day + TimeOf(t)
        /\ InMonth(n, t) = MonthStart[n] + b * Day + TimeOf(t)
        /\ TimeOf(t) \in Nat /\ a \in Nat /\ b \in Nat /\ a < MonthDays[m] /\ b < MonthDays[n]
        /\ a <= b \/ b = MonthDays[n] - 1
    BY SameDay
  <2>2. MonthStart[n] = MonthStart[m] + Length(m)
    BY <1>3, MonthStarts, MonthsHaveDays
  <2>3. /\ Day \in Nat \ {0} /\ MonthDays[m] \in Nat /\ MonthDays[n] \in Nat
        /\ Length(m) = MonthDays[m] * Day /\ Length(n) = MonthDays[n] * Day
    BY MonthsHaveDays DEF Length
  <2> HIDE DEF a, b
  <2>4. a * Day \in Nat /\ b * Day \in Nat
    BY <2>1, <2>3
  <2>5. CASE a <= b
    <3>1. a * Day <= b * Day
      BY <2>1, <2>3, <2>5, Multiples
    <3> QED
      BY <1>2, <2>1, <2>2, <2>4, <3>1
  <2>6. CASE b = MonthDays[n] - 1
    <3>1. a * Day + Day <= MonthDays[m] * Day
      BY <2>1, <2>3, Multiples
    <3>2. b * Day + Day = MonthDays[n] * Day
      BY <2>1, <2>3, <2>6
    <3> QED
      BY <1>2, <2>1, <2>2, <2>3, <2>4, <3>1, <3>2
  <2> QED
    BY <2>1, <2>5, <2>6
<1>4. CASE m + 1 < n
  <2>1. m + 1 \in Months /\ m < m + 1
    BY <1>4, MonthsHaveDays
  <2>2. /\ MonthStart[m] + Length(m) <= MonthStart[m + 1]
        /\ MonthStart[m + 1] + Length(m + 1) <= MonthStart[n]
    BY <1>4, <2>1, MonthsInOrder
  <2> QED
    BY <1>1, <1>2, <2>1, <2>2
<1> QED
  BY <1>3, <1>4, MonthsHaveDays

-----------------------------------------------------------------------------
(* Occurrences.                                                            *)

\* A window whose months the calendar has, and an instant in them.
Charted(w) == w \in Shape /\ (w.recurrence = "monthly" => Reaches(w.start))
Within(w, at) == at \in Nat /\ (w.recurrence = "monthly" => Reaches(at))

\* One that repeats.
Repeats(w) == Charted(w) /\ w.recurrence # "none"

\* The numbers of the occurrences the calendar has.
Known(w) == CASE w.recurrence = "none"    -> {0}
              [] w.recurrence = "monthly" -> 0 .. Last - MonthOf(w.start)
              [] OTHER                    -> Nat

\* The parts of a window.
LEMMA ShapeParts ==
    ASSUME NEW w, Charted(w)
    PROVE  /\ w.start \in Nat /\ w.duration \in Nat \ {0} /\ w.recurrence \in Recurrences
           /\ w.until = None \/ w.until \in Nat
BY DEF Charted, Shape

\* One that does not repeat.
LEMMA Single ==
    ASSUME NEW w, Charted(w), w.recurrence = "none", NEW at
    PROVE  /\ Candidates(w, at) = {0} /\ Numbers(w, at) = {0} /\ Known(w) = {0}
           /\ w.start \in Nat /\ Start(w, 0) = w.start /\ Kept(w, 0)
BY ShapeParts DEF Candidates, Numbers, Known, Start, Kept

\* One that repeats after a fixed time.
Periodic(w) == Charted(w) /\ w.recurrence \in {"daily", "weekly"}

\* Its occurrences start at multiples of the period.
LEMMA Starts ==
    ASSUME NEW w, Periodic(w)
    PROVE  /\ Period(w.recurrence) \in Nat \ {0} /\ w.start \in Nat
           /\ w.recurrence # "none" /\ w.recurrence # "monthly" /\ Gap(w) = Period(w.recurrence)
           /\ Known(w) = Nat
           /\ \A k : Start(w, k) = w.start + k * Period(w.recurrence)
<1>1. Period(w.recurrence) \in Nat \ {0}
  BY WindowAssumption DEF Period, Periodic
<1>2. w.recurrence # "none" /\ w.recurrence # "monthly"
  BY DEF Periodic
<1> QED
  BY <1>1, <1>2, ShapeParts DEF Periodic, Gap, Start, Known

\* One that repeats by the month.
Monthly(w) == Charted(w) /\ w.recurrence = "monthly"

\* Its occurrences start in the months that follow that of the first.
LEMMA MonthlyStarts ==
    ASSUME NEW w, Monthly(w)
    PROVE  /\ Gap(w) = Day * Shortest /\ w.start \in Nat
           /\ MonthOf(w.start) \in Months /\ MonthOf(w.start) + 2 <= Last
           /\ Known(w) = 0 .. Last - MonthOf(w.start)
           /\ \A k \in Known(w) : /\ k \in Nat /\ MonthOf(w.start) + k \in Months
                                  /\ Start(w, k) = InMonth(MonthOf(w.start) + k, w.start)
<1>1. w.recurrence = "monthly" /\ w.start \in Nat /\ Reaches(w.start)
  BY ShapeParts DEF Monthly, Charted
<1>2. MonthOf(w.start) \in Months /\ MonthOf(w.start) + 2 <= Last
  BY <1>1, MonthFound, MonthsFollow
<1>3. Known(w) = 0 .. Last - MonthOf(w.start) /\ Gap(w) = Day * Shortest
      /\ \A k : Start(w, k) = InMonth(MonthOf(w.start) + k, w.start)
  BY <1>1 DEF Known, Gap, Shortest, Start
<1>4. \A k \in Known(w) : k \in Nat /\ MonthOf(w.start) + k \in Months
  BY <1>2, <1>3, MonthsHaveDays
<1> QED
  BY <1>1, <1>2, <1>3, <1>4

\* The occurrences come in the order of their numbers, at least the gap apart.
LEMMA Spaced ==
    ASSUME NEW w, Repeats(w)
    PROVE  /\ Gap(w) \in Nat \ {0} /\ Known(w) \subseteq Nat /\ 0 \in Known(w)
           /\ Start(w, 0) = w.start
           /\ \A k \in Known(w) : Start(w, k) \in Nat
           /\ \A k, l \in Known(w) : k < l => Start(w, k) + Gap(w) <= Start(w, l)
<1>1. CASE Periodic(w)
  <2> DEFINE p == Period(w.recurrence)
  <2>1. /\ p \in Nat \ {0} /\ w.start \in Nat /\ Gap(w) = p /\ Known(w) = Nat
        /\ \A k : Start(w, k) = w.start + k * p
    BY <1>1, Starts
  <2> HIDE DEF p
  <2>2. \A k, l \in Nat : k * p \in Nat /\ l * p \in Nat /\ (k < l => k * p + p <= l * p)
    BY <2>1, Multiples
  <2>3. 0 * p = 0
    BY <2>1
  <2> QED
    BY <2>1, <2>2, <2>3
<1>2. CASE Monthly(w)
  <2> DEFINE m == MonthOf(w.start)
  <2>1. /\ Gap(w) = Day * Shortest /\ w.start \in Nat /\ m \in Months /\ m + 2 <= Last
        /\ Known(w) = 0 .. Last - m
        /\ \A k \in Known(w) : /\ k \in Nat /\ m + k \in Months
                               /\ Start(w, k) = InMonth(m + k, w.start)
    BY <1>2, MonthlyStarts
  <2>2. Gap(w) \in Nat \ {0}
    BY <2>1, ShortestMonth
  <2>3. m \in Nat /\ Last \in Nat
    BY <2>1, MonthsHaveDays
  <2>4. 0 \in Known(w) /\ m + 0 = m /\ m < Last
    BY <2>1, <2>3
  <2>5. Start(w, 0) = w.start
    BY <2>1, <2>4, OwnMonth
  <2>6. \A k \in Known(w) : Start(w, k) \in Nat
    BY <2>1, WithinMonth
  <2>7. ASSUME NEW k \in Known(w), NEW l \in Known(w), k < l
        PROVE  Start(w, k) + Gap(w) <= Start(w, l)
    <3>1. m + k < m + l /\ m + k \in Months /\ m + l \in Months
      BY <2>1, <2>3, <2>7
    <3> HIDE DEF m
    <3>2. InMonth(m + k, w.start) + Day * Shortest <= InMonth(m + l, w.start)
      BY <2>1, <3>1, MonthApart
    <3> QED
      BY <2>1, <3>2
  <2> QED
    BY <2>1, <2>2, <2>4, <2>5, <2>6, <2>7
<1> QED
  BY <1>1, <1>2, ShapeParts DEF Repeats, Periodic, Monthly, Recurrences

\* The numbers start from 0.
LEMMA Earlier ==
    ASSUME NEW w, Repeats(w), NEW k \in Known(w), k # 0
    PROVE  k - 1 \in Known(w)
<1>1. CASE Periodic(w)
  BY <1>1, Starts
<1>2. CASE Monthly(w)
  <2>1. Known(w) = 0 .. Last - MonthOf(w.start) /\ Last - MonthOf(w.start) \in Nat
    BY <1>2, MonthlyStarts, MonthsHaveDays
  <2> QED
    BY <2>1
<1> QED
  BY <1>1, <1>2, ShapeParts DEF Repeats, Periodic, Monthly, Recurrences

\* The number the search starts from: the next occurrence is still to come, and the one
\* before it is not.
LEMMA Index ==
    ASSUME NEW w, Repeats(w), NEW at, Within(w, at)
    PROVE  /\ IndexAt(w, at) \in Nat
           /\ {IndexAt(w, at), IndexAt(w, at) + 1, IndexAt(w, at) + 2} \subseteq Known(w)
           /\ at < Start(w, IndexAt(w, at) + 1)
           /\ IndexAt(w, at) = 0 \/ Start(w, IndexAt(w, at) - 1) <= at
           /\ IndexAt(w, at) = 0 \/ w.recurrence = "monthly" \/ Start(w, IndexAt(w, at)) <= at
<1> DEFINE i == IndexAt(w, at)
<1>0. at \in Nat /\ w.start \in Nat
  BY ShapeParts DEF Repeats, Within
<1>1. CASE at <= w.start
  <2>1. i = 0
    BY <1>1 DEF IndexAt
  <2>2. Start(w, 0) = w.start /\ 0 \in Known(w) /\ Gap(w) \in Nat \ {0}
        /\ \A k, l \in Known(w) : k < l => Start(w, k) + Gap(w) <= Start(w, l)
    BY Spaced
  <2>3. 1 \in Known(w) /\ 2 \in Known(w)
    <3>1. CASE Periodic(w)
      BY <3>1, Starts
    <3>2. CASE Monthly(w)
      BY <3>2, MonthlyStarts, MonthsHaveDays
    <3> QED
      BY <3>1, <3>2, ShapeParts DEF Repeats, Periodic, Monthly, Recurrences
  <2>4. Start(w, 0) + Gap(w) <= Start(w, 1) /\ Start(w, 1) \in Nat
    BY <2>2, <2>3, Spaced
  <2>5. at < Start(w, 1)
    BY <1>0, <1>1, <2>2, <2>4
  <2> HIDE DEF i
  <2>6. {i, i + 1, i + 2} \subseteq Known(w) /\ at < Start(w, i + 1) /\ i \in Nat
    BY <2>1, <2>2, <2>3, <2>5
  <2> QED
    BY <2>1, <2>6 DEF i
<1>2. CASE at > w.start /\ Periodic(w)
  <2> DEFINE p == Period(w.recurrence)
  <2>1. /\ p \in Nat \ {0} /\ w.recurrence # "none" /\ w.recurrence # "monthly" /\ Known(w) = Nat
        /\ \A k : Start(w, k) = w.start + k * p
    BY <1>2, Starts
  <2>2. at - w.start \in Nat /\ i = (at - w.start) \div p
    BY <1>0, <1>2, <2>1 DEF IndexAt
  <2> HIDE DEF p, i
  <2>3. i \in Nat /\ i * p <= at - w.start /\ at - w.start < i * p + p
    BY <2>1, <2>2, Quotient
  <2>4. Start(w, i) = w.start + i * p /\ Start(w, i + 1) = w.start + (i * p + p) /\ i * p \in Nat
    BY <2>1, <2>3, Multiples
  <2>5. Start(w, i - 1) = w.start + (i * p - p)
    BY <2>1, <2>3
  <2>6. at < Start(w, i + 1) /\ Start(w, i) <= at /\ Start(w, i - 1) <= at
    <3> DEFINE q == i * p
    <3>1. q \in Nat /\ q <= at - w.start /\ at - w.start < q + p
      BY <2>3, <2>4
    <3>2. /\ Start(w, i) = w.start + q /\ Start(w, i + 1) = w.start + (q + p)
          /\ Start(w, i - 1) = w.start + (q - p)
      BY <2>4, <2>5
    <3>3. p \in Nat
      BY <2>1
    <3> HIDE DEF q
    <3> QED
      BY <1>0, <3>1, <3>2, <3>3
  <2>7. {i, i + 1, i + 2} \subseteq Known(w)
    BY <2>1, <2>3
  <2> QED
    BY <2>3, <2>6, <2>7 DEF i
<1>3. CASE at > w.start /\ Monthly(w)
  <2> DEFINE m == MonthOf(w.start)
             n == MonthOf(at)
  <2>1. i = n - m
    BY <1>0, <1>3 DEF IndexAt, Monthly
  <2>2. /\ m \in Months /\ Known(w) = 0 .. Last - m
        /\ \A k \in Known(w) : /\ k \in Nat /\ m + k \in Months
                               /\ Start(w, k) = InMonth(m + k, w.start)
    BY <1>3, MonthlyStarts
  <2>3. n \in Months /\ MonthStart[n] <= at /\ \A k \in Months : n < k => at < MonthStart[k]
    BY <1>0, MonthFound
  <2>4. n + 2 <= Last
    BY <1>0, <1>3, MonthsFollow DEF Within, Monthly
  <2>5. m <= n
    BY <1>0, <1>3, MonthsOfOrder
  <2> HIDE DEF m, n, i
  <2>6. m \in Nat /\ n \in Nat /\ Last \in Nat
    BY <2>2, <2>3, MonthsHaveDays
  <2>7. i \in Nat /\ {i, i + 1, i + 2} \subseteq Known(w) /\ m + (i + 1) = n + 1
    BY <2>1, <2>2, <2>4, <2>5, <2>6
  <2>8. at < Start(w, i + 1)
    <3>1. n + 1 \in Months /\ Start(w, i + 1) = InMonth(n + 1, w.start)
      BY <2>2, <2>7
    <3>2. MonthStart[n + 1] <= InMonth(n + 1, w.start) /\ InMonth(n + 1, w.start) \in Nat
      BY <1>0, <3>1, WithinMonth
    <3>3. at < MonthStart[n + 1] /\ MonthStart[n + 1] \in Nat
      BY <2>3, <2>6, <3>1, MonthsInOrder
    <3> QED
      BY <1>0, <3>1, <3>2, <3>3
  <2>9. i = 0 \/ Start(w, i - 1) <= at
    <3> SUFFICES ASSUME i # 0 PROVE Start(w, i - 1) <= at
      OBVIOUS
    <3>1. i - 1 \in Known(w) /\ m + (i - 1) = n - 1
      BY <2>1, <2>2, <2>6, <2>7
    <3>2. n - 1 \in Months /\ Start(w, i - 1) = InMonth(n - 1, w.start)
      BY <2>2, <3>1
    <3>3. InMonth(n - 1, w.start) < MonthStart[n - 1] + Length(n - 1)
          /\ InMonth(n - 1, w.start) \in Nat
      BY <1>0, <3>2, WithinMonth
    <3>4. MonthStart[n - 1] + Length(n - 1) <= MonthStart[n]
          /\ MonthStart[n - 1] \in Nat /\ MonthStart[n] \in Nat /\ Length(n - 1) \in Nat
      BY <2>3, <2>6, <3>2, MonthsInOrder, MonthsHaveDays
    <3> QED
      BY <1>0, <2>3, <3>2, <3>3, <3>4
  <2> QED
    BY <1>3, <2>7, <2>8, <2>9 DEF i, Monthly
<1> QED
  BY <1>0, <1>1, <1>2, <1>3, ShapeParts DEF Repeats, Periodic, Monthly, Recurrences

\* The numbers the search looks at, and those that may be on or next at an instant.
LEMMA SearchedNumbers ==
    ASSUME NEW w, Repeats(w), NEW at, Within(w, at)
    PROVE  /\ Candidates(w, at) = {k \in IndexAt(w, at) - 1 .. IndexAt(w, at) + 2 : k >= 0}
           /\ Candidates(w, at) \subseteq Known(w) /\ Numbers(w, at) \subseteq Known(w)
           /\ {IndexAt(w, at), IndexAt(w, at) + 1} \subseteq Numbers(w, at)
           /\ \A k \in Known(w) : Start(w, k) <= at => k \in Numbers(w, at)
<1> DEFINE i == IndexAt(w, at)
<1>1. i \in Nat /\ {i, i + 1, i + 2} \subseteq Known(w) /\ at \in Nat
  BY Index DEF Within
<1>2. Candidates(w, at) = {k \in i - 1 .. i + 2 : k >= 0}
  BY DEF Candidates, Repeats
<1>3. CASE Periodic(w)
  <2> DEFINE p == Period(w.recurrence)
  <2>1. /\ p \in Nat \ {0} /\ w.start \in Nat /\ w.recurrence # "none" /\ w.recurrence # "monthly"
        /\ Known(w) = Nat /\ \A k : Start(w, k) = w.start + k * p
    BY <1>3, Starts
  <2>2. Numbers(w, at) = 0 .. at + 1
    BY <2>1 DEF Numbers
  <2> HIDE DEF p
  <2>3. \A k \in Nat : k * p \in Nat /\ k <= k * p
    BY <2>1, Multiples
  <2>4. \A k \in Nat : Start(w, k) <= at => k <= at
    BY <1>1, <2>1, <2>3
  <2>5. i <= at
    <3>1. i = 0 \/ Start(w, i) <= at
      BY <2>1, Index
    <3> HIDE DEF i
    <3> QED
      BY <1>1, <2>4, <3>1
  <2> HIDE DEF i
  <2> QED
    BY <1>1, <1>2, <2>1, <2>2, <2>4, <2>5 DEF i
<1>4. CASE Monthly(w)
  <2>1. Known(w) = 0 .. Last - MonthOf(w.start) /\ Last - MonthOf(w.start) \in Nat
    BY <1>4, MonthlyStarts, MonthsHaveDays
  <2>2. Numbers(w, at) = Known(w)
    BY <1>4, <2>1 DEF Numbers, Monthly, Last
  <2> HIDE DEF i
  <2> QED
    BY <1>1, <1>2, <2>1, <2>2 DEF i
<1> QED
  BY <1>3, <1>4, ShapeParts DEF Repeats, Periodic, Monthly, Recurrences

\* Numbers of occurrences are naturals, and a higher one starts no earlier.
LEMMA InOrder ==
    ASSUME NEW w, Charted(w)
    PROVE  /\ Known(w) \subseteq Nat /\ \A k \in Known(w) : Start(w, k) \in Nat
           /\ \A k, l \in Known(w) : k <= l => Start(w, k) <= Start(w, l)
           /\ \A at : Within(w, at) => Candidates(w, at) \subseteq Known(w)
                                       /\ Numbers(w, at) \subseteq Known(w)
<1>1. CASE w.recurrence = "none"
  BY <1>1, Single
<1>2. CASE Repeats(w)
  <2>1. /\ Gap(w) \in Nat /\ Known(w) \subseteq Nat /\ \A k \in Known(w) : Start(w, k) \in Nat
        /\ \A k, l \in Known(w) : k < l => Start(w, k) + Gap(w) <= Start(w, l)
    BY <1>2, Spaced
  <2>2. \A k, l \in Known(w) : k <= l => Start(w, k) <= Start(w, l)
    <3> SUFFICES ASSUME NEW k \in Known(w), NEW l \in Known(w), k <= l
                 PROVE  Start(w, k) <= Start(w, l)
      OBVIOUS
    <3>1. CASE k = l
      BY <2>1, <3>1
    <3>2. CASE k < l
      BY <2>1, <3>2
    <3> QED
      BY <2>1, <3>1, <3>2
  <2> QED
    BY <1>2, <2>1, <2>2, SearchedNumbers
<1> QED
  BY <1>1, <1>2 DEF Repeats

\* What is found at an instant is the first candidate that is on or to come.
LEMMA FoundFirst ==
    ASSUME NEW w, Charted(w), NEW at, Within(w, at)
    PROVE  LET ks == {k \in Candidates(w, at) : Kept(w, k) /\ (Covers(w, k, at) \/ Start(w, k) > at)}
           IN  /\ ks \subseteq Known(w)
               /\ ks = {} => Found(w, at) = None
               /\ ks # {} => Found(w, at) \in ks /\ \A k \in ks : Found(w, at) <= k
<1> DEFINE ks == {k \in Candidates(w, at) : Kept(w, k) /\ (Covers(w, k, at) \/ Start(w, k) > at)}
<1>1. ks \subseteq Known(w) /\ ks \subseteq Nat
  BY InOrder
<1>2. Found(w, at) = IF ks = {} THEN None ELSE Min(ks)
  BY DEF Found
<1> HIDE DEF ks
<1>3. ks # {} => Found(w, at) \in ks /\ \A k \in ks : Found(w, at) <= k
  BY <1>1, <1>2, LeastOne
<1> QED
  BY <1>1, <1>2, <1>3 DEF ks

\* An occurrence that is on is that of the index or the one before it.
LEMMA OnIsNear ==
    ASSUME NEW w, Repeats(w), NEW at, Within(w, at), NEW k \in Known(w),
           Start(w, k) <= at, Short(w), at < End(w, k)
    PROVE  k \in {IndexAt(w, at) - 1, IndexAt(w, at)}
<1> DEFINE i == IndexAt(w, at)
<1>1. /\ i \in Nat /\ {i, i + 1, i + 2} \subseteq Known(w) /\ at < Start(w, i + 1)
      /\ i = 0 \/ Start(w, i - 1) <= at
      /\ i = 0 \/ w.recurrence = "monthly" \/ Start(w, i) <= at
  BY Index
<1>2. /\ Gap(w) \in Nat \ {0} /\ Known(w) \subseteq Nat /\ \A l \in Known(w) : Start(w, l) \in Nat
      /\ \A j, l \in Known(w) : j < l => Start(w, j) + Gap(w) <= Start(w, l)
  BY Spaced
<1>3. w.duration \in Nat /\ End(w, k) = Start(w, k) + w.duration /\ at \in Nat
  BY ShapeParts DEF Repeats, End, Within
<1>4. w.duration <= 2 * Gap(w) /\ (w.recurrence = "monthly" => w.duration <= Gap(w))
  <2>1. IF w.recurrence = "monthly" THEN w.duration <= Gap(w) ELSE w.duration <= 2 * Gap(w)
    BY DEF Short, Repeats
  <2> QED
    BY <1>2, <1>3, <2>1
<1> HIDE DEF i
<1>5. k <= i
  <2>1. i + 1 \in Known(w) /\ k \in Nat /\ Start(w, k) \in Nat /\ Start(w, i + 1) \in Nat
    BY <1>1, <1>2
  <2>2. i + 1 < k => FALSE
    BY <1>1, <1>2, <1>3, <2>1
  <2>3. i + 1 = k => FALSE
    BY <1>1, <1>3, <2>1
  <2> QED
    BY <1>1, <2>1, <2>2, <2>3
<1>6. i <= k + 1
  <2> SUFFICES ASSUME k + 1 < i PROVE FALSE
    BY <1>1, <1>2
  <2>1. k \in Nat /\ i - 1 \in Nat /\ k < i - 1 /\ i # 0
    BY <1>1, <1>2
  <2>2. i - 1 \in Known(w)
    BY <1>1, <2>1, Earlier
  <2>3. Start(w, k) + Gap(w) <= Start(w, i - 1) /\ Start(w, i - 1) + Gap(w) <= Start(w, i)
        /\ Start(w, k) \in Nat /\ Start(w, i - 1) \in Nat /\ Start(w, i) \in Nat
    BY <1>1, <1>2, <2>1, <2>2
  <2>4. CASE w.recurrence = "monthly"
    BY <1>1, <1>2, <1>3, <1>4, <2>1, <2>3, <2>4
  <2>5. CASE w.recurrence # "monthly"
    BY <1>1, <1>2, <1>3, <1>4, <2>1, <2>3, <2>5
  <2> QED
    BY <2>4, <2>5
<1> QED
  BY <1>1, <1>2, <1>5, <1>6 DEF i

\* So it is a candidate.
LEMMA OnIsCandidate ==
    ASSUME NEW w, Charted(w), Short(w), NEW at, Within(w, at), NEW k \in Known(w),
           Covers(w, k, at)
    PROVE  k \in Candidates(w, at)
<1>1. CASE w.recurrence = "none"
  BY <1>1, Single
<1>2. CASE Repeats(w)
  <2>1. k \in {IndexAt(w, at) - 1, IndexAt(w, at)} /\ k \in Nat /\ IndexAt(w, at) \in Nat
    BY <1>2, OnIsNear, Index, InOrder DEF Covers
  <2>2. Candidates(w, at) = {j \in IndexAt(w, at) - 1 .. IndexAt(w, at) + 2 : j >= 0}
    BY <1>2, SearchedNumbers
  <2> QED
    BY <2>1, <2>2
<1> QED
  BY <1>1, <1>2 DEF Repeats

\* An occurrence that is on is one of those there are.
LEMMA OnIsNumbered ==
    ASSUME NEW w, Charted(w), NEW at, Within(w, at), NEW k \in Known(w), Covers(w, k, at)
    PROVE  k \in Numbers(w, at)
<1>1. CASE w.recurrence = "none"
  BY <1>1, Single
<1>2. CASE Repeats(w)
  BY <1>2, SearchedNumbers DEF Covers
<1> QED
  BY <1>1, <1>2 DEF Repeats

\* The first occurrence to come: a candidate, and among those there are.
LEMMA FirstToCome ==
    ASSUME NEW w, Repeats(w), NEW at, Within(w, at)
    PROVE  \E f \in Known(w) :
              /\ f \in Candidates(w, at) /\ f \in Numbers(w, at) /\ Start(w, f) > at
              /\ \A k \in Known(w) : Start(w, k) > at => f <= k
<1> DEFINE i == IndexAt(w, at)
<1>1. /\ i \in Nat /\ {i, i + 1, i + 2} \subseteq Known(w) /\ at < Start(w, i + 1) /\ at \in Nat
      /\ i = 0 \/ Start(w, i - 1) <= at
  BY Index DEF Within
<1>2. /\ Candidates(w, at) = {k \in i - 1 .. i + 2 : k >= 0}
      /\ {i, i + 1} \subseteq Numbers(w, at)
  BY SearchedNumbers
<1>3. /\ Known(w) \subseteq Nat /\ \A k \in Known(w) : Start(w, k) \in Nat
      /\ \A k, l \in Known(w) : k <= l => Start(w, k) <= Start(w, l)
  BY InOrder DEF Repeats
<1>4. i = 0 \/ i - 1 \in Known(w)
  BY <1>1, Earlier
<1> HIDE DEF i
<1>5. CASE Start(w, i) > at
  <2>1. ASSUME NEW k \in Known(w), Start(w, k) > at PROVE i <= k
    <3> SUFFICES ASSUME k < i PROVE FALSE
      BY <1>1, <1>3
    <3>1. i # 0 /\ k <= i - 1 /\ i - 1 \in Known(w)
      BY <1>1, <1>3, <1>4
    <3>2. Start(w, k) <= Start(w, i - 1) /\ Start(w, k) \in Nat /\ Start(w, i - 1) \in Nat
      BY <1>3, <3>1
    <3> QED
      BY <1>1, <2>1, <3>1, <3>2
  <2> QED
    BY <1>1, <1>2, <1>5, <2>1
<1>6. CASE ~(Start(w, i) > at)
  <2>1. ASSUME NEW k \in Known(w), Start(w, k) > at PROVE i + 1 <= k
    <3> SUFFICES ASSUME k <= i PROVE FALSE
      BY <1>1, <1>3
    <3>1. Start(w, k) <= Start(w, i) /\ Start(w, k) \in Nat /\ Start(w, i) \in Nat
      BY <1>1, <1>3
    <3> QED
      BY <1>1, <1>6, <2>1, <3>1
  <2>2. Start(w, i + 1) > at /\ Start(w, i + 1) \in Nat
    BY <1>1, <1>3
  <2> QED
    BY <1>1, <1>2, <2>1, <2>2
<1> QED
  BY <1>5, <1>6

\* A window is on exactly while one of its occurrences runs: what runs is a candidate, and
\* nothing that is found before it can still be to come.
LEMMA OnExactly ==
    ASSUME NEW w, Charted(w), Short(w), NEW at, Within(w, at)
    PROVE  Current(w, at) # None <=> Running(w, at)
<1> DEFINE ks == {k \in Candidates(w, at) : Kept(w, k) /\ (Covers(w, k, at) \/ Start(w, k) > at)}
           f == Found(w, at)
<1>0. /\ Known(w) \subseteq Nat /\ \A k \in Known(w) : Start(w, k) \in Nat
      /\ \A k, l \in Known(w) : k <= l => Start(w, k) <= Start(w, l)
      /\ Numbers(w, at) \subseteq Known(w) /\ at \in Nat
  BY InOrder DEF Within
<1>1. /\ ks \subseteq Known(w) /\ (ks = {} => f = None)
      /\ ks # {} => f \in ks /\ \A k \in ks : f <= k
  BY FoundFirst
<1>2. Current(w, at) = IF f # None /\ Covers(w, f, at) THEN f ELSE None
  BY DEF Current
<1>3. ASSUME Current(w, at) # None PROVE Running(w, at)
  <2>1. f # None /\ Covers(w, f, at)
    BY <1>2, <1>3
  <2>2. f \in ks /\ f \in Known(w)
    BY <1>1, <2>1
  <2>3. Kept(w, f)
    BY <2>2
  <2>4. f \in Numbers(w, at)
    BY <2>1, <2>2, OnIsNumbered
  <2> QED
    BY <2>1, <2>3, <2>4 DEF Running
<1>4. ASSUME Running(w, at) PROVE Current(w, at) # None
  <2>1. PICK k \in Numbers(w, at) : Kept(w, k) /\ Covers(w, k, at)
    BY <1>4 DEF Running
  <2>2. k \in Known(w)
    BY <1>0
  <2>3. k \in ks
    BY <2>1, <2>2, OnIsCandidate
  <2>4. f \in ks /\ f \in Known(w) /\ f <= k
    BY <1>1, <2>3
  <2>5. Start(w, f) \in Nat /\ Start(w, k) \in Nat /\ Start(w, f) <= Start(w, k)
    BY <1>0, <2>2, <2>4
  <2>6. Start(w, k) <= at
    BY <2>1 DEF Covers
  <2>7. ~(Start(w, f) > at)
    BY <1>0, <2>5, <2>6
  <2>8. Covers(w, f, at)
    BY <2>4, <2>7
  <2>9. f # None
    BY <1>0, <2>4, WindowAssumption
  <2> HIDE DEF f
  <2> QED
    BY <1>2, <2>8, <2>9
<1> QED
  BY <1>3, <1>4

\* When none runs, the next one is the first to come: recurrence_until cuts off all
\* later ones with it.
LEMMA NextComing ==
    ASSUME NEW w, Charted(w), Short(w), NEW at, Within(w, at), ~Running(w, at)
    PROVE  LET coming == {k \in Numbers(w, at) : Kept(w, k) /\ Start(w, k) > at}
           IN  IF coming = {} THEN Upcoming(w, at) = None ELSE Upcoming(w, at) = Min(coming)
<1> DEFINE ks == {k \in Candidates(w, at) : Kept(w, k) /\ (Covers(w, k, at) \/ Start(w, k) > at)}
           coming == {k \in Numbers(w, at) : Kept(w, k) /\ Start(w, k) > at}
           f == Found(w, at)
<1>0. /\ Known(w) \subseteq Nat /\ \A k \in Known(w) : Start(w, k) \in Nat
      /\ \A k, l \in Known(w) : k <= l => Start(w, k) <= Start(w, l)
  BY InOrder
<1>1. f = IF ks = {} THEN None ELSE Min(ks)
  BY DEF Found
<1>2. ks \subseteq Known(w) /\ coming \subseteq Known(w)
  BY InOrder
<1>3. Upcoming(w, at) = f
  <2>1. Current(w, at) = None
    BY OnExactly
  <2>2. Current(w, at) = IF f # None /\ Covers(w, f, at) THEN f ELSE None
    BY DEF Current
  <2>3. Upcoming(w, at) = IF f # None /\ ~Covers(w, f, at) THEN f ELSE None
    BY DEF Upcoming
  <2> HIDE DEF f
  <2> QED
    BY <2>1, <2>2, <2>3
<1>4. \A k \in ks : ~Covers(w, k, at) /\ Start(w, k) > at
  <2> SUFFICES ASSUME NEW k \in ks, Covers(w, k, at) PROVE FALSE
    OBVIOUS
  <2>1. k \in Numbers(w, at)
    BY <1>2, OnIsNumbered
  <2> QED
    BY <2>1 DEF Running
<1>5. CASE w.recurrence = "none"
  <2>1. ks = coming
    BY <1>4, <1>5, Single
  <2> HIDE DEF ks, coming, f
  <2> QED
    BY <1>1, <1>3, <2>1 DEF coming
<1>6. CASE Repeats(w)
  <2>1. PICK n \in Known(w) :
           /\ n \in Candidates(w, at) /\ n \in Numbers(w, at) /\ Start(w, n) > at
           /\ \A k \in Known(w) : Start(w, k) > at => n <= k
    BY <1>6, FirstToCome
  <2>2. CASE Kept(w, n)
    <3>1. n \in ks /\ n \in coming
      BY <2>1, <2>2
    <3>2. (\A y \in ks : n <= y) /\ (\A y \in coming : n <= y)
      BY <1>2, <1>4, <2>1
    <3>3. ks \subseteq Nat /\ coming \subseteq Nat
      BY <1>0, <1>2
    <3> HIDE DEF ks, coming, f
    <3>4. Min(ks) = n /\ Min(coming) = n
      BY <3>1, <3>2, <3>3, LeastOnly
    <3>5. f = n /\ coming # {}
      BY <1>1, <3>1, <3>4
    <3> QED
      BY <1>3, <3>4, <3>5 DEF coming
  <2>3. CASE ~Kept(w, n)
    <3>1. ASSUME NEW k \in Known(w), Start(w, k) > at PROVE ~Kept(w, k)
      <4>1. Start(w, n) <= Start(w, k) /\ Start(w, n) \in Nat /\ Start(w, k) \in Nat
        BY <1>0, <2>1, <3>1
      <4>2. w.until = None \/ w.until \in Nat
        BY ShapeParts
      <4>3. w.until # None /\ w.until \in Nat /\ Start(w, n) > w.until
        BY <2>3, <4>1, <4>2 DEF Kept
      <4> QED
        BY <1>6, <4>1, <4>3 DEF Kept, Repeats
    <3>2. ks = {} /\ coming = {}
      BY <1>2, <1>4, <3>1
    <3> HIDE DEF ks, coming, f
    <3> QED
      BY <1>1, <1>3, <3>2 DEF coming
  <2> QED
    BY <2>2, <2>3
<1> QED
  BY <1>5, <1>6 DEF Repeats

\* A monthly window has one occurrence in each month.
LEMMA EveryMonth ==
    ASSUME NEW w, Charted(w), w.recurrence = "monthly", NEW at, Within(w, at),
           NEW n \in Numbers(w, at)
    PROVE  MonthOf(Start(w, n)) = MonthOf(w.start) + n
<1>1. n \in Known(w)
  BY InOrder
<1> QED
  BY <1>1, MonthlyStarts, WithinMonth DEF Monthly

\* What is current or has just ended is an occurrence the calendar has, if anything is.
LEMMA FoundIsNumber ==
    ASSUME NEW w, Charted(w), NEW at, Within(w, at)
    PROVE  /\ Current(w, at) # None => Current(w, at) \in Known(w)
           /\ Completed(w, at) # None => Completed(w, at) \in Known(w)
<1>1. Current(w, at) # None => Current(w, at) \in Known(w)
  <2> DEFINE ks == {k \in Candidates(w, at) : Kept(w, k) /\ (Covers(w, k, at) \/ Start(w, k) > at)}
  <2>1. ks \subseteq Known(w) /\ (ks = {} => Found(w, at) = None) /\ (ks # {} => Found(w, at) \in ks)
    BY FoundFirst
  <2> HIDE DEF ks
  <2> QED
    BY <2>1 DEF Current
<1>2. Completed(w, at) # None => Completed(w, at) \in Known(w)
  <2> DEFINE ks == {k \in EndCandidates(w, at) :
                       Kept(w, k) /\ End(w, k) <= at /\ at - End(w, k) <= Grace}
  <2>1. /\ EndCandidates(w, at) \subseteq Known(w)
        /\ \E b \in Nat : \A k \in EndCandidates(w, at) : k <= b
    <3>1. CASE w.recurrence = "none"
      <4>1. EndCandidates(w, at) = {0} /\ Known(w) = {0}
        BY <3>1 DEF EndCandidates, Known
      <4> QED
        BY <4>1
    <3>2. CASE Repeats(w)
      <4> DEFINE i == IndexAt(w, at)
      <4>1. i \in Nat /\ i \in Known(w)
        BY <3>2, Index
      <4>2. EndCandidates(w, at) = {k \in i - 1 .. i : k >= 0}
        BY <3>2 DEF EndCandidates, Repeats
      <4>3. i # 0 => i - 1 \in Known(w)
        BY <3>2, <4>1, Earlier
      <4> HIDE DEF i
      <4> QED
        BY <4>1, <4>2, <4>3
    <3> QED
      BY <3>1, <3>2 DEF Repeats
  <2>2. PICK b \in Nat : \A k \in EndCandidates(w, at) : k <= b
    BY <2>1
  <2>3. Completed(w, at) = IF ks = {} THEN None ELSE Max(ks)
    BY DEF Completed
  <2>4. ks \subseteq Known(w) /\ Known(w) \subseteq Nat /\ \A k \in ks : k <= b
    BY <2>1, <2>2, InOrder
  <2> HIDE DEF ks
  <2>5. ks # {} => Max(ks) \in ks
    BY <2>4, GreatestOne
  <2> QED
    BY <2>3, <2>4, <2>5
<1> QED
  BY <1>1, <1>2

\* Occurrences that keep their distance are found: while one runs it is the current one,
\* and in the grace after its end the one that is completed.
LEMMA FoundInTime ==
    ASSUME NEW w, Charted(w), Apart(w), NEW at, Within(w, at), NEW k \in Known(w), Kept(w, k),
           Start(w, k) <= at, at <= End(w, k) + Grace
    PROVE  /\ at < End(w, k) => Current(w, at) = k
           /\ End(w, k) <= at => Completed(w, at) = k
<1>0. at \in Nat /\ Grace \in Nat /\ w.duration \in Nat \ {0} /\ \A j : End(w, j) = Start(w, j) + w.duration
  BY ShapeParts, WindowAssumption DEF End, Within
<1>1. CASE w.recurrence = "none"
  <2>1. k = 0 /\ Candidates(w, at) = {0} /\ EndCandidates(w, at) = {0} /\ Start(w, 0) \in Nat
    BY <1>1, Single DEF EndCandidates
  <2>2. ASSUME at < End(w, k) PROVE Current(w, at) = k
    <3> DEFINE ks == {j \in Candidates(w, at) : Kept(w, j) /\ (Covers(w, j, at) \/ Start(w, j) > at)}
    <3>1. ks = {0} /\ Covers(w, 0, at)
      BY <2>1, <2>2 DEF Covers
    <3> HIDE DEF ks
    <3>2. Min(ks) = 0
      BY <3>1, LeastOnly
    <3>3. Found(w, at) = 0
      BY <3>1, <3>2 DEF Found, ks
    <3> QED
      BY <2>1, <3>1, <3>3, WindowAssumption DEF Current
  <2>3. ASSUME End(w, k) <= at PROVE Completed(w, at) = k
    <3> DEFINE ks == {j \in EndCandidates(w, at) :
                         Kept(w, j) /\ End(w, j) <= at /\ at - End(w, j) <= Grace}
    <3>1. at - End(w, 0) <= Grace
      BY <1>0, <2>1
    <3>2. ks = {0}
      BY <2>1, <2>3, <3>1
    <3> HIDE DEF ks
    <3>3. Max(ks) = 0
      BY <3>2, GreatestOnly
    <3> QED
      BY <2>1, <3>2, <3>3 DEF Completed, ks
  <2> QED
    BY <2>2, <2>3
<1>2. CASE Repeats(w)
  <2> DEFINE i == IndexAt(w, at)
  <2>1. /\ i \in Nat /\ {i, i + 1, i + 2} \subseteq Known(w) /\ at < Start(w, i + 1)
        /\ i = 0 \/ Start(w, i - 1) <= at
    BY <1>2, Index
  <2>2. /\ Gap(w) \in Nat \ {0} /\ Known(w) \subseteq Nat /\ \A j \in Known(w) : Start(w, j) \in Nat
        /\ \A j, l \in Known(w) : j < l => Start(w, j) + Gap(w) <= Start(w, l)
    BY <1>2, Spaced
  <2>3. w.duration + Grace < Gap(w)
    BY <1>2 DEF Apart, Repeats
  <2>4. i # 0 => i - 1 \in Known(w)
    BY <1>2, <2>1, Earlier
  <2> HIDE DEF i
  <2>5. \A j \in Known(w) : j < k => End(w, j) <= at /\ ~(Start(w, j) > at)
    BY <1>0, <2>2, <2>3
  <2>6. \A j \in Known(w) : k < j => Start(w, j) > at /\ End(w, j) > at
    BY <1>0, <2>2, <2>3
  <2>7. k \in {i - 1, i} /\ k \in Nat
    <3>1. k \in Nat /\ Start(w, k) \in Nat /\ Start(w, i + 1) \in Nat
      BY <2>1, <2>2
    <3>2. ~(i + 1 <= k)
      BY <1>0, <2>1, <2>2, <3>1
    <3>3. ~(k < i - 1)
      <4> SUFFICES ASSUME k < i - 1 PROVE FALSE
        OBVIOUS
      <4>1. i # 0 /\ i - 1 \in Known(w)
        BY <2>1, <2>4, <3>1
      <4>2. Start(w, i - 1) > at /\ Start(w, i - 1) \in Nat
        BY <2>2, <2>6, <4>1
      <4> QED
        BY <1>0, <2>1, <4>1, <4>2
    <3> QED
      BY <2>1, <3>1, <3>2, <3>3
  <2>8. ASSUME at < End(w, k) PROVE Current(w, at) = k
    <3> DEFINE ks == {j \in Candidates(w, at) : Kept(w, j) /\ (Covers(w, j, at) \/ Start(w, j) > at)}
    <3>1. Candidates(w, at) = {j \in i - 1 .. i + 2 : j >= 0} /\ Candidates(w, at) \subseteq Known(w)
      BY <1>2, SearchedNumbers DEF i
    <3>2. k \in Candidates(w, at) /\ Covers(w, k, at)
      BY <2>1, <2>7, <2>8, <3>1 DEF Covers
    <3>3. \A j \in ks : k <= j
      <4> SUFFICES ASSUME NEW j \in ks, j < k PROVE FALSE
        BY <2>2, <3>1
      <4>1. End(w, j) <= at /\ ~(Start(w, j) > at) /\ End(w, j) \in Nat
        BY <1>0, <2>2, <2>5, <3>1
      <4> QED
        BY <1>0, <4>1 DEF Covers
    <3>4. k \in ks /\ ks \subseteq Nat
      BY <2>2, <3>1, <3>2
    <3>5. Found(w, at) = IF ks = {} THEN None ELSE Min(ks)
      BY DEF Found
    <3> HIDE DEF ks
    <3>6. Min(ks) = k
      BY <3>3, <3>4, LeastOnly
    <3>7. Found(w, at) = k /\ k # None
      BY <2>7, <3>4, <3>5, <3>6, WindowAssumption
    <3> QED
      BY <3>2, <3>7 DEF Current
  <2>9. ASSUME End(w, k) <= at PROVE Completed(w, at) = k
    <3> DEFINE ks == {j \in EndCandidates(w, at) :
                         Kept(w, j) /\ End(w, j) <= at /\ at - End(w, j) <= Grace}
    <3>1. EndCandidates(w, at) = {j \in i - 1 .. i : j >= 0}
      BY <1>2 DEF EndCandidates, i, Repeats
    <3>2. EndCandidates(w, at) \subseteq Known(w)
      BY <2>1, <2>4, <3>1
    <3>3. at - End(w, k) <= Grace
      BY <1>0, <2>2
    <3>4. k \in ks
      BY <2>1, <2>7, <2>9, <3>1, <3>3
    <3>5. \A j \in ks : j <= k
      <4> SUFFICES ASSUME NEW j \in ks, k < j PROVE FALSE
        BY <2>2, <3>2
      <4>1. End(w, j) > at /\ End(w, j) \in Nat
        BY <1>0, <2>2, <2>6, <3>2
      <4> QED
        BY <1>0, <4>1
    <3>6. ks \subseteq Nat /\ Completed(w, at) = IF ks = {} THEN None ELSE Max(ks)
      BY <2>2, <3>2 DEF Completed
    <3> HIDE DEF ks
    <3>7. Max(ks) = k
      BY <3>4, <3>5, <3>6, GreatestOnly
    <3> QED
      BY <3>4, <3>6, <3>7
  <2> QED
    BY <2>8, <2>9
<1> QED
  BY <1>1, <1>2 DEF Repeats

-----------------------------------------------------------------------------
(* Theorems.                                                               *)

\* What a pass can find to announce.
Announced ==
    {[window |-> w, start |-> Start(shape, Current(shape, t)), event |-> "started"] :
        w \in Window, shape \in Shapes, t \in Nat}
    \cup
    {[window |-> w, start |-> Start(shape, Completed(shape, t)), event |-> "completed"] :
        w \in Window, shape \in Shapes, t \in Nat}

\* The clock, the rows and the calls.
Typed ==
    /\ now \in 0 .. MaxTime
    /\ windows \in [Window -> Row]
    /\ editors \in [Editor -> {None} \cup Edit]
    /\ passes \in [Scheduler -> [at: Nat, todo: SUBSET Announced]]

\* A notice that was enqueued has its event, unless its window is gone for good.
EventsKept == \A n \in told : n \in Announced /\ (n \in events \/ windows[n.window].status = "removed")

AnnouncedInv == Typed /\ EventsKept /\ AnnouncedOnce

\* A notice names a window.
LEMMA OfWindow == \A n \in Announced : n.window \in Window
BY DEF Announced

\* Writing a row keeps the rows' types.
LEMMA RowWritten ==
    ASSUME windows \in [Window -> Row], NEW w \in Window, NEW row \in Row, Writes(w, row)
    PROVE  /\ windows' \in [Window -> Row] /\ windows'[w] = row
           /\ \A v \in Window \ {w} : windows'[v] = windows[v]
BY DEF Writes

\* Every step keeps the types.
LEMMA TypedStep ==
    ASSUME Typed, [Next]_vars
    PROVE  Typed'
<1>1. ASSUME NEW w \in Window, NEW shape \in Shapes, Create(w, shape) PROVE Typed'
  <2>1. [status |-> "open", shape |-> shape] \in Row
    BY DEF Row
  <2>2. windows' \in [Window -> Row]
    BY <1>1, <2>1, RowWritten DEF Create, Typed
  <2> QED
    BY <1>1, <2>2 DEF Create, Typed
<1>2. ASSUME NEW w \in Window, NEW shape \in Shapes, NEW e \in Editor, ReadWindow(e, w, shape)
      PROVE  Typed'
  <2>1. [window |-> w, shape |-> shape, at |-> now] \in Edit
    BY DEF Edit, Typed
  <2> QED
    BY <1>2, <2>1 DEF ReadWindow, Typed
<1>3. ASSUME NEW e \in Editor, WriteWindow(e) PROVE Typed'
  <2>1. editors[e] \in Edit
    BY <1>3 DEF WriteWindow, Typed
  <2>2. editors[e].window \in Window /\ editors[e].shape \in Shapes
    BY <2>1 DEF Edit
  <2>3. [windows[editors[e].window] EXCEPT !.shape = editors[e].shape] \in Row
    BY <2>2 DEF Typed, Row
  <2>4. windows' \in [Window -> Row]
    BY <1>3, <2>2, <2>3, RowWritten DEF WriteWindow, Typed
  <2> QED
    BY <1>3, <2>4 DEF WriteWindow, Typed
<1>4. ASSUME NEW w \in Window, Cancel(w) PROVE Typed'
  <2>1. [windows[w] EXCEPT !.status = "cancelled"] \in Row
    BY DEF Typed, Row
  <2> QED
    BY <1>4, <2>1, RowWritten DEF Cancel, Typed
<1>5. ASSUME NEW w \in Window, Remove(w) PROVE Typed'
  <2>1. [windows[w] EXCEPT !.status = "removed"] \in Row
    BY DEF Typed, Row
  <2> QED
    BY <1>5, <2>1, RowWritten DEF Remove, Typed
<1>6. ASSUME NEW s \in Scheduler, StartPass(s) PROVE Typed'
  <2>1. \A w \in Window : windows[w].shape \in Shapes
    BY DEF Typed, Row
  <2>2. Due \subseteq Announced
    BY <2>1 DEF Due, NoticeOf, Announced, Typed
  <2>3. Resting \in [at: Nat, todo: SUBSET Announced]
        /\ [at |-> now, todo |-> Due] \in [at: Nat, todo: SUBSET Announced]
    BY <2>2 DEF Resting, Typed
  <2> QED
    BY <1>6, <2>3 DEF StartPass, Typed
<1>7. ASSUME NEW s \in Scheduler, PassFails(s) PROVE Typed'
  BY <1>7 DEF PassFails, Typed, Resting
<1>8. ASSUME NEW s \in Scheduler, NEW n \in passes[s].todo, Emit(s, n) PROVE Typed'
  <2>1. Resting \in [at: Nat, todo: SUBSET Announced]
        /\ [at |-> passes[s].at, todo |-> passes[s].todo \ {n}] \in [at: Nat, todo: SUBSET Announced]
    BY DEF Resting, Typed
  <2>2. passes' \in [Scheduler -> [at: Nat, todo: SUBSET Announced]]
    BY <1>8, <2>1 DEF Emit, Typed
  <2> QED
    BY <1>8, <2>2 DEF Emit, Typed
<1>9. ASSUME Tick PROVE Typed'
  <2>1. MaxTime \in Nat
    BY MaintenanceAssumption
  <2> QED
    BY <1>9, <2>1 DEF Tick, Typed
<1>10. CASE UNCHANGED vars
  BY <1>10 DEF vars, Typed
<1> QED
  BY <1>1, <1>2, <1>3, <1>4, <1>5, <1>6, <1>7, <1>8, <1>9, <1>10 DEF Next

\* Every step keeps the events of what was announced, and announces nothing again.
LEMMA AnnouncedStep ==
    ASSUME AnnouncedInv, [Next]_vars
    PROVE  EventsKept' /\ AnnouncedOnce'
<1> USE DEF AnnouncedInv, EventsKept, AnnouncedOnce
<1>1. ASSUME NEW w \in Window, NEW shape \in Shapes, Create(w, shape)
      PROVE  EventsKept' /\ AnnouncedOnce'
  <2>1. [status |-> "open", shape |-> shape] \in Row
    BY DEF Row
  <2>2. \A v \in Window \ {w} : windows'[v] = windows[v]
    BY <1>1, <2>1, RowWritten DEF Create, Typed
  <2> QED
    BY <1>1, <2>2, OfWindow DEF Create
<1>2. ASSUME NEW w \in Window, NEW shape \in Shapes, NEW e \in Editor, ReadWindow(e, w, shape)
      PROVE  EventsKept' /\ AnnouncedOnce'
  BY <1>2 DEF ReadWindow
<1>3. ASSUME NEW e \in Editor, WriteWindow(e) PROVE EventsKept' /\ AnnouncedOnce'
  <2> DEFINE w == editors[e].window
             row == [windows[w] EXCEPT !.shape = editors[e].shape]
  <2>1. w \in Window /\ editors[e].shape \in Shapes
    BY <1>3 DEF WriteWindow, Typed, Edit
  <2>2. row \in Row /\ row.status = windows[w].status
    BY <2>1 DEF Typed, Row
  <2>3. CASE Stored(w)
    <3>1. windows'[w] = row /\ \A v \in Window \ {w} : windows'[v] = windows[v]
      BY <1>3, <2>1, <2>2, <2>3, RowWritten DEF WriteWindow, Typed
    <3>2. \A v \in Window : windows'[v].status = windows[v].status
      BY <2>2, <3>1
    <3> QED
      BY <1>3, <3>2, OfWindow DEF WriteWindow
  <2>4. CASE ~Stored(w)
    BY <1>3, <2>4 DEF WriteWindow
  <2> QED
    BY <2>3, <2>4
<1>4. ASSUME NEW w \in Window, Cancel(w) PROVE EventsKept' /\ AnnouncedOnce'
  <2>1. [windows[w] EXCEPT !.status = "cancelled"] \in Row /\ windows[w].status = "open"
    BY <1>4 DEF Typed, Row, Cancel, Open
  <2>2. \A v \in Window \ {w} : windows'[v] = windows[v]
    BY <1>4, <2>1, RowWritten DEF Cancel, Typed
  <2> QED
    BY <1>4, <2>1, <2>2, OfWindow DEF Cancel
<1>5. ASSUME NEW w \in Window, Remove(w) PROVE EventsKept' /\ AnnouncedOnce'
  <2>1. [windows[w] EXCEPT !.status = "removed"] \in Row
    BY DEF Typed, Row
  <2>2. windows'[w].status = "removed" /\ \A v \in Window \ {w} : windows'[v] = windows[v]
    <3>1. windows'[w] = [windows[w] EXCEPT !.status = "removed"]
          /\ \A v \in Window \ {w} : windows'[v] = windows[v]
      BY <1>5, <2>1, RowWritten DEF Remove, Typed
    <3>2. windows[w] \in Row
      BY DEF Typed
    <3> QED
      BY <3>1, <3>2 DEF Row
  <2>3. events' = {e \in events : e.window # w} /\ told' = told /\ repeated' = repeated
    BY <1>5 DEF Remove
  <2> QED
    BY <2>2, <2>3, OfWindow
<1>6. ASSUME NEW s \in Scheduler, StartPass(s) PROVE EventsKept' /\ AnnouncedOnce'
  BY <1>6 DEF StartPass
<1>7. ASSUME NEW s \in Scheduler, PassFails(s) PROVE EventsKept' /\ AnnouncedOnce'
  BY <1>7 DEF PassFails
<1>8. ASSUME NEW s \in Scheduler, NEW n \in passes[s].todo, Emit(s, n)
      PROVE  EventsKept' /\ AnnouncedOnce'
  <2>1. n \in Announced
    BY DEF Typed
  <2>2. windows' = windows
    BY <1>8 DEF Emit
  <2>3. CASE ~Stored(n.window)
    BY <1>8, <2>2, <2>3 DEF Emit
  <2>4. CASE Stored(n.window)
    <3>1. /\ events' = events \cup {n}
          /\ told' = IF IsNew(n) THEN told \cup {n} ELSE told
          /\ repeated' = (repeated \/ (IsNew(n) /\ n \in told))
      BY <1>8, <2>4 DEF Emit
    <3>2. ~(IsNew(n) /\ n \in told)
      BY <2>4 DEF IsNew, Stored
    <3> QED
      BY <2>1, <2>2, <3>1, <3>2
  <2> QED
    BY <2>3, <2>4
<1>9. ASSUME Tick PROVE EventsKept' /\ AnnouncedOnce'
  BY <1>9 DEF Tick
<1>10. CASE UNCHANGED vars
  BY <1>10 DEF vars
<1> QED
  BY <1>1, <1>2, <1>3, <1>4, <1>5, <1>6, <1>7, <1>8, <1>9, <1>10 DEF Next

\* The invariant holds at first.
LEMMA AnnouncedInit ==
    ASSUME Init
    PROVE  AnnouncedInv
<1>1. (CHOOSE s \in Shapes : TRUE) \in Shapes
  BY MaintenanceAssumption
<1> QED
  BY <1>1, MaintenanceAssumption
     DEF Init, AnnouncedInv, Typed, EventsKept, AnnouncedOnce, Row, Resting

\* The rows, calls and announcements of a running system.
THEOREM AnnouncedInvariant == Spec => []AnnouncedInv
<1>1. Init => AnnouncedInv
  BY AnnouncedInit
<1>2. AnnouncedInv /\ [Next]_vars => AnnouncedInv'
  BY TypedStep, AnnouncedStep DEF AnnouncedInv
<1> QED
  BY <1>1, <1>2, PTL DEF Spec

\* No occurrence is announced twice, whatever the windows' recurrences, however many
\* processes pass over them and whatever operators do meanwhile (emitOccurrence).
THEOREM NeverTwice == Spec => []AnnouncedOnce
<1>1. AnnouncedInv => AnnouncedOnce
  BY DEF AnnouncedInv
<1> QED
  BY <1>1, AnnouncedInvariant, PTL

\* The calendar has the months of every window, then and now.
LEMMA AllCharted ==
    ASSUME windows \in [Window -> Row], now \in 0 .. MaxTime, NEW w \in Window
    PROVE  Charted(windows[w].shape) /\ Within(windows[w].shape, now)
<1>1. windows[w].shape \in Shapes
  BY DEF Row
<1>2. windows[w].shape \in Shape /\ MaxTime \in Nat
  BY <1>1, MaintenanceAssumption
<1>3. ASSUME windows[w].shape.recurrence = "monthly"
      PROVE  Reaches(windows[w].shape.start) /\ Reaches(now)
  <2>1. Reaches(windows[w].shape.start) /\ Reaches(MaxTime)
    BY <1>1, <1>3, MaintenanceAssumption
  <2>2. Len(MonthDays) > 1 /\ MaxTime < MonthStart[Len(MonthDays) - 1]
        /\ MonthStart[Len(MonthDays) - 1] \in Nat
    <3>1. Len(MonthDays) > 1 /\ MaxTime < MonthStart[Len(MonthDays) - 1]
      BY <2>1 DEF Reaches
    <3>2. Len(MonthDays) - 1 \in Months
      BY <3>1, MonthsHaveDays DEF Last
    <3> QED
      BY <3>1, <3>2, MonthsInOrder
  <2>3. Reaches(now)
    BY <1>2, <2>2 DEF Reaches
  <2> QED
    BY <2>1, <2>3
<1> QED
  BY <1>2, <1>3 DEF Charted, Within

\* A window is on exactly while one of its occurrences runs, by the day, the week or the
\* month, whatever the lengths of the months (occurrences()).
THEOREM OnWhenRunning == Spec => []OnWhileRunning
<1>1. AnnouncedInv => OnWhileRunning
  <2> SUFFICES ASSUME AnnouncedInv, NEW w \in Window, Open(w), Short(windows[w].shape)
               PROVE  Current(windows[w].shape, now) # None <=> Running(windows[w].shape, now)
    BY DEF OnWhileRunning
  <2>1. Charted(windows[w].shape) /\ Within(windows[w].shape, now)
    BY AllCharted DEF AnnouncedInv, Typed
  <2> QED
    BY <2>1, OnExactly
<1> QED
  BY <1>1, AnnouncedInvariant, PTL

\* The occurrence a window shows as its next is the first one to come, and a monthly window
\* has one in every month: a month without its day has it on its last one (addRecurrence).
THEOREM FirstIsNext == Spec => []NextIsFirst
<1>1. AnnouncedInv => NextIsFirst
  <2> SUFFICES ASSUME AnnouncedInv, NEW w \in Window
               PROVE  LET shape  == windows[w].shape
                          coming == {k \in Numbers(shape, now) :
                                        Kept(shape, k) /\ Start(shape, k) > now}
                          k      == Upcoming(shape, now)
                      IN  /\ (Short(shape) /\ ~Running(shape, now))
                                => IF coming = {} THEN k = None ELSE k = Min(coming)
                          /\ shape.recurrence = "monthly"
                                => \A n \in Numbers(shape, now) :
                                      MonthOf(Start(shape, n)) = MonthOf(shape.start) + n
    BY DEF NextIsFirst
  <2>1. Charted(windows[w].shape) /\ Within(windows[w].shape, now)
    BY AllCharted DEF AnnouncedInv, Typed
  <2> QED
    BY <2>1, NextComing, EveryMonth
<1> QED
  BY <1>1, AnnouncedInvariant, PTL

-----------------------------------------------------------------------------
(* Types.                                                                  *)

\* Notices have starts in time.
LEMMA DueAreNotices ==
    ASSUME TypeOK
    PROVE  Due \subseteq Notice
<1>1. \A w \in Window : Charted(windows[w].shape) /\ Within(windows[w].shape, now)
  BY AllCharted DEF TypeOK
<1>2. ASSUME NEW w \in Window, NEW k \in Known(windows[w].shape),
             NEW event \in {"started", "completed"}
      PROVE  NoticeOf(w, k, event) \in Notice
  <2>1. Start(windows[w].shape, k) \in Nat
    BY <1>1, InOrder
  <2> QED
    BY <2>1 DEF NoticeOf, Notice
<1> QED
  BY <1>1, <1>2, FoundIsNumber DEF Due

\* A pass was started in the past.
PassesBegan == \A s \in Scheduler : passes[s].at <= now

\* Every step keeps the types.
LEMMA TypeStep ==
    ASSUME TypeOK, PassesBegan, [Next]_vars
    PROVE  TypeOK' /\ PassesBegan'
<1> USE DEF PassesBegan
<1>0. now \in Nat /\ 0 .. now \subseteq 0 .. (now + 1) /\ MaxTime \in Nat
      /\ MaxEdits \in Nat /\ MaxFaults \in Nat
  BY MaintenanceAssumption DEF TypeOK
<1>1. ASSUME Edits PROVE budget' \in [edits: 0 .. MaxEdits, faults: 0 .. MaxFaults]
  BY <1>0, <1>1 DEF Edits, TypeOK
<1>2. ASSUME NEW w \in Window, NEW row \in Row, Writes(w, row)
      PROVE  windows' \in [Window -> Row] /\ changed' \in [Window -> 0 .. now]
             /\ windows'[w] = row /\ \A v \in Window \ {w} : windows'[v] = windows[v]
  BY <1>0, <1>2 DEF Writes, TypeOK
<1>3. \A e \in events : e \in Notice /\ e.window \in Window
  BY DEF TypeOK, Notice
<1>4. ASSUME NEW w \in Window, NEW shape \in Shapes, Create(w, shape) PROVE TypeOK' /\ PassesBegan'
  <2>1. [status |-> "open", shape |-> shape] \in Row
    BY DEF Row
  <2>2. /\ windows' \in [Window -> Row] /\ changed' \in [Window -> 0 .. now]
        /\ windows'[w].status = "open" /\ \A v \in Window \ {w} : windows'[v] = windows[v]
    BY <1>2, <1>4, <2>1 DEF Create
  <2>3. \A e \in events : Stored(e.window)'
    BY <1>3, <2>2 DEF Stored, TypeOK
  <2> QED
    BY <1>1, <1>4, <2>2, <2>3 DEF Create, TypeOK
<1>5. ASSUME NEW w \in Window, NEW shape \in Shapes, NEW e \in Editor, ReadWindow(e, w, shape)
      PROVE  TypeOK' /\ PassesBegan'
  <2>1. [window |-> w, shape |-> shape, at |-> now] \in Edit
    BY <1>0 DEF Edit
  <2>2. editors' \in [Editor -> {None} \cup Edit]
    BY <1>5, <2>1 DEF ReadWindow, TypeOK
  <2> QED
    BY <1>1, <1>5, <2>2 DEF ReadWindow, TypeOK, Stored
<1>6. ASSUME NEW e \in Editor, WriteWindow(e) PROVE TypeOK' /\ PassesBegan'
  <2> DEFINE w == editors[e].window
             row == [windows[w] EXCEPT !.shape = editors[e].shape]
  <2>1. w \in Window /\ editors[e].shape \in Shapes
    BY <1>6 DEF WriteWindow, TypeOK, Edit
  <2>2. row \in Row /\ row.status = windows[w].status
    BY <2>1 DEF TypeOK, Row
  <2>3. editors' \in [Editor -> {None} \cup Edit]
    BY <1>6 DEF WriteWindow, TypeOK
  <2>4. CASE Writes(w, row)
    <3>1. /\ windows' \in [Window -> Row] /\ changed' \in [Window -> 0 .. now]
          /\ windows'[w] = row /\ \A v \in Window \ {w} : windows'[v] = windows[v]
      BY <1>2, <2>1, <2>2, <2>4
    <3>2. \A v \in Window : windows'[v].status = windows[v].status
      BY <2>2, <3>1
    <3>3. \A n \in events : Stored(n.window)'
      BY <1>3, <3>2 DEF Stored, TypeOK
    <3> QED
      BY <1>6, <2>3, <3>1, <3>3 DEF WriteWindow, TypeOK
  <2>5. CASE UNCHANGED <<windows, changed>>
    BY <1>6, <2>3, <2>5 DEF WriteWindow, TypeOK, Stored
  <2> QED
    BY <1>6, <2>4, <2>5 DEF WriteWindow
<1>7. ASSUME NEW w \in Window, Cancel(w) PROVE TypeOK' /\ PassesBegan'
  <2>1. [windows[w] EXCEPT !.status = "cancelled"] \in Row
        /\ [windows[w] EXCEPT !.status = "cancelled"].status = "cancelled"
    BY DEF TypeOK, Row
  <2>2. /\ windows' \in [Window -> Row] /\ changed' \in [Window -> 0 .. now]
        /\ windows'[w].status = "cancelled" /\ \A v \in Window \ {w} : windows'[v] = windows[v]
    BY <1>2, <1>7, <2>1 DEF Cancel
  <2>3. \A e \in events : Stored(e.window)'
    BY <1>3, <2>2 DEF Stored, TypeOK
  <2> QED
    BY <1>1, <1>7, <2>2, <2>3 DEF Cancel, TypeOK
<1>8. ASSUME NEW w \in Window, Remove(w) PROVE TypeOK' /\ PassesBegan'
  <2>1. [windows[w] EXCEPT !.status = "removed"] \in Row
    BY DEF TypeOK, Row
  <2>2. /\ windows' \in [Window -> Row] /\ changed' \in [Window -> 0 .. now]
        /\ \A v \in Window \ {w} : windows'[v] = windows[v]
    BY <1>2, <1>8, <2>1 DEF Remove
  <2>3. \A e \in events' : e \in Notice /\ Stored(e.window)'
    BY <1>3, <1>8, <2>2 DEF Remove, Stored, TypeOK
  <2> QED
    BY <1>1, <1>8, <2>2, <2>3 DEF Remove, TypeOK
<1>9. ASSUME NEW s \in Scheduler, StartPass(s) PROVE TypeOK' /\ PassesBegan'
  <2>1. Resting \in Pass /\ [at |-> now, todo |-> Due] \in Pass
        /\ Resting.at <= now /\ [at |-> now, todo |-> Due].at <= now
    BY <1>0, DueAreNotices DEF Resting, Pass
  <2>2. passes' \in [Scheduler -> Pass] /\ now' = now /\ \A t \in Scheduler : passes'[t].at <= now
    BY <1>9, <2>1 DEF StartPass, TypeOK
  <2> QED
    BY <1>0, <1>9, <2>2 DEF StartPass, TypeOK, Stored
<1>10. ASSUME NEW s \in Scheduler, PassFails(s) PROVE TypeOK' /\ PassesBegan'
  <2>1. Resting \in Pass /\ Resting.at <= now
    BY <1>0 DEF Resting, Pass
  <2>2. passes' \in [Scheduler -> Pass] /\ now' = now /\ \A t \in Scheduler : passes'[t].at <= now
    BY <1>10, <2>1 DEF PassFails, TypeOK
  <2>3. passes[s].at \in 0 .. now
    BY <1>0 DEF TypeOK, Pass
  <2>4. budget' \in [edits: 0 .. MaxEdits, faults: 0 .. MaxFaults]
    BY <1>0, <1>10 DEF PassFails, TypeOK
  <2> QED
    BY <1>10, <2>2, <2>3, <2>4 DEF PassFails, TypeOK, Stored
<1>11. ASSUME NEW s \in Scheduler, NEW n \in passes[s].todo, Emit(s, n)
       PROVE  TypeOK' /\ PassesBegan'
  <2> DEFINE rest == [at |-> passes[s].at, todo |-> passes[s].todo \ {n}]
  <2>1. n \in Notice /\ n.window \in Window /\ passes[s].at \in 0 .. now
    BY <1>0 DEF TypeOK, Pass, Notice
  <2>2. Resting \in Pass /\ Resting.at <= now /\ rest \in Pass /\ rest.at <= now
    BY <1>0 DEF Resting, Pass, TypeOK
  <2>3. now' = now /\ windows' = windows
    BY <1>11 DEF Emit
  <2>4. CASE ~Stored(n.window)
    <3>1. passes' = [passes EXCEPT ![s] = Resting]
      BY <1>11, <2>4 DEF Emit
    <3>2. passes' \in [Scheduler -> Pass] /\ \A t \in Scheduler : passes'[t].at <= now
      BY <2>2, <3>1 DEF TypeOK
    <3> QED
      BY <1>11, <2>1, <2>3, <2>4, <3>2 DEF Emit, TypeOK, Stored
  <2>5. CASE Stored(n.window)
    <3>1. passes' = [passes EXCEPT ![s] = IF passes[s].todo = {n} THEN Resting ELSE rest]
      BY <1>11, <2>5 DEF Emit
    <3>2. passes' \in [Scheduler -> Pass] /\ \A t \in Scheduler : passes'[t].at <= now
      <4> HIDE DEF rest
      <4> QED
        BY <2>2, <3>1 DEF TypeOK
    <3>3. events' \subseteq Notice /\ \A e \in events' : Stored(e.window)'
      BY <1>11, <2>1, <2>3, <2>5 DEF Emit, TypeOK, Stored
    <3>4. told' \subseteq Notice
      BY <1>11, <2>1, <2>5 DEF Emit, TypeOK
    <3>5. repeated' \in BOOLEAN
      BY <1>11, <2>5 DEF Emit, TypeOK
    <3> QED
      BY <1>11, <2>3, <2>5, <3>2, <3>3, <3>4, <3>5 DEF Emit, TypeOK
  <2> QED
    BY <2>4, <2>5
<1>12. ASSUME Tick PROVE TypeOK' /\ PassesBegan'
  <2>1. now' = now + 1 /\ now' \in 0 .. MaxTime
    BY <1>0, <1>12 DEF Tick, TypeOK
  <2>2. \A s \in Scheduler : passes[s].at \in Nat
    BY DEF TypeOK, Pass
  <2> QED
    BY <1>0, <1>12, <2>1, <2>2 DEF Tick, TypeOK, Stored
<1>13. CASE UNCHANGED vars
  BY <1>13 DEF vars, TypeOK, Stored
<1> QED
  BY <1>4, <1>5, <1>6, <1>7, <1>8, <1>9, <1>10, <1>11, <1>12, <1>13 DEF Next

\* The clock, rows and calls, and when the passes began.
LEMMA TypesInvariant == Spec => [](TypeOK /\ PassesBegan)
<1>1. Init => TypeOK /\ PassesBegan
  <2>1. (CHOOSE s \in Shapes : TRUE) \in Shapes
    BY MaintenanceAssumption
  <2>2. Resting \in Pass /\ Resting.at = 0
    BY DEF Resting, Pass
  <2>3. \A shape \in Shapes : [status |-> "none", shape |-> shape] \in Row
    BY DEF Row
  <2> SUFFICES ASSUME Init PROVE TypeOK /\ PassesBegan
    OBVIOUS
  <2>4. now = 0 /\ now \in 0 .. MaxTime /\ 0 \in 0 .. now
    BY MaintenanceAssumption DEF Init
  <2>5. windows \in [Window -> Row] /\ editors \in [Editor -> {None} \cup Edit]
    BY <2>1, <2>3 DEF Init
  <2>6. passes \in [Scheduler -> Pass] /\ PassesBegan
    BY <2>2, <2>4 DEF Init, PassesBegan
  <2>7. budget \in [edits: 0 .. MaxEdits, faults: 0 .. MaxFaults]
    BY MaintenanceAssumption DEF Init
  <2>8. changed \in [Window -> 0 .. now] /\ passed = None
    BY <2>4 DEF Init
  <2>9. events = {} /\ failed = {} /\ told = {} /\ repeated = FALSE
    BY DEF Init
  <2> QED
    BY <2>4, <2>5, <2>6, <2>7, <2>8, <2>9 DEF TypeOK
<1>2. TypeOK /\ PassesBegan /\ [Next]_vars => (TypeOK /\ PassesBegan)'
  BY TypeStep
<1> QED
  BY <1>1, <1>2, PTL DEF Spec

\* Every state is of its types: whatever a pass finds is the start of an occurrence, and no
\* event outlives its window.
THEOREM TypeCorrect == Spec => []TypeOK
<1>1. TypeOK /\ PassesBegan => TypeOK
  OBVIOUS
<1> QED
  BY <1>1, TypesInvariant, PTL

-----------------------------------------------------------------------------
(* Nothing is missed.                                                      *)

\* A notice that was due at t is enqueued, or in the hands of the pass that was started
\* then, or that pass failed.
Handled(n, t) ==
    \/ n \in told
    \/ t \in failed
    \/ \E s \in Scheduler : passes[s].at = t /\ n \in passes[s].todo

\* What is due at t of a window that nobody touched since before the occurrence.
DueOf(w, k, t, n) ==
    /\ Open(w) /\ Apart(windows[w].shape) /\ Kept(windows[w].shape, k)
    /\ changed[w] < Start(windows[w].shape, k)
    /\ \/ /\ n = NoticeOf(w, k, "started")
          /\ Start(windows[w].shape, k) <= t /\ t < End(windows[w].shape, k)
       \/ /\ n = NoticeOf(w, k, "completed")
          /\ End(windows[w].shape, k) <= t /\ t <= End(windows[w].shape, k) + Grace

\* Every instant but the last had a pass, and the last too once it was started.
Attended ==
    \A w \in Window : \A k \in Known(windows[w].shape), t \in Nat, n \in Notice :
        DueOf(w, k, t, n) /\ (t < now \/ t = passed) => Handled(n, t)

\* Who has an event was told, and no pass is longer at work than passes take.
Prompt == /\ events \subseteq told
          /\ \A s \in Scheduler : passes[s].todo # {} => now - passes[s].at <= MaxLag

AttendedInv == TypeOK /\ PassesBegan /\ Attended /\ Prompt

\* A step that starts or ends no pass attends to what was attended to: it touches a window
\* at most, from now on, and enqueues nothing.
LEMMA StillAttended ==
    ASSUME AttendedInv, TypeOK', NEW changing \in Window,
           UNCHANGED <<now, passes, passed, failed, told>>,
           \A v \in Window \ {changing} : windows'[v] = windows[v] /\ changed'[v] = changed[v],
           \/ windows'[changing] = windows[changing] /\ changed'[changing] = changed[changing]
           \/ changed'[changing] = now
    PROVE  Attended'
<1> SUFFICES ASSUME NEW w \in Window, NEW k \in Known(windows'[w].shape), NEW t \in Nat,
                    NEW n \in Notice, DueOf(w, k, t, n)', t < now \/ t = passed
             PROVE  Handled(n, t)'
  BY DEF Attended
<1>1. windows'[w] = windows[w] /\ changed'[w] = changed[w]
  <2> SUFFICES ASSUME changed'[w] = now PROVE FALSE
    OBVIOUS
  <2>1. now < Start(windows'[w].shape, k)
    BY DEF DueOf
  <2>2. now' \in 0 .. MaxTime /\ MaxTime \in Nat /\ windows' \in [Window -> Row]
    BY MaintenanceAssumption DEF TypeOK
  <2>3. Charted(windows'[w].shape)
    <3>1. windows'[w].shape \in Shapes
      BY <2>2 DEF Row
    <3> QED
      BY <3>1, MaintenanceAssumption DEF Charted
  <2>4. Start(windows'[w].shape, k) \in Nat /\ windows'[w].shape.duration \in Nat
    BY <2>3, InOrder, ShapeParts
  <2>5. End(windows'[w].shape, k) = Start(windows'[w].shape, k) + windows'[w].shape.duration
    BY DEF End
  <2>6. Start(windows'[w].shape, k) <= t
    BY <2>4, <2>5 DEF DueOf
  <2>7. t <= now
    <3>1. passed \in {None} \cup 0 .. now /\ None \notin Int
      BY WindowAssumption DEF AttendedInv, TypeOK
    <3> QED
      BY <2>2, <3>1
  <2> QED
    BY <2>1, <2>2, <2>4, <2>6, <2>7
<1>2. k \in Known(windows[w].shape) /\ DueOf(w, k, t, n)
  BY <1>1 DEF DueOf, Open, NoticeOf
<1>3. Handled(n, t)
  BY <1>2 DEF AttendedInv, Attended
<1> QED
  BY <1>3 DEF Handled

\* A pass that starts now takes all that is due.
LEMMA DueIsTaken ==
    ASSUME TypeOK, NEW w \in Window, NEW k \in Known(windows[w].shape), NEW n,
           DueOf(w, k, now, n)
    PROVE  n \in Due
<1> DEFINE shape == windows[w].shape
<1>1. Charted(shape) /\ Within(shape, now)
  BY AllCharted DEF TypeOK
<1>2. /\ Start(shape, k) \in Nat /\ shape.duration \in Nat /\ Grace \in Nat /\ now \in Nat
      /\ End(shape, k) = Start(shape, k) + shape.duration /\ k \in Nat /\ k # None
  BY <1>1, InOrder, ShapeParts, WindowAssumption, MaintenanceAssumption DEF TypeOK, End
<1>3. Open(w) /\ Apart(shape) /\ Kept(shape, k)
  BY DEF DueOf
<1>4. CASE n = NoticeOf(w, k, "started") /\ Start(shape, k) <= now /\ now < End(shape, k)
  <2>1. Current(shape, now) = k
    <3>1. now <= End(shape, k) + Grace
      BY <1>2, <1>4
    <3> QED
      BY <1>1, <1>3, <1>4, <3>1, FoundInTime
  <2> QED
    BY <1>2, <1>3, <1>4, <2>1 DEF Due
<1>5. CASE n = NoticeOf(w, k, "completed") /\ End(shape, k) <= now /\ now <= End(shape, k) + Grace
  <2>1. Completed(shape, now) = k
    <3>1. Start(shape, k) <= now
      BY <1>2, <1>5
    <3> QED
      BY <1>1, <1>3, <1>5, <3>1, FoundInTime
  <2> QED
    BY <1>2, <1>3, <1>5, <2>1 DEF Due
<1> QED
  BY <1>4, <1>5 DEF DueOf

\* Every step attends to what is due.
LEMMA AttendedStep ==
    ASSUME AttendedInv, [Next]_vars, TypeOK'
    PROVE  Attended' /\ Prompt'
<1>0. /\ now \in Nat /\ MaxTime \in Nat /\ MaxLag \in Nat /\ windows \in [Window -> Row]
      /\ changed \in [Window -> 0 .. now] /\ passes \in [Scheduler -> Pass] /\ Attended /\ Prompt
  BY MaintenanceAssumption DEF AttendedInv, TypeOK
<1>1. ASSUME NEW w \in Window, NEW row, Writes(w, row)
      PROVE  changed'[w] = now
             /\ \A v \in Window \ {w} : windows'[v] = windows[v] /\ changed'[v] = changed[v]
  BY <1>0, <1>1 DEF Writes
<1>2. ASSUME NEW w \in Window, NEW shape \in Shapes, Create(w, shape) PROVE Attended' /\ Prompt'
  <2>1. Writes(w, [status |-> "open", shape |-> shape])
        /\ UNCHANGED <<now, events, passes, passed, failed, told>>
    BY <1>2 DEF Create
  <2>2. changed'[w] = now
        /\ \A v \in Window \ {w} : windows'[v] = windows[v] /\ changed'[v] = changed[v]
    BY <1>1, <2>1
  <2> QED
    BY <1>0, <2>1, <2>2, StillAttended DEF Prompt
<1>3. ASSUME NEW w \in Window, NEW shape \in Shapes, NEW e \in Editor, ReadWindow(e, w, shape)
      PROVE  Attended' /\ Prompt'
  <2>1. UNCHANGED <<now, windows, changed, events, passes, passed, failed, told>>
    BY <1>3 DEF ReadWindow
  <2> QED
    BY <1>0, <2>1, StillAttended DEF Prompt
<1>4. ASSUME NEW e \in Editor, WriteWindow(e) PROVE Attended' /\ Prompt'
  <2> DEFINE w == editors[e].window
  <2>1. w \in Window /\ UNCHANGED <<now, events, passes, passed, failed, told>>
    BY <1>4 DEF WriteWindow, AttendedInv, TypeOK, Edit
  <2>2. /\ \A v \in Window \ {w} : windows'[v] = windows[v] /\ changed'[v] = changed[v]
        /\ \/ windows'[w] = windows[w] /\ changed'[w] = changed[w]
           \/ changed'[w] = now
    <3>1. \/ Writes(w, [windows[w] EXCEPT !.shape = editors[e].shape])
          \/ UNCHANGED <<windows, changed>>
      BY <1>4 DEF WriteWindow
    <3> HIDE DEF w
    <3>2. CASE Writes(w, [windows[w] EXCEPT !.shape = editors[e].shape])
      BY <1>1, <2>1, <3>2
    <3>3. CASE UNCHANGED <<windows, changed>>
      BY <3>3
    <3> QED
      BY <3>1, <3>2, <3>3
  <2> HIDE DEF w
  <2> QED
    BY <1>0, <2>1, <2>2, StillAttended DEF Prompt
<1>5. ASSUME NEW w \in Window, Cancel(w) PROVE Attended' /\ Prompt'
  <2>1. Writes(w, [windows[w] EXCEPT !.status = "cancelled"])
        /\ UNCHANGED <<now, events, passes, passed, failed, told>>
    BY <1>5 DEF Cancel
  <2>2. changed'[w] = now
        /\ \A v \in Window \ {w} : windows'[v] = windows[v] /\ changed'[v] = changed[v]
    BY <1>1, <2>1
  <2> QED
    BY <1>0, <2>1, <2>2, StillAttended DEF Prompt
<1>6. ASSUME NEW w \in Window, Remove(w) PROVE Attended' /\ Prompt'
  <2>1. Writes(w, [windows[w] EXCEPT !.status = "removed"]) /\ events' \subseteq events
        /\ UNCHANGED <<now, passes, passed, failed, told>>
    BY <1>6 DEF Remove
  <2>2. changed'[w] = now
        /\ \A v \in Window \ {w} : windows'[v] = windows[v] /\ changed'[v] = changed[v]
    BY <1>1, <2>1
  <2> QED
    BY <1>0, <2>1, <2>2, StillAttended DEF Prompt
<1>7. ASSUME NEW s \in Scheduler, StartPass(s) PROVE Attended' /\ Prompt'
  <2>1. /\ passes[s].todo = {} /\ passed' = now
        /\ passes' = [passes EXCEPT ![s] = IF Due = {} THEN Resting ELSE [at |-> now, todo |-> Due]]
        /\ UNCHANGED <<now, windows, events, changed, failed, told>>
    BY <1>7 DEF StartPass
  <2>2. ASSUME NEW n, NEW t, Handled(n, t) PROVE Handled(n, t)'
    <3> SUFFICES ASSUME NEW r \in Scheduler, passes[r].at = t /\ n \in passes[r].todo
                 PROVE  passes'[r].at = t /\ n \in passes'[r].todo
      BY <2>1, <2>2 DEF Handled
    <3>1. r # s
      BY <2>1
    <3> QED
      BY <1>0, <2>1, <3>1
  <2>3. ASSUME NEW n \in Due, NEW t, t = now PROVE Handled(n, t)'
    <3>1. passes'[s] = [at |-> now, todo |-> Due]
      BY <1>0, <2>1, <2>3
    <3>2. passes'[s].at = t /\ n \in passes'[s].todo
      BY <2>3, <3>1
    <3> QED
      BY <3>2 DEF Handled
  <2>4. Attended'
    <3> SUFFICES ASSUME NEW w \in Window, NEW k \in Known(windows'[w].shape), NEW t \in Nat,
                        NEW n \in Notice, DueOf(w, k, t, n)', t < now \/ t = now
                 PROVE  Handled(n, t)'
      BY <2>1 DEF Attended
    <3>1. k \in Known(windows[w].shape) /\ DueOf(w, k, t, n)
      BY <2>1 DEF DueOf, Open, NoticeOf
    <3>2. CASE t < now
      BY <1>0, <2>2, <3>1, <3>2 DEF Attended
    <3>3. CASE t = now
      <4>1. n \in Due
        BY <3>1, <3>3, DueIsTaken DEF AttendedInv
      <4> QED
        BY <2>3, <3>3, <4>1
    <3> QED
      BY <3>2, <3>3
  <2>5. Prompt'
    <3>1. \A r \in Scheduler \ {s} : passes'[r] = passes[r]
      BY <1>0, <2>1
    <3>2. passes'[s].todo # {} => passes'[s].at = now
      BY <1>0, <2>1 DEF Resting
    <3> QED
      BY <1>0, <2>1, <3>1, <3>2 DEF Prompt
  <2> QED
    BY <2>4, <2>5
<1>8. ASSUME NEW s \in Scheduler, PassFails(s) PROVE Attended' /\ Prompt'
  <2>1. /\ passes' = [passes EXCEPT ![s] = Resting] /\ failed' = failed \cup {passes[s].at}
        /\ UNCHANGED <<now, windows, events, passed, changed, told>>
    BY <1>8 DEF PassFails
  <2>2. \A r \in Scheduler : r # s => passes'[r] = passes[r]
    BY <1>0, <2>1
  <2>3. ASSUME NEW n, NEW t, Handled(n, t) PROVE Handled(n, t)'
    BY <2>1, <2>2, <2>3 DEF Handled
  <2>4. Attended'
    BY <1>0, <2>1, <2>3 DEF Attended, DueOf, Open, NoticeOf
  <2>5. Prompt'
    BY <1>0, <2>1, <2>2 DEF Prompt, Resting
  <2> QED
    BY <2>4, <2>5
<1>9. ASSUME NEW s \in Scheduler, NEW m \in passes[s].todo, Emit(s, m) PROVE Attended' /\ Prompt'
  <2> DEFINE rest == [at |-> passes[s].at, todo |-> passes[s].todo \ {m}]
  <2>1. UNCHANGED <<now, windows, passed, changed>>
    BY <1>9 DEF Emit
  <2>2. CASE ~Stored(m.window)
    <3>1. /\ passes' = [passes EXCEPT ![s] = Resting] /\ failed' = failed \cup {passes[s].at}
          /\ UNCHANGED <<events, told>>
      BY <1>9, <2>2 DEF Emit
    <3>2. \A r \in Scheduler : r # s => passes'[r] = passes[r]
      BY <1>0, <3>1
    <3>3. ASSUME NEW n, NEW t, Handled(n, t) PROVE Handled(n, t)'
      BY <3>1, <3>2, <3>3 DEF Handled
    <3>4. Attended'
      BY <1>0, <2>1, <3>3 DEF Attended, DueOf, Open, NoticeOf
    <3>5. Prompt'
      BY <1>0, <2>1, <3>1, <3>2 DEF Prompt, Resting
    <3> QED
      BY <3>4, <3>5
  <2>3. CASE Stored(m.window)
    <3>1. /\ passes' = [passes EXCEPT ![s] = IF passes[s].todo = {m} THEN Resting ELSE rest]
          /\ events' = events \cup {m} /\ failed' = failed
          /\ told' = IF IsNew(m) THEN told \cup {m} ELSE told
      BY <1>9, <2>3 DEF Emit
    <3>2. \A r \in Scheduler : r # s => passes'[r] = passes[r]
      BY <1>0, <3>1
    <3>3. told \subseteq told' /\ m \in told'
      BY <1>0, <3>1 DEF IsNew, Prompt
    <3>4. passes[s].todo # {m} => passes'[s] = rest
      BY <1>0, <3>1
    <3>5. ASSUME NEW n, NEW t, Handled(n, t) PROVE Handled(n, t)'
      <4> SUFFICES ASSUME passes[s].at = t, n \in passes[s].todo, n # m
                   PROVE  passes'[s].at = t /\ n \in passes'[s].todo
        BY <3>1, <3>2, <3>3, <3>5 DEF Handled
      <4>1. passes'[s] = rest
        BY <3>4
      <4> QED
        BY <4>1
    <3>6. Attended'
      BY <1>0, <2>1, <3>5 DEF Attended, DueOf, Open, NoticeOf
    <3>7. Prompt'
      <4>1. events' \subseteq told'
        BY <1>0, <3>1, <3>3 DEF Prompt
      <4>2. passes'[s].todo # {} => passes'[s].at = passes[s].at
        <5>1. CASE passes[s].todo = {m}
          BY <1>0, <3>1, <5>1 DEF Resting
        <5>2. CASE passes[s].todo # {m}
          BY <3>4, <5>2
        <5> QED
          BY <5>1, <5>2
      <4>3. now - passes[s].at <= MaxLag
        BY <1>0 DEF Prompt
      <4> HIDE DEF rest
      <4> QED
        BY <1>0, <2>1, <3>2, <4>1, <4>2, <4>3 DEF Prompt
    <3> QED
      BY <3>6, <3>7
  <2> QED
    BY <2>2, <2>3
<1>10. ASSUME Tick PROVE Attended' /\ Prompt'
  <2>1. /\ passed = now /\ now' = now + 1
        /\ \A s \in Scheduler : passes[s].todo # {} => now - passes[s].at < MaxLag
        /\ UNCHANGED <<windows, events, passes, passed, changed, failed, told>>
    BY <1>10 DEF Tick
  <2>2. Attended'
    <3> SUFFICES ASSUME NEW w \in Window, NEW k \in Known(windows'[w].shape), NEW t \in Nat,
                        NEW n \in Notice, DueOf(w, k, t, n)', t < now + 1 \/ t = passed
                 PROVE  Handled(n, t)'
      BY <2>1 DEF Attended
    <3>1. k \in Known(windows[w].shape) /\ DueOf(w, k, t, n)
      BY <2>1 DEF DueOf, Open, NoticeOf
    <3>2. t < now \/ t = passed
      BY <1>0, <2>1
    <3>3. Handled(n, t)
      BY <1>0, <3>1, <3>2 DEF Attended
    <3> QED
      BY <2>1, <3>3 DEF Handled
  <2>3. Prompt'
    <3>1. \A s \in Scheduler : passes[s].at \in Nat
      BY <1>0 DEF Pass
    <3> QED
      BY <1>0, <2>1, <3>1 DEF Prompt
  <2> QED
    BY <2>2, <2>3
<1>11. CASE UNCHANGED vars
  <2>1. UNCHANGED <<now, windows, events, passes, passed, changed, failed, told>>
    BY <1>11 DEF vars
  <2> QED
    BY <1>0, <2>1 DEF Attended, Prompt, Handled, DueOf, Open, NoticeOf
<1> QED
  BY <1>2, <1>3, <1>4, <1>5, <1>6, <1>7, <1>8, <1>9, <1>10, <1>11 DEF Next

\* What is attended to is not missed: a pass that began while the notice was due has ended.
LEMMA AttendedIsTold ==
    ASSUME AttendedInv
    PROVE  NothingMissed
<1> SUFFICES ASSUME NEW w \in Window, NEW k \in Numbers(windows[w].shape, now),
                    Open(w), Apart(windows[w].shape), Kept(windows[w].shape, k),
                    changed[w] < Start(windows[w].shape, k)
             PROVE  LET start == Start(windows[w].shape, k)
                        end   == End(windows[w].shape, k)
                    IN  /\ (now >= end + MaxLag /\ ~(start .. end - 1 \subseteq failed))
                              => NoticeOf(w, k, "started") \in told
                        /\ (now > end + Grace + MaxLag /\ ~(end .. end + Grace \subseteq failed))
                              => NoticeOf(w, k, "completed") \in told
  BY DEF NothingMissed
<1> DEFINE shape == windows[w].shape
           start == Start(shape, k)
           end   == End(shape, k)
<1>1. Charted(shape) /\ Within(shape, now)
  BY AllCharted DEF AttendedInv, TypeOK
<1>2. k \in Known(shape)
  BY <1>1, InOrder
<1>3. /\ start \in Nat /\ shape.duration \in Nat /\ Grace \in Nat /\ MaxLag \in Nat /\ now \in Nat
      /\ end = start + shape.duration
  BY <1>1, <1>2, InOrder, ShapeParts, WindowAssumption, MaintenanceAssumption
     DEF AttendedInv, TypeOK, End
<1>4. \A event \in {"started", "completed"} : NoticeOf(w, k, event) \in Notice
  BY <1>3 DEF NoticeOf, Notice
<1>5. \A s \in Scheduler : passes[s].todo # {} => passes[s].at \in Nat /\ now - passes[s].at <= MaxLag
  BY DEF AttendedInv, Prompt, TypeOK, Pass
<1>6. ASSUME NEW n \in Notice, NEW t \in Nat, DueOf(w, k, t, n), t \notin failed, now - t > MaxLag
      PROVE  n \in told
  <2>1. Handled(n, t)
    <3>1. t < now
      BY <1>3, <1>6
    <3> QED
      BY <1>2, <1>6, <3>1 DEF AttendedInv, Attended
  <2>2. \A s \in Scheduler : passes[s].at = t => n \notin passes[s].todo
    BY <1>3, <1>5, <1>6
  <2> QED
    BY <1>6, <2>1, <2>2 DEF Handled
<1>7. ASSUME now >= end + MaxLag, ~(start .. end - 1 \subseteq failed)
      PROVE  NoticeOf(w, k, "started") \in told
  <2>1. PICK t \in start .. end - 1 : t \notin failed
    BY <1>7
  <2> HIDE DEF start, end
  <2>2. t \in Nat /\ start <= t /\ t < end /\ now - t > MaxLag
    BY <1>3, <1>7, <2>1
  <2>3. DueOf(w, k, t, NoticeOf(w, k, "started"))
    BY <2>2 DEF DueOf, start, end
  <2> QED
    BY <1>4, <1>6, <2>1, <2>2, <2>3
<1>8. ASSUME now > end + Grace + MaxLag, ~(end .. end + Grace \subseteq failed)
      PROVE  NoticeOf(w, k, "completed") \in told
  <2>1. PICK t \in end .. end + Grace : t \notin failed
    BY <1>8
  <2> HIDE DEF start, end
  <2>2. t \in Nat /\ end <= t /\ t <= end + Grace /\ now - t > MaxLag
    BY <1>3, <1>8, <2>1
  <2>3. DueOf(w, k, t, NoticeOf(w, k, "completed"))
    BY <2>2 DEF DueOf, start, end
  <2> QED
    BY <1>4, <1>6, <2>1, <2>2, <2>3
<1> QED
  BY <1>7, <1>8

\* An occurrence of a window that nobody touches is announced as started unless every pass
\* that could have done it failed, and so is its completion: whatever the recurrence, the
\* number of processes and the time passes take, and whatever becomes of other windows
\* (emitLifecycleEvents).
THEOREM NoneMissed == Spec => []NothingMissed
<1>1. Init => Attended /\ Prompt
  <2> SUFFICES ASSUME Init PROVE Attended /\ Prompt
    OBVIOUS
  <2>1. \A t \in Nat : ~(t < now \/ t = passed)
    BY WindowAssumption DEF Init
  <2> QED
    BY <2>1 DEF Init, Attended, Prompt, Resting
<1>2. AttendedInv /\ [Next]_vars => AttendedInv'
  <2>1. AttendedInv /\ [Next]_vars => TypeOK' /\ PassesBegan'
    BY TypeStep DEF AttendedInv
  <2> QED
    BY <2>1, AttendedStep DEF AttendedInv
<1>3. AttendedInv => NothingMissed
  BY AttendedIsTold
<1>4. (TypeOK /\ PassesBegan) /\ Attended /\ Prompt => AttendedInv
  BY DEF AttendedInv
<1> QED
  BY <1>1, <1>2, <1>3, <1>4, TypesInvariant, PTL DEF Spec

=============================================================================
