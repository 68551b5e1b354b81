------------------------- MODULE AnomalyRulesProofs -------------------------
(***************************************************************************)
(* Proofs about AnomalyRules: what the interpolated percentile bounds,     *)
(* that the kept state is a function of the events it stands for, through  *)
(* disorder and recoveries, and that no alert is lost or repeated past a   *)
(* checkpoint.                                                             *)
(***************************************************************************)
EXTENDS AnomalyRules, OrderLemmas, SequenceTheorems

-----------------------------------------------------------------------------
(* sorted() and percentile_99 *)

ValuesOf(values) == {values[i] : i \in DOMAIN values}

\* The places counted by order statistics are finitely many.
LEMMA CountsAreFinite ==
    ASSUME NEW values \in Seq(Nat), NEW v
    PROVE  /\ DOMAIN values = 1..Len(values) /\ Len(values) \in Nat
           /\ IsFiniteSet(AtMost(values, v)) /\ Cardinality(AtMost(values, v)) \in Nat
           /\ IsFiniteSet(Under(values, v)) /\ Cardinality(Under(values, v)) \in Nat
<1>1. DOMAIN values = 1..Len(values) /\ Len(values) \in Nat
  OBVIOUS
<1>2. IsFiniteSet(DOMAIN values)
  BY <1>1, FS_Interval
<1>3. AtMost(values, v) \subseteq DOMAIN values /\ Under(values, v) \subseteq DOMAIN values
  BY DEF AtMost, Under
<1>. QED  BY <1>1, <1>2, <1>3, FS_Subset, FS_CardinalityType

\* Every place of the sorted list has a value.
LEMMA PlaceHasValue ==
    ASSUME NEW values \in Seq(Nat), NEW k \in 1..Len(values)
    PROVE  \E v \in ValuesOf(values) :
              Cardinality(Under(values, v)) < k /\ k <= Cardinality(AtMost(values, v))
<1>. DEFINE V == ValuesOf(values)
            n == Len(values)
            D == DOMAIN values
<1>1. D = 1..n /\ n \in Nat /\ k \in Int
  OBVIOUS
<1>2. \A i \in D : values[i] \in Nat /\ values[i] \in V
  BY DEF ValuesOf
<1>3. V \in SUBSET Int /\ V \in SUBSET Nat
  BY <1>2 DEF ValuesOf
<1>. HIDE DEF n, D
<1>4. IsFiniteSet(D) /\ Cardinality(D) = n
  BY <1>1, FS_Interval
<1>5. IsFiniteSet(V)
  BY <1>4, FiniteImage DEF ValuesOf, D
<1>. HIDE DEF V
<1>. DEFINE T == {v \in V : k <= Cardinality(AtMost(values, v))}
<1>6. T # {}
  <2>1. V # {}
    BY <1>1, <1>2 DEF n
  <2>2. PICK w \in V : \A v \in V : v <= w
    BY <1>3, <1>5, <2>1, LargestInt
  <2>3. AtMost(values, w) = D
    BY <1>2, <2>2 DEF AtMost, D
  <2>. QED  BY <1>4, <2>2, <2>3 DEF n
<1>7. PICK v \in T : \A w \in T : v <= w
  BY <1>3, <1>6, LeastNat
<1>8. v \in V /\ v \in Nat /\ k <= Cardinality(AtMost(values, v))
  BY <1>3, <1>7
<1>9. CASE Under(values, v) = {}
  <2>1. Cardinality(Under(values, v)) = 0
    BY <1>9, FS_EmptySet
  <2>. QED  BY <1>8, <2>1 DEF V
<1>10. CASE Under(values, v) # {}
  <2>. DEFINE W == {w \in V : w < v}
  <2>1. W \in SUBSET Int /\ IsFiniteSet(W)
    BY <1>3, <1>5, FS_Subset
  <2>2. W # {}
    BY <1>2, <1>10 DEF Under, D
  <2>3. PICK w \in W : \A u \in W : u <= w
    BY <2>1, <2>2, LargestInt
  <2>4. AtMost(values, w) = Under(values, v)
    BY <1>2, <1>3, <1>8, <2>3 DEF AtMost, Under, D
  <2>5. ~(k <= Cardinality(AtMost(values, w)))
    BY <1>3, <1>7, <1>8, <2>3
  <2>6. Cardinality(Under(values, v)) \in Nat
    BY CountsAreFinite
  <2>. QED  BY <1>1, <1>8, <2>4, <2>5, <2>6 DEF V
<1>. QED  BY <1>9, <1>10

\* What a place of the sorted list says about the values, and that it is sorted.
LEMMA SortedList ==
    ASSUME NEW values \in Seq(Nat)
    PROVE  LET o == Ordered(values) IN
           /\ \A k \in 1..Len(values) :
                 /\ o[k] \in Nat
                 /\ \E i \in 1..Len(values) : o[k] = values[i]
                 /\ Cardinality(Under(values, o[k])) < k
                 /\ k <= Cardinality(AtMost(values, o[k]))
           /\ \A j, k \in 1..Len(values) : j <= k => o[j] <= o[k]
<1>. DEFINE o == Ordered(values)
<1>0. DOMAIN values = 1..Len(values) /\ Len(values) \in Nat
      /\ \A i \in 1..Len(values) : values[i] \in Nat
  OBVIOUS
<1>1. ASSUME NEW k \in 1..Len(values)
      PROVE  /\ o[k] \in ValuesOf(values)
             /\ Cardinality(Under(values, o[k])) < k
             /\ k <= Cardinality(AtMost(values, o[k]))
  <2>1. o[k] = CHOOSE v \in ValuesOf(values) :
                  Cardinality(Under(values, v)) < k /\ k <= Cardinality(AtMost(values, v))
    BY <1>0 DEF Ordered, ValuesOf
  <2>. HIDE DEF o
  <2>. QED  BY <2>1, PlaceHasValue
<1>. HIDE DEF o
<1>2. \A k \in 1..Len(values) : o[k] \in Nat /\ \E i \in 1..Len(values) : o[k] = values[i]
  BY <1>0, <1>1 DEF ValuesOf
<1>3. ASSUME NEW j \in 1..Len(values), NEW k \in 1..Len(values), j <= k, ~(o[j] <= o[k])
      PROVE  FALSE
  <2>. DEFINE u == o[k]
              v == o[j]
  <2>1. u \in Nat /\ v \in Nat
    BY <1>2, Zenon
  <2>2. ~(v <= u)
    BY <1>3
  <2>. HIDE DEF u, v
  <2>3. u < v
    BY <2>1, <2>2
  <2>4. o[k] \in Nat /\ o[j] \in Nat /\ o[k] < o[j]
    BY <2>1, <2>3 DEF u, v
  <2>5. AtMost(values, o[k]) \subseteq Under(values, o[j])
    BY <1>0, <2>4 DEF AtMost, Under
  <2>6. Cardinality(AtMost(values, o[k])) <= Cardinality(Under(values, o[j]))
    BY <2>5, CountsAreFinite, FS_Subset
  <2>7. /\ Cardinality(AtMost(values, o[k])) \in Nat
        /\ Cardinality(Under(values, o[j])) \in Nat
    BY CountsAreFinite
  <2>. QED  BY <1>0, <1>1, <1>3, <2>6, <2>7
<1>. QED  BY <1>1, <1>2, <1>3 DEF o

\* A hundredth fraction of a value, in integers.
LEMMA Fraction ==
    ASSUME NEW x \in Nat, NEW f \in 0..99
    PROVE  0 <= x * f /\ x * f <= 100 * x
OBVIOUS

\* percentile_99 is between the values of the two nearest ranks; less than a
\* hundred hundredths are lost by rounding the rank down.
LEMMA PercentileBetween ==
    ASSUME NEW values \in Seq(Nat), Len(values) # 0
    PROVE  \E lower, upper \in 1..Len(values) :
              /\ Percentile(values) \in Int
              /\ 100 * Ordered(values)[lower] <= Percentile(values)
              /\ Percentile(values) <= 100 * Ordered(values)[upper]
              /\ 100 * (Len(values) - lower) < (Len(values) - 1) * (100 - Percent) + 100
<1>. DEFINE n == Len(values)
            m == (n - 1) * Percent
            o == Ordered(values)
            lower == m \div 100
            upper == IF lower + 1 < n - 1 THEN lower + 1 ELSE n - 1
            fraction == m % 100
<1>0. n \in Nat /\ n >= 1 /\ Percent \in Nat /\ Percent <= 100
  BY RulesAssumption
<1>1. /\ \A k \in 1..n : o[k] \in Nat
      /\ \A j, k \in 1..n : j <= k => o[j] <= o[k]
  BY SortedList
<1>2. Percentile(values) = 100 * o[lower + 1] + (o[upper + 1] - o[lower + 1]) * fraction
  BY DEF Percentile
<1>. HIDE DEF n, o
<1>3. m \in Nat /\ m <= 100 * (n - 1) /\ (n - 1) * (100 - Percent) = 100 * (n - 1) - m
  BY <1>0
<1>. HIDE DEF m
<1>4. /\ lower \in Nat /\ fraction \in 0..99
      /\ m = 100 * lower + fraction
  BY <1>3
<1>. HIDE DEF lower, fraction
<1>5. /\ lower + 1 \in 1..n /\ upper + 1 \in 1..n /\ lower <= upper
  BY <1>0, <1>3, <1>4
<1>. HIDE DEF upper
<1>6. o[lower + 1] \in Nat /\ o[upper + 1] \in Nat /\ o[lower + 1] <= o[upper + 1]
  <2>1. lower + 1 <= upper + 1
    BY <1>0, <1>4, <1>5 DEF upper
  <2>. QED  BY <1>1, <1>5, <2>1, Zenon
<1>7. /\ 0 <= (o[upper + 1] - o[lower + 1]) * fraction
      /\ (o[upper + 1] - o[lower + 1]) * fraction <= 100 * (o[upper + 1] - o[lower + 1])
      /\ (o[upper + 1] - o[lower + 1]) * fraction \in Int
  <2>. DEFINE x == o[upper + 1] - o[lower + 1]
  <2>1. x \in Nat
    BY <1>6
  <2>. HIDE DEF x
  <2>2. 0 <= x * fraction /\ x * fraction <= 100 * x /\ x * fraction \in Int
    BY <1>4, <2>1, Fraction
  <2>. QED  BY <2>2 DEF x
<1>. DEFINE part == (o[upper + 1] - o[lower + 1]) * fraction
<1>8. part \in Int /\ 0 <= part /\ part <= 100 * (o[upper + 1] - o[lower + 1])
  BY <1>7
<1>9. Percentile(values) = 100 * o[lower + 1] + part
  BY <1>2
<1>. HIDE DEF part
<1>10. /\ Percentile(values) \in Int
       /\ 100 * o[lower + 1] <= Percentile(values)
       /\ Percentile(values) <= 100 * o[upper + 1]
  BY <1>6, <1>8, <1>9
<1>11. 100 * (n - (lower + 1)) < (n - 1) * (100 - Percent) + 100
  BY <1>0, <1>3, <1>4
<1>. QED  BY <1>5, <1>10, <1>11 DEF n, o

-----------------------------------------------------------------------------
(* The kept state is a function of the events it stands for *)

\* The time and amount of an event.
LEMMA PayloadFacts ==
    /\ \A x \in Tagged : /\ TimeOf(x) \in Nat /\ TimeOf(x) \in Times
                        /\ AmountOf(x) \in Nat /\ AmountOf(x) \in {p[2] : p \in Payloads}
    /\ \A x \in Events : /\ TimeOf(x) \in Nat /\ TimeOf(x) \in Times
                        /\ AmountOf(x) \in Nat /\ AmountOf(x) \in {p[2] : p \in Payloads}
BY RulesAssumption DEF Tagged, Events, TimeOf, AmountOf, Times

\* The amounts of the last HistoryLimit events.
Shorter(n) == IF n <= HistoryLimit THEN n ELSE HistoryLimit
HistoryOf(events) ==
    [k \in 1..Shorter(Len(events)) |->
        AmountOf(events[Len(events) - Shorter(Len(events)) + k])]

\* The list of arrivals with one more.
LEMMA AppendFacts ==
    ASSUME NEW events \in Seq(Tagged), NEW x \in Tagged
    PROVE  /\ Append(events, x) \in Seq(Tagged)
           /\ Len(Append(events, x)) = Len(events) + 1 /\ Len(events) \in Nat
           /\ DOMAIN events = 1..Len(events)
           /\ DOMAIN Append(events, x) = 1..(Len(events) + 1)
           /\ \A i \in 1..Len(events) : Append(events, x)[i] = events[i] /\ events[i] \in Tagged
           /\ Append(events, x)[Len(events) + 1] = x
OBVIOUS

\* An arrival keeps exactly the times that survive it.
LEMMA TimesStep ==
    ASSUME NEW events \in Seq(Tagged), NEW x \in Tagged
    PROVE  {entry \in ExactTimes(events) : entry[2] + VelocityWindow >= TimeOf(x)}
              \cup {<<Len(events) + 1, TimeOf(x)>>}
              = ExactTimes(Append(events, x))
<1>. DEFINE n == Len(events)
            longer == Append(events, x)
            W == VelocityWindow
<1>1. /\ n \in Nat /\ DOMAIN events = 1..n /\ DOMAIN longer = 1..(n + 1)
      /\ \A i \in 1..n : longer[i] = events[i] /\ TimeOf(events[i]) \in Nat
      /\ longer[n + 1] = x /\ TimeOf(x) \in Nat /\ W \in Nat
  BY AppendFacts, PayloadFacts, RulesAssumption
<1>. HIDE DEF n, longer
<1>2. ASSUME NEW i \in 1..n
      PROVE  i \in Surviving(longer) <=>
                i \in Surviving(events) /\ TimeOf(events[i]) + W >= TimeOf(x)
  <2>1. i \in 1..(n + 1) /\ n + 1 > i /\ n + 1 \in 1..(n + 1)
    BY <1>1
  <2>2. \A j \in 1..(n + 1) : j = n + 1 \/ j \in 1..n
    BY <1>1
  <2>3. \A j \in 1..n : j \in 1..(n + 1)
    BY <1>1
  <2>4. i \in Surviving(longer) <=>
           \A j \in 1..(n + 1) : j > i => TimeOf(longer[j]) <= TimeOf(longer[i]) + W
    BY <1>1, <2>1 DEF Surviving
  <2>5. i \in Surviving(events) <=>
           \A j \in 1..n : j > i => TimeOf(events[j]) <= TimeOf(events[i]) + W
    BY <1>1 DEF Surviving
  <2>6. ASSUME i \in Surviving(longer)
        PROVE  i \in Surviving(events) /\ TimeOf(events[i]) + W >= TimeOf(x)
    <3>1. TimeOf(x) <= TimeOf(events[i]) + W
      BY <1>1, <2>1, <2>4, <2>6
    <3>2. \A j \in 1..n : j > i => TimeOf(events[j]) <= TimeOf(events[i]) + W
      BY <1>1, <2>3, <2>4, <2>6
    <3>. QED  BY <1>1, <2>5, <3>1, <3>2
  <2>7. ASSUME i \in Surviving(events), TimeOf(events[i]) + W >= TimeOf(x)
        PROVE  i \in Surviving(longer)
    <3>1. ASSUME NEW j \in 1..(n + 1), j > i
          PROVE  TimeOf(longer[j]) <= TimeOf(longer[i]) + W
      <4>1. CASE j = n + 1  BY <1>1, <2>7, <4>1
      <4>2. CASE j \in 1..n  BY <1>1, <2>5, <2>7, <3>1, <4>2
      <4>. QED  BY <2>2, <4>1, <4>2
    <3>. QED  BY <2>4, <3>1
  <2>. QED  BY <2>6, <2>7
<1>3. n + 1 \in Surviving(longer)
  BY <1>1 DEF Surviving
<1>4. Surviving(longer) = {i \in Surviving(events) : TimeOf(events[i]) + W >= TimeOf(x)} \cup {n + 1}
  <2>1. Surviving(longer) \subseteq 1..(n + 1) /\ Surviving(events) \subseteq 1..n
    BY <1>1 DEF Surviving
  <2>. QED  BY <1>1, <1>2, <1>3, <2>1
<1>5. \A i \in Surviving(events) : longer[i] = events[i]
  BY <1>1 DEF Surviving
<1>. DEFINE kept == {i \in Surviving(events) : TimeOf(events[i]) + W >= TimeOf(x)}
            oldTimes == {entry \in ExactTimes(events) : entry[2] + W >= TimeOf(x)}
<1>6. ExactTimes(longer) = {<<i, TimeOf(longer[i])>> : i \in kept} \cup {<<n + 1, TimeOf(x)>>}
  BY <1>1, <1>4 DEF ExactTimes
<1>7. {<<i, TimeOf(longer[i])>> : i \in kept} = {<<i, TimeOf(events[i])>> : i \in kept}
  BY <1>5
<1>8. oldTimes = {<<i, TimeOf(events[i])>> : i \in kept}
  BY DEF ExactTimes
<1>. QED  BY <1>6, <1>7, <1>8 DEF n, longer

\* The kept amounts are as many as their limit allows.
LEMMA HistoryTyped ==
    ASSUME NEW events \in Seq(Tagged)
    PROVE  /\ HistoryOf(events) \in Seq(Nat)
           /\ HistoryOf(events) \in Seq({p[2] : p \in Payloads})
           /\ Len(HistoryOf(events)) = Shorter(Len(events))
           /\ Len(HistoryOf(events)) <= HistoryLimit
<1>. DEFINE n == Len(events)
            m == Shorter(n)
            h == HistoryOf(events)
            A == {p[2] : p \in Payloads}
<1>0. n \in Nat /\ m \in Nat /\ m <= n /\ m <= HistoryLimit
  BY RulesAssumption DEF Shorter
<1>1. \A i \in 1..n : AmountOf(events[i]) \in Nat /\ AmountOf(events[i]) \in A
  BY PayloadFacts
<1>2. h = [k \in 1..m |-> AmountOf(events[n - m + k])]
  BY DEF HistoryOf
<1>. HIDE DEF n, A, h
<1>3. \A k \in 1..m : n - m + k \in 1..n
  BY <1>0
<1>. HIDE DEF m
<1>4. \A k \in 1..m : AmountOf(events[n - m + k]) \in Nat /\ AmountOf(events[n - m + k]) \in A
  BY <1>1, <1>3
<1>5. h \in [1..m -> Nat] /\ h \in [1..m -> A] /\ DOMAIN h = 1..m
  BY <1>2, <1>4
<1>6. h \in Seq(Nat) /\ h \in Seq(A) /\ Len(h) = m
  BY <1>0, <1>5
<1>. QED  BY <1>0, <1>6 DEF h, m, n, A

\* An arrival moves the history on by one.
LEMMA HistoryStep ==
    ASSUME NEW events \in Seq(Tagged), NEW x \in Tagged
    PROVE  Bounded(Append(HistoryOf(events), AmountOf(x))) = HistoryOf(Append(events, x))
<1>. DEFINE n == Len(events)
            m == Shorter(n)
            h == HistoryOf(events)
            longer == Append(events, x)
            h1 == Append(h, AmountOf(x))
<1>0. n \in Nat /\ m \in Nat /\ m <= n /\ m <= HistoryLimit /\ HistoryLimit \in Nat \ {0}
  BY RulesAssumption DEF Shorter
<1>1. /\ \A i \in 1..n : longer[i] = events[i]
      /\ longer[n + 1] = x /\ Len(longer) = n + 1 /\ AmountOf(x) \in Nat
  BY AppendFacts, PayloadFacts
<1>2. h = [k \in 1..m |-> AmountOf(events[n - m + k])]
  BY DEF HistoryOf
<1>. HIDE DEF n, longer
<1>3. \A k \in 1..m : n - m + k \in 1..n
  BY <1>0
<1>4. h \in Seq(Nat) /\ Len(h) = m
  BY HistoryTyped DEF n
<1>. HIDE DEF m, h
<1>5. /\ h1 \in Seq(Nat) /\ Len(h1) = m + 1
      /\ \A k \in 1..m : h1[k] = AmountOf(events[n - m + k])
      /\ h1[m + 1] = AmountOf(x)
  BY <1>0, <1>1, <1>2, <1>4
<1>. HIDE DEF h1
<1>6. \A k \in 1..(m + 1) : h1[k] = AmountOf(longer[n - m + k])
  <2>. TAKE k \in 1..(m + 1)
  <2>1. CASE k \in 1..m
    BY <1>1, <1>3, <1>5, <2>1
  <2>2. CASE k = m + 1
    <3>1. n - m + k = n + 1
      BY <1>0, <2>2
    <3>. QED  BY <1>1, <1>5, <2>2, <3>1
  <2>. QED  BY <1>0, <2>1, <2>2
<1>7. Bounded(h1) = HistoryOf(longer)
  <2>0. HistoryOf(longer) = [k \in 1..Shorter(n + 1) |-> AmountOf(longer[((n + 1) - Shorter(n + 1)) + k])]
    <3>1. Len(longer) = n + 1
      BY <1>1
    <3>. QED  BY <3>1, Zenon DEF HistoryOf
  <2>1. CASE m + 1 <= HistoryLimit
    <3>1. m = n /\ Shorter(n + 1) = n + 1
      BY <1>0, <2>1 DEF Shorter, m
    <3>2. Bounded(h1) = h1
      BY <1>5, <2>1 DEF Bounded
    <3>3. h1 = [k \in 1..(m + 1) |-> h1[k]]
      BY <1>5
    <3>4. \A k \in 1..(n + 1) : n - n + k = k /\ (n + 1) - (n + 1) + k = k
      BY <1>0
    <3>. QED  BY <1>6, <2>0, <3>1, <3>2, <3>3, <3>4
  <2>2. CASE m + 1 > HistoryLimit
    <3>1. m = HistoryLimit /\ Shorter(n + 1) = m
      BY <1>0, <2>2 DEF Shorter, m
    <3>2. Bounded(h1) = SubSeq(h1, 2, m + 1)
      BY <1>0, <1>5, <3>1 DEF Bounded
    <3>3. SubSeq(h1, 2, m + 1) = [k \in 1..m |-> h1[k + 1]]
      BY <1>0, <1>5
    <3>4. \A k \in 1..m : k + 1 \in 1..(m + 1) /\ n - m + (k + 1) = (n + 1) - m + k
      BY <1>0
    <3>. QED  BY <1>6, <2>0, <3>1, <3>2, <3>3, <3>4
  <2>. QED  BY <1>0, <2>1, <2>2
<1>. QED  BY <1>7 DEF h1, h, longer

-----------------------------------------------------------------------------
(* The inductive invariant *)

Exact(times, values, events) ==
    times = ExactTimes(events) /\ values = HistoryOf(events)

\* The events the topic holds are those of the state and those that may come
\* again; each has an offset of its own, also where ids are the same.
Numbered ==
    /\ IsFiniteSet(replay) /\ Known <= MaxEvents
    /\ \A i \in DOMAIN arrived : arrived[i].offset <= Known
    /\ \A event \in replay : event.offset <= Known
    /\ \A i, j \in DOMAIN arrived : arrived[i].offset = arrived[j].offset => i = j
    /\ \A e, f \in replay : e.offset = f.offset => e = f
    /\ \A i \in DOMAIN arrived, event \in replay : arrived[i].offset # event.offset

\* What a checkpoint covers was processed first.
SavedIsPrefix ==
    /\ Len(saved.arrived) <= Len(arrived)
    /\ \A i \in DOMAIN saved.arrived : saved.arrived[i] = arrived[i]

\* Every alert a checkpoint covers has its row.
SavedHaveRows ==
    \A i \in DOMAIN saved.arrived : \A tag \in saved.arrived[i].tags :
        rows[<<saved.arrived[i].id, tag>>] > 0

\* Alerts in front of the sink are for events no checkpoint covers.
UnwrittenAreNew ==
    \A k \in DOMAIN unwritten : \E i \in DOMAIN arrived :
        /\ i > Len(saved.arrived) /\ arrived[i].id = unwritten[k][1]
        /\ unwritten[k][2] \in arrived[i].tags

IInv ==
    /\ TypeOK
    /\ Exact(timestamps, amounts, arrived)
    /\ Exact(saved.timestamps, saved.amounts, saved.arrived)
    /\ Numbered /\ SavedIsPrefix
    /\ AlertsHaveRows /\ SavedHaveRows /\ UnwrittenAreNew

-----------------------------------------------------------------------------
(* What an arrival does *)

Stamped(event, tags) ==
    [offset |-> event.offset, id |-> event.id, payload |-> event.payload, tags |-> tags]

\* The event joins the state; the alerts for its tags go to the sink.
Arrival(event, tags, added) ==
    /\ timestamps' = Recent(TimeOf(event)) \cup {<<Len(arrived) + 1, TimeOf(event)>>}
    /\ amounts' = Bounded(Append(amounts, AmountOf(event)))
    /\ arrived' = Append(arrived, Stamped(event, tags))
    /\ replay' = replay \ {event}
    /\ unwritten' = unwritten \o added
    /\ UNCHANGED <<rows, saved, restarts>>
    /\ "ANOMALY_VELOCITY" \in tags <=> OverThreshold(timestamps')
    /\ "ANOMALY_AMOUNT" \in tags <=> OverPercentile(AmountOf(event))
    /\ \A tag \in tags : \E k \in DOMAIN added : added[k] = <<event.id, tag>>
    /\ \A k \in DOMAIN added : added[k][1] = event.id /\ added[k][2] \in tags

\* Process(event), written by what it adds: the event's tags and their alerts.
LEMMA ArrivalFacts ==
    ASSUME NEW event \in Events, Process(event)
    PROVE  \E tags \in SUBSET Tags, added \in Seq(Alerts) : Arrival(event, tags, added)
<1>. DEFINE times == Recent(TimeOf(event)) \cup {<<Len(arrived) + 1, TimeOf(event)>>}
            found == TagsFor(event, times)
            tags == {found[k] : k \in DOMAIN found}
            added == [k \in DOMAIN found |-> <<event.id, found[k]>>]
            velocity == OverThreshold(times)
            amount == OverPercentile(AmountOf(event))
<1>1. /\ timestamps' = times
      /\ amounts' = Bounded(Append(amounts, AmountOf(event)))
      /\ arrived' = Append(arrived, Stamped(event, tags))
      /\ replay' = replay \ {event}
      /\ unwritten' = unwritten \o added
      /\ UNCHANGED <<rows, saved, restarts>>
  BY DEF Process, Stamped
<1>2. found = (IF velocity THEN <<"ANOMALY_VELOCITY">> ELSE <<>>)
                 \o (IF amount THEN <<"ANOMALY_AMOUNT">> ELSE <<>>)
  BY DEF TagsFor
<1>. HIDE DEF times, found, velocity, amount
<1>3. ASSUME NEW a \in Tags, NEW b \in Tags PROVE <<a>> \o <<b>> = <<a, b>>
  <2>. DEFINE s == <<a>>
              t == <<b>>
              both == <<a, b>>
  <2>1. /\ s \in Seq(Tags) /\ Len(s) = 1 /\ s[1] = a
        /\ t \in Seq(Tags) /\ Len(t) = 1 /\ t[1] = b
        /\ both \in Seq(Tags) /\ Len(both) = 2 /\ both[1] = a /\ both[2] = b
    OBVIOUS
  <2>. HIDE DEF s, t, both
  <2>2. s \o t \in Seq(Tags) /\ Len(s \o t) = 2 /\ (s \o t)[1] = a /\ (s \o t)[2] = b
    BY <2>1
  <2>3. s \o t = both
    BY <2>1, <2>2, SeqEqual
  <2>. QED  BY <2>3 DEF s, t, both
<1>4. /\ \E n \in 0..2 : DOMAIN found = 1..n /\ found \in [1..n -> Tags]
      /\ "ANOMALY_VELOCITY" \in tags <=> velocity
      /\ "ANOMALY_AMOUNT" \in tags <=> amount
  <2>1. CASE ~velocity /\ ~amount
    <3>1. found = <<>>  BY <1>2, <2>1
    <3>2. DOMAIN found = 1..0 /\ found \in [1..0 -> Tags]  BY <3>1
    <3>3. tags = {}  BY <3>1
    <3>. QED  BY <2>1, <3>2, <3>3
  <2>2. CASE velocity /\ ~amount
    <3>1. found = <<"ANOMALY_VELOCITY">>  BY <1>2, <2>2
    <3>2. DOMAIN found = 1..1 /\ found \in [1..1 -> Tags]  BY <3>1 DEF Tags
    <3>3. tags = {"ANOMALY_VELOCITY"}  BY <3>1
    <3>. QED  BY <2>2, <3>2, <3>3
  <2>3. CASE ~velocity /\ amount
    <3>1. found = <<"ANOMALY_AMOUNT">>  BY <1>2, <2>3
    <3>2. DOMAIN found = 1..1 /\ found \in [1..1 -> Tags]  BY <3>1 DEF Tags
    <3>3. tags = {"ANOMALY_AMOUNT"}  BY <3>1
    <3>. QED  BY <2>3, <3>2, <3>3
  <2>4. CASE velocity /\ amount
    <3>1. found = <<"ANOMALY_VELOCITY", "ANOMALY_AMOUNT">>  
      BY <1>2, <1>3, <2>4, Zenon DEF Tags
    <3>2. DOMAIN found = 1..2 /\ found \in [1..2 -> Tags]  BY <3>1 DEF Tags
    <3>3. 1..2 = {1, 2}  OBVIOUS
    <3>4. tags = {"ANOMALY_VELOCITY", "ANOMALY_AMOUNT"}  BY <3>1, <3>2, <3>3
    <3>. HIDE DEF tags
    <3>5. "ANOMALY_VELOCITY" \in tags /\ "ANOMALY_AMOUNT" \in tags  BY <3>4
    <3>6. \E n \in 0..2 : DOMAIN found = 1..n /\ found \in [1..n -> Tags]  BY <3>2
    <3>. QED  BY <2>4, <3>5, <3>6
  <2>. QED  BY <2>1, <2>2, <2>3, <2>4
<1>5. tags \in SUBSET Tags /\ \A k \in DOMAIN found : found[k] \in Tags
  BY <1>4
<1>6. event.id \in 1..MaxEvents
  BY DEF Events
<1>7. added \in Seq(Alerts)
  <2>1. PICK n \in 0..2 : DOMAIN found = 1..n
    BY <1>4
  <2>2. added \in [1..n -> Alerts]
    BY <1>5, <1>6, <2>1 DEF Alerts
  <2>. QED  BY <2>2
<1>8. /\ \A tag \in tags : \E k \in DOMAIN added : added[k] = <<event.id, tag>>
      /\ \A k \in DOMAIN added : added[k][1] = event.id /\ added[k][2] \in tags
  OBVIOUS
<1>9. Arrival(event, tags, added)
  BY <1>1, <1>4, <1>8 DEF Arrival, times, velocity, amount
<1>. QED  BY <1>5, <1>7, <1>9

-----------------------------------------------------------------------------
(* Every step preserves the invariant *)

\* The times the state should hold are typed.
LEMMA ExactTimesTyped ==
    ASSUME NEW events \in Seq(Tagged), Len(events) <= MaxEvents
    PROVE  ExactTimes(events) \subseteq (1..MaxEvents) \X Times
<1>1. \A i \in Surviving(events) : i \in 1..MaxEvents /\ events[i] \in Tagged
  BY RulesAssumption DEF Surviving
<1>2. \A i \in Surviving(events) : TimeOf(events[i]) \in Times
  BY <1>1, PayloadFacts
<1>. QED  BY <1>1, <1>2 DEF ExactTimes

\* The state that stands for no event.
LEMMA NothingExact == ExactTimes(<<>>) = {} /\ HistoryOf(<<>>) = <<>>
<1>. DEFINE none == <<>>
<1>1. none \in Seq(Tagged) /\ Len(none) = 0 /\ DOMAIN none = {}
  OBVIOUS
<1>. HIDE DEF none
<1>2. ExactTimes(none) = {}
  BY <1>1 DEF ExactTimes, Surviving
<1>3. HistoryOf(none) \in Seq(Nat) /\ Len(HistoryOf(none)) = Shorter(0)
  BY <1>1, HistoryTyped, RulesAssumption
<1>4. Shorter(0) = 0
  BY RulesAssumption DEF Shorter
<1>5. HistoryOf(none) = <<>>
  BY <1>3, <1>4, EmptySeq
<1>. QED  BY <1>2, <1>5 DEF none

\* No event has arrived.
LEMMA InvInit == Init => IInv
<1>. SUFFICES ASSUME Init PROVE IInv
  OBVIOUS
<1>1. /\ arrived = <<>> /\ unwritten = <<>> /\ replay = {} /\ amounts = <<>> /\ timestamps = {}
      /\ saved.timestamps = {} /\ saved.amounts = <<>> /\ saved.arrived = <<>> /\ restarts = 0
      /\ rows = [alert \in Alerts |-> 0]
  BY DEF Init, NoState
<1>2. arrived \in Seq(Tagged) /\ Len(arrived) = 0 /\ DOMAIN arrived = {} /\ DOMAIN unwritten = {}
  BY <1>1
<1>3. ExactTimes(arrived) = {} /\ HistoryOf(arrived) = <<>>
  BY <1>1, NothingExact
<1>5. TypeOK
  BY <1>1, RulesAssumption DEF TypeOK
<1>6. Numbered
  BY <1>1, <1>2, FS_EmptySet, RulesAssumption DEF Numbered, Known
<1>. QED  BY <1>1, <1>2, <1>3, <1>5, <1>6
          DEF IInv, Exact, SavedIsPrefix, AlertsHaveRows, SavedHaveRows, UnwrittenAreNew

Arrive == ArriveFirst \/ ArriveCopy \/ ArriveAgain

\* Where the next event comes from.
NextEvent(event) ==
    \/ event \in replay
    \/ event.offset = Known + 1 /\ Known < MaxEvents

\* An event that arrives, new or again, has an offset of its own.
LEMMA ArrivalNumbers ==
    ASSUME IInv, NEW event \in Events, NextEvent(event), NEW tags \in SUBSET Tags,
           NEW added \in Seq(Alerts), Arrival(event, tags, added)
    PROVE  /\ Numbered'
           /\ arrived' \in Seq(Tagged) /\ Len(arrived') = Len(arrived) + 1
           /\ Len(arrived') <= MaxEvents
<1>. DEFINE n == Len(arrived)
            x == Stamped(event, tags)
<1>0. /\ TypeOK /\ Numbered
  BY DEF IInv
<1>1. x \in Tagged /\ x.offset = event.offset /\ event.offset \in Nat
  BY RulesAssumption DEF Tagged, Events, Stamped
<1>2. arrived \in Seq(Tagged) /\ arrived' = Append(arrived, x)
  BY <1>0 DEF TypeOK, Arrival
<1>. HIDE DEF x
<1>3. /\ n \in Nat /\ DOMAIN arrived = 1..n /\ DOMAIN arrived' = 1..(n + 1)
      /\ arrived' \in Seq(Tagged) /\ Len(arrived') = n + 1
      /\ \A i \in 1..n : arrived'[i] = arrived[i]
      /\ arrived'[n + 1] = x
  BY <1>1, <1>2, AppendFacts
<1>4. replay' = replay \ {event}
  BY DEF Arrival
<1>5. /\ IsFiniteSet(replay) /\ Cardinality(replay) \in Nat
      /\ IsFiniteSet(replay') /\ Cardinality(replay') \in Nat
      /\ Cardinality(replay') = IF event \in replay THEN Cardinality(replay) - 1
                                ELSE Cardinality(replay)
  BY <1>0, <1>4, FS_RemoveElement, FS_CardinalityType DEF Numbered
<1>6. /\ Known \in Nat /\ Known = n + Cardinality(replay)
      /\ Known' = n + 1 + Cardinality(replay')
      /\ MaxEvents \in Nat /\ Known <= MaxEvents
  BY <1>0, <1>3, <1>5, RulesAssumption DEF Known, Numbered
<1>7. \A i \in 1..n : arrived[i].offset \in Nat
  <2>1. \A i \in 1..n : arrived[i] \in Tagged
    BY <1>2, <1>3
  <2>. QED  BY <2>1, RulesAssumption DEF Tagged
<1>8. \A f \in replay : f.offset \in Nat
  BY <1>0, RulesAssumption DEF TypeOK, Events
<1>. DEFINE Fresh == /\ \A i \in 1..n : arrived[i].offset # event.offset
                     /\ \A f \in replay' : f.offset # event.offset
                     /\ event.offset <= Known' /\ Known <= Known' /\ Known' <= MaxEvents
<1>9. ASSUME event \in replay PROVE Fresh
  <2>1. Known' = Known
    BY <1>3, <1>5, <1>6, <1>9
  <2>2. Fresh
    BY <1>0, <1>3, <1>4, <1>6, <1>9, <2>1 DEF Numbered
  <2>. QED  BY <2>2
<1>10. ASSUME event \notin replay PROVE Fresh
  <2>1. event.offset = Known + 1 /\ Known < MaxEvents
    BY <1>10 DEF NextEvent
  <2>2. Known' = Known + 1
    BY <1>3, <1>5, <1>6, <1>10
  <2>3. Fresh
    BY <1>0, <1>3, <1>4, <1>6, <1>7, <1>8, <2>1, <2>2 DEF Numbered
  <2>. QED  BY <2>3
<1>11. Fresh
  BY <1>9, <1>10
<1>12. Len(arrived') <= MaxEvents
  BY <1>3, <1>5, <1>6, <1>11
<1>. HIDE DEF n
<1>13. \A i \in 1..(n + 1) : i \in 1..n \/ i = n + 1
  BY <1>3
<1>14. Known' \in Nat
  BY <1>3, <1>5, <1>6
<1>15. Numbered'
  <2>1. \A i \in 1..(n + 1) : arrived'[i].offset <= Known'
    <3>1. \A i \in 1..n : arrived'[i].offset <= Known'
      BY <1>0, <1>3, <1>6, <1>7, <1>11, <1>14 DEF Numbered
    <3>2. arrived'[n + 1].offset <= Known'
      BY <1>1, <1>3, <1>11
    <3>. QED  BY <1>13, <3>1, <3>2
  <2>2. \A f \in replay' : f.offset <= Known'
    BY <1>0, <1>4, <1>6, <1>8, <1>11, <1>14 DEF Numbered
  <2>3. \A i, j \in 1..(n + 1) : arrived'[i].offset = arrived'[j].offset => i = j
    BY <1>0, <1>1, <1>3, <1>11, <1>13 DEF Numbered
  <2>4. \A f, g \in replay' : f.offset = g.offset => f = g
    BY <1>0, <1>4 DEF Numbered
  <2>5. \A i \in 1..(n + 1), f \in replay' : arrived'[i].offset # f.offset
    BY <1>0, <1>1, <1>3, <1>4, <1>11, <1>13 DEF Numbered
  <2>. HIDE DEF Fresh
  <2>6. Known' <= MaxEvents
    BY <1>11 DEF Fresh
  <2>. QED  BY <1>3, <1>5, <2>1, <2>2, <2>3, <2>4, <2>5, <2>6 DEF Numbered
<1>. QED  BY <1>3, <1>12, <1>15 DEF n

\* What an arrival changes keeps the invariant.
LEMMA ArrivalStep ==
    ASSUME IInv, NEW event \in Events, NextEvent(event), NEW tags \in SUBSET Tags,
           NEW added \in Seq(Alerts), Arrival(event, tags, added)
    PROVE  IInv'
<1>. DEFINE n == Len(arrived)
            x == Stamped(event, tags)
            u == unwritten
<1>0. TypeOK
  BY DEF IInv
<1>1. /\ x \in Tagged /\ x.id = event.id /\ x.tags = tags
      /\ TimeOf(x) = TimeOf(event) /\ AmountOf(x) = AmountOf(event)
  BY DEF Tagged, Events, Stamped, TimeOf, AmountOf
<1>2. /\ arrived \in Seq(Tagged) /\ arrived' = Append(arrived, x)
      /\ timestamps' = Recent(TimeOf(event)) \cup {<<n + 1, TimeOf(event)>>}
      /\ amounts' = Bounded(Append(amounts, AmountOf(event)))
      /\ unwritten' = u \o added /\ rows' = rows /\ saved' = saved /\ restarts' = restarts
      /\ replay' = replay \ {event}
      /\ \A tag \in tags : \E k \in DOMAIN added : added[k] = <<event.id, tag>>
      /\ \A k \in DOMAIN added : added[k][1] = event.id /\ added[k][2] \in tags
  BY <1>0 DEF TypeOK, Arrival
<1>. HIDE DEF x
<1>3. /\ n \in Nat /\ DOMAIN arrived = 1..n /\ DOMAIN arrived' = 1..(n + 1)
      /\ \A i \in 1..n : arrived'[i] = arrived[i]
      /\ arrived'[n + 1] = x
  BY <1>1, <1>2, AppendFacts
<1>4. /\ Numbered' /\ arrived' \in Seq(Tagged) /\ Len(arrived') = n + 1 /\ n + 1 <= MaxEvents
  BY ArrivalNumbers
<1>5. Exact(timestamps, amounts, arrived)'
  <2>1. timestamps = ExactTimes(arrived) /\ amounts = HistoryOf(arrived)
    BY DEF IInv, Exact
  <2>2. timestamps' = ExactTimes(Append(arrived, x))
    BY <1>1, <1>2, <2>1, TimesStep DEF Recent
  <2>3. amounts' = HistoryOf(Append(arrived, x))
    BY <1>1, <1>2, <2>1, HistoryStep
  <2>. QED  BY <1>2, <2>2, <2>3 DEF Exact
<1>6. /\ u \in Seq(Alerts) /\ unwritten' \in Seq(Alerts)
      /\ DOMAIN u = 1..Len(u) /\ DOMAIN added = 1..Len(added)
      /\ DOMAIN unwritten' = 1..(Len(u) + Len(added))
      /\ Len(u) \in Nat /\ Len(added) \in Nat
      /\ \A k \in 1..Len(u) : unwritten'[k] = u[k]
      /\ \A k \in 1..Len(added) : unwritten'[Len(u) + k] = added[k]
  <2>1. u \in Seq(Alerts)
    BY <1>0 DEF TypeOK
  <2>. HIDE DEF u
  <2>. QED  BY <1>2, <2>1, ConcatProperties
<1>7. TypeOK'
  <2>1. timestamps' \subseteq (1..MaxEvents) \X Times
    BY <1>4, <1>5, ExactTimesTyped DEF Exact
  <2>2. amounts' \in Seq({p[2] : p \in Payloads}) /\ Len(amounts') <= HistoryLimit
    BY <1>4, <1>5, HistoryTyped DEF Exact
  <2>. QED  BY <1>0, <1>2, <1>4, <1>6, <2>1, <2>2 DEF TypeOK
<1>8. SavedIsPrefix'
  <2>1. SavedIsPrefix /\ saved.arrived \in Seq(Tagged)
    BY <1>0 DEF IInv, TypeOK
  <2>2. DOMAIN saved.arrived = 1..Len(saved.arrived) /\ Len(saved.arrived) \in Nat
    BY <2>1
  <2>. QED  BY <1>2, <1>3, <1>4, <2>1, <2>2 DEF SavedIsPrefix
<1>9. AlertsHaveRows'
  <2>1. ASSUME NEW i \in 1..(n + 1), NEW tag \in arrived'[i].tags
        PROVE  \/ rows'[<<arrived'[i].id, tag>>] > 0
               \/ \E k \in DOMAIN unwritten' : unwritten'[k] = <<arrived'[i].id, tag>>
    <3>1. CASE i \in 1..n
      <4>1. arrived'[i] = arrived[i]
        BY <1>3, <3>1
      <4>2. \/ rows[<<arrived[i].id, tag>>] > 0
            \/ \E k \in DOMAIN u : u[k] = <<arrived[i].id, tag>>
        BY <1>3, <2>1, <3>1, <4>1 DEF IInv, AlertsHaveRows
      <4>3. \A k \in DOMAIN u : k \in DOMAIN unwritten' /\ unwritten'[k] = u[k]
        BY <1>6
      <4>. QED  BY <1>2, <4>1, <4>2, <4>3
    <3>2. CASE i = n + 1
      <4>1. tag \in tags /\ arrived'[i].id = event.id
        BY <1>1, <1>3, <2>1, <3>2
      <4>2. PICK k \in DOMAIN added : added[k] = <<event.id, tag>>
        BY <1>2, <4>1
      <4>3. Len(u) + k \in DOMAIN unwritten' /\ unwritten'[Len(u) + k] = added[k]
        BY <1>6
      <4>. QED  BY <4>1, <4>2, <4>3
    <3>. QED  BY <1>3, <3>1, <3>2
  <2>. QED  BY <1>3, <2>1 DEF AlertsHaveRows
<1>10. SavedHaveRows'
  BY <1>2 DEF IInv, SavedHaveRows
<1>11. UnwrittenAreNew'
  <2>1. ASSUME NEW k \in DOMAIN unwritten'
        PROVE  \E i \in DOMAIN arrived' :
                  /\ i > Len(saved'.arrived) /\ arrived'[i].id = unwritten'[k][1]
                  /\ unwritten'[k][2] \in arrived'[i].tags
    <3>1. CASE k \in 1..Len(u)
      <4>1. unwritten'[k] = u[k] /\ k \in DOMAIN u
        BY <1>6, <3>1
      <4>2. PICK i \in DOMAIN arrived : i > Len(saved.arrived) /\ arrived[i].id = u[k][1]
                                         /\ u[k][2] \in arrived[i].tags
        BY <4>1 DEF IInv, UnwrittenAreNew
      <4>3. i \in DOMAIN arrived' /\ arrived'[i] = arrived[i]
        BY <1>3
      <4>. QED  BY <1>2, <4>1, <4>2, <4>3
    <3>2. CASE k \notin 1..Len(u)
      <4>. DEFINE j == k - Len(u)
      <4>1. j \in 1..Len(added) /\ k = Len(u) + j
        BY <1>6, <2>1, <3>2
      <4>. HIDE DEF j
      <4>2. unwritten'[k][1] = event.id /\ unwritten'[k][2] \in tags
        <5>1. unwritten'[k] = added[j] /\ j \in DOMAIN added
          BY <1>6, <4>1
        <5>. QED  BY <1>2, <5>1
      <4>3. Len(saved.arrived) <= n /\ saved.arrived \in Seq(Tagged)
        BY <1>0 DEF IInv, SavedIsPrefix, TypeOK
      <4>4. Len(saved.arrived) \in Nat
        BY <4>3
      <4>5. n + 1 \in DOMAIN arrived' /\ n + 1 > Len(saved.arrived)
        BY <1>3, <4>3, <4>4
      <4>. QED  BY <1>1, <1>2, <1>3, <4>2, <4>5
    <3>. QED  BY <3>1, <3>2
  <2>. QED  BY <2>1 DEF UnwrittenAreNew
<1>12. Exact(saved.timestamps, saved.amounts, saved.arrived)'
  BY <1>2 DEF IInv, Exact
<1>. QED  BY <1>4, <1>5, <1>7, <1>8, <1>9, <1>10, <1>11, <1>12 DEF IInv

\* An event arrives that comes again or has the next offset.
LEMMA ArriveStep ==
    ASSUME IInv, Arrive
    PROVE  \E event \in Events, tags \in SUBSET Tags, added \in Seq(Alerts) :
              NextEvent(event) /\ Arrival(event, tags, added)
<1>0. TypeOK /\ Numbered
  BY DEF IInv
<1>. SUFFICES ASSUME TRUE
              PROVE  \E event \in Events : NextEvent(event) /\ Process(event)
  BY ArrivalFacts
<1>1. Cardinality(replay) \in Nat /\ arrived \in Seq(Tagged)
  BY <1>0, FS_CardinalityType DEF Numbered, TypeOK
<1>2. Known \in Nat /\ MaxEvents \in Nat
  BY <1>1, RulesAssumption DEF Known
<1>3. CASE ArriveAgain
  BY <1>0, <1>3 DEF ArriveAgain, TypeOK, NextEvent
<1>4. CASE ArriveFirst
  <2>1. PICK payload \in Payloads :
           Process([offset |-> Known + 1, id |-> Known + 1, payload |-> payload])
    BY <1>4 DEF ArriveFirst
  <2>. DEFINE event == [offset |-> Known + 1, id |-> Known + 1, payload |-> payload]
  <2>2. event \in Events /\ NextEvent(event)
    BY <1>2, <1>4 DEF Events, NextEvent, ArriveFirst
  <2>. HIDE DEF event
  <2>3. Process(event)
    BY <2>1 DEF event
  <2>. QED  BY <2>2, <2>3
<1>5. CASE ArriveCopy
  <2>1. PICK original \in EventsFrom(1) \cup replay :
           Process([original EXCEPT !.offset = Known + 1])
    BY <1>5 DEF ArriveCopy
  <2>2. original \in Events
    <3>1. \A i \in 1..Len(arrived) : arrived[i] \in Tagged
      BY <1>1
    <3>2. EventsFrom(1) \subseteq Events
      BY <3>1 DEF EventsFrom, Tagged, Events
    <3>. QED  BY <1>0, <2>1, <3>2 DEF TypeOK
  <2>. DEFINE event == [original EXCEPT !.offset = Known + 1]
  <2>3. event \in Events /\ NextEvent(event)
    BY <1>2, <1>5, <2>2 DEF Events, NextEvent, ArriveCopy
  <2>. HIDE DEF event
  <2>4. Process(event)
    BY <2>1 DEF event
  <2>. QED  BY <2>3, <2>4
<1>. QED  BY <1>3, <1>4, <1>5 DEF Arrive

\* The sink turns the alert at the front into a row.
LEMMA InsertStep ==
    ASSUME IInv, InsertAnomaly
    PROVE  IInv'
<1>. DEFINE u == unwritten
<1>0. TypeOK /\ AlertsHaveRows /\ SavedHaveRows /\ UnwrittenAreNew
  BY DEF IInv
<1>1. /\ u # <<>> /\ unwritten' = Tail(u) /\ rows' = [rows EXCEPT ![Head(u)] = @ + 1]
      /\ UNCHANGED <<timestamps, amounts, arrived, replay, saved, restarts>>
  BY DEF InsertAnomaly
<1>2. u \in Seq(Alerts) /\ rows \in [Alerts -> Nat]
  BY <1>0 DEF TypeOK
<1>. HIDE DEF u
<1>3. /\ Head(u) \in Alerts /\ Head(u) = u[1] /\ Tail(u) \in Seq(Alerts)
      /\ \A k \in DOMAIN u : k = 1 \/ (k - 1 \in DOMAIN Tail(u) /\ Tail(u)[k - 1] = u[k])
      /\ \A k \in DOMAIN Tail(u) : k + 1 \in DOMAIN u /\ Tail(u)[k] = u[k + 1]
  <2>1. Len(u) \in Nat /\ Len(u) >= 1 /\ DOMAIN u = 1..Len(u)
    BY <1>1, <1>2
  <2>2. /\ Tail(u) \in Seq(Alerts) /\ DOMAIN Tail(u) = 1..(Len(u) - 1)
        /\ \A k \in 1..(Len(u) - 1) : Tail(u)[k] = u[k + 1]
    BY <1>1, <1>2, <2>1
  <2>3. Head(u) = u[1] /\ u[1] \in Alerts
    BY <1>1, <1>2, <2>1
  <2>4. \A k \in 1..Len(u) : k = 1 \/ (k - 1 \in 1..(Len(u) - 1) /\ (k - 1) + 1 = k)
    BY <2>1
  <2>5. \A k \in 1..(Len(u) - 1) : k + 1 \in 1..Len(u)
    BY <2>1
  <2>. QED  BY <2>1, <2>2, <2>3, <2>4, <2>5
<1>4. /\ rows' \in [Alerts -> Nat]
      /\ \A alert \in Alerts : rows[alert] > 0 => rows'[alert] > 0
      /\ rows'[Head(u)] > 0
  BY <1>1, <1>2, <1>3
<1>5. TypeOK'
  BY <1>0, <1>1, <1>3, <1>4 DEF TypeOK
<1>6. AlertsHaveRows'
  <2>1. ASSUME NEW i \in DOMAIN arrived, NEW tag \in arrived[i].tags
        PROVE  \/ rows'[<<arrived[i].id, tag>>] > 0
               \/ \E k \in DOMAIN unwritten' : unwritten'[k] = <<arrived[i].id, tag>>
    <3>. DEFINE alert == <<arrived[i].id, tag>>
    <3>1. alert \in Alerts
      <4>1. arrived[i] \in Tagged
        BY <1>0 DEF TypeOK
      <4>. QED  BY <4>1 DEF Tagged, Alerts
    <3>2. rows[alert] > 0 \/ \E k \in DOMAIN u : u[k] = alert
      BY <1>0, <2>1 DEF AlertsHaveRows, u
    <3>. HIDE DEF alert
    <3>3. rows'[alert] > 0 \/ \E k \in DOMAIN unwritten' : unwritten'[k] = alert
      <4>1. CASE rows[alert] > 0
        BY <1>4, <3>1, <4>1
      <4>2. ASSUME NEW k \in DOMAIN u, u[k] = alert
            PROVE  rows'[alert] > 0 \/ \E j \in DOMAIN unwritten' : unwritten'[j] = alert
        <5>1. CASE k = 1
          BY <1>3, <1>4, <4>2, <5>1
        <5>2. CASE k - 1 \in DOMAIN Tail(u) /\ Tail(u)[k - 1] = u[k]
          BY <1>1, <4>2, <5>2
        <5>. QED  BY <1>3, <5>1, <5>2
      <4>. QED  BY <3>2, <4>1, <4>2
    <3>. QED  BY <3>3 DEF alert
  <2>. QED  BY <1>1, <2>1 DEF AlertsHaveRows
<1>7. SavedHaveRows'
  <2>1. ASSUME NEW i \in DOMAIN saved.arrived, NEW tag \in saved.arrived[i].tags
        PROVE  rows'[<<saved.arrived[i].id, tag>>] > 0
    <3>1. saved.arrived[i] \in Tagged
      BY <1>0 DEF TypeOK
    <3>2. <<saved.arrived[i].id, tag>> \in Alerts
      BY <3>1 DEF Tagged, Alerts
    <3>3. rows[<<saved.arrived[i].id, tag>>] > 0
      BY <1>0 DEF SavedHaveRows
    <3>. QED  BY <1>4, <3>2, <3>3
  <2>. QED  BY <1>1, <2>1 DEF SavedHaveRows
<1>8. UnwrittenAreNew'
  BY <1>0, <1>1, <1>3 DEF UnwrittenAreNew, u
<1>9. Numbered' /\ SavedIsPrefix' /\ Exact(timestamps, amounts, arrived)'
      /\ Exact(saved.timestamps, saved.amounts, saved.arrived)'
  BY <1>1 DEF IInv, Numbered, Known, SavedIsPrefix, Exact
<1>. QED  BY <1>5, <1>6, <1>7, <1>8, <1>9 DEF IInv

\* With nothing in front of the sink, the alerts covered have their rows.
LEMMA CheckpointStep ==
    ASSUME IInv, Checkpoint
    PROVE  IInv'
<1>0. TypeOK /\ AlertsHaveRows
  BY DEF IInv
<1>1. /\ unwritten = <<>> /\ DOMAIN unwritten = {}
      /\ saved'.timestamps = timestamps /\ saved'.amounts = amounts /\ saved'.arrived = arrived
      /\ UNCHANGED <<timestamps, amounts, arrived, replay, unwritten, rows, restarts>>
  BY DEF Checkpoint, BarrierThroughSink
<1>2. TypeOK'
  BY <1>0, <1>1 DEF TypeOK
<1>3. Len(arrived) \in Nat
  BY <1>0 DEF TypeOK
<1>4. SavedIsPrefix' /\ SavedHaveRows' /\ UnwrittenAreNew' /\ AlertsHaveRows'
  BY <1>0, <1>1, <1>3 DEF SavedIsPrefix, SavedHaveRows, UnwrittenAreNew, AlertsHaveRows
<1>5. Numbered' /\ Exact(timestamps, amounts, arrived)'
      /\ Exact(saved.timestamps, saved.amounts, saved.arrived)'
  BY <1>1 DEF IInv, Numbered, Known, Exact
<1>. QED  BY <1>2, <1>4, <1>5 DEF IInv

\* The job is restarted from a checkpoint, or from nothing.
StartState(state) == state \in {saved, NoState}

\* Both stand for a beginning of what has arrived, with its rows.
LEMMA StartFacts ==
    ASSUME IInv, NEW state, StartState(state)
    PROVE  /\ state.arrived \in Seq(Tagged) /\ Len(state.arrived) \in Nat
           /\ Len(state.arrived) <= Len(arrived)
           /\ \A i \in DOMAIN state.arrived : state.arrived[i] = arrived[i]
           /\ \A i \in DOMAIN state.arrived : \A tag \in state.arrived[i].tags :
                 rows[<<state.arrived[i].id, tag>>] > 0
           /\ Exact(state.timestamps, state.amounts, state.arrived)
           /\ state.timestamps \subseteq (1..MaxEvents) \X Times
<1>0. TypeOK
  BY DEF IInv
<1>1. CASE state = saved
  <2>1. SavedIsPrefix /\ SavedHaveRows /\ Exact(saved.timestamps, saved.amounts, saved.arrived)
    BY DEF IInv
  <2>2. /\ saved.arrived \in Seq(Tagged) /\ Len(saved.arrived) \in Nat
        /\ saved.timestamps \subseteq (1..MaxEvents) \X Times
    BY <1>0 DEF TypeOK
  <2>. QED  BY <1>1, <2>1, <2>2 DEF SavedIsPrefix, SavedHaveRows
<1>2. CASE state = NoState
  <2>1. /\ state.arrived = <<>> /\ state.timestamps = {} /\ state.amounts = <<>>
        /\ state.arrived \in Seq(Tagged) /\ Len(state.arrived) = 0 /\ DOMAIN state.arrived = {}
    BY <1>2 DEF NoState
  <2>2. Len(arrived) \in Nat
    BY <1>0 DEF TypeOK
  <2>3. Exact(state.timestamps, state.amounts, state.arrived)
    BY <2>1, NothingExact DEF Exact
  <2>. QED  BY <2>1, <2>2, <2>3
<1>. QED  BY <1>1, <1>2 DEF StartState

\* The events that come again after a restart are those behind the state it
\* starts with, and none of them was waiting already.
LEMMA RolledBackFacts ==
    ASSUME IInv, NEW state, StartState(state)
    PROVE  /\ RolledBack(state) \subseteq Events /\ IsFiniteSet(RolledBack(state))
           /\ Cardinality(RolledBack(state)) = Len(arrived) - Len(state.arrived)
           /\ \A event \in RolledBack(state) : \E i \in DOMAIN arrived :
                 i > Len(state.arrived) /\ arrived[i].offset = event.offset
           /\ \A e, f \in RolledBack(state) : e.offset = f.offset => e = f
           /\ RolledBack(state) \cap replay = {}
<1>. DEFINE n == Len(arrived)
            l == Len(state.arrived)
            again == [i \in (l + 1)..n |->
                        [offset |-> arrived[i].offset, id |-> arrived[i].id,
                         payload |-> arrived[i].payload]]
<1>0. TypeOK /\ Numbered
  BY DEF IInv
<1>1. n \in Nat /\ l \in Nat /\ l <= n /\ DOMAIN arrived = 1..n
      /\ \A i \in 1..n : arrived[i] \in Tagged
  BY <1>0, StartFacts DEF TypeOK
<1>2. \A i \in (l + 1)..n : i \in 1..n /\ i > l
  BY <1>1
<1>3. RolledBack(state) = {again[i] : i \in (l + 1)..n}
  BY DEF RolledBack, EventsFrom
<1>4. \A i \in (l + 1)..n : again[i].offset = arrived[i].offset /\ again[i] \in Events
  <2>1. \A i \in (l + 1)..n : arrived[i] \in Tagged
    BY <1>1, <1>2
  <2>. QED  BY <2>1 DEF Tagged, Events
<1>5. again \in Surjection((l + 1)..n, RolledBack(state))
  BY <1>3 DEF Surjection
<1>. HIDE DEF n, l, again
<1>6. \A i, j \in (l + 1)..n : again[i].offset = again[j].offset => i = j
  BY <1>0, <1>1, <1>2, <1>4 DEF Numbered
<1>7. again \in Injection((l + 1)..n, RolledBack(state))
  BY <1>5, <1>6 DEF Surjection, Injection, IsInjective
<1>8. IsFiniteSet((l + 1)..n) /\ Cardinality((l + 1)..n) = n - l
  <2>1. l + 1 \in Int /\ n \in Int /\ (IF l + 1 > n THEN 0 ELSE n - (l + 1) + 1) = n - l
    BY <1>1
  <2>. QED  BY <2>1, FS_Interval
<1>9. IsFiniteSet(RolledBack(state)) /\ Cardinality(RolledBack(state)) = n - l
  BY <1>5, <1>7, <1>8, FS_Surjection
<1>10. \A event \in RolledBack(state) : \E i \in DOMAIN arrived : i > l /\ arrived[i].offset = event.offset
  BY <1>1, <1>2, <1>3, <1>4
<1>11. \A e, f \in RolledBack(state) : e.offset = f.offset => e = f
  BY <1>3, <1>6
<1>12. RolledBack(state) \cap replay = {}
  BY <1>0, <1>10 DEF Numbered
<1>13. RolledBack(state) \subseteq Events
  BY <1>3, <1>4
<1>. QED  BY <1>9, <1>10, <1>11, <1>12, <1>13 DEF n, l

\* A restart rolls arrivals back; the events behind its state come again.
LEMMA RestartStep ==
    ASSUME IInv, NEW state, StartState(state), Restart(state)
    PROVE  IInv'
<1>0. TypeOK /\ Numbered
  BY DEF IInv
<1>1. /\ restarts < MaxRestarts /\ restarts' = restarts + 1
      /\ timestamps' = state.timestamps /\ amounts' = state.amounts /\ arrived' = state.arrived
      /\ replay' = replay \cup RolledBack(state) /\ unwritten' = <<>> /\ DOMAIN unwritten' = {}
      /\ rows' = rows /\ saved' = state
  BY DEF Restart
<1>2. /\ arrived \in Seq(Tagged) /\ state.arrived \in Seq(Tagged)
      /\ Len(arrived) \in Nat /\ Len(state.arrived) \in Nat
      /\ DOMAIN arrived = 1..Len(arrived) /\ DOMAIN state.arrived = 1..Len(state.arrived)
      /\ Len(state.arrived) <= Len(arrived)
      /\ \A i \in DOMAIN state.arrived : i \in DOMAIN arrived /\ state.arrived[i] = arrived[i]
      /\ \A i \in DOMAIN state.arrived : \A tag \in state.arrived[i].tags :
            rows[<<state.arrived[i].id, tag>>] > 0
  BY <1>0, StartFacts DEF TypeOK
<1>3. Exact(timestamps, amounts, arrived)'
      /\ Exact(saved.timestamps, saved.amounts, saved.arrived)'
  BY <1>1, StartFacts DEF Exact
<1>4. TypeOK'
  <2>1. amounts' \in Seq({p[2] : p \in Payloads}) /\ Len(amounts') <= HistoryLimit
    BY <1>1, <1>2, <1>3, HistoryTyped DEF Exact
  <2>2. RolledBack(state) \subseteq Events
    BY RolledBackFacts
  <2>3. restarts' \in 0..MaxRestarts /\ Len(arrived') <= MaxEvents
    BY <1>0, <1>1, <1>2, RulesAssumption DEF TypeOK
  <2>4. state.timestamps \subseteq (1..MaxEvents) \X Times
    BY StartFacts
  <2>. QED  BY <1>0, <1>1, <1>2, <2>1, <2>2, <2>3, <2>4 DEF TypeOK
<1>5. SavedIsPrefix' /\ SavedHaveRows' /\ UnwrittenAreNew' /\ AlertsHaveRows'
  BY <1>0, <1>1, <1>2 DEF SavedIsPrefix, SavedHaveRows, UnwrittenAreNew, AlertsHaveRows
<1>6. Numbered'
  <2>. DEFINE back == RolledBack(state)
  <2>1. /\ IsFiniteSet(back) /\ Cardinality(back) = Len(arrived) - Len(state.arrived)
        /\ \A event \in back : \E i \in DOMAIN arrived :
              i > Len(state.arrived) /\ arrived[i].offset = event.offset
        /\ \A e, f \in back : e.offset = f.offset => e = f
        /\ back \cap replay = {}
    BY RolledBackFacts
  <2>2. IsFiniteSet(replay) /\ Cardinality(replay) \in Nat
    BY <1>0, FS_CardinalityType DEF Numbered
  <2>. HIDE DEF back
  <2>3. /\ IsFiniteSet(replay \cup back)
        /\ Cardinality(replay \cup back) = Cardinality(replay) + Cardinality(back)
    <3>1. replay \cap back = {}
      BY <2>1
    <3>2. Cardinality(back) \in Nat /\ Cardinality(replay \cap back) = 0
      BY <2>1, <3>1, FS_CardinalityType, FS_EmptySet
    <3>3. Cardinality(replay \cup back)
            = Cardinality(replay) + Cardinality(back) - Cardinality(replay \cap back)
      BY <2>1, <2>2, FS_Union
    <3>4. IsFiniteSet(replay \cup back)
      BY <2>1, <2>2, FS_Union
    <3>. QED  BY <2>2, <3>2, <3>3, <3>4
  <2>4. replay' = replay \cup back
    BY <1>1 DEF back
  <2>5. Known' = Known
    <3>1. Known' = Len(state.arrived) + (Cardinality(replay) + (Len(arrived) - Len(state.arrived)))
      BY <1>1, <2>1, <2>3, <2>4 DEF Known
    <3>. QED  BY <1>2, <2>2, <3>1 DEF Known
  <2>6. /\ \A i \in DOMAIN arrived' : i \in DOMAIN arrived /\ arrived'[i] = arrived[i]
                                      /\ i <= Len(state.arrived)
    BY <1>1, <1>2
  <2>7. \A event \in replay' : event.offset <= Known
    BY <1>0, <2>1, <2>4 DEF Numbered
  <2>8. \A e, f \in replay' : e.offset = f.offset => e = f
    BY <1>0, <2>1, <2>4 DEF Numbered
  <2>9. \A i \in DOMAIN arrived', event \in replay' : arrived'[i].offset # event.offset
    <3>1. \A i \in DOMAIN arrived', event \in replay : arrived'[i].offset # event.offset
      BY <1>0, <2>6 DEF Numbered
    <3>2. \A i \in DOMAIN arrived', event \in back : arrived'[i].offset # event.offset
      <4>. TAKE i \in DOMAIN arrived', event \in back
      <4>1. PICK j \in DOMAIN arrived : j > Len(state.arrived) /\ arrived[j].offset = event.offset
        BY <2>1
      <4>2. i # j /\ i \in DOMAIN arrived
        BY <1>2, <2>6, <4>1
      <4>. QED  BY <1>0, <2>6, <4>1, <4>2 DEF Numbered
    <3>. QED  BY <2>4, <3>1, <3>2
  <2>10. \A i \in DOMAIN arrived' : arrived'[i].offset <= Known
    BY <1>0, <2>6 DEF Numbered
  <2>11. \A i, j \in DOMAIN arrived' : arrived'[i].offset = arrived'[j].offset => i = j
    BY <1>0, <2>6 DEF Numbered
  <2>12. Known <= MaxEvents
    BY <1>0 DEF Numbered
  <2>. QED  BY <2>3, <2>4, <2>5, <2>7, <2>8, <2>9, <2>10, <2>11, <2>12 DEF Numbered
<1>. QED  BY <1>3, <1>4, <1>5, <1>6 DEF IInv

\* Every step keeps the invariant.
LEMMA InvStep == IInv /\ [Next]_vars => IInv'
<1>. SUFFICES ASSUME IInv, [Next]_vars PROVE IInv'
  OBVIOUS
<1>1. CASE Arrive
  BY <1>1, ArriveStep, ArrivalStep
<1>2. CASE InsertAnomaly
  BY <1>2, InsertStep
<1>3. CASE Checkpoint
  BY <1>3, CheckpointStep
<1>4. CASE Restore \/ Submit
  BY <1>4, RestartStep DEF Restore, Submit, RestoredState, StartState
<1>5. CASE UNCHANGED vars
  <2>1. TypeOK'
    BY <1>5 DEF vars, IInv, TypeOK
  <2>2. Numbered' /\ SavedIsPrefix'
    BY <1>5 DEF vars, IInv, Numbered, Known, SavedIsPrefix
  <2>3. AlertsHaveRows' /\ SavedHaveRows' /\ UnwrittenAreNew'
    BY <1>5 DEF vars, IInv, AlertsHaveRows, SavedHaveRows, UnwrittenAreNew
  <2>4. Exact(timestamps, amounts, arrived)'
        /\ Exact(saved.timestamps, saved.amounts, saved.arrived)'
    BY <1>5 DEF vars, IInv, Exact
  <2>. QED  BY <2>1, <2>2, <2>3, <2>4 DEF IInv
<1>. QED  BY <1>1, <1>2, <1>3, <1>4, <1>5 DEF Next, Arrive

-----------------------------------------------------------------------------
(* State properties *)

\* The inductive invariant holds in every reachable state.
THEOREM Invariance == Spec => []IInv
BY InvInit, InvStep, PTL DEF Spec

\* Type correctness; in particular the amount history never outgrows its limit.
THEOREM TypeCorrect == Spec => []TypeOK
<1>1. IInv => TypeOK
  BY DEF IInv
<1>. QED  BY <1>1, Invariance, PTL

\* The kept event times are those of the events no later arrival has outrun by
\* more than the window, through any disorder and any restart.
THEOREM VelocityExact == Spec => []VelocityStateIsExact
<1>1. IInv => VelocityStateIsExact
  BY DEF IInv, Exact, VelocityStateIsExact
<1>. QED  BY <1>1, Invariance, PTL

\* No alert of an event that the state counts is lost.
THEOREM AlertsKept == Spec => []AlertsHaveRows
<1>1. IInv => AlertsHaveRows
  BY DEF IInv
<1>. QED  BY <1>1, Invariance, PTL

-----------------------------------------------------------------------------
(* Rows *)

\* A step that adds a row has its alert from an arrival behind the checkpoint.
LEMMA RowsFinalStep ==
    ASSUME IInv, [Next]_vars, NEW alert \in Alerts, rows'[alert] # rows[alert]
    PROVE  \E i \in DOMAIN arrived :
              /\ arrived[i].id = alert[1] /\ alert[2] \in arrived[i].tags
              /\ arrived[i].offset \notin Covered
<1>0. TypeOK /\ Numbered /\ SavedIsPrefix /\ UnwrittenAreNew
  BY DEF IInv
<1>1. InsertAnomaly
  <2>1. ASSUME Arrive PROVE rows' = rows
    BY <2>1, ArriveStep DEF Arrival
  <2>2. ASSUME Checkpoint \/ Restore \/ Submit \/ UNCHANGED vars PROVE rows' = rows
    BY <2>2 DEF Checkpoint, Restore, Submit, Restart, vars
  <2>. QED  BY <2>1, <2>2 DEF Next, Arrive
<1>2. /\ unwritten \in Seq(Alerts) /\ unwritten # <<>>
      /\ rows' = [rows EXCEPT ![Head(unwritten)] = @ + 1] /\ rows \in [Alerts -> Nat]
  BY <1>0, <1>1 DEF InsertAnomaly, TypeOK
<1>3. 1 \in DOMAIN unwritten /\ Head(unwritten) = unwritten[1]
  BY <1>2
<1>4. alert = unwritten[1]
  BY <1>2, <1>3
<1>5. PICK i \in DOMAIN arrived : /\ i > Len(saved.arrived) /\ arrived[i].id = alert[1]
                                  /\ alert[2] \in arrived[i].tags
  BY <1>0, <1>3, <1>4 DEF UnwrittenAreNew
<1>6. ASSUME NEW j \in DOMAIN saved.arrived PROVE arrived[i].offset # saved.arrived[j].offset
  <2>1. /\ j \in 1..Len(saved.arrived) /\ Len(saved.arrived) \in Nat
        /\ saved.arrived[j] = arrived[j] /\ Len(saved.arrived) <= Len(arrived)
    BY <1>0 DEF SavedIsPrefix, TypeOK
  <2>2. j \in DOMAIN arrived /\ i # j
    BY <1>0, <1>5, <2>1 DEF TypeOK
  <2>. QED  BY <1>0, <2>1, <2>2 DEF Numbered
<1>. QED  BY <1>5, <1>6 DEF Covered

\* Every row that is added is for an event that no checkpoint of the submission
\* covers, also when copies pass dedup and when the job is submitted again.
THEOREM RowsFinal == Spec => RowsFinalAfterCheckpoint
<1>1. IInv /\ [Next]_vars =>
        \A alert \in Alerts : rows'[alert] # rows[alert] =>
          \E i \in DOMAIN arrived :
             /\ arrived[i].id = alert[1] /\ alert[2] \in arrived[i].tags
             /\ arrived[i].offset \notin Covered
  BY RowsFinalStep
<1>. QED  BY <1>1, Invariance, PTL DEF Spec, RowsFinalAfterCheckpoint

-----------------------------------------------------------------------------
(* The velocity rule is exact on events in order *)

\* The state keeps one time for each event that survives.
LEMMA OneTimePerPlace ==
    ASSUME NEW events \in Seq(Tagged)
    PROVE  /\ IsFiniteSet(Surviving(events))
           /\ Cardinality(ExactTimes(events)) = Cardinality(Surviving(events))
<1>1. DOMAIN events = 1..Len(events) /\ Len(events) \in Nat
  OBVIOUS
<1>2. IsFiniteSet(Surviving(events))
  <2>1. IsFiniteSet(1..Len(events)) /\ Surviving(events) \subseteq 1..Len(events)
    BY <1>1, FS_Interval DEF Surviving
  <2>. QED  BY <2>1, FS_Subset
<1>. DEFINE f == [i \in Surviving(events) |-> <<i, TimeOf(events[i])>>]
<1>3. f \in Surjection(Surviving(events), ExactTimes(events))
  BY DEF Surjection, ExactTimes
<1>4. f \in Injection(Surviving(events), ExactTimes(events))
  BY <1>3 DEF Surjection, Injection, IsInjective
<1>. HIDE DEF f
<1>. QED  BY <1>2, <1>3, <1>4, FS_Surjection

\* In event-time order the survivors are the events of the last window.
LEMMA SurvivorsInOrder ==
    ASSUME NEW events \in Seq(Tagged), Len(events) # 0,
           \A i, j \in DOMAIN events : i < j => TimeOf(events[i]) <= TimeOf(events[j])
    PROVE  LET t == TimeOf(events[Len(events)]) IN
           Surviving(events) = {i \in DOMAIN events : TimeOf(events[i]) <= t
                                                      /\ t <= TimeOf(events[i]) + VelocityWindow}
<1>. DEFINE n == Len(events)
            time == [i \in 1..n |-> TimeOf(events[i])]
            W == VelocityWindow
<1>1. n \in Nat /\ n >= 1 /\ DOMAIN events = 1..n /\ W \in Nat
  BY RulesAssumption
<1>2. \A i \in 1..n : time[i] \in Nat /\ time[i] = TimeOf(events[i])
  <2>1. \A i \in 1..n : events[i] \in Tagged
    OBVIOUS
  <2>. QED  BY <2>1, PayloadFacts
<1>3. \A i, j \in 1..n : i < j => time[i] <= time[j]
  BY <1>1, <1>2
<1>4. Surviving(events) = {i \in 1..n : \A j \in 1..n : j > i => time[j] <= time[i] + W}
  BY <1>1, <1>2 DEF Surviving
<1>. HIDE DEF n, time
<1>5. ASSUME NEW i \in 1..n
      PROVE  (\A j \in 1..n : j > i => time[j] <= time[i] + W)
                <=> (time[i] <= time[n] /\ time[n] <= time[i] + W)
  <2>1. n \in 1..n /\ time[i] \in Nat /\ time[n] \in Nat
    BY <1>1, <1>2
  <2>2. time[i] <= time[n]
    BY <1>1, <1>3, <2>1
  <2>3. ASSUME \A j \in 1..n : j > i => time[j] <= time[i] + W PROVE time[n] <= time[i] + W
    BY <1>1, <2>1, <2>3
  <2>4. ASSUME time[n] <= time[i] + W, NEW j \in 1..n PROVE time[j] <= time[i] + W
    <3>1. time[j] \in Nat /\ time[j] <= time[n]
      BY <1>1, <1>2, <1>3, <2>1
    <3>. QED  BY <1>1, <2>1, <2>4, <3>1
  <2>. QED  BY <2>2, <2>3, <2>4
<1>6. time[n] = TimeOf(events[n])
  BY <1>1, <1>2
<1>7. Surviving(events) = {i \in 1..n : time[i] <= time[n] /\ time[n] <= time[i] + W}
  BY <1>4, <1>5
<1>. QED  BY <1>1, <1>2, <1>6, <1>7 DEF n

\* What an arrival adds to arrived.
LEMMA Longer ==
    ASSUME IInv, [Next]_vars, Len(arrived') > Len(arrived)
    PROVE  \E event \in Events, tags \in SUBSET Tags, added \in Seq(Alerts) :
              /\ NextEvent(event) /\ Arrival(event, tags, added)
              /\ arrived' \in Seq(Tagged) /\ arrived \in Seq(Tagged)
              /\ Len(arrived') = Len(arrived) + 1 /\ Len(arrived) \in Nat
              /\ \A i \in 1..Len(arrived) : arrived'[i] = arrived[i]
              /\ arrived'[Len(arrived')] = Stamped(event, tags)
              /\ timestamps' = ExactTimes(arrived')
<1>0. arrived \in Seq(Tagged) /\ Len(arrived) \in Nat /\ Len(saved.arrived) <= Len(arrived)
      /\ Len(saved.arrived) \in Nat
  BY DEF IInv, TypeOK, SavedIsPrefix
<1>1. Arrive
  <2>1. ASSUME InsertAnomaly \/ Checkpoint \/ UNCHANGED vars PROVE FALSE
    BY <1>0, <2>1 DEF InsertAnomaly, Checkpoint, vars
  <2>2. ASSUME Restore \/ Submit PROVE FALSE
    <3>1. PICK state : StartState(state) /\ Restart(state)
      BY <2>2 DEF Restore, Submit, RestoredState, StartState
    <3>2. Len(state.arrived) <= Len(arrived) /\ Len(state.arrived) \in Nat
      BY <3>1, StartFacts
    <3>. QED  BY <1>0, <3>1, <3>2 DEF Restart
  <2>. QED  BY <2>1, <2>2 DEF Next, Arrive
<1>2. PICK event \in Events, tags \in SUBSET Tags, added \in Seq(Alerts) :
              NextEvent(event) /\ Arrival(event, tags, added)
  BY <1>1, ArriveStep
<1>. DEFINE x == Stamped(event, tags)
<1>3. x \in Tagged /\ arrived' = Append(arrived, x)
  BY <1>2 DEF Tagged, Events, Stamped, Arrival
<1>. HIDE DEF x
<1>4. /\ arrived' \in Seq(Tagged) /\ Len(arrived') = Len(arrived) + 1
      /\ \A i \in 1..Len(arrived) : arrived'[i] = arrived[i]
      /\ arrived'[Len(arrived) + 1] = x
  BY <1>0, <1>3, AppendFacts
<1>5. timestamps' = ExactTimes(arrived')
  BY InvStep DEF IInv, Exact
<1>. QED  BY <1>0, <1>2, <1>4, <1>5 DEF x

\* For events in event-time order the rule fires exactly where a burst completes.
THEOREM BurstsFound == Spec => BurstsFoundInOrder
<1>1. IInv /\ [Next]_vars =>
        (Len(arrived') > Len(arrived) /\ InOrder' =>
            ("ANOMALY_VELOCITY" \in LatestTags' <=> BurstCompleted'))
  <2>. SUFFICES ASSUME IInv, [Next]_vars, Len(arrived') > Len(arrived), InOrder'
                PROVE  "ANOMALY_VELOCITY" \in LatestTags' <=> BurstCompleted'
    OBVIOUS
  <2>1. PICK event \in Events, tags \in SUBSET Tags, added \in Seq(Alerts) :
              /\ Arrival(event, tags, added)
              /\ arrived' \in Seq(Tagged)
              /\ Len(arrived') = Len(arrived) + 1 /\ Len(arrived) \in Nat
              /\ arrived'[Len(arrived')] = Stamped(event, tags)
              /\ timestamps' = ExactTimes(arrived')
    BY Longer
  <2>2. LatestTags' = tags
    BY <2>1 DEF LatestTags, Stamped
  <2>3. "ANOMALY_VELOCITY" \in tags <=> Cardinality(ExactTimes(arrived')) > VelocityThreshold
    BY <2>1 DEF Arrival, OverThreshold
  <2>4. Cardinality(ExactTimes(arrived')) = Cardinality(Surviving(arrived'))
    BY <2>1, OneTimePerPlace
  <2>5. \A i, j \in DOMAIN arrived' : i < j => TimeOf(arrived'[i]) <= TimeOf(arrived'[j])
    BY DEF InOrder
  <2>6. Len(arrived') # 0
    BY <2>1
  <2>7. Surviving(arrived') = WindowUpTo(TimeOf(arrived[Len(arrived)]))'
    BY <2>1, <2>5, <2>6, SurvivorsInOrder DEF WindowUpTo
  <2>. QED  BY <2>2, <2>3, <2>4, <2>7 DEF BurstCompleted
<1>. QED  BY <1>1, Invariance, PTL DEF Spec, BurstsFoundInOrder

-----------------------------------------------------------------------------
(* What the amount rule promises *)

AtLeast(values, amount) == {k \in DOMAIN values : values[k] >= amount}

\* Of an amount above the percentile little of the history is left above; an
\* amount that is not above it does not exceed all of the history.
LEMMA RankOfAmount ==
    ASSUME NEW values \in Seq(Nat), Len(values) # 0, NEW amount \in Nat
    PROVE  /\ 100 * amount > Percentile(values) =>
                100 * Cardinality(AtLeast(values, amount)) < (Len(values) - 1) * (100 - Percent) + 100
           /\ ~(100 * amount > Percentile(values)) => AtLeast(values, amount) # {}
<1>. DEFINE n == Len(values)
            o == Ordered(values)
            D == 1..n
<1>1. PICK lower, upper \in 1..n :
         /\ Percentile(values) \in Int
         /\ 100 * o[lower] <= Percentile(values)
         /\ Percentile(values) <= 100 * o[upper]
         /\ 100 * (n - lower) < (n - 1) * (100 - Percent) + 100
  BY PercentileBetween
<1>2. /\ o[lower] \in Nat /\ o[upper] \in Nat
      /\ lower <= Cardinality(AtMost(values, o[lower]))
      /\ \E i \in 1..n : o[upper] = values[i]
  BY SortedList
<1>3. n \in Nat /\ DOMAIN values = D /\ \A i \in D : values[i] \in Nat
  OBVIOUS
<1>. DEFINE low == o[lower]
<1>4. ASSUME 100 * amount > Percentile(values)
      PROVE  100 * Cardinality(AtLeast(values, amount)) < (n - 1) * (100 - Percent) + 100
  <2>. HIDE DEF o, n
  <2>1. low \in Nat /\ low < amount
    BY <1>1, <1>2, <1>4
  <2>. HIDE DEF low
  <2>2. AtLeast(values, amount) \subseteq D \ AtMost(values, low)
    BY <1>3, <2>1 DEF AtLeast, AtMost
  <2>3. IsFiniteSet(D) /\ Cardinality(D) = n
    BY <1>3, FS_Interval
  <2>. HIDE DEF D
  <2>4. AtMost(values, low) \subseteq D
    BY <1>3 DEF AtMost
  <2>5. /\ IsFiniteSet(D \ AtMost(values, low))
        /\ Cardinality(D \ AtMost(values, low)) = n - Cardinality(AtMost(values, low))
    <3>1. D \cap AtMost(values, low) = AtMost(values, low)
      BY <2>4
    <3>. QED  BY <2>3, <3>1, FS_Difference
  <2>6. /\ Cardinality(AtLeast(values, amount)) \in Nat
        /\ Cardinality(AtLeast(values, amount)) <= n - Cardinality(AtMost(values, low))
    BY <2>2, <2>5, FS_Subset, FS_CardinalityType
  <2>7. Cardinality(AtMost(values, low)) \in Nat
    BY CountsAreFinite
  <2>8. lower <= Cardinality(AtMost(values, low))
    BY <1>2 DEF low
  <2>9. 100 * Cardinality(AtLeast(values, amount)) <= 100 * (n - lower)
    BY <1>3, <2>6, <2>7, <2>8
  <2>. DEFINE bound == (n - 1) * (100 - Percent) + 100
  <2>10. bound \in Int
    BY <1>3, RulesAssumption
  <2>11. 100 * (n - lower) < bound
    BY <1>1
  <2>. HIDE DEF bound
  <2>12. 100 * Cardinality(AtLeast(values, amount)) < bound
    BY <1>3, <2>6, <2>9, <2>10, <2>11
  <2>. QED  BY <2>12 DEF bound
<1>5. ASSUME ~(100 * amount > Percentile(values))
      PROVE  AtLeast(values, amount) # {}
  <2>1. PICK i \in 1..n : o[upper] = values[i]
    BY <1>2
  <2>. HIDE DEF o, n
  <2>2. amount <= o[upper]
    BY <1>1, <1>2, <1>5
  <2>3. i \in AtLeast(values, amount)
    BY <1>2, <1>3, <2>1, <2>2 DEF AtLeast
  <2>. QED  BY <2>3
<1>. QED  BY <1>4, <1>5

\* The history is the amounts of the events RecentAmounts names, in order, so
\* that counting one counts the other.
LEMMA HistoryPlaces ==
    ASSUME NEW events \in Seq(Tagged), NEW amount \in Nat
    PROVE  LET n == Len(events)
               values == HistoryOf(events)
               recent == {i \in 1..n : i >= (n + 1) - HistoryLimit}
               above == {i \in recent : AmountOf(events[i]) >= amount}
           IN /\ Cardinality(recent) = Len(values)
              /\ Cardinality(above) = Cardinality(AtLeast(values, amount))
              /\ AtLeast(values, amount) # {} => above # {}
<1>. DEFINE n == Len(events)
            m == Shorter(n)
            values == HistoryOf(events)
            recent == {i \in 1..n : i >= (n + 1) - HistoryLimit}
            above == {i \in recent : AmountOf(events[i]) >= amount}
            big == AtLeast(values, amount)
            f == [k \in big |-> n - m + k]
<1>1. n \in Nat /\ HistoryLimit \in Nat \ {0} /\ m \in Nat /\ m <= n
  BY RulesAssumption DEF Shorter
<1>2. /\ values \in Seq(Nat) /\ Len(values) = m
      /\ values = [k \in 1..m |-> AmountOf(events[n - m + k])]
  BY HistoryTyped DEF HistoryOf
<1>. HIDE DEF n, values
<1>3. recent = (n - m + 1)..n
  BY <1>1 DEF Shorter
<1>. HIDE DEF m, recent
<1>4. Cardinality(recent) = m
  <2>1. n - m + 1 \in Int /\ n \in Int
        /\ (IF n - m + 1 > n THEN 0 ELSE n - (n - m + 1) + 1) = m
    BY <1>1
  <2>. QED  BY <1>3, <2>1, FS_Interval
<1>5. DOMAIN values = 1..m
  BY <1>2
<1>6. \A k \in big : k \in 1..m /\ n - m + k \in recent /\ AmountOf(events[n - m + k]) >= amount
  <2>. TAKE k \in big
  <2>1. k \in 1..m /\ values[k] >= amount
    BY <1>5 DEF AtLeast
  <2>2. n - m + k \in (n - m + 1)..n
    BY <1>1, <2>1
  <2>. QED  BY <1>2, <1>3, <2>1, <2>2
<1>7. \A i \in above : i - (n - m) \in big /\ n - m + (i - (n - m)) = i
  <2>. TAKE i \in above
  <2>1. i \in (n - m + 1)..n /\ AmountOf(events[i]) >= amount
    BY <1>3
  <2>2. i - (n - m) \in 1..m /\ n - m + (i - (n - m)) = i
    BY <1>1, <2>1
  <2>3. values[i - (n - m)] = AmountOf(events[i])
    BY <1>2, <2>2
  <2>. QED  BY <1>5, <2>1, <2>2, <2>3 DEF AtLeast
<1>8. IsFiniteSet(big)
  <2>1. IsFiniteSet(1..m) /\ big \subseteq 1..m
    BY <1>1, <1>5, FS_Interval DEF AtLeast
  <2>. QED  BY <2>1, FS_Subset
<1>. HIDE DEF big
<1>9. f \in Surjection(big, above)
  <2>1. \A k \in big : f[k] \in above
    BY <1>6
  <2>2. \A i \in above : f[i - (n - m)] = i /\ i - (n - m) \in big
    BY <1>7
  <2>. HIDE DEF above
  <2>. QED  BY <2>1, <2>2 DEF Surjection
<1>10. f \in Injection(big, above)
  BY <1>1, <1>6, <1>9 DEF Surjection, Injection, IsInjective
<1>. HIDE DEF f, above
<1>11. Cardinality(above) = Cardinality(big)
  BY <1>8, <1>9, <1>10, FS_Surjection
<1>12. big # {} => above # {}
  BY <1>9 DEF Surjection
<1>. QED  BY <1>2, <1>4, <1>11, <1>12 DEF n, values, recent, above, big

\* A flagged amount is extreme among the last HistoryLimit, an unflagged one is
\* not above all of them.
THEOREM AmountsExtreme == Spec => AmountAlertsAreExtreme
<1>. DEFINE Promise ==
        Len(arrived') > Len(arrived) =>
        LET amount == AmountOf(arrived'[Len(arrived')])
            history == RecentAmounts'
            n == Cardinality(history)
            atLeast == {i \in history : AmountOf(arrived'[i]) >= amount}
        IN IF "ANOMALY_AMOUNT" \in LatestTags'
           THEN /\ n >= MinHistory
                /\ 100 * Cardinality(atLeast) < (n - 1) * (100 - Percent) + 100
           ELSE n < MinHistory \/ atLeast # {}
<1>1. IInv /\ [Next]_vars => Promise
  <2>. SUFFICES ASSUME IInv, [Next]_vars, Len(arrived') > Len(arrived) PROVE Promise
    OBVIOUS
  <2>1. PICK event \in Events, tags \in SUBSET Tags, added \in Seq(Alerts) :
              /\ Arrival(event, tags, added)
              /\ arrived \in Seq(Tagged)
              /\ Len(arrived') = Len(arrived) + 1 /\ Len(arrived) \in Nat
              /\ \A i \in 1..Len(arrived) : arrived'[i] = arrived[i]
              /\ arrived'[Len(arrived')] = Stamped(event, tags)
    BY Longer
  <2>. DEFINE n == Len(arrived)
              amount == AmountOf(event)
              recent == {i \in 1..n : i >= (n + 1) - HistoryLimit}
              above == {i \in recent : AmountOf(arrived[i]) >= amount}
  <2>2. LatestTags' = tags /\ AmountOf(arrived'[Len(arrived')]) = amount /\ amount \in Nat
    BY <2>1, PayloadFacts DEF LatestTags, Stamped, AmountOf
  <2>3. amounts = HistoryOf(arrived) /\ amounts \in Seq(Nat) /\ Len(amounts) \in Nat
    <3>1. amounts = HistoryOf(arrived)
      BY DEF IInv, Exact
    <3>2. amounts \in Seq(Nat)
      BY <2>1, <3>1, HistoryTyped
    <3>. QED  BY <3>1, <3>2
  <2>4. RecentAmounts' = recent
    BY <2>1 DEF RecentAmounts
  <2>. HIDE DEF amount
  <2>5. {i \in RecentAmounts' : AmountOf(arrived'[i]) >= amount} = above
    BY <2>1, <2>4
  <2>6. /\ Cardinality(recent) = Len(amounts)
        /\ Cardinality(above) = Cardinality(AtLeast(amounts, amount))
        /\ AtLeast(amounts, amount) # {} => above # {}
    BY <2>1, <2>2, <2>3, HistoryPlaces
  <2>7. "ANOMALY_AMOUNT" \in tags
           <=> Len(amounts) >= MinHistory /\ 100 * amount > Percentile(amounts)
    BY <2>1 DEF Arrival, OverPercentile, WarmedUp, amount
  <2>8. MinHistory \in Nat /\ MinHistory >= 1
    BY RulesAssumption
  <2>. HIDE DEF n, recent, above
  <2>9. CASE "ANOMALY_AMOUNT" \in tags
    <3>1. Len(amounts) >= MinHistory /\ Len(amounts) # 0 /\ 100 * amount > Percentile(amounts)
      BY <2>3, <2>7, <2>8, <2>9
    <3>2. 100 * Cardinality(above) < (Cardinality(recent) - 1) * (100 - Percent) + 100
      BY <2>2, <2>3, <2>6, <3>1, RankOfAmount
    <3>. QED  BY <2>2, <2>4, <2>5, <2>6, <2>9, <3>1, <3>2
  <2>10. CASE "ANOMALY_AMOUNT" \notin tags
    <3>1. CASE Len(amounts) >= MinHistory
      <4>1. Len(amounts) # 0 /\ ~(100 * amount > Percentile(amounts))
        BY <2>3, <2>7, <2>8, <2>10, <3>1
      <4>2. above # {}
        BY <2>2, <2>3, <2>6, <4>1, RankOfAmount
      <4>. QED  BY <2>2, <2>4, <2>5, <2>10, <4>2
    <3>2. CASE ~(Len(amounts) >= MinHistory)
      <4>1. Cardinality(recent) < MinHistory
        BY <2>3, <2>6, <2>8, <3>2
      <4>. QED  BY <2>2, <2>4, <2>5, <2>10, <4>1
    <3>. QED  BY <3>1, <3>2
  <2>. QED  BY <2>9, <2>10
<1>. QED  BY <1>1, Invariance, PTL DEF Spec, AmountAlertsAreExtreme
=============================================================================
