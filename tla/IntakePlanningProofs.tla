------------------------ MODULE IntakePlanningProofs ------------------------
(***************************************************************************)
(* Proofs about IntakePlanning: what a request is routed to and promised,  *)
(* for every catalogue, schedule, capacity and request, and every          *)
(* interleaving of the computation with the consumers of the caches.       *)
(*                                                                         *)
(* First what the operators compute: the calendar, the search of the next  *)
(* cutoffs and the selection of a path.  Then the inductive invariants:    *)
(* the shape of the state, the routing against a catalogue that stands     *)
(* still, and the promise against caches that stand still.                 *)
(***************************************************************************)
EXTENDS IntakePlanning, SequenceTheorems, FiniteSetTheorems, TLAPS

----------------------------------------------------------------------------
(* Least and greatest elements. *)

(* Every set of natural numbers that is not empty has a least element. *)
LEMMA SmallestNat ==
  ASSUME NEW S \in SUBSET Nat, S # {}
  PROVE  \E m \in S : \A n \in S : m <= n
<1> DEFINE R == {ss \in Nat \X Nat : ss[1] < ss[2]}
<1>1. IsWellFoundedOn(R, Nat)
  BY NatLessThanWellFounded DEF OpToRel
<1>2. \A m, n \in Nat : n < m => <<n, m>> \in R
  OBVIOUS
<1>3. PICK m \in S : \A n \in S : ~(<<n, m>> \in R)
  BY <1>1, WFMin
<1>4. ASSUME NEW n \in S PROVE m <= n
  <2>1. m \in Nat /\ n \in Nat /\ ~(<<n, m>> \in R)
    BY <1>3
  <2>2. ~(n < m)
    BY <2>1, <1>2
  <2>3. QED
    BY <2>1, <2>2
<1>5. QED
  BY <1>4

(* So First is what its name says. *)
LEMMA FirstIsFirst ==
  ASSUME NEW S \in SUBSET Nat, S # {}
  PROVE  First(S) \in S /\ \A j \in S : First(S) <= j
  BY SmallestNat DEF First

(* A function on a finite set into the naturals has a greatest value. *)
LEMMA GreatestValue ==
  ASSUME NEW S, IsFiniteSet(S), S # {}, NEW f \in [S -> Nat]
  PROVE  \E i \in S : \A j \in S : f[j] <= f[i]
<1> DEFINE Above(i) == {j \in S : f[j] > f[i]}
           counts == {Cardinality(Above(i)) : i \in S}
<1>1. \A i \in S : IsFiniteSet(Above(i)) /\ Cardinality(Above(i)) \in Nat
  BY FS_Subset, FS_CardinalityType
<1>2. PICK i \in S : \A j \in S : Cardinality(Above(i)) <= Cardinality(Above(j))
  <2>1. counts \in SUBSET Nat /\ counts # {}
    BY <1>1
  <2>2. PICK m \in counts : \A n \in counts : m <= n
    BY <2>1, SmallestNat
  <2>3. PICK i \in S : m = Cardinality(Above(i))
    BY <2>2
  <2>4. \A j \in S : Cardinality(Above(j)) \in counts
    OBVIOUS
  <2>5. QED
    <3> HIDE DEF Above, counts
    <3> QED BY <2>2, <2>3, <2>4
<1>3. ASSUME NEW j \in S PROVE f[j] <= f[i]
  <2>1. SUFFICES ASSUME f[j] > f[i] PROVE FALSE
    OBVIOUS
  <2>2. Above(j) \in SUBSET Above(i) /\ j \in Above(i) /\ j \notin Above(j)
    BY <2>1
  <2>3. Cardinality(Above(j)) <= Cardinality(Above(i))
        /\ Cardinality(Above(i)) # Cardinality(Above(j))
    <3> HIDE DEF Above
    <3> QED BY <1>1, <2>2, FS_Subset
  <2>4. QED
    <3> HIDE DEF Above
    <3> QED BY <1>1, <1>2, <2>3
<1>4. QED
  BY <1>3

(* LeadTimePolicy.PromiseDate lies ahead: the slowest of the lead times is *)
(* one of them, and each is positive.                                      *)
LEMMA SlowestLeadPositive ==
  ASSUME NEW S, IsFiniteSet(S), S # {}, \A i \in S : paths[i] \in PathIds
  PROVE  SlowestLead(S) \in Nat \ {0}
<1> DEFINE f == [i \in S |-> LeadTimeFor[paths[i]]]
           lead == {LeadTimeFor[paths[i]] : i \in S}
<1>1. f \in [S -> Nat] /\ \A e \in lead : e \in Nat \ {0}
  BY LeadTimeAssumption
<1>2. PICK i \in S : \A j \in S : f[j] <= f[i]
  BY <1>1, GreatestValue
<1>3. \E d \in lead : \A e \in lead : e <= d
  BY <1>2
<1>4. QED
  BY <1>1, <1>3 DEF SlowestLead

----------------------------------------------------------------------------
(* The calendar. *)

LEMMA DayAndTime ==
  ASSUME NEW D \in Nat \ {0}, NEW x \in Int
  PROVE  /\ x \div D \in Int /\ x % D \in 0..(D - 1)
         /\ x = (x \div D) * D + (x % D)
  OBVIOUS

LEMMA DayAndTimeUnique ==
  ASSUME NEW D \in Nat \ {0}, NEW d \in Int, NEW e \in Int,
         NEW a \in 0..(D - 1), NEW b \in 0..(D - 1), d * D + a = e * D + b
  PROVE  d = e /\ a = b
  OBVIOUS

LEMMA LaterDay ==
  ASSUME NEW D \in Nat \ {0}, NEW d \in Int, NEW e \in Int, d < e
  PROVE  d * D + D <= e * D
  OBVIOUS

LEMMA DaysAhead ==
  ASSUME NEW D \in Nat \ {0}, NEW d \in Int, NEW k \in Nat
  PROVE  /\ d * D \in Int /\ k * D \in Nat
         /\ (d + k) * D = d * D + k * D
         /\ (k + 1) * D = k * D + D
  OBVIOUS

(* A schedule that is not malformed. *)
Proper(s) ==
  /\ s.zone.offset \in Int
  /\ Len(s.cutoffs) \in Nat /\ DOMAIN s.cutoffs = 1..Len(s.cutoffs)
  /\ \A k \in DOMAIN s.cutoffs : s.cutoffs[k].at \in 0..(DayLength - 1)

(* An occurrence is of the shape Falling has, and falls at its instant. *)
LEMMA OccurrencesFall ==
  ASSUME NEW s, Proper(s), NEW from \in Int, NEW o \in Occurrences(s, from)
  PROVE  o \in FallingAfter(s, from)
<1> DEFINE off == s.zone.offset
           today == Local(s, from) \div DayLength
<1>1. PICK x \in (DOMAIN s.cutoffs) \X (today..(today + SearchDays)) :
        OnDay(s.cutoffs[x[1]], x[2]) /\ o = Occurrence(s, x[1], x[2])
  BY DEF Occurrences
<1> DEFINE k == x[1]
           d == x[2]
           c == s.cutoffs[k]
<1>2. /\ DayLength \in Nat \ {0} /\ SearchDays \in Nat
      /\ off \in Int /\ from + off \in Int /\ today = (from + off) \div DayLength
  BY CalendarAssumption DEF Proper, Local
<1>3. /\ today \in Int /\ (from + off) % DayLength \in 0..(DayLength - 1)
      /\ from + off = today * DayLength + ((from + off) % DayLength)
  BY <1>2, DayAndTime
<1>4. /\ k \in DOMAIN s.cutoffs /\ d \in Int /\ d <= today + SearchDays
      /\ c.at \in 0..(DayLength - 1) /\ OnDay(c, d)
  <2>1. k \in DOMAIN s.cutoffs /\ d \in today..(today + SearchDays) /\ OnDay(c, d)
    BY <1>1
  <2>2. c.at \in 0..(DayLength - 1)
    BY <2>1 DEF Proper
  <2>3. d \in Int /\ d <= today + SearchDays
    <3> HIDE DEF d, today
    <3> QED BY <1>2, <1>3, <2>1
  <2>4. QED
    BY <2>1, <2>2, <2>3
<1>5. /\ o = [nth |-> k, cpt |-> c.cpt, eligible |-> c.eligible, at |-> o.at]
      /\ o.at = d * DayLength + c.at - off /\ o.at > from
  BY <1>1 DEF Occurrence, Occurrences
<1> HIDE DEF off, today, k, d, c
<1>6. d * DayLength \in Int /\ o.at \in Int
  BY <1>2, <1>4, <1>5, DaysAhead
<1>7. o.at + off = d * DayLength + c.at
  BY <1>2, <1>4, <1>5, <1>6
<1>8. (o.at + off) \div DayLength = d /\ (o.at + off) % DayLength = c.at
  <2> DEFINE q == (o.at + off) \div DayLength
             r == (o.at + off) % DayLength
  <2>1. o.at + off \in Int
    BY <1>2, <1>6
  <2>2. q \in Int /\ r \in 0..(DayLength - 1) /\ o.at + off = q * DayLength + r
    BY <1>2, <2>1, DayAndTime
  <2>3. d * DayLength + c.at = q * DayLength + r
    BY <1>7, <2>2
  <2> HIDE DEF q, r
  <2>4. d = q /\ c.at = r
    BY <1>2, <1>4, <2>2, <2>3, DayAndTimeUnique
  <2>5. QED
    BY <2>4 DEF q, r
<1>9. o.at <= from + (SearchDays + 1) * DayLength
  <2>1. /\ today * DayLength \in Int /\ SearchDays * DayLength \in Nat
        /\ (today + SearchDays) * DayLength = today * DayLength + SearchDays * DayLength
        /\ (SearchDays + 1) * DayLength = SearchDays * DayLength + DayLength
    BY <1>2, <1>3, DaysAhead
  <2>2. d * DayLength <= today * DayLength + SearchDays * DayLength
    <3>1. CASE d = today + SearchDays
      BY <3>1, <2>1, <1>6
    <3>2. CASE d < today + SearchDays
      <4>1. today + SearchDays \in Int
        BY <1>2, <1>3
      <4>2. d * DayLength + DayLength <= (today + SearchDays) * DayLength
        BY <1>2, <1>4, <3>2, <4>1, LaterDay
      <4>3. QED
        BY <4>2, <2>1, <1>2, <1>6
    <3>3. QED
      BY <3>1, <3>2, <1>2, <1>3, <1>4
  <2>3. QED
    BY <1>2, <1>3, <1>4, <1>6, <1>7, <2>1, <2>2
<1>10. FallsAt(s, c, o.at)
  BY <1>4, <1>8 DEF FallsAt, Local, off
<1>11. o.at \in (from + 1)..(from + (SearchDays + 1) * DayLength)
  <2>1. (SearchDays + 1) * DayLength \in Int
    BY <1>2, DaysAhead
  <2>2. QED
    BY <1>5, <1>6, <1>9, <2>1
<1>12. QED
  <2> DEFINE y == <<k, o.at>>
  <2>1. y \in (DOMAIN s.cutoffs) \X ((from + 1)..(from + (SearchDays + 1) * DayLength))
    BY <1>4, <1>11
  <2>2. FallsAt(s, s.cutoffs[y[1]], y[2])
    BY <1>10 DEF c
  <2>3. o = [nth |-> y[1], cpt |-> s.cutoffs[y[1]].cpt,
             eligible |-> s.cutoffs[y[1]].eligible, at |-> y[2]]
    BY <1>5 DEF c
  <2>4. QED
    BY <2>1, <2>2, <2>3 DEF FallingAfter

(* What falls within the days searched is an occurrence. *)
LEMMA FallingOccurs ==
  ASSUME NEW s, Proper(s), NEW from \in Int, NEW o \in FallingAfter(s, from),
         o.at <= from + SearchDays * DayLength
  PROVE  o \in Occurrences(s, from)
<1> DEFINE off == s.zone.offset
           today == Local(s, from) \div DayLength
<1>1. PICK x \in (DOMAIN s.cutoffs) \X ((from + 1)..(from + (SearchDays + 1) * DayLength)) :
        /\ FallsAt(s, s.cutoffs[x[1]], x[2])
        /\ o = [nth |-> x[1], cpt |-> s.cutoffs[x[1]].cpt,
                eligible |-> s.cutoffs[x[1]].eligible, at |-> x[2]]
  BY DEF FallingAfter
<1> DEFINE k == x[1]
           c == s.cutoffs[k]
           d == (o.at + off) \div DayLength
<1>2. /\ DayLength \in Nat \ {0} /\ SearchDays \in Nat
      /\ off \in Int /\ from + off \in Int /\ today = (from + off) \div DayLength
      /\ SearchDays * DayLength \in Nat /\ (SearchDays + 1) * DayLength \in Int
  BY CalendarAssumption, DaysAhead DEF Proper, Local
<1>3. /\ k \in DOMAIN s.cutoffs /\ o.at \in Int /\ o.at > from
      /\ c.at \in 0..(DayLength - 1)
  BY <1>1, <1>2 DEF Proper
<1>4. OnDay(c, d) /\ (o.at + off) % DayLength = c.at
  BY <1>1 DEF FallsAt, Local
<1>5. /\ today \in Int /\ (from + off) % DayLength \in 0..(DayLength - 1)
      /\ from + off = today * DayLength + ((from + off) % DayLength)
  BY <1>2, DayAndTime
<1>6. d \in Int /\ o.at + off = d * DayLength + c.at
  <2>1. o.at + off \in Int
    BY <1>2, <1>3
  <2>2. QED
    BY <1>2, <1>4, <2>1, DayAndTime
<1>7. o = [nth |-> k, cpt |-> c.cpt, eligible |-> c.eligible, at |-> o.at]
  BY <1>1
<1> HIDE DEF off, today, k, c, d
<1>8. d * DayLength \in Int /\ today * DayLength \in Int
  BY <1>2, <1>5, <1>6, DaysAhead
<1>9. today <= d
  <2>1. SUFFICES ASSUME d < today PROVE FALSE
    BY <1>5, <1>6
  <2>2. d * DayLength + DayLength <= today * DayLength
    BY <1>2, <1>5, <1>6, <2>1, LaterDay
  <2> DEFINE D1 == d * DayLength
             D2 == today * DayLength
             r == (from + off) % DayLength
  <2>3. /\ D1 \in Int /\ D2 \in Int /\ r \in 0..(DayLength - 1) /\ D1 + DayLength <= D2
        /\ from + off = D2 + r /\ o.at + off = D1 + c.at
    BY <1>5, <1>6, <1>8, <2>2
  <2>4. QED
    <3> HIDE DEF D1, D2, r
    <3> QED BY <1>2, <1>3, <2>3
<1>10. d <= today + SearchDays
  <2>1. SUFFICES ASSUME today + SearchDays < d PROVE FALSE
    BY <1>2, <1>5, <1>6
  <2>2. today + SearchDays \in Int
    BY <1>2, <1>5
  <2>3. (today + SearchDays) * DayLength + DayLength <= d * DayLength
    BY <1>2, <1>6, <2>1, <2>2, LaterDay
  <2>4. (today + SearchDays) * DayLength = today * DayLength + SearchDays * DayLength
    BY <1>2, <1>5, DaysAhead
  <2>5. QED
    BY <1>2, <1>3, <1>5, <1>6, <1>8, <2>3, <2>4
<1>11. o = Occurrence(s, k, d)
  <2>1. o.at = d * DayLength + c.at - off
    BY <1>2, <1>3, <1>6, <1>8
  <2>2. QED
    BY <2>1, <1>7 DEF Occurrence, off, c
<1>12. QED
  <2> DEFINE y == <<k, d>>
  <2>1. y \in (DOMAIN s.cutoffs) \X (today..(today + SearchDays))
    BY <1>2, <1>3, <1>5, <1>6, <1>9, <1>10
  <2>2. OnDay(s.cutoffs[y[1]], y[2]) /\ o = Occurrence(s, y[1], y[2])
    BY <1>4, <1>11 DEF c
  <2>3. QED
    BY <1>3, <2>1, <2>2 DEF Occurrences, today

(* Only finitely many cutoffs fall within the days searched. *)
LEMMA FallingFinite ==
  ASSUME NEW s, Proper(s), NEW from \in Int
  PROVE  IsFiniteSet(FallingAfter(s, from))
<1> DEFINE until == from + (SearchDays + 1) * DayLength
           pairs == (DOMAIN s.cutoffs) \X ((from + 1)..until)
           falls == {x \in pairs : FallsAt(s, s.cutoffs[x[1]], x[2])}
           f == [x \in falls |->
                   [nth |-> x[1], cpt |-> s.cutoffs[x[1]].cpt,
                    eligible |-> s.cutoffs[x[1]].eligible, at |-> x[2]]]
<1>1. IsFiniteSet((from + 1)..until)
  <2>1. until \in Int /\ from + 1 \in Int
    BY CalendarAssumption, DaysAhead
  <2>2. QED
    BY <2>1, FS_Interval
<1>2. IsFiniteSet(DOMAIN s.cutoffs)
  <2>1. Len(s.cutoffs) \in Int /\ 1 \in Int /\ DOMAIN s.cutoffs = 1..Len(s.cutoffs)
    BY DEF Proper
  <2>2. QED
    BY <2>1, FS_Interval
<1>3. IsFiniteSet(pairs)
  BY <1>1, <1>2, FS_Product
<1>4. IsFiniteSet(falls)
  <2>1. falls \in SUBSET pairs
    OBVIOUS
  <2>2. QED
    <3> HIDE DEF falls, pairs
    <3> QED BY <1>3, <2>1, FS_Subset
<1>5. f \in Surjection(falls, FallingAfter(s, from))
  BY DEF Surjection, FallingAfter
<1>6. QED
  <2> HIDE DEF falls, f
  <2> QED BY <1>4, <1>5, FS_Surjection

(* What computeNextCutoffs answers: occurrences in the order of their      *)
(* instants, and among them each that is one of the n first however ties   *)
(* are sorted.                                                             *)
THEOREM NextCutoffsEarliest ==
  ASSUME NEW s, Proper(s), NEW from \in Int, NEW n \in Nat \ {0},
         NEW w \in computeNextCutoffs(s, from, n)
  PROVE  \E m \in 0..n :
           /\ w \in [1..m -> FallingAfter(s, from)]
           /\ \A i, j \in 1..m : i < j => w[i].at <= w[j].at
           /\ \A o \in FallingAfter(s, from) :
                /\ o.at <= from + SearchDays * DayLength
                /\ Cardinality({p \in FallingAfter(s, from) : p.at <= o.at}) <= n
                => \E j \in 1..m : w[j] = o
<1> DEFINE all == Occurrences(s, from)
           F == FallingAfter(s, from)
           m == IF Cardinality(all) > n THEN n ELSE Cardinality(all)
<1>1. all \in SUBSET F /\ IsFiniteSet(F)
  BY OccurrencesFall, FallingFinite
<1>2. IsFiniteSet(all) /\ Cardinality(all) \in Nat
  <2> HIDE DEF all, F
  <2> QED BY <1>1, FS_Subset, FS_CardinalityType
<1>3. m \in 0..n /\ m <= Cardinality(all) /\ (m = n \/ m = Cardinality(all))
  <2> HIDE DEF all
  <2> QED BY <1>2
<1>4. /\ w \in [1..m -> all]
      /\ \A i, j \in 1..m : i < j => w[i] # w[j] /\ w[i].at <= w[j].at
      /\ \A o \in all : \A i \in 1..m : o.at < w[i].at => \E j \in 1..m : w[j] = o
  BY DEF computeNextCutoffs
<1>5. \A o \in F : o.at \in Int
  <2>1. (SearchDays + 1) * DayLength \in Int
    BY CalendarAssumption, DaysAhead
  <2>2. QED
    BY <2>1 DEF FallingAfter
<1> HIDE DEF all, F, m
<1>6. ASSUME NEW o \in F, o.at <= from + SearchDays * DayLength,
             Cardinality({p \in F : p.at <= o.at}) <= n,
             ~ \E j \in 1..m : w[j] = o
      PROVE  FALSE
  <2> DEFINE R == {w[j] : j \in 1..m}
             P == {p \in F : p.at <= o.at}
  <2>1. o \in all
    BY <1>6, FallingOccurs DEF all, F
  <2>2. \A i \in 1..m : w[i] \in F /\ w[i].at <= o.at
    <3> SUFFICES ASSUME NEW i \in 1..m PROVE w[i] \in F /\ w[i].at <= o.at
      OBVIOUS
    <3>1. w[i] \in F /\ ~(o.at < w[i].at)
      BY <1>1, <1>4, <1>6, <2>1
    <3>2. QED
      BY <3>1, <1>5
  <2>3. IsFiniteSet(R) /\ Cardinality(R) = m
    <3>1. w \in Surjection(1..m, R)
      BY <1>4 DEF Surjection
    <3>2. w \in Injection(1..m, R)
      <4>1. \A i, j \in 1..m : i # j => w[i] # w[j]
        BY <1>3, <1>4
      <4>2. w \in [1..m -> R]
        BY <1>4
      <4>3. QED
        <5> HIDE DEF R
        <5> QED BY <4>1, <4>2 DEF Injection, IsInjective
    <3>3. IsFiniteSet(1..m) /\ Cardinality(1..m) = m
      BY <1>3, FS_Interval
    <3>4. QED
      <4> HIDE DEF R
      <4> QED BY <3>1, <3>2, <3>3, FS_Surjection
  <2>4. o \notin R
    BY <1>6
  <2>5. IsFiniteSet(R \cup {o}) /\ Cardinality(R \cup {o}) = m + 1
    <3> HIDE DEF R
    <3> QED BY <2>3, <2>4, FS_AddElement
  <2>6. R \cup {o} \in SUBSET all
    BY <1>4, <2>1
  <2>7. R \cup {o} \in SUBSET P /\ P \in SUBSET F
    BY <1>5, <2>2
  <2>8. m + 1 <= Cardinality(all)
    <3> HIDE DEF R
    <3> QED BY <1>2, <2>5, <2>6, FS_Subset
  <2>9. m + 1 <= Cardinality(P) /\ Cardinality(P) \in Nat
    <3> HIDE DEF R, P
    <3> QED BY <1>1, <2>5, <2>7, FS_Subset, FS_CardinalityType
  <2>10. QED
    BY <1>2, <1>3, <1>6, <2>8, <2>9
<1>7. w \in [1..m -> F]
  BY <1>1, <1>4
<1>8. QED
  BY <1>3, <1>4, <1>6, <1>7 DEF F

(* The enumeration of k elements of S in the order of their instants, with *)
(* all that are earlier than one of them.                                  *)
Sorted(S, k, w) ==
  /\ w \in [1..k -> S]
  /\ \A i, j \in 1..k : i < j => w[i] # w[j] /\ w[i].at <= w[j].at
  /\ \A o \in S : \A i \in 1..k : o.at < w[i].at => \E j \in 1..k : w[j] = o

LEMMA SortedRange ==
  ASSUME NEW S, NEW k \in Nat, NEW w, Sorted(S, k, w),
         NEW R, \A x : x \in R <=> \E j \in 1..k : x = w[j]
  PROVE  IsFiniteSet(R) /\ Cardinality(R) = k /\ R \in SUBSET S
<1>1. w \in Surjection(1..k, R)
  BY DEF Surjection, Sorted
<1>2. w \in Injection(1..k, R)
  <2>1. \A i, j \in 1..k : i # j => w[i] # w[j]
    BY DEF Sorted
  <2>2. w \in [1..k -> R]
    BY DEF Sorted
  <2>3. QED
    BY <2>1, <2>2 DEF Injection, IsInjective
<1>3. IsFiniteSet(1..k) /\ Cardinality(1..k) = k
  BY FS_Interval
<1>4. IsFiniteSet(R) /\ Cardinality(R) = k
  BY <1>1, <1>2, <1>3, FS_Surjection
<1>5. QED
  BY <1>4 DEF Sorted

(* One more element: the earliest of those that are left. *)
LEMMA SortOneMore ==
  ASSUME NEW S, IsFiniteSet(S), NEW from \in Int, \A o \in S : o.at \in Int /\ o.at > from,
         NEW k \in Nat, k < Cardinality(S), NEW w, Sorted(S, k, w)
  PROVE  \E v : Sorted(S, k + 1, v)
<1> DEFINE R == {w[j] : j \in 1..k}
           delays == {o.at - from : o \in S \ R}
<1>1. S \ R # {}
  <2>1. R \in SUBSET S /\ Cardinality(R) = k
    <3>1. \A x : x \in R <=> \E j \in 1..k : x = w[j]
      OBVIOUS
    <3>2. QED
      <4> HIDE DEF R
      <4> QED BY <3>1, SortedRange
  <2>2. R # S
    BY <2>1
  <2>3. QED
    <3> HIDE DEF R
    <3> QED BY <2>1, <2>2
<1>2. PICK o \in S \ R : \A p \in S \ R : o.at <= p.at
  <2>1. delays \in SUBSET Nat /\ delays # {}
    <3> HIDE DEF R
    <3> QED BY <1>1
  <2>2. PICK d \in delays : \A e \in delays : d <= e
    BY <2>1, SmallestNat
  <2>3. PICK o \in S \ R : d = o.at - from
    BY <2>2
  <2>4. ASSUME NEW p \in S \ R PROVE o.at <= p.at
    <3>1. p.at - from \in delays
      OBVIOUS
    <3>2. o.at - from <= p.at - from /\ o.at \in Int /\ p.at \in Int
      BY <2>2, <2>3, <3>1
    <3>3. QED
      BY <3>2
  <2>5. QED
    BY <2>4
<1>3. /\ w \in [1..k -> S]
      /\ \A i, j \in 1..k : i < j => w[i] # w[j] /\ w[i].at <= w[j].at
      /\ \A p \in S : \A i \in 1..k : p.at < w[i].at => p \in R
      /\ \A i \in 1..k : w[i] \in R
  BY DEF Sorted
<1> DEFINE v == [i \in 1..(k + 1) |-> IF i = k + 1 THEN o ELSE w[i]]
<1>4. /\ \A i \in 1..(k + 1) : i = k + 1 \/ i \in 1..k
      /\ \A i \in 1..k : i \in 1..(k + 1) /\ i # k + 1
      /\ k + 1 \in 1..(k + 1)
  OBVIOUS
<1>5. /\ v \in [1..(k + 1) -> S] /\ v[k + 1] = o
      /\ \A i \in 1..k : v[i] = w[i]
  BY <1>2, <1>3, <1>4
<1>6. \A i \in 1..k : w[i] \in S /\ w[i] # o /\ w[i].at <= o.at
  <2>1. SUFFICES ASSUME NEW i \in 1..k PROVE w[i] \in S /\ w[i] # o /\ w[i].at <= o.at
    OBVIOUS
  <2>2. w[i] \in S /\ w[i] \in R /\ o \in S /\ o \notin R
    BY <1>2, <1>3
  <2>3. ~(o.at < w[i].at)
    <3> HIDE DEF R
    <3> QED BY <1>3, <2>2
  <2>4. QED
    BY <2>2, <2>3
<1> HIDE DEF v
<1>7. \A i, j \in 1..(k + 1) : i < j => v[i] # v[j] /\ v[i].at <= v[j].at
  <2>1. SUFFICES ASSUME NEW i \in 1..(k + 1), NEW j \in 1..(k + 1), i < j
                 PROVE  v[i] # v[j] /\ v[i].at <= v[j].at
    OBVIOUS
  <2>2. i \in 1..k
    BY <2>1
  <2>3. CASE j = k + 1
    BY <1>5, <1>6, <2>2, <2>3
  <2>4. CASE j \in 1..k
    BY <1>3, <1>5, <2>1, <2>2, <2>4
  <2>5. QED
    BY <1>4, <2>3, <2>4
<1>8. \A p \in S : \A i \in 1..(k + 1) : p.at < v[i].at => \E j \in 1..(k + 1) : v[j] = p
  <2>1. SUFFICES ASSUME NEW p \in S, NEW i \in 1..(k + 1), p.at < v[i].at
                 PROVE  p \in R
    BY <1>4, <1>5
  <2>2. CASE i = k + 1
    <3>1. p.at < o.at /\ p.at \in Int /\ o.at \in Int
      BY <1>2, <1>5, <2>1, <2>2
    <3>2. QED
      <4> HIDE DEF R
      <4> QED BY <1>2, <3>1
  <2>3. CASE i \in 1..k
    BY <1>3, <1>5, <2>1, <2>3
  <2>4. QED
    BY <1>4, <2>2, <2>3
<1>9. QED
  BY <1>5, <1>7, <1>8 DEF Sorted

(* computeNextCutoffs always has an answer: the occurrences can be sorted, *)
(* ties or not, so no request waits in NextCutoffs for a schedule that     *)
(* cannot be answered.                                                     *)
THEOREM CutoffsAnswered ==
  ASSUME NEW s, Proper(s), NEW from \in Int, NEW n \in Nat
  PROVE  computeNextCutoffs(s, from, n) # {}
<1> DEFINE all == Occurrences(s, from)
           m == IF Cardinality(all) > n THEN n ELSE Cardinality(all)
           bad == {k \in 0..m : ~ \E w : Sorted(all, k, w)}
<1>1. /\ IsFiniteSet(all) /\ Cardinality(all) \in Nat
      /\ \A o \in all : o.at \in Int /\ o.at > from
  <2> DEFINE F == FallingAfter(s, from)
  <2>1. all \in SUBSET F /\ IsFiniteSet(F)
    BY OccurrencesFall, FallingFinite
  <2>2. \A o \in F : o.at \in Int /\ o.at > from
    <3>1. (SearchDays + 1) * DayLength \in Int
      BY CalendarAssumption, DaysAhead
    <3>2. QED
      BY <3>1 DEF FallingAfter
  <2>3. QED
    <3> HIDE DEF all, F
    <3> QED BY <2>1, <2>2, FS_Subset, FS_CardinalityType
<1>2. m \in Nat /\ m <= Cardinality(all) /\ m <= n
  <2> HIDE DEF all
  <2> QED BY <1>1
<1>3. computeNextCutoffs(s, from, n) =
        {w \in [1..m -> {o \in all : Cardinality({p \in all : p.at < o.at}) < n}] :
           /\ \A i, j \in 1..m : i < j => w[i] # w[j] /\ w[i].at <= w[j].at
           /\ \A o \in all : \A i \in 1..m : o.at < w[i].at => \E j \in 1..m : w[j] = o}
  BY DEF computeNextCutoffs
<1> HIDE DEF all, m
<1>4. bad = {}
  <2>1. SUFFICES ASSUME bad # {} PROVE FALSE
    OBVIOUS
  <2>2. PICK k \in bad : \A j \in bad : k <= j
    <3>1. bad \in SUBSET Nat
      BY <1>2
    <3>2. QED
      <4> HIDE DEF bad
      <4> QED BY <2>1, <3>1, SmallestNat
  <2>3. CASE k = 0
    <3> DEFINE w == [i \in 1..0 |-> 0]
    <3>1. Sorted(all, 0, w)
      BY DEF Sorted
    <3>2. QED
      BY <2>2, <2>3, <3>1
  <2>4. CASE k # 0
    <3>1. k \in Nat /\ k <= m /\ k - 1 \in 0..m /\ k - 1 \in Nat /\ (k - 1) + 1 = k
      BY <1>2, <2>2, <2>4
    <3>2. k - 1 \notin bad
      <4> HIDE DEF bad
      <4> QED BY <2>2, <3>1
    <3>3. PICK w : Sorted(all, k - 1, w)
      BY <3>1, <3>2
    <3>4. k - 1 < Cardinality(all)
      BY <1>1, <1>2, <3>1
    <3>5. \E v : Sorted(all, (k - 1) + 1, v)
      BY <1>1, <3>1, <3>3, <3>4, SortOneMore
    <3>6. QED
      BY <2>2, <3>1, <3>5
  <2>5. QED
    BY <2>3, <2>4
<1>5. PICK w : Sorted(all, m, w)
  BY <1>2, <1>4
<1>6. ASSUME NEW i \in 1..m
      PROVE  Cardinality({p \in all : p.at < w[i].at}) < n
  <2> DEFINE R == {w[j] : j \in 1..m}
             E == {p \in all : p.at < w[i].at}
  <2>1. IsFiniteSet(R) /\ Cardinality(R) = m /\ R \in SUBSET all
    <3>1. \A x : x \in R <=> \E j \in 1..m : x = w[j]
      OBVIOUS
    <3>2. QED
      <4> HIDE DEF R
      <4> QED BY <1>2, <1>5, <3>1, SortedRange
  <2>2. w[i] \in R /\ w[i] \notin E /\ E \in SUBSET R
    <3>1. \A p \in all : p.at < w[i].at => p \in R
      BY <1>5, <1>6 DEF Sorted
    <3>2. w[i] \in R /\ w[i] \in all
      BY <2>1, <1>6
    <3>3. w[i] \notin E
      BY <1>1, <3>2
    <3>4. QED
      BY <3>1, <3>2, <3>3
  <2>3. /\ Cardinality(E) \in Nat /\ Cardinality(E) <= Cardinality(R)
        /\ Cardinality(E) # Cardinality(R)
    <3> HIDE DEF R, E
    <3> QED BY <2>1, <2>2, FS_Subset, FS_CardinalityType
  <2>4. QED
    <3> HIDE DEF R, E
    <3>1. Cardinality(E) < n
      BY <1>2, <2>1, <2>3
    <3> QED BY <3>1 DEF E
<1>7. w \in computeNextCutoffs(s, from, n)
  <2>1. \A i \in 1..m : w[i] \in {o \in all : Cardinality({p \in all : p.at < o.at}) < n}
    BY <1>5, <1>6 DEF Sorted
  <2>2. w \in [1..m -> {o \in all : Cardinality({p \in all : p.at < o.at}) < n}]
    BY <1>5, <2>1 DEF Sorted
  <2>3. QED
    BY <1>3, <1>5, <2>2 DEF Sorted
<1>8. QED
  BY <1>7

----------------------------------------------------------------------------
(* The selection of a path. *)

PlaceOf(id) == CHOOSE i \in DOMAIN PathOrder : PathOrder[i] = id

LEMMA PlaceOfDefinition ==
  ASSUME NEW d \in Definitions
  PROVE  PlaceOf(d.id) \in Nat /\ PathOrder[PlaceOf(d.id)] = d.id
<1>1. \E i \in DOMAIN PathOrder : PathOrder[i] = d.id
  BY CatalogueAssumption
<1>2. PlaceOf(d.id) \in DOMAIN PathOrder /\ PathOrder[PlaceOf(d.id)] = d.id
  BY <1>1 DEF PlaceOf
<1>3. QED
  BY <1>2, CatalogueAssumption

(* Among candidates with ids of their own one is better than all others. *)
LEMMA BestExists ==
  ASSUME NEW E \in SUBSET Definitions, UniqueIds(E), E # {}
  PROVE  \E d \in E : \A e \in E \ {d} : Better(d, e)
<1>1. ASSUME NEW B \in SUBSET E, B # {}, \A d, e \in B : d.cycle = e.cycle,
             \A d \in B, e \in E \ B : Better(d, e)
      PROVE  \E d \in E : \A e \in E \ {d} : Better(d, e)
  <2> DEFINE places == {PlaceOf(d.id) : d \in B}
  <2>1. places \in SUBSET Nat /\ places # {}
    BY <1>1, PlaceOfDefinition
  <2>2. PICK p \in places : \A q \in places : p <= q
    <3> HIDE DEF places
    <3> QED BY <2>1, SmallestNat
  <2>3. PICK d \in B : \A e \in B : PlaceOf(d.id) <= PlaceOf(e.id)
    BY <2>2
  <2>4. ASSUME NEW e \in B \ {d} PROVE Better(d, e)
    <3>1. d.id # e.id
      BY <1>1, <2>4 DEF UniqueIds
    <3>2. PlaceOf(d.id) \in Nat /\ PlaceOf(e.id) \in Nat /\ PlaceOf(d.id) # PlaceOf(e.id)
      <4>1. PathOrder[PlaceOf(d.id)] = d.id /\ PathOrder[PlaceOf(e.id)] = e.id
        BY <2>3, <2>4, PlaceOfDefinition
      <4>2. QED
        BY <3>1, <4>1, <2>3, <2>4, PlaceOfDefinition
    <3>3. PlaceOf(d.id) < PlaceOf(e.id) /\ d.cycle = e.cycle
      BY <1>1, <2>3, <2>4, <3>2
    <3>4. QED
      BY <3>3 DEF Better, PlaceOf
  <2>5. QED
    BY <1>1, <2>3, <2>4
<1> DEFINE K == {d \in E : d.cycle # Unknown}
<1>2. CASE K = {}
  <2>1. \A d, e \in E : d.cycle = e.cycle
    BY <1>2
  <2>2. QED
    BY <1>1, <2>1
<1>3. CASE K # {}
  <2> DEFINE cycles == {d.cycle : d \in K}
  <2>1. cycles \in SUBSET Nat /\ cycles # {}
    BY <1>3, CatalogueAssumption
  <2>2. PICK c \in cycles : \A k \in cycles : c <= k
    <3> HIDE DEF cycles
    <3> QED BY <2>1, SmallestNat
  <2> DEFINE B == {d \in K : d.cycle = c}
  <2>3. B \in SUBSET E /\ B # {} /\ \A d, e \in B : d.cycle = e.cycle
    BY <2>2
  <2>4. ASSUME NEW d \in B, NEW e \in E \ B PROVE Better(d, e)
    <3>1. d.cycle # Unknown /\ d.cycle = c /\ c \in Nat
      BY <2>1, <2>2
    <3>2. e.cycle = Unknown \/ (e.cycle # Unknown /\ e.cycle \in Nat /\ c < e.cycle)
      <4>1. SUFFICES ASSUME e.cycle # Unknown PROVE e.cycle \in Nat /\ c < e.cycle
        OBVIOUS
      <4>2. e.cycle \in cycles /\ e.cycle # c
        BY <4>1
      <4>3. QED
        <5> HIDE DEF cycles, B, K
        <5>1. e.cycle \in Nat /\ c <= e.cycle
          BY <2>1, <2>2, <4>2
        <5> QED BY <3>1, <4>2, <5>1
    <3>3. QED
      BY <3>1, <3>2 DEF Better
  <2>5. QED
    BY <1>1, <2>3, <2>4
<1>4. QED
  BY <1>2, <1>3

Eligible(defs, qty, attributes) == {d \in defs : lineEligible(d, qty, attributes)}

(* What Select answers. *)
LEMMA SelectAnswers ==
  ASSUME NEW defs \in SUBSET Definitions, UniqueIds(defs), NEW qty, NEW attributes
  PROVE  /\ defs = {} => Select(defs, qty, attributes) = DefaultPath
         /\ defs # {} /\ Eligible(defs, qty, attributes) = {} =>
              Select(defs, qty, attributes) = NoPath
         /\ Eligible(defs, qty, attributes) # {} =>
              \E d \in defs : /\ Select(defs, qty, attributes) = d.id
                              /\ d \in Fastest(Eligible(defs, qty, attributes))
<1> DEFINE E == Eligible(defs, qty, attributes)
           chosen == CHOOSE d \in E : \A e \in E \ {d} : Better(d, e)
<1>1. defs = {} => Select(defs, qty, attributes) = DefaultPath
  BY DEF Select
<1>2. defs # {} /\ E = {} => Select(defs, qty, attributes) = NoPath
  BY DEF Select, Eligible
<1>3. ASSUME E # {}
      PROVE  \E d \in defs : Select(defs, qty, attributes) = d.id /\ d \in Fastest(E)
  <2>1. E \in SUBSET Definitions /\ UniqueIds(E) /\ defs # {}
    BY <1>3 DEF Eligible, UniqueIds
  <2>2. \E d \in E : \A e \in E \ {d} : Better(d, e)
    BY <1>3, <2>1, BestExists
  <2>3. chosen \in E /\ \A e \in E \ {chosen} : Better(chosen, e)
    BY <2>2
  <2>4. Select(defs, qty, attributes) = chosen.id
    BY <1>3, <2>1 DEF Select, Eligible
  <2> HIDE DEF chosen
  <2>5. chosen \in Fastest(E)
    <3>1. SUFFICES ASSUME NEW e \in E, e.cycle # Unknown
                   PROVE  chosen.cycle # Unknown /\ chosen.cycle <= e.cycle
      BY <2>3 DEF Fastest
    <3>2. e.cycle \in Nat /\ chosen.cycle \in Nat \cup {Unknown}
      BY <2>1, <2>3, <3>1, CatalogueAssumption
    <3>3. CASE e = chosen
      BY <3>1, <3>2, <3>3
    <3>4. CASE e # chosen
      <4>1. Better(chosen, e)
        BY <2>3, <3>4
      <4>2. QED
        BY <3>1, <3>2, <4>1 DEF Better
    <3>5. QED
      BY <3>3, <3>4
  <2>6. QED
    BY <2>3, <2>4, <2>5 DEF Eligible
<1>4. QED
  BY <1>1, <1>2, <1>3

----------------------------------------------------------------------------
(* The shape of the state. *)

TagSets == {{}} \cup UNION {{o.lines[i].tags : i \in DOMAIN o.lines} : o \in Orders}

Cutoffs == UNION {{s.cutoffs[k] : k \in DOMAIN s.cutoffs} : s \in Schedules \ {Malformed}}

Windows ==
  [cpt : {c.cpt : c \in Cutoffs}, at : Int, loc : Nat,
   eligible : {c.eligible : c \in Cutoffs}]

Promising == {"cutoffs", "fit", "done"}

(* The caches, and what a request never changes. *)
CachesInv ==
  /\ wired \in BOOLEAN /\ stable \in BOOLEAN /\ changes \in 0..MaxChanges
  /\ catalogue \in SUBSET Definitions /\ UniqueIds(catalogue)
  /\ schedule \in Schedules \cup {Unknown} /\ (~wired => schedule = Unknown)
  /\ capacity \in SUBSET Capacities
  /\ order \in Orders /\ now \in Int

(* How far the routing has come. *)
RouteInv ==
  /\ phase \in {"classify", "select", "check", "ineligible", "invalid", "unknownPath",
                "allocate"} \cup Promising
  /\ tags \in Seq(TagSets) /\ paths \in Seq(PathIds) /\ pathID \in PathIds \cup {NoPath}
  /\ phase = "classify" => Len(tags) = Len(paths) /\ Len(paths) < Len(order.lines)
  /\ phase \in {"select", "check", "ineligible", "invalid", "unknownPath"} =>
       Len(tags) = Len(paths) + 1 /\ Len(tags) <= Len(order.lines)
  /\ phase \in {"allocate"} \cup Promising =>
       Len(tags) = Len(order.lines) /\ Len(paths) = Len(order.lines)
  /\ phase = "check" => pathID \in PathIds
  /\ \A i \in 1..Len(paths) : order.lines[i].qty > 0

(* The search of the windows: what is left of it, and how often the        *)
(* schedule was asked.                                                     *)
SearchInv ==
  /\ allocated \in SUBSET Lines /\ todo \in SUBSET allocated
  /\ phase \notin Promising => allocated = {} /\ calls = 0
  /\ todo # {} <=> phase \in {"cutoffs", "fit"}
  /\ phase # "fit" => windows = <<>> /\ fitting = {} /\ best = {}
  /\ windows \in Seq(Windows) /\ Len(windows) <= Horizon
  /\ \A k \in 1..Len(windows) : windows[k].at > now
  /\ phase = "fit" => windows # <<>> /\ fitting \in SUBSET Together /\ fitting # Together
  /\ calls \in Nat
  /\ calls + Cardinality(todo) <= Cardinality(allocated) + (IF phase = "fit" THEN 1 ELSE 0)

(* One promise at most, ahead and in time. *)
Promisable(found) ==
  /\ \A p, q \in found : p = q
  /\ \A p \in found : p.at \in Int /\ p.at > now /\ InTime(p)

Undivided == ~order.partial \/ order.deadline # Unknown

(* The promises made so far. *)
AnswersInv ==
  /\ Promisable(best) /\ (best # {} => order.deadline # Unknown)
  /\ \A a \in answers : /\ a.lines \in SUBSET (allocated \ todo) /\ a.lines # {}
                        /\ a.promise.at > now /\ InTime(a.promise)
  /\ \A a, b \in answers : a # b => a.lines \cap b.lines = {}
  /\ order.deadline = Unknown => \A i \in allocated \ todo : \E a \in answers : i \in a.lines
  /\ Undivided => /\ \A a \in answers : a.lines = allocated
                  /\ \A a, b \in answers : a = b
                  /\ todo # {} => todo = allocated /\ answers = {}
  /\ phase \notin Promising => answers = {}

ShapeInv == CachesInv /\ RouteInv /\ SearchInv /\ AnswersInv

(* Routing against a catalogue that stands still. *)
RoutingInv ==
  /\ StableRouting
  /\ wired /\ stable /\ phase = "check" /\ Line.path = NoPath =>
       pathID \in RightPaths(Len(tags))

(* The promise against caches that stand still. *)
Matches(w, o) == w.cpt = o.cpt /\ w.at = o.at /\ w.eligible = o.eligible

LineMakes(i, w) == \E cycle \in CycleTimeP95(catalogue, paths[i]) : lineFits(i, w, cycle)

EarliestPromise(lines, p) ==
  /\ p.basis = "capability" => Kept(lines, p)
  /\ \A o \in Seen : MustMake(lines, o) => p.basis = "capability" /\ p.at <= o.at

NetworkPromises(lines, found) ==
  \A p \in found : p.basis = "network" /\ Kept(lines, p)

(* Every window in sight and in time that the lines make is still to be    *)
(* looked at, or the search has found one as late.                         *)
InSight(lines, left, found) ==
  \A o \in Seen : InTime(o) /\ MustMake(lines, o) =>
    (\E k \in 1..Len(left) : Matches(left[k], o)) \/ \E p \in found : p.at >= o.at

WindowsFall(left) ==
  /\ \A k \in 1..Len(left) : \E o \in Falling : Matches(left[k], o)
  /\ \A j, k \in 1..Len(left) : j < k => left[j].at <= left[k].at

StillInv ==
  stable /\ phase \in Promising =>
    /\ order.deadline = Unknown => \A a \in answers : EarliestPromise(a.lines, a.promise)
    /\ order.deadline # Unknown => \A a \in answers : NetworkPromises(a.lines, {a.promise})
    /\ order.deadline # Unknown /\ phase = "done" /\ allocated # {} =>
         InSight(allocated, <<>>, {a.promise : a \in answers})
    /\ phase = "fit" =>
         /\ WindowsFall(windows) /\ InSight(Together, windows, best)
         /\ NetworkPromises(Together, best)
         /\ \A i \in fitting : LineMakes(i, Head(windows))

----------------------------------------------------------------------------
(* The shape is preserved. *)

LEMMA InitShape == Init => ShapeInv
<1> SUFFICES ASSUME Init PROVE ShapeInv
  OBVIOUS
<1>1. CachesInv
  BY IntakeAssumption DEF Init, CachesInv
<1>2. RouteInv
  <2>1. order \in Orders /\ tags = <<>> /\ paths = <<>> /\ phase = "classify" /\ pathID = NoPath
    BY DEF Init
  <2>2. tags \in Seq(TagSets) /\ paths \in Seq(PathIds) /\ Len(tags) = 0 /\ Len(paths) = 0
    BY <2>1, EmptySeq
  <2>3. Len(order.lines) \in Nat \ {0}
    BY <2>1, OrdersAssumption
  <2>4. QED
    BY <2>1, <2>2, <2>3 DEF RouteInv, Promising
<1>3. SearchInv
  <2>1. /\ allocated = {} /\ todo = {} /\ windows = <<>> /\ fitting = {} /\ best = {}
        /\ calls = 0 /\ phase = "classify"
    BY DEF Init
  <2>2. windows \in Seq(Windows) /\ Len(windows) = 0
    BY <2>1, EmptySeq
  <2>3. Cardinality(todo) = 0 /\ Cardinality(allocated) = 0
    BY <2>1, FS_EmptySet
  <2>4. QED
    BY <2>1, <2>2, <2>3, IntakeAssumption DEF SearchInv, Promising
<1>4. AnswersInv
  BY DEF Init, AnswersInv, Promisable, Promising
<1>5. QED
  BY <1>1, <1>2, <1>3, <1>4 DEF ShapeInv

(* The consumers of the caches leave the request alone. *)
LEMMA CacheUpdateShape ==
  ASSUME ShapeInv, CacheUpdate
  PROVE  ShapeInv'
<1>1. /\ wired /\ changes < MaxChanges /\ changes' = changes + 1 /\ stable' = FALSE
      /\ UNCHANGED <<wired, order, phase, routing, promising>>
  BY DEF CacheUpdate, applyUpsert, applyDeactivated, ScheduleChanged, CapacityChanged, Change
<1>2. catalogue' \in SUBSET Definitions /\ UniqueIds(catalogue')
  <2>1. catalogue \in SUBSET Definitions /\ UniqueIds(catalogue)
    BY DEF ShapeInv, CachesInv
  <2>2. CASE applyUpsert
    BY <2>1, <2>2 DEF applyUpsert, UniqueIds
  <2>3. CASE applyDeactivated
    BY <2>1, <2>3 DEF applyDeactivated, UniqueIds
  <2>4. CASE ScheduleChanged \/ CapacityChanged
    BY <2>1, <2>4 DEF ScheduleChanged, CapacityChanged
  <2>5. QED
    BY <2>2, <2>3, <2>4 DEF CacheUpdate
<1>3. schedule' \in Schedules \cup {Unknown} /\ capacity' \in SUBSET Capacities
  BY DEF ShapeInv, CachesInv, CacheUpdate, applyUpsert, applyDeactivated, ScheduleChanged,
         CapacityChanged
<1>4. CachesInv'
  <2>1. changes' \in 0..MaxChanges
    BY <1>1, IntakeAssumption DEF ShapeInv, CachesInv
  <2>2. QED
    BY <1>1, <1>2, <1>3, <2>1 DEF ShapeInv, CachesInv, promising
<1>5. RouteInv'
  BY <1>1 DEF ShapeInv, RouteInv, routing
<1>6. SearchInv'
  BY <1>1 DEF ShapeInv, SearchInv, promising, Lines, Together
<1>7. AnswersInv'
  BY <1>1 DEF ShapeInv, AnswersInv, promising, Promisable, InTime, Undivided
<1>8. QED
  BY <1>4, <1>5, <1>6, <1>7 DEF ShapeInv

(* The line being routed is one of the request, and its path, if it names  *)
(* one, is a path a line may be routed to.                                 *)
LEMMA LineAtHand ==
  ASSUME CachesInv, RouteInv, Len(paths) < Len(order.lines)
  PROVE  /\ Len(paths) + 1 \in DOMAIN order.lines
         /\ Line.path # NoPath => Line.path \in PathIds
         /\ Line.tags \in TagSets
<1>1. order \in Orders /\ DOMAIN order.lines = 1..Len(order.lines) /\ Len(order.lines) \in Nat
  BY OrdersAssumption DEF CachesInv
<1>2. Len(paths) \in Nat
  BY LenProperties DEF RouteInv
<1>3. Len(paths) + 1 \in DOMAIN order.lines
  BY <1>1, <1>2
<1>4. QED
  BY <1>1, <1>3 DEF Line, PathIds, TagSets

LEMMA RouteShape ==
  ASSUME ShapeInv, Route
  PROVE  ShapeInv'
<1>1. /\ UNCHANGED <<caches, order, promising>> /\ stable' \in BOOLEAN
      /\ phase \in {"classify", "select", "check"}
  BY DEF Route, productAttributes, SelectPath, CheckLine, ShapeInv, CachesInv
<1>2. /\ Len(paths) < Len(order.lines) /\ Len(order.lines) \in Nat /\ Len(paths) \in Nat
      /\ tags \in Seq(TagSets) /\ paths \in Seq(PathIds)
  <2>1. Len(order.lines) \in Nat
    BY OrdersAssumption DEF ShapeInv, CachesInv
  <2>2. QED
    BY <1>1, <2>1 DEF ShapeInv, RouteInv
<1>3. /\ Len(paths) + 1 \in DOMAIN order.lines /\ Line.tags \in TagSets
      /\ Line.path # NoPath => Line.path \in PathIds
  BY <1>2, LineAtHand DEF ShapeInv
<1>4. RouteInv' /\ phase' \notin {"cutoffs", "fit", "done"}
  <2>1. CASE productAttributes
    <3>1. PICK answer \in TagSets :
            /\ tags' = Append(tags, answer) /\ paths' = paths /\ pathID' = Line.path
            /\ \/ Line.path = NoPath /\ phase' = "select"
               \/ Line.path # NoPath /\ phase' = "check"
      BY <1>3, <2>1 DEF productAttributes, GetClassification, TagSets
    <3>2. tags' \in Seq(TagSets) /\ Len(tags') = Len(tags) + 1
      BY <3>1, <1>2
    <3>3. phase = "classify" /\ Len(tags) = Len(paths)
      BY <2>1 DEF productAttributes, ShapeInv, RouteInv
    <3>4. QED
      BY <1>1, <1>2, <1>3, <3>1, <3>2, <3>3 DEF ShapeInv, RouteInv, Promising
  <2>2. CASE SelectPath
    <3>1. pathID' \in PathIds \cup {NoPath}
      <4>1. pathID' = Select(catalogue, Line.qty, Attributes(Len(tags)))
        BY <2>2 DEF SelectPath
      <4>2. catalogue \in SUBSET Definitions /\ UniqueIds(catalogue)
        BY DEF ShapeInv, CachesInv
      <4>3. DefaultPath \in PathIds \cup {NoPath}
            /\ \A d \in Definitions : d.id \in PathIds \cup {NoPath}
        BY DEF PathIds
      <4>4. QED
        BY <4>1, <4>2, <4>3, SelectAnswers
    <3>2. /\ phase = "select" /\ UNCHANGED <<tags, paths>>
          /\ phase' = IF pathID' = NoPath THEN "ineligible" ELSE "check"
      BY <2>2 DEF SelectPath
    <3>3. QED
      BY <1>1, <1>2, <3>1, <3>2 DEF ShapeInv, RouteInv, Promising
  <2>3. CASE CheckLine
    <3>1. phase = "check" /\ UNCHANGED <<tags, pathID>>
      BY <2>3 DEF CheckLine
    <3>2. CASE paths' = paths /\ phase' \in {"invalid", "unknownPath"}
      BY <1>1, <1>2, <3>1, <3>2 DEF ShapeInv, RouteInv, Promising
    <3>3. CASE /\ NewOrderLine(Line) /\ paths' = Append(paths, pathID)
               /\ phase' = IF Len(paths') = Len(order.lines) THEN "allocate" ELSE "classify"
      <4>1. pathID \in PathIds /\ Len(tags) = Len(paths) + 1 /\ Len(tags) <= Len(order.lines)
        BY <3>1 DEF ShapeInv, RouteInv
      <4>2. /\ paths' \in Seq(PathIds) /\ Len(paths') = Len(paths) + 1
            /\ \A i \in 1..Len(paths) : paths'[i] = paths[i]
        BY <1>2, <3>3, <4>1
      <4>3. \A i \in 1..Len(paths') : order.lines[i].qty > 0
        <5>1. order.lines[Len(paths) + 1].qty > 0
          BY <3>3 DEF NewOrderLine, Line
        <5>2. \A i \in 1..Len(paths) : order.lines[i].qty > 0
          BY DEF ShapeInv, RouteInv
        <5>3. QED
          BY <1>2, <4>2, <5>1, <5>2
      <4>4. QED
        BY <1>1, <1>2, <3>1, <3>3, <4>1, <4>2, <4>3 DEF ShapeInv, RouteInv, Promising
    <3>4. QED
      BY <2>3, <3>2, <3>3 DEF CheckLine
  <2>4. QED
    BY <2>1, <2>2, <2>3 DEF Route
<1>5. CachesInv'
  BY <1>1 DEF ShapeInv, CachesInv, caches, promising
<1>6. SearchInv'
  BY <1>1, <1>4 DEF ShapeInv, SearchInv, promising, Lines, Together, Promising
<1>7. AnswersInv'
  BY <1>1, <1>4 DEF ShapeInv, AnswersInv, promising, Promisable, InTime, Undivided, Promising
<1>8. QED
  BY <1>4, <1>5, <1>6, <1>7 DEF ShapeInv

(* The lines of a request are numbered; so each set of them is finite. *)
LEMMA LinesFinite ==
  ASSUME CachesInv
  PROVE  /\ Lines = 1..Len(order.lines) /\ Len(order.lines) \in Nat
         /\ Lines \in SUBSET Nat /\ Cardinality(Lines) = Len(order.lines)
         /\ \A S \in SUBSET Lines : IsFiniteSet(S) /\ Cardinality(S) \in 0..Len(order.lines)
<1>1. Lines = 1..Len(order.lines) /\ Len(order.lines) \in Nat
  BY OrdersAssumption DEF CachesInv, Lines
<1>2. IsFiniteSet(Lines) /\ Cardinality(Lines) = Len(order.lines)
  BY <1>1, FS_Interval
<1>3. \A S \in SUBSET Lines : IsFiniteSet(S) /\ Cardinality(S) \in 0..Len(order.lines)
  <2>1. SUFFICES ASSUME NEW S \in SUBSET Lines
                 PROVE  IsFiniteSet(S) /\ Cardinality(S) \in 0..Len(order.lines)
    OBVIOUS
  <2>2. IsFiniteSet(S) /\ Cardinality(S) <= Len(order.lines)
    BY <1>2, FS_Subset
  <2>3. Cardinality(S) \in Nat
    BY <2>2, FS_CardinalityType
  <2>4. QED
    BY <1>1, <2>2, <2>3
<1>4. QED
  BY <1>1, <1>2, <1>3

(* The next lines to be promised are some of those that are left, and all  *)
(* of them if the order is not to be divided.                              *)
LEMMA TogetherSome ==
  ASSUME ShapeInv, todo # {}
  PROVE  /\ Together \in SUBSET todo /\ Together # {} /\ (Undivided => Together = todo)
         /\ IsFiniteSet(Together) /\ \A i \in Together : paths[i] \in PathIds
         /\ Cardinality(todo \ Together) + 1 <= Cardinality(todo)
<1>1. todo \in SUBSET Lines /\ todo \in SUBSET Nat
  BY LinesFinite DEF ShapeInv, SearchInv
<1>2. First(todo) \in todo
  BY <1>1, FirstIsFirst
<1>3. Together \in SUBSET todo /\ Together # {} /\ (Undivided => Together = todo)
  BY <1>2 DEF Together, Undivided
<1>4. IsFiniteSet(todo) /\ IsFiniteSet(Together) /\ Cardinality(todo) \in Nat
  BY <1>1, <1>3, LinesFinite DEF ShapeInv
<1>5. Cardinality(todo \ Together) + 1 <= Cardinality(todo)
  <2>1. todo \ Together \in SUBSET todo /\ todo \ Together # todo
    BY <1>3
  <2>2. /\ IsFiniteSet(todo \ Together)
        /\ Cardinality(todo \ Together) <= Cardinality(todo)
        /\ Cardinality(todo) # Cardinality(todo \ Together)
    BY <1>4, <2>1, FS_Subset
  <2>3. Cardinality(todo \ Together) \in Nat
    BY <2>2, FS_CardinalityType
  <2>4. QED
    BY <1>4, <2>2, <2>3
<1>6. \A i \in Together : paths[i] \in PathIds
  <2>1. phase \in Promising
    BY DEF ShapeInv, SearchInv, Promising
  <2>2. paths \in Seq(PathIds) /\ Len(paths) = Len(order.lines)
    BY <2>1 DEF ShapeInv, RouteInv
  <2>3. \A i \in Together : i \in 1..Len(paths)
    BY <1>1, <1>3, <2>2, LinesFinite DEF ShapeInv
  <2>4. QED
    BY <2>2, <2>3
<1>7. QED
  BY <1>3, <1>4, <1>5, <1>6

(* What a step of the search leaves alone. *)
Still == UNCHANGED <<caches, stable, order, routing, now, allocated>>

LEMMA ConcludeShape ==
  ASSUME ShapeInv, phase \in {"cutoffs", "fit"}, NEW P, Promisable(P),
         P = {} => order.deadline # Unknown, Conclude(P), Still,
         calls' \in {calls, calls + 1}, phase = "fit" => calls' = calls
  PROVE  ShapeInv'
<1>1. /\ todo # {} /\ todo \in SUBSET allocated /\ calls \in Nat
      /\ calls + Cardinality(todo) <= Cardinality(allocated) + (IF phase = "fit" THEN 1 ELSE 0)
      /\ allocated \in SUBSET Lines
  BY DEF ShapeInv, SearchInv
<1>2. /\ Together \in SUBSET todo /\ Together # {} /\ (Undivided => Together = todo)
      /\ Cardinality(todo \ Together) + 1 <= Cardinality(todo)
  BY <1>1, TogetherSome
<1>3. /\ answers' = answers \cup {[lines |-> Together, promise |-> p] : p \in P}
      /\ todo' = todo \ Together /\ phase' = (IF todo' = {} THEN "done" ELSE "cutoffs")
      /\ windows' = <<>> /\ fitting' = {} /\ best' = {}
  BY DEF Conclude
<1>4. UNCHANGED <<wired, catalogue, schedule, capacity, changes, stable, order, tags, pathID,
                  paths, now, allocated>>
  BY DEF Still, caches, routing
<1>5. CachesInv'
  BY <1>4 DEF ShapeInv, CachesInv
<1>6. RouteInv'
  BY <1>3, <1>4 DEF ShapeInv, RouteInv, Promising
<1>7. SearchInv'
  <2>1. windows' \in Seq(Windows) /\ Len(windows') = 0
    BY <1>3, EmptySeq
  <2>2. calls' \in Nat /\ calls' + Cardinality(todo') <= Cardinality(allocated')
    <3>1. /\ Cardinality(todo) \in Nat /\ Cardinality(todo') \in Nat
          /\ Cardinality(allocated) \in Nat
      BY <1>1, <1>3, LinesFinite DEF ShapeInv
    <3>2. QED
      BY <1>1, <1>2, <1>3, <1>4, <3>1
  <2>3. todo' \in SUBSET allocated' /\ allocated' \in SUBSET Lines'
    BY <1>1, <1>3, <1>4 DEF Lines
  <2>4. Cardinality(allocated') \in Nat /\ Horizon \in Nat
    BY <1>1, <1>4, LinesFinite, IntakeAssumption DEF ShapeInv
  <2>5. phase' # "fit" /\ phase' \in Promising /\ (todo' # {} <=> phase' \in {"cutoffs", "fit"})
    BY <1>3 DEF Promising
  <2>6. \A k \in 1..Len(windows') : FALSE
    BY <2>1
  <2>7. QED
    BY <1>3, <2>1, <2>2, <2>3, <2>4, <2>5, <2>6 DEF SearchInv
<1>8. AnswersInv'
  <2>1. Promisable(best)' /\ best' = {}
    BY <1>3 DEF Promisable
  <2>2. \A a \in answers' : \/ a \in answers
                            \/ a.lines = Together /\ a.promise \in P
    BY <1>3
  <2>3. ASSUME NEW a \in answers'
        PROVE  /\ a.lines \in SUBSET (allocated' \ todo') /\ a.lines # {}
               /\ a.promise.at > now' /\ InTime(a.promise)'
    <3>1. CASE a \in answers
      BY <3>1, <1>2, <1>3, <1>4 DEF ShapeInv, AnswersInv, InTime
    <3>2. CASE a.lines = Together /\ a.promise \in P
      BY <3>2, <1>1, <1>2, <1>3, <1>4 DEF Promisable, InTime
    <3>3. QED
      BY <2>2, <3>1, <3>2
  <2>4. \A a, b \in answers' : a # b => a.lines \cap b.lines = {}
    <3>1. \A a \in answers : a.lines \cap Together = {}
      BY <1>2 DEF ShapeInv, AnswersInv
    <3>2. \A a, b \in {[lines |-> Together, promise |-> p] : p \in P} : a = b
      BY DEF Promisable
    <3>3. \A a, b \in answers : a # b => a.lines \cap b.lines = {}
      BY DEF ShapeInv, AnswersInv
    <3>4. QED
      BY <1>3, <3>1, <3>2, <3>3
  <2>5. order'.deadline = Unknown =>
          \A i \in allocated' \ todo' : \E a \in answers' : i \in a.lines
    <3>1. SUFFICES ASSUME order.deadline = Unknown, NEW i \in allocated \ (todo \ Together)
                   PROVE  \E a \in answers' : i \in a.lines
      BY <1>3, <1>4
    <3>2. CASE i \in Together
      <4>1. PICK p \in P : TRUE
        BY <3>1
      <4>2. [lines |-> Together, promise |-> p] \in answers'
        BY <1>3, <4>1
      <4>3. QED
        BY <3>2, <4>2
    <3>3. CASE i \notin Together
      BY <3>1, <3>3, <1>3 DEF ShapeInv, AnswersInv
    <3>4. QED
      BY <3>2, <3>3
  <2>6. Undivided' => /\ \A a \in answers' : a.lines = allocated'
                      /\ \A a, b \in answers' : a = b
                      /\ todo' # {} => todo' = allocated' /\ answers' = {}
    <3>1. SUFFICES ASSUME Undivided
                   PROVE  /\ \A a \in answers' : a.lines = allocated
                          /\ \A a, b \in answers' : a = b
                          /\ todo' = {}
      BY <1>4 DEF Undivided
    <3>2. answers = {} /\ todo = allocated /\ Together = todo
      BY <3>1, <1>1, <1>2 DEF ShapeInv, AnswersInv
    <3>3. QED
      BY <3>2, <1>3 DEF Promisable
  <2>7. phase' \in Promising
    BY <1>3 DEF Promising
  <2>8. QED
    BY <2>1, <2>3, <2>4, <2>5, <2>6, <2>7 DEF AnswersInv
<1>9. QED
  BY <1>5, <1>6, <1>7, <1>8 DEF ShapeInv

LEMMA OutOfWindowsShape ==
  ASSUME ShapeInv, phase \in {"cutoffs", "fit"}, NEW found, Promisable(found),
         OutOfWindows(found), Still, calls' \in {calls, calls + 1},
         phase = "fit" => calls' = calls
  PROVE  ShapeInv'
<1> DEFINE P == IF order.deadline # Unknown THEN found
                ELSE {[basis |-> "leadTime", cpt |-> Unknown,
                       at |-> now + SlowestLead(Together), loc |-> Unknown]}
<1>1. Conclude(P) /\ (P = {} => order.deadline # Unknown)
  BY DEF OutOfWindows
<1>2. Promisable(P)
  <2>1. CASE order.deadline # Unknown
    BY <2>1
  <2>2. CASE order.deadline = Unknown
    <3>1. todo # {} /\ now \in Int
      BY DEF ShapeInv, SearchInv, CachesInv
    <3>2. SlowestLead(Together) \in Nat \ {0}
      BY <3>1, TogetherSome, SlowestLeadPositive
    <3>3. QED
      BY <2>2, <3>1, <3>2 DEF Promisable, InTime
  <2>3. QED
    BY <2>1, <2>2
<1>3. QED
  <2> HIDE DEF P
  <2> QED BY <1>1, <1>2, ConcludeShape

(* The windows NextCutoffs makes of the answer of computeNextCutoffs. *)
WindowsFrom(next, loc) ==
  [k \in DOMAIN next |-> [cpt |-> next[k].cpt, at |-> next[k].at, loc |-> loc,
                          eligible |-> next[k].eligible]]

LEMMA ScheduleProper ==
  ASSUME CachesInv, schedule \notin {Unknown, Malformed}
  PROVE  Proper(schedule) /\ Falling = FallingAfter(schedule, now)
  BY ScheduleAssumption DEF CachesInv, Proper, Falling

LEMMA NewWindows ==
  ASSUME CachesInv, schedule \notin {Unknown, Malformed}, NEW loc \in Nat,
         NEW next \in computeNextCutoffs(schedule, now, Horizon)
  PROVE  /\ WindowsFrom(next, loc) \in Seq(Windows)
         /\ Len(WindowsFrom(next, loc)) <= Horizon
         /\ DOMAIN next = 1..Len(WindowsFrom(next, loc))
         /\ \A k \in DOMAIN next : /\ WindowsFrom(next, loc)[k].at > now
                                   /\ next[k] \in Falling
                                   /\ Matches(WindowsFrom(next, loc)[k], next[k])
         /\ \A j, k \in DOMAIN next : j < k => next[j].at <= next[k].at
         /\ \A o \in Seen : \E k \in DOMAIN next : next[k] = o
<1> DEFINE ws == WindowsFrom(next, loc)
           F == FallingAfter(schedule, now)
<1>1. Proper(schedule) /\ Falling = F
  BY ScheduleProper
<1>2. Horizon \in Nat \ {0} /\ now \in Int
  BY IntakeAssumption DEF CachesInv
<1>3. PICK m \in 0..Horizon :
        /\ next \in [1..m -> F]
        /\ \A i, j \in 1..m : i < j => next[i].at <= next[j].at
        /\ \A o \in F :
             /\ o.at <= now + SearchDays * DayLength
             /\ Cardinality({p \in F : p.at <= o.at}) <= Horizon
             => \E j \in 1..m : next[j] = o
  BY <1>1, <1>2, NextCutoffsEarliest
<1>4. ASSUME NEW o \in F
      PROVE  /\ o.at \in Int /\ o.at > now
             /\ o.cpt \in {c.cpt : c \in Cutoffs} /\ o.eligible \in {c.eligible : c \in Cutoffs}
  <2>1. (SearchDays + 1) * DayLength \in Int
    BY CalendarAssumption, DaysAhead
  <2>2. PICK x \in (DOMAIN schedule.cutoffs) \X ((now + 1)..(now + (SearchDays + 1) * DayLength)) :
          o = [nth |-> x[1], cpt |-> schedule.cutoffs[x[1]].cpt,
               eligible |-> schedule.cutoffs[x[1]].eligible, at |-> x[2]]
    BY DEF FallingAfter
  <2>3. schedule.cutoffs[x[1]] \in Cutoffs
    BY <2>2 DEF Cutoffs, CachesInv
  <2>4. QED
    BY <1>2, <2>1, <2>2, <2>3
<1>5. DOMAIN next = 1..m /\ \A k \in 1..m : next[k] \in F
  BY <1>3
<1>6. ws \in [1..m -> Windows]
  <2>1. \A k \in 1..m :
          [cpt |-> next[k].cpt, at |-> next[k].at, loc |-> loc, eligible |-> next[k].eligible]
            \in Windows
    BY <1>4, <1>5 DEF Windows
  <2>2. QED
    BY <1>5, <2>1 DEF WindowsFrom
<1>7. ws \in Seq(Windows) /\ Len(ws) = m /\ m <= Horizon
  <2>1. m \in Nat /\ m <= Horizon
    BY <1>2
  <2>2. QED
    BY <1>6, <2>1
<1>8. \A k \in DOMAIN next : ws[k].at > now /\ next[k] \in Falling /\ Matches(ws[k], next[k])
  BY <1>1, <1>4, <1>5 DEF WindowsFrom, Matches
<1>9. \A o \in Seen : \E k \in DOMAIN next : next[k] = o
  BY <1>1, <1>3, <1>5 DEF Seen
<1>10. QED
  BY <1>3, <1>5, <1>7, <1>8, <1>9

LEMMA AllocateShape ==
  ASSUME ShapeInv, Allocate
  PROVE  ShapeInv'
<1>1. PICK lines \in SUBSET Lines :
        /\ allocated' = lines /\ todo' = lines
        /\ phase' = IF lines = {} THEN "done" ELSE "cutoffs"
  BY DEF Allocate
<1>2. /\ phase = "allocate" /\ stable' = TRUE
      /\ UNCHANGED <<wired, catalogue, schedule, capacity, changes, order, tags, pathID, paths,
                     now, windows, fitting, best, calls, answers>>
  BY DEF Allocate, caches, routing
<1>3. /\ windows = <<>> /\ fitting = {} /\ best = {} /\ calls = 0 /\ answers = {}
  BY <1>2 DEF ShapeInv, SearchInv, AnswersInv, Promising
<1>4. CachesInv'
  BY <1>2 DEF ShapeInv, CachesInv
<1>5. RouteInv'
  BY <1>1, <1>2 DEF ShapeInv, RouteInv, Promising
<1>6. SearchInv'
  <2>1. Cardinality(lines) \in Nat /\ Lines' = Lines
    BY <1>2, LinesFinite DEF ShapeInv, Lines
  <2>2. windows' \in Seq(Windows) /\ Len(windows') <= Horizon
        /\ \A k \in 1..Len(windows') : windows'[k].at > now'
    BY <1>2 DEF ShapeInv, SearchInv
  <2>3. phase' # "fit" /\ phase' \in Promising /\ (todo' # {} <=> phase' \in {"cutoffs", "fit"})
    BY <1>1 DEF Promising
  <2>4. QED
    BY <1>1, <1>2, <1>3, <2>1, <2>2, <2>3 DEF SearchInv
<1>7. AnswersInv'
  BY <1>1, <1>2, <1>3 DEF AnswersInv, Promisable, Undivided, Promising
<1>8. QED
  BY <1>4, <1>5, <1>6, <1>7 DEF ShapeInv

LEMMA NextCutoffsShape ==
  ASSUME ShapeInv, NextCutoffs
  PROVE  ShapeInv'
<1>1. phase = "cutoffs" /\ Still
  BY DEF NextCutoffs, Still
<1>2. Promisable({}) /\ phase \in {"cutoffs", "fit"}
  BY <1>1 DEF Promisable
<1>3. CASE OutOfWindows({}) /\ calls' \in {calls, calls + 1}
  BY <1>1, <1>2, <1>3, OutOfWindowsShape
<1>4. CASE /\ ~(~wired \/ schedule \in {Unknown, Malformed}) /\ calls' = calls + 1
           /\ \E next \in computeNextCutoffs(schedule, now, Horizon) :
                /\ DOMAIN next # {}
                /\ windows' = WindowsFrom(next, IF schedule.zone.utc THEN 0 ELSE calls + 1)
                /\ phase' = "fit" /\ fitting' = {}
                /\ UNCHANGED <<todo, best, answers>>
  <2> DEFINE loc == IF schedule.zone.utc THEN 0 ELSE calls + 1
  <2>1. PICK next \in computeNextCutoffs(schedule, now, Horizon) :
          DOMAIN next # {} /\ windows' = WindowsFrom(next, loc)
    BY <1>4
  <2>2. /\ phase' = "fit" /\ fitting' = {} /\ UNCHANGED <<todo, best, answers>>
        /\ UNCHANGED <<wired, catalogue, schedule, capacity, changes, stable, order, tags, pathID,
                       paths, now, allocated>>
    BY <1>1, <1>4 DEF Still, caches, routing
  <2>3. calls \in Nat /\ loc \in Nat /\ todo # {}
    BY <1>1 DEF ShapeInv, SearchInv
  <2> HIDE DEF loc
  <2>4. /\ windows' \in Seq(Windows) /\ Len(windows') <= Horizon
        /\ DOMAIN next = 1..Len(windows')
        /\ \A k \in DOMAIN next : windows'[k].at > now
    BY <1>4, <2>1, <2>3, NewWindows DEF ShapeInv
  <2>5. windows' # <<>>
    BY <2>1, <2>4
  <2>6. CachesInv' /\ RouteInv'
    BY <1>1, <2>2 DEF ShapeInv, CachesInv, RouteInv, Promising
  <2>7. SearchInv'
    <3>1. Together' = Together /\ Together # {} /\ Lines' = Lines
      BY <2>2, <2>3, TogetherSome DEF Together, Lines
    <3>2. Cardinality(todo) \in Nat /\ Cardinality(allocated) \in Nat
      BY LinesFinite DEF ShapeInv, SearchInv
    <3>3. calls' \in Nat /\ calls' + Cardinality(todo) <= Cardinality(allocated) + 1
      BY <1>1, <1>4, <2>3, <3>2 DEF ShapeInv, SearchInv
    <3>4. QED
      BY <1>1, <2>2, <2>3, <2>4, <2>5, <3>1, <3>3 DEF ShapeInv, SearchInv, Promising
  <2>8. AnswersInv'
    BY <2>2 DEF ShapeInv, AnswersInv, Promisable, InTime, Undivided, Promising
  <2>9. QED
    BY <2>6, <2>7, <2>8 DEF ShapeInv
<1>5. QED
  BY <1>3, <1>4 DEF NextCutoffs, WindowsFrom

LEMMA NextWindowShape ==
  ASSUME ShapeInv, phase = "fit", NEW found, Promisable(found),
         found # {} => order.deadline # Unknown, NextWindow(found), Still, calls' = calls
  PROVE  ShapeInv'
<1>1. CASE Tail(windows) = <<>>
  <2>1. OutOfWindows(found)
    BY <1>1 DEF NextWindow
  <2>2. QED
    BY <2>1, OutOfWindowsShape
<1>2. CASE Tail(windows) # <<>>
  <2>1. /\ windows' = Tail(windows) /\ fitting' = {} /\ best' = found
        /\ UNCHANGED <<phase, todo, answers, calls>>
        /\ UNCHANGED <<wired, catalogue, schedule, capacity, changes, stable, order, tags, pathID,
                       paths, now, allocated>>
    BY <1>2 DEF NextWindow, Still, caches, routing
  <2>2. windows \in Seq(Windows) /\ windows # <<>>
    BY DEF ShapeInv, SearchInv
  <2>3. /\ windows' \in Seq(Windows) /\ Len(windows') = Len(windows) - 1
        /\ \A k \in 1..Len(windows') : windows'[k] = windows[k + 1] /\ k + 1 \in 1..Len(windows)
    BY <2>1, <2>2
  <2>4. CachesInv' /\ RouteInv'
    BY <2>1 DEF ShapeInv, CachesInv, RouteInv
  <2>5. SearchInv'
    <3>1. todo # {} /\ Len(windows) \in Nat /\ Len(windows) <= Horizon
      BY <2>2 DEF ShapeInv, SearchInv
    <3>2. Together' = Together /\ Together # {} /\ Lines' = Lines
      BY <2>1, <3>1, TogetherSome DEF Together, Lines
    <3>3. Len(windows') <= Horizon /\ \A k \in 1..Len(windows') : windows'[k].at > now
      BY <2>3, <3>1, IntakeAssumption DEF ShapeInv, SearchInv
    <3>4. QED
      BY <1>2, <2>1, <2>3, <3>1, <3>2, <3>3 DEF ShapeInv, SearchInv, Promising
  <2>6. AnswersInv'
    BY <2>1 DEF ShapeInv, AnswersInv, Promisable, InTime, Undivided, Promising
  <2>7. QED
    BY <2>4, <2>5, <2>6 DEF ShapeInv
<1>3. QED
  BY <1>1, <1>2

(* The line looked at next is one of those that are promised together. *)
LEMMA LineLookedAt ==
  ASSUME ShapeInv, phase = "fit"
  PROVE  First(Together \ fitting) \in Together \ fitting
<1>1. todo # {} /\ fitting \in SUBSET Together /\ fitting # Together
  BY DEF ShapeInv, SearchInv
<1>2. Together \ fitting # {} /\ Together \ fitting \in SUBSET Nat
  BY <1>1, TogetherSome, LinesFinite DEF ShapeInv, SearchInv
<1>3. QED
  BY <1>2, FirstIsFirst

LEMMA WindowPromisable ==
  ASSUME ShapeInv, phase = "fit", InTime(Head(windows))
  PROVE  Promisable({PromiseOf(Head(windows))}) /\ Promisable(Later(Head(windows)))
<1>1. windows \in Seq(Windows) /\ windows # <<>> /\ \A k \in 1..Len(windows) : windows[k].at > now
  BY DEF ShapeInv, SearchInv
<1>2. Head(windows) = windows[1] /\ 1 \in 1..Len(windows) /\ windows[1] \in Windows
  BY <1>1
<1>3. Head(windows).at \in Int /\ Head(windows).at > now
  BY <1>1, <1>2 DEF Windows
<1>4. Promisable({PromiseOf(Head(windows))})
  BY <1>3 DEF Promisable, PromiseOf, InTime
<1>5. QED
  BY <1>4 DEF Later, ShapeInv, AnswersInv

LEMMA LineAgainstWindowShape ==
  ASSUME ShapeInv, LineAgainstWindow
  PROVE  ShapeInv'
<1> DEFINE w == Head(windows)
           i == First(Together \ fitting)
<1>1. phase = "fit" /\ Still /\ calls' = calls
  BY DEF LineAgainstWindow, Still
<1>2. Promisable(best) /\ (best # {} => order.deadline # Unknown)
  BY DEF ShapeInv, AnswersInv
<1>3. CASE NextWindow(best)
  BY <1>1, <1>2, <1>3, NextWindowShape
<1>4. CASE /\ fitting \cup {i} # Together /\ fitting' = fitting \cup {i}
           /\ UNCHANGED <<phase, todo, windows, best, answers>>
  <2>1. UNCHANGED <<wired, catalogue, schedule, capacity, changes, stable, order, tags, pathID,
                    paths, now, allocated, calls>>
    BY <1>1 DEF Still, caches, routing
  <2>2. i \in Together
    BY <1>1, LineLookedAt
  <2>3. CachesInv' /\ RouteInv'
    BY <1>4, <2>1 DEF ShapeInv, CachesInv, RouteInv
  <2>4. SearchInv'
    <3>1. Together' = Together /\ Lines' = Lines
      BY <1>4, <2>1 DEF Together, Lines
    <3>2. fitting' \in SUBSET Together /\ fitting' # Together
      BY <1>1, <1>4, <2>2 DEF ShapeInv, SearchInv
    <3> HIDE DEF i
    <3>3. QED
      BY <1>1, <1>4, <2>1, <3>1, <3>2 DEF ShapeInv, SearchInv, Promising
  <2>5. AnswersInv'
    BY <1>4, <2>1 DEF ShapeInv, AnswersInv, Promisable, InTime, Undivided, Promising
  <2>6. QED
    BY <2>3, <2>4, <2>5 DEF ShapeInv
<1>5. CASE InTime(w) /\ order.deadline = Unknown /\ Conclude({PromiseOf(w)})
  BY <1>1, <1>5, WindowPromisable, ConcludeShape
<1>6. CASE InTime(w) /\ order.deadline # Unknown /\ NextWindow(Later(w))
  BY <1>1, <1>6, WindowPromisable, NextWindowShape
<1>7. QED
  BY <1>3, <1>4, <1>5, <1>6 DEF LineAgainstWindow

LEMMA StutterShape ==
  ASSUME ShapeInv, UNCHANGED vars
  PROVE  ShapeInv'
  BY DEF ShapeInv, CachesInv, RouteInv, SearchInv, AnswersInv, Promisable, InTime, Undivided,
         Promising, Together, Lines, vars, caches, routing, promising

LEMMA NextShape == ShapeInv /\ [Next]_vars => ShapeInv'
<1> SUFFICES ASSUME ShapeInv, [Next]_vars PROVE ShapeInv'
  OBVIOUS
<1>1. CASE CacheUpdate
  BY <1>1, CacheUpdateShape
<1>2. CASE Route
  BY <1>2, RouteShape
<1>3. CASE Allocate
  BY <1>3, AllocateShape
<1>4. CASE NextCutoffs
  BY <1>4, NextCutoffsShape
<1>5. CASE LineAgainstWindow
  BY <1>5, LineAgainstWindowShape
<1>6. CASE UNCHANGED vars
  BY <1>6, StutterShape
<1>7. QED
  BY <1>1, <1>2, <1>3, <1>4, <1>5, <1>6 DEF Next, ComputePromise

THEOREM ShapeInvariant == Spec => []ShapeInv
<1>1. Init => ShapeInv
  BY InitShape
<1>2. ShapeInv /\ [Next]_vars => ShapeInv'
  BY NextShape
<1>3. QED
  BY <1>1, <1>2, PTL DEF Spec

(* The types, and the bounds on what a request does: a line is looked at   *)
(* once, and the schedule is asked once for each line at most.             *)
THEOREM TypeCorrect == Spec => []TypeOK
<1>1. ShapeInv => TypeOK
  <2> SUFFICES ASSUME ShapeInv PROVE TypeOK
    OBVIOUS
  <2>1. /\ wired \in BOOLEAN /\ stable \in BOOLEAN /\ changes \in 0..MaxChanges
        /\ catalogue \subseteq Definitions /\ UniqueIds(catalogue)
        /\ schedule \in Schedules \cup {Unknown} /\ capacity \subseteq Capacities
        /\ order \in Orders
    BY DEF ShapeInv, CachesInv
  <2>2. /\ Lines = 1..Len(order.lines) /\ Len(order.lines) \in Nat
        /\ Cardinality(todo) \in Nat /\ Cardinality(allocated) \in 0..Len(order.lines)
        /\ allocated \subseteq Lines /\ todo \subseteq allocated
    BY LinesFinite DEF ShapeInv, SearchInv
  <2>3. /\ phase \in {"classify", "select", "check", "ineligible", "invalid", "unknownPath",
                      "allocate", "cutoffs", "fit", "done"}
        /\ Len(paths) <= Len(tags) /\ Len(tags) <= Len(order.lines)
        /\ \A i \in DOMAIN paths : order.lines[i].qty > 0
    <3>1. Len(paths) \in Nat /\ Len(tags) \in Nat /\ DOMAIN paths = 1..Len(paths)
      BY DEF ShapeInv, RouteInv
    <3>2. QED
      BY <2>2, <3>1 DEF ShapeInv, RouteInv, Promising
  <2>4. fitting \subseteq todo
    <3>1. CASE phase = "fit"
      BY <3>1, TogetherSome DEF ShapeInv, SearchInv
    <3>2. CASE phase # "fit"
      BY <3>2 DEF ShapeInv, SearchInv
    <3>3. QED
      BY <3>1, <3>2
  <2>5. calls \in 0..Len(order.lines)
    <3>1. CASE phase = "fit"
      <4>1. Cardinality(todo) # 0
        BY <3>1, FS_EmptySet, LinesFinite DEF ShapeInv, SearchInv
      <4>2. QED
        BY <2>2, <3>1, <4>1 DEF ShapeInv, SearchInv
    <3>2. CASE phase # "fit"
      BY <2>2, <3>2 DEF ShapeInv, SearchInv
    <3>3. QED
      BY <3>1, <3>2
  <2>6. /\ Len(windows) <= Horizon
        /\ phase = "fit" => windows # <<>> /\ todo # {} /\ fitting # Together
    BY DEF ShapeInv, SearchInv
  <2>7. QED
    BY <2>1, <2>2, <2>3, <2>4, <2>5, <2>6 DEF TypeOK
<1>2. QED
  BY <1>1, ShapeInvariant, PTL

(* Whatever the consumers of the caches do while a promise is computed,    *)
(* and whichever lines are released already, setPromiseDate leaves the     *)
(* order with promises that SetPromiseDate allows, and OrderLifecycle      *)
(* relies on no more: all allocated lines promised, a ship-complete order  *)
(* not divided, a deadline kept for the whole order or not promised.       *)
THEOREM AnswersFit == Spec => []AnswersFitLifecycle
<1>1. ShapeInv => AnswersFitLifecycle
  <2> SUFFICES ASSUME ShapeInv, phase = "done" PROVE AnswersFitLifecycle!2
    BY DEF AnswersFitLifecycle
  <2> DEFINE Same(p) == UNION {b.lines : b \in {b \in answers : b.promise = p}}
  <2>0. \A g : g \in PromiseGroups <=>
               \E a \in answers : g = [lines |-> Same(a.promise), promise |-> a.promise]
    BY DEF PromiseGroups
  <2>1. \A g \in PromiseGroups : \E a \in answers : g.promise = a.promise /\ g.lines = Same(a.promise)
    BY DEF PromiseGroups
  <2>2. \A a \in answers : \E g \in PromiseGroups : g.promise = a.promise /\ g.lines = Same(a.promise)
    <3> HIDE DEF Same
    <3>1. SUFFICES ASSUME NEW a \in answers
                   PROVE  \E g \in PromiseGroups :
                            g.promise = a.promise /\ g.lines = Same(a.promise)
      OBVIOUS
    <3> DEFINE g == [lines |-> Same(a.promise), promise |-> a.promise]
    <3>2. g \in PromiseGroups
      BY <2>0
    <3>3. QED
      BY <3>2
  <2>3. /\ \A a \in answers : /\ a.lines \in SUBSET allocated
                              /\ a.promise.at > now /\ InTime(a.promise)
        /\ \A a, b \in answers : a # b => a.lines \cap b.lines = {}
        /\ order.deadline = Unknown => \A i \in allocated : \E a \in answers : i \in a.lines
        /\ Undivided => (\A a \in answers : a.lines = allocated) /\ \A a, b \in answers : a = b
    BY DEF ShapeInv, AnswersInv, SearchInv
  <2>4. \A g, h \in PromiseGroups : g # h => g.lines \cap h.lines = {}
    <3>1. SUFFICES ASSUME NEW g \in PromiseGroups, NEW h \in PromiseGroups,
                          NEW i \in g.lines, i \in h.lines
                   PROVE  g = h
      OBVIOUS
    <3>2. PICK a \in answers : i \in a.lines /\ a.promise = g.promise
      BY <3>1, <2>1
    <3>3. PICK b \in answers : i \in b.lines /\ b.promise = h.promise
      BY <3>1, <2>1
    <3>4. a = b
      BY <2>3, <3>2, <3>3
    <3>5. g.promise = h.promise
      BY <3>2, <3>3, <3>4
    <3>6. QED
      <4> HIDE DEF Same
      <4> QED BY <3>1, <3>5, <2>0
  <2>5. \A a \in answers : a.promise \in Ahead /\ a.promise \in {p \in Ahead : InTime(p)}
    BY <2>3 DEF Ahead
  <2>6. \A g \in PromiseGroups : g.lines \subseteq allocated
    BY <2>1, <2>3
  <2> SUFFICES ASSUME NEW released \in SUBSET allocated
               PROVE  Promised(released) \in Policy!SetPromiseDate(Unpromised(released))
    BY <2>4, <2>6
  <2> DEFINE Given == [i \in Lines |-> IF InGroup(i, released)
                        THEN (CHOOSE a \in answers : i \in a.lines).promise ELSE Unknown]
  <2>7. /\ \A a \in answers : \A i \in Lines :
             i \in a.lines /\ InGroup(i, released) => Given[i] = a.promise
        /\ \A i \in Lines : ~InGroup(i, released) => Given[i] = Unknown
        /\ \A a \in answers : \A i \in a.lines :
             InGroup(i, released) <=> order.deadline = Unknown \/ i \notin released
        /\ \A i \in Lines : i \notin allocated => ~InGroup(i, released)
    <3>1. ASSUME NEW a \in answers, NEW i \in Lines, i \in a.lines, InGroup(i, released)
          PROVE  Given[i] = a.promise
      <4>1. (CHOOSE b \in answers : i \in b.lines) = a
        BY <2>3, <3>1
      <4>2. QED
        BY <4>1, <3>1
    <3>2. \A i \in Lines : i \notin allocated => ~InGroup(i, released)
      BY <2>3 DEF InGroup
    <3>3. QED
      BY <3>1, <3>2 DEF InGroup
  <2>8. /\ answers = {} => Promised(released) = Unpromised(released)
        /\ answers # {} => Promised(released) = Policy!SetPromiseGroups(Unpromised(released), Given)
    BY DEF Promised
  <2>9. /\ \A i \in Lines :
             Unpromised(released).status[i] = "Allocated" <=> i \in allocated \ released
        /\ Policy!PromisedLines(Unpromised(released)) = allocated
        /\ Unpromised(released).intent.partial = order.partial
        /\ Unpromised(released).intent.deadline = (order.deadline # Unknown)
    <3>1. \A i \in Lines :
            /\ Unpromised(released).status[i] = "Allocated" <=> i \in allocated \ released
            /\ Unpromised(released).status[i] = "Released" <=> i \in released
      BY DEF Unpromised
    <3>2. allocated \subseteq Lines
      BY DEF ShapeInv, SearchInv
    <3>3. Policy!PromisedLines(Unpromised(released)) = allocated
      BY <3>1, <3>2 DEF Policy!PromisedLines, Policy!LinesWithStatus
    <3>4. QED
      BY <3>1, <3>3 DEF Unpromised
  <2> HIDE DEF Given
  <2>10. Promised(released) \in Policy!SetPromiseDate(Unpromised(released))
    <3>1. CASE answers = {}
      <4>1. Promised(released) = Unpromised(released)
        BY <2>8, <3>1
      <4>2. order.deadline = Unknown => allocated = {}
        BY <2>3, <3>1
      <4>3. order.deadline = Unknown => Policy!PromiseGroups(Unpromised(released)) = {}
        BY <4>2, <2>9 DEF Policy!PromiseGroups
      <4>4. QED
        BY <4>1, <4>3, <2>9 DEF Policy!SetPromiseDate
    <3>2. CASE answers # {} /\ order.deadline # Unknown
      <4>1. PICK a \in answers : a.lines = allocated
        BY <2>3, <3>2 DEF Undivided
      <4>2. Given = [l \in Lines |-> IF Unpromised(released).status[l] = "Allocated" THEN a.promise ELSE Unknown]
        BY <2>7, <2>9, <3>2, <4>1 DEF Given
      <4>3. allocated # {}
        BY <4>1 DEF ShapeInv, AnswersInv
      <4>4. Given \in Policy!FeasibleGroups(Unpromised(released))
        BY <2>5, <2>9, <4>1, <4>2, <4>3 DEF Policy!FeasibleGroups
      <4>5. QED
        BY <2>8, <2>9, <3>2, <4>4 DEF Policy!SetPromiseDate
    <3>3. CASE answers # {} /\ order.deadline = Unknown
      <4>1. PICK a \in answers : a.lines # {} /\ a.lines \subseteq allocated
        BY <2>3, <3>3 DEF ShapeInv, AnswersInv
      <4>2. Given \in Policy!PromiseGroups(Unpromised(released))
        <5>1. CASE order.partial
          <6> DEFINE f == [l \in Lines |-> IF l \in allocated THEN Given[l] ELSE a.promise]
          <6>1. \A l \in allocated : Given[l] \in Ahead
            BY <2>3, <2>5, <2>7, <3>3 DEF ShapeInv, SearchInv
          <6>2. f \in [Lines -> Ahead]
            BY <6>1, <2>5
          <6>3. Given = [l \in Lines |-> IF l \in allocated THEN f[l] ELSE Unknown]
            BY <2>7 DEF Given
          <6>4. QED
            <7> HIDE DEF f
            <7> QED BY <6>2, <6>3, <4>1, <5>1, <2>9 DEF Policy!PromiseGroups
        <5>2. CASE ~order.partial
          <6>1. a.lines = allocated
            BY <2>3, <5>2 DEF Undivided
          <6>2. Given = [l \in Lines |-> IF l \in allocated THEN a.promise ELSE Unknown]
            BY <2>7, <3>3, <6>1 DEF Given
          <6> DEFINE f == [l \in Lines |-> a.promise]
          <6>3. Given = [l \in Lines |-> IF l \in allocated THEN f[l] ELSE Unknown]
            BY <6>2
          <6>4. QED
            BY <6>3, <4>1, <5>2, <2>5, <2>9 DEF Policy!PromiseGroups
        <5>3. QED
          BY <5>1, <5>2
      <4>3. QED
        BY <2>8, <2>9, <3>3, <4>2 DEF Policy!SetPromiseDate
    <3>4. QED
      BY <3>1, <3>2, <3>3
  <2>11. QED
    BY <2>10
<1>2. QED
  BY <1>1, ShapeInvariant, PTL

----------------------------------------------------------------------------
(* Routing against a catalogue that stands still. *)

LEMMA InitRouting == Init => RoutingInv
<1> SUFFICES ASSUME Init PROVE RoutingInv
  OBVIOUS
<1>1. paths = <<>> /\ phase = "classify" /\ Len(paths) = 0
  BY EmptySeq DEF Init
<1>2. QED
  BY <1>1 DEF RoutingInv, StableRouting

(* SelectPath answers a right path, or none if no active path admits the   *)
(* line.                                                                   *)
LEMMA SelectRouting ==
  ASSUME ShapeInv, SelectPath
  PROVE  /\ phase' = "check" => pathID' \in RightPaths(Len(tags))
         /\ phase' = "ineligible" => catalogue # {} /\ Admits(Len(tags)) = {}
<1>1. /\ phase = "select" /\ pathID' = Select(catalogue, Line.qty, Attributes(Len(tags)))
      /\ phase' = IF pathID' = NoPath THEN "ineligible" ELSE "check"
  BY DEF SelectPath
<1>2. Line = order.lines[Len(tags)]
  BY <1>1 DEF Line, ShapeInv, RouteInv
<1>3. Eligible(catalogue, Line.qty, Attributes(Len(tags))) = Admits(Len(tags))
  BY <1>2 DEF Eligible, Admits
<1>4. catalogue \in SUBSET Definitions /\ UniqueIds(catalogue)
  BY DEF ShapeInv, CachesInv
<1>5. /\ catalogue = {} => pathID' = DefaultPath
      /\ catalogue # {} /\ Admits(Len(tags)) = {} => pathID' = NoPath
      /\ Admits(Len(tags)) # {} =>
           \E d \in catalogue : pathID' = d.id /\ d \in Fastest(Admits(Len(tags)))
  BY <1>1, <1>3, <1>4, SelectAnswers
<1>6. DefaultPath # NoPath /\ \A d \in catalogue : d.id # NoPath
  BY <1>4, CatalogueAssumption
<1>7. ASSUME phase' = "check" PROVE pathID' \in RightPaths(Len(tags))
  <2>1. CASE catalogue = {}
    BY <1>5, <2>1 DEF RightPaths
  <2>2. CASE catalogue # {}
    <3>1. PICK d \in Fastest(Admits(Len(tags))) : pathID' = d.id
      BY <1>1, <1>5, <1>7, <2>2
    <3>2. QED
      BY <2>2, <3>1 DEF RightPaths
  <2>3. QED
    BY <2>1, <2>2
<1>8. phase' = "ineligible" => catalogue # {} /\ Admits(Len(tags)) = {}
  BY <1>1, <1>5, <1>6
<1>9. QED
  BY <1>7, <1>8

LEMMA RouteRouting ==
  ASSUME ShapeInv, RoutingInv, Route
  PROVE  RoutingInv'
<1>1. UNCHANGED <<wired, catalogue, order>>
  BY DEF Route, productAttributes, SelectPath, CheckLine, caches
<1>2. /\ tags \in Seq(TagSets) /\ paths \in Seq(PathIds) /\ Len(paths) \in Nat /\ Len(tags) \in Nat
      /\ phase \in {"select", "check"} => Len(tags) = Len(paths) + 1
  BY DEF ShapeInv, RouteInv
<1>3. CASE productAttributes
  <2>1. /\ paths' = paths /\ pathID' = Line.path /\ Line' = Line
        /\ phase' = "select" \/ (phase' = "check" /\ Line.path # NoPath)
    BY <1>1, <1>3 DEF productAttributes, Line
  <2>2. QED
    BY <2>1 DEF RoutingInv, StableRouting
<1>4. CASE SelectPath
  <2>1. /\ UNCHANGED <<tags, paths>> /\ phase' \in {"check", "ineligible"}
    BY <1>4 DEF SelectPath
  <2>2. /\ phase' = "check" => pathID' \in RightPaths(Len(tags))
        /\ phase' = "ineligible" => catalogue # {} /\ Admits(Len(tags)) = {}
    BY <1>4, SelectRouting
  <2>3. (RightPaths(Len(tags)))' = RightPaths(Len(tags)) /\ (Admits(Len(tags)))' = Admits(Len(tags))
    BY <1>1, <2>1 DEF RightPaths, Admits, Attributes
  <2>4. QED
    BY <1>1, <2>1, <2>2, <2>3 DEF RoutingInv, StableRouting
<1>5. CASE CheckLine
  <2>1. phase = "check" /\ UNCHANGED <<stable, tags, pathID>>
    BY <1>5 DEF CheckLine
  <2>2. Line = order.lines[Len(tags)] /\ Len(tags) = Len(paths) + 1
    BY <1>2, <2>1 DEF Line
  <2>3. wired /\ stable /\ Line.path = NoPath => pathID \in RightPaths(Len(tags))
    BY <2>1 DEF RoutingInv
  <2>4. CASE paths' = paths /\ phase' = "invalid"
    BY <2>4 DEF RoutingInv, StableRouting
  <2>5. CASE ~IsActive(catalogue, pathID) /\ paths' = paths /\ phase' = "unknownPath"
    <3>1. Line' = Line
      BY <1>1, <2>5 DEF Line
    <3>2. (RightPaths(Len(tags)))' = RightPaths(Len(tags))
      BY <1>1, <2>1 DEF RightPaths, Admits, Attributes
    <3>3. QED
      BY <1>1, <2>1, <2>3, <2>5, <3>1, <3>2 DEF RoutingInv, StableRouting
  <2>6. CASE /\ wired => IsActive(catalogue, pathID)
             /\ paths' = Append(paths, pathID) /\ phase' \in {"allocate", "classify"}
    <3>1. pathID \in PathIds
      BY <2>1 DEF ShapeInv, RouteInv
    <3>2. Len(paths') = Len(tags) /\ paths'[Len(paths')] = pathID
      BY <1>2, <2>2, <2>6, <3>1
    <3>3. (RightPaths(Len(paths)))' = RightPaths(Len(tags))
      BY <1>1, <2>1, <3>2 DEF RightPaths, Admits, Attributes
    <3>4. QED
      BY <1>1, <2>1, <2>2, <2>3, <2>6, <3>2, <3>3 DEF RoutingInv, StableRouting
  <2>7. QED
    BY <1>5, <2>4, <2>5, <2>6 DEF CheckLine
<1>6. QED
  BY <1>3, <1>4, <1>5 DEF Route

LEMMA NextRouting == ShapeInv /\ RoutingInv /\ [Next]_vars => RoutingInv'
<1> SUFFICES ASSUME ShapeInv, RoutingInv, [Next]_vars PROVE RoutingInv'
  OBVIOUS
<1>1. CASE CacheUpdate
  BY <1>1 DEF CacheUpdate, applyUpsert, applyDeactivated, ScheduleChanged, CapacityChanged,
              Change, RoutingInv, StableRouting
<1>2. CASE Route
  BY <1>2, RouteRouting
<1>3. CASE ComputePromise
  <2>1. phase' \in Promising
    BY <1>3 DEF ComputePromise, Allocate, NextCutoffs, LineAgainstWindow, NextWindow,
                OutOfWindows, Conclude, Promising
  <2>2. QED
    BY <2>1 DEF RoutingInv, StableRouting, Promising
<1>4. CASE UNCHANGED vars
  BY <1>4 DEF vars, caches, routing, promising, RoutingInv, StableRouting, RightPaths, Admits,
              Attributes, Line
<1>5. QED
  BY <1>1, <1>2, <1>3, <1>4 DEF Next

(* A line that names no path is sent to an active path, the fastest that   *)
(* admits it, and refused only for the reasons StableRouting gives, for    *)
(* every catalogue: ids and prefixes are independent, so that an id may be *)
(* in no family, in another definition's or in several.  The catalogue has *)
(* to stand still only from the line's selection to its check.             *)
THEOREM RoutingStable == Spec => []StableRouting
<1>1. Init => RoutingInv
  BY InitRouting
<1>2. RoutingInv => StableRouting
  BY DEF RoutingInv
<1>3. QED
  BY <1>1, <1>2, NextRouting, ShapeInvariant, PTL DEF Spec

----------------------------------------------------------------------------
(* The promise against caches that stand still. *)

LEMMA InitStill == Init => StillInv
  BY DEF Init, StillInv, Promising

(* A step of the search changes nothing of what it is measured against. *)
LEMMA MeasureKept ==
  ASSUME Still
  PROVE  /\ Seen' = Seen /\ Falling' = Falling
         /\ order' = order /\ allocated' = allocated /\ stable' = stable
         /\ \A o : InTime(o)' <=> InTime(o)
         /\ \A i, o : LineMakes(i, o)' <=> LineMakes(i, o)
         /\ \A lines, o : /\ CanMake(lines, o)' <=> CanMake(lines, o)
                          /\ MustMake(lines, o)' <=> MustMake(lines, o)
         /\ \A lines, p : Kept(lines, p)' <=> Kept(lines, p)
<1>1. UNCHANGED <<wired, catalogue, schedule, capacity, stable, order, paths, now, allocated>>
  BY DEF Still, caches, routing
<1>2. Falling' = Falling
  BY <1>1 DEF Falling
<1>3. Seen' = Seen
  BY <1>1, <1>2 DEF Seen
<1>4. \A i, o, cycle : lineFits(i, o, cycle)' <=> lineFits(i, o, cycle)
  BY <1>1 DEF lineFits, Exhausted
<1>5. \A i, o : LineMakes(i, o)' <=> LineMakes(i, o)
  BY <1>1, <1>4 DEF LineMakes
<1>6. \A lines, o : /\ CanMake(lines, o)' <=> CanMake(lines, o)
                    /\ MustMake(lines, o)' <=> MustMake(lines, o)
  BY <1>1, <1>4 DEF CanMake, MustMake
<1>7. \A lines, p : Kept(lines, p)' <=> Kept(lines, p)
  BY <1>2, <1>6 DEF Kept
<1>8. QED
  BY <1>1, <1>2, <1>3, <1>5, <1>6, <1>7 DEF InTime

LEMMA PromisesKept ==
  ASSUME Still
  PROVE  /\ \A lines, p : EarliestPromise(lines, p)' <=> EarliestPromise(lines, p)
         /\ \A lines, found : NetworkPromises(lines, found)' <=> NetworkPromises(lines, found)
         /\ \A lines, left, found : InSight(lines, left, found)' <=> InSight(lines, left, found)
         /\ \A left : WindowsFall(left)' <=> WindowsFall(left)
<1>1. \A lines, p : EarliestPromise(lines, p)' <=> EarliestPromise(lines, p)
  BY MeasureKept DEF EarliestPromise
<1>2. \A lines, found : NetworkPromises(lines, found)' <=> NetworkPromises(lines, found)
  BY MeasureKept DEF NetworkPromises
<1>3. \A lines, left, found : InSight(lines, left, found)' <=> InSight(lines, left, found)
  BY MeasureKept DEF InSight
<1>4. \A left : WindowsFall(left)' <=> WindowsFall(left)
  BY MeasureKept DEF WindowsFall
<1>5. QED
  BY <1>1, <1>2, <1>3, <1>4

LEMMA ConcludeStill ==
  ASSUME ShapeInv, StillInv, phase \in {"cutoffs", "fit"}, NEW P, Conclude(P), Still,
         stable /\ order.deadline = Unknown =>
           \A p \in P : EarliestPromise(Together, p),
         stable /\ order.deadline # Unknown =>
           NetworkPromises(Together, P) /\ InSight(Together, <<>>, P)
  PROVE  StillInv'
<1>1. /\ answers' = answers \cup {[lines |-> Together, promise |-> p] : p \in P}
      /\ phase' \in {"done", "cutoffs"} /\ (phase' = "cutoffs" => todo \ Together # {})
  BY DEF Conclude
<1>2. /\ order' = order /\ allocated' = allocated /\ stable' = stable
  BY MeasureKept
<1>3. SUFFICES ASSUME stable
               PROVE  /\ order.deadline = Unknown =>
                           \A a \in answers' : EarliestPromise(a.lines, a.promise)
                      /\ order.deadline # Unknown =>
                           \A a \in answers' : NetworkPromises(a.lines, {a.promise})
                      /\ order.deadline # Unknown =>
                           InSight(allocated, <<>>, {a.promise : a \in answers'})
  BY <1>1, <1>2, PromisesKept DEF StillInv
<1>4. \A a \in answers' : a \in answers \/ (a.lines = Together /\ a.promise \in P)
  BY <1>1
<1>5. order.deadline = Unknown => \A a \in answers' : EarliestPromise(a.lines, a.promise)
  BY <1>3, <1>4 DEF StillInv, Promising
<1>6. order.deadline # Unknown => \A a \in answers' : NetworkPromises(a.lines, {a.promise})
  <2>1. SUFFICES ASSUME order.deadline # Unknown, NEW a \in answers'
                 PROVE  NetworkPromises(a.lines, {a.promise})
    OBVIOUS
  <2>2. CASE a \in answers
    BY <1>3, <2>1, <2>2 DEF StillInv, Promising
  <2>3. CASE a.lines = Together /\ a.promise \in P
    BY <1>3, <2>1, <2>3 DEF NetworkPromises
  <2>4. QED
    BY <1>4, <2>2, <2>3
<1>7. ASSUME order.deadline # Unknown
      PROVE  InSight(allocated, <<>>, {a.promise : a \in answers'})
  <2>1. todo # {} /\ todo = allocated /\ answers = {}
    BY <1>7 DEF ShapeInv, SearchInv, AnswersInv, Undivided
  <2>2. Together = allocated
    BY <1>7, <2>1, TogetherSome DEF Undivided
  <2>3. \A p : p \in P <=> \E a \in answers' : p = a.promise
    <3>1. answers' = {[lines |-> Together, promise |-> p] : p \in P}
      BY <1>1, <2>1
    <3>2. ASSUME NEW p \in P PROVE \E a \in answers' : p = a.promise
      <4>1. [lines |-> Together, promise |-> p] \in answers'
        BY <3>1
      <4>2. QED
        BY <4>1
    <3>3. QED
      BY <3>1, <3>2
  <2>4. InSight(allocated, <<>>, P)
    BY <1>3, <1>7, <2>2
  <2>5. {a.promise : a \in answers'} = P
    BY <2>3
  <2>6. QED
    BY <2>4, <2>5
<1>8. QED
  BY <1>5, <1>6, <1>7

LEMMA OutOfWindowsStill ==
  ASSUME ShapeInv, StillInv, phase \in {"cutoffs", "fit"}, NEW found, OutOfWindows(found),
         Still, order.deadline = Unknown => found = {},
         stable =>
           NetworkPromises(Together, found) /\ InSight(Together, <<>>, found)
  PROVE  StillInv'
<1> DEFINE lead == [basis |-> "leadTime", cpt |-> Unknown,
                    at |-> now + SlowestLead(Together), loc |-> Unknown]
           P == IF order.deadline # Unknown THEN found ELSE {lead}
<1>1. Conclude(P)
  BY DEF OutOfWindows
<1>2. ASSUME stable, order.deadline = Unknown, NEW p \in P
      PROVE  EarliestPromise(Together, p)
  <2>1. p.basis = "leadTime"
    BY <1>2
  <2>2. ASSUME NEW o \in Seen, MustMake(Together, o) PROVE FALSE
    <3>1. InTime(o)
      BY <1>2 DEF InTime
    <3>2. Len(<<>>) = 0 /\ found = {}
      BY <1>2, EmptySeq
    <3>3. QED
      BY <1>2, <2>2, <3>1, <3>2 DEF InSight
  <2>3. QED
    BY <2>1, <2>2 DEF EarliestPromise
<1>3. stable /\ order.deadline # Unknown =>
        NetworkPromises(Together, P) /\ InSight(Together, <<>>, P)
  OBVIOUS
<1>4. QED
  <2> HIDE DEF P
  <2> QED BY <1>1, <1>2, <1>3, ConcludeStill

LEMMA NextWindowStill ==
  ASSUME ShapeInv, StillInv, phase = "fit", NEW found, NextWindow(found), Still,
         order.deadline = Unknown => found = {},
         stable =>
           NetworkPromises(Together, found) /\ InSight(Together, Tail(windows), found)
  PROVE  StillInv'
<1>1. CASE Tail(windows) = <<>>
  <2>1. OutOfWindows(found)
    BY <1>1 DEF NextWindow
  <2>2. QED
    BY <1>1, <2>1, OutOfWindowsStill
<1>2. CASE Tail(windows) # <<>>
  <2>1. /\ windows' = Tail(windows) /\ fitting' = {} /\ best' = found
        /\ UNCHANGED <<phase, todo, answers>>
    BY <1>2 DEF NextWindow
  <2>2. /\ order' = order /\ allocated' = allocated /\ stable' = stable
    BY MeasureKept
  <2>3. Together' = Together
    BY <2>1, <2>2 DEF Together
  <2>4. SUFFICES ASSUME stable
                 PROVE  /\ order.deadline = Unknown =>
                             \A a \in answers : EarliestPromise(a.lines, a.promise)
                        /\ order.deadline # Unknown =>
                             \A a \in answers : NetworkPromises(a.lines, {a.promise})
                        /\ WindowsFall(Tail(windows))
    BY <2>1, <2>2, <2>3, PromisesKept DEF StillInv
  <2>5. WindowsFall(windows)
    BY <2>4 DEF StillInv, Promising
  <2>6. windows \in Seq(Windows) /\ windows # <<>>
    BY DEF ShapeInv, SearchInv
  <2>7. /\ Len(windows) \in Nat /\ Len(Tail(windows)) = Len(windows) - 1
        /\ \A k \in 1..Len(Tail(windows)) : /\ k + 1 \in 1..Len(windows)
                                            /\ Tail(windows)[k] = windows[k + 1]
    BY <2>6
  <2>8. WindowsFall(Tail(windows))
    <3> DEFINE rest == Tail(windows)
    <3>1. \A k \in 1..Len(rest) : \E o \in Falling : Matches(rest[k], o)
      BY <2>5, <2>7 DEF WindowsFall
    <3>2. ASSUME NEW j \in 1..Len(rest), NEW k \in 1..Len(rest), j < k
          PROVE  rest[j].at <= rest[k].at
      <4>1. j + 1 \in 1..Len(windows) /\ k + 1 \in 1..Len(windows) /\ j + 1 < k + 1
        BY <2>7, <3>2
      <4>2. windows[j + 1].at <= windows[k + 1].at
        BY <2>5, <4>1 DEF WindowsFall
      <4>3. QED
        BY <2>7, <4>2
    <3>3. QED
      BY <3>1, <3>2 DEF WindowsFall
  <2>9. QED
    BY <2>4, <2>8 DEF StillInv, Promising
<1>3. QED
  BY <1>1, <1>2

LEMMA AllocateStill ==
  ASSUME ShapeInv, Allocate
  PROVE  StillInv'
<1>1. /\ phase = "allocate" /\ answers' = answers /\ phase' \in {"done", "cutoffs"}
      /\ phase' = "done" => allocated' = {}
  BY DEF Allocate
<1>2. answers = {}
  BY <1>1 DEF ShapeInv, AnswersInv, Promising
<1>3. QED
  BY <1>1, <1>2 DEF StillInv

LEMMA NextCutoffsStill ==
  ASSUME ShapeInv, StillInv, NextCutoffs
  PROVE  StillInv'
<1>1. phase = "cutoffs" /\ Still
  BY DEF NextCutoffs, Still
<1>2. ASSUME Seen = {}, OutOfWindows({}) PROVE StillInv'
  <2>1. NetworkPromises(Together, {}) /\ InSight(Together, <<>>, {})
    BY <1>2 DEF NetworkPromises, InSight
  <2>2. QED
    BY <1>1, <1>2, <2>1, OutOfWindowsStill
<1>3. CASE ~wired \/ schedule \in {Unknown, Malformed}
  <2>1. schedule \in {Unknown, Malformed}
    BY <1>3 DEF ShapeInv, CachesInv
  <2>2. Seen = {}
    BY <2>1 DEF Seen, Falling
  <2>3. OutOfWindows({})
    BY <1>3 DEF NextCutoffs
  <2>4. QED
    BY <1>2, <2>2, <2>3
<1>4. CASE ~(~wired \/ schedule \in {Unknown, Malformed})
  <2> DEFINE loc == IF schedule.zone.utc THEN 0 ELSE calls + 1
  <2>1. PICK next \in computeNextCutoffs(schedule, now, Horizon) :
          \/ DOMAIN next = {} /\ OutOfWindows({})
          \/ /\ DOMAIN next # {} /\ windows' = WindowsFrom(next, loc)
             /\ phase' = "fit" /\ fitting' = {} /\ UNCHANGED <<todo, best, answers>>
    BY <1>4 DEF NextCutoffs, WindowsFrom
  <2>2. loc \in Nat
    BY DEF ShapeInv, SearchInv
  <2> HIDE DEF loc
  <2> DEFINE ws == WindowsFrom(next, loc)
  <2>3. /\ ws \in Seq(Windows) /\ DOMAIN next = 1..Len(ws)
        /\ \A k \in DOMAIN next : next[k] \in Falling /\ Matches(ws[k], next[k])
        /\ \A j, k \in DOMAIN next : j < k => next[j].at <= next[k].at
        /\ \A o \in Seen : \E k \in DOMAIN next : next[k] = o
    BY <1>4, <2>2, NewWindows DEF ShapeInv
  <2>4. CASE DOMAIN next = {} /\ OutOfWindows({})
    BY <1>2, <2>3, <2>4
  <2>5. CASE /\ DOMAIN next # {} /\ windows' = ws
             /\ phase' = "fit" /\ fitting' = {} /\ UNCHANGED <<todo, best, answers>>
    <3> HIDE DEF ws
    <3>1. /\ order' = order /\ allocated' = allocated /\ stable' = stable
      BY <1>1, MeasureKept
    <3>2. Together' = Together /\ best = {}
      BY <1>1, <2>5, <3>1 DEF Together, ShapeInv, SearchInv
    <3>3. WindowsFall(ws)
      BY <2>3 DEF WindowsFall, Matches
    <3>4. InSight(Together, ws, best)
      BY <2>3 DEF InSight
    <3>5. NetworkPromises(Together, best)
      BY <3>2 DEF NetworkPromises
    <3>6. QED
      BY <1>1, <2>5, <3>1, <3>2, <3>3, <3>4, <3>5, PromisesKept DEF StillInv, Promising
  <2>6. QED
    BY <2>1, <2>4, <2>5
<1>5. QED
  BY <1>3, <1>4

(* A window and the occurrence it stands for are made by the same lines. *)
LEMMA MatchFits ==
  ASSUME NEW w, NEW o, Matches(w, o), NEW i, NEW cycle
  PROVE  (lineFits(i, w, cycle) <=> lineFits(i, o, cycle)) /\ (InTime(w) <=> InTime(o))
  BY DEF Matches, lineFits, Exhausted, InTime

(* The first window is given up: no cutoff that it stands for was wanted,  *)
(* or one as late has been found.                                          *)
LEMMA FirstWindowDone ==
  ASSUME ShapeInv, phase = "fit", NEW found, InSight(Together, windows, best),
         \A o \in Seen : (\E p \in best : p.at >= o.at) => \E p \in found : p.at >= o.at,
         \A o \in Seen : InTime(o) /\ MustMake(Together, o) /\ Matches(Head(windows), o) =>
           \E p \in found : p.at >= o.at
  PROVE  InSight(Together, Tail(windows), found)
<1>1. windows \in Seq(Windows) /\ windows # <<>>
  BY DEF ShapeInv, SearchInv
<1>2. /\ Len(windows) \in Nat /\ Len(Tail(windows)) = Len(windows) - 1
      /\ Head(windows) = windows[1]
      /\ \A k \in 1..Len(windows) : k # 1 => /\ k - 1 \in 1..Len(Tail(windows))
                                             /\ Tail(windows)[k - 1] = windows[k]
  BY <1>1
<1>3. SUFFICES ASSUME NEW o \in Seen, InTime(o), MustMake(Together, o),
                      ~ \E p \in found : p.at >= o.at
               PROVE  \E k \in 1..Len(Tail(windows)) : Matches(Tail(windows)[k], o)
  BY DEF InSight
<1>4. PICK k \in 1..Len(windows) : Matches(windows[k], o)
  BY <1>3 DEF InSight
<1>5. k # 1
  BY <1>2, <1>3, <1>4
<1>6. QED
  BY <1>2, <1>4, <1>5

LEMMA LineAgainstWindowStill ==
  ASSUME ShapeInv, StillInv, LineAgainstWindow
  PROVE  StillInv'
<1> DEFINE w == Head(windows)
           i == First(Together \ fitting)
<1>1. phase = "fit" /\ Still
  BY DEF LineAgainstWindow, Still
<1>2. i \in Together \ fitting
  BY <1>1, LineLookedAt
<1>3. /\ windows \in Seq(Windows) /\ windows # <<>> /\ w = windows[1] /\ 1 \in 1..Len(windows)
      /\ \A k \in 1..Len(windows) : windows[k].at \in Int
  <2>1. windows \in Seq(Windows) /\ windows # <<>>
    BY <1>1 DEF ShapeInv, SearchInv
  <2>2. w = windows[1] /\ 1 \in 1..Len(windows)
    BY <2>1
  <2>3. \A v \in Windows : v.at \in Int
    BY DEF Windows
  <2>4. \A k \in 1..Len(windows) : windows[k] \in Windows
    BY <2>1
  <2>5. QED
    BY <2>1, <2>2, <2>3, <2>4
<1>4. stable =>
        /\ WindowsFall(windows) /\ InSight(Together, windows, best)
        /\ NetworkPromises(Together, best)
        /\ \A j \in fitting : LineMakes(j, w)
  BY <1>1 DEF StillInv, Promising
<1>5. /\ Promisable(best) /\ (order.deadline = Unknown => best = {})
      /\ catalogue \in SUBSET Definitions
      /\ order.deadline \in Int \cup {Unknown}
  BY OrdersAssumption DEF ShapeInv, AnswersInv, CachesInv
<1>6. PICK cycle \in CycleTimeP95(catalogue, paths[i]) :
        \/ (~InTime(w) \/ ~lineFits(i, w, cycle)) /\ NextWindow(best)
        \/ /\ InTime(w) /\ lineFits(i, w, cycle)
           /\ \/ /\ fitting \cup {i} # Together /\ fitting' = fitting \cup {i}
                 /\ UNCHANGED <<phase, todo, windows, best, answers>>
              \/ /\ fitting \cup {i} = Together /\ order.deadline = Unknown
                 /\ Conclude({PromiseOf(w)})
              \/ /\ fitting \cup {i} = Together /\ order.deadline # Unknown
                 /\ NextWindow(Later(w))
  BY DEF LineAgainstWindow
<1> HIDE DEF w, i
<1>7. CASE (~InTime(w) \/ ~lineFits(i, w, cycle)) /\ NextWindow(best)
  <2>1. ASSUME stable, NEW o \in Seen, InTime(o), MustMake(Together, o), Matches(w, o)
        PROVE  FALSE
    <3>1. InTime(w)
      BY <2>1, MatchFits
    <3>2. lineFits(i, o, cycle)
      BY <1>2, <1>6, <2>1 DEF MustMake
    <3>3. lineFits(i, w, cycle)
      BY <2>1, <3>2, MatchFits
    <3>4. QED
      BY <1>7, <3>1, <3>3
  <2>2. stable => InSight(Together, Tail(windows), best)
    BY <1>1, <1>4, <2>1, FirstWindowDone DEF w
  <2>3. QED
    BY <1>1, <1>4, <1>5, <1>7, <2>2, NextWindowStill
<1>8. ASSUME InTime(w), lineFits(i, w, cycle) PROVE LineMakes(i, w)
  BY <1>8 DEF LineMakes
<1>9. CASE /\ InTime(w) /\ lineFits(i, w, cycle)
           /\ fitting \cup {i} # Together /\ fitting' = fitting \cup {i}
           /\ UNCHANGED <<phase, todo, windows, best, answers>>
  <2>1. /\ order' = order /\ allocated' = allocated /\ stable' = stable
    BY <1>1, MeasureKept
  <2>2. Together' = Together /\ w' = w
    BY <1>9, <2>1 DEF Together, w
  <2>3. stable => \A j \in fitting' : LineMakes(j, w)
    BY <1>4, <1>8, <1>9
  <2>4. \A j, v : LineMakes(j, v)' <=> LineMakes(j, v)
    BY <1>1, MeasureKept
  <2>5. QED
    BY <1>1, <1>4, <1>9, <2>1, <2>2, <2>3, <2>4, PromisesKept DEF StillInv, Promising, w
<1>10. ASSUME stable, InTime(w), lineFits(i, w, cycle), fitting \cup {i} = Together
       PROVE  Kept(Together, PromiseOf(w))
  <2>1. PICK o \in Falling : Matches(w, o)
    BY <1>3, <1>4, <1>10 DEF WindowsFall
  <2>2. \A j \in Together : LineMakes(j, w)
    BY <1>4, <1>8, <1>10
  <2>3. CanMake(Together, o)
    BY <2>1, <2>2, MatchFits DEF CanMake, LineMakes
  <2>4. QED
    BY <2>1, <2>3 DEF Kept, PromiseOf, Matches
<1>11. CASE /\ InTime(w) /\ lineFits(i, w, cycle) /\ fitting \cup {i} = Together
            /\ order.deadline = Unknown /\ Conclude({PromiseOf(w)})
  <2>1. ASSUME stable PROVE EarliestPromise(Together, PromiseOf(w))
    <3>1. Kept(Together, PromiseOf(w))
      BY <1>10, <1>11, <2>1
    <3>2. PromiseOf(w).basis = "capability" /\ PromiseOf(w).at = w.at
      BY <1>11 DEF PromiseOf
    <3>3. ASSUME NEW o \in Seen, MustMake(Together, o) PROVE w.at <= o.at
      <4>1. InTime(o) /\ best = {}
        BY <1>5, <1>11 DEF InTime
      <4>2. PICK k \in 1..Len(windows) : Matches(windows[k], o)
        BY <1>4, <2>1, <3>3, <4>1 DEF InSight
      <4>3. w.at <= windows[k].at
        <5>1. CASE k = 1
          BY <1>3, <5>1
        <5>2. CASE k # 1
          BY <1>3, <1>4, <2>1, <5>2 DEF WindowsFall
        <5>3. QED
          BY <5>1, <5>2
      <4>4. QED
        BY <4>2, <4>3 DEF Matches
    <3>4. QED
      BY <3>1, <3>2, <3>3 DEF EarliestPromise
  <2>2. QED
    BY <1>1, <1>11, <2>1, ConcludeStill
<1>12. CASE /\ InTime(w) /\ lineFits(i, w, cycle) /\ fitting \cup {i} = Together
            /\ order.deadline # Unknown /\ NextWindow(Later(w))
  <2>1. PromiseOf(w).basis = "network" /\ PromiseOf(w).at = w.at /\ w.at \in Int
    BY <1>3, <1>12 DEF PromiseOf
  <2>2. \A p \in best : p.at \in Int
    BY <1>5 DEF Promisable
  <2>3. ASSUME stable PROVE NetworkPromises(Together, Later(w))
    BY <1>4, <1>10, <1>12, <2>1, <2>3 DEF NetworkPromises, Later
  <2>4. \A o \in Seen : o.at \in Int
    <3>1. \A o \in Falling : o.at \in Int
      <4>1. (SearchDays + 1) * DayLength \in Int /\ now \in Int
        BY CalendarAssumption, DaysAhead DEF ShapeInv, CachesInv
      <4>2. QED
        BY <4>1 DEF Falling, FallingAfter
    <3>2. QED
      BY <3>1 DEF Seen
  <2>5. ASSUME NEW o \in Seen, NEW p \in best, p.at >= o.at
        PROVE  \E q \in Later(w) : q.at >= o.at
    BY <2>1, <2>2, <2>4, <2>5 DEF Later
  <2>6. ASSUME NEW o \in Seen, Matches(w, o)
        PROVE  \E q \in Later(w) : q.at >= o.at
    <3>1. w.at = o.at
      BY <2>6 DEF Matches
    <3>2. QED
      BY <2>1, <2>2, <3>1 DEF Later
  <2>7. stable => InSight(Together, Tail(windows), Later(w))
    BY <1>1, <1>4, <2>5, <2>6, FirstWindowDone DEF w
  <2>8. QED
    BY <1>1, <1>12, <2>3, <2>7, NextWindowStill
<1>13. QED
  BY <1>6, <1>7, <1>9, <1>11, <1>12

LEMMA NextStill == ShapeInv /\ StillInv /\ [Next]_vars => StillInv'
<1> SUFFICES ASSUME ShapeInv, StillInv, [Next]_vars PROVE StillInv'
  OBVIOUS
<1>1. CASE CacheUpdate
  BY <1>1 DEF CacheUpdate, applyUpsert, applyDeactivated, ScheduleChanged, CapacityChanged,
              Change, StillInv
<1>2. CASE Route
  <2>1. phase' \notin Promising
    BY <1>2 DEF Route, productAttributes, SelectPath, CheckLine, Promising
  <2>2. QED
    BY <2>1 DEF StillInv
<1>3. CASE Allocate
  BY <1>3, AllocateStill
<1>4. CASE NextCutoffs
  BY <1>4, NextCutoffsStill
<1>5. CASE LineAgainstWindow
  BY <1>5, LineAgainstWindowStill
<1>6. CASE UNCHANGED vars
  <2>1. Still /\ UNCHANGED <<phase, todo, windows, fitting, best, answers>>
    BY <1>6 DEF vars, Still, promising
  <2>2. /\ order' = order /\ allocated' = allocated /\ stable' = stable
        /\ \A i, o : LineMakes(i, o)' <=> LineMakes(i, o)
    BY <2>1, MeasureKept
  <2>3. Together' = Together
    BY <2>1, <2>2 DEF Together
  <2>4. QED
    BY <2>1, <2>2, <2>3, PromisesKept DEF StillInv
<1>7. QED
  BY <1>1, <1>2, <1>3, <1>4, <1>5, <1>6 DEF Next, ComputePromise

(* A promise computed while the caches stood still is the right one:       *)
(* without a deadline the earliest cutoff that all lines promised together *)
(* make, under a deadline the latest one in time, for every schedule, zone *)
(* and order of equal instants.                                            *)
THEOREM AnswerStable == Spec => []StableAnswer
<1>1. Init => StillInv
  BY InitStill
<1>2. ShapeInv /\ StillInv => StableAnswer
  <2> SUFFICES ASSUME ShapeInv, StillInv, phase = "done", stable
               PROVE  StableAnswer!2
    BY DEF StableAnswer
  <2>1. phase \in Promising
    BY DEF Promising
  <2>2. CASE order.deadline = Unknown
    BY <2>1, <2>2 DEF StillInv, EarliestPromise
  <2>3. CASE order.deadline # Unknown
    <3>1. \A a \in answers : a.promise.basis = "network" /\ Kept(a.lines, a.promise)
      BY <2>1, <2>3 DEF StillInv, NetworkPromises
    <3>2. ASSUME NEW o \in Seen, o.at <= order.deadline, MustMake(allocated, o), allocated # {}
          PROVE  \E a \in answers : a.promise.at >= o.at
      <4>1. InSight(allocated, <<>>, {a.promise : a \in answers})
        BY <2>1, <2>3, <3>2 DEF StillInv
      <4>2. InTime(o) /\ Len(<<>>) = 0
        BY <3>2, EmptySeq DEF InTime
      <4>3. PICK p \in {a.promise : a \in answers} : p.at >= o.at
        BY <3>2, <4>1, <4>2 DEF InSight
      <4>4. QED
        BY <4>3
    <3>3. QED
      BY <2>3, <3>1, <3>2
  <2>4. QED
    BY <2>2, <2>3
<1>3. QED
  BY <1>1, <1>2, NextStill, ShapeInvariant, PTL DEF Spec

=============================================================================
