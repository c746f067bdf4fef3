---------------------------- MODULE CPTSchedule ----------------------------
(***************************************************************************)
(* The next carrier cutoffs of a weekly schedule                           *)
(* (internal/adapters/outbound/kafkacptschedule/schedule.go).              *)
(*                                                                         *)
(* Time is counted in slots; DayLength of them are a day, and a local day  *)
(* d is the (d % 7)-th of its week.  A schedule is its zone, with the      *)
(* distance of its local time from UTC, and the list of its cutoffs: the   *)
(* CPT id, the local time of day, the days of the week (none means every   *)
(* day) and the paths it takes.  A zone that changes its distance from UTC *)
(* (summer time) is left out.                                              *)
(***************************************************************************)
EXTENDS Integers, FiniteSets

CONSTANTS
  DayLength,   \* slots of a day
  SearchDays   \* cptSearchHorizonDays

ASSUME CalendarAssumption == DayLength \in Nat \ {0} /\ SearchDays \in Nat

Local(s, t) == t + s.zone.offset

OnDay(c, d) == c.days = {} \/ d % 7 \in c.days

(* The nth cutoff on the local day d. *)
Occurrence(s, nth, d) ==
  [nth |-> nth, cpt |-> s.cutoffs[nth].cpt, eligible |-> s.cutoffs[nth].eligible,
   at |-> d * DayLength + s.cutoffs[nth].at - s.zone.offset]

(* Mistake: today is taken from the clock instead of from the schedule's   *)
(* own zone.                                                               *)
OccurrencesFromUTCDay(s, from) ==
  LET today == from \div DayLength
      days == today..(today + SearchDays)
  IN  {o \in {Occurrence(s, x[1], x[2]) :
                x \in {x \in (DOMAIN s.cutoffs) \X days : OnDay(s.cutoffs[x[1]], x[2])}} :
         o.at > from}

(* The occurrences of every cutoff on the days from the local today on,    *)
(* strictly after from.                                                    *)
Occurrences(s, from) ==
  LET today == Local(s, from) \div DayLength
      days == today..(today + SearchDays)
  IN  {o \in {Occurrence(s, x[1], x[2]) :
                x \in {x \in (DOMAIN s.cutoffs) \X days : OnDay(s.cutoffs[x[1]], x[2])}} :
         o.at > from}

(* The n earliest of them in the order of their instants.  sort.Slice      *)
(* promises no order among equal instants, so there may be several answers.*)
computeNextCutoffs(s, from, n) ==
  LET all == Occurrences(s, from)
      places == 1..(IF Cardinality(all) > n THEN n ELSE Cardinality(all))
      early == {o \in all : Cardinality({p \in all : p.at < o.at}) < n}
  IN  {w \in [places -> early] :
         /\ \A i, j \in places : i < j => w[i] # w[j] /\ w[i].at <= w[j].at
         /\ \A o \in all : \A i \in places : o.at < w[i].at => \E j \in places : w[j] = o}

----------------------------------------------------------------------------
(* The same question from the other end: does cutoff c fall at instant t? *)
FallsAt(s, c, t) ==
  /\ Local(s, t) % DayLength = c.at
  /\ OnDay(c, Local(s, t) \div DayLength)

(* The cutoffs of a schedule after from, found instant by instant. *)
FallingAfter(s, from) ==
  {[nth |-> x[1], cpt |-> s.cutoffs[x[1]].cpt, eligible |-> s.cutoffs[x[1]].eligible,
    at |-> x[2]] :
     x \in {x \in (DOMAIN s.cutoffs) \X ((from + 1)..(from + (SearchDays + 1) * DayLength)) :
              FallsAt(s, s.cutoffs[x[1]], x[2])}}
=============================================================================
