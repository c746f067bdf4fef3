--------------------------- MODULE IntakePlanning ---------------------------
(***************************************************************************)
(* From a requested order to its promise: buildDomainLines of ReceiveOrder *)
(* routes every line, and setPromiseDate asks the PromisePolicy for the    *)
(* carrier cutoffs the allocated lines make (application/usecases,         *)
(* domain/order/promise_policy.go).                                        *)
(*                                                                         *)
(* Both read caches that their consumers write meanwhile: the process-path *)
(* catalogue, the CPT schedule of the site and the path capacities.  Each  *)
(* read holds a lock of its own, so every read is a step, and the caches   *)
(* may change between any two.  What the lock of one read covers is one    *)
(* step; the cycle time and the capacity read for one line and one window  *)
(* come from different caches, which nothing orders, and share a step.     *)
(*                                                                         *)
(* Which lines are reserved is chosen freely here; OrderLifecycle has the  *)
(* pass that reserves them, and takes from the policy only the shape that  *)
(* AnswersFitLifecycle states.                                             *)
(***************************************************************************)
EXTENDS PathSelection, CPTSchedule

CONSTANTS
  Orders,        \* the requests: partial, deadline (Unknown: none), lines
  Instants,      \* values of the clock when the promise is computed
  Definitions,   \* definitions that are published for the catalogue
  Schedules,     \* schedules that are published for the site
  Malformed,     \* a schedule with a bad timezone or local time
  Capacities,    \* published capacities: path, at, left (Unknown: not known)
  LeadTimeFor,   \* the lead time of each path id
  Horizon,       \* windows asked for in one call (DefaultCPTHorizon)
  MaxChanges     \* bound on changes of the caches

(* The paths a line may be routed to. *)
PathIds ==
  ({DefaultPath} \cup {d.id : d \in Definitions}
     \cup UNION {{o.lines[i].path : i \in DOMAIN o.lines} : o \in Orders}) \ {NoPath}

ASSUME IntakeAssumption ==
  Horizon \in Nat \ {0} /\ MaxChanges \in Nat /\ Instants \subseteq Int

(* NewOrder refuses a request without lines. *)
ASSUME OrdersAssumption ==
  \A o \in Orders :
    /\ o.partial \in BOOLEAN /\ o.deadline \in Int \cup {Unknown}
    /\ Len(o.lines) \in Nat \ {0} /\ DOMAIN o.lines = 1..Len(o.lines)
    /\ \A i \in DOMAIN o.lines : o.lines[i].qty \in Int

ASSUME CatalogueAssumption ==
  /\ IsFiniteSet(Definitions) /\ DefaultPath # NoPath
  /\ \A d \in Definitions :
       /\ d.id # NoPath /\ \E i \in DOMAIN PathOrder : PathOrder[i] = d.id
       /\ d.cycle \in Nat \cup {Unknown}
  /\ DOMAIN PathOrder \subseteq Nat

(* NewLeadTimePolicy ignores lead times that are not positive. *)
ASSUME LeadTimeAssumption == \A p \in PathIds : LeadTimeFor[p] \in Nat \ {0}

ASSUME ScheduleAssumption ==
  \A s \in Schedules \ {Malformed} :
    /\ s.zone.offset \in Int
    /\ Len(s.cutoffs) \in Nat /\ DOMAIN s.cutoffs = 1..Len(s.cutoffs)
    /\ \A k \in DOMAIN s.cutoffs : s.cutoffs[k].at \in 0..(DayLength - 1)

VARIABLES
  wired,      \* PATH_CATALOGUE_SOURCE=kafka: there are caches at all
  catalogue, schedule, capacity,
  changes,    \* changes of the caches so far
  stable,     \* none since the line's routing, or the computation of the promise, began
  order,      \* the request
  phase,      \* the next step of the request
  tags,       \* what the classification of each line answered
  pathID,     \* the path resolved for the line at hand
  paths,      \* the paths of the lines before it
  now,        \* Clock.Now() of the computation
  allocated,  \* the allocated lines
  todo,       \* the allocated lines still to be promised
  windows,    \* the windows not looked at for the next of them
  fitting,    \* the lines that make the first of these windows
  best,       \* FeasibleBy: the promise of the latest window found, if any
  calls,      \* calls of NextCutoffs
  answers     \* the lines promised so far with their promise

caches == <<wired, catalogue, schedule, capacity, changes>>
routing == <<tags, pathID, paths>>
promising == <<now, allocated, todo, windows, fitting, best, calls, answers>>
vars == <<caches, stable, order, phase, routing, promising>>

(* Definitions and capacities are kept by their key. *)
UniqueIds(defs) == \A d, e \in defs : d.id = e.id => d = e
SameKey(e, f) == e.path = f.path /\ e.at = f.at

Lines == DOMAIN order.lines
Line == order.lines[Len(paths) + 1]     \* the line being routed

(* The caches have replayed their topics (ReplayCaches), whatever these    *)
(* held.                                                                   *)
Init ==
  /\ wired \in BOOLEAN /\ changes = 0 /\ stable = TRUE
  /\ catalogue \in {defs \in SUBSET Definitions : UniqueIds(defs)}
  /\ schedule \in Schedules \cup {Unknown}
  /\ capacity \in {c \in SUBSET Capacities : \A e, f \in c : SameKey(e, f) => e = f}
  /\ ~wired => catalogue = {} /\ schedule = Unknown /\ capacity = {}
  /\ order \in Orders /\ phase = "classify" /\ tags = <<>>
  /\ pathID = NoPath /\ paths = <<>>
  /\ now \in Instants /\ allocated = {} /\ todo = {} /\ windows = <<>> /\ fitting = {}
  /\ best = {} /\ calls = 0 /\ answers = {}

----------------------------------------------------------------------------
(* The consumers of the caches. *)

Change ==
  /\ wired /\ changes < MaxChanges
  /\ changes' = changes + 1 /\ stable' = FALSE
  /\ UNCHANGED <<wired, order, phase, routing, promising>>

applyUpsert ==
  /\ \E d \in Definitions \ catalogue :
       catalogue' = {e \in catalogue : e.id # d.id} \cup {d}
  /\ Change /\ UNCHANGED <<schedule, capacity>>

applyDeactivated ==
  /\ \E d \in catalogue : catalogue' = catalogue \ {d}
  /\ Change /\ UNCHANGED <<schedule, capacity>>

ScheduleChanged ==
  /\ \E s \in Schedules \ {schedule} : schedule' = s
  /\ Change /\ UNCHANGED <<catalogue, capacity>>

CapacityChanged ==
  /\ \E e \in Capacities \ capacity :
       capacity' = {f \in capacity : ~SameKey(e, f)} \cup {e}
  /\ Change /\ UNCHANGED <<catalogue, schedule>>

----------------------------------------------------------------------------
(* buildDomainLines, line by line. *)

(* What the lookup may answer: the tags that are registered, or nothing,   *)
(* for a failed call and an open breaker as for a SKU it does not know.    *)
GetClassification(line) == {line.tags, {}}

(* A line that names its path is not classified. *)
productAttributes ==
  /\ phase = "classify"
  /\ \/ /\ Line.path = NoPath /\ phase' = "select"
        /\ \E answer \in GetClassification(Line) : tags' = Append(tags, answer)
     \/ /\ Line.path # NoPath /\ phase' = "check"
        /\ tags' = Append(tags, {})
  /\ pathID' = Line.path /\ stable' = TRUE
  /\ UNCHANGED <<caches, order, paths, promising>>

Attributes(i) == tags[i] \cup (IF order.lines[i].gift THEN {"giftWrap"} ELSE {})

(* Without a catalogue every line goes to the default path. *)
SelectPath ==
  /\ phase = "select"
  /\ pathID' = Select(catalogue, Line.qty, Attributes(Len(tags)))
  /\ phase' = IF pathID' = NoPath THEN "ineligible" ELSE "check"
  /\ UNCHANGED <<caches, stable, order, tags, paths, promising>>

(* Mistake: a quantity of zero is let through. *)
NewOrderLineZero(line) == line.qty >= 0

(* A line without a SKU is refused in the same way. *)
NewOrderLine(line) == line.qty > 0

(* NewOrderLine, then IsActive under a lock of its own. *)
CheckLine ==
  /\ phase = "check"
  /\ \/ ~NewOrderLine(Line) /\ phase' = "invalid" /\ UNCHANGED paths
     \/ /\ NewOrderLine(Line) /\ wired /\ ~IsActive(catalogue, pathID)
        /\ phase' = "unknownPath" /\ UNCHANGED paths
     \/ /\ NewOrderLine(Line) /\ (wired => IsActive(catalogue, pathID))
        /\ paths' = Append(paths, pathID)
        /\ phase' = IF Len(paths') = Len(order.lines) THEN "allocate" ELSE "classify"
  /\ UNCHANGED <<caches, stable, order, tags, pathID, promising>>

----------------------------------------------------------------------------
(* setPromiseDate. *)

First(lines) == CHOOSE i \in lines : \A j \in lines : i <= j

(* Mistake: the deadline does not keep the lines together. *)
TogetherByIntent == IF ~order.partial THEN todo ELSE {First(todo)}

(* The lines that are promised together: all of them under a deadline and  *)
(* for a ship-complete order, one after the other for a partial shipment.  *)
Together == IF order.deadline # Unknown \/ ~order.partial THEN todo ELSE {First(todo)}

(* allocatedLines: what this pass has reserved, and earlier ones reserved  *)
(* or released.  With none there is no promise.                            *)
Allocate ==
  /\ phase = "allocate"
  /\ \E lines \in SUBSET Lines :
       /\ allocated' = lines /\ todo' = lines
       /\ phase' = IF lines = {} THEN "done" ELSE "cutoffs"
  /\ stable' = TRUE
  /\ UNCHANGED <<caches, order, routing, now, windows, fitting, best, calls, answers>>

(* These lines have their promise, or there is none; go on with the next. *)
Conclude(promises) ==
  /\ answers' = answers \cup {[lines |-> Together, promise |-> p] : p \in promises}
  /\ todo' = todo \ Together
  /\ phase' = IF todo \ Together = {} THEN "done" ELSE "cutoffs"
  /\ windows' = <<>> /\ fitting' = {} /\ best' = {}

(* LeadTimePolicy.PromiseDate: the slowest line governs. *)
SlowestLead(lines) ==
  LET lead == {LeadTimeFor[paths[i]] : i \in lines}
  IN  CHOOSE d \in lead : \A e \in lead : e <= d

(* No window is left for these lines.  The promise falls back on the lead  *)
(* times; a deadline is met by the best window found, or not at all.       *)
OutOfWindows(found) ==
  Conclude(IF order.deadline # Unknown THEN found
           ELSE {[basis |-> "leadTime", cpt |-> Unknown,
                  at |-> now + SlowestLead(Together), loc |-> Unknown]})

(* NextCutoffs, one call for each set of lines.  computeNextCutoffs loads  *)
(* the timezone anew, and each load gives a location of its own, UTC       *)
(* excepted.                                                               *)
NextCutoffs ==
  /\ phase = "cutoffs"
  /\ IF ~wired \/ schedule \in {Unknown, Malformed}
     THEN OutOfWindows({}) /\ UNCHANGED calls
     ELSE /\ calls' = calls + 1
          /\ \E next \in computeNextCutoffs(schedule, now, Horizon) :
               IF DOMAIN next = {} THEN OutOfWindows({})
               ELSE /\ windows' = [k \in DOMAIN next |->
                          [cpt |-> next[k].cpt, at |-> next[k].at,
                           loc |-> IF schedule.zone.utc THEN 0 ELSE calls + 1,
                           eligible |-> next[k].eligible]]
                    /\ phase' = "fit" /\ fitting' = {}
                    /\ UNCHANGED <<todo, best, answers>>
  /\ UNCHANGED <<caches, stable, order, routing, now, allocated>>

(* What Remaining may hold for a line: known units that are too few. *)
Exhausted(i, w) ==
  \E e \in capacity : /\ e.path = paths[i] /\ e.at = w.at
                      /\ e.left # Unknown /\ e.left < order.lines[i].qty

(* linesFitWindow for one line, with cycle the answer of CycleTimeP95. *)
lineFits(i, w, cycle) ==
  /\ paths[i] \in w.eligible
  /\ cycle # Unknown /\ now + cycle <= w.at
  /\ ~Exhausted(i, w)

PromiseOf(w) ==
  [basis |-> IF order.deadline = Unknown THEN "capability" ELSE "network",
   cpt |-> w.cpt, at |-> w.at, loc |-> w.loc]

(* FeasibleBy keeps the latest window. *)
Later(w) == IF \A p \in best : w.at > p.at THEN {PromiseOf(w)} ELSE best

InTime(w) == order.deadline = Unknown \/ w.at <= order.deadline

(* Give up the first window, or the search if it was the last. *)
NextWindow(found) ==
  IF Tail(windows) = <<>> THEN OutOfWindows(found)
  ELSE /\ windows' = Tail(windows) /\ fitting' = {} /\ best' = found
       /\ UNCHANGED <<phase, todo, answers>>

(* One line against the first window, in the order of the lines.           *)
(* FeasibleBy passes over a window after its deadline.                     *)
LineAgainstWindow ==
  LET w == Head(windows)
      i == First(Together \ fitting)
  IN  /\ phase = "fit"
      /\ \E cycle \in CycleTimeP95(catalogue, paths[i]) :
           IF ~InTime(w) \/ ~lineFits(i, w, cycle) THEN NextWindow(best)
           ELSE IF fitting \cup {i} # Together
           THEN /\ fitting' = fitting \cup {i}
                /\ UNCHANGED <<phase, todo, windows, best, answers>>
           ELSE IF order.deadline = Unknown THEN Conclude({PromiseOf(w)})
           ELSE NextWindow(Later(w))
      /\ UNCHANGED <<caches, stable, order, routing, now, allocated, calls>>

----------------------------------------------------------------------------
CacheUpdate == applyUpsert \/ applyDeactivated \/ ScheduleChanged \/ CapacityChanged
Route == productAttributes \/ SelectPath \/ CheckLine
ComputePromise == Allocate \/ NextCutoffs \/ LineAgainstWindow

Next == CacheUpdate \/ Route \/ ComputePromise

Spec == Init /\ [][Next]_vars

(* PromiseGroups: lines with one and the same promise are one group.  The  *)
(* promise is the key of a Go map, and the location is part of its time.   *)
PromiseGroups ==
  {[lines |-> UNION {b.lines : b \in {b \in answers : b.promise = a.promise}},
    promise |-> a.promise] : a \in answers}

----------------------------------------------------------------------------
TypeOK ==
  /\ wired \in BOOLEAN /\ stable \in BOOLEAN /\ changes \in 0..MaxChanges
  /\ catalogue \subseteq Definitions /\ UniqueIds(catalogue)
  /\ schedule \in Schedules \cup {Unknown}
  /\ capacity \subseteq Capacities
  /\ order \in Orders
  /\ phase \in {"classify", "select", "check", "ineligible", "invalid", "unknownPath",
               "allocate", "cutoffs", "fit", "done"}
  /\ Len(paths) <= Len(tags) /\ Len(tags) <= Len(order.lines)
  /\ \A i \in DOMAIN paths : order.lines[i].qty > 0
  /\ allocated \subseteq Lines /\ todo \subseteq allocated /\ fitting \subseteq todo
  /\ calls \in 0..Len(order.lines)
  /\ Len(windows) <= Horizon
  /\ phase = "fit" => windows # <<>> /\ todo # {} /\ fitting # Together

(* The ids that SelectPath may answer for a line: the default path without *)
(* a catalogue, else those of the definitions that admit the line and have *)
(* no admitting definition known to be faster.                             *)
Admits(i) == {d \in catalogue : lineEligible(d, order.lines[i].qty, Attributes(i))}

Fastest(defs) ==
  {d \in defs : \A e \in defs : e.cycle # Unknown => d.cycle # Unknown /\ d.cycle <= e.cycle}

RightPaths(i) ==
  IF catalogue = {} THEN {DefaultPath} ELSE {d.id : d \in Fastest(Admits(i))}

(* Routing of a line that names no path, if the catalogue stands still     *)
(* from its selection to its check; it may have changed between lines.     *)
(* The line goes to a right path, and that path is active.  It is refused  *)
(* as ineligible only if there are active paths and none admits it, and as *)
(* unknown only if the id that is right is in no active family: an id need *)
(* not match its own definition's prefix, and the catalogue may be empty.  *)
StableRouting ==
  wired /\ stable =>
    /\ /\ phase \in {"classify", "allocate"} /\ Len(paths) > 0
       /\ order.lines[Len(paths)].path = NoPath
       => /\ paths[Len(paths)] \in RightPaths(Len(paths))
          /\ IsActive(catalogue, paths[Len(paths)])
    /\ phase = "ineligible" => catalogue # {} /\ Admits(Len(tags)) = {}
    /\ phase = "unknownPath" /\ Line.path = NoPath =>
         pathID \in RightPaths(Len(tags)) /\ ~IsActive(catalogue, pathID)

(* The cutoffs of the schedule, and those of them that are among the      *)
(* Horizon first however ties are sorted and within the days searched.     *)
Falling ==
  IF schedule \in {Unknown, Malformed} THEN {} ELSE FallingAfter(schedule, now)

Seen ==
  {o \in Falling : /\ o.at <= now + SearchDays * DayLength
                   /\ Cardinality({p \in Falling : p.at <= o.at}) <= Horizon}

CanMake(lines, o) ==
  \A i \in lines : \E cycle \in CycleTimeP95(catalogue, paths[i]) : lineFits(i, o, cycle)

(* Two definitions may declare the prefix that a path's lookup finds.      *)
MustMake(lines, o) ==
  \A i \in lines : \A cycle \in CycleTimeP95(catalogue, paths[i]) : lineFits(i, o, cycle)

Kept(lines, promise) ==
  \E o \in Falling : o.cpt = promise.cpt /\ o.at = promise.at /\ CanMake(lines, o)

(* The promise against caches that stand still.  Without a deadline it is  *)
(* the earliest cutoff that every line promised together can make, and a   *)
(* lead time only if there is none in sight.  Under a deadline it is the   *)
(* latest one in time, and there is no promise only if there is none.      *)
(* Where a path's lookup finds two definitions, a cutoff that only one of  *)
(* them lets the lines make may be promised and may be missed.             *)
StableAnswer ==
  phase = "done" /\ stable =>
    IF order.deadline = Unknown
    THEN \A a \in answers :
           /\ a.promise.basis = "capability" => Kept(a.lines, a.promise)
           /\ \A o \in {o \in Seen : MustMake(a.lines, o)} :
                a.promise.basis = "capability" /\ a.promise.at <= o.at
    ELSE /\ \A a \in answers : a.promise.basis = "network" /\ Kept(a.lines, a.promise)
         /\ \A o \in {o \in Seen : o.at <= order.deadline /\ MustMake(allocated, o)} :
              allocated # {} => \E a \in answers : a.promise.at >= o.at

(* The aggregate as setPromiseDate finds it and as it leaves it, if an     *)
(* earlier pass has released some of the allocated lines: each line with   *)
(* the promise of its group.  The group that setPromiseDate builds under a *)
(* deadline leaves the released lines out.                                 *)
Ahead == {p \in {a.promise : a \in answers} : p.at > now}

Policy == INSTANCE Order WITH
  Promises <- Ahead, OnTime <- {p \in Ahead : InTime(p)}, NoPromise <- Unknown

Unpromised(released) ==
  [intent |-> [partial |-> order.partial, held |-> FALSE, deadline |-> order.deadline # Unknown],
   status |-> [i \in Lines |-> IF i \in released THEN "Released"
                               ELSE IF i \in allocated THEN "Allocated" ELSE "Backordered"],
   promise |-> [i \in Lines |-> Unknown]]

InGroup(i, released) ==
  (\E a \in answers : i \in a.lines) /\ (order.deadline = Unknown \/ i \notin released)

Promised(released) ==
  IF answers = {} THEN Unpromised(released)
  ELSE Policy!SetPromiseGroups(Unpromised(released),
         [i \in Lines |-> IF InGroup(i, released)
                         THEN (CHOOSE a \in answers : i \in a.lines).promise ELSE Unknown])

(* Whatever the caches do meanwhile, the answer is one that the rest of    *)
(* the order's life builds on.  It is among those OrderLifecycle takes the *)
(* policy to give: every allocated line has a promise that lies ahead, a   *)
(* ship-complete order a single one, and an order with a deadline one in   *)
(* time as a whole or none.  And no line is in two groups.                 *)
AnswersFitLifecycle ==
  phase = "done" =>
    /\ \A released \in SUBSET allocated :
         Promised(released) \in Policy!SetPromiseDate(Unpromised(released))
    /\ \A g, h \in PromiseGroups : g # h => g.lines \cap h.lines = {}
    /\ \A g \in PromiseGroups : g.lines \subseteq allocated

----------------------------------------------------------------------------
(* PromiseGroups' comment: "lines whose independently-computed Promise is  *)
(* identical (same Basis, same CptId, same CutoffAt) are grouped           *)
(* together".                                                              *)
GroupedByPromise ==
  phase = "done" =>
    \A g, h \in PromiseGroups :
      /\ g.promise.basis = h.promise.basis /\ g.promise.cpt = h.promise.cpt
      /\ g.promise.at = h.promise.at
      => g = h
=============================================================================
