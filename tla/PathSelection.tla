--------------------------- MODULE PathSelection ---------------------------
(***************************************************************************)
(* Which process path a line is routed to (domain/order/path_selection.go) *)
(* and which definition a path id belongs to (domain/processpath).         *)
(*                                                                         *)
(* A path id is the sequence of its parts: "pick-heavy" is                 *)
(* <<"pick", "heavy">>, so that a prefix followed by "-" or by the end of  *)
(* the id is a prefix of the sequence, and the longest is the longest.     *)
(* Ids that differ in case are the same id.  A definition has an id, the   *)
(* prefix of its family, a cycle time that may be Unknown, and its         *)
(* eligibility: the most units of a line (Unknown if unbounded) and the    *)
(* attributes it requires and excludes.                                    *)
(***************************************************************************)
EXTENDS Integers, SequencesExt

CONSTANTS
  PathOrder,    \* the path ids of the catalogue in the order of strings
  DefaultPath,  \* shared.DefaultPathId
  NoPath,       \* the empty PathId
  Unknown       \* a value that is not given

matchesPrefix(id, prefix) == IsPrefix(prefix, id)

(* The definitions with the longest matching prefix.  There is more than   *)
(* one only if they declare the same prefix; the order of a Go map then    *)
(* decides.                                                                *)
Lookup(defs, id) ==
  LET matching == {d \in defs : d.prefix # <<>> /\ matchesPrefix(id, d.prefix)}
  IN  {d \in matching : \A e \in matching : Len(e.prefix) <= Len(d.prefix)}

IsActive(defs, id) == Lookup(defs, id) # {}

(* What CycleTimeP95 may answer. *)
CycleTimeP95(defs, id) ==
  IF IsActive(defs, id) THEN {d.cycle : d \in Lookup(defs, id)} ELSE {Unknown}

lineEligible(d, qty, attributes) ==
  /\ d.max = Unknown \/ qty <= d.max
  /\ d.required \subseteq attributes
  /\ d.excluded \cap attributes = {}

(* Mistake: a cycle time that is not known counts as zero. *)
BetterUnknownAsZero(d, e) ==
  LET Place(id) == CHOOSE i \in DOMAIN PathOrder : PathOrder[i] = id
      Cycle(x) == IF x.cycle = Unknown THEN 0 ELSE x.cycle
  IN  \/ Cycle(d) < Cycle(e)
      \/ Cycle(d) = Cycle(e) /\ Place(d.id) < Place(e.id)

(* The order of the candidates: a known cycle time before an unknown one,  *)
(* the shorter before the longer, then the lower id.                       *)
Better(d, e) ==
  LET Place(id) == CHOOSE i \in DOMAIN PathOrder : PathOrder[i] = id
  IN  \/ d.cycle # Unknown /\ e.cycle = Unknown
      \/ d.cycle # Unknown /\ e.cycle # Unknown /\ d.cycle < e.cycle
      \/ d.cycle = e.cycle /\ Place(d.id) < Place(e.id)

Select(defs, qty, attributes) ==
  LET eligible == {d \in defs : lineEligible(d, qty, attributes)}
  IN  CASE defs = {} -> DefaultPath
        [] defs # {} /\ eligible = {} -> NoPath
        [] OTHER -> (CHOOSE d \in eligible : \A e \in eligible \ {d} : Better(d, e)).id
=============================================================================
