---------------------- MODULE AnalyticsProjectorProofs ----------------------
(***************************************************************************)
(* The analytics projector for any number of instances, any events, a      *)
(* partition of any length and any number of faults: the rollup counts     *)
(* exactly the claimed events, each once in each of its columns.           *)
(***************************************************************************)
EXTENDS AnalyticsProjector, TLAPS, FiniteSetTheorems

----------------------------------------------------------------------------
(* The inductive invariant. *)

ProjectorTypes ==
  /\ log \in [1..Length -> Ids \cup {Junk}]
  /\ committed \in 1..(Length + 1)
  /\ stage \in [Instances -> {"read", "mark", "apply", "stopped"}]
  /\ current \in [Instances -> 0..Length]
  /\ claimed \subseteq Ids \ Garbled /\ IsFiniteSet(claimed)
  /\ rollup \in [Columns -> Nat]

(* An instance that marks or applies has a message in hand, and applies    *)
(* only what is an event.                                                  *)
InHand ==
  \A c \in Instances :
    /\ stage[c] \in {"mark", "apply"} => current[c] \in 1..Length
    /\ stage[c] = "apply" => event(c) # Junk

ProjectorInv == ProjectorTypes /\ InHand /\ RollupMatchesClaims

----------------------------------------------------------------------------
(* The claimed events that count in a column. *)
Counted(S, col) == {e \in S : e \notin Garbled /\ col \in Cells(e)}

(* A new event adds one to each of its columns and nothing to the others.  *)
LEMMA CountedGrows ==
  ASSUME NEW S, IsFiniteSet(S), NEW e, e \notin S, e \notin Garbled, NEW col
  PROVE  /\ Cardinality(Counted(S, col)) \in Nat
         /\ Cardinality(Counted(S \cup {e}, col)) =
              IF col \in Cells(e) THEN Cardinality(Counted(S, col)) + 1
              ELSE Cardinality(Counted(S, col))
<1>1. IsFiniteSet(Counted(S, col))
  BY FS_Subset DEF Counted
<1>2. CASE col \in Cells(e)
  <2>1. Counted(S \cup {e}, col) = Counted(S, col) \cup {e} /\ e \notin Counted(S, col)
    BY <1>2 DEF Counted
  <2> QED BY <1>1, <1>2, <2>1, FS_AddElement, FS_CardinalityType
<1>3. CASE col \notin Cells(e)
  <2>1. Counted(S \cup {e}, col) = Counted(S, col)
    BY <1>3 DEF Counted
  <2> QED BY <1>1, <1>3, <2>1, FS_CardinalityType
<1> QED BY <1>2, <1>3

(* withClaim: the claim and its counts move together, or not at all. *)
LEMMA ClaimAndCountStep ==
  ASSUME ProjectorInv, NEW e \in Ids \ Garbled, ClaimAndCount(e)
  PROVE  /\ claimed' \subseteq Ids \ Garbled /\ IsFiniteSet(claimed')
         /\ rollup' \in [Columns -> Nat]
         /\ RollupMatchesClaims'
<1> USE DEF ProjectorInv, ProjectorTypes
<1>1. CASE e \in claimed
  <2>1. claimed' = claimed /\ rollup' = rollup
    BY <1>1 DEF ClaimAndCount
  <2> QED BY <2>1 DEF RollupMatchesClaims
<1>2. CASE e \notin claimed
  <2>1. /\ claimed' = claimed \cup {e}
        /\ rollup' = [col \in Columns |->
                        IF col \in Cells(e) THEN rollup[col] + 1 ELSE rollup[col]]
    BY <1>2 DEF ClaimAndCount
  <2>2. IsFiniteSet(claimed')
    BY <2>1, FS_AddElement
  <2>3. \A col \in Columns : rollup[col] = Cardinality(Counted(claimed, col))
    BY DEF RollupMatchesClaims, Counted
  <2>4. \A col \in Columns : rollup'[col] = Cardinality(Counted(claimed', col))
    <3>1. TAKE col \in Columns
    <3>2. Cardinality(Counted(claimed \cup {e}, col)) =
            IF col \in Cells(e) THEN Cardinality(Counted(claimed, col)) + 1
            ELSE Cardinality(Counted(claimed, col))
      BY <1>2, CountedGrows
    <3> QED BY <2>1, <2>3, <3>2
  <2>5. rollup' \in [Columns -> Nat]
    BY <2>1
  <2>6. RollupMatchesClaims'
    BY <2>4 DEF RollupMatchesClaims, Counted
  <2> QED BY <2>1, <2>2, <2>5, <2>6
<1> QED BY <1>1, <1>2

(* What is in hand can be marked or applied. *)
LEMMA EventFacts ==
  ASSUME ProjectorInv, NEW c \in Instances, stage[c] \in {"mark", "apply"}
  PROVE  event(c) \in Ids \cup {Junk} /\ (stage[c] = "apply" => event(c) \in Ids)
  BY DEF ProjectorInv, ProjectorTypes, InHand, event

(* An instance that lets go of its message disturbs no other. *)
LEMMA LetsGo ==
  ASSUME ProjectorInv, NEW c \in Instances, NEW s \in {"read", "stopped"}, Goto(c, s),
         UNCHANGED <<log, current>>
  PROVE  InHand' /\ stage' \in [Instances -> {"read", "mark", "apply", "stopped"}]
  BY DEF ProjectorInv, ProjectorTypes, InHand, Goto, event

LEMMA ReadStep ==
  ASSUME ProjectorInv, NEW c \in Instances, Read(c) \/ ReadFails(c)
  PROVE  ProjectorInv'
<1> USE BoundsAssumption DEF ProjectorInv
<1>1. RollupMatchesClaims'
  BY DEF Read, ReadFails, RollupMatchesClaims
<1>2. CASE Read(c)
  <2>1. ProjectorTypes'
    BY <1>2 DEF Read, ProjectorTypes, Goto
  <2>2. InHand'
    BY <1>2 DEF Read, ProjectorTypes, Goto, InHand, event
  <2> QED BY <1>1, <2>1, <2>2
<1>3. CASE ReadFails(c)
  <2>1. InHand' /\ stage' \in [Instances -> {"read", "mark", "apply", "stopped"}]
    BY <1>3, LetsGo DEF ReadFails
  <2>2. ProjectorTypes'
    BY <1>3, <2>1 DEF ReadFails, ProjectorTypes
  <2> QED BY <1>1, <2>1, <2>2
<1> QED BY <1>2, <1>3

LEMMA MarkStep ==
  ASSUME ProjectorInv, NEW c \in Instances, Mark(c) \/ MarkFails(c)
  PROVE  ProjectorInv'
<1> USE DEF ProjectorInv
<1>1. /\ UNCHANGED <<log, committed, current, claimed, rollup>>
      /\ stage[c] = "mark"
      /\ Goto(c, "read") \/ (Goto(c, "apply") /\ event(c) # Junk)
  BY DEF Mark, MarkFails, GiveUp
<1>2. RollupMatchesClaims'
  BY <1>1 DEF RollupMatchesClaims
<1>3. InHand' /\ stage' \in [Instances -> {"read", "mark", "apply", "stopped"}]
  <2>1. CASE Goto(c, "read")
    BY <1>1, <2>1, LetsGo
  <2>2. CASE Goto(c, "apply") /\ event(c) # Junk
    BY <1>1, <2>2 DEF ProjectorTypes, Goto, InHand, event
  <2> QED BY <1>1, <2>1, <2>2
<1>4. ProjectorTypes'
  BY <1>1, <1>3 DEF ProjectorTypes
<1> QED BY <1>2, <1>3, <1>4

LEMMA ApplyStep ==
  ASSUME ProjectorInv, NEW c \in Instances, Apply(c) \/ ApplyFails(c)
  PROVE  ProjectorInv'
<1> USE DEF ProjectorInv
<1>1. /\ UNCHANGED <<log, committed, current>>
      /\ stage[c] = "apply" /\ Goto(c, "read")
      /\ UNCHANGED <<claimed, rollup>> \/ (event(c) \notin Garbled /\ ClaimAndCount(event(c)))
  BY DEF Apply, ApplyFails, GiveUp
<1>2. InHand' /\ stage' \in [Instances -> {"read", "mark", "apply", "stopped"}]
  BY <1>1, LetsGo
<1>3. /\ claimed' \subseteq Ids \ Garbled /\ IsFiniteSet(claimed')
      /\ rollup' \in [Columns -> Nat] /\ RollupMatchesClaims'
  <2>1. CASE UNCHANGED <<claimed, rollup>>
    BY <2>1 DEF ProjectorTypes, RollupMatchesClaims
  <2>2. CASE event(c) \notin Garbled /\ ClaimAndCount(event(c))
    BY <1>1, <2>2, EventFacts, ClaimAndCountStep
  <2> QED BY <1>1, <2>1, <2>2
<1>4. ProjectorTypes'
  BY <1>1, <1>2, <1>3 DEF ProjectorTypes
<1> QED BY <1>2, <1>3, <1>4

----------------------------------------------------------------------------
(* The theorems. *)

(* The inductive invariant of the projector holds in every reachable state. *)
THEOREM ProjectorInvariant == Spec => []ProjectorInv
<1>1. Init => ProjectorInv
  <2> SUFFICES ASSUME Init PROVE ProjectorInv
    OBVIOUS
  <2>1. ProjectorTypes
    BY FS_EmptySet, BoundsAssumption DEF Init, ProjectorTypes
  <2>2. InHand
    BY DEF Init, InHand
  <2>3. RollupMatchesClaims
    <3>1. \A col \in Columns : Counted({}, col) = {}
      BY DEF Counted
    <3> QED BY <3>1, FS_EmptySet DEF Init, RollupMatchesClaims, Counted
  <2> QED BY <2>1, <2>2, <2>3 DEF ProjectorInv
<1>2. ProjectorInv /\ [Next]_vars => ProjectorInv'
  <2> SUFFICES ASSUME ProjectorInv, [Next]_vars PROVE ProjectorInv'
    OBVIOUS
  <2>1. CASE UNCHANGED vars
    BY <2>1 DEF vars, ProjectorInv, ProjectorTypes, InHand, RollupMatchesClaims, event
  <2>2. ASSUME NEW c \in Instances, Restart(c) PROVE ProjectorInv'
    <3>1. InHand' /\ stage' \in [Instances -> {"read", "mark", "apply", "stopped"}]
      BY <2>2, LetsGo DEF Restart
    <3> QED BY <2>2, <3>1 DEF Restart, ProjectorInv, ProjectorTypes, RollupMatchesClaims
  <2>3. CASE Rebalance
    BY <2>3 DEF Rebalance, ProjectorInv, ProjectorTypes, InHand, RollupMatchesClaims, event
  <2> QED BY <2>1, <2>2, <2>3, ReadStep, MarkStep, ApplyStep DEF Next, Handle
<1> QED BY <1>1, <1>2, PTL DEF Spec

(* Every claimed event is counted once in each of its columns, and nothing *)
(* else is, through duplicates, rebalances and lost answers.               *)
THEOREM CountedOnce == Spec => []RollupMatchesClaims
<1>1. ProjectorInv => RollupMatchesClaims
  BY DEF ProjectorInv
<1> QED BY <1>1, ProjectorInvariant, PTL
=============================================================================
