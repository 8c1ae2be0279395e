------------------------ MODULE ReplicaDecisionProofs ------------------------
(***************************************************************************)
(* Facts about decideReplicas for every int32 width, rule, measurement and   *)
(* replica count.                                                            *)
(***************************************************************************)
EXTENDS ReplicaDecision, TLAPS

(* The fields of a rule have their types.                                    *)
LEMMA RuleFields ==
  ASSUME NEW rule \in RuleBody
  PROVE  /\ rule.step \in Int
         /\ rule.minReplicas \in Int
         /\ rule.maxReplicas \in Int
         /\ rule.threshold \in Int
  BY IntMaxAssumption DEF RuleBody, Int32, IntMin

(* Two's complement addition gives an integer again.                         *)
LEMMA WrapIsInt ==
  ASSUME NEW n \in Int
  PROVE  Wrap32(n) \in Int
  BY IntMaxAssumption DEF Wrap32

LEMMA MovedIsInt ==
  ASSUME NEW rule \in RuleBody, NEW current \in Int
  PROVE  Moved(current, rule) \in Int
<1>1. StepOf(rule) \in Int
  BY RuleFields DEF StepOf
<1>2. current + StepOf(rule) \in Int /\ current - StepOf(rule) \in Int
  BY <1>1
<1> QED
  BY <1>2, WrapIsInt DEF Moved

(* Clamping an integer with integer bounds gives an integer.                 *)
LEMMA ClampIsInt ==
  ASSUME NEW rule \in RuleBody, NEW n \in Int
  PROVE  CutToMax(RaiseToMin(n, rule), rule) \in Int
<1>1. RaiseToMin(n, rule) \in Int
  BY RuleFields DEF RaiseToMin
<1>2. EffectiveMax(rule) \in Int
  BY RuleFields DEF EffectiveMax
<1> QED
  BY <1>1, <1>2 DEF CutToMax

(* A decision is an integer whatever the rule.                               *)
LEMMA DecisionIsInt ==
  ASSUME NEW rule \in RuleBody, NEW current \in Int, NEW value \in Int
  PROVE  DecideReplicas(current, value, rule) \in Int
  BY MovedIsInt, ClampIsInt DEF DecideReplicas

(* Clamping to positive bounds ends within them, even if the maximum was     *)
(* configured below the minimum.                                             *)
LEMMA ClampIsWithin ==
  ASSUME NEW rule \in RuleBody, NEW n \in Int,
         rule.minReplicas > 0, rule.maxReplicas > 0
  PROVE  CutToMax(RaiseToMin(n, rule), rule)
           \in rule.minReplicas .. EffectiveMax(rule)
  BY RuleFields DEF CutToMax, RaiseToMin, EffectiveMax

(* With positive bounds a decision leaves the count alone or is within the   *)
(* bounds, also when the addition of the step overflows.                     *)
THEOREM DecisionIsWithin ==
  ASSUME NEW rule \in RuleBody, NEW current \in Int, NEW value \in Int,
         rule.minReplicas > 0, rule.maxReplicas > 0
  PROVE  \/ DecideReplicas(current, value, rule) = current
         \/ DecideReplicas(current, value, rule)
              \in rule.minReplicas .. EffectiveMax(rule)
  BY MovedIsInt, ClampIsWithin DEF DecideReplicas

-----------------------------------------------------------------------------
(* The bound an action drives the count to.                                  *)
BoundOf(rule) ==
  IF ActionOf(rule) = "scale_up" THEN EffectiveMax(rule) ELSE rule.minReplicas

(* From m to n is a move towards the bound and not past it.                  *)
Approaches(m, n, bound) ==
  \/ m < n /\ n <= bound
  \/ bound <= n /\ n < m

(* With positive bounds and no overflow, a decision that changes the count   *)
(* brings it nearer to the bound of the action, from either side and also if *)
(* the maximum was configured below the minimum: an action never moves a     *)
(* deployment away from its bound, nor past it.                              *)
THEOREM ActionsApproachTheirBound ==
  ASSUME NEW rule \in RuleBody, NEW current \in Nat, NEW value \in Int,
         rule.minReplicas > 0, rule.maxReplicas > 0, current + StepOf(rule) <= IntMax,
         DecideReplicas(current, value, rule) # current
  PROVE  Approaches(current, DecideReplicas(current, value, rule), BoundOf(rule))
<1> DEFINE min == rule.minReplicas
           max == EffectiveMax(rule)
           step == StepOf(rule)
           next == DecideReplicas(current, value, rule)
           clamped(n) == IF n < min THEN min ELSE IF n > max THEN max ELSE n
<1>1. /\ min \in Int /\ max \in Int /\ 0 < min /\ min <= max
      /\ step \in Int /\ 1 <= step /\ step <= IntMax /\ IntMax \in Int
  BY RuleFields, IntMaxAssumption DEF EffectiveMax, StepOf, RuleBody, Int32, IntMin
<1>2. \A n \in Int : CutToMax(RaiseToMin(n, rule), rule) = clamped(n)
  BY <1>1 DEF CutToMax, RaiseToMin
<1>3. /\ Wrap32(current + step) = current + step
      /\ Wrap32(current - step) = current - step
  BY <1>1 DEF Wrap32, IntMin
<1>4. /\ Acts(value, rule)
      /\ next = clamped(IF ActionOf(rule) = "scale_up" THEN current + step ELSE current - step)
  BY <1>1, <1>2, <1>3 DEF DecideReplicas, Moved
<1> HIDE DEF min, max, step, next
<1>5. CASE ActionOf(rule) = "scale_up"
  <2>1. next = clamped(current + step) /\ next # current
    BY <1>4, <1>5 DEF next
  <2>2. Approaches(current, next, max)
    BY <1>1, <2>1 DEF Approaches
  <2> QED
    BY <1>5, <2>2 DEF BoundOf, next, max
<1>6. CASE ActionOf(rule) # "scale_up"
  <2>1. next = clamped(current - step) /\ next # current
    BY <1>4, <1>6 DEF next
  <2>2. Approaches(current, next, min)
    BY <1>1, <2>1 DEF Approaches
  <2> QED
    BY <1>6, <2>2 DEF BoundOf, next, min
<1> QED
  BY <1>5, <1>6

(* What becomes of a scale_up whose sum does not fit an int32: it wraps to a *)
(* negative count, and the deployment is scaled DOWN to the minimum of the   *)
(* rule, not clamped to its maximum (decideReplicas checks no overflow).     *)
THEOREM OverflowEndsAtMinimum ==
  ASSUME NEW rule \in RuleBody, NEW current \in 0 .. IntMax, NEW value \in Int,
         rule.minReplicas > 0, rule.maxReplicas > 0,
         Acts(value, rule), ActionOf(rule) = "scale_up", current + StepOf(rule) > IntMax
  PROVE  DecideReplicas(current, value, rule) = rule.minReplicas
<1>1. /\ rule.minReplicas \in Int /\ rule.maxReplicas \in Int
      /\ rule.minReplicas <= EffectiveMax(rule) /\ EffectiveMax(rule) \in Int
      /\ StepOf(rule) \in Int /\ StepOf(rule) <= IntMax /\ IntMax \in Int /\ current <= IntMax
  BY RuleFields, IntMaxAssumption DEF EffectiveMax, StepOf, RuleBody, Int32, IntMin
<1>2. Moved(current, rule) \in Int /\ Moved(current, rule) < 0
  BY <1>1 DEF Moved, Wrap32, IntMin
<1> QED
  BY <1>1, <1>2 DEF DecideReplicas, CutToMax, RaiseToMin
=============================================================================
