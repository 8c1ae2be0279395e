---------------------------- MODULE RuleLoopProofs ----------------------------
(***************************************************************************)
(* Proofs about one rule and one deployment, for every int32 width and every *)
(* rule, measurement and replica count.                                      *)
(***************************************************************************)
EXTENDS RuleLoop, ReplicaDecisionProofs

(* A rule with its defaults filled in is a rule.                             *)
LEMMA DefaultsAreARule ==
  ASSUME NEW r \in RuleBody
  PROVE  ApplyDefaults(r) \in RuleBody
<1>1. /\ 1 \in Int32 /\ 5 \in Int32
      /\ ">" \in Operators
  BY IntMaxAssumption DEF Int32, IntMin, Operators, KnownOperators
<1> QED
  BY <1>1 DEF ApplyDefaults, RuleBody

(* Two's complement addition stays an int32.                                 *)
LEMMA WrapIsInt32 ==
  ASSUME NEW m \in Int32, NEW n \in Int32
  PROVE  /\ Wrap32(m + n) \in Int32
         /\ Wrap32(m - n) \in Int32
<1>1. /\ m \in Int /\ n \in Int /\ IntMax \in Int
      /\ -IntMax - 1 <= m /\ m <= IntMax /\ -IntMax - 1 <= n /\ n <= IntMax
  BY IntMaxAssumption DEF Int32, IntMin
<1>2. ASSUME NEW k \in Int, -2 * IntMax - 2 <= k, k <= 2 * IntMax + 1
      PROVE  Wrap32(k) \in Int32
  BY <1>1, <1>2, IntMaxAssumption DEF Wrap32, Int32, IntMin
<1> QED
  BY <1>1, <1>2

(* A decision on an int32 count is an int32 count.                           *)
LEMMA DecisionIsInt32 ==
  ASSUME NEW r \in RuleBody, NEW n \in Int32, NEW v \in Int
  PROVE  DecideReplicas(n, v, r) \in Int32
<1>1. r.step \in Int32 /\ r.minReplicas \in Int32 /\ r.maxReplicas \in Int32
  BY DEF RuleBody
<1>2. StepOf(r) \in Int32
  BY <1>1, IntMaxAssumption DEF StepOf, Int32, IntMin
<1>3. Moved(n, r) \in Int32
  BY <1>2, WrapIsInt32 DEF Moved
<1>4. RaiseToMin(Moved(n, r), r) \in Int32
  BY <1>1, <1>3 DEF RaiseToMin
<1>5. CutToMax(RaiseToMin(Moved(n, r), r), r) \in Int32
  BY <1>1, <1>4 DEF CutToMax, EffectiveMax
<1> QED
  BY <1>5 DEF DecideReplicas

(* The type invariant: the count stays a non-negative int32.                 *)
THEOREM LoopTypeCorrect == Spec => []TypeOK
<1>1. Init => TypeOK
  BY RuleLoopAssumption, DefaultsAreARule DEF Init, TypeOK
<1>2. TypeOK /\ [Next]_vars => TypeOK'
  <2> SUFFICES ASSUME TypeOK, [Next]_vars PROVE TypeOK'
    OBVIOUS
  <2>1. CASE Reconcile
    <3>1. current \in Int32
      BY IntMaxAssumption DEF TypeOK, Int32, IntMin
    <3>2. DecideReplicas(current, value, rule) \in Int32
      BY <3>1, DecisionIsInt32 DEF TypeOK
    <3> QED
      BY <2>1, <3>2, IntMaxAssumption DEF Reconcile, TypeOK, Int32, IntMin
  <2>2. CASE Measure
    BY <2>2, RuleLoopAssumption DEF Measure, TypeOK
  <2>3. CASE UNCHANGED vars
    BY <2>3 DEF vars, TypeOK
  <2> QED
    BY <2>1, <2>2, <2>3 DEF Next
<1> QED
  BY <1>1, <1>2, PTL DEF Spec

-----------------------------------------------------------------------------
(* Without overflow a rule that acts moves by exactly its step, and with     *)
(* positive bounds the result is the bound it passed, or the target.         *)
LEMMA ActsByClamping ==
  ASSUME TypeOK, Bounded(rule), NoOverflow, Acts(value, rule)
  PROVE  /\ Target \in Int
         /\ rule.minReplicas \in Int /\ EffectiveMax(rule) \in Int
         /\ rule.minReplicas <= EffectiveMax(rule)
         /\ DecideReplicas(current, value, rule) =
              IF Target < rule.minReplicas THEN rule.minReplicas
              ELSE IF Target > EffectiveMax(rule) THEN EffectiveMax(rule)
              ELSE Target
<1>1. /\ rule \in RuleBody /\ current \in Int /\ 0 <= current /\ current <= IntMax
      /\ rule.step \in Int /\ rule.minReplicas \in Int /\ rule.maxReplicas \in Int
      /\ rule.step <= IntMax
      /\ rule.minReplicas > 0 /\ rule.maxReplicas > 0
      /\ IntMax \in Int
  BY IntMaxAssumption, RuleFields DEF TypeOK, Bounded, RuleBody, Int32, IntMin
<1>2. StepOf(rule) \in Int /\ 1 <= StepOf(rule) /\ StepOf(rule) <= IntMax
  BY <1>1, IntMaxAssumption DEF StepOf
<1>3. Moved(current, rule) = Target /\ Target \in Int
  BY <1>1, <1>2, IntMaxAssumption DEF Moved, Target, Wrap32, IntMin, NoOverflow
<1>4. /\ EffectiveMax(rule) \in Int
      /\ rule.minReplicas <= EffectiveMax(rule)
  BY <1>1 DEF EffectiveMax
<1> QED
  BY <1>1, <1>3, <1>4 DEF DecideReplicas, CutToMax, RaiseToMin

(* The nearest allowed count is unique: it is the target, or the bound the   *)
(* target lies beyond.                                                       *)
LEMMA NearestIsClamp ==
  ASSUME NEW lo \in Int, NEW hi \in Int, NEW t \in Int, lo <= hi, NEW n \in lo .. hi,
         \A m \in lo .. hi : Distance(n, t) <= Distance(m, t)
  PROVE  n = IF t < lo THEN lo ELSE IF t > hi THEN hi ELSE t
<1>1. CASE t < lo
  BY <1>1 DEF Distance
<1>2. CASE t > hi
  BY <1>2 DEF Distance
<1>3. CASE lo <= t /\ t <= hi
  BY <1>3 DEF Distance
<1> QED
  BY <1>1, <1>2, <1>3

(* The clamp is at least as near to the target as any allowed count.         *)
LEMMA ClampIsNearest ==
  ASSUME NEW lo \in Int, NEW hi \in Int, NEW t \in Int, lo <= hi
  PROVE  \E n \in lo .. hi : \A m \in lo .. hi : Distance(n, t) <= Distance(m, t)
<1>1. CASE t < lo
  <2>1. lo \in lo .. hi /\ \A m \in lo .. hi : Distance(lo, t) <= Distance(m, t)
    BY <1>1 DEF Distance
  <2> QED
    BY <2>1
<1>2. CASE t > hi
  <2>1. hi \in lo .. hi /\ \A m \in lo .. hi : Distance(hi, t) <= Distance(m, t)
    BY <1>2 DEF Distance
  <2> QED
    BY <2>1
<1>3. CASE lo <= t /\ t <= hi
  <2>1. t \in lo .. hi /\ \A m \in lo .. hi : Distance(t, t) <= Distance(m, t)
    BY <1>3 DEF Distance
  <2> QED
    BY <2>1
<1> QED
  BY <1>1, <1>2, <1>3

(* Whatever the rule and the count, an action that does not overflow ends    *)
(* at the allowed count nearest to current plus or minus step.               *)
THEOREM ClampingIsNearest == Spec => []ClampsToNearest
<1>1. TypeOK => ClampsToNearest
  <2> SUFFICES ASSUME TypeOK, Bounded(rule), NoOverflow, Acts(value, rule)
               PROVE  DecideReplicas(current, value, rule) = NearestAllowed
    BY DEF ClampsToNearest
  <2>1. /\ NearestAllowed \in Allowed
        /\ \A m \in Allowed : Distance(NearestAllowed, Target) <= Distance(m, Target)
    BY ActsByClamping, ClampIsNearest DEF NearestAllowed, Allowed
  <2>2. NearestAllowed = IF Target < rule.minReplicas THEN rule.minReplicas
                         ELSE IF Target > EffectiveMax(rule) THEN EffectiveMax(rule)
                         ELSE Target
    <3>1. /\ rule.minReplicas \in Int /\ EffectiveMax(rule) \in Int /\ Target \in Int
          /\ rule.minReplicas <= EffectiveMax(rule)
      BY ActsByClamping
    <3> QED
      BY <2>1, <3>1, NearestIsClamp DEF Allowed
  <2> QED
    BY <2>2, ActsByClamping
<1> QED
  BY <1>1, LoopTypeCorrect, PTL

(* A deployment inside the bounds of its rule stays inside, moves in the     *)
(* direction of the action, and by no more than the step.                    *)
THEOREM StepsAreInside == Spec => StepsStayInside
<1> DEFINE Inside ==
      (Bounded(rule) /\ NoOverflow /\ current \in Allowed /\ current' # current)
        => /\ current' \in Allowed
           /\ Distance(current, current') <= StepOf(rule)
           /\ (ActionOf(rule) = "scale_up") = (current' > current)
<1>1. TypeOK /\ [Next]_vars => [Inside]_vars
  <2> SUFFICES ASSUME TypeOK, Next, Bounded(rule), NoOverflow, current \in Allowed,
                      current' # current
               PROVE  /\ current' \in Allowed
                      /\ Distance(current, current') <= StepOf(rule)
                      /\ (ActionOf(rule) = "scale_up") = (current' > current)
    OBVIOUS
  <2>1. /\ current' = DecideReplicas(current, value, rule)
        /\ Acts(value, rule)
    BY DEF Next, Reconcile, Measure, DecideReplicas
  <2>2. StepOf(rule) \in Int /\ 1 <= StepOf(rule)
    BY RuleFields DEF TypeOK, StepOf
  <2>3. current \in Int
    BY DEF TypeOK
  <2> QED
    BY <2>1, <2>2, <2>3, ActsByClamping DEF Allowed, Distance, Target
<1> QED
  BY <1>1, LoopTypeCorrect, PTL DEF Spec, StepsStayInside

(* As long as the rule and its action stand, every step of the loop brings the *)
(* deployment strictly nearer to the bound of the action: the variant that   *)
(* makes the loop end there (Rests), for every width and every rule.         *)
THEOREM StepsApproachTheBound ==
  Spec => [][(Bounded(rule) /\ NoOverflow /\ current' # current)
               => Approaches(current, current', BoundOf(rule))]_vars
<1> DEFINE Nearer == (Bounded(rule) /\ NoOverflow /\ current' # current)
                       => Approaches(current, current', BoundOf(rule))
<1>1. TypeOK /\ [Next]_vars => [Nearer]_vars
  <2> SUFFICES ASSUME TypeOK, Next, Bounded(rule), NoOverflow, current' # current
               PROVE  Approaches(current, current', BoundOf(rule))
    OBVIOUS
  <2>1. current' = DecideReplicas(current, value, rule)
    BY DEF Next, Reconcile, Measure
  <2> QED
    BY <2>1, ActionsApproachTheirBound, IntMaxAssumption DEF TypeOK, Bounded, NoOverflow
<1> QED
  BY <1>1, LoopTypeCorrect, PTL DEF Spec

(* The half of Rests that needs no fairness: at the bound of its action a rule *)
(* moves the deployment no more, from whichever side it came.                *)
THEOREM BoundIsKept ==
  Spec => [][(Bounded(rule) /\ NoOverflow /\ current = BoundOf(rule))
               => current' = current]_vars
<1> DEFINE Step == (Bounded(rule) /\ NoOverflow /\ current' # current)
                     => Approaches(current, current', BoundOf(rule))
           Keeps == (Bounded(rule) /\ NoOverflow /\ current = BoundOf(rule))
                      => current' = current
<1>1. TypeOK /\ TypeOK' /\ [Step]_vars => [Keeps]_vars
  BY DEF TypeOK, Approaches
<1> QED
  BY <1>1, StepsApproachTheBound, LoopTypeCorrect, PTL
=============================================================================
