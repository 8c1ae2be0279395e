--------------------------- MODULE ReplicaDecision ---------------------------
(***************************************************************************)
(* The arithmetic of one scaling decision: decideReplicas and the defaults  *)
(* applyDefaults fills in.  Pure operators, shared by every module about    *)
(* scaling.  Replica counts are Go int32 values; IntMax stands for 2^31-1,  *)
(* so that a run can take a narrow integer and still meet the wrap-around.  *)
(*                                                                          *)
(* Thresholds and metric values are float64 in the code; a decision only    *)
(* compares them, so any integers do.                                       *)
(***************************************************************************)
EXTENDS Integers

CONSTANT IntMax

(* Wide enough for the default bounds. *)
ASSUME IntMaxAssumption == IntMax \in Nat /\ IntMax >= 5

IntMin == -IntMax - 1
Int32 == IntMin .. IntMax

(* The sum or difference of two int32 values, as two's complement keeps it. *)
Wrap32(n) ==
  CASE n > IntMax -> n - (2 * IntMax + 2)
    [] n < IntMin -> n + (2 * IntMax + 2)
    [] OTHER      -> n

KnownOperators == {">", ">=", "<", "<="}
KnownActions   == {"scale_up", "scale_down"}

(* "" is the zero value: the field is absent from the stored document;      *)
(* "==" stands for any operator, "restart" for any action the code ignores. *)
Operators == KnownOperators \cup {"", "=="}
Actions   == KnownActions \cup {"", "restart"}

(* The fields of a ScalingRule a decision reads. *)
RuleBody ==
  [operator : Operators, threshold : Int, action : Actions,
   step : Int32, minReplicas : Int32, maxReplicas : Int32]

(* The fields a rule keeps at their zero value get the documented defaults. *)
ApplyDefaults(rule) ==
  [rule EXCEPT !.operator    = IF @ = "" THEN ">" ELSE @,
               !.minReplicas = IF @ = 0 THEN 1 ELSE @,
               !.maxReplicas = IF @ = 0 THEN 5 ELSE @,
               !.step        = IF @ = 0 THEN 1 ELSE @]

ConditionMet(value, rule) ==
  \/ rule.operator = ">"  /\ value > rule.threshold
  \/ rule.operator = ">=" /\ value >= rule.threshold
  \/ rule.operator = "<"  /\ value < rule.threshold
  \/ rule.operator = "<=" /\ value <= rule.threshold

(* The action of a rule that names none follows its operator. *)
ActionOf(rule) ==
  IF rule.action # "" THEN rule.action
  ELSE IF rule.operator \in {">", ">="} THEN "scale_up" ELSE "scale_down"

(* Faulty variant of StepOf: the step is taken as it is. *)
PlainStep(rule) == rule.step

StepOf(rule) == IF rule.step < 1 THEN 1 ELSE rule.step

Moved(current, rule) ==
  IF ActionOf(rule) = "scale_up" THEN Wrap32(current + StepOf(rule))
  ELSE Wrap32(current - StepOf(rule))

(* Faulty variant of RaiseToMin: the minimum bounds the count from zero only. *)
RaiseFromZero(n, rule) ==
  IF rule.minReplicas > 0 /\ n <= 0 THEN rule.minReplicas ELSE n

RaiseToMin(n, rule) ==
  IF rule.minReplicas > 0 /\ n < rule.minReplicas THEN rule.minReplicas ELSE n

(* A maximum below the minimum counts as the minimum. *)
EffectiveMax(rule) ==
  IF rule.minReplicas > 0 /\ rule.maxReplicas < rule.minReplicas
  THEN rule.minReplicas ELSE rule.maxReplicas

(* Faulty variant of CutToMax: off by one at the upper bound. *)
CutAboveMax(n, rule) ==
  IF rule.maxReplicas > 0 /\ n > EffectiveMax(rule) + 1 THEN EffectiveMax(rule) ELSE n

CutToMax(n, rule) ==
  IF rule.maxReplicas > 0 /\ n > EffectiveMax(rule) THEN EffectiveMax(rule) ELSE n

(* The replica count decideReplicas returns; a rule that does not act gives *)
(* back the count it was given.                                             *)
Acts(value, rule) == ConditionMet(value, rule) /\ ActionOf(rule) \in KnownActions

DecideReplicas(current, value, rule) ==
  IF Acts(value, rule)
  THEN CutToMax(RaiseToMin(Moved(current, rule), rule), rule)
  ELSE current

=============================================================================
