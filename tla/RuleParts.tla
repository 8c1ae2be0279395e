------------------------------ MODULE RuleParts ------------------------------
(***************************************************************************)
(* The two halves of a scaling rule that do not meet but through a           *)
(* controller's cache (ScalingController): the collection that keeps it, to  *)
(* which its body is opaque, and the arithmetic of its decisions, which      *)
(* knows no store.  A behaviour is one of either.                           *)
(***************************************************************************)
EXTENDS RuleLoop, RuleStore

VARIABLE part \* the half whose behaviour this is

partsVars == <<part, vars, storeVars>>

(* What the loop is where it does not matter: a rule that has nothing to do. *)
AtRest == CHOOSE t \in Rules \X Values \X Starts : ~Acts(t[2], ApplyDefaults(t[1]))

PartsInit ==
  /\ part \in {"loop", "store"}
  /\ Init /\ StoreInit
  /\ part = "store" =>
       rule = ApplyDefaults(AtRest[1]) /\ value = AtRest[2] /\ current = AtRest[3]

LoopReconciles == part = "loop" /\ Reconcile /\ UNCHANGED <<part, storeVars>>
LoopMeasures == part = "loop" /\ Measure /\ UNCHANGED <<part, storeVars>>
StoreStep == part = "store" /\ StoreNext /\ UNCHANGED <<part, vars>>

PartsNext == LoopReconciles \/ LoopMeasures \/ StoreStep

(* The controller's ticker goes on; nobody need call the store. *)
PartsSpec == PartsInit /\ [][PartsNext]_partsVars /\ WF_partsVars(LoopReconciles)
=============================================================================
