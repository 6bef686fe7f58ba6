---------------------------- MODULE LabelService ----------------------------
(***************************************************************************)
(* label-svc: the lifecycle of a label and, each in a world of its own     *)
(* because they share no state with it that the properties tell apart, the *)
(* compliance of a label, a walk through the list, and the products.       *)
(***************************************************************************)
EXTENDS LabelLifecycle, FiniteSets, Sequences

CONSTANTS
  Translations, Categories, EditedFields, \* of Compliance
  MaxLabels, PerPage,                     \* of LabelList
  Products, MaxPrints                     \* of Products

ASSUME ListAssumption == MaxLabels \in Nat /\ PerPage \in Nat

VARIABLES
  world,
  category, stored, score, missing, answered, edited,
  uploaded, listed, step, page, total, shown, owed, left, raced,
  defaults, prints, given, bare

Worlds == {"lifecycle", "compliance", "list", "products"}

complianceVars == <<category, stored, score, missing, answered, edited>>
listVars == <<uploaded, listed, step, page, total, shown, owed, left, raced>>
productVars == <<defaults, prints, given, bare>>
serviceVars == <<world, vars, complianceVars, listVars, productVars>>

C == INSTANCE Compliance WITH fields <- stored

L == INSTANCE LabelList

P == INSTANCE Products WITH fields <- defaults, Keys <- Fields

ServiceInit ==
  /\ world \in Worlds
  /\ Init /\ C!Init /\ P!Init
  /\ IF world = "list" THEN L!Init
     ELSE /\ uploaded = 0 /\ listed = {} /\ step = "start" /\ page = 1
          /\ total = 0 /\ shown = {} /\ owed = {}
          /\ left = FALSE /\ raced = FALSE

(* The servers of main: gRPC and the task handler, and HTTP for products.  *)
ServiceNext ==
  \/ /\ world = "lifecycle" /\ Next
     /\ UNCHANGED <<world, complianceVars, listVars, productVars>>
  \/ /\ world = "compliance" /\ C!Next
     /\ UNCHANGED <<world, vars, listVars, productVars>>
  \/ /\ world = "list" /\ L!Next
     /\ UNCHANGED <<world, vars, complianceVars, productVars>>
  \/ /\ world = "products" /\ P!Next
     /\ UNCHANGED <<world, vars, complianceVars, listVars>>

ServiceSpec == ServiceInit /\ [][ServiceNext]_serviceVars /\ Fairness

-----------------------------------------------------------------------------
(* What GET /compliance shows is current unless a validation did not       *)
(* answer or an edit came after it.                                        *)
ComplianceIsCurrent == C!ComplianceIsCurrent

(* A walk through the list misses a label only after a removal or a race   *)
(* between COUNT and SELECT.                                               *)
WalkShowsAll == L!WalkShowsAll

(* A product keeps the fields it was given until a call leaves them out.   *)
FieldsSurviveUnlessBare == P!FieldsSurviveUnlessBare
=============================================================================
