----------------------------- MODULE Compliance -----------------------------
(***************************************************************************)
(* The compliance of one label: the rules agent-svc validates with, what   *)
(* label-svc stores of a validation, and what the readers of the row show. *)
(*                                                                         *)
(* A field counts as filled when it has a text that is not empty.          *)
(***************************************************************************)
EXTENDS Naturals, Sequences, FiniteSets

CONSTANTS
  Translations, \* what translations return: their map of fields
  Categories,   \* categories the vision agent names, "" for none
  EditedFields  \* fields the operator edits

VARIABLES
  category, \* labels.category
  fields,   \* labels.fields_translated
  score,    \* labels.compliance_score
  missing,  \* labels.missing_fields
  answered, \* history: the last result was validated
  edited    \* history: the fields were edited since the last result

vars == <<category, fields, score, missing, answered, edited>>

(* A map of fields, or something that json.Unmarshal does not store in one *)
(* (NULL, null, an array) and that therefore reads as no field.            *)
NoMap == [map |-> FALSE, filled |-> {}]

Init ==
  /\ category = ""
  /\ fields = NoMap
  /\ score = 0
  /\ missing = <<>>
  /\ answered = FALSE
  /\ edited = FALSE

-----------------------------------------------------------------------------
(* agent-svc *)

Rule(field, severity) == [field |-> field, severity |-> severity]

Common ==
  << Rule("product_name", "blocker"), Rule("manufacturer", "blocker"),
     Rule("quantity", "blocker"), Rule("country_of_origin", "warning") >>

Food ==
  << Rule("ingredients", "blocker"), Rule("expiry_date", "blocker"),
     Rule("storage_conditions", "warning"), Rule("allergens", "warning") >>

Cosmetic ==
  << Rule("ingredients", "blocker"), Rule("lot_number", "blocker"),
     Rule("warnings", "warning"), Rule("responsible_person", "blocker"),
     Rule("nominal_content", "blocker") >>

Electronics ==
  << Rule("manufacturer", "blocker"), Rule("model_number", "blocker"),
     Rule("ce_marking", "blocker"), Rule("warnings", "warning"),
     Rule("rohs_compliance", "warning") >>

Toy ==
  << Rule("warnings", "blocker"), Rule("age_range", "blocker"),
     Rule("ce_marking", "blocker"), Rule("manufacturer", "blocker"),
     Rule("material_composition", "warning") >>

ByCategory ==
  [food |-> Food, cosmetic |-> Cosmetic, electronics |-> Electronics,
   toy |-> Toy]

(* A field with two rules, as manufacturer of a toy, counts twice.         *)
RulesOf(c) ==
  Common \o (IF c \in DOMAIN ByCategory THEN ByCategory[c] ELSE <<>>)

(* What is missing is listed under the place of its rule.                  *)
Validate(filled, c) ==
  LET rules  == RulesOf(c)
      absent == {i \in DOMAIN rules : rules[i].field \notin filled}
  IN  [score   |-> ((Len(rules) - Cardinality(absent)) * 100) \div Len(rules),
       missing |-> [i \in absent |-> rules[i]]]

(* ProcessValidation: a translation without a map has no field.            *)
ProcessValidation(t, c) == Validate(t.filled, c)

-----------------------------------------------------------------------------
(* label-svc *)

ExtractCategory(c) == IF c = "" THEN "other" ELSE c

(* A mutant: a result without a map leaves the old fields.                 *)
SetAIResultKeeping(t, c, v) ==
  /\ category' = c
  /\ fields' = IF t.map THEN t ELSE fields
  /\ score' = v.score
  /\ missing' = v.missing

SetAIResult(t, c, v) ==
  /\ category' = c
  /\ fields' = t
  /\ score' = v.score
  /\ missing' = v.missing

(* Steps 4 and 5 of the worker.  A validation that does not answer only    *)
(* leaves the score 0 and nothing missing.                                 *)
StoreResult(t, c) ==
  \E ok \in BOOLEAN :
    /\ SetAIResult(t, ExtractCategory(c),
         IF ok THEN ProcessValidation(t, ExtractCategory(c))
               ELSE [score |-> 0, missing |-> <<>>])
    /\ answered' = ok
    /\ edited' = FALSE

(* UpdateFields of one field, with a text or with an empty one: the || of  *)
(* PostgreSQL.  Score and missing fields stay as they were.                *)
UpdateFields(f, text) ==
  /\ fields' = IF ~ fields.map THEN fields
               ELSE [fields EXCEPT !.filled = IF text THEN @ \cup {f}
                                              ELSE @ \ {f}]
  /\ edited' = (edited \/ fields.map)
  /\ UNCHANGED <<category, score, missing, answered>>

Next ==
  \/ \E t \in Translations, c \in Categories : StoreResult(t, c)
  \/ \E f \in EditedFields, text \in BOOLEAN : UpdateFields(f, text)

Spec == Init /\ [][Next]_vars

-----------------------------------------------------------------------------
(* The readers: GET /labels/{id}, /status and /compliance, the list, and   *)
(* what a print job copies.                                                *)

NotShown == [score |-> 0, missing |-> <<>>]

(* Without a score and a missing field there is no compliance.             *)
HasCompliance == score > 0 \/ missing # <<>>

GetLabelStatus ==
  [fields     |-> fields.filled,
   compliance |-> IF HasCompliance
                  THEN {[score |-> score, missing |-> missing]} ELSE {}]

(* The gateway shows a label without compliance as one with the score 0.   *)
GetCompliance ==
  IF GetLabelStatus.compliance = {} THEN NotShown
  ELSE CHOOSE v \in GetLabelStatus.compliance : TRUE

ListedScore == score

(* extractLabelData: the fields a print job copies, by their JSON names.   *)
SentAs ==
  [product_name |-> "product_name", manufacturer |-> "manufacturer",
   quantity |-> "quantity", expiry_date |-> "expiry_date",
   ingredients |-> "ingredients", lot_number |-> "lot_number",
   country_of_origin |-> "country", warnings |-> "warnings"]

(* The JSON names print-svc finds a field for.  Its struct has no tags, so *)
(* names are compared without case: ProductName is not "product_name".     *)
Decoded ==
  {"manufacturer", "quantity", "ingredients", "country", "warnings", "category"}

PrintedFields ==
  {f \in GetLabelStatus.fields \cap DOMAIN SentAs : SentAs[f] \in Decoded}

-----------------------------------------------------------------------------
(* Whatever results and edits came before: a label shows a score of 0 with *)
(* nothing missing only if its last validation did not answer; and unless  *)
(* it was edited since, what it shows is what the rules say of the fields  *)
(* that are shown with it, the list shows the same score, and of a label   *)
(* with 100 the print lacks, among the fields that every category must     *)
(* have, the name of the product and no other.                             *)
ComplianceIsCurrent ==
  /\ GetCompliance = NotShown <=> ~ answered
  /\ answered /\ ~ edited =>
       /\ GetCompliance = Validate(GetLabelStatus.fields, category)
       /\ ListedScore = GetCompliance.score
       /\ ListedScore = 100 =>
            {Common[i].field : i \in DOMAIN Common} \ PrintedFields = {"product_name"}
=============================================================================
