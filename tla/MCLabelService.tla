--------------------------- MODULE MCLabelService ---------------------------
(* A small instance of LabelService for TLC.                               *)
EXTENDS LabelService

(* A complete toy, one without a manufacturer, one field more than none,   *)
(* and a translation without a map.                                        *)
MCToy == {"product_name", "manufacturer", "quantity", "country_of_origin",
          "warnings", "age_range", "ce_marking", "material_composition"}

MCTranslations ==
  {[map |-> TRUE, filled |-> f] :
     f \in {MCToy, MCToy \ {"manufacturer"}, {"warnings"}, {}}}
    \cup {[map |-> FALSE, filled |-> {}]}
=============================================================================
