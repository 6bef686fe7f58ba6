------------------------------ MODULE Products ------------------------------
(***************************************************************************)
(* The product library of label-svc: the rows of products, and the calls   *)
(* of the gateway and of print-svc that write to them.                     *)
(***************************************************************************)
EXTENDS Naturals

CONSTANTS
  Products,  \* product ids
  Keys,      \* names of default fields
  MaxPrints  \* bound on the print counters

VARIABLES
  fields, \* products.default_fields
  prints, \* products.print_count
  given,  \* history: the fields that were sent for the product
  bare    \* history: a call was sent without default_fields

vars == <<fields, prints, given, bare>>

(* A jsonb value: an object with its keys, or one that is not an object    *)
(* and reads as no field; "absent" before the INSERT.                      *)
Object(keys) == [shape |-> "object", keys |-> keys]
Null == [shape |-> "null", keys |-> {}]
Array == [shape |-> "array", keys |-> {}]
Absent == [shape |-> "absent", keys |-> {}]

Exists(p) == fields[p] # Absent

Init ==
  /\ fields = [p \in Products |-> Absent]
  /\ prints = [p \in Products |-> 0]
  /\ given = [p \in Products |-> {}]
  /\ bare = [p \in Products |-> FALSE]

-----------------------------------------------------------------------------
(* The default_fields of a request: json.Marshal gives a map that was left *)
(* out as null.                                                            *)
Requests == {Object(keys) : keys \in SUBSET Keys} \cup {Null}

Record(p, r) ==
  /\ given' = [given EXCEPT ![p] = @ \cup r.keys]
  /\ bare' = [bare EXCEPT ![p] = @ \/ r = Null]

Create(p, r) ==
  /\ ~ Exists(p)
  /\ fields' = [fields EXCEPT ![p] = r]
  /\ Record(p, r)
  /\ UNCHANGED prints

(* A mutant: the new fields replace the old ones.                          *)
Replace(v, w) == w

(* v || w of PostgreSQL: objects merge, and any other pair becomes an      *)
(* array, also an object and null.                                         *)
Merge(v, w) ==
  IF v.shape = "object" /\ w.shape = "object"
  THEN Object(v.keys \cup w.keys) ELSE Array

(* UpdateFields, whatever else the request changes.                        *)
UpdateFields(p, r) ==
  /\ Exists(p)
  /\ fields' = [fields EXCEPT ![p] = Merge(@, r)]
  /\ Record(p, r)
  /\ UNCHANGED prints

(* Any delivery of a print job may come here, also one that is repeated.   *)
IncrementPrintCount(p) ==
  /\ Exists(p)
  /\ prints[p] < MaxPrints
  /\ prints' = [prints EXCEPT ![p] = @ + 1]
  /\ UNCHANGED <<fields, given, bare>>

(* GetByID, and what every call answers.                                   *)
Read(p) == fields[p].keys

Next ==
  \E p \in Products :
    \/ \E r \in Requests : Create(p, r) \/ UpdateFields(p, r)
    \/ IncrementPrintCount(p)

Spec == Init /\ [][Next]_vars

-----------------------------------------------------------------------------
(* A product shows every field that was ever sent for it, until one call   *)
(* leaves default_fields out, as the web client does when it renames a     *)
(* product: from then on it shows none, and no later call brings one back. *)
FieldsSurviveUnlessBare ==
  \A p \in Products : Exists(p) => Read(p) = IF bare[p] THEN {} ELSE given[p]
=============================================================================
