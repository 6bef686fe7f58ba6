------------------------- MODULE LabelServiceProofs -------------------------
(***************************************************************************)
(* Proofs about label-svc's compliance, list and products, for any         *)
(* translations, categories, labels, pages and products.  The lifecycle    *)
(* has a module of proofs of its own, and so has the walk through the list.*)
(***************************************************************************)
EXTENDS LabelService, SequenceTheorems, FiniteSetTheorems, TLAPS

-----------------------------------------------------------------------------
(* Compliance.                                                             *)

Names ==
  {"product_name", "manufacturer", "quantity", "country_of_origin",
   "ingredients", "expiry_date", "storage_conditions", "allergens",
   "lot_number", "warnings", "responsible_person", "nominal_content",
   "model_number", "ce_marking", "rohs_compliance", "age_range",
   "material_composition"}

AnyRule == [field : Names, severity : {"blocker", "warning"}]

LEMMA TableTypes ==
  /\ C!Common \in Seq(AnyRule) /\ Len(C!Common) = 4
  /\ \A t \in {C!Food, C!Cosmetic, C!Electronics, C!Toy} :
       t \in Seq(AnyRule) /\ Len(t) \in {4, 5}
<1> USE DEF AnyRule, Names, C!Rule
<1>1. C!Common \in Seq(AnyRule) /\ Len(C!Common) = 4
  BY SMT DEF C!Common
<1>2. C!Food \in Seq(AnyRule) /\ Len(C!Food) = 4
  BY SMT DEF C!Food
<1>3. C!Cosmetic \in Seq(AnyRule) /\ Len(C!Cosmetic) = 5
  BY SMT DEF C!Cosmetic
<1>4. C!Electronics \in Seq(AnyRule) /\ Len(C!Electronics) = 5
  BY SMT DEF C!Electronics
<1>5. C!Toy \in Seq(AnyRule) /\ Len(C!Toy) = 5
  BY SMT DEF C!Toy
<1> HIDE DEF AnyRule, Names, C!Rule
<1> QED BY <1>1, <1>2, <1>3, <1>4, <1>5

LEMMA Concatenation ==
  ASSUME NEW S, NEW s \in Seq(S), NEW t \in Seq(S)
  PROVE  /\ s \o t \in Seq(S)
         /\ Len(s \o t) = Len(s) + Len(t)
         /\ \A i \in 1..Len(s) : (s \o t)[i] = s[i]
  OBVIOUS

LEMMA FirstPart ==
  ASSUME NEW S, NEW s \in Seq(S), NEW t \in Seq(S),
         Len(s) = 4, Len(t) \in {0, 4, 5}
  PROVE  /\ s \o t \in Seq(S)
         /\ Len(s \o t) \in {4, 8, 9}
         /\ \A i \in 1..4 : (s \o t)[i] = s[i]
<1> DEFINE r == s \o t
<1>1. /\ r \in Seq(S)
      /\ Len(r) = Len(s) + Len(t)
      /\ \A i \in 1..Len(s) : r[i] = s[i]
  BY Concatenation, Zenon
<1> HIDE DEF r
<1>2. Len(r) \in {4, 8, 9}
  <2>1. CASE Len(t) = 0
    BY <1>1, <2>1
  <2>2. CASE Len(t) = 4
    BY <1>1, <2>2
  <2>3. CASE Len(t) = 5
    BY <1>1, <2>3
  <2> QED BY <2>1, <2>2, <2>3
<1>3. \A i \in 1..4 : r[i] = s[i]
  BY <1>1, Zenon
<1> QED BY <1>1, <1>2, <1>3 DEF r

(* The rules of a category: those of every category come first.            *)
LEMMA RulesType ==
  ASSUME NEW c
  PROVE  /\ C!RulesOf(c) \in Seq(AnyRule)
         /\ Len(C!RulesOf(c)) \in {4, 8, 9}
         /\ \A i \in 1..4 : C!RulesOf(c)[i] = C!Common[i]
<1> DEFINE t == IF c \in DOMAIN C!ByCategory THEN C!ByCategory[c] ELSE <<>>
<1>1. C!RulesOf(c) = C!Common \o t
  BY DEF C!RulesOf
<1>2. t \in Seq(AnyRule) /\ Len(t) \in {0, 4, 5}
  <2>1. c \in DOMAIN C!ByCategory =>
          C!ByCategory[c] \in {C!Food, C!Cosmetic, C!Electronics, C!Toy}
    BY DEF C!ByCategory
  <2> QED BY <2>1, TableTypes, EmptySeq
<1>3. C!Common \in Seq(AnyRule) /\ Len(C!Common) = 4
  BY TableTypes
<1> HIDE DEF t
<1>4. /\ C!Common \o t \in Seq(AnyRule)
      /\ Len(C!Common \o t) \in {4, 8, 9}
      /\ \A i \in 1..4 : (C!Common \o t)[i] = C!Common[i]
  BY <1>2, <1>3, FirstPart
<1> QED BY <1>1, <1>4, Zenon

(* The integer division by the number of rules gives 100 for nothing       *)
(* missing, and for nothing else.                                          *)
LEMMA Percentage ==
  ASSUME NEW n \in {4, 8, 9}, NEW k \in 0..n
  PROVE  /\ ((n - k) * 100) \div n \in Nat
         /\ ((n - k) * 100) \div n = 100 <=> k = 0
<1>1. CASE n = 4
  BY <1>1
<1>2. CASE n = 8
  BY <1>2
<1>3. CASE n = 9
  BY <1>3
<1> QED BY <1>1, <1>2, <1>3

(* The instances of the library's Cardinality are the same operator.       *)
LEMMA SameCardinality == \A S : C!Cardinality(S) = Cardinality(S)
  BY Zenon DEF Cardinality, C!Cardinality

(* A validation always says something, and 100 only when no rule of any    *)
(* category misses its field.                                              *)
LEMMA ValidationSpeaks ==
  ASSUME NEW f, NEW c
  PROVE  /\ C!Validate(f, c).score \in Nat
         /\ C!Validate(f, c).score = 0 => C!Validate(f, c).missing # <<>>
         /\ C!Validate(f, c).score = 100 => \A i \in 1..4 : C!Common[i].field \in f
         /\ C!Validate(f, c) = [score |-> C!Validate(f, c).score,
                                missing |-> C!Validate(f, c).missing]
<1> DEFINE rules == C!RulesOf(c)
           n == Len(rules)
           absent == {i \in DOMAIN rules : rules[i].field \notin f}
           k == Cardinality(absent)
<1>1. rules \in Seq(AnyRule) /\ n \in {4, 8, 9} /\ DOMAIN rules = 1..n
  BY RulesType, LenProperties
<1>2. IsFiniteSet(absent) /\ k \in 0..n
  <2>1. IsFiniteSet(1..n) /\ Cardinality(1..n) = n
    BY <1>1, FS_Interval
  <2>2. absent \in SUBSET (1..n)
    BY <1>1
  <2>3. IsFiniteSet(absent) /\ k \in Nat /\ k <= n
    BY <2>1, <2>2, FS_Subset, FS_CardinalityType
  <2> QED BY <2>3, <1>1
<1>3. k = 0 <=> absent = {}
  BY <1>2, FS_EmptySet
<1>4. C!Validate(f, c) = [score   |-> ((n - k) * 100) \div n,
                          missing |-> [i \in absent |-> rules[i]]]
  BY SameCardinality DEF C!Validate
<1>5. absent # {} => [i \in absent |-> rules[i]] # <<>>
  OBVIOUS
<1>6. absent = {} => \A i \in 1..4 : C!Common[i].field \in f
  <2>1. \A i \in 1..4 : i \in 1..n /\ rules[i] = C!Common[i]
    BY <1>1, RulesType
  <2> QED BY <1>1, <2>1
<1> HIDE DEF absent, rules
<1>7. /\ ((n - k) * 100) \div n \in Nat
      /\ ((n - k) * 100) \div n = 100 <=> k = 0
  BY <1>1, <1>2, Percentage
<1> QED BY <1>3, <1>4, <1>5, <1>6, <1>7

(* What the row says of its compliance: nothing after a validation that    *)
(* did not answer, and otherwise the validation of some fields, which are  *)
(* the row's own until an edit.                                            *)
ComplianceInv ==
  /\ answered \in BOOLEAN
  /\ ~ answered => score = 0 /\ missing = <<>>
  /\ answered =>
       \E f : /\ [score |-> score, missing |-> missing] = C!Validate(f, category)
              /\ ~ edited => f = stored.filled

LEMMA ComplianceStep == ComplianceInv /\ C!Next => ComplianceInv'
<1> SUFFICES ASSUME ComplianceInv, C!Next PROVE ComplianceInv'
  OBVIOUS
<1>1. ASSUME NEW t \in Translations, NEW c \in Categories, C!StoreResult(t, c)
      PROVE  ComplianceInv'
  <2> DEFINE cat == C!ExtractCategory(c)
             v == C!Validate(t.filled, cat)
  <2>1. PICK ok \in BOOLEAN :
          /\ C!SetAIResult(t, cat, IF ok THEN v ELSE [score |-> 0, missing |-> <<>>])
          /\ answered' = ok
          /\ edited' = FALSE
    BY <1>1 DEF C!StoreResult, C!ProcessValidation
  <2>2. /\ category' = cat /\ stored' = t
        /\ ok => score' = v.score /\ missing' = v.missing
        /\ ~ ok => score' = 0 /\ missing' = <<>>
    BY <2>1 DEF C!SetAIResult
  <2>3. v = [score |-> v.score, missing |-> v.missing]
    BY ValidationSpeaks
  <2> HIDE DEF cat
  <2>4. ok => [score |-> score', missing |-> missing']
                = C!Validate(stored'.filled, category')
    BY <2>2, <2>3
  <2> QED BY <2>1, <2>2, <2>4 DEF ComplianceInv
<1>2. ASSUME NEW g \in EditedFields, NEW text \in BOOLEAN, C!UpdateFields(g, text)
      PROVE  ComplianceInv'
  <2>1. /\ UNCHANGED <<category, score, missing, answered>>
        /\ ~ edited' => ~ edited /\ stored' = stored
    BY <1>2 DEF C!UpdateFields
  <2> QED BY <2>1 DEF ComplianceInv
<1> QED BY <1>1, <1>2 DEF C!Next

LEMMA ComplianceShown == ComplianceInv => ComplianceIsCurrent
<1> SUFFICES ASSUME ComplianceInv PROVE C!ComplianceIsCurrent
  BY DEF ComplianceIsCurrent
<1> DEFINE shownNow == [score |-> score, missing |-> missing]
<1>1. C!GetCompliance = IF C!HasCompliance THEN shownNow ELSE C!NotShown
  BY DEF C!GetCompliance, C!GetLabelStatus
<1>2. CASE ~ answered
  <2>1. ~ C!HasCompliance
    BY <1>2 DEF ComplianceInv, C!HasCompliance
  <2> QED BY <1>1, <1>2, <2>1 DEF C!ComplianceIsCurrent
<1>3. CASE answered
  <2>1. PICK f : /\ shownNow = C!Validate(f, category)
                 /\ ~ edited => f = stored.filled
    BY <1>3 DEF ComplianceInv
  <2>2. /\ score = C!Validate(f, category).score
        /\ missing = C!Validate(f, category).missing
    BY <2>1
  <2>3. /\ score \in Nat
        /\ score = 0 => missing # <<>>
        /\ score = 100 => \A i \in 1..4 : C!Common[i].field \in f
    BY <2>2, ValidationSpeaks
  <2>4. C!HasCompliance /\ shownNow # C!NotShown
    BY <2>3 DEF C!HasCompliance, C!NotShown
  <2>5. C!GetCompliance = shownNow
    BY <1>1, <2>4
  <2>6. ASSUME ~ edited
        PROVE  /\ C!GetCompliance = C!Validate(C!GetLabelStatus.fields, category)
               /\ C!ListedScore = C!GetCompliance.score
    BY <2>1, <2>5, <2>6 DEF C!GetLabelStatus, C!ListedScore
  <2>7. ASSUME ~ edited, score = 100
        PROVE  {C!Common[i].field : i \in DOMAIN C!Common} \ C!PrintedFields
                 = {"product_name"}
    <3>1. DOMAIN C!Common = 1..4
      BY TableTypes, LenProperties
    <3>2. {C!Common[i].field : i \in 1..4} =
            {"product_name", "manufacturer", "quantity", "country_of_origin"}
      BY DEF C!Common, C!Rule
    <3>3. \A i \in 1..4 : C!Common[i].field \in stored.filled
      BY <2>1, <2>3, <2>7
    <3>4. {"manufacturer", "quantity", "country_of_origin"} \subseteq stored.filled
      BY <3>3 DEF C!Common, C!Rule
    <3>5. C!GetLabelStatus.fields = stored.filled
      BY DEF C!GetLabelStatus
    <3>6. /\ "product_name" \notin C!PrintedFields
          /\ {"manufacturer", "quantity", "country_of_origin"} \subseteq C!PrintedFields
      BY <3>4, <3>5 DEF C!PrintedFields, C!SentAs, C!Decoded
    <3> QED BY <3>1, <3>2, <3>6
  <2> QED BY <1>3, <2>4, <2>5, <2>6, <2>7 DEF C!ComplianceIsCurrent, C!ListedScore
<1> QED BY <1>2, <1>3 DEF ComplianceInv

(* Whatever the translations contain and whatever is edited: the           *)
(* compliance shown is that of the fields shown, unless a validation gave  *)
(* no answer or an edit came later, and a score of 100 is printed with     *)
(* every field of the common rules but the name.                           *)
THEOREM ComplianceIsCurrentHolds == ServiceSpec => []ComplianceIsCurrent
<1>1. ServiceInit => ComplianceInv
  BY DEF ServiceInit, C!Init, ComplianceInv
<1>2. ComplianceInv /\ [ServiceNext]_serviceVars => ComplianceInv'
  <2> SUFFICES ASSUME ComplianceInv, [ServiceNext]_serviceVars
               PROVE  ComplianceInv'
    OBVIOUS
  <2>1. CASE C!Next
    BY <2>1, ComplianceStep
  <2>2. CASE UNCHANGED complianceVars
    BY <2>2 DEF complianceVars, ComplianceInv
  <2> QED BY <2>1, <2>2 DEF ServiceNext, serviceVars
<1> QED BY <1>1, <1>2, ComplianceShown, PTL DEF ServiceSpec
-----------------------------------------------------------------------------
(* The list.  LabelListProofs has the invariant of a walk and its proof.   *)

LP == INSTANCE LabelListProofs

LEMMA SameCount == \A S : L!Cardinality(S) = LP!Cardinality(S)
  BY Zenon DEF L!Cardinality, LP!Cardinality

LEMMA SameWalk ==
  /\ L!Init => LP!Init
  /\ L!Next => LP!Next
  /\ LP!WalkShowsAll => WalkShowsAll
<1>1. L!Init => LP!Init
  BY DEF L!Init, LP!Init
<1>2. LP!WalkShowsAll => WalkShowsAll
  BY DEF WalkShowsAll, L!WalkShowsAll, LP!WalkShowsAll
<1>3. \A i : L!Rank(i) = LP!Rank(i)
  BY SameCount DEF L!Rank, LP!Rank
<1>4. \A p : L!Offset(p) = LP!Offset(p)
  BY DEF L!Offset, LP!Offset
<1>5. L!Count => LP!Count
  BY SameCount DEF L!Count, LP!Count, L!listVars, LP!listVars
<1>6. L!Select => LP!Select
  BY <1>3, <1>4
  DEF L!Select, LP!Select, L!listVars, LP!listVars, L!OnPage, LP!OnPage
<1>7. \A i : L!Come(i) => LP!Come(i)
  BY DEF L!Come, LP!Come, L!walkVars, LP!walkVars
<1>8. L!Upload => LP!Upload
  BY <1>7 DEF L!Upload, LP!Upload
<1>9. \A i : L!Match(i) => LP!Match(i)
  BY <1>7 DEF L!Match, LP!Match
<1>10. \A i : L!Leave(i) => LP!Leave(i)
  BY <1>3, <1>4 DEF L!Leave, LP!Leave, L!walkVars, LP!walkVars
<1> QED BY <1>1, <1>2, <1>5, <1>6, <1>8, <1>9, <1>10 DEF L!Next, LP!Next

(* However many labels there are, however many on a page, and whatever     *)
(* comes and goes meanwhile: a client that walks to the end has seen every *)
(* label that was listed all the time, unless one left from a page already *)
(* walked or came between a COUNT and its SELECT.                          *)
THEOREM WalkShowsAllHolds == ServiceSpec => []WalkShowsAll
<1> DEFINE I == /\ world = "list" => LP!IInv
                /\ world # "list" => step = "start"
<1>1. ServiceInit => I
  BY SameWalk, ListAssumption, LP!InitInv DEF ServiceInit
<1>2. I /\ [ServiceNext]_serviceVars => I'
  <2> SUFFICES ASSUME I, [ServiceNext]_serviceVars PROVE I'
    OBVIOUS
  <2>1. CASE world = "list" /\ world' = "list" /\ L!Next
    BY <2>1, SameWalk, ListAssumption, LP!NextInv
  <2>2. CASE UNCHANGED <<world, listVars>>
    <3>1. UNCHANGED <<LP!vars, step>>
      BY <2>2 DEF listVars, LP!vars, LP!listVars, LP!walkVars
    <3> QED BY <2>2, <3>1, ListAssumption, LP!NextInv
  <2> QED BY <2>1, <2>2 DEF ServiceNext, serviceVars
<1>3. I => WalkShowsAll
  BY SameWalk DEF LP!IInv, WalkShowsAll, L!WalkShowsAll
<1> QED BY <1>1, <1>2, <1>3, PTL DEF ServiceSpec
-----------------------------------------------------------------------------
(* The products.                                                           *)

(* What a jsonb column may hold.                                           *)
FieldValues ==
  {P!Object(keys) : keys \in SUBSET Fields} \cup {P!Null, P!Array, P!Absent}

(* What the row holds, given what was sent for it: before the INSERT       *)
(* nothing; afterwards an object with every field that was sent, until a   *)
(* call leaves the fields out, and never an object again from then on.     *)
RowOf(p) ==
  /\ ~ P!Exists(p) => given[p] = {} /\ ~ bare[p]
  /\ P!Exists(p) /\ bare[p] => defaults[p] \in {P!Null, P!Array}
  /\ P!Exists(p) /\ ~ bare[p] => defaults[p] = P!Object(given[p])

ProductTypes ==
  /\ defaults \in [Products -> FieldValues]
  /\ given \in [Products -> SUBSET Fields]
  /\ bare \in [Products -> BOOLEAN]

ProductInv == ProductTypes /\ \A p \in Products : RowOf(p)

(* The shapes tell the values apart.                                       *)
LEMMA Shapes ==
  /\ \A keys : /\ P!Object(keys) \notin {P!Null, P!Array, P!Absent}
               /\ P!Object(keys).keys = keys
  /\ P!Null # P!Array /\ P!Null # P!Absent /\ P!Array # P!Absent
  /\ P!Null.keys = {} /\ P!Array.keys = {}
  BY DEF P!Object, P!Null, P!Array, P!Absent

(* A merge is a jsonb value, never none; it is an object, with the fields  *)
(* of both, exactly when both are objects.                                 *)
LEMMA MergeType ==
  ASSUME NEW v \in FieldValues, NEW w \in P!Requests
  PROVE  P!Merge(v, w) \in FieldValues \ {P!Absent}
  BY DEF P!Merge, FieldValues, P!Requests, P!Object, P!Null, P!Array, P!Absent

LEMMA MergeObjects ==
  ASSUME NEW a \in SUBSET Fields, NEW b \in SUBSET Fields
  PROVE  P!Merge(P!Object(a), P!Object(b)) = P!Object(a \cup b)
  BY DEF P!Merge, P!Object

LEMMA MergeOther ==
  ASSUME NEW v \in FieldValues, NEW w \in P!Requests,
         v \in {P!Null, P!Array} \/ w = P!Null
  PROVE  P!Merge(v, w) = P!Array
  BY DEF P!Merge, P!Object, P!Null, P!Array

LEMMA ProductInit == P!Init => ProductInv
  BY DEF P!Init, ProductInv, ProductTypes, FieldValues, RowOf, P!Exists

(* Only the row that a call touches changes.                               *)
LEMMA ProductStep ==
  ProductInv /\ (P!Next \/ UNCHANGED productVars) => ProductInv'
<1> SUFFICES ASSUME ProductInv, P!Next \/ UNCHANGED productVars
             PROVE  ProductInv'
  OBVIOUS
<1>1. CASE UNCHANGED productVars
  BY <1>1 DEF productVars, ProductInv, ProductTypes, RowOf, P!Exists
<1>2. ASSUME NEW p \in Products, NEW r \in P!Requests,
             P!Create(p, r) \/ P!UpdateFields(p, r)
      PROVE  ProductInv'
  <2>1. r.keys \in SUBSET Fields /\ r \in FieldValues \ {P!Array, P!Absent}
    BY Shapes DEF P!Requests, FieldValues
  <2>2. /\ given' = [given EXCEPT ![p] = @ \cup r.keys]
        /\ bare' = [bare EXCEPT ![p] = @ \/ r = P!Null]
    BY <1>2 DEF P!Create, P!UpdateFields, P!Record
  <2>3. /\ defaults' = [defaults EXCEPT ![p] =
                          IF P!Exists(p) THEN P!Merge(@, r) ELSE r]
        /\ defaults[p] \in FieldValues
    BY <1>2 DEF P!Create, P!UpdateFields, ProductInv, ProductTypes
  <2>4. ProductTypes'
    BY <2>1, <2>2, <2>3, MergeType DEF ProductInv, ProductTypes
  <2>5. ASSUME NEW q \in Products, q # p PROVE RowOf(q)'
    BY <2>2, <2>3, <2>5 DEF ProductInv, ProductTypes, RowOf, P!Exists
  <2>6. RowOf(p)'
    <3>1. /\ defaults'[p] = IF P!Exists(p) THEN P!Merge(defaults[p], r) ELSE r
          /\ given'[p] = given[p] \cup r.keys
          /\ bare'[p] <=> bare[p] \/ r = P!Null
      BY <2>2, <2>3 DEF ProductInv, ProductTypes
    <3>2. RowOf(p) /\ given[p] \in SUBSET Fields
      BY DEF ProductInv, ProductTypes
    <3>3. P!Exists(p)'
      BY <2>1, <2>3, <3>1, MergeType DEF P!Exists
    <3>4. CASE r = P!Null
      BY <2>3, <3>1, <3>3, <3>4, MergeOther DEF RowOf
    <3>5. CASE r # P!Null
      <4>1. r = P!Object(r.keys)
        BY <3>5, Shapes DEF P!Requests
      <4>2. CASE ~ P!Exists(p)
        BY <3>1, <3>2, <3>3, <3>5, <4>1, <4>2 DEF RowOf
      <4>3. CASE P!Exists(p) /\ bare[p]
        BY <2>3, <3>1, <3>2, <3>3, <4>3, MergeOther DEF RowOf
      <4>4. CASE P!Exists(p) /\ ~ bare[p]
        BY <2>1, <3>1, <3>2, <3>3, <3>5, <4>1, <4>4, MergeObjects DEF RowOf
      <4> QED BY <4>2, <4>3, <4>4
    <3> QED BY <3>4, <3>5
  <2> QED BY <2>4, <2>5, <2>6 DEF ProductInv
<1>3. ASSUME NEW p \in Products, P!IncrementPrintCount(p) PROVE ProductInv'
  BY <1>3 DEF P!IncrementPrintCount, ProductInv, ProductTypes, RowOf, P!Exists
<1> QED BY <1>1, <1>2, <1>3 DEF P!Next

(* Whatever products there are and whatever fields they have: a product    *)
(* shows every field it was ever given until one call leaves the fields    *)
(* out, and from then on it shows none.                                    *)
THEOREM FieldsSurviveUnlessBareHolds ==
  ServiceSpec => []FieldsSurviveUnlessBare
<1>1. ServiceInit => ProductInv
  BY ProductInit DEF ServiceInit
<1>2. ProductInv /\ [ServiceNext]_serviceVars => ProductInv'
  BY ProductStep DEF ServiceNext, serviceVars
<1>3. ProductInv => FieldsSurviveUnlessBare
  BY Shapes DEF ProductInv, RowOf, FieldsSurviveUnlessBare,
                P!FieldsSurviveUnlessBare, P!Read
<1> QED BY <1>1, <1>2, <1>3, PTL DEF ServiceSpec

-----------------------------------------------------------------------------
(* The lifecycle.                                                          *)

(* The service's steps are steps of the lifecycle or none, so that every   *)
(* theorem about the lifecycle holds of the service as well.               *)
THEOREM ServiceIsLifecycle == ServiceSpec => Spec
<1>1. ServiceInit => Init
  BY DEF ServiceInit
<1>2. [ServiceNext]_serviceVars => [Next]_vars
  BY DEF ServiceNext, serviceVars
<1> QED BY <1>1, <1>2, PTL DEF ServiceSpec, Spec
=============================================================================
