-------------------------- MODULE LabelListProofs ---------------------------
(***************************************************************************)
(* A proof about LabelList, for any number of labels and any page size.    *)
(***************************************************************************)
EXTENDS LabelList, FiniteSetTheorems, TLAPS

(* The labels from i on, the first of the list included.                   *)
From(S, i) == {j \in S : j >= i}

Walking == step \in {"counted", "next"}

(* What the walk still owes lies behind the pages it has walked, and a     *)
(* total that was not overtaken covers the list.                           *)
IInv ==
  /\ uploaded \in Nat
  /\ listed \subseteq 1..uploaded
  /\ step \in {"start", "counted", "next", "done"}
  /\ page \in Nat \ {0}
  /\ total \in Nat
  /\ owed \subseteq listed
  /\ left \in BOOLEAN /\ raced \in BOOLEAN
  /\ step = "start" => page = 1
  /\ step = "counted" /\ ~ raced => Cardinality(listed) <= total
  /\ Walking /\ ~ left => \A i \in owed \ shown : Rank(i) > Offset(page)
  /\ WalkShowsAll

-----------------------------------------------------------------------------
(* Rank counts a finite set.                                               *)
LEMMA FromSize ==
  ASSUME NEW n \in Nat, NEW S \in SUBSET (1..n), NEW i
  PROVE  /\ IsFiniteSet(S) /\ IsFiniteSet(From(S, i))
         /\ Cardinality(S) \in Nat /\ Cardinality(From(S, i)) \in Nat
         /\ Cardinality(From(S, i)) <= Cardinality(S)
<1>1. IsFiniteSet(1..n)
  BY FS_Interval
<1>2. IsFiniteSet(S)
  BY <1>1, FS_Subset
<1>3. From(S, i) \in SUBSET S
  BY DEF From
<1> QED BY <1>2, <1>3, FS_Subset, FS_CardinalityType

LEMMA ListSize ==
  ASSUME NEW n \in Nat, NEW S \in SUBSET (1..n)
  PROVE  IsFiniteSet(S) /\ Cardinality(S) \in Nat
<1>1. IsFiniteSet(1..n)
  BY FS_Interval
<1> QED BY <1>1, FS_Subset, FS_CardinalityType

(* Every listed label has a rank of at least 1.                            *)
LEMMA FromPositive ==
  ASSUME NEW n \in Nat, NEW S \in SUBSET (1..n), NEW i \in S
  PROVE  Cardinality(From(S, i)) >= 1
<1>1. i \in From(S, i)
  BY DEF From
<1> QED BY <1>1, FromSize, FS_EmptySet

(* A label that comes pushes others back and never forward.                *)
LEMMA FromGrows ==
  ASSUME NEW n \in Nat, NEW T \in SUBSET (1..n), NEW S \in SUBSET T, NEW i
  PROVE  Cardinality(From(S, i)) <= Cardinality(From(T, i))
<1>1. From(S, i) \in SUBSET From(T, i)
  BY DEF From
<1> QED BY <1>1, FromSize, FS_Subset

(* When a label leaves, another one keeps its rank or takes that of the    *)
(* one that left, at worst.                                                *)
LEMMA FromShrinks ==
  ASSUME NEW n \in Nat, NEW S \in SUBSET (1..n), NEW i \in S, NEW j \in S,
         i # j
  PROVE  \/ Cardinality(From(S \ {i}, j)) = Cardinality(From(S, j))
         \/ Cardinality(From(S \ {i}, j)) >= Cardinality(From(S, i))
<1>0. S \subseteq Nat /\ i \in Nat /\ j \in Nat
  OBVIOUS
<1>1. CASE i < j
  <2>1. From(S \ {i}, j) = From(S, j)
    BY <1>0, <1>1 DEF From
  <2> QED BY <2>1
<1>2. CASE i > j
  <2>1. From(S, i) \ {i} \in SUBSET (From(S \ {i}, j) \ {j})
    <3> SUFFICES ASSUME NEW k \in S, k >= i, k # i
                 PROVE  k # j /\ k >= j
      BY DEF From
    <3>1. k \in Nat
      BY <1>0
    <3> QED BY <1>0, <1>2, <3>1
  <2>2. i \in From(S, i) /\ j \in From(S \ {i}, j)
    BY DEF From
  <2>3. S \ {i} \in SUBSET (1..n)
    OBVIOUS
  <2>4. Cardinality(From(S, i) \ {i}) = Cardinality(From(S, i)) - 1
    BY <2>2, FromSize, FS_RemoveElement
  <2>5. /\ IsFiniteSet(From(S \ {i}, j) \ {j})
        /\ Cardinality(From(S \ {i}, j) \ {j})
             = Cardinality(From(S \ {i}, j)) - 1
    BY <2>2, <2>3, FromSize, FS_RemoveElement
  <2>6. Cardinality(From(S, i) \ {i}) <= Cardinality(From(S \ {i}, j) \ {j})
    <3> DEFINE A == From(S, i) \ {i}
               B == From(S \ {i}, j) \ {j}
    <3>1. A \in SUBSET B /\ IsFiniteSet(B)
      BY <2>1, <2>5
    <3> HIDE DEF A, B
    <3>2. Cardinality(A) <= Cardinality(B)
      BY <3>1, FS_Subset
    <3> QED BY <3>2 DEF A, B
  <2>7. Cardinality(From(S, i)) \in Nat /\ Cardinality(From(S \ {i}, j)) \in Nat
    BY <2>3, FromSize
  <2> QED BY <2>4, <2>5, <2>6, <2>7
<1> QED BY <1>0, <1>1, <1>2

LEMMA RankIsFrom == \A i : Rank(i) = Cardinality(From(listed, i))
  BY DEF Rank, From

-----------------------------------------------------------------------------
LEMMA InitInv == MaxLabels \in Nat /\ Init => IInv
<1> SUFFICES ASSUME MaxLabels \in Nat, Init PROVE IInv
  OBVIOUS
<1>1. uploaded \in Nat /\ listed \subseteq 1..uploaded
  BY DEF Init
<1>2. /\ step = "start" /\ page = 1 /\ total = 0 /\ owed = {}
      /\ left = FALSE /\ raced = FALSE
  BY DEF Init
<1>3. step \notin {"counted", "next", "done"}
  BY <1>2
<1>4. left \in BOOLEAN /\ raced \in BOOLEAN
  BY <1>2, Zenon
<1>5. page \in Nat \ {0} /\ total \in Nat /\ owed \subseteq listed
  BY <1>2
<1> QED BY <1>1, <1>2, <1>3, <1>4, <1>5, Zenon DEF IInv, WalkShowsAll, Walking

(* COUNT: the first one begins the debt, whose ranks are positive.         *)
LEMMA CountInv ==
  ASSUME PerPage \in Nat, IInv, Count
  PROVE  IInv'
<1> USE DEF IInv, Count, listVars
<1>1. Cardinality(listed) \in Nat
  BY ListSize
<1>2. ASSUME NEW i \in owed' \ shown, ~ left PROVE (Rank(i) > Offset(page))'
  <2>1. CASE step = "start"
    <3>1. Offset(page) = 0
      BY <2>1 DEF Offset
    <3>2. i \in listed
      BY <1>2, <2>1
    <3>3. Rank(i) >= 1 /\ Rank(i) \in Nat
      BY <3>2, FromPositive, FromSize, RankIsFrom
    <3> QED BY <3>1, <3>3 DEF Rank, Offset
  <2>2. CASE step = "next"
    BY <1>2, <2>2 DEF Walking, Rank, Offset
  <2> QED BY <2>1, <2>2
<1> QED BY <1>1, <1>2 DEF WalkShowsAll, Walking

(* SELECT: what is owed and not on this page lies behind it, and behind    *)
(* the last page lies nothing.                                             *)
LEMMA SelectInv ==
  ASSUME PerPage \in Nat, IInv, Select
  PROVE  IInv'
<1> USE DEF IInv, Select, listVars
<1>1. /\ page * PerPage \in Nat
      /\ Offset(page) = page * PerPage - PerPage
      /\ Offset(page + 1) = page * PerPage
  BY DEF Offset
<1>2. \A i : Rank(i) \in Nat /\ Rank(i) <= Cardinality(listed)
  BY FromSize, RankIsFrom
<1>3. ASSUME NEW i \in owed \ shown', ~ left PROVE Rank(i) > page * PerPage
  <2>1. i \in listed /\ i \notin OnPage(page) /\ i \in owed \ shown
    BY <1>3
  <2>2. Rank(i) > Offset(page)
    BY <1>3, <2>1 DEF Walking
  <2> QED BY <1>1, <1>2, <2>1, <2>2 DEF OnPage
<1>4. CASE page * PerPage < total
  BY <1>1, <1>3, <1>4 DEF WalkShowsAll, Walking, Rank, Offset
<1>5. CASE ~ (page * PerPage < total)
  <2>0. Cardinality(listed) \in Nat
    BY ListSize
  <2>1. total <= page * PerPage
    BY <1>1, <1>5
  <2>2. ~ left /\ ~ raced => owed \subseteq shown'
    BY <1>1, <1>2, <1>3, <2>0, <2>1
  <2> QED BY <1>5, <2>2 DEF WalkShowsAll, Walking
<1> QED BY <1>4, <1>5

(* A label that comes.                                                     *)
LEMMA ComeInv ==
  ASSUME PerPage \in Nat, IInv, NEW i \in Nat \ {0}, Come(i),
         uploaded' \in Nat, uploaded' >= uploaded, i <= uploaded'
  PROVE  IInv'
<1> USE DEF IInv, Come, walkVars
<1>1. listed' \in SUBSET (1..uploaded') /\ listed \in SUBSET listed'
  OBVIOUS
<1>2. \A k : Rank(k) \in Nat /\ Rank(k)' \in Nat /\ Rank(k) <= Rank(k)'
  <2> SUFFICES ASSUME NEW k
               PROVE  Rank(k) \in Nat /\ Rank(k)' \in Nat /\ Rank(k) <= Rank(k)'
    OBVIOUS
  <2>1. Rank(k) = Cardinality(From(listed, k))
    BY DEF Rank, From
  <2>2. Rank(k)' = Cardinality(From(listed', k))
    BY DEF Rank, From
  <2> QED BY <1>1, <2>1, <2>2, FromSize, FromGrows
<1>3. Offset(page) \in Int
  BY DEF Offset
<1>4. Walking /\ ~ left => \A k \in owed \ shown : Rank(k)' > Offset(page)
  BY <1>2, <1>3
<1> QED BY <1>1, <1>4 DEF WalkShowsAll, Walking, Offset

(* A label that leaves from a page still ahead leaves the others ahead.    *)
LEMMA LeaveInv ==
  ASSUME PerPage \in Nat, IInv, NEW i, Leave(i)
  PROVE  IInv'
<1> USE DEF IInv, Leave, walkVars
<1>1. listed' \in SUBSET (1..uploaded) /\ listed' = listed \ {i}
  OBVIOUS
<1>2. Offset(page) \in Int
  BY DEF Offset
<1>3. ASSUME Walking, ~ left', NEW j \in owed' \ shown
      PROVE  Rank(j)' > Offset(page)
  <2>1. /\ j \in listed /\ j # i /\ i \in listed
        /\ Rank(i) > Offset(page) /\ Rank(j) > Offset(page)
    <3>1. ~ left /\ ~ (Rank(i) <= Offset(page))
      BY <1>3 DEF Walking
    <3>2. Rank(i) \in Nat
      BY FromSize, RankIsFrom
    <3> QED BY <1>2, <1>3, <3>1, <3>2
  <2>2. /\ Rank(i) = Cardinality(From(listed, i))
        /\ Rank(j) = Cardinality(From(listed, j))
        /\ Rank(j)' = Cardinality(From(listed \ {i}, j))
    BY <1>1 DEF Rank, From
  <2>3. Rank(j)' = Rank(j) \/ Rank(j)' >= Rank(i)
    BY <2>1, <2>2, FromShrinks
  <2>4. Rank(i) \in Nat /\ Rank(j) \in Nat /\ Rank(j)' \in Nat
    BY <1>1, <2>2, FromSize
  <2> QED BY <1>2, <2>1, <2>3, <2>4
<1>4. /\ Cardinality(listed) \in Nat /\ Cardinality(listed') \in Nat
      /\ Cardinality(listed') <= Cardinality(listed)
  BY <1>1, ListSize, FS_Subset
<1>5. step = "counted" /\ ~ raced => Cardinality(listed') <= total
  BY <1>4
<1> QED BY <1>1, <1>3, <1>5 DEF WalkShowsAll, Walking, Offset

LEMMA NextInv == PerPage \in Nat /\ IInv /\ [Next]_vars => IInv'
<1> SUFFICES ASSUME PerPage \in Nat, IInv, [Next]_vars PROVE IInv'
  OBVIOUS
<1>1. CASE UNCHANGED vars
  BY <1>1 DEF vars, listVars, walkVars, IInv, WalkShowsAll, Walking, Rank,
              Offset
<1>2. CASE Count
  BY <1>2, CountInv
<1>3. CASE Select
  BY <1>3, SelectInv
<1>4. CASE Upload
  <2>1. uploaded \in Nat /\ uploaded' = uploaded + 1 /\ Come(uploaded + 1)
    BY <1>4 DEF Upload, IInv
  <2> QED BY <2>1, ComeInv
<1>5. ASSUME NEW i \in 1..uploaded, Match(i) PROVE IInv'
  <2>1. uploaded \in Nat /\ uploaded' = uploaded /\ Come(i)
    BY <1>5 DEF Match, IInv
  <2> QED BY <2>1, ComeInv
<1>6. ASSUME NEW i \in 1..uploaded, Leave(i) PROVE IInv'
  BY <1>6, LeaveInv
<1> QED BY <1>1, <1>2, <1>3, <1>4, <1>5, <1>6 DEF Next

(* However many labels there are, however many on a page, and whatever     *)
(* comes and goes meanwhile: a client that walks to the end has seen every *)
(* label that was listed all the time, unless one left from a page already *)
(* walked or came between a COUNT and its SELECT.                          *)
THEOREM WalkShowsAllHolds ==
  ASSUME MaxLabels \in Nat, PerPage \in Nat
  PROVE  Spec => []WalkShowsAll
<1>1. Init => IInv
  BY InitInv
<1>2. IInv /\ [Next]_vars => IInv'
  BY NextInv
<1>3. IInv => WalkShowsAll
  BY DEF IInv
<1> QED BY <1>1, <1>2, <1>3, PTL DEF Spec
=============================================================================
