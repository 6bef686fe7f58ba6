------------------------ MODULE SlidingWindowProofs -------------------------
(***************************************************************************)
(* LimitHolds for any limit and window and for any number of attempts, in  *)
(* whatever order they are recorded, counted, and cleared.                 *)
(***************************************************************************)
EXTENDS SlidingWindow, FiniteSetTheorems, TLAPS

WindowTypeOK ==
  /\ clock \in Nat
  /\ key \in [times : SUBSET Nat, until : Nat]
  /\ stage \in [Attempts -> Stages]
  /\ instant \in [Attempts -> Nat]
  /\ lost \in SUBSET Attempts

Made(a) == stage[a] # "new"

(* Every member of the set is the instant of an attempt, and none is from  *)
(* before the window when an attempt waits for its count.                  *)
MembersAreMade ==
  /\ \A t \in key.times : \E a \in Attempts : Made(a) /\ instant[a] = t
  /\ \A a \in Attempts :
       stage[a] = "recorded" => \A t \in key.times : t > clock - Window

(* An attempt that was not lost is in the set until it is a window old,    *)
(* and the key lives as long.                                              *)
MadeAreMembers ==
  \A a \in Attempts : Made(a) =>
    /\ instant[a] <= clock
    /\ a \notin lost =>
         /\ instant[a] + Window <= key.until
         /\ instant[a] > clock - Window => instant[a] \in key.times

WindowInv == WindowTypeOK /\ MembersAreMade /\ MadeAreMembers

LEMMA WindowInitInv == WindowInit => WindowInv
  BY DEF WindowInit, NoKey, WindowInv, WindowTypeOK, MembersAreMade,
         MadeAreMembers, Made, Stages

LEMMA RecordInv ==
  ASSUME WindowInv, NEW b \in Attempts, Record(b)
  PROVE  WindowInv'
<1> USE DEF WindowInv, WindowTypeOK
<1>w. Window \in Nat \ {0}
  BY WindowAssumption
<1>n. stage[b] = "new"
  BY DEF Record, IsNext, Attempts
<1>1. /\ stage' = [stage EXCEPT ![b] = "recorded"]
      /\ instant' = [instant EXCEPT ![b] = clock]
      /\ clock' = clock /\ lost' = lost
      /\ key'.times = {t \in Held : t > clock - Window} \cup {clock}
      /\ key'.until = clock + Window
      /\ key' = [times |-> key'.times, until |-> key'.until]
  BY DEF Record, GoesTo, Trim
<1>2. Held \subseteq key.times /\ (clock < key.until => Held = key.times)
  BY DEF Held
<1>3. WindowTypeOK'
  BY <1>w, <1>1, <1>2 DEF Stages
<1>4. MembersAreMade'
  <2>1. ASSUME NEW t \in key'.times
        PROVE  /\ \E a \in Attempts : Made(a)' /\ instant'[a] = t
               /\ t > clock' - Window
    <3>1. CASE t = clock
      BY <1>w, <1>1, <3>1 DEF Made
    <3>2. CASE t # clock
      <4>1. t \in key.times /\ t > clock - Window
        BY <1>1, <1>2, <2>1, <3>2
      <4>2. PICK a \in Attempts : Made(a) /\ instant[a] = t
        BY <4>1 DEF MembersAreMade
      <4>3. a # b
        BY <1>n, <4>2 DEF Made
      <4> QED BY <1>1, <4>1, <4>2, <4>3 DEF Made
    <3> QED BY <3>1, <3>2
  <2> QED BY <2>1 DEF MembersAreMade
<1>5. MadeAreMembers'
  <2> SUFFICES ASSUME NEW a \in Attempts, Made(a)'
               PROVE  /\ instant'[a] <= clock'
                      /\ a \notin lost' =>
                           /\ instant'[a] + Window <= key'.until
                           /\ instant'[a] > clock' - Window => instant'[a] \in key'.times
    BY DEF MadeAreMembers
  <2>1. CASE a = b
    BY <1>w, <1>1, <2>1
  <2>2. CASE a # b
    <3>1. Made(a) /\ instant'[a] = instant[a]
      BY <1>1, <2>2 DEF Made
    <3>2. /\ instant[a] <= clock
          /\ a \notin lost => /\ instant[a] + Window <= key.until
                              /\ instant[a] > clock - Window => instant[a] \in key.times
      BY <3>1 DEF MadeAreMembers
    <3>3. instant[a] \in Nat /\ clock \in Nat /\ key.until \in Nat
      OBVIOUS
    <3>4. ASSUME a \notin lost, instant[a] > clock - Window
          PROVE  instant[a] \in key'.times
      <4>1. clock < key.until /\ instant[a] \in key.times
        BY <1>w, <3>2, <3>3, <3>4
      <4> QED BY <1>1, <1>2, <3>4, <4>1
    <3> QED BY <1>w, <1>1, <3>1, <3>2, <3>3, <3>4
  <2> QED BY <2>1, <2>2
<1> QED BY <1>3, <1>4, <1>5

(* Steps that leave clock and key alone, and make no attempt but a lost one.*)
LEMMA StageInv ==
  ASSUME WindowInv, NEW b \in Attempts,
         UNCHANGED <<clock, key>>,
         \E to \in Stages \ {"new", "recorded"} : GoesTo(b, to),
         \/ Made(b) /\ UNCHANGED <<instant, lost>>
         \/ ~Made(b) /\ instant' = [instant EXCEPT ![b] = clock] /\ lost' = lost \cup {b}
  PROVE  WindowInv'
<1> USE DEF WindowInv, WindowTypeOK
<1>1. PICK to \in Stages \ {"new", "recorded"} : stage' = [stage EXCEPT ![b] = to]
  BY DEF GoesTo
<1>2. \A a \in Attempts \ {b} : /\ stage'[a] = stage[a] /\ instant'[a] = instant[a]
                                /\ (a \in lost' <=> a \in lost)
  BY <1>1
<1>3. stage'[b] = to /\ (Made(b) => instant'[b] = instant[b] /\ lost' = lost)
                     /\ (~Made(b) => instant'[b] = clock /\ b \in lost')
  BY <1>1
<1>4. WindowTypeOK'
  BY <1>1
<1>5. MembersAreMade'
  <2>1. ASSUME NEW t \in key.times
        PROVE  \E a \in Attempts : Made(a)' /\ instant'[a] = t
    <3>1. PICK a \in Attempts : Made(a) /\ instant[a] = t
      BY DEF MembersAreMade
    <3> QED BY <1>2, <1>3, <3>1 DEF Made
  <2>2. \A a \in Attempts : stage'[a] = "recorded" => stage[a] = "recorded"
    BY <1>2, <1>3
  <2> QED BY <2>1, <2>2 DEF MembersAreMade
<1>6. MadeAreMembers'
  BY <1>2, <1>3 DEF MadeAreMembers, Made
<1> QED BY <1>4, <1>5, <1>6

LEMMA ClearInv ==
  ASSUME WindowInv, NEW b \in Attempts, Made(b), GoesTo(b, "ended"),
         key' = NoKey, lost' = lost \cup {a \in Attempts : Made(a)},
         UNCHANGED <<clock, instant>>
  PROVE  WindowInv'
<1> USE DEF WindowInv, WindowTypeOK
<1>1. stage' = [stage EXCEPT ![b] = "ended"]
  BY DEF GoesTo
<1>2. \A a \in Attempts : Made(a)' <=> Made(a)
  BY <1>1 DEF Made
<1>3. WindowTypeOK'
  BY <1>1 DEF NoKey, Stages
<1>4. MembersAreMade'
  BY DEF MembersAreMade, NoKey
<1>5. MadeAreMembers'
  BY <1>2 DEF MadeAreMembers
<1> QED BY <1>3, <1>4, <1>5

LEMMA TickInv ==
  ASSUME WindowInv, Tick
  PROVE  WindowInv'
<1> USE DEF WindowInv, WindowTypeOK
<1>1. /\ clock' = clock + 1 /\ UNCHANGED <<key, stage, instant, lost>>
      /\ \A a \in Attempts : stage[a] # "recorded"
  BY DEF Tick
<1>2. WindowTypeOK'
  BY <1>1
<1>3. MembersAreMade'
  BY <1>1 DEF MembersAreMade, Made
<1>4. MadeAreMembers'
  BY <1>1, WindowAssumption DEF MadeAreMembers, Made
<1> QED BY <1>2, <1>3, <1>4

LEMMA WindowNextInv == WindowInv /\ [WindowNext]_windowVars => WindowInv'
<1> SUFFICES ASSUME WindowInv, [WindowNext]_windowVars PROVE WindowInv'
  OBVIOUS
<1>1. CASE UNCHANGED windowVars
  BY <1>1 DEF windowVars, WindowInv, WindowTypeOK, MembersAreMade, MadeAreMembers, Made
<1>2. ASSUME NEW a \in Attempts, Record(a) PROVE WindowInv'
  BY <1>2, RecordInv
<1>3. ASSUME NEW a \in Attempts, Count(a) PROVE WindowInv'
  BY <1>3, StageInv DEF Count, Made, Stages
<1>4. ASSUME NEW a \in Attempts, RedisFails(a) PROVE WindowInv'
  <2>1. CASE IsNext(a)
    <3>1. ~Made(a)
      BY <2>1 DEF IsNext, Attempts, Made
    <3> QED BY <1>4, <3>1, StageInv DEF RedisFails, Made, Stages
  <2>2. CASE ~IsNext(a)
    BY <1>4, <2>2, StageInv DEF RedisFails, Made, Stages
  <2> QED BY <2>1, <2>2
<1>5. ASSUME NEW a \in Attempts, LoginEnds(a) PROVE WindowInv'
  <2>1. Made(a) /\ GoesTo(a, "ended") /\ UNCHANGED <<clock, instant>>
    BY <1>5 DEF LoginEnds, Made
  <2>2. CASE key' = NoKey /\ lost' = lost \cup {b \in Attempts : stage[b] # "new"}
    BY <2>1, <2>2, ClearInv DEF Made
  <2>3. CASE UNCHANGED <<key, lost>>
    BY <2>1, <2>3, StageInv DEF Stages
  <2> QED BY <1>5, <2>2, <2>3 DEF LoginEnds
<1>6. CASE Tick
  BY <1>6, TickInv
<1> QED BY <1>1, <1>2, <1>3, <1>4, <1>5, <1>6 DEF WindowNext

-----------------------------------------------------------------------------
(* The count against the attempts.                                         *)

LEMMA Finiteness ==
  ASSUME WindowInv
  PROVE  /\ IsFiniteSet(Recent) /\ Cardinality(Recent) \in Nat
         /\ IsFiniteSet(Held) /\ Cardinality(Held) \in Nat
<1>1. IsFiniteSet(Attempts)
  BY WindowAssumption, FS_Interval DEF Attempts
<1>2. IsFiniteSet(Recent)
  BY <1>1, FS_Subset DEF Recent
<1>3. Held \in SUBSET Nat
  BY DEF Held, WindowInv, WindowTypeOK
<1>4. \A t \in Held : t <= clock
  BY DEF Held, WindowInv, MembersAreMade, MadeAreMembers
<1>5. IsFiniteSet(Held)
  BY <1>3, <1>4, FS_BoundedSetOfNaturals DEF WindowInv, WindowTypeOK
<1> QED BY <1>2, <1>5, FS_CardinalityType

(* Redis never counts more than was attempted in the window.               *)
LEMMA CountsAtMost ==
  ASSUME WindowInv, NEW a \in Attempts, stage[a] = "recorded"
  PROVE  Cardinality(Held) <= Cardinality(Recent)
<1> DEFINE f == [t \in Held |-> CHOOSE b \in Recent : instant[b] = t]
<1>1. ASSUME NEW t \in Held PROVE \E b \in Recent : instant[b] = t
  <2>1. t \in key.times /\ t > clock - Window
    BY DEF Held, WindowInv, MembersAreMade
  <2> QED BY <2>1 DEF WindowInv, MembersAreMade, Recent, Made
<1>2. \A t \in Held : f[t] \in Recent /\ instant[f[t]] = t
  BY <1>1
<1>3. f \in [Held -> Recent]
  BY <1>2
<1> HIDE DEF f
<1>4. CASE Cardinality(Recent) < Cardinality(Held)
  <2>1. \E x, y \in Held : x # y /\ f[x] = f[y]
    BY <1>3, <1>4, Finiteness, FS_PigeonHole
  <2> QED BY <1>2, <2>1
<1> QED BY <1>4, Finiteness

(* It counts less only if it lost one of them or two have one instant.     *)
LEMMA CountsAtLeast ==
  ASSUME WindowInv, Recent \cap lost = {}, Cardinality(Held) < Cardinality(Recent)
  PROVE  \E b, c \in Recent : b # c /\ instant[b] = instant[c]
<1> DEFINE f == [b \in Recent |-> instant[b]]
<1>1. ASSUME NEW b \in Recent PROVE instant[b] \in Held
  <2>1. /\ b \in Attempts /\ Made(b) /\ b \notin lost
        /\ instant[b] > clock - Window
    BY DEF Recent, Made
  <2>2. instant[b] \in key.times /\ instant[b] + Window <= key.until
    BY <2>1 DEF WindowInv, MadeAreMembers
  <2>3. clock < key.until
    BY <2>1, <2>2, WindowAssumption DEF WindowInv, WindowTypeOK
  <2> QED BY <2>2, <2>3 DEF Held
<1>2. f \in [Recent -> Held]
  BY <1>1
<1> HIDE DEF f
<1>3. \E x, y \in Recent : x # y /\ f[x] = f[y]
  BY <1>2, Finiteness, FS_PigeonHole
<1> QED BY <1>3 DEF f

(* Whatever comes between the commands of the pipelines and between a      *)
(* login's count and its DEL: nobody is refused below the limit, and       *)
(* somebody is admitted beyond it only because an attempt was lost or      *)
(* shares its millisecond with another.                                    *)
THEOREM LimitHoldsHolds == WindowSpec => LimitHolds
<1> DEFINE Good ==
      \A a \in Attempts : stage[a] = "recorded" =>
        /\ stage'[a] = "refused" => Cardinality(Recent) > MaxAttempts
        /\ stage'[a] = "admitted" =>
             \/ Cardinality(Recent) <= MaxAttempts
             \/ Recent \cap lost # {}
             \/ \E b, c \in Recent : b # c /\ instant[b] = instant[c]
<1>1. WindowInit => WindowInv
  BY WindowInitInv
<1>2. WindowInv /\ [WindowNext]_windowVars => WindowInv'
  BY WindowNextInv
<1>3. WindowInv /\ [WindowNext]_windowVars => Good
  <2> SUFFICES ASSUME WindowInv, [WindowNext]_windowVars,
                      NEW a \in Attempts, stage[a] = "recorded",
                      stage'[a] \in {"refused", "admitted"}
               PROVE  /\ stage'[a] = "refused" => Cardinality(Recent) > MaxAttempts
                      /\ stage'[a] = "admitted" =>
                           \/ Cardinality(Recent) <= MaxAttempts
                           \/ Recent \cap lost # {}
                           \/ \E b, c \in Recent : b # c /\ instant[b] = instant[c]
    OBVIOUS
  <2>0. stage \in [Attempts -> Stages] /\ MaxAttempts \in Nat
    BY WindowAssumption DEF WindowInv, WindowTypeOK
  <2>1. Count(a)
    <3>1. stage' # stage
      BY <2>0
    <3>2. ASSUME NEW b \in Attempts,
                 Record(b) \/ Count(b) \/ RedisFails(b) \/ LoginEnds(b), b # a
          PROVE  stage'[a] = stage[a]
      BY <2>0, <3>2 DEF Record, Count, RedisFails, LoginEnds, GoesTo
    <3>3. ~Record(a) /\ ~RedisFails(a) /\ ~LoginEnds(a)
      BY <2>0 DEF Record, RedisFails, LoginEnds, GoesTo, IsNext, Attempts
    <3> QED BY <3>1, <3>2, <3>3 DEF WindowNext, Tick, windowVars
  <2>2. /\ stage'[a] = "admitted" => Cardinality(Held) <= MaxAttempts
        /\ stage'[a] = "refused" => ~(Cardinality(Held) <= MaxAttempts)
    BY <2>0, <2>1 DEF Count, GoesTo
  <2>3. /\ Cardinality(Held) \in Nat /\ Cardinality(Recent) \in Nat
        /\ Cardinality(Held) <= Cardinality(Recent)
    BY Finiteness, CountsAtMost
  <2>4. CASE stage'[a] = "refused"
    BY <2>0, <2>2, <2>3, <2>4
  <2>5. CASE stage'[a] = "admitted"
    BY <2>0, <2>2, <2>3, <2>5, CountsAtLeast
  <2> QED BY <2>4, <2>5
<1> QED BY <1>1, <1>2, <1>3, PTL DEF WindowSpec, LimitHolds
=============================================================================
