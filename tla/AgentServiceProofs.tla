------------------------- MODULE AgentServiceProofs -------------------------
(***************************************************************************)
(* Proofs about AgentService, for any calls, any configurations, and any   *)
(* bounds on updates and on unfinished cache writes.                       *)
(***************************************************************************)
EXTENDS AgentService, TLAPS

-----------------------------------------------------------------------------
(* A load gives a saved version, and leaves at most one new cache write:   *)
(* of that version, the row's own.                                         *)
LEMMA LoadFacts ==
  ASSUME TypeOK, NEW v \in Versions, Load(v)
  PROVE  /\ v \in 1..updates
         /\ fills' \in [Versions -> 0..MaxFills]
         /\ \A u \in Versions : u # updates => fills'[u] = fills[u]
<1> USE DEF TypeOK, Versions
<1>1. CASE FromCache(v)
  BY <1>1, AgentAssumption DEF FromCache
<1>2. CASE FromRow(v)
  BY <1>2, AgentAssumption DEF FromRow
<1> QED BY <1>1, <1>2 DEF Load

-----------------------------------------------------------------------------
(* Every reachable state has the types of TypeOK.                          *)
LEMMA InitType == Init => TypeOK
  BY AgentAssumption DEF Init, TypeOK, Versions, PCs

(* A call disturbs no more than its own place, its version and, by a load, *)
(* the cache writes of the row's version.                                  *)
LEMMA CallFacts ==
  ASSUME TypeOK, NEW c \in Calls, StartVision(c) \/ CallStep(c)
  PROVE  /\ UNCHANGED <<updates, saved, cache>>
         /\ fills' \in [Versions -> 0..MaxFills]
         /\ \A u \in Versions : u # updates => fills'[u] = fills[u]
         /\ pc' \in [Calls -> PCs]
         /\ version' \in [Calls -> 0..updates]
         /\ since' \in [Calls -> 0..updates]
<1> USE AgentAssumption DEF TypeOK, PCs, Goto
<1>1. CASE LoadPrimary(c) \/ LoadFallback(c)
  <2>1. PICK v \in Versions : /\ Load(v)
                              /\ version' = [version EXCEPT ![c] = v]
    BY <1>1 DEF LoadPrimary, LoadFallback
  <2>2. version' \in [Calls -> 0..updates]
    BY <2>1, LoadFacts
  <2>3. pc' \in [Calls -> PCs] /\ UNCHANGED <<updates, saved, cache, since>>
    BY <1>1 DEF LoadPrimary, LoadFallback
  <2> QED BY <2>1, <2>2, <2>3, LoadFacts
<1>2. CASE StartVision(c)
  BY <1>2 DEF StartVision
<1>3. CASE LoadFails(c) \/ ExtractFields(c)
  BY <1>3 DEF LoadFails, ExtractFields
<1>4. CASE ProcessTranslation(c)
  BY <1>4 DEF ProcessTranslation
<1>5. CASE Return(c)
  <2>1. 0 \in 0..updates
    OBVIOUS
  <2>2. version' \in [Calls -> 0..updates]
    BY <1>5, <2>1 DEF Return
  <2> QED BY <1>5, <2>2 DEF Return
<1> QED BY <1>1, <1>2, <1>3, <1>4, <1>5 DEF CallStep

LEMMA NextType == TypeOK /\ [Next]_vars => TypeOK'
<1> SUFFICES ASSUME TypeOK, [Next]_vars PROVE TypeOK'
  OBVIOUS
<1> USE AgentAssumption
<1>1. CASE UNCHANGED vars
  BY <1>1 DEF vars, callVars, TypeOK
<1>2. ASSUME NEW cfg \in Configs, UpdateAgentConfig(cfg) PROVE TypeOK'
  BY <1>2 DEF UpdateAgentConfig, callVars, TypeOK, Versions
<1>3. ASSUME NEW v \in Versions, Fill(v) PROVE TypeOK'
  BY <1>3 DEF Fill, callVars, TypeOK, Versions
<1>4. CASE Expire
  BY <1>4 DEF Expire, callVars, TypeOK
<1>5. CASE Crash
  BY <1>5 DEF Crash, TypeOK, Versions, PCs
<1>6. ASSUME NEW c \in Calls, StartVision(c) \/ CallStep(c) PROVE TypeOK'
  <2>1. /\ UNCHANGED <<updates, saved, cache>>
        /\ fills' \in [Versions -> 0..MaxFills]
        /\ \A u \in Versions : u # updates => fills'[u] = fills[u]
        /\ pc' \in [Calls -> PCs]
        /\ version' \in [Calls -> 0..updates]
        /\ since' \in [Calls -> 0..updates]
    BY <1>6, CallFacts
  <2> QED BY <2>1 DEF TypeOK, Versions
<1> QED BY <1>1, <1>2, <1>3, <1>4, <1>5, <1>6 DEF Next

(* The row, its copies and the calls always have their types.              *)
THEOREM TypeCorrect == Spec => []TypeOK
<1>1. Init => TypeOK BY InitType
<1>2. TypeOK /\ [Next]_vars => TypeOK' BY NextType
<1> QED BY <1>1, <1>2, PTL DEF Spec

-----------------------------------------------------------------------------
(* No step but an update makes a current cache old: a load can only leave  *)
(* a write of the row's version, and a pending write can only be of it.    *)
LEMMA StepStaysCurrent ==
  ASSUME TypeOK, [Next]_vars, Current, updates' = updates
  PROVE  Current'
<1> USE AgentAssumption DEF Current
<1>1. CASE UNCHANGED vars
  BY <1>1 DEF vars
<1>2. ASSUME NEW cfg \in Configs, UpdateAgentConfig(cfg) PROVE Current'
  BY <1>2 DEF UpdateAgentConfig, TypeOK
<1>3. ASSUME NEW v \in Versions, Fill(v) PROVE Current'
  <2>1. v = updates
    BY <1>3 DEF Fill, TypeOK, Versions
  <2> QED BY <1>3, <2>1 DEF Fill, TypeOK, Versions
<1>4. CASE Expire
  BY <1>4 DEF Expire
<1>5. CASE Crash
  BY <1>5 DEF Crash, Versions
<1>6. ASSUME NEW c \in Calls, StartVision(c) \/ CallStep(c) PROVE Current'
  <2>1. /\ UNCHANGED <<updates, cache>>
        /\ \A u \in Versions : u # updates => fills'[u] = fills[u]
    BY <1>6, CallFacts
  <2> QED BY <2>1 DEF TypeOK, Versions
<1> QED BY <1>1, <1>2, <1>3, <1>4, <1>5, <1>6 DEF Next

(* Once the old configuration is gone it stays gone.                       *)
THEOREM CurrentStaysCurrentHolds == Spec => CurrentStaysCurrent
<1>1. TypeOK /\ [Next]_vars => [Current /\ updates' = updates => Current']_vars
  BY StepStaysCurrent
<1> QED BY <1>1, TypeCorrect, PTL DEF Spec, CurrentStaysCurrent

-----------------------------------------------------------------------------
(* Termination: what the liveness properties need besides fairness.        *)

(* How many steps a call may still take: at worst the primary provider,    *)
(* the fallback, and a translation of its result.                          *)
StepsLeft(s) ==
  CASE s = "load" -> 6 [] s = "primary" -> 5 [] s = "reload" -> 4
    [] s = "second" -> 3 [] s = "translate" -> 2
    [] s \in {"rejected", "failed"} -> 1 [] s = "idle" -> 0

(* A call that has begun only ever comes nearer to its end: it falls back  *)
(* once, however often loads and providers fail, and whatever the updates  *)
(* do between its two loads.                                               *)
CallsRunOut ==
  [][\A c \in Calls :
       pc[c] # "idle" =>
         /\ StepsLeft(pc'[c]) <= StepsLeft(pc[c])
         /\ CallStep(c) => StepsLeft(pc'[c]) < StepsLeft(pc[c])]_vars

THEOREM CallsRunOutHolds == Spec => CallsRunOut
<1> DEFINE RunsOut ==
      \A c \in Calls :
        pc[c] # "idle" =>
          /\ StepsLeft(pc'[c]) <= StepsLeft(pc[c])
          /\ CallStep(c) => StepsLeft(pc'[c]) < StepsLeft(pc[c])
<1>1. TypeOK /\ [Next]_vars => [RunsOut]_vars
  <2> SUFFICES ASSUME TypeOK, Next, NEW c \in Calls, pc[c] # "idle"
               PROVE  /\ StepsLeft(pc'[c]) <= StepsLeft(pc[c])
                      /\ CallStep(c) => StepsLeft(pc'[c]) < StepsLeft(pc[c])
    OBVIOUS
  <2>1. pc[c] \in PCs /\ StepsLeft(pc[c]) \in 1..6
    BY DEF TypeOK, PCs, StepsLeft
  <2>2. ASSUME CallStep(c)
        PROVE  StepsLeft(pc'[c]) < StepsLeft(pc[c])
               /\ StepsLeft(pc'[c]) \in Nat
    BY <2>2
    DEF TypeOK, CallStep, LoadPrimary, LoadFallback, LoadFails,
        ExtractFields, ProcessTranslation, Return, Goto, StepsLeft
  <2>3. ASSUME NEW d \in Calls, CallStep(d) \/ StartVision(d), ~ CallStep(c)
        PROVE  pc'[c] = pc[c]
    BY <2>3
    DEF TypeOK, CallStep, LoadPrimary, LoadFallback, LoadFails,
        ExtractFields, ProcessTranslation, Return, StartVision, Goto
  <2>4. CASE Crash
    <3>1. pc'[c] = "idle"
      BY <2>4 DEF Crash
    <3>2. StepsLeft(pc'[c]) = 0
      BY <3>1 DEF StepsLeft
    <3> QED BY <2>1, <2>2, <3>2
  <2>5. ASSUME \/ \E cfg \in Configs : UpdateAgentConfig(cfg)
               \/ \E v \in Versions : Fill(v)
               \/ Expire
        PROVE  pc'[c] = pc[c]
    BY <2>5 DEF UpdateAgentConfig, Fill, Expire, callVars
  <2> QED BY <2>1, <2>2, <2>3, <2>4, <2>5 DEF Next
<1> QED BY <1>1, TypeCorrect, PTL DEF Spec, CallsRunOut

(* Between two updates the writes of old copies only drain: no load starts *)
(* one, each that gets its turn is gone, and nothing else puts an old copy *)
(* into the cache.                                                         *)
OldCopiesDrain ==
  [][updates' = updates =>
       /\ \A v \in Versions :
            /\ v # updates => fills'[v] <= fills[v]
            /\ Fill(v) => fills'[v] < fills[v]
       /\ cache' \notin {0, updates, cache} =>
            \E v \in Versions : Fill(v) /\ cache' = v]_vars

THEOREM OldCopiesDrainHolds == Spec => OldCopiesDrain
<1> DEFINE OnlyFillsWrite ==
             cache' \notin {0, updates, cache} =>
               \E v \in Versions : Fill(v) /\ cache' = v
           Drains ==
             updates' = updates =>
               /\ \A v \in Versions :
                    /\ v # updates => fills'[v] <= fills[v]
                    /\ Fill(v) => fills'[v] < fills[v]
               /\ OnlyFillsWrite
<1>1. TypeOK /\ [Next]_vars => [Drains]_vars
  <2> SUFFICES ASSUME TypeOK, Next, updates' = updates PROVE Drains
    OBVIOUS
  <2>1. \A v \in Versions : fills[v] \in Nat
    BY AgentAssumption DEF TypeOK
  <2>2. ASSUME NEW v \in Versions, Fill(v)
        PROVE  fills'[v] < fills[v]
    BY <2>1, <2>2 DEF Fill, TypeOK
  <2>3. (\A v \in Versions : v # updates => fills'[v] <= fills[v])
        /\ OnlyFillsWrite
    <3>1. ASSUME NEW cfg \in Configs, UpdateAgentConfig(cfg) PROVE FALSE
      BY <3>1 DEF UpdateAgentConfig, TypeOK
    <3>2. ASSUME NEW u \in Versions, Fill(u)
          PROVE  /\ \A v \in Versions : fills'[v] <= fills[v]
                 /\ OnlyFillsWrite
      <4>1. \A v \in Versions : fills'[v] <= fills[v]
        BY <2>1, <3>2 DEF Fill, TypeOK
      <4>2. cache' = u \/ cache' = cache
        BY <3>2 DEF Fill
      <4> QED BY <3>2, <4>1, <4>2
    <3>3. CASE Expire
      BY <2>1, <3>3 DEF Expire
    <3>4. CASE Crash
      BY <2>1, <3>4 DEF Crash
    <3>5. ASSUME NEW c \in Calls, StartVision(c) \/ CallStep(c)
          PROVE  /\ \A v \in Versions : v # updates => fills'[v] <= fills[v]
                 /\ OnlyFillsWrite
      <4>1. /\ cache' = cache
            /\ \A v \in Versions : v # updates => fills'[v] = fills[v]
        BY <3>5, CallFacts
      <4> QED BY <2>1, <4>1
    <3> QED BY <3>1, <3>2, <3>3, <3>4, <3>5 DEF Next
  <2> QED BY <2>2, <2>3
<1> QED BY <1>1, TypeCorrect, PTL DEF Spec, OldCopiesDrain

=============================================================================
