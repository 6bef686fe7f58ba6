---------------------------- MODULE AgentService ----------------------------
(***************************************************************************)
(* agent-svc for one workspace: the row of agent_configs, its copy in      *)
(* Redis, the detached goroutines that write that copy, and the calls      *)
(* ProcessVision and ProcessTranslation of label-svc's pipeline.           *)
(*                                                                         *)
(* A configuration is known by its version, the number of the update that  *)
(* saved it; saved holds its content.  Every step is one statement on the  *)
(* database or Redis, or one call of a provider.                           *)
(***************************************************************************)
EXTENDS Naturals

CONSTANTS
  Calls,      \* calls of label-svc that may run at the same time
  Configs,    \* configurations the administrator saves
  HasApiKey,  \* ANTHROPIC_API_KEY is set
  MaxUpdates, \* bound on updates of the configuration
  MaxFills    \* bound on the unfinished cache writes of one version

Providers == {"claude", "ollama", ""} \* "" is a provider left out of an update

ASSUME AgentAssumption ==
  /\ Configs \subseteq [vision : Providers, fallback : Providers,
                        ollamaUrl : BOOLEAN]
  /\ HasApiKey \in BOOLEAN
  /\ MaxUpdates \in Nat
  /\ MaxFills \in Nat

VARIABLES
  updates, \* version in the row, 0 without a row
  saved,   \* the content of each version
  cache,   \* version under agent:config:<id> in Redis, 0 for none
  fills,   \* unfinished goroutines that will write a version to the cache
  pc,      \* where each call is
  version, \* version the call loaded last, 0 for none yet
  since    \* history: the row's version when the call began

vars == <<updates, saved, cache, fills, pc, version, since>>

callVars == <<pc, version, since>>

Versions == 1..MaxUpdates

PCs == {"idle", "load", "primary", "reload", "second", "translate",
        "rejected", "failed"}

(* Only a version that was saved can be cached, be on its way to the       *)
(* cache, or be in use.                                                    *)
TypeOK ==
  /\ updates \in 0..MaxUpdates
  /\ saved \in [1..updates -> Configs]
  /\ cache \in 0..updates
  /\ fills \in [Versions -> 0..MaxFills]
  /\ \A v \in Versions : v > updates => fills[v] = 0
  /\ pc \in [Calls -> PCs]
  /\ version \in [Calls -> 0..updates]
  /\ since \in [Calls -> 0..updates]

Init ==
  /\ updates = 0
  /\ saved = [v \in 1..0 |-> 0]
  /\ cache = 0
  /\ fills = [v \in Versions |-> 0]
  /\ pc = [c \in Calls |-> "idle"]
  /\ version = [c \in Calls |-> 0]
  /\ since = [c \in Calls |-> 0]

-----------------------------------------------------------------------------
(* A mutant: the new configuration goes to the cache first, and the upsert *)
(* may then fail.                                                          *)
UpdateCachesFirst(cfg) ==
  /\ updates < MaxUpdates
  /\ cache' = updates + 1
  /\ \/ /\ updates' = updates + 1
        /\ saved' = [v \in 1..(updates + 1) |->
                       IF v = updates + 1 THEN cfg ELSE saved[v]]
     \/ UNCHANGED <<updates, saved>>
  /\ UNCHANGED <<fills, callVars>>

(* UpdateAgentConfig: one upsert that replaces every provider, those the   *)
(* request leaves out by "".  The cache is not touched, although the       *)
(* answer says so.                                                         *)
UpdateAgentConfig(cfg) ==
  /\ updates < MaxUpdates
  /\ updates' = updates + 1
  /\ saved' = [v \in 1..(updates + 1) |->
                 IF v = updates + 1 THEN cfg ELSE saved[v]]
  /\ UNCHANGED <<cache, fills, callVars>>

-----------------------------------------------------------------------------
(* loadConfig.  Without a copy in Redis, or when Redis does not answer, it *)
(* reads the row and leaves the copy to a goroutine nobody waits for.      *)

FromCache(v) == cache # 0 /\ v = cache /\ UNCHANGED fills

FromRow(v) ==
  /\ updates # 0 /\ v = updates
  /\ fills[v] < MaxFills
  /\ fills' = [fills EXCEPT ![v] = @ + 1]

(* A mutant: a hit renews the copy, too.                                   *)
LoadRenewing(v) ==
  \/ /\ cache # 0 /\ v = cache
     /\ fills[v] < MaxFills
     /\ fills' = [fills EXCEPT ![v] = @ + 1]
  \/ FromRow(v)

Load(v) == FromCache(v) \/ FromRow(v)

(* A mutant: the goroutine may write the version before the one it read.   *)
FillStale(v) ==
  /\ fills[v] > 0
  /\ fills' = [fills EXCEPT ![v] = @ - 1]
  /\ \E u \in {v - 1, v} : cache' = u
  /\ UNCHANGED <<updates, saved, callVars>>

(* The goroutine of an earlier load writes its version, now; a Set that    *)
(* fails writes nothing.                                                   *)
Fill(v) ==
  /\ fills[v] > 0
  /\ fills' = [fills EXCEPT ![v] = @ - 1]
  /\ cache' \in {v, cache}
  /\ UNCHANGED <<updates, saved, callVars>>

(* AGENT_CACHE_TTL_SECONDS have passed.                                    *)
Expire ==
  /\ cache # 0
  /\ cache' = 0
  /\ UNCHANGED <<updates, saved, fills, callVars>>

(* The process dies with its calls and goroutines; the cache stays.        *)
Crash ==
  /\ fills' = [v \in Versions |-> 0]
  /\ pc' = [c \in Calls |-> "idle"]
  /\ version' = [c \in Calls |-> 0]
  /\ UNCHANGED <<updates, saved, cache, since>>

-----------------------------------------------------------------------------
(* ProcessVision.                                                          *)

(* buildVisionAgent finds what the provider needs.                         *)
Builds(provider, cfg) ==
  \/ provider = "claude" /\ HasApiKey
  \/ provider = "ollama" /\ cfg.ollamaUrl

Goto(c, s) == pc' = [pc EXCEPT ![c] = s]

StartVision(c) ==
  /\ pc[c] = "idle"
  /\ Goto(c, "load")
  /\ since' = [since EXCEPT ![c] = updates]
  /\ UNCHANGED <<updates, saved, cache, fills, version>>

LoadPrimary(c) ==
  /\ pc[c] = "load"
  /\ \E v \in Versions :
       /\ Load(v)
       /\ version' = [version EXCEPT ![c] = v]
       /\ Goto(c, IF Builds(saved[v].vision, saved[v]) THEN "primary"
                  ELSE "failed")
  /\ UNCHANGED <<updates, saved, cache, since>>

(* The fallback comes from a second loadConfig: not always the             *)
(* configuration the primary came from.                                    *)
LoadFallback(c) ==
  /\ pc[c] = "reload"
  /\ \E v \in Versions :
       /\ Load(v)
       /\ version' = [version EXCEPT ![c] = v]
       /\ Goto(c, IF Builds(saved[v].fallback, saved[v]) THEN "second"
                  ELSE "failed")
  /\ UNCHANGED <<updates, saved, cache, since>>

(* No row, or the database does not answer.                                *)
LoadFails(c) ==
  /\ pc[c] \in {"load", "reload"}
  /\ Goto(c, "failed")
  /\ UNCHANGED <<updates, saved, cache, fills, version, since>>

(* A mutant: a provider that fails is tried again, without end.            *)
ExtractFieldsForEver(c) ==
  /\ \/ pc[c] \in {"primary", "second"} /\ Goto(c, "translate")
     \/ pc[c] \in {"primary", "second"} /\ Goto(c, "reload")
  /\ UNCHANGED <<updates, saved, cache, fills, version, since>>

(* ExtractFields of the primary or the fallback provider.                  *)
ExtractFields(c) ==
  /\ \/ pc[c] \in {"primary", "second"} /\ Goto(c, "translate")
     \/ pc[c] = "primary" /\ Goto(c, "reload")
     \/ pc[c] = "second" /\ Goto(c, "failed")
  /\ UNCHANGED <<updates, saved, cache, fills, version, since>>

-----------------------------------------------------------------------------
(* ProcessTranslation, with the raw_json of the vision result.             *)

(* The kinds of JSON values in the raw_json of every VisionResult: its     *)
(* pointers, category and language; tokens_used and latency_ms; and        *)
(* confidence.                                                             *)
RawJson == {"string", "null", "number", "object"}

(* What json.Unmarshal stores in a map[string]*string.                     *)
Decodes(kinds) == kinds \subseteq {"string", "null"}

(* The next step of a call that decodes is the translation agent's; no     *)
(* call of label-svc comes to it, and it is not modelled.                  *)
ProcessTranslation(c) ==
  /\ pc[c] = "translate"
  /\ ~ Decodes(RawJson)
  /\ Goto(c, "rejected")
  /\ UNCHANGED <<updates, saved, cache, fills, version, since>>

Return(c) ==
  /\ pc[c] \in {"failed", "rejected"}
  /\ Goto(c, "idle")
  /\ version' = [version EXCEPT ![c] = 0]
  /\ UNCHANGED <<updates, saved, cache, fills, since>>

-----------------------------------------------------------------------------
CallStep(c) ==
  \/ LoadPrimary(c)
  \/ LoadFallback(c)
  \/ LoadFails(c)
  \/ ExtractFields(c)
  \/ ProcessTranslation(c)
  \/ Return(c)

Next ==
  \/ \E cfg \in Configs : UpdateAgentConfig(cfg)
  \/ \E v \in Versions : Fill(v)
  \/ Expire
  \/ Crash
  \/ \E c \in Calls : StartVision(c) \/ CallStep(c)

Spec == Init /\ [][Next]_vars

(* A goroutine gets its turn, Redis forgets an expired key, and a call     *)
(* goes on (every provider answers or times out).  Nobody has to call.     *)
Fairness ==
  /\ \A v \in Versions : WF_vars(Fill(v))
  /\ WF_vars(Expire)
  /\ \A c \in Calls : WF_vars(CallStep(c))

FairSpec == Spec /\ Fairness

-----------------------------------------------------------------------------
(* Nothing old can come back: the cache holds the row's version or nothing *)
(* and no goroutine is about to write an older one.                        *)
Current ==
  /\ cache \in {0, updates}
  /\ \A v \in Versions : v < updates => fills[v] = 0

(* Once the old configuration is gone it stays gone: no load, goroutine,   *)
(* expiry or crash brings it back before the next update.                  *)
CurrentStaysCurrent ==
  [][Current /\ updates' = updates => Current']_vars

(* After the last update every call comes to use the configuration it      *)
(* saved, although an update leaves the old copy in the cache and a        *)
(* delayed goroutine may even write it again.                              *)
ConfigConverges ==
  <>[](cache \in {0, updates} /\ \A c \in Calls : version[c] \in {0, updates})

(* Every call of the pipeline comes to an end, fallback or not.            *)
EveryCallEnds == \A c \in Calls : pc[c] # "idle" ~> pc[c] = "idle"

-----------------------------------------------------------------------------
(* What the documents and comments say, and the code does not do.          *)

(* "Efectiv imediat, invalideaza Redis cache": a call that begins after    *)
(* the update was answered uses the new configuration.                     *)
UpdateTakesEffect == \A c \in Calls : version[c] # 0 => version[c] >= since[c]

(* "Translation: translate extracted fields to Romanian": the translation  *)
(* accepts what the vision agent extracted.                                *)
VisionIsTranslated == \A c \in Calls : pc[c] # "rejected"

=============================================================================
