--------------------------- MODULE SlidingWindow ----------------------------
(***************************************************************************)
(* The sliding window that limits logins: auth-svc's per e-mail address    *)
(* and the gateway's per client address.  Both keep the instants of the    *)
(* attempts in a sorted set of Redis, drop the old ones, add the new one,  *)
(* count, and renew the key's time to live.                                *)
(*                                                                         *)
(* The commands go to Redis in a pipeline, which is no transaction: other  *)
(* commands, the DEL of a successful login above all, may come between     *)
(* them.  What is assumed is that they all run in the millisecond the      *)
(* attempt was made in, and that Redis has the services' clock; the order  *)
(* of ZCARD and EXPIRE does not matter then, and EXPIRE goes with ZADD.    *)
(* The gateway never deletes a key; its behaviours are the ones without    *)
(* the first disjunct of LoginEnds.                                        *)
(***************************************************************************)
EXTENDS Integers, FiniteSets

CONSTANTS
  MaxAttempts, \* attempts a window admits
  Window,      \* length of the window
  MaxTries,    \* bound on the attempts
  LastInstant  \* bound on the clock

ASSUME WindowAssumption ==
  /\ MaxAttempts \in Nat /\ Window \in Nat \ {0}
  /\ MaxTries \in Nat /\ LastInstant \in Nat

VARIABLES
  clock,   \* the millisecond
  key,     \* the key in Redis
  stage,   \* how far an attempt is
  instant, \* when an attempt was made
  lost     \* history: attempts Redis never got, and those a DEL removed

windowVars == <<clock, key, stage, instant, lost>>

(* Attempts with the same key, numbered in the order they are made in.     *)
Attempts == 1..MaxTries

(* unlimited: Redis did not answer, and the services let the attempt pass. *)
Stages == {"new", "recorded", "admitted", "refused", "unlimited", "ended"}

(* The members of the sorted set are the instants themselves, so that two  *)
(* attempts of one millisecond are one member; until is when it expires.   *)
NoKey == [times |-> {}, until |-> 0]

WindowInit ==
  /\ clock = 0
  /\ key = NoKey
  /\ stage = [a \in Attempts |-> "new"]
  /\ instant = [a \in Attempts |-> 0]
  /\ lost = {}

-----------------------------------------------------------------------------
Held == IF clock < key.until THEN key.times ELSE {}

(* A mutant: an attempt exactly one window ago still counts.               *)
TrimLate(times) == {t \in times : t >= clock - Window}

(* ZREMRANGEBYSCORE 0 .. now - window, both ends included.                 *)
Trim(times) == {t \in times : t > clock - Window}

GoesTo(a, to) == stage' = [stage EXCEPT ![a] = to]

IsNext(a) == \A b \in Attempts : stage[b] = "new" <=> b >= a

(* RecordLoginAttempt and slidingWindowCount: trim, add, renew.            *)
Record(a) ==
  /\ IsNext(a)
  /\ GoesTo(a, "recorded")
  /\ instant' = [instant EXCEPT ![a] = clock]
  /\ key' = [times |-> Trim(Held) \cup {clock}, until |-> clock + Window]
  /\ UNCHANGED <<clock, lost>>

(* The same: count.  The attempt itself is in the count.                   *)
Count(a) ==
  /\ stage[a] = "recorded"
  /\ GoesTo(a, IF Cardinality(Held) <= MaxAttempts THEN "admitted" ELSE "refused")
  /\ UNCHANGED <<clock, key, instant, lost>>

(* The pipeline fails, or only its answer is lost: both callers go on.     *)
RedisFails(a) ==
  /\ \/ /\ IsNext(a)
        /\ instant' = [instant EXCEPT ![a] = clock]
        /\ lost' = lost \cup {a}
     \/ stage[a] = "recorded" /\ UNCHANGED <<instant, lost>>
  /\ GoesTo(a, "unlimited")
  /\ UNCHANGED <<clock, key>>

(* Login: only after the user was read and the password compared does a    *)
(* success delete the key, with whatever was recorded meanwhile.  A login  *)
(* that fails leaves the key, and so does a DEL that fails.                *)
LoginEnds(a) ==
  /\ stage[a] \in {"admitted", "unlimited"}
  /\ GoesTo(a, "ended")
  /\ \/ key' = NoKey /\ lost' = lost \cup {b \in Attempts : stage[b] # "new"}
     \/ UNCHANGED <<key, lost>>
  /\ UNCHANGED <<clock, instant>>

Tick ==
  /\ clock < LastInstant
  /\ \A a \in Attempts : stage[a] # "recorded"
  /\ clock' = clock + 1
  /\ UNCHANGED <<key, stage, instant, lost>>

WindowNext ==
  \/ \E a \in Attempts : Record(a) \/ Count(a) \/ RedisFails(a) \/ LoginEnds(a)
  \/ Tick

WindowSpec == WindowInit /\ [][WindowNext]_windowVars

-----------------------------------------------------------------------------
(* The attempts that were made in the window that ends now.                *)
Recent == {a \in Attempts : stage[a] # "new" /\ instant[a] > clock - Window}

(* The limit against the attempts themselves, whatever Redis knows of      *)
(* them.  An attempt is refused only if more than MaxAttempts were made in *)
(* the window.  It is admitted beyond the limit only in two ways, both of  *)
(* them the code's: Redis lost one of the window's attempts, to an error   *)
(* or to the DEL of a successful login, or two were of one millisecond.    *)
LimitHolds ==
  [][\A a \in Attempts : stage[a] = "recorded" =>
       /\ stage'[a] = "refused" => Cardinality(Recent) > MaxAttempts
       /\ stage'[a] = "admitted" =>
            \/ Cardinality(Recent) <= MaxAttempts
            \/ Recent \cap lost # {}
            \/ \E b, c \in Recent : b # c /\ instant[b] = instant[c]]_windowVars
=============================================================================
