----------------------------- MODULE ChatTurns -----------------------------
(***************************************************************************)
(* One user's chat turns: the tier is read from PostgreSQL, the daily      *)
(* quota is checked and charged in Redis by three separate commands (GET,  *)
(* INCR, EXPIRE), and an admitted turn streams an answer in which the      *)
(* model may interrupt itself to call tools.                               *)
(*                                                                         *)
(* Every request is a coroutine of its own, in any API process: between    *)
(* two awaits any other may run, the date may change, and the request may  *)
(* be cancelled.  Text deltas and citations change no shared state and are *)
(* left out.                                                               *)
(***************************************************************************)
EXTENDS Integers, FiniteSets

CONSTANTS
  Conns,     \* requests the user may have open at a time
  ChatTiers, \* subscription tiers
  Limited,   \* those with a daily limit (free, basic)
  Limit,     \* TIER_LIMITS of the limited tiers
  MaxTools,  \* MAX_TOOL_CALLS_PER_TURN
  Faulty,    \* what may fail: "redis", "database", "provider", "client"
  MaxDay     \* bound on midnights

ASSUME ConnsAssumption == IsFiniteSet(Conns) /\ Conns # {}
ASSUME LimitsAssumption ==
  /\ Limited \subseteq ChatTiers
  /\ Limit \in [Limited -> Nat \ {0}]
ASSUME NumbersAssumption ==
  /\ MaxTools \in Nat
  /\ MaxDay \in Nat

VARIABLES
  today,    \* the UTC date
  tier,     \* users.tier
  count,    \* chat:quota:{user}:{date}, 0 where there is no key
  armed,    \* dates whose key has a time to live
  stage,    \* where each request is
  key,      \* the date of the key it uses, fixed before the first command
  quota,    \* the limit it was given
  tools,    \* tool calls of its turn
  reply,    \* how its last turn went
  granted   \* history: turns charged to each date

redisVars == <<count, armed>>
connVars  == <<stage, key, quota, tools, reply>>
turnVars == <<today, tier, redisVars, connVars, granted>>
-----------------------------------------------------------------------------
Days == 0..MaxDay

Charging  == {"get", "incr", "expire"}
Streaming == {"retrieve", "model", "tool"}

Replies == {"none", "answered", "capped", "apology", "over_quota",
            "server_error", "cut_short", "dropped"}

Holders(d) == {c \in Conns : stage[c] \in Charging /\ key[c] = d}

TurnInit ==
  /\ today = 0
  /\ tier \in ChatTiers
  /\ count = [d \in Days |-> 0]
  /\ armed = {}
  /\ stage = [c \in Conns |-> "idle"]
  /\ key = [c \in Conns |-> 0]
  /\ quota = [c \in Conns |-> 0]
  /\ tools = [c \in Conns |-> 0]
  /\ reply = [c \in Conns |-> "none"]
  /\ granted = [d \in Days |-> 0]
-----------------------------------------------------------------------------
(* Quota.                                                                  *)

\* The request is over and its locals are gone.
End(c, r) ==
  /\ stage' = [stage EXCEPT ![c] = "idle"]
  /\ key' = [key EXCEPT ![c] = 0]
  /\ quota' = [quota EXCEPT ![c] = 0]
  /\ tools' = [tools EXCEPT ![c] = 0]
  /\ reply' = [reply EXCEPT ![c] = r]

Goto(c, l) ==
  /\ stage' = [stage EXCEPT ![c] = l]
  /\ UNCHANGED <<key, quota, reply>>

\* _enforce_chat_quota reads the tier; an unlimited one skips Redis.
Admit(c) ==
  /\ stage[c] = "idle"
  /\ reply' = [reply EXCEPT ![c] = "none"]
  /\ \/ /\ tier \in Limited
        /\ stage' = [stage EXCEPT ![c] = "get"]
        /\ key' = [key EXCEPT ![c] = today]
        /\ quota' = [quota EXCEPT ![c] = Limit[tier]]
     \/ /\ tier \notin Limited
        /\ stage' = [stage EXCEPT ![c] = "retrieve"]
        /\ UNCHANGED <<key, quota>>
  /\ UNCHANGED <<today, tier, redisVars, tools, granted>>

\* Mutant: the comparison lets the request through when the limit is used up.
CheckOffByOne(c) ==
  /\ stage[c] = "get"
  /\ IF count[key[c]] <= quota[c]
       THEN Goto(c, "incr") /\ UNCHANGED tools
       ELSE End(c, "over_quota")
  /\ UNCHANGED <<today, tier, redisVars, granted>>

\* GET, and the comparison with what it returned.
Check(c) ==
  /\ stage[c] = "get"
  /\ \/ count[key[c]] < quota[c] /\ Goto(c, "incr") /\ UNCHANGED tools
     \/ count[key[c]] >= quota[c] /\ End(c, "over_quota")
  /\ UNCHANGED <<today, tier, redisVars, granted>>

Increment(c) ==
  /\ stage[c] = "incr"
  /\ count' = [count EXCEPT ![key[c]] = @ + 1]
  /\ granted' = [granted EXCEPT ![key[c]] = @ + 1]
  /\ Goto(c, "expire")
  /\ UNCHANGED <<today, tier, armed, tools>>

\* EXPIRE; the key is still there, no request of that day being left behind.
Arm(c) ==
  /\ stage[c] = "expire"
  /\ armed' = armed \cup {key[c]}
  /\ Goto(c, "retrieve")
  /\ UNCHANGED <<today, tier, count, tools, granted>>

\* A command raises, INCR possibly after it took effect: nothing catches it.
RedisError(c) ==
  /\ "redis" \in Faulty
  /\ stage[c] \in Charging
  /\ \/ UNCHANGED count
     \/ stage[c] = "incr" /\ count' = [count EXCEPT ![key[c]] = @ + 1]
  /\ End(c, "server_error")
  /\ UNCHANGED <<today, tier, armed, granted>>
-----------------------------------------------------------------------------
(* Streaming.                                                              *)

\* retrieve_patents runs before the try block: its error cuts the stream.
Retrieve(c) ==
  /\ stage[c] = "retrieve"
  /\ \/ Goto(c, "model") /\ UNCHANGED tools
     \/ "database" \in Faulty /\ End(c, "cut_short")
  /\ UNCHANGED <<today, tier, redisVars, granted>>

\* Mutant: the counter starts again with every resumed stream.
CallToolUncounted(c) ==
  /\ stage[c] = "model"
  /\ tools' = [tools EXCEPT ![c] = 1]
  /\ Goto(c, "tool")
  /\ UNCHANGED <<today, tier, redisVars, granted>>

\* Mutant: the limit is not enforced.
CallToolUncapped(c) ==
  /\ stage[c] = "model"
  /\ tools' = [tools EXCEPT ![c] = @ + 1]
  /\ Goto(c, "tool")
  /\ UNCHANGED <<today, tier, redisVars, granted>>

\* A tool_use event: the stream is left and the tool runs, within the limit.
CallTool(c) ==
  /\ stage[c] = "model"
  /\ \/ /\ tools[c] + 1 <= MaxTools
        /\ tools' = [tools EXCEPT ![c] = @ + 1]
        /\ Goto(c, "tool")
     \/ /\ tools[c] + 1 > MaxTools
        /\ End(c, "capped")
  /\ UNCHANGED <<today, tier, redisVars, granted>>

\* The result, or the error it is turned into, resumes the conversation.
ToolResult(c) ==
  /\ stage[c] = "tool"
  /\ Goto(c, "model")
  /\ UNCHANGED <<today, tier, redisVars, tools, granted>>

\* The stream ends without a tool call: citations, sources, done.
AnswerTurn(c) ==
  /\ stage[c] = "model"
  /\ End(c, "answered")
  /\ UNCHANGED <<today, tier, redisVars, granted>>

ProviderError(c) ==
  /\ "provider" \in Faulty
  /\ stage[c] \in {"model", "tool"}
  /\ End(c, "apology")
  /\ UNCHANGED <<today, tier, redisVars, granted>>

\* The client goes away or the process dies, between any two awaits.
Drop(c) ==
  /\ "client" \in Faulty
  /\ stage[c] # "idle"
  /\ End(c, "dropped")
  /\ UNCHANGED <<today, tier, redisVars, granted>>
-----------------------------------------------------------------------------
(* Environment: the calendar, Redis expiry and the billing webhooks.       *)

Midnight ==
  /\ today < MaxDay
  /\ today' = today + 1
  /\ UNCHANGED <<tier, redisVars, connVars, granted>>

\* A day after the last EXPIRE, when no request of that day is left.
Lapse(d) ==
  /\ d \in armed
  /\ d < today
  /\ Holders(d) = {}
  /\ count' = [count EXCEPT ![d] = 0]
  /\ armed' = armed \ {d}
  /\ UNCHANGED <<today, tier, connVars, granted>>

ChangeTier ==
  /\ tier' \in ChatTiers \ {tier}
  /\ UNCHANGED <<today, redisVars, connVars, granted>>

Charge(c) == Check(c) \/ Increment(c) \/ Arm(c)
Turn(c)   == Retrieve(c) \/ CallTool(c) \/ ToolResult(c) \/ AnswerTurn(c)
Fault(c)  == RedisError(c) \/ ProviderError(c) \/ Drop(c)

TurnNext ==
  \/ \E c \in Conns : Admit(c) \/ Charge(c) \/ Turn(c) \/ Fault(c)
  \/ \E d \in Days : Lapse(d)
  \/ Midnight
  \/ ChangeTier

TurnSpec == TurnInit /\ [][TurnNext]_turnVars

\* The event loop resumes every coroutine, and every awaited call of Redis,
\* PostgreSQL and the provider returns or times out.
FairTurnSpec == TurnSpec /\ \A c \in Conns : WF_turnVars(Charge(c) \/ Turn(c))
-----------------------------------------------------------------------------
(* Properties.                                                             *)

\* The declared types.
TurnTypeOK ==
  /\ today \in Days
  /\ tier \in ChatTiers
  /\ count \in [Days -> Nat]
  /\ armed \in SUBSET Days
  /\ stage \in [Conns -> {"idle"} \cup Charging \cup Streaming]
  /\ key \in [Conns -> Days]
  /\ quota \in [Conns -> Nat]
  /\ tools \in [Conns -> 0..MaxTools]
  /\ reply \in [Conns -> Replies]
  /\ granted \in [Days -> Nat]

\* The check and the increment are two commands, so requests that interleave
\* overshoot the limit; but each request passes its check once, and the turns
\* granted on one day exceed the largest limit by at most one per request
\* open at a time, short of one, through midnight, lapses and tier changes.
OvershootIsBounded ==
  \A d \in Days : granted[d] > 0 =>
    \E t \in Limited : granted[d] <= Limit[t] + Cardinality(Conns) - 1

\* What the comments of check_and_increment promise: the check before the
\* increment keeps the turns granted on one day within the largest limit.
\* The two commands may interleave, so TLC finds this violated.
QuotaIsNotExceeded ==
  \A d \in Days : granted[d] > 0 =>
    \E t \in Limited : granted[d] <= Limit[t]

\* A turn ends whatever the model does: it cannot call tools for ever.
TurnsEnd == \A c \in Conns : (stage[c] # "idle") ~> (stage[c] = "idle")
=============================================================================
