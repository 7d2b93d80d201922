----------------------------- MODULE ModelRouter -----------------------------
(***************************************************************************)
(* The agents of one run share one ModelRouter: its health records         *)
(* (routing/health.py), its fallback engine (routing/fallback.py) and its  *)
(* request budget (routing/budgets.py, reset and checked by agent/loop.py). *)
(*                                                                         *)
(* asyncio runs an agent from one suspension to the next.  A request       *)
(* suspends while the model list is refreshed, while a provider works and  *)
(* while it backs off; everything between two suspensions is one action.   *)
(***************************************************************************)
EXTENDS ModelHealth, FiniteSets

CONSTANTS
  Agent, Provider,
  Model,            \* the models that meet the requirements of the requests
  ProviderOf,       \* the provider of each model
  Pinnable,         \* the models a user may pin
  ChainLimit,       \* max_fallback_chain
  MaxRetries,       \* RetryConfig.max_retries
  AttemptTimeout,   \* model_attempt_timeout_seconds
  TotalTimeout,     \* total_timeout_seconds
  MaxBackoff,       \* the longest sleep before a retry, in ticks
  Reply,            \* the replies of providers that a run considers
  Hints,            \* the Retry-After values providers send, 0 for none
  MaxTokens,        \* BudgetConfig.max_tokens
  MaxUse            \* the tokens of one response

(* What classify_error makes of the answer of a provider: "ignored" is a   *)
(* response without the tool calls the task needs, "quota" a rate limit of *)
(* the whole account, "transient" a network or server error.               *)
AllReplies == {"ok", "ignored", "rate_limit", "quota", "unavailable", "permission", "overflow",
               "auth", "payment", "client", "timeout", "transient", "unknown"}

ASSUME RouterAssumption ==
  /\ IsFiniteSet(Agent) /\ IsFiniteSet(Model)
  /\ ProviderOf \in [Model -> Provider]
  /\ Pinnable \subseteq Model
  /\ ChainLimit \in Nat \ {0}
  /\ MaxRetries \in Nat /\ AttemptTimeout \in Nat \ {0} /\ TotalTimeout \in Nat /\ MaxBackoff \in Nat
  /\ MaxTokens \in Nat /\ MaxUse \in Nat
  /\ Hints \subseteq Nat /\ Reply \subseteq AllReplies

VARIABLES
  health,    \* ModelHealthTracker._states
  request,   \* the request of each agent
  used,      \* tokens counted by the shared BudgetManager
  running    \* the agents inside AgentLoop.run

vars == <<health, request, used, running>>

Phase == {"idle", "selecting", "calling", "backoff"}
Ending == {"ok", "failed"}

(* at is model_idx, tries is retry_attempt, age the time since             *)
(* overall_start, waited the time in the present call or sleep, exhausted  *)
(* the providers without quota, and ending how the last request ended.     *)
NoRequest == [phase |-> "idle", chain |-> <<>>, at |-> 0, tries |-> 0, age |-> 0, waited |-> 0,
              exhausted |-> {}, ending |-> "ok"]
GivenUp == [NoRequest EXCEPT !.ending = "failed"]

Active(a) == request[a].phase \in {"calling", "backoff"}
Target(a) == request[a].chain[request[a].at]

Init ==
  /\ health = [m \in Model |-> NewState]
  /\ request = [a \in Agent |-> NoRequest]
  /\ used = 0
  /\ running = {}
-----------------------------------------------------------------------------
(* The budget, and what the loop does with it *)

(* Mutant of WithinBudget: one more response is let through. *)
WithinBudget_OneMore == used <= MaxTokens + MaxUse

WithinBudget == used <= MaxTokens

(* AgentLoop.run: the budget object is the router's, and it is reset *)
StartTask(a) ==
  /\ a \notin running
  /\ running' = running \cup {a}
  /\ used' = 0
  /\ request' = [request EXCEPT ![a] = NoRequest]
  /\ UNCHANGED health

(* The next iteration: check_all() and then router.execute(). *)
Ask(a) ==
  /\ a \in running /\ request[a].phase = "idle"
  /\ WithinBudget
  /\ request' = [request EXCEPT ![a] = [NoRequest EXCEPT !.phase = "selecting"]]
  /\ UNCHANGED <<health, used, running>>

(* The task is done, or its budget is used up, or it is cancelled. *)
EndTask(a) ==
  /\ a \in running
  /\ running' = running \ {a}
  /\ request' = [request EXCEPT ![a] = NoRequest]
  /\ UNCHANGED <<health, used>>

(* A failed request ends the task, paused or failed, unless it was the one *)
(* that asks for a plan.                                                   *)
Failed(req) == req.phase = "idle" /\ req.ending # "ok"
Settle(a, req) ==
  /\ request' = [request EXCEPT ![a] = req]
  /\ running' \in {running} \cup (IF Failed(req) THEN {running \ {a}} ELSE {})
-----------------------------------------------------------------------------
(* The loop over the chain *)

(* Mutant of Usable: the chain is trusted as it was selected. *)
Usable_NoRecheck(req, h, j) == ProviderOf[req.chain[j]] \notin req.exhausted

Usable(req, h, j) == ProviderOf[req.chain[j]] \notin req.exhausted /\ Healthy(h[req.chain[j]])

Call(req, j) == [req EXCEPT !.phase = "calling", !.at = j, !.tries = 0, !.waited = 0]

(* From model i on: time check, then skip what is exhausted or not healthy. *)
TryFrom(req, h, i) ==
  LET usable == {j \in i..Len(req.chain) : Usable(req, h, j)} IN
  IF i <= Len(req.chain) /\ req.age > TotalTimeout THEN GivenUp
  ELSE IF usable = {} THEN GivenUp
  ELSE Call(req, CHOOSE j \in usable : \A k \in usable : j <= k)

(* Mutant of TryAgain: the retry loop forgets the total timeout. *)
TryAgain_NoClock(req, h) ==
  IF req.tries = MaxRetries THEN TryFrom(req, h, req.at + 1)
  ELSE [req EXCEPT !.phase = "calling", !.tries = @ + 1, !.waited = 0]

(* The next round of the retry loop on the same model: no health check. *)
TryAgain(req, h) ==
  IF req.tries = MaxRetries THEN TryFrom(req, h, req.at + 1)
  ELSE IF req.age > TotalTimeout THEN GivenUp
  ELSE [req EXCEPT !.phase = "calling", !.tries = @ + 1, !.waited = 0]

(* select_models: a pinned model; or the healthy ones; or any when none is *)
(* healthy, and none at all in free mode.  Scores decide the order, and    *)
(* which are taken beyond max_fallback_chain for the sake of free models   *)
(* and of other providers.                                                 *)
Orders(S) ==
  {c \in UNION {[1..n -> S] : n \in AtMost(ChainLimit, Cardinality(S))..Cardinality(S)} :
     \A i, j \in DOMAIN c : c[i] = c[j] => i = j}
Chains ==
  LET healthy == {m \in Model : Healthy(health[m])} IN
  {<<m>> : m \in Pinnable} \cup IF healthy # {} THEN Orders(healthy) ELSE Orders(Model) \cup {<<>>}

Select(a) ==
  /\ request[a].phase = "selecting"
  /\ \E chain \in Chains :
       Settle(a, TryFrom([request[a] EXCEPT !.chain = chain], health, 1))
  /\ UNCHANGED <<health, used>>
-----------------------------------------------------------------------------
(* What comes back from a provider *)

EventOf(reply) ==
  CASE reply \in {"rate_limit", "quota"} -> "rate_limit"
    [] reply \in {"unavailable", "transient"} -> "server_error"
    [] reply \in {"permission", "auth"} -> "auth_failed"
    [] reply = "payment" -> "payment_required"
    [] reply = "client" -> "client_error"
    [] reply = "timeout" -> "timeout"
    [] reply = "unknown" -> "invalid_response"

(* The hint is passed on for rate limits and temporary failures only. *)
HintsOf(reply) ==
  IF reply \in {"rate_limit", "quota", "unavailable", "transient", "timeout"} THEN Hints ELSE {0}

Judged(h, reply, hint) ==
  CASE reply = "ok" -> AfterSuccess(h)
    [] reply = "ignored" -> AfterNoToolUse(AfterSuccess(h))
    [] reply = "overflow" -> h
    [] OTHER -> AfterFailure(h, EventOf(reply), hint)

Succeeds(a, reply) ==
  /\ reply \in {"ok", "ignored"}
  /\ Settle(a, NoRequest)
  /\ used' = used + MaxUse

Fails(reply) == reply \notin {"ok", "ignored"}

(* Other models of the chain are left whose provider still has quota. *)
Elsewhere(req) ==
  \E j \in (req.at + 1)..Len(req.chain) :
    ProviderOf[req.chain[j]] \notin req.exhausted \cup {ProviderOf[req.chain[req.at]]}

Exhausts(req) == [req EXCEPT !.exhausted = @ \cup {ProviderOf[req.chain[req.at]]}]

AfterError(req, h, reply) ==
  CASE reply \in {"rate_limit", "permission", "overflow", "payment", "timeout"} -> TryFrom(req, h, req.at + 1)
    [] reply = "quota" -> IF Elsewhere(req) THEN TryFrom(Exhausts(req), h, req.at + 1) ELSE GivenUp
    [] reply = "unavailable" -> TryAgain(req, h)
    [] reply = "transient" -> IF req.tries < MaxRetries THEN [req EXCEPT !.phase = "backoff", !.waited = 0]
                              ELSE TryFrom(req, h, req.at + 1)
    [] reply \in {"auth", "client", "unknown"} -> GivenUp

(* One answer, an error or wait_for running out; a timeout may also be     *)
(* what the provider itself reports.                                       *)
Answered(a) ==
  /\ request[a].phase = "calling"
  /\ \E reply \in Reply : \E hint \in HintsOf(reply) :
       /\ health' = [health EXCEPT ![Target(a)] = Judged(@, reply, hint)]
       /\ \/ Succeeds(a, reply)
          \/ /\ Fails(reply)
             /\ Settle(a, AfterError(request[a], health', reply))
             /\ UNCHANGED used

BackoffEnds(a) ==
  /\ request[a].phase = "backoff"
  /\ Settle(a, TryAgain(request[a], health))
  /\ UNCHANGED <<health, used>>
-----------------------------------------------------------------------------
(* A tick: no call outlives its timeout, no sleep its delay. *)
MayWait(a) ==
  CASE request[a].phase = "calling" -> request[a].waited < AttemptTimeout
    [] request[a].phase = "backoff" -> request[a].waited < MaxBackoff
    [] OTHER -> TRUE

Tick ==
  /\ \A a \in Agent : MayWait(a)
  /\ health' = [m \in Model |-> Elapse(health[m])]
  /\ request' = [a \in Agent |-> IF Active(a) THEN [request[a] EXCEPT !.age = @ + 1, !.waited = @ + 1]
                                 ELSE request[a]]
  /\ UNCHANGED <<used, running>>

Next ==
  \/ \E a \in Agent : StartTask(a) \/ Ask(a) \/ EndTask(a) \/ Select(a) \/ Answered(a) \/ BackoffEnds(a)
  \/ Tick

Spec == Init /\ [][Next]_vars
-----------------------------------------------------------------------------
(* Properties *)

RequestType ==
  [phase : Phase, chain : Seq(Model), at : Nat, tries : 0..MaxRetries, age : Nat, waited : Nat,
   exhausted : SUBSET Provider, ending : Ending]

(* Types, and that a request in progress points at a model of its chain.    *)
RouterTypeOK ==
  /\ health \in [Model -> ModelHealthState]
  /\ request \in [Agent -> RequestType]
  /\ used \in Nat /\ running \subseteq Agent
  /\ \A a \in Agent : Active(a) => request[a].at \in 1..Len(request[a].chain)
  /\ \A a \in Agent : request[a].phase # "idle" => a \in running

(* A first call to a model, as opposed to a retry. *)
Starts(a) ==
  /\ request'[a].phase = "calling" /\ request'[a].tries = 0 /\ request'[a].waited = 0
  /\ request[a].phase = "calling" => request[a].at # request'[a].at

(* No request turns to a model while a cooldown of it is active, whoever    *)
(* caused the cooldown and however long ago the chain was selected          *)
(* (fallback.py:329); also where is_healthy() looks at the no-tool window   *)
(* alone (health.py:161).                                                  *)
CooldownIsRespected ==
  [][\A a \in Agent : Starts(a) => health'[request'[a].chain[request'[a].at]].cooldown = 0]_vars

(* However the attempts, timeouts, sleeps and failovers of a request fall,  *)
(* the agent waits at most one attempt and one sleep longer than the total  *)
(* timeout, which is only looked at between attempts.                      *)
AnswersInTime ==
  \A a \in Agent : Active(a) => request[a].age <= TotalTimeout + AttemptTimeout + MaxBackoff

(* The budget is checked before a request and charged after it: with        *)
(* several agents it can be passed, but by one response of each at most.   *)
SpendIsBounded ==
  LET asking == {a \in Agent : request[a].phase # "idle"} IN
  used + MaxUse * Cardinality(asking) <= MaxTokens + MaxUse * Cardinality(Agent)
=============================================================================
