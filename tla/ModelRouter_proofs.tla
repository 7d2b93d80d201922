------------------------ MODULE ModelRouter_proofs ------------------------
(* The router for any number of agents, models, providers, retries and ticks: *)
(* IInv is inductive.                                                        *)
EXTENDS ModelRouter, FiniteSetTheorems, SequenceTheorems, WellFoundedInduction, TLAPS

(* A call is never older than the total timeout and its own duration: the   *)
(* clock is looked at when it starts.  A sleep adds to the attempt before.  *)
Timed(req) ==
  /\ req.phase = "calling" => req.age <= TotalTimeout + req.waited /\ req.waited <= AttemptTimeout
  /\ req.phase = "backoff" =>
       req.age <= TotalTimeout + AttemptTimeout + req.waited /\ req.waited <= MaxBackoff
ClockIsWatched == \A a \in Agent : Timed(request[a])

(* is_healthy() may look at the no-tool window alone, because the success   *)
(* that came with the ignored tools has just ended the cooldown.            *)
Uncooled(h) == h.status = "no_tool" => h.cooldown = 0
NoToolHasNoCooldown == \A m \in Model : Uncooled(health[m])

IInv == RouterTypeOK /\ ClockIsWatched /\ NoToolHasNoCooldown /\ SpendIsBounded
-----------------------------------------------------------------------------
(* Health records *)

\* The exponential window is a number of ticks.
LEMMA WindowType == ASSUME NEW n \in Nat PROVE Window(n) \in Nat
<1>1. AtMost(n, 4) + 1 \in 1..5
  BY DEF AtMost
<1>2. <<1, 2, 4, 8, 16>>[AtMost(n, 4) + 1] \in Nat
  BY <1>1
<1>3. BaseCooldown * <<1, 2, 4, 8, 16>>[AtMost(n, 4) + 1] \in Nat
  BY <1>2, HealthAssumption
<1>4. QED
  BY <1>3, HealthAssumption DEF Window, AtMost

\* record_failure keeps the record well formed, and leaves no model that
\* ignored its tools with a cooldown.
LEMMA FailureKeeps ==
  ASSUME NEW h \in ModelHealthState, Uncooled(h), NEW event \in HealthEvent, NEW hint \in Nat
  PROVE  AfterFailure(h, event, hint) \in ModelHealthState /\ Uncooled(AfterFailure(h, event, hint))
<1> DEFINE failed == [h EXCEPT !.failures = AtMost(@ + 1, FailureLimit)]
           hits == AtMost(h.hits + 1, HitLimit)
           limited == [Enter(failed, "rate_limited", Window(hits - 1)) EXCEPT !.hits = hits]
           Cool(g, window) == [g EXCEPT !.cooldown = AtLeast(@, IF hint > 0 THEN hint ELSE window)]
<1>1. failed \in ModelHealthState /\ failed.failures > 0 /\ Uncooled(failed)
  <2>1. AtMost(h.failures + 1, FailureLimit) \in 1..FailureLimit
    BY HealthAssumption DEF ModelHealthState, AtMost
  <2>2. QED
    BY <2>1, HealthAssumption DEF ModelHealthState, Uncooled
<1>2. hits \in 1..HitLimit
  BY HealthAssumption DEF ModelHealthState, AtMost
<1>3. \A g \in ModelHealthState, w \in Nat : Cool(g, w) \in ModelHealthState /\ Cool(g, w).status = g.status
  <2>1. \A n, w \in Nat : AtLeast(n, IF hint > 0 THEN hint ELSE w) \in Nat
    BY DEF AtLeast
  <2>2. QED
    BY <2>1 DEF ModelHealthState
<1>4. \A g \in ModelHealthState, s \in HealthStatus, w \in Nat :
         Enter(g, s, w) \in ModelHealthState /\ Enter(g, s, w).status = s
  BY DEF ModelHealthState, Enter
<1>5. \A g \in ModelHealthState, n \in 0..HitLimit :
         [g EXCEPT !.hits = n] \in ModelHealthState /\ [g EXCEPT !.hits = n].status = g.status
  BY DEF ModelHealthState
<1>6. AfterFailure(h, event, hint) =
        CASE event = "rate_limit" -> Cool(limited, Window(hits - 1))
          [] event \in TemporaryEvent -> Cool(Enter(failed, "open", 0), Window(failed.failures - 1))
          [] event = "client_error" -> failed
          [] event \in {"auth_failed", "payment_required"} -> Enter(failed, "unavailable", 0)
  BY Zenon DEF AfterFailure
<1>7. limited \in ModelHealthState /\ limited.status = "rate_limited" /\ Window(hits - 1) \in Nat
  <2>1. Window(hits - 1) \in Nat
    BY <1>2, WindowType, HealthAssumption
  <2> HIDE DEF failed, hits
  <2>2. Enter(failed, "rate_limited", Window(hits - 1)) \in ModelHealthState
        /\ Enter(failed, "rate_limited", Window(hits - 1)).status = "rate_limited"
    BY <1>1, <1>4, <2>1 DEF HealthStatus
  <2>3. hits \in 0..HitLimit
    BY <1>2, HealthAssumption
  <2>4. QED
    BY <1>5, <2>1, <2>2, <2>3
<1>8. Window(failed.failures - 1) \in Nat
  <2>1. failed.failures - 1 \in Nat
    BY <1>1, HealthAssumption DEF ModelHealthState
  <2>2. QED
    BY <2>1, WindowType
<1> HIDE DEF failed, hits, limited, Cool
<1>9. CASE event = "rate_limit"
  <2>1. AfterFailure(h, event, hint) = Cool(limited, Window(hits - 1))
    BY <1>6, <1>9 DEF TemporaryEvent
  <2>2. QED
    BY <1>3, <1>7, <2>1 DEF Uncooled
<1>10. CASE event \in TemporaryEvent
  <2>1. AfterFailure(h, event, hint) = Cool(Enter(failed, "open", 0), Window(failed.failures - 1))
    BY <1>6, <1>10 DEF TemporaryEvent
  <2>2. Enter(failed, "open", 0) \in ModelHealthState /\ Enter(failed, "open", 0).status = "open"
    BY <1>1, <1>4 DEF HealthStatus
  <2>3. QED
    BY <1>3, <1>8, <2>1, <2>2 DEF Uncooled
<1>11. CASE event = "client_error"
  <2>1. AfterFailure(h, event, hint) = failed
    BY <1>6, <1>11 DEF TemporaryEvent
  <2>2. QED
    BY <1>1, <2>1
<1>12. CASE event \in {"auth_failed", "payment_required"}
  <2>1. AfterFailure(h, event, hint) = Enter(failed, "unavailable", 0)
    BY <1>6, <1>12 DEF TemporaryEvent
  <2>2. Enter(failed, "unavailable", 0) \in ModelHealthState /\ Enter(failed, "unavailable", 0).status = "unavailable"
    BY <1>1, <1>4 DEF HealthStatus
  <2>3. QED
    BY <2>1, <2>2 DEF Uncooled
<1>13. QED
  BY <1>9, <1>10, <1>11, <1>12 DEF HealthEvent

\* What a provider's answer does to a record keeps it well formed.
LEMMA JudgedKeeps ==
  ASSUME NEW h \in ModelHealthState, Uncooled(h), NEW reply \in AllReplies, NEW hint \in Nat
  PROVE  Judged(h, reply, hint) \in ModelHealthState /\ Uncooled(Judged(h, reply, hint))
<1>1. AfterSuccess(h) \in ModelHealthState /\ Uncooled(AfterSuccess(h)) /\ AfterSuccess(h).cooldown = 0
  <2>1. Enter(h, "open", 0) \in ModelHealthState /\ Enter(h, "open", 0).status = "open"
    BY DEF ModelHealthState, Enter, HealthStatus
  <2>2. 0 \in 0..FailureLimit
    BY HealthAssumption
  <2>3. \A g \in ModelHealthState :
           /\ [g EXCEPT !.cooldown = 0, !.failures = 0] \in ModelHealthState
           /\ [g EXCEPT !.cooldown = 0, !.failures = 0].status = g.status
           /\ [g EXCEPT !.cooldown = 0, !.failures = 0].cooldown = 0
    BY <2>2 DEF ModelHealthState
  <2>4. QED
    BY <2>1, <2>3 DEF AfterSuccess, Uncooled
<1>2. AfterNoToolUse(AfterSuccess(h)) \in ModelHealthState /\ Uncooled(AfterNoToolUse(AfterSuccess(h)))
  BY <1>1, HealthAssumption DEF ModelHealthState, AfterNoToolUse, Enter, Uncooled, HealthStatus
<1>3. CASE reply \in {"ok", "ignored", "overflow"}
  BY <1>1, <1>2, <1>3 DEF Judged
<1>4. CASE reply \notin {"ok", "ignored", "overflow"}
  <2>1. EventOf(reply) \in HealthEvent
    BY <1>4 DEF AllReplies, EventOf, HealthEvent, TemporaryEvent
  <2>2. Judged(h, reply, hint) = AfterFailure(h, EventOf(reply), hint)
    BY <1>4 DEF Judged
  <2>3. QED
    BY <2>1, <2>2, FailureKeeps
<1>5. QED
  BY <1>3, <1>4

\* A tick keeps a record well formed.
LEMMA ElapseKeeps ==
  ASSUME NEW h \in ModelHealthState, Uncooled(h)
  PROVE  Elapse(h) \in ModelHealthState /\ Uncooled(Elapse(h))
<1>1. \A n \in Nat : OneLess(n) \in Nat /\ (n = 0 => OneLess(n) = 0)
  BY DEF OneLess
<1>2. QED
  BY <1>1 DEF ModelHealthState, Elapse, Uncooled

\* A model the router takes for healthy is not cooling down.
LEMMA HealthyIsCool ==
  ASSUME NEW h \in ModelHealthState, Uncooled(h), Healthy(h)
  PROVE  h.cooldown = 0
BY DEF ModelHealthState, Healthy, Uncooled, HealthStatus
-----------------------------------------------------------------------------
(* Requests *)

(* What a request is once its next model is chosen: given up, or calling a  *)
(* model of its chain in time, and a healthy one unless it is a retry.      *)
Proceeds(req, h) ==
  /\ req \in RequestType
  /\ req.phase \in {"idle", "calling"}
  /\ req.phase = "calling" =>
       /\ req.at \in 1..Len(req.chain)
       /\ req.age <= TotalTimeout /\ req.waited = 0
       /\ req.tries = 0 => Healthy(h[req.chain[req.at]])

\* A set of positions that is not empty has a first one.
LEMMA FirstPosition == ASSUME NEW S \in SUBSET Nat, S # {} PROVE \E j \in S : \A k \in S : j <= k
<1>1. PICK j \in S : \A k \in S : <<k, j>> \notin OpToRel(<, Nat)
  BY NatLessThanWellFounded, WFMin
<1>2. \A k \in S : ~(k < j)
  BY <1>1 DEF OpToRel
<1>3. QED
  BY <1>2

\* The two ways a request ends are requests.
LEMMA EndedRequests == NoRequest \in RequestType /\ GivenUp \in RequestType
                       /\ NoRequest.phase = "idle" /\ GivenUp.phase = "idle"
<1>1. <<>> \in Seq(Model)
  BY EmptySeq
<1>2. 0 \in 0..MaxRetries
  BY RouterAssumption
<1>3. NoRequest \in RequestType /\ NoRequest.phase = "idle"
  BY <1>1, <1>2 DEF RequestType, NoRequest, Phase, Ending
<1>4. QED
  BY <1>3 DEF RequestType, GivenUp, Ending

\* The loop over the chain ends on a healthy model, in time, or gives up.
LEMMA TryFromProceeds ==
  ASSUME NEW req \in RequestType, NEW h, NEW i \in Nat \ {0}
  PROVE  Proceeds(TryFrom(req, h, i), h)
<1> DEFINE usable == {j \in i..Len(req.chain) : Usable(req, h, j)}
<1>1. req.chain \in Seq(Model) /\ Len(req.chain) \in Nat /\ req.age \in Nat
  BY LenProperties DEF RequestType
<1>2. CASE (i <= Len(req.chain) /\ req.age > TotalTimeout) \/ usable = {}
  <2>1. TryFrom(req, h, i) = GivenUp
    BY <1>2 DEF TryFrom
  <2>2. QED
    BY <2>1, EndedRequests DEF Proceeds
<1>3. CASE ~(i <= Len(req.chain) /\ req.age > TotalTimeout) /\ usable # {}
  <2> DEFINE first == CHOOSE j \in usable : \A k \in usable : j <= k
  <2>1. usable \in SUBSET Nat
    BY <1>1
  <2>2. first \in usable
    <3> HIDE DEF usable
    <3>1. QED
      BY <1>3, <2>1, FirstPosition
  <2>3. TryFrom(req, h, i) = Call(req, first)
    BY <1>3 DEF TryFrom
  <2> HIDE DEF first
  <2>4. first \in Nat /\ first \in 1..Len(req.chain) /\ Healthy(h[req.chain[first]])
    BY <1>1, <2>2 DEF Usable
  <2>5. req.age <= TotalTimeout
    BY <1>1, <1>3, <2>2, RouterAssumption
  <2>6. Call(req, first) \in RequestType
    <3>1. 0 \in 0..MaxRetries
      BY RouterAssumption
    <3>2. QED
      BY <2>4, <3>1 DEF Call, RequestType, Phase
  <2>7. /\ Call(req, first).phase = "calling" /\ Call(req, first).at = first
        /\ Call(req, first).chain = req.chain /\ Call(req, first).age = req.age
        /\ Call(req, first).waited = 0
    BY DEF Call, RequestType
  <2>8. QED
    BY <2>3, <2>4, <2>5, <2>6, <2>7 DEF Proceeds
<1>4. QED
  BY <1>2, <1>3

\* So does the retry loop, which asks the same model again without a look at
\* its health.
LEMMA TryAgainProceeds ==
  ASSUME NEW req \in RequestType, NEW h, req.at \in 1..Len(req.chain)
  PROVE  Proceeds(TryAgain(req, h), h)
<1>1. req.chain \in Seq(Model) /\ Len(req.chain) \in Nat /\ req.age \in Nat /\ req.tries \in 0..MaxRetries
  BY LenProperties DEF RequestType
<1>2. CASE req.tries = MaxRetries
  <2>1. req.at + 1 \in Nat \ {0}
    BY <1>1
  <2>2. QED
    BY <1>2, <2>1, TryFromProceeds DEF TryAgain
<1>3. CASE req.tries # MaxRetries /\ req.age > TotalTimeout
  BY <1>3, EndedRequests DEF TryAgain, Proceeds
<1>4. CASE req.tries # MaxRetries /\ ~(req.age > TotalTimeout)
  <2> DEFINE next == [req EXCEPT !.phase = "calling", !.tries = @ + 1, !.waited = 0]
  <2>1. TryAgain(req, h) = next
    BY <1>4 DEF TryAgain
  <2>2. req.tries + 1 \in 1..MaxRetries /\ req.age <= TotalTimeout
    BY <1>1, <1>4, RouterAssumption
  <2>3. next \in RequestType
    <3>1. req.tries + 1 \in 0..MaxRetries
      BY <2>2
    <3>2. QED
      BY <3>1 DEF RequestType, Phase
  <2>4. /\ next.phase = "calling" /\ next.at = req.at /\ next.chain = req.chain
        /\ next.age = req.age /\ next.waited = 0 /\ next.tries = req.tries + 1
    BY DEF RequestType
  <2> HIDE DEF next
  <2>5. QED
    BY <2>1, <2>2, <2>3, <2>4 DEF Proceeds
<1>5. QED
  BY <1>2, <1>3, <1>4

(* After an error the request goes on, or sleeps before it asks again. *)
GoesOn(req, old, h) ==
  \/ Proceeds(req, h)
  \/ /\ req \in RequestType /\ req.phase = "backoff"
     /\ req.at = old.at /\ req.chain = old.chain /\ req.age = old.age /\ req.waited = 0

\* Every kind of error leads to a sleep or to what the two loops choose.
LEMMA ErrorGoesOn ==
  ASSUME NEW req \in RequestType, NEW h, req.at \in 1..Len(req.chain),
         NEW reply \in AllReplies, Fails(reply)
  PROVE  GoesOn(AfterError(req, h, reply), req, h)
<1>1. req.chain \in Seq(Model) /\ req.at + 1 \in Nat \ {0}
  BY LenProperties DEF RequestType
<1>2. CASE reply \in {"rate_limit", "permission", "overflow", "payment", "timeout"}
  <2>1. AfterError(req, h, reply) = TryFrom(req, h, req.at + 1)
    BY <1>2 DEF AfterError
  <2>2. QED
    BY <1>1, <2>1, TryFromProceeds DEF GoesOn
<1>3. CASE reply = "quota" /\ Elsewhere(req)
  <2>1. Exhausts(req) \in RequestType
    <3>1. ProviderOf[req.chain[req.at]] \in Provider
      BY <1>1, ElementOfSeq, RouterAssumption
    <3>2. QED
      BY <3>1 DEF RequestType, Exhausts
  <2>2. AfterError(req, h, reply) = TryFrom(Exhausts(req), h, req.at + 1)
    BY <1>3 DEF AfterError
  <2>3. QED
    BY <1>1, <2>1, <2>2, TryFromProceeds DEF GoesOn
<1>4. CASE (reply = "quota" /\ ~Elsewhere(req)) \/ reply \in {"auth", "client", "unknown"}
  <2>1. AfterError(req, h, reply) = GivenUp
    BY <1>4 DEF AfterError
  <2>2. QED
    BY <2>1, EndedRequests DEF GoesOn, Proceeds
<1>5. CASE reply = "unavailable"
  <2>1. AfterError(req, h, reply) = TryAgain(req, h)
    BY <1>5 DEF AfterError
  <2>2. QED
    BY <2>1, TryAgainProceeds DEF GoesOn
<1>6. CASE reply = "transient" /\ req.tries < MaxRetries
  <2> DEFINE slept == [req EXCEPT !.phase = "backoff", !.waited = 0]
  <2>1. AfterError(req, h, reply) = slept
    BY <1>6 DEF AfterError
  <2>2. /\ slept \in RequestType /\ slept.phase = "backoff" /\ slept.waited = 0
        /\ slept.at = req.at /\ slept.chain = req.chain /\ slept.age = req.age
    BY DEF RequestType, Phase
  <2>3. QED
    BY <2>1, <2>2 DEF GoesOn
<1>7. CASE reply = "transient" /\ ~(req.tries < MaxRetries)
  <2>1. AfterError(req, h, reply) = TryFrom(req, h, req.at + 1)
    BY <1>7 DEF AfterError
  <2>2. QED
    BY <1>1, <2>1, TryFromProceeds DEF GoesOn
<1>8. QED
  BY <1>2, <1>3, <1>4, <1>5, <1>6, <1>7 DEF AllReplies, Fails

\* Every chain select_models returns lists models.
LEMMA ChainType == ASSUME NEW chain \in Chains PROVE chain \in Seq(Model)
<1>1. \A S \in SUBSET Model : Orders(S) \subseteq Seq(Model)
  <2> SUFFICES ASSUME NEW S \in SUBSET Model, NEW c \in Orders(S) PROVE c \in Seq(Model)
    OBVIOUS
  <2>1. Cardinality(S) \in Nat
    BY RouterAssumption, FS_Subset, FS_CardinalityType
  <2>2. AtMost(ChainLimit, Cardinality(S)) \in Nat
    BY <2>1, RouterAssumption DEF AtMost
  <2>3. PICK n \in AtMost(ChainLimit, Cardinality(S))..Cardinality(S) : c \in [1..n -> S]
    BY DEF Orders
  <2>4. n \in Nat /\ c \in [1..n -> Model]
    BY <2>1, <2>2, <2>3
  <2>5. QED
    BY <2>4, SeqDef
<1>2. {<<m>> : m \in Pinnable} \cup {<<>>} \subseteq Seq(Model)
  <2>1. \A m \in Model : <<m>> \in Seq(Model)
    OBVIOUS
  <2>2. QED
    BY <2>1, RouterAssumption, EmptySeq
<1>3. {m \in Model : Healthy(health[m])} \in SUBSET Model
  OBVIOUS
<1>4. QED
  BY <1>1, <1>2, <1>3 DEF Chains
-----------------------------------------------------------------------------
(* Steps *)

Placed(req) == req.phase \in {"calling", "backoff"} => req.at \in 1..Len(req.chain)
RequestsOK ==
  /\ \A a \in Agent : Placed(request[a]) /\ (request[a].phase # "idle" => a \in running)
  /\ request \in [Agent -> RequestType] /\ running \subseteq Agent

\* A step of one agent that leaves its own request in order leaves all in
\* order, and starts no call for another agent.
LEMMA OneAgentMoves ==
  ASSUME RequestsOK, ClockIsWatched, NEW a \in Agent, NEW req \in RequestType, Placed(req), Timed(req),
         request' = [request EXCEPT ![a] = req],
         running' \subseteq Agent, running \ {a} \subseteq running', req.phase # "idle" => a \in running'
  PROVE  /\ RequestsOK' /\ ClockIsWatched'
         /\ request'[a] = req
         /\ \A b \in Agent \ {a} : request'[b] = request[b] /\ ~Starts(b)
<1>1. request'[a] = req /\ \A b \in Agent \ {a} : request'[b] = request[b]
  BY DEF RequestsOK
<1>2. RequestsOK'
  BY <1>1 DEF RequestsOK, Placed
<1>3. ClockIsWatched'
  BY <1>1 DEF ClockIsWatched, Timed
<1>4. QED
  BY <1>1, <1>2, <1>3 DEF Starts

\* What the loops choose is placed in its chain and in time.
LEMMA ProceedsInOrder ==
  ASSUME NEW req, NEW h, Proceeds(req, h)
  PROVE  req \in RequestType /\ Placed(req) /\ Timed(req)
BY RouterAssumption DEF Proceeds, Placed, Timed, RequestType

\* A request that settles after a call or a sleep stays in order, and a call
\* it starts is to a healthy model.
LEMMA SettleInOrder ==
  ASSUME RequestsOK, ClockIsWatched, NEW a \in Agent, a \in running, NEW req, Settle(a, req),
         \/ Proceeds(req, health')
         \/ request[a].phase = "calling" /\ GoesOn(req, request[a], health')
  PROVE  /\ RequestsOK' /\ ClockIsWatched' /\ request'[a] = req
         /\ \A b \in Agent : Starts(b) => Healthy(health'[request'[b].chain[request'[b].at]])
<1>1. req \in RequestType /\ Placed(req) /\ Timed(req)
  <2>1. CASE Proceeds(req, health')
    BY <2>1, ProceedsInOrder
  <2>2. CASE ~Proceeds(req, health')
    <3>1. request[a] \in RequestType /\ request[a].at \in 1..Len(request[a].chain)
          /\ request[a].age <= TotalTimeout + request[a].waited /\ request[a].waited <= AttemptTimeout
      BY <2>2 DEF RequestsOK, Placed, ClockIsWatched, Timed
    <3>2. request[a].age <= TotalTimeout + AttemptTimeout
      BY <3>1, RouterAssumption DEF RequestType
    <3>3. req \in RequestType /\ req.phase = "backoff" /\ Placed(req)
          /\ req.age = request[a].age /\ req.waited = 0
      BY <2>2, <3>1 DEF GoesOn, Placed
    <3>4. QED
      BY <3>2, <3>3, RouterAssumption DEF Timed
  <2>3. QED
    BY <2>1, <2>2
<1>2. /\ request' = [request EXCEPT ![a] = req] /\ running' \subseteq Agent /\ running \ {a} \subseteq running'
      /\ (req.phase # "idle" => a \in running')
  BY DEF Settle, Failed, RequestsOK
<1>3. /\ RequestsOK' /\ ClockIsWatched' /\ request'[a] = req
      /\ \A b \in Agent \ {a} : ~Starts(b)
  BY <1>1, <1>2, OneAgentMoves
<1>4. Starts(a) => Healthy(health'[request'[a].chain[request'[a].at]])
  BY <1>3 DEF Starts, GoesOn, Proceeds
<1>5. QED
  BY <1>3, <1>4

\* Every step keeps the health records well formed.
LEMMA HealthStep ==
  ASSUME RouterTypeOK, NoToolHasNoCooldown, [Next]_vars
  PROVE  health' \in [Model -> ModelHealthState] /\ NoToolHasNoCooldown'
<1>1. CASE health' = health
  BY <1>1 DEF RouterTypeOK, NoToolHasNoCooldown, Uncooled
<1>2. CASE Tick
  <2>1. \A m \in Model : Elapse(health[m]) \in ModelHealthState /\ Uncooled(Elapse(health[m]))
    BY ElapseKeeps DEF RouterTypeOK, NoToolHasNoCooldown
  <2>2. QED
    BY <1>2, <2>1 DEF Tick, NoToolHasNoCooldown
<1>3. ASSUME NEW a \in Agent, Answered(a)
      PROVE  health' \in [Model -> ModelHealthState] /\ NoToolHasNoCooldown'
  <2>1. Target(a) \in Model
    <3>1. request[a].chain \in Seq(Model) /\ request[a].at \in 1..Len(request[a].chain)
      BY <1>3 DEF Answered, RouterTypeOK, Active, RequestType
    <3>2. QED
      BY <3>1, ElementOfSeq DEF Target
  <2>2. PICK reply \in Reply : \E hint \in HintsOf(reply) :
           health' = [health EXCEPT ![Target(a)] = Judged(@, reply, hint)]
    BY <1>3 DEF Answered
  <2> PICK hint \in HintsOf(reply) : health' = [health EXCEPT ![Target(a)] = Judged(@, reply, hint)]
    BY <2>2
  <2>3. reply \in AllReplies /\ hint \in Nat
    BY RouterAssumption DEF HintsOf
  <2>4. /\ Judged(health[Target(a)], reply, hint) \in ModelHealthState
        /\ Uncooled(Judged(health[Target(a)], reply, hint))
    BY <2>1, <2>3, JudgedKeeps DEF RouterTypeOK, NoToolHasNoCooldown
  <2>5. QED
    BY <2>1, <2>2, <2>4 DEF RouterTypeOK, NoToolHasNoCooldown
<1>4. QED
  BY <1>1, <1>2, <1>3 DEF Next, vars, StartTask, Ask, EndTask, Select, BackoffEnds

\* Every step keeps the requests in order, and a call that starts is to a
\* model that is healthy then.
LEMMA RequestStep ==
  ASSUME RouterTypeOK, ClockIsWatched, [Next]_vars
  PROVE  /\ RequestsOK' /\ ClockIsWatched'
         /\ \A b \in Agent : Starts(b) => Healthy(health'[request'[b].chain[request'[b].at]])
<1>1. RequestsOK
  BY DEF RouterTypeOK, RequestsOK, Placed, Active
<1>2. CASE UNCHANGED vars
  BY <1>1, <1>2 DEF vars, RequestsOK, ClockIsWatched, Starts
<1>3. CASE Tick
  <2>1. /\ running' = running
        /\ request' = [b \in Agent |-> IF Active(b) THEN [request[b] EXCEPT !.age = @ + 1, !.waited = @ + 1]
                                       ELSE request[b]]
    BY <1>3 DEF Tick
  <2>2. ASSUME NEW b \in Agent, Active(b)
        PROVE  /\ request'[b] \in RequestType /\ Placed(request'[b]) /\ Timed(request'[b])
               /\ request'[b].waited > 0 /\ b \in running'
    <3>1. request'[b] = [request[b] EXCEPT !.age = @ + 1, !.waited = @ + 1]
      BY <2>1, <2>2
    <3>2. /\ request'[b] \in RequestType
          /\ request'[b].phase = request[b].phase /\ request'[b].at = request[b].at
          /\ request'[b].chain = request[b].chain
          /\ request'[b].age = request[b].age + 1 /\ request'[b].waited = request[b].waited + 1
      <4>1. \A r \in RequestType :
               LET q == [r EXCEPT !.age = @ + 1, !.waited = @ + 1] IN
               /\ q \in RequestType /\ q.phase = r.phase /\ q.at = r.at /\ q.chain = r.chain
               /\ q.age = r.age + 1 /\ q.waited = r.waited + 1
        <5>1. \A n \in Nat : n + 1 \in Nat
          OBVIOUS
        <5>2. QED
          BY <5>1 DEF RequestType
      <4>2. QED
        BY <1>1, <3>1, <4>1 DEF RequestsOK
    <3>3. MayWait(b) /\ request[b].age \in Nat /\ request[b].waited \in Nat
      BY <1>1, <1>3 DEF Tick, RequestsOK, RequestType
    <3>4. Timed(request'[b])
      BY <3>2, <3>3, RouterAssumption DEF ClockIsWatched, Timed, MayWait
    <3>5. Placed(request'[b]) /\ request'[b].waited > 0
      BY <1>1, <3>2, <3>3 DEF RequestsOK, Placed
    <3>6. b \in running'
      BY <1>1, <2>1, <2>2 DEF RequestsOK, Active
    <3>7. QED
      BY <3>2, <3>4, <3>5, <3>6
  <2>3. ASSUME NEW b \in Agent, ~Active(b)
        PROVE  /\ request'[b] \in RequestType /\ Placed(request'[b]) /\ Timed(request'[b])
               /\ request'[b] = request[b] /\ request'[b].phase # "calling"
               /\ (request'[b].phase # "idle" => b \in running')
    BY <1>1, <2>1, <2>3 DEF RequestsOK, ClockIsWatched, Active
  <2>4. request' \in [Agent -> RequestType]
    BY <2>1, <2>2, <2>3
  <2>5. RequestsOK' /\ ClockIsWatched'
    BY <1>1, <2>1, <2>2, <2>3, <2>4 DEF RequestsOK, ClockIsWatched
  <2>6. \A b \in Agent : ~Starts(b)
    BY <2>2, <2>3 DEF Starts
  <2>7. QED
    BY <2>5, <2>6
<1>4. ASSUME NEW a \in Agent, StartTask(a) \/ Ask(a) \/ EndTask(a)
      PROVE  /\ RequestsOK' /\ ClockIsWatched'
             /\ \A b \in Agent : Starts(b) => Healthy(health'[request'[b].chain[request'[b].at]])
  <2> DEFINE asked == [NoRequest EXCEPT !.phase = "selecting"]
  <2>1. asked \in RequestType /\ asked.phase = "selecting"
    BY EndedRequests DEF RequestType, Phase
  <2> HIDE DEF asked
  <2>2. \E req \in {NoRequest, asked} :
           /\ request' = [request EXCEPT ![a] = req]
           /\ running' \subseteq Agent /\ running \ {a} \subseteq running'
           /\ (req.phase # "idle" => a \in running')
    BY <1>1, <1>4, EndedRequests DEF StartTask, Ask, EndTask, RequestsOK, asked
  <2>3. PICK req \in {NoRequest, asked} :
           /\ request' = [request EXCEPT ![a] = req]
           /\ running' \subseteq Agent /\ running \ {a} \subseteq running'
           /\ (req.phase # "idle" => a \in running')
    BY <2>2
  <2>4. req \in RequestType /\ req.phase \in {"idle", "selecting"} /\ Placed(req) /\ Timed(req)
    BY <2>1, EndedRequests DEF Placed, Timed
  <2>5. /\ RequestsOK' /\ ClockIsWatched' /\ request'[a] = req
        /\ \A b \in Agent \ {a} : ~Starts(b)
    BY <1>1, <2>3, <2>4, OneAgentMoves
  <2>6. ~Starts(a)
    BY <2>4, <2>5 DEF Starts
  <2>7. QED
    BY <2>5, <2>6
<1>5. ASSUME NEW a \in Agent, Select(a)
      PROVE  /\ RequestsOK' /\ ClockIsWatched'
             /\ \A b \in Agent : Starts(b) => Healthy(health'[request'[b].chain[request'[b].at]])
  <2>1. PICK chain \in Chains : Settle(a, TryFrom([request[a] EXCEPT !.chain = chain], health, 1))
    BY <1>5 DEF Select
  <2>2. [request[a] EXCEPT !.chain = chain] \in RequestType
    BY <1>1, ChainType DEF RequestsOK, RequestType
  <2>3. Proceeds(TryFrom([request[a] EXCEPT !.chain = chain], health', 1), health')
    BY <2>2, TryFromProceeds
  <2>4. health' = health /\ a \in running
    BY <1>1, <1>5 DEF Select, RequestsOK
  <2>5. QED
    BY <1>1, <2>1, <2>3, <2>4, SettleInOrder
<1>6. ASSUME NEW a \in Agent, Answered(a)
      PROVE  /\ RequestsOK' /\ ClockIsWatched'
             /\ \A b \in Agent : Starts(b) => Healthy(health'[request'[b].chain[request'[b].at]])
  <2>1. /\ request[a] \in RequestType /\ request[a].phase = "calling" /\ a \in running
        /\ request[a].at \in 1..Len(request[a].chain)
    BY <1>1, <1>6 DEF Answered, RequestsOK, Placed
  <2>2. PICK reply \in Reply :
           \/ Succeeds(a, reply)
           \/ Fails(reply) /\ Settle(a, AfterError(request[a], health', reply))
    BY <1>6 DEF Answered
  <2>3. CASE Succeeds(a, reply)
    <3>1. Settle(a, NoRequest)
      BY <2>3 DEF Succeeds
    <3>2. Proceeds(NoRequest, health')
      BY EndedRequests DEF Proceeds
    <3>3. QED
      BY <1>1, <2>1, <3>1, <3>2, SettleInOrder
  <2>4. CASE Fails(reply) /\ Settle(a, AfterError(request[a], health', reply))
    <3>1. GoesOn(AfterError(request[a], health', reply), request[a], health')
      BY <2>1, <2>4, RouterAssumption, ErrorGoesOn
    <3>2. QED
      BY <1>1, <2>1, <2>4, <3>1, SettleInOrder
  <2>5. QED
    BY <2>2, <2>3, <2>4
<1>7. ASSUME NEW a \in Agent, BackoffEnds(a)
      PROVE  /\ RequestsOK' /\ ClockIsWatched'
             /\ \A b \in Agent : Starts(b) => Healthy(health'[request'[b].chain[request'[b].at]])
  <2>1. /\ request[a] \in RequestType /\ a \in running /\ request[a].at \in 1..Len(request[a].chain)
        /\ health' = health /\ Settle(a, TryAgain(request[a], health'))
    BY <1>1, <1>7 DEF BackoffEnds, RequestsOK, Placed
  <2>2. Proceeds(TryAgain(request[a], health'), health')
    BY <2>1, TryAgainProceeds
  <2>3. QED
    BY <1>1, <2>1, <2>2, SettleInOrder
<1>8. QED
  BY <1>2, <1>3, <1>4, <1>5, <1>6, <1>7 DEF Next

\* The counter stays a number.
LEMMA CounterStep ==
  ASSUME RouterTypeOK, [Next]_vars
  PROVE  used' \in Nat
<1>1. CASE UNCHANGED used
  BY <1>1 DEF RouterTypeOK
<1>2. ASSUME NEW a \in Agent, StartTask(a) PROVE used' \in Nat
  BY <1>2, RouterAssumption DEF StartTask, RouterTypeOK
<1>3. ASSUME NEW a \in Agent, NEW reply \in Reply, Succeeds(a, reply)
      PROVE  used' \in Nat
  BY <1>3, RouterAssumption DEF Succeeds, RouterTypeOK
<1>4. QED
  BY <1>1, <1>2, <1>3 DEF Next, vars, Tick, Ask, EndTask, Select, Answered, BackoffEnds
-----------------------------------------------------------------------------
(* Spending *)

Asking == {a \in Agent : request[a].phase # "idle"}

\* One more agent than n charges MaxUse more, and fewer agents no more.
LEMMA Charges ==
  /\ \A n \in Nat : MaxUse * n \in Nat /\ MaxUse * (n + 1) = MaxUse * n + MaxUse
  /\ \A m, n \in Nat : m <= n => MaxUse * m <= MaxUse * n
<1>1. MaxUse \in Nat
  BY RouterAssumption
<1>2. \A u, n \in Nat : u * n \in Nat /\ u * (n + 1) = u * n + u
  BY SMT
<1>3. \A u, m, n \in Nat : m <= n => u * m <= u * n
  BY SMT
<1>4. QED
  BY <1>1, <1>2, <1>3

\* Agents are finitely many, and so are those that ask.
LEMMA AskingCount ==
  ASSUME NEW S \in SUBSET Agent
  PROVE  IsFiniteSet(S) /\ Cardinality(S) \in Nat /\ Cardinality(Agent) \in Nat
         /\ Cardinality(S) <= Cardinality(Agent)
         /\ \A T \in SUBSET S : Cardinality(T) \in Nat /\ Cardinality(T) <= Cardinality(S)
<1>1. IsFiniteSet(S) /\ Cardinality(S) <= Cardinality(Agent)
  BY RouterAssumption, FS_Subset
<1>2. Cardinality(S) \in Nat /\ Cardinality(Agent) \in Nat
  BY <1>1, RouterAssumption, FS_CardinalityType
<1>3. \A T \in SUBSET S : IsFiniteSet(T) /\ Cardinality(T) <= Cardinality(S)
  BY <1>1, FS_Subset
<1>4. \A T \in SUBSET S : Cardinality(T) \in Nat
  BY <1>3, FS_CardinalityType
<1>5. QED
  BY <1>1, <1>2, <1>3, <1>4

\* No step lets the agents pass the budget by more than one response of each.
LEMMA SpendStep ==
  ASSUME RouterTypeOK, SpendIsBounded, RequestsOK', [Next]_vars
  PROVE  SpendIsBounded'
<1> DEFINE c == Cardinality(Asking)
           d == Cardinality(Asking')
           n == Cardinality(Agent)
<1>1. /\ c \in Nat /\ d \in Nat /\ n \in Nat /\ c <= n /\ d <= n
      /\ (Asking' \subseteq Asking => d <= c)
  BY AskingCount DEF Asking
<1>2. used \in Nat /\ MaxUse \in Nat /\ MaxTokens \in Nat
  BY RouterAssumption DEF RouterTypeOK
<1>3. used + MaxUse * c <= MaxTokens + MaxUse * n
  BY DEF SpendIsBounded, Asking
<1>4. MaxUse * c \in Nat /\ MaxUse * d \in Nat /\ MaxUse * n \in Nat /\ MaxUse * d <= MaxUse * n
  BY <1>1, Charges
<1> SUFFICES used' + MaxUse * d <= MaxTokens + MaxUse * n
  BY DEF SpendIsBounded, Asking
<1> HIDE DEF c, d, n
<1>5. CASE used' = used /\ Asking' \subseteq Asking
  <2>1. MaxUse * d <= MaxUse * c
    BY <1>1, <1>5, Charges
  <2>2. QED
    BY <1>2, <1>3, <1>4, <1>5, <2>1
<1>6. CASE used' <= MaxTokens /\ used' \in Nat
  BY <1>2, <1>4, <1>6
<1>7. ASSUME NEW a \in Agent, NEW reply \in Reply, request[a].phase = "calling", Succeeds(a, reply)
      PROVE  used' + MaxUse * d <= MaxTokens + MaxUse * n
  <2>1. request' = [request EXCEPT ![a] = NoRequest] /\ used' = used + MaxUse
    BY <1>7 DEF Succeeds, Settle
  <2>2. Asking' = Asking \ {a} /\ a \in Asking
    BY <1>7, <2>1, EndedRequests DEF Asking, RouterTypeOK
  <2>3. IsFiniteSet(Asking)
    BY AskingCount DEF Asking
  <2>4. c = d + 1
    BY <1>1, <2>2, <2>3, FS_RemoveElement DEF c, d
  <2>5. MaxUse * c = MaxUse * d + MaxUse
    BY <1>1, <2>4, Charges
  <2>6. QED
    BY <1>2, <1>3, <1>4, <2>1, <2>5
<1>8. ASSUME NEW a \in Agent, StartTask(a) \/ Ask(a) \/ EndTask(a)
      PROVE  used' + MaxUse * d <= MaxTokens + MaxUse * n
  <2>1. CASE StartTask(a)
    BY <1>2, <1>6, <2>1 DEF StartTask
  <2>2. CASE Ask(a)
    BY <1>2, <1>6, <2>2 DEF Ask, WithinBudget
  <2>3. CASE EndTask(a)
    BY <1>5, <2>3, EndedRequests DEF EndTask, Asking, RouterTypeOK
  <2>4. QED
    BY <1>8, <2>1, <2>2, <2>3
<1>9. ASSUME NEW a \in Agent, NEW req, request[a].phase # "idle", used' = used, Settle(a, req)
      PROVE  used' + MaxUse * d <= MaxTokens + MaxUse * n
  BY <1>5, <1>9 DEF Settle, Asking, RouterTypeOK
<1>10. CASE Tick
  <2>1. Asking' \subseteq Asking
    BY <1>10 DEF Tick, Asking, Active, RouterTypeOK
  <2>2. QED
    BY <1>5, <1>10, <2>1 DEF Tick
<1>11. CASE UNCHANGED vars
  BY <1>5, <1>11 DEF vars, Asking
<1>12. QED
  <2>1. ASSUME NEW a \in Agent, Answered(a) PROVE used' + MaxUse * d <= MaxTokens + MaxUse * n
    <3>1. PICK reply \in Reply :
             Succeeds(a, reply) \/ (UNCHANGED used /\ Settle(a, AfterError(request[a], health', reply)))
      BY <2>1 DEF Answered
    <3>2. request[a].phase = "calling"
      BY <2>1 DEF Answered
    <3>3. QED
      BY <1>7, <1>9, <3>1, <3>2
  <2>2. ASSUME NEW a \in Agent, Select(a) \/ BackoffEnds(a)
        PROVE  used' + MaxUse * d <= MaxTokens + MaxUse * n
    <3>1. request[a].phase # "idle" /\ used' = used /\ \E req : Settle(a, req)
      BY <2>2 DEF Select, BackoffEnds
    <3>2. QED
      BY <1>9, <3>1
  <2>3. QED
    BY <1>8, <1>10, <1>11, <2>1, <2>2 DEF Next
-----------------------------------------------------------------------------
(* The theorems *)

\* The router starts in order.
LEMMA InitIsInOrder == Init => IInv
<1> SUFFICES ASSUME Init PROVE IInv
  OBVIOUS
<1>1. NewState \in ModelHealthState /\ Uncooled(NewState)
  BY HealthAssumption DEF NewState, ModelHealthState, HealthStatus, Uncooled
<1>2. health \in [Model -> ModelHealthState] /\ NoToolHasNoCooldown
  BY <1>1 DEF Init, NoToolHasNoCooldown
<1>3. request \in [Agent -> RequestType] /\ \A a \in Agent : request[a].phase = "idle"
  BY EndedRequests DEF Init
<1>4. used \in Nat /\ running \subseteq Agent
  BY RouterAssumption DEF Init
<1>5. RouterTypeOK /\ ClockIsWatched
  BY <1>2, <1>3, <1>4 DEF RouterTypeOK, Active, ClockIsWatched, Timed
<1>6. SpendIsBounded
  <2>1. {a \in Agent : request[a].phase # "idle"} = {}
    BY <1>3
  <2>2. MaxUse * Cardinality({}) = 0 /\ MaxUse * Cardinality(Agent) \in Nat
    BY FS_EmptySet, AskingCount, Charges, RouterAssumption
  <2>3. used = 0 /\ MaxTokens \in Nat
    BY RouterAssumption DEF Init
  <2>4. used + 0 <= MaxTokens + MaxUse * Cardinality(Agent)
    <3> DEFINE k == MaxUse * Cardinality(Agent)
    <3>1. k \in Nat
      BY <2>2
    <3> HIDE DEF k
    <3>2. used + 0 <= MaxTokens + k
      BY <2>3, <3>1
    <3>3. QED
      BY <3>2 DEF k
  <2>5. QED
    BY <2>1, <2>2, <2>4 DEF SpendIsBounded
<1>7. QED
  BY <1>2, <1>5, <1>6 DEF IInv

\* Every step keeps it in order.
LEMMA StepKeepsOrder == IInv /\ [Next]_vars => IInv'
<1> SUFFICES ASSUME IInv, [Next]_vars PROVE IInv'
  OBVIOUS
<1>1. RequestsOK' /\ ClockIsWatched'
  BY RequestStep DEF IInv
<1>2. health' \in [Model -> ModelHealthState] /\ NoToolHasNoCooldown'
  BY HealthStep DEF IInv
<1>3. used' \in Nat
  BY CounterStep DEF IInv
<1>4. SpendIsBounded'
  BY <1>1, SpendStep DEF IInv
<1>5. RouterTypeOK'
  BY <1>1, <1>2, <1>3 DEF RouterTypeOK, RequestsOK, Placed, Active
<1>6. QED
  BY <1>1, <1>2, <1>4, <1>5 DEF IInv

\* IInv holds throughout.
THEOREM RouterInvariant == Spec => []IInv
BY InitIsInOrder, StepKeepsOrder, PTL DEF Spec

\* Health records, requests and counters are well formed, and a request in
\* progress points at a model of its chain, belonging to a running task.
THEOREM RouterTypes == Spec => []RouterTypeOK
<1>1. IInv => RouterTypeOK
  BY DEF IInv
<1>2. QED
  BY <1>1, RouterInvariant, PTL

\* However many models, retries and failovers a request goes through, no agent
\* waits longer than the total timeout, one attempt and one sleep.
THEOREM AnswersAreInTime == Spec => []AnswersInTime
<1>1. IInv => AnswersInTime
  BY RouterAssumption DEF IInv, RouterTypeOK, RequestType, Active, ClockIsWatched, Timed, AnswersInTime
<1>2. QED
  BY <1>1, RouterInvariant, PTL

\* However many agents share the budget, it is passed by at most one response
\* of each.
THEOREM SpendStaysBounded == Spec => []SpendIsBounded
<1>1. IInv => SpendIsBounded
  BY DEF IInv
<1>2. QED
  BY <1>1, RouterInvariant, PTL

\* No request turns to a model that is cooling down, for any cooldowns,
\* Retry-After hints and chains.
THEOREM CooldownsAreRespected == Spec => CooldownIsRespected
<1>1. ASSUME IInv, [Next]_vars
      PROVE  \A a \in Agent : Starts(a) => health'[request'[a].chain[request'[a].at]].cooldown = 0
  <2> SUFFICES ASSUME NEW a \in Agent, Starts(a)
               PROVE  health'[request'[a].chain[request'[a].at]].cooldown = 0
    OBVIOUS
  <2> DEFINE m == request'[a].chain[request'[a].at]
  <2>1. Healthy(health'[m]) /\ RequestsOK'
    BY <1>1, RequestStep DEF IInv
  <2>2. request'[a] \in RequestType /\ request'[a].at \in 1..Len(request'[a].chain)
    BY <2>1 DEF RequestsOK, Placed, Starts
  <2>3. m \in Model
    BY <2>2, ElementOfSeq DEF RequestType
  <2>4. health'[m] \in ModelHealthState /\ Uncooled(health'[m])
    BY <1>1, <2>3, HealthStep DEF IInv, NoToolHasNoCooldown
  <2>5. QED
    BY <2>1, <2>4, HealthyIsCool
<1>2. QED
  BY <1>1, RouterInvariant, PTL DEF Spec, CooldownIsRespected
=============================================================================
