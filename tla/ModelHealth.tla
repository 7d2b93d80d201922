----------------------------- MODULE ModelHealth -----------------------------
(***************************************************************************)
(* The health record the router keeps of every model, and the events that  *)
(* change it (routing/health.py).  Times are whole ticks.  A deadline of   *)
(* the code ("until this unix time") is the number of ticks left to it, so *)
(* that "time.time() < cooldown_until" reads cooldown > 0 and the passing  *)
(* of a tick is Elapse.                                                    *)
(*                                                                         *)
(* Statuses that is_healthy() does not single out (UNKNOWN, HEALTHY, ERROR,*)
(* TIMEOUT, TEMPORARILY_UNAVAILABLE) are one: "open"; UNAVAILABLE (a failed *)
(* authentication) and PAYMENT_REQUIRED, both is_unavailable, are another.  *)
(* The windows of RATE_LIMITED and NO_TOOL_USE are read in that status only *)
(* and set whenever it is entered, so one number stands for both.          *)
(***************************************************************************)
EXTENDS Naturals, Sequences

CONSTANTS
  BaseCooldown,     \* default_cooldown_seconds
  MaxCooldown,      \* the 300 s no exponential cooldown exceeds
  NoToolCooldown,   \* cooldown_seconds of record_no_tool_usage
  FailureLimit,     \* consecutive failures from which a model is not healthy
  HitLimit          \* where the count of rate-limit hits stops, see below

AtMost(n, bound) == IF n < bound THEN n ELSE bound
AtLeast(n, bound) == IF n < bound THEN bound ELSE n

(* min(300, default * 2 ** min(n, 4)) *)
Window(n) == AtMost(BaseCooldown * <<1, 2, 4, 8, 16>>[AtMost(n, 4) + 1], MaxCooldown)

(* Both counters stop where the code stops telling their values apart:     *)
(* consecutive_failures at FailureLimit, rate_limit_hits where one more    *)
(* does not make the cooldown longer.                                      *)
ASSUME HealthAssumption ==
  /\ BaseCooldown \in Nat \ {0} /\ MaxCooldown \in Nat \ {0} /\ NoToolCooldown \in Nat
  /\ FailureLimit \in Nat \ {0} /\ HitLimit \in Nat \ {0}
  /\ \A k \in HitLimit..5 : Window(k - 1) = Window(HitLimit - 1)

HealthStatus == {"open", "rate_limited", "no_tool", "unavailable"}

(* HealthEvent without TOOL_CALL_FAILURE, which nothing in the code records. *)
TemporaryEvent == {"timeout", "server_error", "network_error", "invalid_response"}
HealthEvent == TemporaryEvent \cup {"rate_limit", "client_error", "auth_failed", "payment_required"}

ModelHealthState ==
  [status : HealthStatus, cooldown : Nat, window : Nat, failures : 0..FailureLimit, hits : 0..HitLimit]

NewState == [status |-> "open", cooldown |-> 0, window |-> 0, failures |-> 0, hits |-> 0]

(* is_healthy: the explicit statuses come first, so a model that ignored   *)
(* its tools is judged by its no-tool window alone.                        *)
Healthy(h) ==
  CASE h.status = "unavailable" -> FALSE
    [] h.status = "no_tool" -> h.window = 0
    [] OTHER -> h.cooldown = 0 /\ h.window = 0 /\ h.failures < FailureLimit

Enter(h, status, window) == [h EXCEPT !.status = status, !.window = window]

(* record_success keeps the number of rate-limit hits *)
AfterSuccess(h) == [Enter(h, "open", 0) EXCEPT !.cooldown = 0, !.failures = 0]

(* record_no_tool_usage *)
AfterNoToolUse(h) == Enter(h, "no_tool", NoToolCooldown)

(* record_failure; hint is the provider's Retry-After, 0 when it sent none *)
AfterFailure(h, event, hint) ==
  LET failed == [h EXCEPT !.failures = AtMost(@ + 1, FailureLimit)]
      hits == AtMost(h.hits + 1, HitLimit)
      Cool(g, window) == [g EXCEPT !.cooldown = AtLeast(@, IF hint > 0 THEN hint ELSE window)]
  IN CASE event = "rate_limit" ->
            Cool([Enter(failed, "rate_limited", Window(hits - 1)) EXCEPT !.hits = hits], Window(hits - 1))
       [] event \in TemporaryEvent -> Cool(Enter(failed, "open", 0), Window(failed.failures - 1))
       [] event = "client_error" -> failed
       [] event \in {"auth_failed", "payment_required"} -> Enter(failed, "unavailable", 0)

(* A tick passes. *)
OneLess(n) == IF n = 0 THEN 0 ELSE n - 1
Elapse(h) == [h EXCEPT !.cooldown = OneLess(@), !.window = OneLess(@)]
=============================================================================
