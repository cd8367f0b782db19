----------------------------- MODULE RateLimiter -----------------------------
(***************************************************************************)
(* The request boundary of the web server (web/app.py): the middleware      *)
(* dashboard_security_boundary, and the sliding window _GlobalRateLimiter   *)
(* it consults for the two expensive endpoints.                             *)
(*                                                                          *)
(* The middleware runs on the one event loop and does not await before      *)
(* consume() has returned, so a request passes the boundary in one step.    *)
(* time.monotonic() is a count of ticks; Retry-After is in whole seconds.   *)
(***************************************************************************)
EXTENDS Integers, Sequences

CONSTANTS
  Limits,         \* values AUTOSOC_RATE_LIMIT_PER_MINUTE may have
  TicksPerSecond, \* resolution of the clock
  WindowSeconds,  \* 60 in the code
  MaxTime         \* bound on the clock, in ticks

ASSUME LimitsAssumption == Limits \subseteq Nat
ASSUME ClockAssumption ==
  /\ TicksPerSecond \in Nat \ {0}
  /\ WindowSeconds \in Nat \ {0}
  /\ MaxTime \in Nat

Window == WindowSeconds * TicksPerSecond
Times == 0 .. MaxTime

VARIABLES
  limit,    \* requests_per_minute; 0 disables the limiter
  now,      \* the monotonic clock
  recent,   \* _requests
  response, \* what the last request got
  admitted, \* history: the times of the limited requests let through
  refusal   \* history: the last 429, and whether a request was let through since

vars == <<limit, now, recent, response, admitted, refusal>>

\* What the middleware distinguishes: the route and method, the credentials,
\* and whether fetch metadata or the origin show a cross-origin caller.
Requests ==
  [route : {"healthz", "page", "api read", "api write", "limited"},
   credentials : BOOLEAN, crossOrigin : BOOLEAN]

None == [at |-> -1, retry |-> 0, alone |-> FALSE]

Init ==
  /\ limit \in Limits
  /\ now = 0
  /\ recent = <<>>
  /\ response = [status |-> "none", retry |-> 0]
  /\ admitted = <<>>
  /\ refusal = None

\* Faulty variant: an entry is popped as soon as its second is over.
PoppedRounded(q) ==
  CHOOSE k \in 0 .. Len(q) :
    /\ \A m \in 1 .. k : q[m] \div TicksPerSecond <= now \div TicksPerSecond - WindowSeconds
    /\ k < Len(q) => q[k + 1] \div TicksPerSecond > now \div TicksPerSecond - WindowSeconds

\* How many entries the pruning loop pops: it stops at the first one after the
\* cutoff.
Popped(q) ==
  CHOOSE k \in 0 .. Len(q) :
    /\ \A m \in 1 .. k : q[m] <= now - Window
    /\ k < Len(q) => q[k + 1] > now - Window

\* The entries the pruning loop leaves.
InWindow(q) == SubSeq(q, Popped(q) + 1, Len(q))

CeilSeconds(ticks) == (ticks + TicksPerSecond - 1) \div TicksPerSecond

\* Faulty variant: the seconds are rounded down.
RetryAfterFloor(q) ==
  LET seconds == (Window - (now - Head(q))) \div TicksPerSecond
  IN  IF seconds < 1 THEN 1 ELSE seconds

RetryAfter(q) ==
  LET seconds == CeilSeconds(Window - (now - Head(q)))
  IN  IF seconds < 1 THEN 1 ELSE seconds

Answer(status, retry) == response' = [status |-> status, retry |-> retry]

\* A request stops at the first check it fails.
Unauthorized(r) == r.route # "healthz" /\ ~r.credentials
CrossOrigin(r) == r.route \in {"api write", "limited"} /\ r.crossOrigin

\* 401 and 403: the limiter is not consulted.
Refuse(r) ==
  /\ \/ Unauthorized(r) /\ Answer("401", 0)
     \/ ~Unauthorized(r) /\ CrossOrigin(r) /\ Answer("403", 0)
  /\ UNCHANGED <<limit, now, recent, admitted, refusal>>

\* Not a limited endpoint, or the limiter is disabled.
PassFreely(r) ==
  /\ ~Unauthorized(r) /\ ~CrossOrigin(r)
  /\ r.route # "limited" \/ limit = 0
  /\ Answer("passed", 0)
  /\ UNCHANGED <<limit, now, recent, admitted, refusal>>

\* Faulty variant: one more than the limit is let through.
AdmitOneMore(r) ==
  /\ ~Unauthorized(r) /\ ~CrossOrigin(r)
  /\ r.route = "limited" /\ limit # 0
  /\ Len(InWindow(recent)) <= limit
  /\ recent' = Append(InWindow(recent), now)
  /\ admitted' = Append(admitted, now)
  /\ refusal' = [refusal EXCEPT !.alone = FALSE]
  /\ Answer("passed", 0)
  /\ UNCHANGED <<limit, now>>

\* Faulty variant: a request is recorded before it is authenticated.
AdmitUnchecked(r) ==
  /\ r.route = "limited" /\ limit # 0
  /\ Len(InWindow(recent)) < limit
  /\ recent' = Append(InWindow(recent), now)
  /\ refusal' = [refusal EXCEPT !.alone = FALSE]
  /\ IF Unauthorized(r)
       THEN Answer("401", 0) /\ UNCHANGED admitted
       ELSE Answer("passed", 0) /\ admitted' = Append(admitted, now)
  /\ UNCHANGED <<limit, now>>

\* consume() records the request.
Admit(r) ==
  /\ ~Unauthorized(r) /\ ~CrossOrigin(r)
  /\ r.route = "limited" /\ limit # 0
  /\ Len(InWindow(recent)) < limit
  /\ recent' = Append(InWindow(recent), now)
  /\ admitted' = Append(admitted, now)
  /\ refusal' = [refusal EXCEPT !.alone = FALSE]
  /\ Answer("passed", 0)
  /\ UNCHANGED <<limit, now>>

\* consume() returns the seconds until a retry is allowed; what it pruned
\* stays pruned.
Throttle(r) ==
  /\ ~Unauthorized(r) /\ ~CrossOrigin(r)
  /\ r.route = "limited" /\ limit # 0
  /\ Len(InWindow(recent)) >= limit
  /\ recent' = InWindow(recent)
  /\ Answer("429", RetryAfter(InWindow(recent)))
  /\ refusal' = [at |-> now, retry |-> RetryAfter(InWindow(recent)), alone |-> TRUE]
  /\ UNCHANGED <<limit, now, admitted>>

Tick ==
  /\ now < MaxTime
  /\ now' = now + 1
  /\ UNCHANGED <<limit, recent, response, admitted, refusal>>

Next ==
  \/ \E r \in Requests : Refuse(r) \/ PassFreely(r) \/ Admit(r) \/ Throttle(r)
  \/ Tick

Spec == Init /\ [][Next]_vars

-----------------------------------------------------------------------------
TypeOK ==
  /\ limit \in Limits
  /\ now \in Times
  /\ recent \in Seq(Times) /\ (limit # 0 => Len(recent) <= limit)
  /\ response \in [status : {"none", "passed", "401", "403", "429"},
                   retry : 0 .. WindowSeconds]
  /\ admitted \in Seq(Times)
  /\ refusal \in [at : Times \cup {-1}, retry : 0 .. WindowSeconds, alone : BOOLEAN]

\* No window of a minute, wherever it starts, sees more than the configured
\* number of orchestrations and approvals: entries leave _requests neither too
\* early nor because a refused request pruned them.
WindowBound ==
  limit # 0 =>
    \A n \in DOMAIN admitted :
      n + limit \in DOMAIN admitted => admitted[n + limit] - admitted[n] >= Window

\* Retry-After is exact: if nobody else is let through meanwhile, the refused
\* client is let through once it has elapsed, and would still have been refused
\* a second earlier, unless it is the minimum of one second.
RetryAfterExact ==
  refusal.alone =>
    /\ now >= refusal.at + refusal.retry * TicksPerSecond =>
         Len(InWindow(recent)) < limit
    /\ now <= refusal.at + (refusal.retry - 1) * TicksPerSecond =>
         Len(InWindow(recent)) >= limit

\* A place in the window is taken by exactly the requests let through in it: a
\* caller refused for its credentials, its origin or the limit itself uses up
\* nobody's quota, and nobody passes without being counted (app.py L285-326).
ServedExactly == limit # 0 => InWindow(recent) = InWindow(admitted)
=============================================================================
