--------------------------- MODULE WebApplication ---------------------------
(***************************************************************************)
(* What main.py puts around the routes: every request is identified, then  *)
(* counted in a fixed window of Redis, and refused with a 429 over its     *)
(* limit; every web process runs a scheduler that writes one heartbeat key *)
(* in Redis; two health checks judge MongoDB, Redis, the heartbeat and     *)
(* Celery.  A tick is the heartbeat's interval of 15 seconds.              *)
(***************************************************************************)
EXTENDS Integers, FiniteSets, Functions

CONSTANTS
  Members, Admins,  \* clients with an account; all share one address
  Address,
  Processes,        \* web processes, each with a scheduler
  Limit,            \* RATE_LIMITS: hits of a window, by rule
  Window,           \* a minute, in ticks
  KeyLife,          \* ex=60 of the heartbeat key, in ticks
  Fresh             \* the 30 seconds of a healthy heartbeat, in ticks

Clients == Members \union Admins
Rules == {"anonymous", "member", "admin"}

ASSUME WebAssumption ==
  /\ Members \cap Admins = {} /\ Address \notin Clients
  /\ Limit \in [Rules -> Nat \ {0}] /\ Window \in Nat \ {0}
  /\ KeyLife \in Nat /\ Fresh \in Nat /\ Fresh < KeyLife

VARIABLES
  stored,    \* clients whose access document is in the store
  count,     \* the limiter's counters, at most one past the limit
  left,      \* ticks until each counter expires, 0 without one
  allowed,   \* history: requests let through, by key and age
  running,   \* processes whose scheduler runs
  beat,      \* age of the heartbeat key, KeyLife when it is gone
  silent,    \* history: ticks without a running scheduler
  up         \* the services that answer

vars == <<stored, count, left, allowed, running, beat, silent, up>>

Services == {"mongo", "redis", "celery"}

(* The limiter's keys: a rule and whom it counts. *)
Keys == ({"anonymous"} \X {Address}) \union ({"member"} \X Members)
          \union ({"admin"} \X Admins)
LimitOf(key) == Limit[key[1]]

TypeOK ==
  /\ stored \subseteq Clients /\ running \subseteq Processes /\ up \subseteq Services
  /\ \A key \in Keys : count[key] \in 0 .. LimitOf(key) + 1
  /\ left \in [Keys -> 0 .. Window]
  /\ allowed \in [Keys -> [0 .. Window - 1 -> Nat]]
  /\ beat \in 0 .. KeyLife /\ silent \in 0 .. KeyLife

Init ==
  /\ stored = {}
  /\ count = [key \in Keys |-> 0]
  /\ left = [key \in Keys |-> 0]
  /\ allowed = [key \in Keys |-> [age \in 0 .. Window - 1 |-> 0]]
  /\ running = Processes
  /\ beat = KeyLife /\ silent = 0
  /\ up = Services

-----------------------------------------------------------------------------
(* get_access_tokens: MongoDB finds the document of the client's token. *)
Identified(client) == "mongo" \in up /\ client \in stored

(* get_user_type: whoever has no token, or one that MongoDB does not find or
   cannot look up, counts as the address it comes from. *)
KeyOf(client) ==
  CASE Identified(client) /\ client \in Members -> <<"member", client>>
    [] Identified(client) /\ client \in Admins  -> <<"admin", client>>
    [] OTHER -> <<"anonymous", Address>>

(* Variant: every hit starts the minute again. *)
HitElastic(key) ==
  /\ count' = [count EXCEPT ![key] = IF @ > LimitOf(key) THEN @ ELSE @ + 1]
  /\ left' = [left EXCEPT ![key] = Window]

(* FixedWindowRateLimiter.hit counts refused requests too; the counter expires
   a window after its first hit. *)
Hit(key) ==
  /\ count' = [count EXCEPT ![key] = IF @ > LimitOf(key) THEN @ ELSE @ + 1]
  /\ left' = [left EXCEPT ![key] = IF @ = 0 THEN Window ELSE @]

(* Variant: the hit that reaches the limit plus one passes. *)
PassesLate(key) == count[key] <= LimitOf(key)

Passes(key) == count[key] < LimitOf(key)

(* RateLimitingMiddleware.dispatch: a request that passes reaches its route,
   which may store or delete the client's token.  Without Redis the hit raises
   and every request, those of the health checks too, is answered 500. *)
Dispatch(client) ==
  LET key == KeyOf(client)
  IN  /\ "redis" \in up
      /\ Hit(key)
      /\ IF Passes(key)
         THEN /\ allowed' = [allowed EXCEPT ![key][0] = @ + 1]
              /\ stored' \in IF "mongo" \in up
                             THEN {stored, stored \union {client}, stored \ {client}}
                             ELSE {stored}
         ELSE UNCHANGED <<allowed, stored>>
      /\ UNCHANGED <<running, beat, silent, up>>

-----------------------------------------------------------------------------
(* apscheduler_heartbeat, by the scheduler of any process. *)
Heartbeat ==
  /\ running # {} /\ "redis" \in up
  /\ beat' = 0
  /\ UNCHANGED <<stored, count, left, allowed, running, silent, up>>

(* lifespan starts a process's scheduler and shuts it down. *)
Toggle(process) ==
  /\ running' = IF process \in running THEN running \ {process} ELSE running \union {process}
  /\ silent' = 0
  /\ UNCHANGED <<stored, count, left, allowed, beat, up>>

Switch(service) ==
  /\ up' = IF service \in up THEN up \ {service} ELSE up \union {service}
  /\ UNCHANGED <<stored, count, left, allowed, running, beat, silent>>

(* Variant: the heartbeat key has no expiry. *)
OlderForEver(age) == age + 1

Older(age) == IF age < KeyLife THEN age + 1 ELSE age

Tick ==
  /\ left' = [key \in Keys |-> IF left[key] > 0 THEN left[key] - 1 ELSE 0]
  /\ count' = [key \in Keys |-> IF left[key] > 1 THEN count[key] ELSE 0]
  /\ allowed' = [key \in Keys |-> [age \in 0 .. Window - 1 |->
                  IF age = 0 THEN 0 ELSE allowed[key][age - 1]]]
  /\ beat' = Older(beat)
  /\ silent' = IF running = {} THEN Older(silent) ELSE 0
  /\ UNCHANGED <<stored, running, up>>

Next ==
  \/ \E c \in Clients : Dispatch(c)
  \/ Heartbeat \/ Tick
  \/ \E p \in Processes : Toggle(p)
  \/ \E s \in Services : Switch(s)

Spec == Init /\ [][Next]_vars
-----------------------------------------------------------------------------
(* What the checks find out about each service. *)
ServiceStatus(service) == IF service \in up THEN "healthy" ELSE "unhealthy"

(* Variant: any heartbeat will do. *)
AnyHeartbeat ==
  IF "redis" \in up /\ beat < KeyLife THEN "healthy" ELSE "unhealthy"

HeartbeatStatus ==
  CASE "redis" \notin up \/ beat = KeyLife -> "unhealthy"
    [] "redis" \in up /\ beat <= Fresh -> "healthy"
    [] OTHER -> "degraded"

(* send_task needs the broker, its answer a worker. *)
CeleryStatus == IF {"redis", "celery"} \subseteq up THEN "healthy" ELSE "unhealthy"

Statuses == {ServiceStatus("mongo"), ServiceStatus("redis"), HeartbeatStatus, CeleryStatus}

(* /health knows one bad status, *)
Health == IF Statuses = {"healthy"} THEN "healthy" ELSE "degraded"

(* /health-detailed two. *)
HealthDetailed ==
  CASE "unhealthy" \in Statuses -> "unhealthy"
    [] "unhealthy" \notin Statuses /\ "degraded" \in Statuses -> "degraded"
    [] OTHER -> "healthy"
-----------------------------------------------------------------------------
(* No minute, wherever it begins, lets a key through more than twice its limit
   less one: the fixed windows are not the promised rate, but bound it
   (RateLimitingMiddleware). *)
TwiceTheLimit ==
  \A key \in Keys : SumFunction(allowed[key]) <= 2 * LimitOf(key) - 1

(* A refused client that keeps asking is not kept out longer: its minute ends
   when it would have (RateLimitingMiddleware). *)
WindowEnds ==
  [][\A key \in Keys : left[key] > 0 => left'[key] <= left[key]]_vars

(* The two health checks agree on what is healthy, and neither says so when a
   service is down or no process has run a scheduler for 30 seconds. *)
HealthIsTrue ==
  /\ Health = "healthy" <=> HealthDetailed = "healthy"
  /\ Health = "healthy" => up = Services /\ silent <= Fresh
=============================================================================
