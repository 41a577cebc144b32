----------------------- MODULE WebApplication_proofs -----------------------
(***************************************************************************)
(* Proofs about what surrounds the routes, for any clients, processes and  *)
(* limits.                                                                 *)
(***************************************************************************)
EXTENDS WebApplication, DataTheorems

\* The heartbeat in Redis is at least as old as the silence of the schedulers,
\* because only a running one renews it: what makes HealthIsTrue hold.
BeatInv ==
  /\ beat \in 0 .. KeyLife /\ silent \in 0 .. KeyLife
  /\ silent <= beat
  /\ running # {} => silent = 0
  /\ up \subseteq Services

\* The expiries of the counters.
LeftInv == left \in [Keys -> 0 .. Window]

LEMMA BeatStep == BeatInv /\ [Next]_vars => BeatInv'
<1> SUFFICES ASSUME BeatInv, [Next]_vars PROVE BeatInv'
  OBVIOUS
<1> USE WebAssumption DEF BeatInv
<1>1. CASE UNCHANGED vars
  BY <1>1 DEF vars
<1>2. CASE \E c \in Clients : Dispatch(c)
  BY <1>2 DEF Dispatch
<1>3. CASE Heartbeat
  BY <1>3 DEF Heartbeat
<1>4. CASE Tick
  BY <1>4 DEF Tick, Older
<1>5. CASE \E p \in Processes : Toggle(p)
  BY <1>5 DEF Toggle
<1>6. CASE \E s \in Services : Switch(s)
  BY <1>6 DEF Switch
<1> QED BY <1>1, <1>2, <1>3, <1>4, <1>5, <1>6 DEF Next

LEMMA Beats == Spec => []BeatInv
<1>1. Init => BeatInv
  BY WebAssumption DEF Init, BeatInv
<1> QED BY <1>1, BeatStep, PTL DEF Spec

LEMMA Expiries == Spec => []LeftInv
<1>1. Init => LeftInv
  BY WebAssumption DEF Init, LeftInv
<1>2. LeftInv /\ [Next]_vars => LeftInv'
  BY WebAssumption
     DEF Next, vars, LeftInv, Dispatch, Hit, Heartbeat, Tick, Toggle, Switch
<1> QED BY <1>1, <1>2, PTL DEF Spec

\* The two health checks agree on what is healthy, and neither says so when a
\* service is down or no process has run a scheduler for 30 seconds, whatever
\* the life of the heartbeat key (health_check).
THEOREM HealthIsTold == Spec => []HealthIsTrue
<1>1. BeatInv => HealthIsTrue
  <2> SUFFICES ASSUME BeatInv PROVE HealthIsTrue
    OBVIOUS
  <2>1. \A s \in Services : ServiceStatus(s) \in {"healthy", "unhealthy"}
    BY DEF ServiceStatus
  <2>2. HeartbeatStatus \in {"healthy", "unhealthy", "degraded"}
    BY DEF HeartbeatStatus
  <2>3. CeleryStatus \in {"healthy", "unhealthy"}
    BY DEF CeleryStatus
  <2>4. Statuses \subseteq {"healthy", "unhealthy", "degraded"} /\ Statuses # {}
    BY <2>1, <2>2, <2>3 DEF Statuses, Services
  <2>5. Health = "healthy" <=> Statuses = {"healthy"}
    BY DEF Health
  <2>6. HealthDetailed = "healthy" <=> Statuses = {"healthy"}
    BY <2>4 DEF HealthDetailed
  <2>7. ASSUME Statuses = {"healthy"} PROVE up = Services /\ silent <= Fresh
    <3>1. /\ ServiceStatus("mongo") = "healthy" /\ ServiceStatus("redis") = "healthy"
          /\ HeartbeatStatus = "healthy" /\ CeleryStatus = "healthy"
      BY <2>7 DEF Statuses
    <3>2. {"mongo", "redis", "celery"} \subseteq up
      BY <3>1 DEF ServiceStatus, CeleryStatus
    <3>3. beat <= Fresh
      BY <3>1 DEF HeartbeatStatus
    <3>4. silent <= Fresh
      BY <3>3, WebAssumption DEF BeatInv
    <3> QED BY <3>2, <3>4 DEF Services, BeatInv
  <2> QED BY <2>5, <2>6, <2>7 DEF HealthIsTrue
<1> QED BY <1>1, Beats, PTL

\* A window ends when it would have, whoever asks meanwhile
\* (RateLimitingMiddleware).
THEOREM WindowsEnd == Spec => WindowEnds
<1>1. LeftInv /\ [Next]_vars =>
        [\A key \in Keys : left[key] > 0 => left'[key] <= left[key]]_vars
  <2> SUFFICES ASSUME LeftInv, Next, NEW key \in Keys, left[key] > 0
               PROVE  left'[key] <= left[key]
    BY DEF vars
  <2> USE WebAssumption DEF LeftInv
  <2>1. CASE \E c \in Clients : Dispatch(c)
    BY <2>1 DEF Dispatch, Hit
  <2>2. CASE Tick
    BY <2>2 DEF Tick
  <2>3. CASE Heartbeat \/ (\E p \in Processes : Toggle(p)) \/ (\E s \in Services : Switch(s))
    BY <2>3 DEF Heartbeat, Toggle, Switch
  <2> QED BY <2>1, <2>2, <2>3 DEF Next
<1> QED BY <1>1, Expiries, PTL DEF Spec, WindowEnds

----------------------------------------------------------------------------
(* The limits.  A window that runs began Window - left ticks ago with a    *)
(* request that passed; what it has let through since is counted, and what *)
(* the one before it let through is of no more than LimitOf(key) - 1, for  *)
(* the request that began that one is a window older than this one's.      *)

Slots == 0 .. Window - 1

Passed(key, ages) == SumFunctionOnSet(allowed[key], ages)

\* The key's window, if it runs.
Current(key) == 0 .. Window - left[key]
Before(key) == Window - left[key] + 1 .. Window - 1

CountInv ==
  /\ TypeOK
  /\ DOMAIN count = Keys

WindowInv(key) ==
  \/ /\ left[key] = 0 /\ count[key] = 0 /\ allowed[key][0] = 0
     /\ Passed(key, Slots) <= LimitOf(key) - 1
  \/ /\ left[key] > 0
     /\ Passed(key, Current(key)) <= count[key]
     /\ Passed(key, Current(key)) <= LimitOf(key)
     /\ allowed[key][Window - left[key]] > 0
     /\ Passed(key, Before(key)) <= LimitOf(key) - 1

LimitInv == CountInv /\ \A key \in Keys : WindowInv(key)

LEMMA Limits == \A key \in Keys : LimitOf(key) \in Nat \ {0}
BY WebAssumption DEF Keys, Rules, LimitOf

LEMMA KeyIsKey == \A c \in Clients : KeyOf(c) \in Keys
BY DEF KeyOf, Keys, Clients

LEMMA CountStep == CountInv /\ [Next]_vars => CountInv'
<1> SUFFICES ASSUME CountInv, [Next]_vars PROVE CountInv'
  OBVIOUS
<1> USE WebAssumption, Limits DEF CountInv, TypeOK
<1>1. CASE UNCHANGED vars
  BY <1>1 DEF vars
<1>2. ASSUME NEW c \in Clients, Dispatch(c) PROVE CountInv'
  <2> DEFINE key == KeyOf(c)
  <2>1. key \in Keys
    BY KeyIsKey
  <2>2. /\ Hit(key)
        /\ \/ allowed' = [allowed EXCEPT ![key][0] = @ + 1]
           \/ UNCHANGED allowed
        /\ stored' \in {stored, stored \union {c}, stored \ {c}}
        /\ UNCHANGED <<running, beat, silent, up>>
    BY <1>2 DEF Dispatch
  <2> HIDE DEF key
  <2>3. allowed' \in [Keys -> [0 .. Window - 1 -> Nat]]
    <3>1. 0 \in 0 .. Window - 1 /\ allowed[key] \in [0 .. Window - 1 -> Nat]
      BY <2>1
    <3>2. [allowed[key] EXCEPT ![0] = @ + 1] \in [0 .. Window - 1 -> Nat]
      BY <3>1
    <3>3. allowed' = [allowed EXCEPT ![key] = [allowed[key] EXCEPT ![0] = @ + 1]]
             \/ UNCHANGED allowed
      BY <2>2
    <3> QED BY <2>1, <3>2, <3>3
  <2>4. /\ DOMAIN count' = Keys
        /\ \A k \in Keys : count'[k] \in 0 .. LimitOf(k) + 1
        /\ left' \in [Keys -> 0 .. Window]
    BY <2>1, <2>2 DEF Hit
  <2> QED BY <2>2, <2>3, <2>4
<1>3. CASE Heartbeat
  BY <1>3 DEF Heartbeat
<1>4. CASE Tick
  <2>1. allowed' \in [Keys -> [0 .. Window - 1 -> Nat]]
    BY <1>4 DEF Tick
  <2>2. /\ DOMAIN count' = Keys
        /\ \A k \in Keys : count'[k] \in 0 .. LimitOf(k) + 1
        /\ left' \in [Keys -> 0 .. Window]
    BY <1>4 DEF Tick
  <2>3. beat' \in 0 .. KeyLife /\ silent' \in 0 .. KeyLife
    BY <1>4 DEF Tick, Older
  <2> QED BY <1>4, <2>1, <2>2, <2>3 DEF Tick
<1>5. CASE \E p \in Processes : Toggle(p)
  BY <1>5 DEF Toggle
<1>6. CASE \E s \in Services : Switch(s)
  BY <1>6 DEF Switch
<1> QED BY <1>1, <1>2, <1>3, <1>4, <1>5, <1>6 DEF Next

LEMMA InitCountInv == Init => CountInv
BY WebAssumption, Limits DEF Init, CountInv, TypeOK

\* The variables keep their types.
THEOREM Types == Spec => []TypeOK
<1>1. CountInv => TypeOK
  BY DEF CountInv
<1> QED BY InitCountInv, CountStep, <1>1, PTL DEF Spec

\* A tick later, every request is one slot on.
LEMMA AllOlder ==
  ASSUME NEW f \in [Slots -> Nat], NEW b \in Nat, b < Window,
         NEW g, \A age \in Slots : g[age] = IF age = 0 THEN 0 ELSE f[age - 1]
  PROVE  /\ SumFunctionOnSet(g, 0 .. b) = SumFunctionOnSet(f, 0 .. b - 1)
         /\ \A a \in Nat \ {0} :
              SumFunctionOnSet(g, a .. b) = SumFunctionOnSet(f, a - 1 .. b - 1)
<1>1. Window \in Nat
  BY WebAssumption
<1>2. ASSUME NEW a \in Nat \ {0}
      PROVE  SumFunctionOnSet(g, a .. b) = SumFunctionOnSet(f, a - 1 .. b - 1)
  <2>1. a - 1 \in Int /\ b - 1 \in Int /\ (a - 1) + 1 = a /\ (b - 1) + 1 = b
    OBVIOUS
  <2>2. \A x \in a - 1 .. b - 1 : f[x] \in Int /\ g[x + 1] = f[x]
    <3> SUFFICES ASSUME NEW x \in a - 1 .. b - 1 PROVE f[x] \in Int /\ g[x + 1] = f[x]
      OBVIOUS
    <3>1. x \in Slots /\ x + 1 \in Slots /\ x + 1 # 0 /\ (x + 1) - 1 = x
      BY <1>1 DEF Slots
    <3> QED BY <3>1
  <2> DEFINE c == a - 1
             d == b - 1
  <2>3. c \in Int /\ d \in Int /\ a = c + 1 /\ b = d + 1
    BY <2>1
  <2>4. \A x \in c .. d : f[x] \in Int /\ g[x + 1] = f[x]
    BY <2>2
  <2> HIDE DEF c, d
  <2>5. SumFunctionOnSet(g, a .. b) = SumFunctionOnSet(f, c .. d)
    BY ONLY <2>3, <2>4, SumShift
  <2> QED BY ONLY <2>5 DEF c, d
<1>3. SumFunctionOnSet(g, 0 .. b) = SumFunctionOnSet(g, 1 .. b)
  <2>1. IsFiniteSet(0 .. b) /\ IsFiniteSet(1 .. b)
    BY FS_Interval
  <2>2. (0 .. b) \ {0} = 1 .. b /\ 0 \in 0 .. b
    OBVIOUS
  <2>3. \A x \in 0 .. b : x \in Slots
    BY <1>1 DEF Slots
  <2>4. \A x \in Slots : g[x] \in Nat
    BY <1>1 DEF Slots
  <2>5. g[0] = 0
    BY <2>2, <2>3
  <2>6. \A x \in 0 .. b : g[x] \in Int
    BY <2>3, <2>4
  <2>7. SumFunctionOnSet(g, 0 .. b) = g[0] + SumFunctionOnSet(g, (0 .. b) \ {0})
    BY ONLY <2>1, <2>2, <2>6, SumRemove
  <2>8. \A x \in 1 .. b : g[x] \in Int
    BY <2>2, <2>6
  <2>9. SumFunctionOnSet(g, 1 .. b) \in Int
    BY ONLY <2>1, <2>8, SumType
  <2>10. SumFunctionOnSet(g, 0 .. b) = g[0] + SumFunctionOnSet(g, 1 .. b)
    BY ONLY <2>2, <2>7
  <2> QED BY ONLY <2>5, <2>9, <2>10
<1>4. SumFunctionOnSet(g, 1 .. b) = SumFunctionOnSet(f, 1 - 1 .. b - 1)
  BY <1>2
<1> QED BY <1>2, <1>3, <1>4

\* What a key was let through, in any of its slots.
LEMMA PassedNat ==
  ASSUME CountInv, NEW key \in Keys, NEW S \in SUBSET Slots
  PROVE  /\ allowed[key] \in [Slots -> Nat] /\ left[key] \in 0 .. Window
         /\ count[key] \in Nat /\ Window \in Nat \ {0} /\ LimitOf(key) \in Nat \ {0}
         /\ IsFiniteSet(S) /\ Passed(key, S) \in Nat
         /\ \A T \in SUBSET S : Passed(key, T) <= Passed(key, S)
         /\ \A x \in S : Passed(key, S) = allowed[key][x] + Passed(key, S \ {x})
<1>1. /\ allowed[key] \in [Slots -> Nat] /\ left[key] \in 0 .. Window
      /\ Window \in Nat \ {0} /\ LimitOf(key) \in Nat \ {0}
  BY WebAssumption, Limits DEF CountInv, TypeOK, Slots
<1>2. count[key] \in Nat
  BY <1>1 DEF CountInv, TypeOK
<1>3. IsFiniteSet(S)
  <2>1. IsFiniteSet(Slots)
    BY <1>1, FS_Interval DEF Slots
  <2> QED BY <2>1, FS_Subset
<1>4. \A x \in S : allowed[key][x] \in Nat /\ allowed[key][x] \in Int
  BY <1>1
<1>5. Passed(key, S) \in Nat
  BY ONLY <1>3, <1>4, SumNat DEF Passed
<1>6. \A T \in SUBSET S : Passed(key, T) <= Passed(key, S)
  BY ONLY <1>3, <1>4, SumSubset DEF Passed
<1>7. \A x \in S : Passed(key, S) = allowed[key][x] + Passed(key, S \ {x})
  BY ONLY <1>3, <1>4, SumRemove DEF Passed
<1> QED BY <1>1, <1>2, <1>3, <1>5, <1>6, <1>7

LEMMA DispatchLimits ==
  ASSUME CountInv, CountInv', NEW c \in Clients, Dispatch(c),
         NEW key \in Keys, WindowInv(key)
  PROVE  WindowInv(key)'
<1> DEFINE f == allowed[key]
           g == allowed'[key]
           L == LimitOf(key)
           W == Window
           l == left[key]
           Sum(h, S) == SumFunctionOnSet(h, S)
<1>1. /\ f \in [Slots -> Nat] /\ l \in 0 .. W /\ count[key] \in Nat
      /\ W \in Nat \ {0} /\ L \in Nat \ {0}
  BY PassedNat
<1>2. g \in [Slots -> Nat]
  BY DEF CountInv, TypeOK, Slots
<1>3. CASE key # KeyOf(c)
  <2>1. g = f /\ left'[key] = l /\ count'[key] = count[key]
    BY <1>3, KeyIsKey DEF Dispatch, Hit, CountInv, TypeOK
  <2> QED BY <2>1 DEF WindowInv, Passed, Current, Before, Slots
<1>4. CASE key = KeyOf(c) /\ ~ Passes(key)
  <2>1. count[key] >= L
    BY <1>1, <1>4 DEF Passes
  <2>2. g = f /\ left'[key] = IF l = 0 THEN W ELSE l
    BY <1>4, KeyIsKey DEF Dispatch, Hit, CountInv, TypeOK
  <2>3. count'[key] >= count[key] /\ count'[key] \in Nat
    BY <1>1, <1>4, KeyIsKey, Limits DEF Dispatch, Hit, CountInv, TypeOK
  <2>4. l > 0
    BY <1>1, <2>1 DEF WindowInv
  <2>5. left'[key] = l
    BY <1>1, <2>2, <2>4
  <2>6. Passed(key, Current(key)) \in Nat
    <3>1. Current(key) \in SUBSET Slots
      BY <1>1, <2>4 DEF Current, Slots
    <3> QED BY <3>1, PassedNat
  <2>7. /\ Current(key)' = Current(key) /\ Before(key)' = Before(key)
        /\ \A S : Passed(key, S)' = SumFunctionOnSet(f, S)
    BY <2>2, <2>5 DEF Current, Before, Passed
  <2> QED BY <1>1, <2>2, <2>3, <2>4, <2>5, <2>6, <2>7 DEF WindowInv, Passed
<1>5. CASE key = KeyOf(c) /\ Passes(key)
  <2>1. count[key] < L
    BY <1>5 DEF Passes
  <2>2. /\ count'[key] = count[key] + 1
        /\ left'[key] = IF l = 0 THEN W ELSE l
    BY <1>1, <1>5, <2>1, KeyIsKey DEF Dispatch, Hit, CountInv, TypeOK
  <2>3. g = [f EXCEPT ![0] = @ + 1]
    BY <1>5, KeyIsKey DEF Dispatch, CountInv, TypeOK
  <2>4. 0 \in Slots
    BY <1>1 DEF Slots
  <2>5. ASSUME NEW S \in SUBSET Slots, 0 \in S PROVE Sum(g, S) = Sum(f, S) + 1
    <3>1. IsFiniteSet(S)
      BY PassedNat
    <3>2. (\A x \in S : f[x] \in Int) /\ g[0] = f[0] + 1 /\ \A x \in S \ {0} : g[x] = f[x]
      BY <1>1, <2>3, <2>4
    <3> HIDE DEF f, g
    <3> QED BY ONLY <3>1, <3>2, 0 \in S, SumBump
  <2>6. ASSUME NEW S \in SUBSET Slots, 0 \notin S PROVE Sum(g, S) = Sum(f, S)
    <3>1. IsFiniteSet(S)
      BY PassedNat
    <3>2. \A x \in S : f[x] \in Int /\ g[x] = f[x]
      BY <1>1, <2>3, <2>4, <2>6
    <3> HIDE DEF f, g
    <3> QED BY ONLY <3>1, <3>2, SumSame
  <2>7. CASE l = 0
    <3>1. count[key] = 0 /\ f[0] = 0 /\ Sum(f, Slots) <= L - 1
      BY <1>1, <2>7 DEF WindowInv, Passed
    <3>2. left'[key] = W /\ count'[key] = 1
      BY <2>2, <2>7, <3>1
    <3>3. Current(key)' = {0} /\ Before(key)' = Slots \ {0}
      BY <1>1, <3>2 DEF Current, Before, Slots
    <3>4. Sum(g, {0}) = Sum(f, {0}) + 1
      BY <2>4, <2>5
    <3>5. Sum(f, {0}) = 0
      <4>1. Sum(f, {0}) = f[0] + Sum(f, {0} \ {0})
        BY <2>4, PassedNat DEF Passed
      <4>2. {0} \ {0} = {} /\ Sum(f, {}) = 0
        BY SumEmpty
      <4> QED BY <3>1, <4>1, <4>2
    <3>6. Sum(g, Slots \ {0}) = Sum(f, Slots \ {0})
      BY <2>6
    <3>7. Sum(f, Slots \ {0}) <= Sum(f, Slots) /\ Sum(f, Slots \ {0}) \in Nat /\ Sum(f, Slots) \in Nat
      BY PassedNat DEF Passed
    <3>8. g[0] = 1
      BY <1>1, <2>3, <2>4, <3>1
    <3> HIDE DEF f, g
    <3>9. /\ Sum(g, {0}) <= 1 /\ Sum(g, {0}) <= L
          /\ Sum(g, Slots \ {0}) <= L - 1
      BY <1>1, <3>1, <3>4, <3>5, <3>6, <3>7
    <3>10. W - W = 0 /\ W > 0
      BY <1>1
    <3> QED BY <3>2, <3>3, <3>8, <3>9, <3>10 DEF WindowInv, Passed, f, g
  <2>8. CASE l > 0
    <3>1. /\ Sum(f, Current(key)) <= count[key] /\ f[W - l] > 0
          /\ Sum(f, Before(key)) <= L - 1
      BY <1>1, <2>8 DEF WindowInv, Passed
    <3>2. left'[key] = l /\ Current(key)' = Current(key) /\ Before(key)' = Before(key)
      BY <1>1, <2>2, <2>8 DEF Current, Before
    <3>3. /\ Current(key) \in SUBSET Slots /\ 0 \in Current(key)
          /\ Before(key) \in SUBSET Slots /\ 0 \notin Before(key)
          /\ W - l \in Slots
      BY <1>1, <2>8 DEF Current, Before, Slots
    <3>4. Sum(g, Current(key)) = Sum(f, Current(key)) + 1 /\ Sum(f, Current(key)) \in Nat
      BY <2>5, <3>3, PassedNat DEF Passed
    <3>5. Sum(g, Before(key)) = Sum(f, Before(key))
      BY <2>6, <3>3
    <3>6. g[W - l] > 0
      BY <1>1, <2>3, <2>4, <3>1, <3>3
    <3> HIDE DEF f, g
    <3>7. Sum(g, Current(key)) <= count'[key] /\ Sum(g, Current(key)) <= L
      BY <1>1, <2>1, <2>2, <3>1, <3>4
    <3> QED BY <2>8, <3>1, <3>2, <3>5, <3>6, <3>7 DEF WindowInv, Passed, f, g
  <2> QED BY <1>1, <2>7, <2>8
<1> QED BY <1>3, <1>4, <1>5

LEMMA TickLimits ==
  ASSUME CountInv, CountInv', Tick, NEW key \in Keys, WindowInv(key)
  PROVE  WindowInv(key)'
<1> DEFINE f == allowed[key]
           g == allowed'[key]
           L == LimitOf(key)
           W == Window
           l == left[key]
           Sum(h, S) == SumFunctionOnSet(h, S)
<1>1. /\ f \in [Slots -> Nat] /\ l \in 0 .. W /\ count[key] \in Nat
      /\ W \in Nat \ {0} /\ L \in Nat \ {0}
  BY PassedNat
<1>2. /\ \A age \in Slots : g[age] = IF age = 0 THEN 0 ELSE f[age - 1]
      /\ left'[key] = IF l > 0 THEN l - 1 ELSE 0
      /\ count'[key] = IF l > 1 THEN count[key] ELSE 0
  BY DEF Tick, Slots
<1>3. g[0] = 0
  BY <1>1, <1>2 DEF Slots
<1>4. ASSUME NEW b \in Nat, b < W
      PROVE  /\ Sum(g, 0 .. b) = Sum(f, 0 .. b - 1)
             /\ \A a \in Nat \ {0} : Sum(g, a .. b) = Sum(f, a - 1 .. b - 1)
  <2> HIDE DEF f, g
  <2>1. \A age \in Slots : g[age] = IF age = 0 THEN 0 ELSE f[age - 1]
    BY <1>2
  <2> QED BY <1>1, <1>4, <2>1, AllOlder
<1>5. Sum(g, Slots) = Sum(f, Slots \ {W - 1})
  <2>1. W - 1 \in Nat /\ W - 1 < W /\ Slots = 0 .. W - 1 /\ Slots \ {W - 1} = 0 .. (W - 1) - 1
    BY <1>1 DEF Slots
  <2> QED BY <1>4, <2>1
<1>6. Sum(f, Slots) = f[W - 1] + Sum(f, Slots \ {W - 1}) /\ Sum(f, Slots \ {W - 1}) \in Nat
  <2>1. W - 1 \in Slots
    BY <1>1 DEF Slots
  <2> QED BY <2>1, PassedNat DEF Passed
<1>7. CASE l = 0
  <2>1. Sum(f, Slots) <= L - 1 /\ f[W - 1] \in Nat
    BY <1>1, <1>7 DEF WindowInv, Passed, Slots
  <2>2. left'[key] = 0 /\ count'[key] = 0
    BY <1>2, <1>7
  <2> HIDE DEF f, g
  <2>3. Sum(g, Slots) <= L - 1
    BY <1>1, <1>5, <1>6, <2>1
  <2> QED BY <1>3, <2>2, <2>3 DEF WindowInv, Passed, f, g, Slots
<1>8. CASE l = 1
  <2>1. Current(key) = Slots /\ W - l = W - 1 /\ W - 1 \in Slots
    BY <1>1, <1>8 DEF Current, Slots
  <2>2. Sum(f, Slots) <= L /\ f[W - 1] > 0 /\ f[W - 1] \in Nat
    BY <1>1, <1>8, <2>1 DEF WindowInv, Passed
  <2>3. left'[key] = 0 /\ count'[key] = 0
    BY <1>2, <1>8
  <2> HIDE DEF f, g
  <2>4. Sum(g, Slots) <= L - 1
    BY <1>1, <1>5, <1>6, <2>2
  <2> QED BY <1>3, <2>3, <2>4 DEF WindowInv, Passed, f, g, Slots
<1>9. CASE l > 1
  <2>1. /\ Sum(f, Current(key)) <= count[key] /\ Sum(f, Current(key)) <= L /\ f[W - l] > 0
        /\ Sum(f, Before(key)) <= L - 1
    BY <1>1, <1>9 DEF WindowInv, Passed
  <2>2. left'[key] = l - 1 /\ count'[key] = count[key]
    BY <1>1, <1>2, <1>9
  <2> DEFINE b == (W - l) + 1
  <2>3. /\ b \in Nat /\ b < W /\ W - (l - 1) = b /\ b \in Slots /\ b # 0 /\ b - 1 = W - l
        /\ Current(key)' = 0 .. b /\ Current(key) = 0 .. b - 1
        /\ Before(key)' = b + 1 .. W - 1 /\ Before(key) = b .. W - 1
        /\ b .. (W - 1) - 1 \in SUBSET Before(key) /\ Before(key) \in SUBSET Slots
        /\ b + 1 \in Nat \ {0} /\ (b + 1) - 1 = b /\ W - 1 \in Nat /\ W - 1 < W
    BY <1>1, <1>9, <2>2, SMTT(20) DEF Current, Before, Slots
  <2> HIDE DEF b
  <2>4. Sum(g, 0 .. b) = Sum(f, 0 .. b - 1)
    BY <1>4, <2>3
  <2>5. Sum(g, b + 1 .. W - 1) = Sum(f, b .. (W - 1) - 1)
    BY <1>4, <2>3
  <2>6. g[b] = f[b - 1]
    BY <1>2, <2>3
  <2>7. /\ Sum(f, b .. (W - 1) - 1) <= Sum(f, Before(key)) /\ Sum(f, Before(key)) \in Nat
        /\ Sum(f, b .. (W - 1) - 1) \in Nat
    <3>1. b .. (W - 1) - 1 \in SUBSET Slots
      BY <2>3
    <3> QED BY <2>3, <3>1, PassedNat DEF Passed
  <2> HIDE DEF f, g
  <2>8. /\ Sum(g, 0 .. b) <= count'[key] /\ Sum(g, 0 .. b) <= L
        /\ g[b] > 0
    BY <2>1, <2>2, <2>3, <2>4, <2>6
  <2>9. Sum(g, b + 1 .. W - 1) <= L - 1
    BY <1>1, <2>1, <2>5, <2>7
  <2>10. left'[key] > 0 /\ W - left'[key] = b
    BY <1>1, <1>9, <2>2, <2>3
  <2> QED BY <2>3, <2>8, <2>9, <2>10 DEF WindowInv, Passed, f, g
<1> QED BY <1>1, <1>7, <1>8, <1>9

LEMMA LimitStep == LimitInv /\ [Next]_vars => LimitInv'
<1> SUFFICES ASSUME LimitInv, [Next]_vars, NEW key \in Keys, CountInv'
             PROVE  WindowInv(key)'
  BY CountStep DEF LimitInv, Keys, Clients, LimitOf
<1>1. CountInv /\ WindowInv(key)
  BY DEF LimitInv
<1>2. CASE \E c \in Clients : Dispatch(c)
  BY <1>1, <1>2, DispatchLimits
<1>3. CASE Tick
  BY <1>1, <1>3, TickLimits
<1>4. CASE UNCHANGED <<count, left, allowed>>
  BY <1>1, <1>4 DEF WindowInv, Passed, Current, Before
<1> QED BY <1>2, <1>3, <1>4 DEF Next, vars, Heartbeat, Toggle, Switch

LEMMA InitLimitInv == Init => LimitInv
<1> SUFFICES ASSUME Init, NEW key \in Keys PROVE WindowInv(key)
  BY InitCountInv DEF LimitInv
<1>1. /\ left[key] = 0 /\ count[key] = 0
      /\ \A x \in Slots : allowed[key][x] = 0
      /\ 0 \in Slots
  BY WebAssumption DEF Init, Slots
<1>2. CountInv /\ LimitOf(key) \in Nat \ {0}
  BY InitCountInv, Limits
<1> DEFINE Zero == {S \in SUBSET Slots : Passed(key, S) = 0}
<1>3. IsFiniteSet(Slots) /\ {} \in Zero
  BY SumEmpty, <1>2, PassedNat DEF Passed
<1>4. ASSUME NEW T \in SUBSET Slots, NEW x \in Slots \ T, T \in Zero PROVE T \cup {x} \in Zero
  <2>1. Passed(key, T \cup {x}) = allowed[key][x] + Passed(key, (T \cup {x}) \ {x})
    BY <1>2, PassedNat
  <2>2. (T \cup {x}) \ {x} = T /\ Passed(key, T) = 0 /\ allowed[key][x] = 0
    BY <1>1, <1>4
  <2> QED BY <2>1, <2>2
<1>5. Slots \in Zero
  <2> HIDE DEF Zero
  <2> QED BY ONLY <1>3, <1>4, SubsetInduction
<1> QED BY <1>1, <1>2, <1>5 DEF WindowInv

\* No minute, wherever it begins, lets a key through more than twice its limit
\* less one, for any clients, limits and length of the window
\* (RateLimitingMiddleware).
THEOREM LimitsTwice == Spec => []TwiceTheLimit
<1>1. LimitInv => TwiceTheLimit
  <2> SUFFICES ASSUME LimitInv, NEW key \in Keys
               PROVE  SumFunction(allowed[key]) <= 2 * LimitOf(key) - 1
    BY DEF TwiceTheLimit
  <2> DEFINE L == LimitOf(key)
  <2>1. CountInv /\ WindowInv(key)
    BY DEF LimitInv
  <2>2. /\ allowed[key] \in [Slots -> Nat] /\ left[key] \in 0 .. Window
        /\ Window \in Nat \ {0} /\ L \in Nat \ {0}
    BY <2>1, PassedNat
  <2>3. SumFunction(allowed[key]) = Passed(key, Slots)
    BY <2>2 DEF SumFunction, Passed
  <2>4. CASE left[key] = 0
    <3>1. Passed(key, Slots) <= L - 1 /\ Passed(key, Slots) \in Nat
      BY <2>1, <2>2, <2>4, PassedNat DEF WindowInv
    <3> QED BY <2>2, <2>3, <3>1
  <2>5. CASE left[key] > 0
    <3>1. Passed(key, Current(key)) <= L /\ Passed(key, Before(key)) <= L - 1
      BY <2>1, <2>2, <2>5 DEF WindowInv
    <3>2. /\ Current(key) \in SUBSET Slots /\ Before(key) \in SUBSET Slots
          /\ Current(key) \cap Before(key) = {} /\ Slots = Current(key) \cup Before(key)
      BY <2>2, <2>5 DEF Current, Before, Slots
    <3>3. /\ IsFiniteSet(Current(key)) /\ Passed(key, Current(key)) \in Nat
          /\ IsFiniteSet(Before(key)) /\ Passed(key, Before(key)) \in Nat
      BY <2>1, <3>2, PassedNat
    <3>4. \A x \in Slots : allowed[key][x] \in Int
      BY <2>2
    <3>5. Passed(key, Slots) = Passed(key, Current(key)) + Passed(key, Before(key))
      BY ONLY <3>2, <3>3, <3>4, SumUnion DEF Passed
    <3> QED BY <2>2, <2>3, <3>1, <3>3, <3>5
  <2> QED BY <2>2, <2>4, <2>5
<1> QED BY <1>1, InitLimitInv, LimitStep, PTL DEF Spec
=============================================================================
