----------------------- MODULE OpenAIThrottle_proofs -----------------------
(***************************************************************************)
(* Proofs about the throttle, for any numbers of callers, any limits and   *)
(* any intervals.                                                          *)
(***************************************************************************)
EXTENDS OpenAIThrottle, DataTheorems

\* Who is asleep inside the interval's lock holds it, and wakes no sooner than
\* the interval is over: what makes CallsSpaced hold.
Spacing ==
  \A c \in Callers : pc[c] = "spacing" => rateLock = c /\ timer[c] + since >= Interval

\* Only counted requests are asked for their tokens and retried.
CountedOnly ==
  \A c \in Callers : pc[c] \in {"quota", "overQuota", "backoff"} => tokens[c] # Script

IInv == TypeOK /\ Spacing /\ CountedOnly

\* The estimates are numbers.
LEMMA EstimatesNat == Estimates \subseteq Nat
BY ThrottleAssumption DEF Estimates, EstimateTokens

LEMMA IndexSets ==
  ASSUME NEW n \in Nat, NEW S \in SUBSET (1 .. n)
  PROVE  Cardinality(S) \in Nat
<1>1. IsFiniteSet(1 .. n)
  BY FS_Interval
<1> QED BY <1>1, FS_Subset, FS_CardinalityType

\* Dropping the heads of a sequence leaves a sequence that is no longer.
LEMMA Dropped ==
  ASSUME NEW T, NEW s \in Seq(T), NEW k \in Nat
  PROVE  /\ SubSeq(s, k + 1, Len(s)) \in Seq(T)
         /\ Len(SubSeq(s, k + 1, Len(s))) <= Len(s)
<1>1. CASE k + 1 > Len(s)
  BY <1>1
<1>2. CASE k + 1 <= Len(s)
  BY <1>2
<1> QED BY <1>1, <1>2

LEMMA PrunedType ==
  ASSUME window \in Seq(Entry)
  PROVE  Pruned \in Seq(Entry) /\ Len(Pruned) <= Len(window)
<1> DEFINE stale == {i \in DOMAIN window : \A j \in 1 .. i : window[j].age > Window}
<1>1. Cardinality(stale) \in Nat
  <2>1. DOMAIN window = 1 .. Len(window) /\ Len(window) \in Nat
    OBVIOUS
  <2>2. stale \in SUBSET (1 .. Len(window))
    BY <2>1
  <2> QED BY <2>1, <2>2, IndexSets
<1>2. Pruned = SubSeq(window, Cardinality(stale) + 1, Len(window))
  BY DEF Pruned, WithoutHeads
<1> HIDE DEF stale
<1> QED BY <1>1, <1>2, Dropped

LEMMA AgedType ==
  ASSUME NEW log \in Seq(SentEntry)
  PROVE  Quota!Aged(log) \in Seq(SentEntry)
<1> DEFINE older == [i \in DOMAIN log |-> [log[i] EXCEPT !.age = @ + 1]]
           gone == {i \in DOMAIN log : older[i].age > Window}
<1>1. DOMAIN log = 1 .. Len(log) /\ Len(log) \in Nat
  OBVIOUS
<1>2. \A i \in DOMAIN log : older[i] \in SentEntry
  <2> SUFFICES ASSUME NEW i \in DOMAIN log PROVE [log[i] EXCEPT !.age = @ + 1] \in SentEntry
    OBVIOUS
  <2>1. log[i] \in SentEntry
    OBVIOUS
  <2> QED BY <2>1 DEF SentEntry
<1>3. older \in Seq(SentEntry)
  BY <1>1, <1>2
<1>4. Quota!Cardinality(gone) \in Nat
  <2>1. gone \in SUBSET (1 .. Len(log))
    BY <1>1
  <2> QED BY <1>1, <2>1, IndexSets DEF Quota!Cardinality, Cardinality
<1>5. Quota!Aged(log) = SubSeq(older, Quota!Cardinality(gone) + 1, Len(older))
  BY DEF Quota!Aged
<1> HIDE DEF older, gone
<1> QED BY <1>3, <1>4, <1>5, Dropped

LEMMA Appended ==
  ASSUME NEW T, NEW s \in Seq(T), NEW e \in T
  PROVE  Append(s, e) \in Seq(T)
OBVIOUS

LEMMA DelaysNat == \A n : Delays(n) \subseteq Nat
<1>1. \A n : {t \in 0 .. MaxDelay : t = Backoff(n)} \subseteq Nat
  <2> DEFINE S(n) == {t \in 0 .. MaxDelay : t = Backoff(n)}
  <2>1. \A n : S(n) \subseteq 0 .. MaxDelay
    OBVIOUS
  <2>2. 0 .. MaxDelay \subseteq Nat
    BY ThrottleAssumption
  <2> QED BY <2>1, <2>2, Zenon
<1>2. RetryAfters \subseteq Nat
  BY ThrottleAssumption
<1> QED BY <1>1, <1>2, Zenon DEF Delays

\* The steps of one caller keep the invariant.
LEMMA CallerStep ==
  ASSUME IInv, NEW c \in Callers,
         Request(c) \/ Work(c) \/ Answer(c) \/ Refuse(c)
  PROVE  IInv'
<1> USE EstimatesNat, ThrottleAssumption
    DEF IInv, TypeOK, Spacing, CountedOnly, Goes, Sleeps, Inside, Script
<1>1. CASE Request(c)
  BY <1>1 DEF Request
<1>2. CASE Admit(c)
  BY <1>2 DEF Admit
<1>3. CASE BeginSpacing(c)
  BY <1>3 DEF BeginSpacing
<1>4. CASE EndSpacing(c)
  <2>1. Quota!Sent(0, FALSE) \in SentEntry
    BY DEF Quota!Sent, SentEntry
  <2>2. sent \in Seq(SentEntry)
    OBVIOUS
  <2>3. Append(sent, Quota!Sent(0, FALSE)) \in Seq(SentEntry)
    BY <2>1, <2>2, Appended
  <2>4. sent' \in Seq(SentEntry)
    <3>1. sent' = sent \/ sent' = Append(sent, Quota!Sent(0, FALSE))
      BY <1>4 DEF EndSpacing
    <3> QED BY <2>2, <2>3, <3>1
  <2>5. timer[c] = 0 /\ timer \in [Callers -> Nat] /\ timer' = timer
    BY <1>4 DEF EndSpacing
  <2>6. \A d \in Callers : pc'[d] = "spacing" => pc[d] = "spacing" /\ d # c
    BY <1>4 DEF EndSpacing
  <2>7. Spacing'
    BY <1>4, <2>6 DEF EndSpacing
  <2>8. TypeOK'
    <3>1. pc' = [pc EXCEPT ![c] = "calling"] \/ pc' = [pc EXCEPT ![c] = "quota"]
      BY <1>4 DEF EndSpacing
    <3>2. pc' \in [Callers -> Inside \union {"idle", "queued", "backoff"}]
      BY <3>1
    <3>3. /\ rateLock' = NoCaller /\ since' = 0
          /\ UNCHANGED <<tokens, attempt, timer, windowLock, window>>
      BY <1>4 DEF EndSpacing
    <3> QED BY <2>4, <3>2, <3>3
  <2>9. CountedOnly'
    BY <1>4 DEF EndSpacing
  <2> QED BY <2>7, <2>8, <2>9
<1>5. CASE CountRequest(c)
  <2>1. tokens[c] \in Nat
    BY <1>5 DEF CountRequest
  <2>2. Quota!Sent(tokens[c], TRUE) \in SentEntry /\ [age |-> 0, tokens |-> tokens[c]] \in Entry
    BY <2>1 DEF Quota!Sent, SentEntry, Entry
  <2>3. sent' \in Seq(SentEntry)
    BY <1>5, <2>2, Appended DEF CountRequest
  <2>4. window' \in Seq(Entry)
    BY <1>5, <2>2, PrunedType, Appended DEF CountRequest
  <2> QED BY <1>5, <2>3, <2>4 DEF CountRequest
<1>6. CASE MeetQuota(c)
  <2>1. Pruned \in Seq(Entry)
    BY PrunedType
  <2>2. Pruned # <<>> => Head(Pruned).age \in Nat
    <3>1. Pruned # <<>> => Head(Pruned) \in Entry
      BY <2>1
    <3> QED BY <3>1 DEF Entry
  <2>3. timer' \in [Callers -> Nat]
    BY <1>6, <2>2 DEF MeetQuota, Positive
  <2> QED BY <1>6, <2>1, <2>3 DEF MeetQuota
<1>7. CASE AskAgain(c)
  BY <1>7 DEF AskAgain
<1>8. CASE Retry(c)
  BY <1>8 DEF Retry
<1>9. CASE Answer(c)
  BY <1>9 DEF Answer, Ends
<1>10. CASE Refuse(c)
  <2>0. /\ tokens[c] # Script
        /\ UNCHANGED <<rateLock, windowLock, since, window, sent>>
    BY <1>10 DEF Refuse
  <2>1. CASE attempt[c] = MaxRetries
    <3>1. Ends(c) /\ timer' = timer
      BY <1>10, <2>1 DEF Refuse
    <3> QED BY <2>0, <3>1 DEF Ends
  <2>2. CASE attempt[c] < MaxRetries
    <3>1. PICK ticks \in Delays(attempt[c] + 1) : timer' = [timer EXCEPT ![c] = ticks]
      BY <1>10, <2>2 DEF Refuse
    <3>2. ticks \in Nat
      BY DelaysNat
    <3>3. /\ pc' = [pc EXCEPT ![c] = "backoff"]
          /\ attempt' = [attempt EXCEPT ![c] = @ + 1]
          /\ tokens' = tokens
      BY <1>10, <2>2 DEF Refuse
    <3>4. TypeOK'
      BY <2>0, <2>2, <3>1, <3>2, <3>3
    <3>5. Spacing'
      BY <2>0, <3>1, <3>3
    <3>6. CountedOnly'
      BY <2>0, <3>3
    <3> QED BY <3>4, <3>5, <3>6
  <2>3. attempt[c] = MaxRetries \/ attempt[c] < MaxRetries
    BY <1>10 DEF Refuse
  <2> QED BY <2>1, <2>2, <2>3
<1> QED BY <1>1, <1>2, <1>3, <1>4, <1>5, <1>6, <1>7, <1>8, <1>9, <1>10 DEF Work

\* So does the passing of time: sleeps get shorter as the last call gets older.
LEMMA TickStep == IInv /\ Tick => IInv'
<1> SUFFICES ASSUME IInv, Tick PROVE IInv'
  OBVIOUS
<1> USE ThrottleAssumption DEF IInv, TypeOK, Tick
<1>1. sent' \in Seq(SentEntry)
  BY AgedType
<1>2. window' \in Seq(Entry)
  <2>1. DOMAIN window = 1 .. Len(window) /\ Len(window) \in Nat
    OBVIOUS
  <2>2. ASSUME NEW i \in DOMAIN window
        PROVE  [window[i] EXCEPT !.age = Older(@)] \in Entry
    <3>1. window[i] \in Entry
      BY <2>1
    <3>2. Older(window[i].age) \in Nat
      BY <3>1 DEF Older, Entry
    <3> QED BY <3>1, <3>2 DEF Entry
  <2> QED BY <2>1, <2>2, SMTT(20)
<1>3. since' \in 0 .. Interval
  OBVIOUS
<1>timer. timer' \in [Callers -> Nat]
  <2>1. \A c \in Callers : Positive(timer[c] - 1) \in Nat
    BY DEF Positive
  <2> QED BY <2>1
<1>4. TypeOK'
  BY <1>1, <1>2, <1>3, <1>timer
<1>5. Spacing'
  BY SMTT(20) DEF Spacing, Positive
<1>6. CountedOnly'
  BY DEF CountedOnly
<1> QED BY <1>4, <1>5, <1>6

\* The invariant, for any number of callers.
LEMMA Invariance == Spec => []IInv
<1>1. Init => IInv
  BY EstimatesNat, ThrottleAssumption
     DEF Init, IInv, TypeOK, Spacing, CountedOnly, Inside
<1>2. IInv /\ [Next]_vars => IInv'
  <2> SUFFICES ASSUME IInv, [Next]_vars PROVE IInv'
    OBVIOUS
  <2>1. CASE UNCHANGED vars
    BY <2>1 DEF vars, IInv, TypeOK, Spacing, CountedOnly
  <2>2. CASE Tick
    BY <2>2, TickStep
  <2>3. CASE \E c \in Callers : Request(c) \/ Work(c) \/ Answer(c) \/ Refuse(c)
    BY <2>3, CallerStep
  <2> QED BY <2>1, <2>2, <2>3 DEF Next
<1> QED BY <1>1, <1>2, PTL DEF Spec

\* The variables keep their types.
THEOREM Types == Spec => []TypeOK
BY Invariance, PTL DEF IInv

\* No caller goes past the interval sooner than an interval after the last one
\* that did, however many wait (apply_openai_rate_limit).
THEOREM Spaced == Spec => CallsSpaced
<1>1. IInv /\ [Next]_vars =>
        [\A c \in Callers : pc[c] = "spacing" /\ pc'[c] # "spacing" => since = Interval]_vars
  <2> SUFFICES ASSUME IInv, Next, NEW c \in Callers, pc[c] = "spacing", pc'[c] # "spacing"
               PROVE since = Interval
    BY DEF vars
  <2> USE DEF IInv, TypeOK
  <2>1. CASE Tick
    BY <2>1 DEF Tick
  <2>2. ASSUME NEW d \in Callers, Request(d) \/ Work(d) \/ Answer(d) \/ Refuse(d)
        PROVE  d = c /\ EndSpacing(c)
    BY <2>2 DEF Request, Work, Admit, BeginSpacing, EndSpacing, CountRequest,
                MeetQuota, AskAgain, Retry, Answer, Refuse, Goes, Ends
  <2>3. EndSpacing(c) => since = Interval
    BY ThrottleAssumption DEF EndSpacing, Spacing
  <2> QED BY <2>1, <2>2, <2>3 DEF Next
<1> QED BY <1>1, Invariance, PTL DEF Spec, CallsSpaced

\* Whoever meets the quota keeps the window's lock for good, and nothing is
\* counted from then on (_wait_for_quota).
THEOREM QuotaStops == Spec => QuotaStopsCounting
<1>1. IInv /\ [Next]_vars =>
        [windowLock # NoCaller =>
           windowLock' = windowLock /\ Len(window') <= Len(window)]_vars
  <2> SUFFICES ASSUME IInv, Next, windowLock # NoCaller
               PROVE windowLock' = windowLock /\ Len(window') <= Len(window)
    BY DEF vars
  <2> USE DEF IInv, TypeOK
  <2>1. Len(window) \in Nat
    OBVIOUS
  <2>2. CASE Tick
    <3>1. Len(window') = Len(window)
      BY <2>2 DEF Tick
    <3> QED BY <2>1, <2>2, <3>1 DEF Tick
  <2>3. ASSUME NEW d \in Callers, Request(d) \/ Work(d) \/ Answer(d) \/ Refuse(d)
        PROVE  UNCHANGED <<windowLock, window>>
    BY <2>3 DEF Request, Work, Admit, BeginSpacing, EndSpacing, CountRequest,
                MeetQuota, AskAgain, Retry, Answer, Refuse
  <2> QED BY <2>1, <2>2, <2>3 DEF Next
<1> QED BY <1>1, Invariance, PTL DEF Spec, QuotaStopsCounting

----------------------------------------------------------------------------
(* The weight of the entries of a log that are no older than a limit: their *)
(* number or their tokens, as the weights say.                             *)

Recent(log, limit) == {i \in DOMAIN log : log[i].age <= limit}
Weighed(log, w) == [i \in DOMAIN log |-> w[log[i]]]
Weight(log, w, limit) == SumFunctionOnSet(Weighed(log, w), Recent(log, limit))

Weighable(log, w) == log \in Seq(DOMAIN w) /\ w \in [DOMAIN w -> Nat]

LEMMA WeightFacts ==
  ASSUME NEW w, NEW log, Weighable(log, w), NEW limit
  PROVE  /\ IsFiniteSet(Recent(log, limit))
         /\ \A i \in DOMAIN log : Weighed(log, w)[i] = w[log[i]] /\ w[log[i]] \in Nat
         /\ Weight(log, w, limit) \in Nat
<1>1. DOMAIN log = 1 .. Len(log) /\ Len(log) \in Nat
  BY DEF Weighable
<1>2. IsFiniteSet(Recent(log, limit))
  <2>1. IsFiniteSet(1 .. Len(log))
    BY <1>1, FS_Interval
  <2>2. Recent(log, limit) \in SUBSET (1 .. Len(log))
    BY <1>1 DEF Recent
  <2> QED BY ONLY <2>1, <2>2, FS_Subset
<1>3. \A i \in DOMAIN log : Weighed(log, w)[i] = w[log[i]] /\ w[log[i]] \in Nat
  BY DEF Weighed, Weighable
<1>4. \A i \in Recent(log, limit) : Weighed(log, w)[i] \in Nat
  BY <1>3 DEF Recent
<1>5. Weight(log, w, limit) \in Nat
  BY ONLY <1>2, <1>4, SumNat DEF Weight
<1> QED BY <1>2, <1>3, <1>5

\* The recent entries of one log are those of another, k places on.
Moves(log, w, a, new, v, b, k) ==
  /\ Weighable(log, w) /\ Weighable(new, v) /\ k \in Nat
  /\ \A i \in Recent(log, a) : i - k \in Recent(new, b) /\ v[new[i - k]] = w[log[i]]
  /\ \A j \in Recent(new, b) : j + k \in Recent(log, a)

LEMMA WeightMoved ==
  ASSUME NEW log, NEW w, NEW a, NEW new, NEW v, NEW b, NEW k,
         Moves(log, w, a, new, v, b, k)
  PROVE  Weight(new, v, b) = Weight(log, w, a)
<1> DEFINE S == Recent(log, a)
           R == Recent(new, b)
           f == Weighed(log, w)
           g == Weighed(new, v)
           back == [i \in S |-> i - k]
<1>1. /\ IsFiniteSet(S) /\ S \subseteq Int /\ R \subseteq Int /\ k \in Nat
      /\ S \subseteq DOMAIN log /\ R \subseteq DOMAIN new
  <2>1. IsFiniteSet(S)
    BY WeightFacts DEF Moves
  <2>2. Weighable(log, w) /\ Weighable(new, v) /\ k \in Nat
    BY DEF Moves
  <2>3. DOMAIN log \subseteq Int /\ DOMAIN new \subseteq Int
    BY <2>2 DEF Weighable
  <2> QED BY <2>1, <2>2, <2>3 DEF Recent
<1>2. \A i \in DOMAIN log : f[i] = w[log[i]] /\ w[log[i]] \in Nat
  BY WeightFacts DEF Moves
<1>3. \A j \in DOMAIN new : g[j] = v[new[j]]
  BY DEF Weighed
<1>4. \A i \in S : back[i] \in R /\ f[i] \in Int /\ g[back[i]] = f[i]
  <2> SUFFICES ASSUME NEW i \in S PROVE back[i] \in R /\ f[i] \in Int /\ g[back[i]] = f[i]
    OBVIOUS
  <2> HIDE DEF f, g
  <2>1. back[i] = i - k /\ i - k \in R /\ v[new[i - k]] = w[log[i]]
    BY DEF Moves
  <2> QED BY <1>1, <1>2, <1>3, <2>1
<1>5. back \in [S -> R]
  BY <1>4
<1>6. \A i \in S : \A j \in S : back[i] = back[j] => i = j
  BY <1>1
<1>7. ASSUME NEW j \in R PROVE \E i \in S : back[i] = j
  <2>1. j + k \in S /\ (j + k) - k = j
    BY <1>1 DEF Moves
  <2> QED BY <2>1
<1> HIDE DEF back
<1>8. back \in Bijection(S, R)
  BY <1>5, <1>6, <1>7 DEF Bijection, Injection, Surjection, IsInjective
<1> HIDE DEF S, R, f, g
<1>9. IsFiniteSet(S) /\ \A i \in S : f[i] \in Int /\ g[back[i]] = f[i]
  BY <1>1, <1>4
<1>10. SumFunctionOnSet(g, R) = SumFunctionOnSet(f, S)
  BY ONLY <1>8, <1>9, SumRenamed
<1> QED BY <1>10 DEF Weight, S, R, f, g

\* A new entry adds its weight.
LEMMA WeightAppended ==
  ASSUME NEW w, NEW log, Weighable(log, w), NEW e \in DOMAIN w, e.age = 0,
         NEW limit \in Nat
  PROVE  Weight(Append(log, e), w, limit) = Weight(log, w, limit) + w[e]
<1> DEFINE n == Len(log) + 1
           new == Append(log, e)
           S == Recent(log, limit)
           f == Weighed(log, w)
           g == Weighed(new, w)
<1>1. /\ DOMAIN log = 1 .. Len(log) /\ Len(log) \in Nat /\ DOMAIN new = 1 .. n
      /\ Weighable(new, w) /\ new[n] = e /\ \A i \in DOMAIN log : new[i] = log[i]
  BY DEF Weighable
<1>2. IsFiniteSet(S) /\ n \notin S /\ S \subseteq DOMAIN log
  <2>1. IsFiniteSet(S)
    BY WeightFacts
  <2> QED BY <1>1, <2>1 DEF Recent
<1>3. Recent(new, limit) = S \cup {n}
  <2> HIDE DEF new
  <2>1. n \in DOMAIN new /\ \A i \in DOMAIN new : i = n \/ i \in DOMAIN log
    BY <1>1
  <2>2. DOMAIN log \subseteq DOMAIN new
    BY <1>1
  <2> HIDE DEF n
  <2> QED BY <1>1, <2>1, <2>2 DEF Recent
<1>4. \A i \in DOMAIN log : f[i] = w[log[i]] /\ w[log[i]] \in Nat
  BY WeightFacts
<1>5. \A i \in DOMAIN new : g[i] = w[new[i]] /\ w[new[i]] \in Nat
  <2> HIDE DEF new
  <2> QED BY <1>1, WeightFacts
<1>6. g[n] = w[e] /\ w[e] \in Nat /\ \A i \in S : f[i] \in Int /\ g[i] = f[i]
  <2> HIDE DEF new, f, g
  <2>1. n \in DOMAIN new /\ DOMAIN log \subseteq DOMAIN new
    BY <1>1
  <2> QED BY <1>1, <1>2, <1>4, <1>5, <2>1
<1>7. \A i \in S \cup {n} : g[i] \in Int
  BY <1>6
<1> HIDE DEF n, new, S, f, g
<1>8. SumFunctionOnSet(g, S \cup {n}) = g[n] + SumFunctionOnSet(g, S)
  BY ONLY <1>2, <1>7, SumAdd
<1>9. SumFunctionOnSet(g, S) = SumFunctionOnSet(f, S) /\ SumFunctionOnSet(f, S) \in Int
  BY ONLY <1>2, <1>6, SumSame, SumType
<1>10. Weight(new, w, limit) = w[e] + SumFunctionOnSet(f, S)
  BY <1>3, <1>6, <1>8, <1>9 DEF Weight, g
<1> QED BY <1>6, <1>9, <1>10 DEF Weight, new, S, f

\* There are no negative ages.
LEMMA NoneUnborn ==
  ASSUME NEW T, NEW w, NEW log \in Seq(T), \A e \in T : e.age \in Nat
  PROVE  Weight(log, w, 0 - 1) = 0
<1>1. \A i \in DOMAIN log : log[i].age \in Nat
  OBVIOUS
<1>2. Recent(log, 0 - 1) = {}
  BY <1>1 DEF Recent
<1> QED BY <1>2, SumEmpty DEF Weight

\* The logs are in the order of their ages.
Ordered(log, oldest) ==
  /\ \A i \in DOMAIN log : log[i].age <= oldest
  /\ \A i, j \in DOMAIN log : i <= j => log[j].age <= log[i].age

LEMMA WithoutFirst ==
  ASSUME NEW T, NEW s \in Seq(T), NEW k \in 0 .. Len(s)
  PROVE  LET rest == SubSeq(s, k + 1, Len(s))
         IN  /\ rest \in Seq(T) /\ Len(rest) = Len(s) - k
             /\ \A j \in 1 .. Len(s) - k : rest[j] = s[j + k]
OBVIOUS

\* What is pruned is more than a window old, and nothing else is.
LEMMA PrunedLog ==
  ASSUME window \in Seq(Entry), Ordered(window, Window + 1)
  PROVE  /\ Pruned \in Seq(Entry) /\ Ordered(Pruned, Window)
         /\ \A w \in [Entry -> Nat] : \A limit \in 0 .. Window :
              Weight(Pruned, w, limit) = Weight(window, w, limit)
<1> DEFINE stale == {i \in DOMAIN window : \A j \in 1 .. i : window[j].age > Window}
           k == Cardinality(stale)
           n == Len(window)
<1>1. DOMAIN window = 1 .. n /\ n \in Nat /\ Window \in Nat
  BY ThrottleAssumption
<1>2. k \in 0 .. n /\ stale = 1 .. k
  <2>1. stale \in SUBSET (1 .. n) /\ \A i \in stale : \A j \in 1 .. i : j \in stale
    BY <1>1
  <2> HIDE DEF stale, n
  <2> QED BY <1>1, <2>1, Heads
<1>3. \A i \in DOMAIN window : window[i].age \in Nat
  <2>1. \A i \in DOMAIN window : window[i] \in Entry
    OBVIOUS
  <2> QED BY <2>1 DEF Entry
<1>4. \A i \in 1 .. k : window[i].age > Window
  <2>1. \A i \in 1 .. k : i \in stale /\ i \in 1 .. i
    BY <1>2
  <2> QED BY <2>1
<1>5. ASSUME NEW i \in DOMAIN window, i > k PROVE window[i].age <= Window
  <2> SUFFICES ASSUME window[i].age > Window PROVE FALSE
    BY <1>1, <1>3
  <2>1. \A j \in 1 .. i : j \in DOMAIN window /\ window[i].age <= window[j].age
    BY <1>1 DEF Ordered
  <2>2. \A j \in 1 .. i : window[j].age > Window
    BY <1>1, <1>3, <2>1
  <2>3. i \in stale
    BY <2>2
  <2> HIDE DEF stale, k, n
  <2> QED BY <1>1, <1>2, <1>5, <2>3
<1>6. Pruned = SubSeq(window, k + 1, n)
  BY DEF Pruned, WithoutHeads
<1> HIDE DEF k, stale
<1>7. /\ Pruned \in Seq(Entry) /\ Len(Pruned) = n - k /\ DOMAIN Pruned = 1 .. n - k
      /\ \A j \in 1 .. n - k : Pruned[j] = window[j + k]
  BY <1>2, <1>6, WithoutFirst
<1>8. \A j \in 1 .. n - k : j + k \in DOMAIN window /\ j + k > k
  BY <1>1, <1>2
<1>9. Ordered(Pruned, Window)
  <2>1. ASSUME NEW i \in DOMAIN Pruned PROVE Pruned[i].age <= Window
    BY <1>5, <1>7, <1>8
  <2>2. ASSUME NEW i \in DOMAIN Pruned, NEW j \in DOMAIN Pruned, i <= j
        PROVE  Pruned[j].age <= Pruned[i].age
    <3>1. i + k \in DOMAIN window /\ j + k \in DOMAIN window /\ i + k <= j + k
      BY <1>1, <1>2, <1>7, <1>8, <2>2
    <3> QED BY <1>7, <3>1 DEF Ordered
  <2> QED BY <2>1, <2>2 DEF Ordered
<1>10. ASSUME NEW w \in [Entry -> Nat], NEW limit \in 0 .. Window
       PROVE  Weight(Pruned, w, limit) = Weight(window, w, limit)
  <2>1. ASSUME NEW i \in Recent(window, limit)
        PROVE  i - k \in Recent(Pruned, limit) /\ w[Pruned[i - k]] = w[window[i]]
    <3>1. i \in 1 .. n /\ window[i].age <= limit
      BY <1>1 DEF Recent
    <3>2. ~ (i \in 1 .. k)
      BY <1>1, <1>3, <1>4, <3>1
    <3>3. i - k \in 1 .. n - k /\ (i - k) + k = i
      BY <1>1, <1>2, <3>1, <3>2
    <3>4. Pruned[i - k] = window[i]
      BY <1>7, <3>3
    <3> QED BY <1>7, <3>1, <3>3, <3>4 DEF Recent
  <2>2. ASSUME NEW j \in Recent(Pruned, limit) PROVE j + k \in Recent(window, limit)
    BY <1>7, <1>8 DEF Recent
  <2>3. Weighable(window, w) /\ Weighable(Pruned, w)
    BY <1>7 DEF Weighable
  <2>4. Moves(window, w, limit, Pruned, w, limit, k)
    BY <1>2, <2>1, <2>2, <2>3 DEF Moves
  <2> QED BY ONLY <2>4, WeightMoved
<1> QED BY <1>7, <1>9, <1>10

\* Weights that do not depend on the age.
Ageless(w) ==
  \A e \in DOMAIN w : \A n \in Nat :
    [e EXCEPT !.age = n] \in DOMAIN w /\ w[[e EXCEPT !.age = n]] = w[e]

\* A tick later every entry is a tick older, in the history of what was sent
LEMMA AgedLog ==
  ASSUME NEW log \in Seq(SentEntry), Ordered(log, Window)
  PROVE  /\ Quota!Aged(log) \in Seq(SentEntry) /\ Ordered(Quota!Aged(log), Window)
         /\ \A w \in [SentEntry -> Nat] : \A limit \in 0 .. Window :
              Ageless(w) => Weight(Quota!Aged(log), w, limit) = Weight(log, w, limit - 1)
<1> DEFINE older == [i \in DOMAIN log |-> [log[i] EXCEPT !.age = @ + 1]]
           gone == {i \in DOMAIN log : older[i].age > Window}
           k == Cardinality(gone)
           n == Len(log)
           new == Quota!Aged(log)
<1>1. DOMAIN log = 1 .. n /\ n \in Nat /\ Window \in Nat
  BY ThrottleAssumption
<1>2. \A i \in DOMAIN log : log[i] \in SentEntry /\ log[i].age \in Nat
  <2>1. \A i \in DOMAIN log : log[i] \in SentEntry
    OBVIOUS
  <2> QED BY <2>1 DEF SentEntry
<1>3. \A i \in DOMAIN log : /\ older[i] = [log[i] EXCEPT !.age = log[i].age + 1]
                            /\ older[i].age = log[i].age + 1 /\ older[i] \in SentEntry
  <2> SUFFICES ASSUME NEW i \in DOMAIN log
               PROVE  /\ older[i] = [log[i] EXCEPT !.age = log[i].age + 1]
                      /\ older[i].age = log[i].age + 1 /\ older[i] \in SentEntry
    OBVIOUS
  <2>1. log[i] \in SentEntry /\ log[i].age + 1 \in Nat
    BY <1>2
  <2>2. older[i] = [log[i] EXCEPT !.age = log[i].age + 1]
    OBVIOUS
  <2> HIDE DEF older
  <2> QED BY <2>1, <2>2 DEF SentEntry
<1>4. older \in Seq(SentEntry) /\ Len(older) = n /\ DOMAIN older = DOMAIN log
  <2>1. DOMAIN older = DOMAIN log
    OBVIOUS
  <2> HIDE DEF older
  <2>2. older \in [1 .. n -> SentEntry]
    <3>1. older = [i \in DOMAIN log |-> older[i]]
      BY DEF older
    <3> QED BY <1>1, <1>3, <3>1
  <2> QED BY <1>1, <2>1, <2>2
<1>5. k \in 0 .. n /\ gone = 1 .. k
  <2>1. gone \in SUBSET (1 .. n)
    BY <1>1
  <2>2. ASSUME NEW i \in gone, NEW j \in 1 .. i PROVE j \in gone
    <3> HIDE DEF older
    <3>1. i \in DOMAIN log /\ older[i].age > Window
      OBVIOUS
    <3>2. j \in DOMAIN log /\ j <= i
      BY <1>1, <3>1
    <3>3. log[i].age <= log[j].age
      BY <3>1, <3>2 DEF Ordered
    <3>4. /\ older[i].age = log[i].age + 1 /\ older[j].age = log[j].age + 1
          /\ log[i].age \in Nat /\ log[j].age \in Nat
      BY <1>2, <1>3, <3>1, <3>2
    <3>5. older[j].age > Window
      BY <1>1, <3>1, <3>3, <3>4
    <3> QED BY <3>2, <3>5
  <2> HIDE DEF gone, n
  <2> QED BY <1>1, <2>1, <2>2, Heads
<1>6. new = SubSeq(older, k + 1, n)
  <2>1. new = SubSeq(older, Quota!Cardinality(gone) + 1, Len(older))
    BY DEF Quota!Aged
  <2>2. Quota!Cardinality(gone) = Cardinality(gone)
    BY DEF Quota!Cardinality, Cardinality
  <2> QED BY <1>4, <2>1, <2>2
<1>7. /\ \A i \in DOMAIN log : i <= k => log[i].age + 1 > Window
      /\ \A i \in DOMAIN log : i > k => log[i].age + 1 <= Window
  <2>1. \A i \in DOMAIN log : i \in gone <=> log[i].age + 1 > Window
    BY <1>3
  <2> HIDE DEF gone, k
  <2> QED BY <1>1, <1>2, <1>5, <2>1
<1> HIDE DEF older, gone, k, new
<1>8. /\ new \in Seq(SentEntry) /\ Len(new) = n - k /\ DOMAIN new = 1 .. n - k
      /\ \A j \in 1 .. n - k : new[j] = older[j + k]
  <2>1. k \in 0 .. Len(older) /\ older \in Seq(SentEntry) /\ Len(older) = n
    BY <1>4, <1>5
  <2>2. LET rest == SubSeq(older, k + 1, Len(older))
        IN  /\ rest \in Seq(SentEntry) /\ Len(rest) = Len(older) - k
            /\ \A j \in 1 .. Len(older) - k : rest[j] = older[j + k]
    BY <2>1, WithoutFirst
  <2>3. /\ new \in Seq(SentEntry) /\ Len(new) = n - k
        /\ \A j \in 1 .. n - k : new[j] = older[j + k]
    BY <1>6, <2>1, <2>2
  <2> QED BY <2>1, <2>3
<1>9. \A j \in DOMAIN new : j + k \in DOMAIN log /\ j + k > k /\ new[j] = older[j + k]
  BY <1>1, <1>5, <1>8
<1>10. Ordered(new, Window)
  <2>1. ASSUME NEW i \in DOMAIN new PROVE new[i].age <= Window
    BY <1>3, <1>7, <1>9
  <2>2. ASSUME NEW i \in DOMAIN new, NEW j \in DOMAIN new, i <= j
        PROVE  new[j].age <= new[i].age
    <3>1. i + k \in DOMAIN log /\ j + k \in DOMAIN log /\ i + k <= j + k
      <4>1. i \in Int /\ j \in Int /\ k \in Int
        BY <1>5, <1>8
      <4> QED BY <1>9, <2>2, <4>1
    <3>2. new[i].age = log[i + k].age + 1 /\ new[j].age = log[j + k].age + 1
      BY <1>3, <1>9, <3>1
    <3>3. log[j + k].age <= log[i + k].age
      BY <3>1 DEF Ordered
    <3>4. log[j + k].age \in Nat /\ log[i + k].age \in Nat
      BY <1>2, <3>1
    <3> QED BY <3>2, <3>3, <3>4
  <2> QED BY <2>1, <2>2 DEF Ordered
<1>11. ASSUME NEW w \in [SentEntry -> Nat], NEW limit \in 0 .. Window, Ageless(w)
       PROVE  Weight(new, w, limit) = Weight(log, w, limit - 1)
  <2>1. \A i \in DOMAIN log : w[older[i]] = w[log[i]]
    <3> SUFFICES ASSUME NEW i \in DOMAIN log PROVE w[older[i]] = w[log[i]]
      OBVIOUS
    <3>1. log[i] \in DOMAIN w /\ log[i].age + 1 \in Nat
      BY <1>2
    <3>2. w[[log[i] EXCEPT !.age = log[i].age + 1]] = w[log[i]]
      BY <1>11, <3>1 DEF Ageless
    <3> QED BY <1>3, <3>2
  <2>2. ASSUME NEW i \in Recent(log, limit - 1)
        PROVE  i - k \in Recent(new, limit) /\ w[new[i - k]] = w[log[i]]
    <3>1. /\ i \in DOMAIN log /\ i \in 1 .. n
          /\ log[i].age <= limit - 1 /\ log[i].age \in Nat
      BY <1>1, <1>2 DEF Recent
    <3>2. ~ (i <= k)
      BY <1>1, <1>7, <3>1
    <3>3. i - k \in 1 .. n - k /\ (i - k) + k = i
      BY <1>1, <1>5, <3>1, <3>2
    <3>4. new[i - k] = older[i]
      BY <1>8, <3>3
    <3>5. older[i].age <= limit
      <4>1. older[i].age = log[i].age + 1
        BY <1>3, <3>1
      <4>2. limit \in Int
        OBVIOUS
      <4> QED BY <3>1, <4>1, <4>2
    <3> QED BY <1>1, <1>8, <2>1, <3>1, <3>3, <3>4, <3>5 DEF Recent
  <2>3. ASSUME NEW j \in Recent(new, limit) PROVE j + k \in Recent(log, limit - 1)
    <3>1. j \in DOMAIN new /\ new[j].age <= limit
      BY DEF Recent
    <3>2. j + k \in DOMAIN log /\ log[j + k].age + 1 <= limit
      BY <1>3, <1>9, <3>1
    <3>3. log[j + k].age <= limit - 1
      BY <1>2, <3>2
    <3> QED BY <3>2, <3>3 DEF Recent
  <2>4. Weighable(log, w) /\ Weighable(new, w)
    BY <1>8 DEF Weighable
  <2>5. Moves(log, w, limit - 1, new, w, limit, k)
    BY <1>5, <2>2, <2>3, <2>4 DEF Moves
  <2> QED BY ONLY <2>5, WeightMoved
<1> QED BY <1>8, <1>10, <1>11 DEF new

\* and in the window, whose entries stop growing older when they may go.
LEMMA AgedWindow ==
  ASSUME NEW log \in Seq(Entry), Ordered(log, Window + 1), NEW new,
         new = [i \in DOMAIN log |-> [log[i] EXCEPT !.age = Older(@)]]
  PROVE  /\ new \in Seq(Entry) /\ Ordered(new, Window + 1)
         /\ \A w \in [Entry -> Nat] : \A limit \in 0 .. Window :
              Ageless(w) => Weight(new, w, limit) = Weight(log, w, limit - 1)
<1>1. DOMAIN log = 1 .. Len(log) /\ Len(log) \in Nat /\ Window \in Nat /\ DOMAIN new = DOMAIN log
  BY ThrottleAssumption
<1>2. \A i \in DOMAIN log : log[i] \in Entry /\ log[i].age \in Nat /\ log[i].age <= Window + 1
  <2>1. \A i \in DOMAIN log : log[i] \in Entry
    OBVIOUS
  <2> QED BY <2>1 DEF Entry, Ordered
<1>3. \A n \in Nat : /\ Older(n) \in Nat
                     /\ n <= Window => Older(n) = n + 1
                     /\ n > Window => Older(n) = n
  BY <1>1 DEF Older
<1>older. /\ \A m, n \in Nat : m <= n /\ n <= Window + 1 => Older(m) <= Older(n)
         /\ \A n \in Nat : \A l \in Int : l <= Window => (Older(n) <= l <=> n <= l - 1)
  BY <1>1 DEF Older
<1>4. \A i \in DOMAIN log : /\ new[i] = [log[i] EXCEPT !.age = Older(log[i].age)]
                            /\ new[i].age = Older(log[i].age) /\ new[i] \in Entry
  <2> SUFFICES ASSUME NEW i \in DOMAIN log
               PROVE  /\ new[i] = [log[i] EXCEPT !.age = Older(log[i].age)]
                      /\ new[i].age = Older(log[i].age) /\ new[i] \in Entry
    OBVIOUS
  <2>1. log[i] \in Entry /\ Older(log[i].age) \in Nat
    BY <1>2, <1>3
  <2>2. new[i] = [log[i] EXCEPT !.age = Older(log[i].age)]
    OBVIOUS
  <2> QED BY ONLY <2>1, <2>2 DEF Entry
<1>5. new \in Seq(Entry)
  <2>1. new \in [1 .. Len(log) -> Entry]
    <3>1. new = [i \in DOMAIN log |-> new[i]]
      OBVIOUS
    <3> QED BY ONLY <1>1, <1>4, <3>1
  <2> QED BY <1>1, <2>1
<1>6. Ordered(new, Window + 1)
  <2>1. ASSUME NEW i \in DOMAIN new PROVE new[i].age <= Window + 1
    <3>1. new[i].age = Older(log[i].age) /\ log[i].age \in Nat /\ log[i].age <= Window + 1
      BY ONLY <1>1, <1>2, <1>4
    <3> QED BY ONLY <1>1, <1>3, <3>1
  <2>2. ASSUME NEW i \in DOMAIN new, NEW j \in DOMAIN new, i <= j
        PROVE  new[j].age <= new[i].age
    <3>1. /\ new[i].age = Older(log[i].age) /\ log[i].age \in Nat
          /\ new[j].age = Older(log[j].age) /\ log[j].age \in Nat
      BY ONLY <1>1, <1>2, <1>4
    <3>2. log[j].age <= log[i].age /\ log[i].age <= Window + 1
      BY <1>1, <1>2, <2>2 DEF Ordered
    <3> QED BY ONLY <1>older, <3>1, <3>2
  <2> QED BY ONLY <2>1, <2>2 DEF Ordered
<1>7. ASSUME NEW w \in [Entry -> Nat], NEW limit \in 0 .. Window, Ageless(w)
      PROVE  Weight(new, w, limit) = Weight(log, w, limit - 1)
  <2>1. \A i \in DOMAIN log : w[new[i]] = w[log[i]]
    <3> SUFFICES ASSUME NEW i \in DOMAIN log PROVE w[new[i]] = w[log[i]]
      OBVIOUS
    <3>1. log[i] \in DOMAIN w /\ Older(log[i].age) \in Nat
      BY <1>2, <1>3
    <3>2. w[[log[i] EXCEPT !.age = Older(log[i].age)]] = w[log[i]]
      BY <1>7, <3>1 DEF Ageless
    <3> QED BY <1>4, <3>2
  <2>2. limit \in Int /\ limit <= Window
    BY <1>1
  <2>3. \A i \in DOMAIN log : i \in Int /\ (new[i].age <= limit <=> log[i].age <= limit - 1)
    <3> SUFFICES ASSUME NEW i \in DOMAIN log
                 PROVE  i \in Int /\ (new[i].age <= limit <=> log[i].age <= limit - 1)
      OBVIOUS
    <3>1. new[i].age = Older(log[i].age) /\ log[i].age \in Nat
      BY ONLY <1>2, <1>4, i \in DOMAIN log
    <3>2. i \in Int
      BY <1>1
    <3> QED BY ONLY <1>older, <2>2, <3>1, <3>2
  <2>4. \A i \in DOMAIN log : i - 0 = i /\ i + 0 = i
    BY <2>3
  <2>5. Weighable(log, w) /\ Weighable(new, w)
    BY <1>5 DEF Weighable
  <2>6. Moves(log, w, limit - 1, new, w, limit, 0)
    BY ONLY <1>1, <2>1, <2>3, <2>4, <2>5 DEF Moves, Recent
  <2> QED BY ONLY <2>6, WeightMoved
<1> QED BY <1>5, <1>6, <1>7

LEMMA OrderedAppended ==
  ASSUME NEW T, NEW log \in Seq(T), \A e \in T : e.age \in Nat,
         NEW e \in T, e.age = 0, NEW oldest \in Nat, Ordered(log, oldest)
  PROVE  Ordered(Append(log, e), oldest)
<1> DEFINE new == Append(log, e)
<1>1. /\ DOMAIN log = 1 .. Len(log) /\ Len(log) \in Nat
      /\ DOMAIN new = 1 .. Len(log) + 1 /\ new[Len(log) + 1] = e
      /\ \A i \in DOMAIN log : new[i] = log[i] /\ log[i] \in T
  OBVIOUS
<1> HIDE DEF new
<1>2. \A i \in DOMAIN new : i \in DOMAIN log \/ i = Len(log) + 1
  BY <1>1
<1>3. \A i \in DOMAIN new : new[i].age \in Nat /\ new[i].age <= oldest
  BY <1>1, <1>2 DEF Ordered
<1>4. ASSUME NEW i \in DOMAIN new, NEW j \in DOMAIN new, i <= j
      PROVE  new[j].age <= new[i].age
  <2>1. CASE j \in DOMAIN log
    <3>1. i \in DOMAIN log
      BY <1>1, <1>4, <2>1
    <3> QED BY <1>1, <1>4, <2>1, <3>1 DEF Ordered
  <2>2. CASE j = Len(log) + 1
    BY <1>1, <1>3, <2>2
  <2> QED BY <1>2, <2>1, <2>2
<1> QED BY <1>3, <1>4 DEF Ordered, new

----------------------------------------------------------------------------
(* The two logs say the same of every recent past: the deques, which forget *)
(* late and are pruned on demand, and the history.                         *)

EntryOne == [e \in Entry |-> 1]
EntryTokens == [e \in Entry |-> e.tokens]
SentOne == [e \in SentEntry |-> 1]
SentCounted == [e \in SentEntry |-> IF e.counted THEN 1 ELSE 0]
SentTokens == [e \in SentEntry |-> e.tokens]

LogInv ==
  /\ Ordered(window, Window + 1) /\ Ordered(sent, Window)
  /\ \A limit \in 0 .. Window :
       /\ Weight(window, EntryOne, limit) = Weight(sent, SentCounted, limit)
       /\ Weight(window, EntryTokens, limit) = Weight(sent, SentTokens, limit)
  /\ Weight(sent, SentCounted, Window) <= RpmLimit
  /\ Weight(sent, SentTokens, Window) <= TpmLimit

LEMMA Weights ==
  /\ EntryOne \in [Entry -> Nat] /\ Ageless(EntryOne)
  /\ EntryTokens \in [Entry -> Nat] /\ Ageless(EntryTokens)
  /\ SentOne \in [SentEntry -> Nat] /\ Ageless(SentOne)
  /\ SentCounted \in [SentEntry -> Nat] /\ Ageless(SentCounted)
  /\ SentTokens \in [SentEntry -> Nat] /\ Ageless(SentTokens)
<1>1. \A e \in Entry : e.tokens \in Nat /\ e.age \in Nat
  BY DEF Entry
<1>2. \A e \in SentEntry : e.tokens \in Nat /\ e.age \in Nat
  BY DEF SentEntry
<1>3. /\ EntryOne \in [Entry -> Nat] /\ EntryTokens \in [Entry -> Nat]
      /\ SentOne \in [SentEntry -> Nat] /\ SentCounted \in [SentEntry -> Nat]
      /\ SentTokens \in [SentEntry -> Nat]
  BY <1>1, <1>2 DEF EntryOne, EntryTokens, SentOne, SentCounted, SentTokens
<1>4. ASSUME NEW e \in Entry, NEW n \in Nat
      PROVE  /\ [e EXCEPT !.age = n] \in Entry
             /\ [e EXCEPT !.age = n].tokens = e.tokens
  BY DEF Entry
<1>5. ASSUME NEW e \in SentEntry, NEW n \in Nat
      PROVE  /\ [e EXCEPT !.age = n] \in SentEntry
             /\ [e EXCEPT !.age = n].tokens = e.tokens
             /\ [e EXCEPT !.age = n].counted = e.counted
  BY DEF SentEntry
<1>6. Ageless(EntryOne) /\ Ageless(EntryTokens)
  BY <1>4 DEF Ageless, EntryOne, EntryTokens
<1>7. Ageless(SentOne) /\ Ageless(SentCounted) /\ Ageless(SentTokens)
  BY <1>5 DEF Ageless, SentOne, SentCounted, SentTokens
<1> QED BY <1>3, <1>6, <1>7

\* What each weight says of a new entry.
LEMMA NewEntries ==
  ASSUME NEW n \in Nat
  PROVE  /\ [age |-> 0, tokens |-> n] \in Entry /\ [age |-> 0, tokens |-> n].age = 0
         /\ EntryOne[[age |-> 0, tokens |-> n]] = 1
         /\ EntryTokens[[age |-> 0, tokens |-> n]] = n
         /\ \A b \in BOOLEAN :
              /\ Quota!Sent(n, b) \in SentEntry /\ Quota!Sent(n, b).age = 0
              /\ SentOne[Quota!Sent(n, b)] = 1
              /\ SentCounted[Quota!Sent(n, b)] = (IF b THEN 1 ELSE 0)
              /\ SentTokens[Quota!Sent(n, b)] = n
<1>1. [age |-> 0, tokens |-> n] \in Entry
  BY DEF Entry
<1>2. \A b \in BOOLEAN : [age |-> 0, tokens |-> n, counted |-> b] \in SentEntry
  BY DEF SentEntry
<1>3. /\ EntryOne[[age |-> 0, tokens |-> n]] = 1
      /\ EntryTokens[[age |-> 0, tokens |-> n]] = n
  BY <1>1 DEF EntryOne, EntryTokens
<1>4. ASSUME NEW b \in BOOLEAN
      PROVE  /\ Quota!Sent(n, b) \in SentEntry /\ Quota!Sent(n, b).age = 0
             /\ SentOne[Quota!Sent(n, b)] = 1
             /\ SentCounted[Quota!Sent(n, b)] = (IF b THEN 1 ELSE 0)
             /\ SentTokens[Quota!Sent(n, b)] = n
  BY <1>2 DEF SentOne, SentCounted, SentTokens, Quota!Sent
<1> QED BY <1>1, <1>3, <1>4

\* The totals that the limits are compared with are such weights.
LEMMA TokensAreWeighed ==
  ASSUME NEW T, NEW w \in [T -> Nat], NEW log \in Seq(T), \A e \in T : w[e] = e.tokens,
         Ordered(log, Window)
  PROVE  Quota!TokensOf(log) = Weight(log, w, Window)
<1> DEFINE f == [i \in DOMAIN log |-> log[i].tokens]
<1>1. f = Weighed(log, w)
  <2>1. \A i \in DOMAIN log : log[i] \in T
    OBVIOUS
  <2> QED BY <2>1 DEF Weighed
<1>2. Recent(log, Window) = DOMAIN f
  BY DEF Recent, Ordered
<1>3. Quota!TokensOf(log) = Quota!SumFunctionOnSet(f, DOMAIN f)
  BY DEF Quota!TokensOf, Quota!SumFunction
<1> HIDE DEF f
<1>4. Quota!SumFunctionOnSet(f, DOMAIN f) = SumFunctionOnSet(f, DOMAIN f)
  BY DEF Quota!SumFunctionOnSet, SumFunctionOnSet, Quota!FoldFunctionOnSet, FoldFunctionOnSet,
         Quota!MapThenFoldSet, MapThenFoldSet
<1> QED BY <1>1, <1>2, <1>3, <1>4 DEF Weight

LEMMA CountedAreWeighed ==
  ASSUME sent \in Seq(SentEntry), Ordered(sent, Window)
  PROVE  Quota!Cardinality(Quota!Counted(sent)) = Weight(sent, SentCounted, Window)
<1> DEFINE f == Weighed(sent, SentCounted)
<1>1. DOMAIN sent = 1 .. Len(sent) /\ Len(sent) \in Nat /\ \A i \in DOMAIN sent : sent[i] \in SentEntry
  OBVIOUS
<1>2. \A i \in DOMAIN sent : f[i] = IF sent[i].counted THEN 1 ELSE 0
  BY <1>1 DEF SentCounted, Weighed
<1>3. Recent(sent, Window) = DOMAIN sent /\ IsFiniteSet(DOMAIN sent)
  BY <1>1, FS_Interval DEF Recent, Ordered
<1>4. \A i \in DOMAIN sent : f[i] \in {0, 1}
  BY <1>2
<1>5. {i \in DOMAIN sent : f[i] = 1} = Quota!Counted(sent)
  BY <1>2 DEF Quota!Counted
<1> HIDE DEF f
<1>6. SumFunctionOnSet(f, DOMAIN sent) = Cardinality({i \in DOMAIN sent : f[i] = 1})
  BY ONLY <1>3, <1>4, SumCounts
<1>7. Quota!Cardinality(Quota!Counted(sent)) = Cardinality(Quota!Counted(sent))
  BY DEF Quota!Cardinality, Cardinality
<1> QED BY <1>3, <1>5, <1>6, <1>7 DEF Weight, f

LEMMA LengthIsWeighed ==
  ASSUME NEW T, NEW w \in [T -> Nat], NEW log \in Seq(T), \A e \in T : w[e] = 1,
         Ordered(log, Window)
  PROVE  Len(log) = Weight(log, w, Window)
<1> DEFINE f == Weighed(log, w)
<1>1. DOMAIN log = 1 .. Len(log) /\ Len(log) \in Nat
  OBVIOUS
<1>2. \A i \in DOMAIN log : f[i] = 1
  BY DEF Weighed
<1>3. Recent(log, Window) = DOMAIN log /\ IsFiniteSet(DOMAIN log)
  BY <1>1, FS_Interval DEF Recent, Ordered
<1>4. {i \in DOMAIN log : f[i] = 1} = DOMAIN log /\ \A i \in DOMAIN log : f[i] \in {0, 1}
  BY <1>2
<1> HIDE DEF f
<1>5. SumFunctionOnSet(f, DOMAIN log) = Cardinality(DOMAIN log)
  BY <1>3, <1>4, SumCounts
<1>6. Cardinality(1 .. Len(log)) = Len(log)
  <2>1. \A n \in Nat : Cardinality(1 .. n) = n
    BY FS_Interval
  <2> QED BY <1>1, <2>1
<1> QED BY <1>1, <1>3, <1>5, <1>6 DEF Weight, f

\* Under the limits, the window's totals are those of what was sent.
LEMMA Totals ==
  ASSUME TypeOK, LogInv
  PROVE  /\ Quota!Cardinality(Quota!Counted(sent)) = Weight(sent, SentCounted, Window)
         /\ Quota!TokensOf(sent) = Weight(sent, SentTokens, Window)
         /\ Len(Pruned) = Weight(sent, SentCounted, Window)
         /\ Quota!TokensOf(Pruned) = Weight(sent, SentTokens, Window)
         /\ Weight(sent, SentTokens, Window) \in Nat /\ Weight(sent, SentCounted, Window) \in Nat
<1>1. /\ window \in Seq(Entry) /\ Ordered(window, Window + 1)
      /\ sent \in Seq(SentEntry) /\ Ordered(sent, Window)
  BY DEF TypeOK, LogInv
<1>2. Quota!Cardinality(Quota!Counted(sent)) = Weight(sent, SentCounted, Window)
  BY <1>1, CountedAreWeighed
<1>3. \A e \in SentEntry : SentTokens[e] = e.tokens
  BY DEF SentTokens
<1>4. Quota!TokensOf(sent) = Weight(sent, SentTokens, Window)
  BY ONLY <1>1, <1>3, Weights, TokensAreWeighed
<1>5. /\ Pruned \in Seq(Entry) /\ Ordered(Pruned, Window)
      /\ \A w \in [Entry -> Nat] : \A limit \in 0 .. Window :
           Weight(Pruned, w, limit) = Weight(window, w, limit)
  BY <1>1, PrunedLog
<1>6. \A e \in Entry : EntryTokens[e] = e.tokens /\ EntryOne[e] = 1
  BY DEF EntryTokens, EntryOne
<1>7. Quota!TokensOf(Pruned) = Weight(Pruned, EntryTokens, Window)
  <2>1. \A e \in Entry : EntryTokens[e] = e.tokens
    BY <1>6
  <2> QED BY ONLY <1>5, <2>1, Weights, TokensAreWeighed
<1>8. Len(Pruned) = Weight(Pruned, EntryOne, Window)
  <2>1. \A e \in Entry : EntryOne[e] = 1
    BY <1>6
  <2> QED BY ONLY <1>5, <2>1, Weights, LengthIsWeighed
<1>9. Window \in 0 .. Window
  BY ThrottleAssumption
<1>10. /\ Weight(Pruned, EntryTokens, Window) = Weight(sent, SentTokens, Window)
       /\ Weight(Pruned, EntryOne, Window) = Weight(sent, SentCounted, Window)
  BY <1>5, <1>9, Weights DEF LogInv
<1>11. Weight(sent, SentTokens, Window) \in Nat /\ Weight(sent, SentCounted, Window) \in Nat
  <2>1. Weighable(sent, SentTokens) /\ Weighable(sent, SentCounted)
    BY <1>1, Weights DEF Weighable
  <2> QED BY <2>1, WeightFacts
<1> QED BY <1>2, <1>4, <1>7, <1>8, <1>10, <1>11

----------------------------------------------------------------------------
(* The two logs agree in every state. *)

LEMMA InitLogInv == Init => LogInv
<1> SUFFICES ASSUME Init PROVE LogInv
  OBVIOUS
<1>1. window = <<>> /\ sent = <<>> /\ RpmLimit \in Nat /\ TpmLimit \in Nat
  BY ThrottleAssumption DEF Init
<1>2. \A w, limit : Weight(<<>>, w, limit) = 0
  <2>1. \A limit : Recent(<<>>, limit) = {}
    BY DEF Recent
  <2> QED BY <2>1, SumEmpty DEF Weight
<1>3. \A oldest : Ordered(<<>>, oldest)
  BY DEF Ordered
<1> QED BY <1>1, <1>2, <1>3 DEF LogInv

\* A request leaves: the deques are pruned if it is counted, and both logs
\* have one entry more.
LEMMA ScriptLogged ==
  ASSUME TypeOK, LogInv, window' = window, sent' = Append(sent, Quota!Sent(0, FALSE))
  PROVE  LogInv'
<1> DEFINE e == Quota!Sent(0, FALSE)
<1>1. /\ window \in Seq(Entry) /\ sent \in Seq(SentEntry) /\ Ordered(sent, Window)
      /\ Weighable(sent, SentCounted) /\ Weighable(sent, SentTokens)
  BY Weights DEF TypeOK, LogInv, Weighable
<1>2. /\ e \in SentEntry /\ e.age = 0 /\ SentCounted[e] = 0 /\ SentTokens[e] = 0
      /\ e \in DOMAIN SentCounted /\ e \in DOMAIN SentTokens
  BY NewEntries, Weights
<1> HIDE DEF e
<1>3. \A limit \in 0 .. Window :
        /\ limit \in Nat
        /\ Weight(sent, SentCounted, limit) \in Nat /\ Weight(sent, SentTokens, limit) \in Nat
  BY <1>1, WeightFacts, ThrottleAssumption
<1>4. ASSUME NEW limit \in 0 .. Window
      PROVE  /\ Weight(Append(sent, e), SentCounted, limit) = Weight(sent, SentCounted, limit)
             /\ Weight(Append(sent, e), SentTokens, limit) = Weight(sent, SentTokens, limit)
  <2>1. /\ Weight(Append(sent, e), SentCounted, limit) = Weight(sent, SentCounted, limit) + 0
        /\ Weight(Append(sent, e), SentTokens, limit) = Weight(sent, SentTokens, limit) + 0
    BY <1>1, <1>2, <1>3, WeightAppended
  <2> QED BY <1>3, <2>1
<1>5. Ordered(Append(sent, e), Window)
  <2>1. (\A s \in SentEntry : s.age \in Nat) /\ Window \in Nat
    BY ThrottleAssumption DEF SentEntry
  <2> QED BY <1>1, <1>2, <2>1, OrderedAppended
<1>6. sent' = Append(sent, e) /\ Window \in 0 .. Window
  BY ThrottleAssumption DEF e
<1> QED BY <1>4, <1>5, <1>6 DEF LogInv

LEMMA CountLogged ==
  ASSUME TypeOK, LogInv, NEW n \in Nat, Len(Pruned) < RpmLimit,
         Quota!TokensOf(Pruned) + n <= TpmLimit,
         window' = Append(Pruned, [age |-> 0, tokens |-> n]),
         sent' = Append(sent, Quota!Sent(n, TRUE))
  PROVE  LogInv'
<1> DEFINE e == Quota!Sent(n, TRUE)
           d == [age |-> 0, tokens |-> n]
<1>1. /\ sent \in Seq(SentEntry) /\ Ordered(sent, Window)
      /\ Weighable(sent, SentCounted) /\ Weighable(sent, SentTokens)
  BY Weights DEF TypeOK, LogInv, Weighable
<1>2. /\ Pruned \in Seq(Entry) /\ Ordered(Pruned, Window)
      /\ \A w \in [Entry -> Nat] : \A limit \in 0 .. Window :
           Weight(Pruned, w, limit) = Weight(window, w, limit)
  BY PrunedLog DEF TypeOK, LogInv
<1>3. Weighable(Pruned, EntryOne) /\ Weighable(Pruned, EntryTokens)
  BY <1>2, Weights DEF Weighable
<1>4. /\ e \in SentEntry /\ e.age = 0 /\ SentCounted[e] = 1 /\ SentTokens[e] = n
      /\ e \in DOMAIN SentCounted /\ e \in DOMAIN SentTokens
      /\ d \in Entry /\ d.age = 0 /\ EntryOne[d] = 1 /\ EntryTokens[d] = n
      /\ d \in DOMAIN EntryOne /\ d \in DOMAIN EntryTokens
  BY NewEntries, Weights
<1> HIDE DEF e, d
<1>5. Window \in 0 .. Window /\ Window \in Nat /\ RpmLimit \in Nat /\ TpmLimit \in Nat
      /\ \A limit \in 0 .. Window : limit \in Nat
  BY ThrottleAssumption
<1>6. ASSUME NEW limit \in 0 .. Window
      PROVE  /\ Weight(Append(sent, e), SentCounted, limit) = Weight(sent, SentCounted, limit) + 1
             /\ Weight(Append(sent, e), SentTokens, limit) = Weight(sent, SentTokens, limit) + n
             /\ Weight(Append(Pruned, d), EntryOne, limit) = Weight(Pruned, EntryOne, limit) + 1
             /\ Weight(Append(Pruned, d), EntryTokens, limit) = Weight(Pruned, EntryTokens, limit) + n
  <2>1. limit \in Nat
    BY <1>5
  <2>2. /\ Weight(Append(sent, e), SentCounted, limit) = Weight(sent, SentCounted, limit) + SentCounted[e]
        /\ Weight(Append(sent, e), SentTokens, limit) = Weight(sent, SentTokens, limit) + SentTokens[e]
    BY ONLY <1>1, <1>4, <2>1, WeightAppended
  <2>3. /\ Weight(Append(Pruned, d), EntryOne, limit) = Weight(Pruned, EntryOne, limit) + EntryOne[d]
        /\ Weight(Append(Pruned, d), EntryTokens, limit) = Weight(Pruned, EntryTokens, limit) + EntryTokens[d]
    BY ONLY <1>3, <1>4, <2>1, WeightAppended
  <2> QED BY <1>4, <2>2, <2>3
<1>7. \A limit \in 0 .. Window :
        /\ Weight(Pruned, EntryOne, limit) = Weight(sent, SentCounted, limit)
        /\ Weight(Pruned, EntryTokens, limit) = Weight(sent, SentTokens, limit)
  BY <1>2, Weights DEF LogInv
<1>8. Ordered(Append(sent, e), Window)
  <2>1. (\A s \in SentEntry : s.age \in Nat) /\ Window \in Nat
    BY ThrottleAssumption DEF SentEntry
  <2> QED BY <1>1, <1>4, <2>1, OrderedAppended
<1>9. Ordered(Append(Pruned, d), Window + 1)
  <2>1. \A s \in Entry : s.age \in Nat
    BY DEF Entry
  <2>2. \A i \in DOMAIN Pruned : Pruned[i].age \in Nat
    BY <1>2, <2>1
  <2>3. Ordered(Pruned, Window + 1) /\ Window + 1 \in Nat
    BY <1>2, <1>5, <2>2 DEF Ordered
  <2> QED BY ONLY <1>2, <1>4, <2>1, <2>3, OrderedAppended
<1>10. /\ Weight(sent, SentCounted, Window) + 1 <= RpmLimit
       /\ Weight(sent, SentTokens, Window) + n <= TpmLimit
  BY <1>5, Totals
<1>11. sent' = Append(sent, e) /\ window' = Append(Pruned, d)
  BY DEF e, d
<1> QED BY <1>5, <1>6, <1>7, <1>8, <1>9, <1>10, <1>11 DEF LogInv

\* The limits are met: the deques are pruned, and nobody leaves.
LEMMA PruneLogged ==
  ASSUME TypeOK, LogInv, window' = Pruned, sent' = sent
  PROVE  LogInv'
<1>1. /\ Pruned \in Seq(Entry) /\ Ordered(Pruned, Window)
      /\ \A w \in [Entry -> Nat] : \A limit \in 0 .. Window :
           Weight(Pruned, w, limit) = Weight(window, w, limit)
  BY PrunedLog DEF TypeOK, LogInv
<1>2. \A limit \in 0 .. Window :
        /\ Weight(Pruned, EntryOne, limit) = Weight(sent, SentCounted, limit)
        /\ Weight(Pruned, EntryTokens, limit) = Weight(sent, SentTokens, limit)
  BY <1>1, Weights DEF LogInv
<1>3. Ordered(Pruned, Window + 1)
  <2>1. \A i \in DOMAIN Pruned : Pruned[i] \in Entry
    BY <1>1
  <2>2. \A i \in DOMAIN Pruned : Pruned[i].age \in Nat
    BY <2>1 DEF Entry
  <2> QED BY <1>1, <2>2, ThrottleAssumption DEF Ordered
<1> QED BY <1>2, <1>3 DEF LogInv

LEMMA WeightGrows ==
  ASSUME NEW w, NEW log, Weighable(log, w), NEW a, NEW b,
         Recent(log, a) \subseteq Recent(log, b)
  PROVE  Weight(log, w, a) <= Weight(log, w, b)
<1>1. IsFiniteSet(Recent(log, b))
  BY WeightFacts
<1>2. \A i \in Recent(log, b) : Weighed(log, w)[i] \in Nat
  BY WeightFacts DEF Recent
<1>3. Recent(log, a) \in SUBSET Recent(log, b)
  OBVIOUS
<1> QED BY ONLY <1>1, <1>2, <1>3, SumSubset DEF Weight

\* A tick passes: what was no older than a limit less one is no older than it.
LEMMA TickLogged == TypeOK /\ LogInv /\ Tick => LogInv'
<1> SUFFICES ASSUME TypeOK, LogInv, Tick PROVE LogInv'
  OBVIOUS
<1>1. /\ window \in Seq(Entry) /\ Ordered(window, Window + 1)
      /\ sent \in Seq(SentEntry) /\ Ordered(sent, Window)
      /\ Weighable(sent, SentCounted) /\ Weighable(sent, SentTokens)
  BY Weights DEF TypeOK, LogInv, Weighable
<1>2. /\ window' = [i \in DOMAIN window |-> [window[i] EXCEPT !.age = Older(@)]]
      /\ sent' = Quota!Aged(sent)
  BY DEF Tick
<1>3. /\ Ordered(window', Window + 1)
      /\ \A w \in [Entry -> Nat] : \A limit \in 0 .. Window :
           Ageless(w) => Weight(window', w, limit) = Weight(window, w, limit - 1)
  BY <1>1, <1>2, AgedWindow
<1>4. /\ Ordered(sent', Window)
      /\ \A w \in [SentEntry -> Nat] : \A limit \in 0 .. Window :
           Ageless(w) => Weight(sent', w, limit) = Weight(sent, w, limit - 1)
  BY <1>1, <1>2, AgedLog
<1>5. /\ Weight(window, EntryOne, 0 - 1) = 0 /\ Weight(window, EntryTokens, 0 - 1) = 0
      /\ Weight(sent, SentCounted, 0 - 1) = 0 /\ Weight(sent, SentTokens, 0 - 1) = 0
  <2>1. (\A e \in Entry : e.age \in Nat) /\ (\A e \in SentEntry : e.age \in Nat)
    BY DEF Entry, SentEntry
  <2> QED BY <1>1, <2>1, NoneUnborn
<1>6. ASSUME NEW limit \in 0 .. Window
      PROVE  /\ Weight(window', EntryOne, limit) = Weight(sent', SentCounted, limit)
             /\ Weight(window', EntryTokens, limit) = Weight(sent', SentTokens, limit)
  <2>1. /\ Weight(window', EntryOne, limit) = Weight(window, EntryOne, limit - 1)
        /\ Weight(window', EntryTokens, limit) = Weight(window, EntryTokens, limit - 1)
        /\ Weight(sent', SentCounted, limit) = Weight(sent, SentCounted, limit - 1)
        /\ Weight(sent', SentTokens, limit) = Weight(sent, SentTokens, limit - 1)
    BY <1>3, <1>4, Weights
  <2>2. CASE limit = 0
    BY <1>5, <2>1, <2>2
  <2>3. CASE limit # 0
    <3>1. limit - 1 \in 0 .. Window
      BY <2>3, ThrottleAssumption
    <3> QED BY <2>1, <3>1 DEF LogInv
  <2> QED BY <2>2, <2>3
<1>7. /\ Weight(sent', SentCounted, Window) <= Weight(sent, SentCounted, Window)
      /\ Weight(sent', SentTokens, Window) <= Weight(sent, SentTokens, Window)
  <2>1. Window \in 0 .. Window
    BY ThrottleAssumption
  <2>2. /\ Weight(sent', SentCounted, Window) = Weight(sent, SentCounted, Window - 1)
        /\ Weight(sent', SentTokens, Window) = Weight(sent, SentTokens, Window - 1)
    BY <1>4, <2>1, Weights
  <2>3. Recent(sent, Window - 1) \subseteq Recent(sent, Window)
    BY <1>1 DEF Recent, Ordered
  <2> QED BY <1>1, <2>2, <2>3, WeightGrows
<1>8. /\ Weight(sent', SentCounted, Window) \in Nat /\ Weight(sent', SentTokens, Window) \in Nat
      /\ Weight(sent, SentCounted, Window) \in Nat /\ Weight(sent, SentTokens, Window) \in Nat
  <2>1. sent' \in Seq(SentEntry)
    BY <1>1, <1>2, AgedLog
  <2>2. Weighable(sent', SentCounted) /\ Weighable(sent', SentTokens)
    BY <2>1, Weights DEF Weighable
  <2> QED BY <1>1, <2>2, WeightFacts
<1>9. /\ Weight(sent', SentCounted, Window) <= RpmLimit
      /\ Weight(sent', SentTokens, Window) <= TpmLimit
  BY <1>7, <1>8, ThrottleAssumption DEF LogInv
<1> QED BY <1>3, <1>4, <1>6, <1>9 DEF LogInv, Ordered, EntryOne, EntryTokens, SentCounted, SentTokens

\* How each step moves the two logs.
LEMMA Logging ==
  ASSUME IInv, LogInv, NEW c \in Callers,
         Request(c) \/ Work(c) \/ Answer(c) \/ Refuse(c)
  PROVE  \/ UNCHANGED <<window, sent>>
         \/ /\ EndSpacing(c) /\ window' = window
            /\ sent' = Append(sent, Quota!Sent(0, FALSE))
         \/ /\ CountRequest(c) /\ tokens[c] \in Nat /\ UNCHANGED since
            /\ Len(Pruned) < RpmLimit /\ Quota!TokensOf(Pruned) + tokens[c] <= TpmLimit
            /\ window' = Append(Pruned, [age |-> 0, tokens |-> tokens[c]])
            /\ sent' = Append(sent, Quota!Sent(tokens[c], TRUE))
         \/ MeetQuota(c) /\ window' = Pruned /\ sent' = sent
<1>1. CASE CountRequest(c)
  <2>1. tokens[c] \in Nat
    BY <1>1, EstimatesNat DEF CountRequest, IInv, TypeOK, CountedOnly, Script
  <2>2. /\ Len(Pruned) \in Nat /\ Quota!TokensOf(Pruned) \in Nat
        /\ RpmLimit \in Nat /\ TpmLimit \in Nat
    BY Totals, ThrottleAssumption DEF IInv
  <2>3. Len(Pruned) < RpmLimit /\ Quota!TokensOf(Pruned) + tokens[c] <= TpmLimit
    BY <1>1, <2>1, <2>2 DEF CountRequest, OverLimit
  <2> QED BY <1>1, <2>1, <2>3 DEF CountRequest
<1>2. CASE MeetQuota(c)
  BY <1>2 DEF MeetQuota
<1>3. CASE EndSpacing(c)
  BY <1>3 DEF EndSpacing
<1>4. CASE Request(c) \/ Admit(c) \/ BeginSpacing(c) \/ AskAgain(c) \/ Retry(c)
             \/ Answer(c) \/ Refuse(c)
  BY <1>4 DEF Request, Admit, BeginSpacing, AskAgain, Retry, Answer, Refuse
<1> QED BY <1>1, <1>2, <1>3, <1>4 DEF Work

LEMMA LogStep == IInv /\ LogInv /\ [Next]_vars => LogInv'
<1> SUFFICES ASSUME IInv, LogInv, [Next]_vars PROVE LogInv'
  OBVIOUS
<1>1. CASE UNCHANGED <<window, sent>>
  BY <1>1 DEF LogInv
<1>2. CASE Tick
  BY <1>2, TickLogged DEF IInv
<1>3. ASSUME NEW c \in Callers, Request(c) \/ Work(c) \/ Answer(c) \/ Refuse(c)
      PROVE  LogInv'
  BY <1>1, <1>3, Logging, ScriptLogged, CountLogged, PruneLogged DEF IInv
<1> QED BY <1>1, <1>2, <1>3 DEF Next, vars

LEMMA LogsAgree == Spec => [](IInv /\ LogInv)
<1>1. Spec => []LogInv
  BY Invariance, InitLogInv, LogStep, PTL DEF Spec
<1> QED BY <1>1, Invariance, PTL

\* No window of the history holds more counted requests than RpmLimit, nor more
\* of their tokens than TpmLimit, for any limits and callers, although the
\* deques are pruned late and by whoever asks (_wait_for_quota).
THEOREM LimitsAreKept == Spec => []LimitsKept
<1>1. IInv /\ LogInv => LimitsKept
  BY Totals DEF IInv, LogInv, LimitsKept, Quota!LimitsKept
<1> QED BY <1>1, LogsAgree, PTL

\* A step of the throttle is a step of the promise, or none of its business.
LEMMA QuotaStep == IInv /\ LogInv /\ [Next]_vars => [Quota!Next]_(Quota!vars)
<1> SUFFICES ASSUME IInv, LogInv, Next PROVE Quota!Next \/ UNCHANGED <<since, sent>>
  BY DEF vars, Quota!vars
<1>1. CASE Tick
  BY <1>1 DEF Tick, Quota!Next, Quota!Tick
<1>2. ASSUME NEW c \in Callers, EndSpacing(c) PROVE Quota!Next
  <2>1. since >= Interval
    BY <1>2, ThrottleAssumption DEF EndSpacing, IInv, TypeOK, Spacing
  <2>2. since' = 0 /\ (UNCHANGED sent \/ sent' = Append(sent, Quota!Sent(0, FALSE)))
    BY <1>2 DEF EndSpacing
  <2> QED BY <2>1, <2>2 DEF Quota!Next, Quota!Pass, Quota!Script
<1>3. ASSUME NEW c \in Callers, CountRequest(c) PROVE Quota!Next
  <2>1. /\ tokens[c] \in Nat /\ UNCHANGED since
        /\ Len(Pruned) < RpmLimit /\ Quota!TokensOf(Pruned) + tokens[c] <= TpmLimit
        /\ sent' = Append(sent, Quota!Sent(tokens[c], TRUE))
    <3>1. tokens[c] \in Nat
      BY <1>3, EstimatesNat DEF CountRequest, IInv, TypeOK, CountedOnly, Script
    <3>2. /\ Len(Pruned) \in Nat /\ Quota!TokensOf(Pruned) \in Nat
          /\ RpmLimit \in Nat /\ TpmLimit \in Nat
      BY Totals, ThrottleAssumption DEF IInv
    <3> QED BY <1>3, <3>1, <3>2 DEF CountRequest, OverLimit
  <2>2. /\ Quota!Cardinality(Quota!Counted(sent)) = Len(Pruned)
        /\ Quota!TokensOf(sent) = Quota!TokensOf(Pruned) /\ Quota!TokensOf(Pruned) \in Nat
    BY Totals DEF IInv
  <2>3. tokens[c] \in 0 .. TpmLimit
    BY <2>1, <2>2, ThrottleAssumption
  <2>4. Quota!Count(tokens[c])
    BY <2>1, <2>2 DEF Quota!Count
  <2> QED BY <2>3, <2>4 DEF Quota!Next
<1>4. ASSUME NEW c \in Callers, Request(c) \/ Work(c) \/ Answer(c) \/ Refuse(c),
             ~ EndSpacing(c), ~ CountRequest(c)
      PROVE  UNCHANGED <<since, sent>>
  BY <1>4 DEF Work, Request, Admit, BeginSpacing, MeetQuota, AskAgain, Retry, Answer, Refuse
<1> QED BY <1>1, <1>2, <1>3, <1>4 DEF Next

\* The throttle implements CallQuota: requests leave an interval apart and the
\* counted ones respect both limits, whatever the callers do
\* (apply_openai_rate_limit, _wait_for_quota, openai_request_with_retries).
THEOREM KeepsItsPromise == Spec => Implements
<1>1. Init => Quota!Init
  BY DEF Init, Quota!Init
<1> QED BY <1>1, QuotaStep, LogsAgree, PTL DEF Spec, Implements, Quota!Spec

----------------------------------------------------------------------------
(* The pace.  Of the requests of a recent past and of those that have passed *)
(* the interval and wait for the quota, all but Concurrency passed it within *)
(* that past, an interval apart: whoever waits keeps a place of the semaphore. *)

Waiting == {c \in Callers : pc[c] \in {"quota", "overQuota"}}
Past(limit) == Weight(sent, SentOne, limit) + Cardinality(Waiting)

PaceInv ==
  /\ IsFiniteSet(Holders) /\ Cardinality(Holders) <= Concurrency
  /\ \A limit \in 0 .. Window :
       Past(limit) > Concurrency =>
         (Past(limit) - Concurrency - 1) * Interval + since <= limit

LEMMA PaceFacts ==
  ASSUME IInv, PaceInv
  PROVE  /\ IsFiniteSet(Waiting) /\ Cardinality(Waiting) \in Nat
         /\ Cardinality(Waiting) <= Concurrency /\ Cardinality(Holders) \in Nat
         /\ Weighable(sent, SentOne)
         /\ \A limit : Weight(sent, SentOne, limit) \in Nat
         /\ Window \in 0 .. Window /\ Concurrency \in Nat \ {0} /\ Interval \in Nat \ {0}
<1>1. Waiting \in SUBSET Holders
  BY DEF Waiting, Holders, Inside
<1>2. IsFiniteSet(Holders) /\ Cardinality(Holders) <= Concurrency
  BY DEF PaceInv
<1>3. IsFiniteSet(Waiting) /\ Cardinality(Waiting) <= Cardinality(Holders)
  BY <1>1, <1>2, FS_Subset
<1>4. Cardinality(Waiting) \in Nat /\ Cardinality(Holders) \in Nat
  BY <1>2, <1>3, FS_CardinalityType
<1>5. Weighable(sent, SentOne)
  BY Weights DEF IInv, TypeOK, Weighable
<1>6. \A limit : Weight(sent, SentOne, limit) \in Nat
  BY <1>5, WeightFacts
<1>7. Window \in 0 .. Window /\ Concurrency \in Nat \ {0} /\ Interval \in Nat \ {0}
  BY ThrottleAssumption
<1> QED BY <1>2, <1>3, <1>4, <1>5, <1>6, <1>7

\* The semaphore, whoever enters or leaves.
LEMMA SemaphoreStep ==
  ASSUME IInv, PaceInv, NEW c \in Callers, Request(c) \/ Work(c) \/ Answer(c) \/ Refuse(c)
  PROVE  IsFiniteSet(Holders') /\ Cardinality(Holders') <= Concurrency
<1>1. /\ IsFiniteSet(Holders) /\ Cardinality(Holders) <= Concurrency
      /\ Cardinality(Holders) \in Nat /\ Concurrency \in Nat
  BY PaceFacts DEF PaceInv
<1>2. CASE Admit(c)
  <2>1. c \notin Holders /\ Holders' = Holders \cup {c}
    BY <1>2 DEF Admit, Goes, Holders, Inside, IInv, TypeOK
  <2>2. Cardinality(Holders) < Concurrency
    BY <1>2 DEF Admit
  <2>3. IsFiniteSet(Holders \cup {c}) /\ Cardinality(Holders \cup {c}) = Cardinality(Holders) + 1
    BY <1>1, <2>1, FS_AddElement
  <2> QED BY <1>1, <2>1, <2>2, <2>3
<1>3. CASE ~ Admit(c)
  <2>1. Holders' \in SUBSET Holders
    BY <1>3 DEF Request, Work, BeginSpacing, EndSpacing, CountRequest, MeetQuota, AskAgain, Retry,
                Answer, Refuse, Goes, Ends, Holders, Inside, IInv, TypeOK
  <2>2. IsFiniteSet(Holders') /\ Cardinality(Holders') <= Cardinality(Holders)
    BY <1>1, <2>1, FS_Subset
  <2>3. Cardinality(Holders') \in Nat
    BY <2>2, FS_CardinalityType
  <2> QED BY <1>1, <2>2, <2>3
<1> QED BY <1>2, <1>3

\* One more passes the interval: it is over.
LEMMA PassStep ==
  ASSUME IInv, PaceInv, NEW c \in Callers, EndSpacing(c), NEW limit \in 0 .. Window
  PROVE  Past(limit)' = Past(limit) + 1 /\ since = Interval /\ since' = 0
<1>1. since = Interval /\ since' = 0
  BY ThrottleAssumption DEF EndSpacing, IInv, TypeOK, Spacing
<1>2. /\ IsFiniteSet(Waiting) /\ Cardinality(Waiting) \in Nat
      /\ Weighable(sent, SentOne) /\ Weight(sent, SentOne, limit) \in Nat
  BY PaceFacts
<1>3. limit \in Nat /\ SentOne' = SentOne
  BY ThrottleAssumption DEF SentOne, SentEntry
<1>4. CASE tokens[c] = Script
  <2> DEFINE e == Quota!Sent(0, FALSE)
  <2>1. sent' = Append(sent, e) /\ Waiting' = Waiting
    BY <1>4 DEF EndSpacing, Goes, Waiting, IInv, TypeOK
  <2>2. e \in DOMAIN SentOne /\ e.age = 0 /\ SentOne[e] = 1
    BY NewEntries, Weights
  <2> HIDE DEF e
  <2>4. Weight(Append(sent, e), SentOne, limit) = Weight(sent, SentOne, limit) + SentOne[e]
    BY ONLY <1>2, <1>3, <2>2, WeightAppended
  <2>5. Past(limit)' = Weight(Append(sent, e), SentOne, limit) + Cardinality(Waiting)
    BY <1>3, <2>1 DEF Past
  <2>6. Past(limit)' = (Weight(sent, SentOne, limit) + 1) + Cardinality(Waiting)
    BY ONLY <2>2, <2>4, <2>5
  <2>7. Past(limit) = Weight(sent, SentOne, limit) + Cardinality(Waiting)
    BY DEF Past
  <2>8. Past(limit)' = Past(limit) + 1
    BY ONLY <1>2, <2>6, <2>7
  <2> QED BY <1>1, <2>8
<1>5. CASE tokens[c] # Script
  <2>1. sent' = sent /\ c \notin Waiting /\ Waiting' = Waiting \cup {c}
    BY <1>5 DEF EndSpacing, Goes, Waiting, IInv, TypeOK
  <2>2. Cardinality(Waiting \cup {c}) = Cardinality(Waiting) + 1
    BY <1>2, <2>1, FS_AddElement
  <2> QED BY <1>1, <1>2, <1>3, <2>1, <2>2 DEF Past
<1> QED BY <1>4, <1>5

\* One that waited leaves.
LEMMA LeaveStep ==
  ASSUME IInv, PaceInv, NEW c \in Callers, CountRequest(c), NEW limit \in 0 .. Window
  PROVE  Past(limit)' = Past(limit) /\ since' = since
<1>1. /\ IsFiniteSet(Waiting) /\ Cardinality(Waiting) \in Nat
      /\ Weighable(sent, SentOne) /\ Weight(sent, SentOne, limit) \in Nat
  BY PaceFacts
<1>2. limit \in Nat /\ SentOne' = SentOne
  BY ThrottleAssumption DEF SentOne, SentEntry
<1>3. tokens[c] \in Nat
  BY EstimatesNat DEF CountRequest, IInv, TypeOK, CountedOnly, Script
<1>4. /\ sent' = Append(sent, Quota!Sent(tokens[c], TRUE)) /\ since' = since
      /\ c \in Waiting /\ Waiting' = Waiting \ {c}
  BY DEF CountRequest, Goes, Waiting, IInv, TypeOK
<1> DEFINE e == Quota!Sent(tokens[c], TRUE)
<1>5. e \in DOMAIN SentOne /\ e.age = 0 /\ SentOne[e] = 1
  BY <1>3, NewEntries, Weights
<1> HIDE DEF e
<1>6. Weight(Append(sent, e), SentOne, limit) = Weight(sent, SentOne, limit) + SentOne[e]
  BY ONLY <1>1, <1>2, <1>5, WeightAppended
<1>7. Cardinality(Waiting \ {c}) = Cardinality(Waiting) - 1
  BY <1>1, <1>4, FS_RemoveElement
<1>8. Past(limit)' = Weight(Append(sent, e), SentOne, limit) + Cardinality(Waiting \ {c})
  BY <1>2, <1>4 DEF Past, e
<1>9. Past(limit)' = (Weight(sent, SentOne, limit) + 1) + (Cardinality(Waiting) - 1)
  BY ONLY <1>5, <1>6, <1>7, <1>8
<1>10. Past(limit) = Weight(sent, SentOne, limit) + Cardinality(Waiting)
  BY DEF Past
<1>11. Past(limit)' = Past(limit)
  BY ONLY <1>1, <1>9, <1>10
<1> QED BY <1>4, <1>11

LEMMA TickPaced == IInv /\ LogInv /\ PaceInv /\ Tick => PaceInv'
<1> SUFFICES ASSUME IInv, LogInv, PaceInv, Tick PROVE PaceInv'
  OBVIOUS
<1>1. /\ Holders' = Holders /\ Waiting' = Waiting /\ sent' = Quota!Aged(sent)
      /\ since' \in Nat /\ since \in Nat /\ since' <= since + 1
  BY ThrottleAssumption, SMTT(20) DEF Tick, Holders, Waiting, IInv, TypeOK
<1>2. /\ Cardinality(Waiting) \in Nat /\ Cardinality(Waiting) <= Concurrency
      /\ \A limit : Weight(sent, SentOne, limit) \in Nat
      /\ Concurrency \in Nat /\ Interval \in Nat
  BY PaceFacts
<1>3. SentOne' = SentOne
  BY DEF SentOne, SentEntry
<1>4. ASSUME NEW limit \in 0 .. Window
      PROVE  Past(limit)' = Past(limit - 1)
  <2>1. Weight(sent', SentOne, limit) = Weight(sent, SentOne, limit - 1)
    BY <1>1, AgedLog, Weights DEF IInv, TypeOK, LogInv
  <2> QED BY <1>1, <1>3, <2>1 DEF Past
<1>5. Past(0 - 1) = Cardinality(Waiting)
  <2>1. (\A e \in SentEntry : e.age \in Nat) /\ sent \in Seq(SentEntry)
    BY DEF SentEntry, IInv, TypeOK
  <2>2. Weight(sent, SentOne, 0 - 1) = 0
    BY <2>1, NoneUnborn
  <2> QED BY <1>2, <2>2 DEF Past
<1>6. ASSUME NEW limit \in 0 .. Window, Past(limit)' > Concurrency
      PROVE  (Past(limit)' - Concurrency - 1) * Interval + since' <= limit
  <2>1. limit # 0
    BY <1>2, <1>4, <1>5, <1>6
  <2>2. limit - 1 \in 0 .. Window /\ limit \in Nat
    BY <2>1, ThrottleAssumption
  <2>3. (Past(limit - 1) - Concurrency - 1) * Interval + since <= limit - 1
    BY <1>4, <1>6, <2>2 DEF PaceInv
  <2>4. (Past(limit - 1) - Concurrency - 1) * Interval \in Int
    <3>1. Past(limit - 1) \in Int
      BY <1>2 DEF Past
    <3> QED BY <1>2, <3>1
  <2> DEFINE product == (Past(limit - 1) - Concurrency - 1) * Interval
  <2>5. product \in Int /\ product + since <= limit - 1
    BY <2>3, <2>4
  <2>6. (Past(limit)' - Concurrency - 1) * Interval = product
    BY <1>4
  <2> HIDE DEF product
  <2>7. product + since' <= limit
    <3>1. /\ since' \in Int /\ since \in Int /\ since' <= since + 1
          /\ limit \in Int /\ product \in Int /\ product + since <= limit - 1
      BY <1>1, <2>2, <2>5
    <3>2. \A a, b, c, d \in Int : a + b <= d - 1 /\ c <= b + 1 => a + c <= d
      OBVIOUS
    <3> QED BY ONLY <3>1, <3>2
  <2> QED BY <2>6, <2>7
<1> QED BY <1>1, <1>6 DEF PaceInv

LEMMA PaceStep == IInv /\ LogInv /\ PaceInv /\ [Next]_vars => PaceInv'
<1> SUFFICES ASSUME IInv, LogInv, PaceInv, [Next]_vars PROVE PaceInv'
  OBVIOUS
<1>1. CASE UNCHANGED vars
  BY <1>1 DEF vars, PaceInv, Past, Holders, Waiting
<1>2. CASE Tick
  BY <1>2, TickPaced
<1>3. ASSUME NEW c \in Callers, Request(c) \/ Work(c) \/ Answer(c) \/ Refuse(c)
      PROVE  PaceInv'
  <2>1. IsFiniteSet(Holders') /\ Cardinality(Holders') <= Concurrency
    BY <1>3, SemaphoreStep
  <2>2. \A limit \in 0 .. Window : limit \in Nat /\ Past(limit) \in Nat
    BY PaceFacts, ThrottleAssumption DEF Past
  <2>3. Concurrency \in Nat /\ Interval \in Nat
    BY ThrottleAssumption
  <2>4. CASE EndSpacing(c)
    <3>1. ASSUME NEW limit \in 0 .. Window, Past(limit)' > Concurrency
          PROVE  (Past(limit)' - Concurrency - 1) * Interval + since' <= limit
      <4>1. Past(limit)' = Past(limit) + 1 /\ since = Interval /\ since' = 0
        BY <2>4, PassStep
      <4> DEFINE x == Past(limit) - Concurrency
      <4>2. x \in Int /\ Past(limit)' - Concurrency - 1 = x /\ x >= 0
        BY <2>2, <2>3, <3>1, <4>1
      <4>3. CASE x = 0
        BY <2>2, <2>3, <4>1, <4>2, <4>3
      <4>4. CASE x > 0
        <5>1. (x - 1) * Interval + Interval <= limit
          BY <2>2, <2>3, <4>1, <4>4 DEF PaceInv
        <5> HIDE DEF x
        <5>2. x * Interval \in Int /\ (x - 1) * Interval + Interval = x * Interval
          BY <2>3, <4>2
        <5> QED BY <2>2, <4>1, <4>2, <5>1, <5>2
      <4> HIDE DEF x
      <4> QED BY <4>2, <4>3, <4>4
    <3> QED BY <2>1, <3>1 DEF PaceInv
  <2>5. CASE CountRequest(c)
    <3>1. \A limit \in 0 .. Window : Past(limit)' = Past(limit) /\ since' = since
      BY <2>5, LeaveStep
    <3> QED BY <2>1, <3>1 DEF PaceInv
  <2>6. CASE ~ EndSpacing(c) /\ ~ CountRequest(c)
    <3>1. sent' = sent /\ since' = since /\ Waiting' = Waiting
      BY <1>3, <2>6 DEF Request, Work, Admit, BeginSpacing, MeetQuota, AskAgain, Retry, Answer,
                        Refuse, Goes, Ends, Waiting, IInv, TypeOK
    <3>2. SentOne' = SentOne
      BY DEF SentOne, SentEntry
    <3>3. \A limit : Past(limit)' = Past(limit)
      BY <3>1, <3>2 DEF Past
    <3> QED BY <2>1, <3>1, <3>3 DEF PaceInv
  <2> QED BY <2>4, <2>5, <2>6
<1> QED BY <1>1, <1>2, <1>3 DEF Next

LEMMA InitPaceInv == Init => PaceInv
<1> SUFFICES ASSUME Init PROVE PaceInv
  OBVIOUS
<1>1. Holders = {} /\ Waiting = {} /\ sent = <<>>
  BY DEF Init, Holders, Waiting, Inside
<1>2. IsFiniteSet({}) /\ Cardinality({}) = 0
  BY FS_EmptySet
<1>3. \A limit : Weight(<<>>, SentOne, limit) = 0
  <2>1. \A limit : Recent(<<>>, limit) = {}
    BY DEF Recent
  <2> QED BY <2>1, SumEmpty DEF Weight
<1>4. \A limit : Past(limit) = 0
  BY <1>1, <1>2, <1>3 DEF Past
<1> QED BY <1>1, <1>2, <1>4, ThrottleAssumption DEF PaceInv

\* How often an interval goes into a window.
LEMMA TimesInto ==
  ASSUME NEW n \in Nat, NEW i \in Nat \ {0}, NEW x \in Int, x * i <= n
  PROVE  x <= n \div i
<1> DEFINE q == n \div i
<1>1. q \in Int /\ n < (q + 1) * i
  <2>1. n = i * q + (n % i) /\ n % i < i /\ n % i >= 0
    OBVIOUS
  <2>2. q \in Int /\ n % i \in Int
    OBVIOUS
  <2> HIDE DEF q
  <2>3. (q + 1) * i = i * q + i
    BY <2>2
  <2> QED BY <2>1, <2>2, <2>3
<1> HIDE DEF q
<1>2. x >= q + 1 => x * i >= (q + 1) * i
  BY <1>1
<1>3. x * i \in Int /\ (q + 1) * i \in Int
  BY <1>1
<1>4. ~ (x >= q + 1)
  BY <1>1, <1>2, <1>3
<1> QED BY <1>1, <1>4 DEF q

\* However many callers send what nobody counts, no window holds more requests
\* than the interval lets through, and one for each place of the semaphore
\* (request_script, apply_openai_rate_limit, get_openai_semaphore).
THEOREM IntervalIsABound == Spec => []IntervalBounds
<1>1. IInv /\ LogInv /\ PaceInv => IntervalBounds
  <2> SUFFICES ASSUME IInv, LogInv, PaceInv
               PROVE  Len(sent) <= 1 + Window \div Interval + Concurrency
    BY DEF IntervalBounds, Quota!IntervalBounds
  <2>1. /\ Cardinality(Waiting) \in Nat /\ Window \in 0 .. Window /\ Window \in Nat
        /\ Concurrency \in Nat /\ Interval \in Nat \ {0}
    BY PaceFacts, ThrottleAssumption
  <2>2. Len(sent) = Weight(sent, SentOne, Window)
    <3>1. /\ SentOne \in [SentEntry -> Nat] /\ sent \in Seq(SentEntry) /\ Ordered(sent, Window)
          /\ \A e \in SentEntry : SentOne[e] = 1
      BY Weights DEF SentOne, IInv, TypeOK, LogInv
    <3> QED BY ONLY <3>1, LengthIsWeighed
  <2>3. Len(sent) \in Nat /\ since \in Nat
    BY ThrottleAssumption DEF IInv, TypeOK
  <2> DEFINE x == Past(Window) - Concurrency - 1
             room == Window \div Interval
  <2>4. x \in Int /\ Len(sent) <= x + Concurrency + 1
    BY <2>1, <2>2, <2>3 DEF Past
  <2>5. room \in Nat
    BY <2>1
  <2>6. CASE x >= 0
    <3>1. x * Interval + since <= Window
      BY <2>1, <2>2, <2>3, <2>6 DEF PaceInv, Past
    <3> HIDE DEF x
    <3>2. x * Interval \in Int
      BY <2>1, <2>4
    <3>3. x * Interval <= Window
      BY <2>1, <2>3, <3>1, <3>2
    <3>4. x <= room
      BY <2>1, <2>4, <3>3, TimesInto
    <3> HIDE DEF room
    <3>5. Len(sent) <= 1 + room + Concurrency
      BY <2>1, <2>3, <2>4, <2>5, <3>4
    <3> QED BY <3>5 DEF room
  <2>7. CASE x < 0
    <3> HIDE DEF x, room
    <3>1. Len(sent) <= 1 + room + Concurrency
      BY <2>1, <2>3, <2>4, <2>5, <2>7
    <3> QED BY <3>1 DEF room
  <2> HIDE DEF x, room
  <2> QED BY <2>4, <2>6, <2>7
<1> QED BY <1>1, LogsAgree, InitPaceInv, PaceStep, PTL DEF Spec
=============================================================================
