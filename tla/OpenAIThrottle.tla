-------------------------- MODULE OpenAIThrottle --------------------------
(***************************************************************************)
(* The throttle of one process's OpenAI client: a semaphore, a minimum     *)
(* interval kept by a lock that is held while sleeping, a window of the    *)
(* counted requests kept by a second lock, and retries of refused ones     *)
(* (controller/script_generation/clients.py).  A caller is a coroutine     *)
(* that sends a script request (generate.py, not counted, not retried) or  *)
(* a transcription or coaching tip request (counted and retried).  Time is *)
(* discrete; what the code compares are ages, so ages are what is kept.    *)
(***************************************************************************)
EXTENDS Integers, Sequences, FiniteSets

CONSTANTS
  Callers, NoCaller,
  Concurrency,   \* OPENAI_MAX_CONCURRENCY, at least 1
  Interval,      \* OPENAI_MIN_INTERVAL_MS in ticks; 0, which disables it, is left out
  Window, RpmLimit, TpmLimit,
  AsrTokens,     \* OPENAI_ASR_TOKEN_ESTIMATE
  TextLengths,   \* lengths of the prompts of coaching tips
  MaxRetries,    \* OPENAI_MAX_RETRIES
  MaxDelay,      \* OPENAI_RETRY_MAX_DELAY, in ticks
  RetryAfters    \* what a Retry-After header may say, in ticks

ASSUME ThrottleAssumption ==
  /\ NoCaller \notin Callers
  /\ Concurrency \in Nat \ {0} /\ Interval \in Nat \ {0} /\ Window \in Nat \ {0}
  /\ RpmLimit \in Nat /\ TpmLimit \in Nat /\ AsrTokens \in Nat
  /\ TextLengths \subseteq Nat /\ RetryAfters \subseteq Nat
  /\ MaxRetries \in Nat /\ MaxDelay \in Nat

VARIABLES
  pc,          \* where each caller is
  tokens,      \* its estimate, or Script
  attempt,     \* refusals it has met
  timer,       \* ticks until its sleep ends
  rateLock,    \* who holds _openai_rate_lock
  windowLock,  \* who holds _openai_window_lock
  since,       \* age of _openai_last_call, at most Interval
  window,      \* _openai_token_window; _openai_request_window has the same ages
  sent         \* history: the requests of the last Window

vars == <<pc, tokens, attempt, timer, rateLock, windowLock, since,
          window, sent>>

Quota == INSTANCE CallQuota WITH since <- since, sent <- sent

Script == -1

(* estimate_tokens_from_texts: four characters a token, at least one. *)
EstimateTokens(length) == IF length \div 4 > 1 THEN length \div 4 ELSE 1

Estimates == {AsrTokens} \union {EstimateTokens(l) : l \in TextLengths}

Inside == {"pacing", "spacing", "quota", "overQuota", "calling"}
Holders == {c \in Callers : pc[c] \in Inside}

Entry == [age : Nat, tokens : Nat]
SentEntry == [age : Nat, tokens : Nat, counted : BOOLEAN]

TypeOK ==
  /\ pc \in [Callers -> Inside \union {"idle", "queued", "backoff"}]
  /\ tokens \in [Callers -> Estimates \union {Script}]
  /\ attempt \in [Callers -> 0 .. MaxRetries]
  /\ timer \in [Callers -> Nat]
  /\ rateLock \in Callers \union {NoCaller}
  /\ windowLock \in Callers \union {NoCaller}
  /\ since \in 0 .. Interval
  /\ window \in Seq(Entry)
  /\ sent \in Seq(SentEntry)

Init ==
  /\ pc = [c \in Callers |-> "idle"]
  /\ tokens = [c \in Callers |-> Script]
  /\ attempt = [c \in Callers |-> 0]
  /\ timer = [c \in Callers |-> 0]
  /\ rateLock = NoCaller /\ windowLock = NoCaller
  /\ since = Interval
  /\ window = <<>>
  /\ sent = <<>>

Goes(c, to) == pc' = [pc EXCEPT ![c] = to]

(* The coroutine is over, and its local variables with it. *)
Ends(c) ==
  /\ Goes(c, "idle")
  /\ tokens' = [tokens EXCEPT ![c] = Script]
  /\ attempt' = [attempt EXCEPT ![c] = 0]

Sleeps(c, ticks) == timer' = [timer EXCEPT ![c] = ticks]
Positive(n) == IF n > 0 THEN n ELSE 0

-----------------------------------------------------------------------------
(* request_script and openai_request_with_retries begin and wait for the
   semaphore. *)
Request(c) ==
  /\ pc[c] = "idle"
  /\ \E n \in Estimates \union {Script} : tokens' = [tokens EXCEPT ![c] = n]
  /\ Goes(c, "queued")
  /\ UNCHANGED <<attempt, timer, rateLock, windowLock, since, window, sent>>

Admit(c) ==
  /\ pc[c] = "queued"
  /\ Cardinality(Holders) < Concurrency
  /\ Goes(c, "pacing")
  /\ UNCHANGED <<tokens, attempt, timer, rateLock, windowLock, since, window, sent>>

(* Variant: the lock is given back before the sleep. *)
BeginSpacingUnlocked(c) ==
  /\ pc[c] = "pacing" /\ rateLock = NoCaller
  /\ Sleeps(c, Interval - since)
  /\ Goes(c, "spacing")
  /\ UNCHANGED <<tokens, attempt, rateLock, windowLock, since, window, sent>>

(* apply_openai_rate_limit: with the lock held, sleep off what is left of the
   interval. *)
BeginSpacing(c) ==
  /\ pc[c] = "pacing" /\ rateLock = NoCaller
  /\ rateLock' = c
  /\ Sleeps(c, Interval - since)
  /\ Goes(c, "spacing")
  /\ UNCHANGED <<tokens, attempt, windowLock, since, window, sent>>

(* The interval is over: a script request leaves, another asks the window. *)
EndSpacing(c) ==
  /\ pc[c] = "spacing" /\ timer[c] = 0
  /\ rateLock' = NoCaller
  /\ since' = 0
  /\ \/ /\ tokens[c] = Script
        /\ sent' = Append(sent, Quota!Sent(0, FALSE))
        /\ Goes(c, "calling")
     \/ /\ tokens[c] # Script
        /\ UNCHANGED sent
        /\ Goes(c, "quota")
  /\ UNCHANGED <<tokens, attempt, timer, windowLock, window>>

-----------------------------------------------------------------------------
(* The deques without the heads that are more than a window old. *)
WithoutHeads(limit) ==
  LET stale == {i \in DOMAIN window : \A j \in 1 .. i : window[j].age > limit}
  IN  SubSeq(window, Cardinality(stale) + 1, Len(window))

(* Variant: an entry that is exactly a window old is dropped already. *)
PrunedEarly == WithoutHeads(Window - 1)

Pruned == WithoutHeads(Window)

(* Variant: the request limit is passed by one. *)
OverLimitByOne(c) ==
  \/ Len(Pruned) > RpmLimit
  \/ Quota!TokensOf(Pruned) + tokens[c] > TpmLimit

OverLimit(c) ==
  \/ Len(Pruned) >= RpmLimit
  \/ Quota!TokensOf(Pruned) + tokens[c] > TpmLimit

(* _wait_for_quota under the limits: the request is counted and leaves.  The
   lock is taken and given back without an await in between. *)
CountRequest(c) ==
  /\ pc[c] = "quota" /\ windowLock = NoCaller
  /\ ~OverLimit(c)
  /\ window' = Append(Pruned, [age |-> 0, tokens |-> tokens[c]])
  /\ sent' = Append(sent, Quota!Sent(tokens[c], TRUE))
  /\ Goes(c, "calling")
  /\ UNCHANGED <<tokens, attempt, timer, rateLock, windowLock, since>>

(* At a limit it sleeps with the lock held, until the oldest entry is more
   than a window old. *)
MeetQuota(c) ==
  /\ pc[c] = "quota" /\ windowLock = NoCaller
  /\ OverLimit(c)
  /\ windowLock' = c
  /\ window' = Pruned
  /\ Sleeps(c, 1 + (IF Pruned = <<>> THEN Window
                    ELSE Positive(Window - Head(Pruned).age)))
  /\ Goes(c, "overQuota")
  /\ UNCHANGED <<tokens, attempt, rateLock, since, sent>>

(* Variant: the lock is given back before asking again. *)
AskAgainUnlocked(c) ==
  /\ pc[c] = "overQuota" /\ timer[c] = 0
  /\ windowLock' = NoCaller
  /\ Goes(c, "quota")
  /\ UNCHANGED <<tokens, attempt, timer, rateLock, since, window, sent>>

(* It calls _wait_for_quota again, inside the `async with`: the lock it then
   waits for is its own. *)
AskAgain(c) ==
  /\ pc[c] = "overQuota" /\ timer[c] = 0
  /\ Goes(c, "quota")
  /\ UNCHANGED <<tokens, attempt, timer, rateLock, windowLock, since,
                 window, sent>>

-----------------------------------------------------------------------------
(* OpenAI answers, or fails with anything but a 429: the semaphore is given
   back and the caller is done. *)
Answer(c) ==
  /\ pc[c] = "calling"
  /\ Ends(c)
  /\ UNCHANGED <<timer, rateLock, windowLock, since, window, sent>>

(* The delays after the n-th refusal: what the header says, or doubling from
   a tick up to MaxDelay. *)
Backoff(n) == IF 2 ^ (n - 1) < MaxDelay THEN 2 ^ (n - 1) ELSE MaxDelay
Delays(n) == RetryAfters \union {t \in 0 .. MaxDelay : t = Backoff(n)}

(* Variant: one retry more than MaxRetries. *)
RefuseOnceMore(c) ==
  /\ pc[c] = "calling" /\ tokens[c] # Script
  /\ attempt[c] <= MaxRetries
  /\ attempt' = [attempt EXCEPT ![c] = @ + 1]
  /\ \E ticks \in RetryAfters : Sleeps(c, ticks)
  /\ Goes(c, "backoff")
  /\ UNCHANGED <<tokens, rateLock, windowLock, since, window, sent>>

(* Variant: refusals are not counted. *)
RefuseForEver(c) ==
  /\ pc[c] = "calling" /\ tokens[c] # Script
  /\ \E ticks \in Delays(attempt[c] + 1) : Sleeps(c, ticks)
  /\ Goes(c, "backoff")
  /\ UNCHANGED <<tokens, attempt, rateLock, windowLock, since, window, sent>>

(* A 429: give up after MaxRetries of them, else sleep as the header says or
   as the attempts suggest, with the semaphore given back. *)
Refuse(c) ==
  /\ pc[c] = "calling" /\ tokens[c] # Script
  /\ \/ /\ attempt[c] = MaxRetries
        /\ Ends(c)
        /\ UNCHANGED timer
     \/ /\ attempt[c] < MaxRetries
        /\ attempt' = [attempt EXCEPT ![c] = @ + 1]
        /\ \E ticks \in Delays(attempt[c] + 1) : Sleeps(c, ticks)
        /\ Goes(c, "backoff")
        /\ UNCHANGED tokens
  /\ UNCHANGED <<rateLock, windowLock, since, window, sent>>

Retry(c) ==
  /\ pc[c] = "backoff" /\ timer[c] = 0
  /\ Goes(c, "queued")
  /\ UNCHANGED <<tokens, attempt, timer, rateLock, windowLock, since, window, sent>>

(* An entry more than a window old stays in the deque until somebody looks, and
   gets no older here. *)
Older(age) == IF age <= Window THEN age + 1 ELSE age

(* A tick passes. *)
Tick ==
  /\ timer' = [c \in Callers |-> Positive(timer[c] - 1)]
  /\ since' = (IF since < Interval THEN since + 1 ELSE since)
  /\ window' = [i \in DOMAIN window |-> [window[i] EXCEPT !.age = Older(@)]]
  /\ sent' = Quota!Aged(sent)
  /\ UNCHANGED <<pc, tokens, attempt, rateLock, windowLock>>

Work(c) ==
  \/ Admit(c) \/ BeginSpacing(c) \/ EndSpacing(c) \/ CountRequest(c)
  \/ MeetQuota(c) \/ AskAgain(c) \/ Retry(c)

Next == Tick \/ \E c \in Callers : Request(c) \/ Work(c) \/ Answer(c) \/ Refuse(c)

(* Time passes, the event loop runs what can run, and OpenAI's client ends
   every call, if only by its own timeout.  asyncio serves the waiters of a
   semaphore and of a lock in order, so none of them is passed over for ever. *)
Fairness ==
  /\ WF_vars(Tick)
  /\ \A c \in Callers :
       /\ WF_vars(Work(c)) /\ WF_vars(Answer(c) \/ Refuse(c))
       /\ SF_vars(Admit(c)) /\ SF_vars(BeginSpacing(c))

Spec == Init /\ [][Next]_vars /\ Fairness
-----------------------------------------------------------------------------
(* The throttle keeps CallQuota's promise: requests leave an interval apart
   and the counted ones respect both limits. *)
Implements == Quota!Spec

LimitsKept == Quota!LimitsKept

(* A caller goes past the interval only an interval after the last one that
   did, whoever that was (apply_openai_rate_limit): reading the clock, sleeping
   and writing _openai_last_call are three steps. *)
CallsSpaced ==
  [][\A c \in Callers : pc[c] = "spacing" /\ pc'[c] # "spacing" => since = Interval]_vars

(* Script requests are counted by nobody: with them, what a window holds is
   bounded by the interval alone, and by the callers that passed it and leave
   together later (request_script, apply_openai_rate_limit). *)
IntervalBounds == Quota!IntervalBounds(Concurrency)

(* Every caller ends (its semaphore, locks, sleeps and retries are all finite),
   unless somebody met the quota before (_wait_for_quota). *)
EveryCallEnds ==
  \A c \in Callers : pc[c] = "queued" ~> (pc[c] = "idle" \/ windowLock # NoCaller)

(* A caller that meets the quota keeps the window's lock for good, and nothing
   is counted any more: the wait for the quota never ends. *)
QuotaStopsCounting ==
  [][windowLock # NoCaller =>
       windowLock' = windowLock /\ Len(window') <= Len(window)]_vars
=============================================================================
