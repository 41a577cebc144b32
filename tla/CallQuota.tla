---------------------------- MODULE CallQuota ----------------------------
(***************************************************************************)
(* What the OpenAI client of one process promises about the requests it    *)
(* sends (controller/script_generation/clients.py), without saying how:    *)
(* they leave at least Interval apart, and the counted ones stay within    *)
(* RpmLimit requests and TpmLimit tokens in every Window.                  *)
(***************************************************************************)
EXTENDS Integers, Sequences, FiniteSets, Functions

CONSTANTS     \* natural numbers: OpenAIThrottle, which instantiates them, assumes it
  Interval,   \* OPENAI_MIN_INTERVAL_MS, in ticks
  Window,     \* the 60 seconds of the two deques, in ticks
  RpmLimit,   \* OPENAI_RPM_LIMIT
  TpmLimit    \* OPENAI_TPM_LIMIT

VARIABLES
  since,      \* ticks since a request last left, at most Interval
  sent        \* the requests of the last Window: age, tokens, whether counted

vars == <<since, sent>>

Sent(n, c) == [age |-> 0, tokens |-> n, counted |-> c]

TokensOf(log) == SumFunction([i \in DOMAIN log |-> log[i].tokens])

Counted(log) == {i \in DOMAIN log : log[i].counted}

(* A tick later: the log is in the order of the ages, so the entries that
   are now older than a window are its first ones, and are forgotten. *)
Aged(log) ==
  LET older == [i \in DOMAIN log |-> [log[i] EXCEPT !.age = @ + 1]]
      gone  == Cardinality({i \in DOMAIN log : older[i].age > Window})
  IN  SubSeq(older, gone + 1, Len(older))

Init == since = Interval /\ sent = <<>>

Tick ==
  /\ since' = (IF since < Interval THEN since + 1 ELSE since)
  /\ sent' = Aged(sent)

(* A request may leave: the last one is an interval ago. *)
Pass == since >= Interval /\ since' = 0 /\ UNCHANGED sent

(* A script request leaves; nothing counts it. *)
Script == since >= Interval /\ since' = 0 /\ sent' = Append(sent, Sent(0, FALSE))

(* A counted request leaves, within both limits. *)
Count(n) ==
  /\ Cardinality(Counted(sent)) < RpmLimit
  /\ TokensOf(sent) + n <= TpmLimit
  /\ sent' = Append(sent, Sent(n, TRUE))
  /\ UNCHANGED since

Next == Tick \/ Pass \/ Script \/ \E n \in 0 .. TpmLimit : Count(n)

Spec == Init /\ [][Next]_vars

(* In every window the counted requests stay within the request limit and
   their tokens within the token limit (_wait_for_quota). *)
LimitsKept ==
  /\ Cardinality(Counted(sent)) <= RpmLimit
  /\ TokensOf(sent) <= TpmLimit

(* Whatever is counted or not, no window holds more requests than the
   interval lets through and those that passed it and have not left yet. *)
IntervalBounds(slots) ==
  Interval > 0 => Len(sent) <= 1 + Window \div Interval + slots
=============================================================================
