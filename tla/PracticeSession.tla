--------------------------- MODULE PracticeSession ---------------------------
(***************************************************************************)
(* What the session API promises, without handlers, queues or audio: a     *)
(* session is created once, its turns are scored while it exists, it       *)
(* disappears for good, and one coaching tip can be written once all of    *)
(* its turns are scored.  SessionSystem is shown to implement this.        *)
(***************************************************************************)
EXTENDS Naturals

CONSTANTS Session, Turn

VARIABLES status, scored, tips

vars == <<status, scored, tips>>

Init ==
  /\ status = [s \in Session |-> "unused"]
  /\ scored = [s \in Session |-> {}]
  /\ tips = [s \in Session |-> 0]

\* POST /sessions
Create(s) ==
  /\ status[s] = "unused"
  /\ status' = [status EXCEPT ![s] = "live"]
  /\ UNCHANGED <<scored, tips>>

\* PATCH /sessions/{id}/{turn_index}
Score(s, t) ==
  /\ status[s] = "live"
  /\ scored' = [scored EXCEPT ![s] = @ \cup {t}]
  /\ UNCHANGED <<status, tips>>

\* An administrator, the removal of the user's data, or the hourly cleanup.
Remove(s) ==
  /\ status[s] = "live"
  /\ status' = [status EXCEPT ![s] = "gone"]
  /\ UNCHANGED <<scored, tips>>

\* POST /coaching-tips: the session may be removed while the tip is written.
Advise(s) ==
  /\ status[s] # "unused" /\ scored[s] = Turn
  /\ tips[s] = 0
  /\ tips' = [tips EXCEPT ![s] = 1]
  /\ UNCHANGED <<status, scored>>

\* The removal of the user's data.
Forget(s) ==
  /\ tips[s] = 1
  /\ tips' = [tips EXCEPT ![s] = 0]
  /\ UNCHANGED <<status, scored>>

Next ==
  \E s \in Session :
    Create(s) \/ Remove(s) \/ Advise(s) \/ Forget(s) \/ \E t \in Turn : Score(s, t)

Spec == Init /\ [][Next]_vars
=============================================================================
