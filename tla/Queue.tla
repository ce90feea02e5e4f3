-------------------------------- MODULE Queue --------------------------------
(***************************************************************************)
(* What the queue and its workers promise whoever posts a row (docs/        *)
(* queueing.md), with nothing said of workers, calls or threads: a row is   *)
(* run at most MaxAttempts times, its outcome is one that a run of it       *)
(* reached or that its attempts are used up, and it is final.               *)
(***************************************************************************)
EXTENDS Naturals

CONSTANTS Rows, MaxAttempts

VARIABLES
    status,     \* what is shown of each row
    attempt,    \* how often it was handed out
    reached     \* the outcomes its runs have come to
vars == <<status, attempt, reached>>

Outcomes == {"done", "failed"}

Init ==
    /\ status = [r \in Rows |-> "absent"]
    /\ attempt = [r \in Rows |-> 0]
    /\ reached = [r \in Rows |-> {}]

Become(r, s) == status' = [status EXCEPT ![r] = s]

Post(r) ==
    /\ status[r] = "absent"
    /\ Become(r, "queued")
    /\ UNCHANGED <<attempt, reached>>
Take(r) ==
    /\ status[r] = "queued" /\ attempt[r] < MaxAttempts
    /\ Become(r, "running")
    /\ attempt' = [attempt EXCEPT ![r] = @ + 1]
    /\ UNCHANGED reached
\* A run comes to an end, perhaps after the row was taken away from it.
Reach(r, o) ==
    /\ attempt[r] > 0
    /\ reached' = [reached EXCEPT ![r] = @ \cup {o}]
    /\ UNCHANGED <<status, attempt>>
Settle(r, o) ==
    /\ status[r] = "running" /\ o \in reached[r]
    /\ Become(r, o)
    /\ UNCHANGED <<attempt, reached>>
GiveBack(r) ==
    /\ status[r] = "running" /\ attempt[r] < MaxAttempts
    /\ Become(r, "queued")
    /\ UNCHANGED <<attempt, reached>>
GiveUp(r) ==
    /\ status[r] = "running" /\ attempt[r] = MaxAttempts
    /\ Become(r, "failed")
    /\ UNCHANGED <<attempt, reached>>

Next == \E r \in Rows :
    \/ Post(r) \/ Take(r) \/ GiveBack(r) \/ GiveUp(r)
    \/ \E o \in Outcomes : Reach(r, o) \/ Settle(r, o)
Spec == Init /\ [][Next]_vars
==============================================================================
