------------------------------- MODULE Worker -------------------------------
(***************************************************************************)
(* chagama's claim loop (application/work.py, application/                 *)
(* worker_channels.py) against chimera's `requests` queue.                 *)
(*                                                                         *)
(* A worker is a process with a stable worker_id.  It hands back what it   *)
(* still holds, then claims one row at a time, runs it under a heartbeat   *)
(* thread and reports its outcome; between rows it idles until the hub     *)
(* wakes it or the poll interval is over, and leaves when the drain file   *)
(* appears.  Every call to chimera is an HTTP request the client may give  *)
(* up on (ChimeraClient.request raises SystemExit): a call given up on is  *)
(* either lost or applied later, and stays in `late` until then.           *)
(*                                                                         *)
(* The queue itself is chimera, outside the repository: Claimed, Patched,  *)
(* Post, Age and Requeue are what the worker's calls and tests rely on.    *)
(***************************************************************************)
EXTENDS Naturals, FiniteSets

CONSTANTS
    Workers,      \* worker ids; one process at a time runs under an id
    Rows,         \* rows of the requests queue
    NoWorker, NoRow,
    HubWorkers,   \* the workers with a hub wired (services.hub)
    DrainWorkers, \* the workers with a drain file wired (services.draining)
    OnceModes,    \* the values of `work --once` a process may be started with
    MaxAttempts,  \* chimera fails a row instead of requeueing its MaxAttempts-th attempt
    MaxFaults     \* bound on calls given up on, kills, interrupts and drains

ASSUME NoneAssumption == NoWorker \notin Workers /\ NoRow \notin Rows
ASSUME WiringAssumption ==
    /\ HubWorkers \subseteq Workers
    /\ DrainWorkers \subseteq Workers
    /\ OnceModes \subseteq BOOLEAN
ASSUME BoundAssumption == MaxAttempts \in Nat \ {0} /\ MaxFaults \in Nat

VARIABLES
    row,         \* chimera: [Rows -> [status, holder, attempt, fresh]]
    late,        \* calls in flight that no caller waits for any more
    pc,          \* where each worker's main thread is
    hand,        \* work_once's `row`
    outcome,     \* what the worker is about to report, else "none"
    todo,        \* the rows release_claims has yet to hand back
    interrupted, \* work's `interrupted`
    once,        \* work's `once`
    hub,         \* the hub socket: "down", "hello" sent, "up" (wake set)
    frame,       \* a `queued` frame is on its way to the worker
    wake,        \* work's threading.Event
    drain,       \* the drain file exists
    clean,       \* history: since its last release query, every call was answered
    superseded,  \* history: the row in hand was taken away from this attempt
    polled,      \* history: the last claim was answered with no row
    ended,       \* history: <<row, outcome>> of every execution that ran to its end
    faults       \* how many of the MaxFaults faults have happened

server  == <<row, late>>
thread  == <<pc, hand, outcome, todo, interrupted, once>>
channel == <<hub, frame, wake>>
history == <<clean, superseded, polled, ended>>
vars    == <<server, thread, channel, drain, history, faults>>

Outcomes == {"done", "failed"}
Statuses == {"absent", "queued", "running"} \cup Outcomes
Verdicts == Outcomes \cup {"none"}
InLoop   == {"loop", "claim", "empty", "execute", "report", "idle"}
Places   == {"down", "query", "release", "finally", "ack"} \cup InLoop

RowRecord == [status : Statuses, holder : Workers \cup {NoWorker},
              attempt : 0..MaxAttempts, fresh : BOOLEAN]
Call == [op : {"running", "queued"} \cup Outcomes, worker : Workers, row : Rows]
        \cup [op : {"claim"}, worker : Workers, row : {NoRow}]

HeldBy(w) == {r \in Rows : row[r].status = "running" /\ row[r].holder = w}

-----------------------------------------------------------------------------
(* What chimera does with a call (external).                               *)

\* POST /requests/claim gives the row to the worker, one attempt further.
Claimed(x, w) ==
    [status |-> "running", holder |-> w, attempt |-> x.attempt + 1, fresh |-> TRUE]

Claimable(x) == x.status = "queued" /\ x.attempt < MaxAttempts

\* A row back on the queue, or "released after max attempts".
Returned(x) ==
    [status |-> IF x.attempt < MaxAttempts THEN "queued" ELSE "failed",
     holder |-> NoWorker, attempt |-> x.attempt, fresh |-> FALSE]

\* PATCH /requests/{id}: only the worker that holds the running row may.
Patched(x, w, op) ==
    IF ~(x.status = "running" /\ x.holder = w) THEN x
    ELSE IF op = "running" THEN [x EXCEPT !.fresh = TRUE]
    ELSE IF op = "queued"  THEN Returned(x)
    ELSE [status |-> op, holder |-> NoWorker, attempt |-> x.attempt, fresh |-> FALSE]

\* The workers whose attempt at r loses it when the row becomes x.
Taken(r, x) ==
    {w \in Workers : hand[w] = r /\ row[r].status = "running" /\ row[r].holder = w
                     /\ ~(x.status = "running" /\ x.holder = w)}

Lose(r, x) ==
    superseded' = [w \in Workers |-> superseded[w] \/ w \in Taken(r, x)]

\* A new row; the hub tells every connected worker.
Post(r) ==
    /\ row[r].status = "absent"
    /\ row' = [row EXCEPT ![r] = [status |-> "queued", holder |-> NoWorker,
                                  attempt |-> 0, fresh |-> FALSE]]
    /\ frame' = [w \in Workers |-> frame[w] \/ hub[w] # "down"]
    /\ UNCHANGED <<late, thread, hub, wake, drain, history, faults>>

\* The stale sweep: a row not heard of between two sweeps goes back.
Age(r) ==
    /\ row[r].status = "running" /\ row[r].fresh
    /\ row' = [row EXCEPT ![r].fresh = FALSE]
    /\ UNCHANGED <<late, thread, channel, drain, history, faults>>

Requeue(r) ==
    /\ row[r].status = "running" /\ ~row[r].fresh
    /\ row' = [row EXCEPT ![r] = Returned(row[r])]
    /\ Lose(r, Returned(row[r]))
    /\ UNCHANGED <<late, thread, channel, drain, clean, polled, ended, faults>>

\* A call its caller gave up on reaches chimera after all, or never does.
LateClaim(m, r) ==
    /\ m \in late /\ m.op = "claim" /\ Claimable(row[r])
    /\ row' = [row EXCEPT ![r] = Claimed(row[r], m.worker)]
    /\ clean' = [clean EXCEPT ![m.worker] = FALSE]
    /\ late' = late \ {m}
    /\ UNCHANGED <<thread, channel, drain, superseded, polled, ended, faults>>

LatePatch(m) ==
    /\ m \in late /\ m.op # "claim"
    /\ row' = [row EXCEPT ![m.row] = Patched(row[m.row], m.worker, m.op)]
    /\ Lose(m.row, Patched(row[m.row], m.worker, m.op))
    /\ late' = late \ {m}
    /\ UNCHANGED <<thread, channel, drain, clean, polled, ended, faults>>

LostCall(m) ==
    /\ m \in late
    /\ late' = late \ {m}
    /\ UNCHANGED <<row, thread, channel, drain, history, faults>>

-----------------------------------------------------------------------------
(* The worker's main thread.                                               *)

Goto(w, place) == pc' = [pc EXCEPT ![w] = place]

Fault == faults < MaxFaults /\ faults' = faults + 1

GiveUp(w, op, r) ==
    /\ Fault
    /\ late' = late \cup {[op |-> op, worker |-> w, row |-> r]}
    /\ UNCHANGED row

\* A process starts under the id; work() first calls release_claims.
Start(w) ==
    /\ pc[w] = "down"
    /\ Goto(w, "query")
    /\ \E o \in OnceModes : once' = [once EXCEPT ![w] = o]
    /\ UNCHANGED <<server, hand, outcome, todo, interrupted, channel, drain, history, faults>>

\* Where the thread goes on after release_claims: into the loop at startup,
\* to the drain acknowledgement when it runs on the way out.
AfterRelease(w) == IF interrupted[w] THEN "ack" ELSE "loop"

\* Mutant: the release query asks for the wrong status and finds nothing.
QueryMissesRows(w) ==
    /\ pc[w] = "query"
    /\ todo' = [todo EXCEPT ![w] = {}]
    /\ clean' = [clean EXCEPT ![w] = TRUE]
    /\ Goto(w, "release")
    /\ UNCHANGED <<server, hand, outcome, interrupted, once, channel, drain,
                   superseded, polled, ended, faults>>

QueryAnswered(w) ==
    /\ pc[w] = "query"
    /\ todo' = [todo EXCEPT ![w] = HeldBy(w)]
    /\ clean' = [clean EXCEPT ![w] = TRUE]
    /\ Goto(w, "release")
    /\ UNCHANGED <<server, hand, outcome, interrupted, once, channel, drain,
                   superseded, polled, ended, faults>>

QueryFails(w) ==
    /\ pc[w] = "query"
    /\ Fault
    /\ clean' = [clean EXCEPT ![w] = FALSE]
    /\ Goto(w, AfterRelease(w))
    /\ UNCHANGED <<server, hand, outcome, todo, interrupted, once, channel, drain,
                   superseded, polled, ended>>

\* PATCH {"status": "queued"}, answered (a refusal is an answer too).
ReleaseAnswered(w, r) ==
    /\ pc[w] = "release" /\ r \in todo[w]
    /\ row' = [row EXCEPT ![r] = Patched(row[r], w, "queued")]
    /\ todo' = [todo EXCEPT ![w] = @ \ {r}]
    /\ UNCHANGED <<late, pc, hand, outcome, interrupted, once, channel, drain,
                   history, faults>>

ReleaseGivenUp(w, r) ==
    /\ pc[w] = "release" /\ r \in todo[w]
    /\ GiveUp(w, "queued", r)
    /\ todo' = [todo EXCEPT ![w] = @ \ {r}]
    /\ clean' = [clean EXCEPT ![w] = FALSE]
    /\ UNCHANGED <<pc, hand, outcome, interrupted, once, channel, drain,
                   superseded, polled, ended>>

ReleaseOver(w) ==
    /\ pc[w] = "release" /\ todo[w] = {}
    /\ Goto(w, AfterRelease(w))
    /\ UNCHANGED <<server, hand, outcome, todo, interrupted, once, channel, drain,
                   history, faults>>

\* Mutant: the drain is also looked at while a row is being run.
LeaveMidRow(w) ==
    /\ pc[w] \in {"loop", "execute"} /\ drain[w]
    /\ Goto(w, "finally")
    /\ UNCHANGED <<server, hand, outcome, todo, interrupted, once, channel, drain,
                   history, faults>>

\* The top of the loop: leave for a drain, else clear the wake-up before
\* asking for a row, so that a row posted during the claim is not missed.
LeaveForDrain(w) ==
    /\ pc[w] = "loop" /\ drain[w]
    /\ Goto(w, "finally")
    /\ UNCHANGED <<server, hand, outcome, todo, interrupted, once, channel, drain,
                   history, faults>>

ClearAndClaim(w) ==
    /\ wake' = [wake EXCEPT ![w] = FALSE]
    /\ polled' = [polled EXCEPT ![w] = FALSE]
    /\ Goto(w, "claim")
    /\ UNCHANGED <<server, hand, outcome, todo, interrupted, once, hub, frame, drain,
                   clean, superseded, ended>>

\* Mutant: the loop claims on without looking at the drain file.
AskBlindly(w) ==
    /\ pc[w] = "loop"
    /\ ClearAndClaim(w)
    /\ UNCHANGED faults

Ask(w) ==
    /\ pc[w] = "loop" /\ ~drain[w]
    /\ ClearAndClaim(w)
    /\ UNCHANGED faults

\* _draining could not read the drain file: never a reason to stop.
AskUnread(w) ==
    /\ pc[w] = "loop" /\ drain[w]
    /\ Fault
    /\ ClearAndClaim(w)

ClaimRow(w, r) ==
    /\ pc[w] = "claim" /\ Claimable(row[r])
    /\ row' = [row EXCEPT ![r] = Claimed(row[r], w)]
    /\ hand' = [hand EXCEPT ![w] = r]
    /\ Goto(w, "execute")
    /\ UNCHANGED <<late, outcome, todo, interrupted, once, channel, drain,
                   history, faults>>

\* work_once came back without a row: `once` returns, else idle.
AfterRow(w, place) == IF once[w] THEN "finally" ELSE place

ClaimEmpty(w) ==
    /\ pc[w] = "claim" /\ \A r \in Rows : ~Claimable(row[r])
    /\ polled' = [polled EXCEPT ![w] = TRUE]
    /\ Goto(w, "empty")
    /\ UNCHANGED <<server, hand, outcome, todo, interrupted, once, channel, drain,
                   clean, superseded, ended, faults>>

\* Mutant: the wake-up is cleared after the claim instead of before it.
ClearThenIdle(w) ==
    /\ pc[w] = "empty"
    /\ wake' = [wake EXCEPT ![w] = FALSE]
    /\ Goto(w, AfterRow(w, "idle"))
    /\ UNCHANGED <<server, hand, outcome, todo, interrupted, once, hub, frame, drain,
                   history, faults>>

\* work_once returns False; meanwhile a row may have been posted.
GoIdle(w) ==
    /\ pc[w] = "empty"
    /\ Goto(w, AfterRow(w, "idle"))
    /\ UNCHANGED <<server, hand, outcome, todo, interrupted, once, channel, drain,
                   history, faults>>

ClaimGivenUp(w) ==
    /\ pc[w] = "claim"
    /\ GiveUp(w, "claim", NoRow)
    /\ clean' = [clean EXCEPT ![w] = FALSE]
    /\ Goto(w, AfterRow(w, "idle"))
    /\ UNCHANGED <<hand, outcome, todo, interrupted, once, channel, drain,
                   superseded, polled, ended>>

\* The heartbeat thread sends; the call may outlive the `with` block, whose
\* exit waits for the thread THREAD_STOP_TIMEOUT seconds only.
Beat(w) ==
    /\ pc[w] = "execute"
    /\ late' = late \cup {[op |-> "running", worker |-> w, row |-> hand[w]]}
    /\ UNCHANGED <<row, thread, channel, drain, history, faults>>

\* Mutant: the failure raised by execute() is dropped.
ExecuteForgets(w, o) ==
    /\ pc[w] = "execute"
    /\ ended' = ended \cup {<<hand[w], o>>}
    /\ Goto(w, "report")
    /\ UNCHANGED <<server, hand, outcome, todo, interrupted, once, channel, drain,
                   clean, superseded, polled, faults>>

\* execute() returns or raises SystemExit or an Exception.
Execute(w, o) ==
    /\ pc[w] = "execute"
    /\ outcome' = [outcome EXCEPT ![w] = o]
    /\ ended' = ended \cup {<<hand[w], o>>}
    /\ Goto(w, "report")
    /\ UNCHANGED <<server, hand, todo, interrupted, once, channel, drain,
                   clean, superseded, polled, faults>>

\* work_once returns: its row and outcome are gone.
DropRow(w) ==
    /\ hand' = [hand EXCEPT ![w] = NoRow]
    /\ outcome' = [outcome EXCEPT ![w] = "none"]
    /\ superseded' = [superseded EXCEPT ![w] = FALSE]

\* The worker's report, whatever chimera answers to it.
ReportAnswered(w) ==
    /\ pc[w] = "report"
    /\ row' = [row EXCEPT ![hand[w]] = Patched(row[hand[w]], w, outcome[w])]
    /\ DropRow(w)
    /\ Goto(w, AfterRow(w, "loop"))
    /\ UNCHANGED <<late, todo, interrupted, once, channel, drain,
                   clean, polled, ended, faults>>

ReportGivenUp(w) ==
    /\ pc[w] = "report"
    /\ GiveUp(w, outcome[w], hand[w])
    /\ DropRow(w)
    /\ clean' = [clean EXCEPT ![w] = FALSE]
    /\ Goto(w, AfterRow(w, "loop"))
    /\ UNCHANGED <<todo, interrupted, once, channel, drain, polled, ended>>

\* Mutant: only a wake-up or a drain ends the idling, not the interval.
IdleUntilWoken(w) ==
    /\ pc[w] = "idle" /\ (wake[w] \/ drain[w])
    /\ Goto(w, "loop")
    /\ UNCHANGED <<server, hand, outcome, todo, interrupted, once, channel, drain,
                   history, faults>>

\* The interval is over, the wake-up came or the drain file appeared.
IdleOver(w) ==
    /\ pc[w] = "idle"
    /\ Goto(w, "loop")
    /\ UNCHANGED <<server, hand, outcome, todo, interrupted, once, channel, drain,
                   history, faults>>

\* Ctrl-C anywhere in the loop: no report for the row in hand.  A claim or a
\* report being sent is given up on.
CallBeingSent(w) ==
    IF pc[w] = "claim" THEN {[op |-> "claim", worker |-> w, row |-> NoRow]}
    ELSE IF pc[w] = "report" THEN {[op |-> outcome[w], worker |-> w, row |-> hand[w]]}
    ELSE {}

\* Mutant: the claims are released while the row is still being run.
InterruptStillRunning(w) ==
    /\ pc[w] \in InLoop
    /\ Fault
    /\ late' = late \cup CallBeingSent(w)
    /\ interrupted' = [interrupted EXCEPT ![w] = TRUE]
    /\ clean' = [clean EXCEPT ![w] = FALSE]
    /\ Goto(w, "finally")
    /\ UNCHANGED <<row, hand, outcome, superseded, todo, once, channel, drain, polled, ended>>

\* Mutant: Ctrl-C while a row is being run is caught as its failure.
InterruptAsFailure(w) ==
    /\ pc[w] = "execute"
    /\ Fault
    /\ outcome' = [outcome EXCEPT ![w] = "failed"]
    /\ Goto(w, "report")
    /\ UNCHANGED <<server, hand, todo, interrupted, once, channel, drain, history>>

Interrupt(w) ==
    /\ pc[w] \in InLoop
    /\ Fault
    /\ late' = late \cup CallBeingSent(w)
    /\ interrupted' = [interrupted EXCEPT ![w] = TRUE]
    /\ DropRow(w)
    /\ clean' = [clean EXCEPT ![w] = FALSE]
    /\ Goto(w, "finally")
    /\ UNCHANGED <<row, todo, once, channel, drain, polled, ended>>

\* chimera's answer to a claim or a report breaks off (TimeoutError and the
\* like): neither a SystemExit nor caught, it leaves work_once and the loop.
AnswerBreaksOff(w) ==
    /\ pc[w] \in {"claim", "report"}
    /\ Fault
    /\ late' = late \cup CallBeingSent(w)
    /\ DropRow(w)
    /\ clean' = [clean EXCEPT ![w] = FALSE]
    /\ Goto(w, "finally")
    /\ UNCHANGED <<row, todo, interrupted, once, channel, drain, polled, ended>>

\* The finally clause: threads stopped, claims released after an interrupt.
Finally(w) ==
    /\ pc[w] = "finally"
    /\ hub' = [hub EXCEPT ![w] = "down"]
    /\ frame' = [frame EXCEPT ![w] = FALSE]
    /\ Goto(w, IF interrupted[w] THEN "query" ELSE "ack")
    /\ UNCHANGED <<server, hand, outcome, todo, interrupted, once, wake, drain,
                   history, faults>>

\* The process is gone, and its threads and variables with it.
Exit(w) ==
    /\ Goto(w, "down")
    /\ DropRow(w)
    /\ todo' = [todo EXCEPT ![w] = {}]
    /\ interrupted' = [interrupted EXCEPT ![w] = FALSE]
    /\ hub' = [hub EXCEPT ![w] = "down"]
    /\ frame' = [frame EXCEPT ![w] = FALSE]
    /\ wake' = [wake EXCEPT ![w] = FALSE]
    /\ clean' = [clean EXCEPT ![w] = FALSE]
    /\ polled' = [polled EXCEPT ![w] = FALSE]
    /\ UNCHANGED <<row, once, ended>>

\* drained() deletes the drain file if there is one.
Acknowledge(w) ==
    /\ pc[w] = "ack"
    /\ drain' = [drain EXCEPT ![w] = FALSE]
    /\ Exit(w)
    /\ UNCHANGED <<late, faults>>

\* drained() raised: the file stays behind.
AcknowledgeFails(w) ==
    /\ pc[w] = "ack" /\ drain[w]
    /\ Fault
    /\ Exit(w)
    /\ UNCHANGED <<late, drain>>

\* The process is killed (a deploy that does not wait, a crash of ComfyUI).
Kill(w) ==
    /\ pc[w] # "down"
    /\ Fault
    /\ late' = late \cup CallBeingSent(w)
    /\ Exit(w)
    /\ UNCHANGED drain

-----------------------------------------------------------------------------
(* The hub listener's thread, and the deploy's drain file.                 *)

Listening(w) == w \in HubWorkers /\ pc[w] \in InLoop

HubHello(w) ==
    /\ Listening(w) /\ hub[w] = "down"
    /\ hub' = [hub EXCEPT ![w] = "hello"]
    /\ UNCHANGED <<server, thread, frame, wake, drain, history, faults>>

\* wake.set() after the hello: rows posted while disconnected are asked for.
HubUp(w) ==
    /\ hub[w] = "hello"
    /\ hub' = [hub EXCEPT ![w] = "up"]
    /\ wake' = [wake EXCEPT ![w] = TRUE]
    /\ UNCHANGED <<server, thread, frame, drain, history, faults>>

HubQueued(w) ==
    /\ hub[w] = "up" /\ frame[w]
    /\ frame' = [frame EXCEPT ![w] = FALSE]
    /\ wake' = [wake EXCEPT ![w] = TRUE]
    /\ UNCHANGED <<server, thread, hub, drain, history, faults>>

HubLost(w) ==
    /\ hub[w] # "down"
    /\ hub' = [hub EXCEPT ![w] = "down"]
    /\ frame' = [frame EXCEPT ![w] = FALSE]
    /\ UNCHANGED <<server, thread, wake, drain, history, faults>>

\* stop.ps1 writes the drain file while the process runs, and takes it away
\* when its wait is over.
AskToDrain(w) ==
    /\ w \in DrainWorkers /\ pc[w] # "down" /\ ~drain[w]
    /\ Fault
    /\ drain' = [drain EXCEPT ![w] = TRUE]
    /\ UNCHANGED <<server, thread, channel, history>>

DrainTimesOut(w) ==
    /\ drain[w]
    /\ drain' = [drain EXCEPT ![w] = FALSE]
    /\ UNCHANGED <<server, thread, channel, history, faults>>

-----------------------------------------------------------------------------
Init ==
    /\ row = [r \in Rows |-> [status |-> "absent", holder |-> NoWorker,
                              attempt |-> 0, fresh |-> FALSE]]
    /\ late = {}
    /\ pc = [w \in Workers |-> "down"]
    /\ hand = [w \in Workers |-> NoRow]
    /\ outcome = [w \in Workers |-> "none"]
    /\ todo = [w \in Workers |-> {}]
    /\ interrupted = [w \in Workers |-> FALSE]
    /\ once = [w \in Workers |-> FALSE]
    /\ hub = [w \in Workers |-> "down"]
    /\ frame = [w \in Workers |-> FALSE]
    /\ wake = [w \in Workers |-> FALSE]
    /\ drain = [w \in Workers |-> FALSE]
    /\ clean = [w \in Workers |-> FALSE]
    /\ superseded = [w \in Workers |-> FALSE]
    /\ polled = [w \in Workers |-> FALSE]
    /\ ended = {}
    /\ faults = 0

\* The main thread's own steps: what fairness is asked of.
Step(w) ==
    \/ QueryAnswered(w)
    \/ \E r \in Rows : ReleaseAnswered(w, r)
    \/ ReleaseOver(w)
    \/ LeaveForDrain(w)
    \/ Ask(w)
    \/ \E r \in Rows : ClaimRow(w, r)
    \/ ClaimEmpty(w)
    \/ GoIdle(w)
    \/ \E o \in Outcomes : Execute(w, o)
    \/ ReportAnswered(w)
    \/ IdleOver(w)
    \/ Finally(w)
    \/ Acknowledge(w)

Disturbance(w) ==
    \/ QueryFails(w)
    \/ \E r \in Rows : ReleaseGivenUp(w, r)
    \/ ClaimGivenUp(w)
    \/ ReportGivenUp(w)
    \/ AskUnread(w)
    \/ AcknowledgeFails(w)
    \/ Interrupt(w)
    \/ AnswerBreaksOff(w)
    \/ Kill(w)

Side(w) ==
    \/ Beat(w)
    \/ HubHello(w)
    \/ HubUp(w)
    \/ HubQueued(w)
    \/ HubLost(w)
    \/ AskToDrain(w)
    \/ DrainTimesOut(w)

Chimera ==
    \/ \E r \in Rows : Post(r) \/ Age(r) \/ Requeue(r)
    \/ \E m \in late : LatePatch(m) \/ LostCall(m) \/ \E r \in Rows : LateClaim(m, r)

Next ==
    \/ Chimera
    \/ \E w \in Workers : Start(w) \/ Step(w) \/ Disturbance(w) \/ Side(w)

Spec == Init /\ [][Next]_vars

(* Fairness: a worker that has left is started again (by the scheduled     *)
(* task, a deploy or by hand), every call and wait in the main thread ends *)
(* (HTTP timeouts, wait_for's deadline, the poll interval), and chimera's  *)
(* sweep keeps running.  Nothing is asked of the hub or of the heartbeats. *)
Fairness ==
    /\ \A w \in Workers : WF_vars(Start(w)) /\ WF_vars(Step(w))
    /\ \A r \in Rows : WF_vars(Age(r)) /\ WF_vars(Requeue(r))

FairSpec == Spec /\ Fairness

-----------------------------------------------------------------------------
(* Properties.                                                             *)

\* Every variable has its type; only wired workers have a hub or a drain file.
TypeOK ==
    /\ row \in [Rows -> RowRecord]
    /\ late \subseteq Call
    /\ pc \in [Workers -> Places]
    /\ hand \in [Workers -> Rows \cup {NoRow}]
    /\ outcome \in [Workers -> Verdicts]
    /\ todo \in [Workers -> SUBSET Rows]
    /\ interrupted \in [Workers -> BOOLEAN]
    /\ once \in [Workers -> BOOLEAN]
    /\ hub \in [Workers -> {"down", "hello", "up"}]
    /\ frame \in [Workers -> BOOLEAN]
    /\ wake \in [Workers -> BOOLEAN]
    /\ drain \in [Workers -> BOOLEAN]
    /\ clean \in [Workers -> BOOLEAN]
    /\ superseded \in [Workers -> BOOLEAN]
    /\ polled \in [Workers -> BOOLEAN]
    /\ ended \subseteq Rows \X Outcomes
    /\ faults \in 0..MaxFaults

\* While a worker runs a row, or has yet to report it, chimera has that row
\* running under that worker, unless the stale sweep or a call the worker
\* itself had given up on took it away: neither a release on startup or on
\* the way out nor another worker's claim hands out a row being drawn.
HandIsHeld ==
    \A w \in Workers : hand[w] # NoRow /\ ~superseded[w] => hand[w] \in HeldBy(w)

\* A worker whose calls were all answered since its release query leaves no
\* row `running` under its id but the one in its hands and those it is still
\* handing back: nothing waits for a heartbeat to go stale.
NothingLeftRunning ==
    \A w \in Workers : clean[w] => HeldBy(w) \subseteq todo[w] \cup {hand[w]}

\* chimera shows an outcome only if some execution of the row reached it; a
\* row no execution failed is `failed` only when its attempts are used up.
\* In particular an interrupted or killed execution is never a failure.
OutcomeWasReached ==
    \A r \in Rows :
        /\ row[r].status = "done" => <<r, "done">> \in ended
        /\ row[r].status = "failed" =>
               <<r, "failed">> \in ended \/ row[r].attempt = MaxAttempts

\* Whoever posts a row sees a queue that hands it out at most MaxAttempts times
\* and settles it once, with an outcome one of its runs reached or for want of
\* attempts: the workers, with all their calls lost, late or applied twice,
\* implement Queue.
Posted == INSTANCE Queue WITH
    status  <- [r \in Rows |-> row[r].status],
    attempt <- [r \in Rows |-> row[r].attempt],
    reached <- [r \in Rows |-> {o \in Outcomes : <<r, o>> \in ended}]
ImplementsQueue == Posted!Spec

\* A worker idling after an empty claim, its hub socket up, has been woken or
\* is about to be whenever a row no worker ever claimed waits on the queue.
NoLostWakeup ==
    \A w \in Workers : pc[w] = "idle" /\ polled[w] /\ hub[w] = "up" =>
        \/ wake[w] \/ frame[w]
        \/ \A r \in Rows : ~(row[r].status = "queued" /\ row[r].attempt = 0)

\* The worker deletes the drain file only when the kill that follows can
\* interrupt nothing: it has no row in hand and, if its calls were answered,
\* chimera has none running under its id.
AckOnlyAtRest ==
    [][\A w \in Workers : drain[w] /\ ~drain'[w] /\ pc'[w] # pc[w] =>
          hand[w] = NoRow /\ (clean[w] => HeldBy(w) = {})]_vars

\* docs/queueing.md:59: polling always runs underneath the hub socket, so the
\* loop is only left after `--once`, for a drain or at a Ctrl-C.
PollingGoesOn ==
    [][\A w \in Workers : pc[w] \in InLoop /\ pc'[w] = "finally" =>
          once[w] \/ drain[w] \/ interrupted'[w]]_vars

\* Every posted row gets an outcome, whatever was killed, interrupted, given
\* up on or drained, and whether or not a hub is wired.
EveryRowSettles ==
    \A r \in Rows : (row[r].status = "queued") ~> (row[r].status \in Outcomes)

\* A drain is answered: the file goes, or the process that saw it has left.
DrainAnswered ==
    \A w \in Workers : drain[w] /\ pc[w] # "down" ~> ~drain[w] \/ pc[w] = "down"

=============================================================================
