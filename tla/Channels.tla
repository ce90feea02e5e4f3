------------------------------- MODULE Channels -------------------------------
(***************************************************************************)
(* What the worker says while a row runs and after it: the thread that      *)
(* reads ComfyUI's /ws feed (ProgressRelay), the recorder it fills          *)
(* (TimingRecorder), the ledger of the attempt (AttemptTimings) and the     *)
(* worker thread that fills and sends it (work_once, client.py).            *)
(*                                                                          *)
(* A row submits a prompt for each of its jobs.  ComfyUI runs the prompts   *)
(* in turn and sends an event per step to the worker's socket; what it has  *)
(* run is read from its history.  It may die and be started again.          *)
(* Worker models how rows are claimed and settled; here a row is claimed    *)
(* again after any end, as after a requeue.                                 *)
(***************************************************************************)
EXTENDS Integers, Sequences, FiniteSets, SequencesExt

CONSTANTS
    Rows,
    Drawn,          \* the rows of generate, which go on past a job that failed
    JOBS,           \* jobs of a row, a prompt each, one after the other
    MaxAttempts,    \* bound: claims
    MaxPrompts,     \* bound: prompts submitted
    MaxLosses,      \* bound: restarts of ComfyUI, and sockets lost while it is up
    MaxInbox        \* bound: events sent and not yet read

ASSUME ChannelsAssumption ==
    /\ Drawn \subseteq Rows /\ JOBS \in Nat \ {0}
    /\ {MaxAttempts, MaxPrompts, MaxLosses, MaxInbox} \subseteq Nat

VARIABLES
    worker,     \* the worker thread: what it is at, the row, attempt, job and prompt
    state,      \* per row, its state file: the prompts (0: none) of the jobs not yet ingested
    current,    \* ProgressRelay.current: the row being executed, or ""
    ledger,     \* AttemptTimings: the attempt, its prompts, the cached environment
    recorder,   \* TimingRecorder: what was heard of each prompt
    relay,      \* the feed thread: its socket, the events on it, the one in hand;
                \* `since` (history): the first process not gone when the feed was last lost
    comfy,      \* ComfyUI: the process, its queue, how far it is, its history
    runs,       \* what each prompt ran or will have run, once begun
    frame       \* the rows whose `submit` went to the hub, and the row whose progress just did
vars == <<worker, state, current, ledger, recorder, relay, comfy, runs, frame>>

(* ------------------------------- ComfyUI -------------------------------- *)
\* A graph of a loader and a sampler.  A prompt skips the nodes whose output is
\* cached (the sampler's only with the loader's), and may fail in one it runs.
NODES == {"loader", "sampler"}
Runs  == {run \in {{}, {"loader"}, NODES} \X (NODES \cup {"none"}) : run[2] \notin run[1]}
OnNode(cached, fails, n, events) ==
    IF n \in cached \/ (n = "sampler" /\ fails = "loader") THEN <<>>
    ELSE [k \in 1..Len(events) |-> [kind |-> events[k], node |-> n]]
         \o (IF n = fails THEN <<>> ELSE <<[kind |-> "finished", node |-> n]>>)
Script(cached, fails) ==
    <<[kind |-> "cached", node |-> ""]>>
        \o OnNode(cached, fails, "loader", <<"executing">>)
        \o OnNode(cached, fails, "sampler", <<"executing", "running", "progress">>)
        \o <<[kind |-> "end", node |-> ""]>>
SCRIPTS == [r \in Runs |-> Script(r[1], r[2])]

Places(p, kind, n) ==
    {k \in DOMAIN SCRIPTS[runs[p]] : SCRIPTS[runs[p]][k] = [kind |-> kind, node |-> n]}
Started(p, n) == Places(p, "executing", n)
Ended(p, n)   == Places(p, "finished", n)

ComfyBegin ==
    /\ comfy.up /\ comfy.queue # <<>> /\ Head(comfy.queue) \notin DOMAIN runs
    /\ \E run \in Runs :
          /\ "loader" \in run[1] => comfy.warm
          /\ runs' = [p \in DOMAIN runs \cup {Head(comfy.queue)} |->
                         IF p \in DOMAIN runs THEN runs[p] ELSE run]
          /\ comfy' = [comfy EXCEPT !.at = 0, !.warm = @ \/ run[2] # "loader"]
    /\ UNCHANGED <<worker, state, current, ledger, recorder, relay, frame>>

\* An event is sent to the socket there is; one that nobody reads is lost.  The
\* history has the prompt with its last event.
ComfySends ==
    /\ comfy.up /\ comfy.queue # <<>> /\ Head(comfy.queue) \in DOMAIN runs
    /\ LET p      == Head(comfy.queue)
           script == SCRIPTS[runs[p]]
           at     == comfy.at + 1
           event  == [prompt |-> p, at |-> at, kind |-> script[at].kind, node |-> script[at].node]
           over   == at = Len(script)
       IN  /\ comfy' = [comfy EXCEPT !.at = at,
                            !.queue = IF over THEN Tail(@) ELSE @,
                            !.history = IF over THEN @ \cup {p} ELSE @]
           /\ IF relay.to = comfy.process
              THEN /\ Len(relay.inbox) < MaxInbox
                   /\ relay' = [relay EXCEPT !.inbox = Append(@, event)]
              ELSE relay' = relay
    /\ UNCHANGED <<worker, state, current, ledger, recorder, runs, frame>>

Losses == relay.drops + comfy.process - IF comfy.up THEN 1 ELSE 0
ComfyDies ==
    /\ comfy.up /\ Losses < MaxLosses
    /\ comfy' = [comfy EXCEPT !.up = FALSE, !.queue = <<>>, !.history = {}, !.warm = FALSE]
    /\ UNCHANGED <<worker, state, current, ledger, recorder, relay, runs, frame>>
ComfyStarts ==
    /\ ~comfy.up
    /\ comfy' = [comfy EXCEPT !.up = TRUE, !.process = @ + 1]
    /\ UNCHANGED <<worker, state, current, ledger, recorder, relay, runs, frame>>

(* ------------------------------ the recorder ---------------------------- *)
\* Times are places in a prompt's script; 0 is no time.
Unheard == [started |-> 0, ended |-> 0, steps |-> <<>>, mark |-> 0, finished |-> FALSE]
NoPrompt == [nodes |-> [n \in NODES |-> Unheard], current |-> "", cached |-> {}]
Heard(p) == IF p \in DOMAIN recorder THEN recorder[p] ELSE NoPrompt

\* _close: the node that was executing has ended, unless it was told finished.
Closed(r, at) ==
    LET open == r.current # "" /\ r.nodes[r.current].ended = 0
    IN  [r EXCEPT !.current = "",
                  !.nodes = [n \in NODES |-> IF open /\ n = r.current
                                             THEN [@[n] EXCEPT !.ended = at] ELSE @[n]]]
\* A node that executes from `at` on, unless it did before; and its next step.
Begun(t, at)   == [t EXCEPT !.started = IF t.started = 0 THEN at ELSE t.started, !.mark = at]
Stepped(t, at) == [t EXCEPT !.steps = IF t.mark = 0 THEN t.steps ELSE Append(t.steps, at - t.mark),
                            !.mark = at]
\* feed: what one event adds to what was heard of its prompt.
Fed(r, e) ==
    CASE e.kind = "executing" ->
             [Closed(r, e.at) EXCEPT
                 !.current = e.node,
                 !.nodes[e.node] = Begun(@, e.at)]
      [] e.kind = "running" ->
             IF r.nodes[e.node].started # 0 THEN r
             ELSE [r EXCEPT !.nodes[e.node] = [@ EXCEPT !.started = e.at, !.mark = e.at]]
      [] e.kind = "finished" ->
             IF r.nodes[e.node].finished THEN r
             ELSE [r EXCEPT !.nodes[e.node] = [@ EXCEPT !.finished = TRUE, !.ended = e.at]]
      [] e.kind = "progress" ->
             [r EXCEPT !.nodes[e.node] = Stepped(@, e.at)]
      [] e.kind = "cached" -> [r EXCEPT !.cached = runs[e.prompt][1]]
      [] e.kind = "end"    -> Closed(r, e.at)

(* ------------------------------ the feed thread ------------------------- *)
\* Mutant: the environment is read outside the lock.
UnlockedAlways == TRUE
Unlocked == worker.at \notin {"environment", "answered"}
NoEvent  == [prompt |-> 0, at |-> 0, kind |-> "", node |-> ""]

Connect ==
    /\ relay.pc = "down" /\ comfy.up
    /\ relay' = [relay EXCEPT !.pc = "recv", !.to = comfy.process]
    /\ UNCHANGED <<worker, state, current, ledger, recorder, comfy, runs, frame>>
ConnectFails ==
    /\ relay.pc = "down" /\ ~comfy.up
    /\ relay' = [relay EXCEPT !.pc = "lost"]
    /\ UNCHANGED <<worker, state, current, ledger, recorder, comfy, runs, frame>>
\* The socket is gone, with the events still on it.
Drop ==
    /\ relay.pc = "recv"
    /\ relay.to = comfy.process /\ comfy.up => Losses < MaxLosses
    /\ relay' = [relay EXCEPT !.pc = "lost", !.to = 0, !.inbox = <<>>,
                    !.drops = IF relay.to = comfy.process /\ comfy.up THEN @ + 1 ELSE @]
    /\ UNCHANGED <<worker, state, current, ledger, recorder, comfy, runs, frame>>
\* invalidate_env waits for the lock the payload is made under.
Invalidate ==
    /\ relay.pc = "lost" /\ Unlocked
    /\ ledger' = [ledger EXCEPT !.env = 0]
    /\ relay' = [relay EXCEPT !.pc = "down",
                    !.since = IF comfy.up THEN comfy.process ELSE comfy.process + 1]
    /\ UNCHANGED <<worker, state, current, recorder, comfy, runs, frame>>

Recv ==
    /\ relay.pc = "recv" /\ relay.inbox # <<>>
    /\ relay' = [relay EXCEPT !.pc = "feed", !.event = Head(relay.inbox), !.inbox = Tail(@)]
    /\ UNCHANGED <<worker, state, current, ledger, recorder, comfy, runs, frame>>
\* Every event is recorded; `progress` goes on to the hub while a row runs.
Feed ==
    /\ relay.pc = "feed"
    /\ LET e == relay.event
       IN  /\ recorder' = [p \in DOMAIN recorder \cup {e.prompt} |->
                              IF p = e.prompt THEN Fed(Heard(p), e) ELSE recorder[p]]
           /\ relay' = [relay EXCEPT !.pc = IF e.kind = "progress" THEN "check" ELSE "recv",
                                     !.event = NoEvent]
    /\ frame' = [frame EXCEPT !.sampling = ""]
    /\ UNCHANGED <<worker, state, current, ledger, comfy, runs>>
Check ==
    /\ relay.pc = "check"
    /\ relay' = [relay EXCEPT !.pc = IF current = "" THEN "recv" ELSE "send"]
    /\ UNCHANGED <<worker, state, current, ledger, recorder, comfy, runs, frame>>
\* `current` is read again: it may have been cleared, or be the next row's.
Send ==
    /\ relay.pc = "send"
    /\ frame' = [frame EXCEPT !.sampling = current]
    /\ relay' = [relay EXCEPT !.pc = "recv"]
    /\ UNCHANGED <<worker, state, current, ledger, recorder, comfy, runs>>

(* ------------------------------ the worker ------------------------------ *)
To(at) == worker' = [worker EXCEPT !.at = at]

\* The claim's answer, and begin: the ledger under its lock, then the recorder.
Claim ==
    /\ worker.at = "idle" /\ worker.attempt < MaxAttempts
    /\ \E row \in Rows : worker' = [worker EXCEPT !.at = "begun", !.row = row, !.job = 1,
                                                        !.attempt = @ + 1]
    /\ ledger' = [ledger EXCEPT !.attempt = worker.attempt + 1, !.prompts = <<>>]
    /\ UNCHANGED <<state, current, recorder, relay, comfy, runs, frame>>
ClearRecorder ==
    /\ worker.at = "begun"
    /\ recorder' = <<>>
    /\ To("announce")
    /\ UNCHANGED <<state, current, ledger, relay, comfy, runs, frame>>
\* Mutant: the row is made current before its first frame is sent.
AnnounceLate ==
    \/ /\ worker.at = "announce"
       /\ current' = worker.row
       /\ To("enter")
       /\ UNCHANGED <<state, ledger, recorder, relay, comfy, runs, frame>>
    \/ /\ worker.at = "enter"
       /\ frame' = [frame EXCEPT !.submitted = @ \cup {worker.row}]
       /\ To("job")
       /\ UNCHANGED <<state, current, ledger, recorder, relay, comfy, runs>>
Announce ==
    /\ worker.at = "announce"
    /\ frame' = [frame EXCEPT !.submitted = @ \cup {worker.row}]
    /\ To("enter")
    /\ UNCHANGED <<state, current, ledger, recorder, relay, comfy, runs>>
Enter ==
    /\ worker.at = "enter"
    /\ current' = worker.row
    /\ To("job")
    /\ UNCHANGED <<state, ledger, recorder, relay, comfy, runs, frame>>

Entry(resumed) == [resumed |-> resumed, graph |-> ~resumed, status |-> "unknown", cached |-> {},
                   ready |-> FALSE, ingested |-> FALSE]
Registered(p, entry) == [q \in DOMAIN ledger.prompts \cup {p} |->
                            IF q = p THEN entry ELSE ledger.prompts[q]]
Jobs   == state[worker.row]
Prompt == Jobs[worker.job]

\* A call of a job failed: the row ends, but for generate's, which goes on to the
\* next job where not even chimera's record of the failure fails.
GivesUp ==
    \/ To("failed")
    \/ /\ worker.row \in Drawn /\ worker.job <= Len(Jobs)
       /\ worker' = [worker EXCEPT !.at = "job", !.job = @ + 1]

\* A job without a prompt, or whose prompt ComfyUI does not know, is submitted,
\* generate forgetting that prompt first; the answer comes before the prompt is
\* registered, its events perhaps too.
Submit ==
    /\ worker.at = "job" /\ worker.job <= Len(Jobs) /\ comfy.up /\ worker.prompts < MaxPrompts
    /\ Prompt = 0 \/ Prompt \notin comfy.history \cup Range(comfy.queue)
    /\ LET p == worker.prompts + 1
       IN  /\ comfy' = [comfy EXCEPT !.queue = Append(@, p)]
           /\ worker' = [worker EXCEPT !.at = "submitted", !.prompts = p]
    /\ state' = [state EXCEPT ![worker.row][worker.job] = IF worker.row \in Drawn THEN 0 ELSE @]
    /\ UNCHANGED <<current, ledger, recorder, relay, runs, frame>>
Register ==
    /\ worker.at = "submitted"
    /\ ledger' = [ledger EXCEPT !.prompts = Registered(worker.prompts, Entry(FALSE))]
    /\ state' = [state EXCEPT ![worker.row][worker.job] = worker.prompts]
    /\ To("wait")
    /\ UNCHANGED <<current, recorder, relay, comfy, runs, frame>>
\* knows: a prompt is taken for known while ComfyUI cannot be asked.
Resume ==
    /\ worker.at = "job" /\ worker.job <= Len(Jobs) /\ Prompt # 0
    /\ comfy.up => Prompt \in comfy.history \cup Range(comfy.queue)
    /\ ledger' = IF comfy.up /\ Prompt \notin DOMAIN ledger.prompts
                 THEN [ledger EXCEPT !.prompts = Registered(Prompt, Entry(TRUE))] ELSE ledger
    /\ To("wait")
    /\ UNCHANGED <<state, current, recorder, relay, comfy, runs, frame>>
\* parse_history_status: how the run ended and what it took from the cache.
Outcome(run) == [status |-> IF run[2] = "none" THEN "success" ELSE "error", cached |-> run[1]]
\* outputs_ready: the poll that finds the prompt in the history.
Ready ==
    /\ worker.at = "wait" /\ comfy.up /\ Prompt \in comfy.history
    /\ LET entry == IF Prompt \in DOMAIN ledger.prompts THEN ledger.prompts[Prompt] ELSE Entry(TRUE)
           ended == Outcome(runs[Prompt])
       IN  /\ ledger' = [ledger EXCEPT !.prompts =
                            Registered(Prompt, [entry EXCEPT !.ready = TRUE, !.graph = TRUE,
                                                   !.status = ended.status,
                                                   !.cached = ended.cached])]
           /\ IF ended.status = "success" THEN To("ingest") ELSE GivesUp
    /\ UNCHANGED <<state, current, recorder, relay, comfy, runs, frame>>
Ingest ==
    /\ worker.at = "ingest"
    /\ ledger' = [ledger EXCEPT !.prompts[Prompt].ingested = TRUE]
    /\ state' = [state EXCEPT ![worker.row] = RemoveAt(@, worker.job)]
    /\ To("job")
    /\ UNCHANGED <<current, recorder, relay, comfy, runs, frame>>
\* Any call of a job may fail: a submit while ComfyUI is down, one it queued the
\* prompt of but whose answer is lost, a poll that times out, a call to chimera.
Fails ==
    /\ worker.at \in {"job", "submitted", "wait", "ingest"}
    /\ GivesUp
    /\ UNCHANGED <<state, current, ledger, recorder, relay, comfy, runs, frame>>
Leave ==
    /\ worker.at = "failed" \/ (worker.at = "job" /\ worker.job > Len(Jobs))
    /\ current' = ""
    /\ worker' = [worker EXCEPT !.at = "report"]
    /\ UNCHANGED <<state, ledger, recorder, relay, comfy, runs, frame>>

(* ------------------------------ the payload ----------------------------- *)
\* Mutant: only what was heard tells which nodes were cached.
NodesHeard(p) ==
    LET entry == ledger.prompts[p]
    IN  IF ~entry.graph THEN <<>>
        ELSE [n \in NODES |-> [cached |-> n \in Heard(p).cached,
                               times  |-> IF n \in Heard(p).cached THEN Unheard
                                          ELSE Heard(p).nodes[n]]]

\* _nodes: a cached node carries no times, whatever was heard of it.
Nodes(p) ==
    LET entry  == ledger.prompts[p]
        cached == entry.cached \cup Heard(p).cached
    IN  IF ~entry.graph THEN <<>>
        ELSE [n \in NODES |-> [cached |-> n \in cached,
                               times  |-> IF n \in cached THEN Unheard ELSE Heard(p).nodes[n]]]
\* Mutant: a prompt the feed told nothing of is not counted on.
KnownHeard(p) == Nodes(p) # <<>> /\ \E n \in NODES : Nodes(p)[n].times.started # 0

Known(p) ==
    /\ Nodes(p) # <<>>
    /\ ledger.prompts[p].status = "success" \/ \E n \in NODES : Nodes(p)[n].times.started # 0
\* Whether a loader was loaded: not told where no prompt is known to have run.
ColdLoad ==
    LET known == {p \in DOMAIN ledger.prompts : Known(p)}
    IN  IF known = {} THEN "unknown"
        ELSE IF \E p \in known : ~Nodes(p)["loader"].cached THEN "yes" ELSE "no"
Payload == [attempt |-> ledger.attempt, cold |-> ColdLoad,
            prompts |-> [p \in DOMAIN ledger.prompts |->
                [status |-> ledger.prompts[p].status, nodes |-> Nodes(p)]]]

\* The payload is made under the lock, the environment read within it where it
\* is not kept from an attempt before.
SendPayload ==
    /\ worker.at = "report"
    /\ To(IF ledger.env = 0 THEN "environment" ELSE "idle")
    /\ UNCHANGED <<state, current, ledger, recorder, relay, comfy, runs, frame>>
\* EnvCollector: what /system_stats answers, nothing while ComfyUI is down.
ReadEnvironment ==
    /\ worker.at = "environment"
    /\ worker' = [worker EXCEPT !.at = "answered", !.env = IF comfy.up THEN comfy.process ELSE 0]
    /\ UNCHANGED <<state, current, ledger, recorder, relay, comfy, runs, frame>>
KeepEnvironment ==
    /\ worker.at = "answered"
    /\ ledger' = [ledger EXCEPT !.env = worker.env]
    /\ worker' = [worker EXCEPT !.at = "idle", !.env = 0]
    /\ UNCHANGED <<state, current, recorder, relay, comfy, runs, frame>>

Init ==
    /\ worker = [at |-> "idle", row |-> "", attempt |-> 0, job |-> 1, prompts |-> 0, env |-> 0]
    /\ state = [row \in Rows |-> [job \in 1..JOBS |-> 0]]
    /\ current = ""
    /\ ledger = [attempt |-> 0, prompts |-> <<>>, env |-> 0]
    /\ recorder = <<>>
    /\ relay = [pc |-> "down", to |-> 0, inbox |-> <<>>, event |-> NoEvent, drops |-> 0,
                since |-> 1]
    /\ comfy = [process |-> 1, up |-> TRUE, queue |-> <<>>, at |-> 0, history |-> {}, warm |-> FALSE]
    /\ runs = <<>>
    /\ frame = [submitted |-> {}, sampling |-> ""]
Relay  == Connect \/ ConnectFails \/ Drop \/ Invalidate \/ Recv \/ Feed \/ Check \/ Send
Thread == Claim \/ ClearRecorder \/ Announce \/ Enter \/ Submit \/ Register \/ Resume
              \/ Ready \/ Ingest \/ Fails \/ Leave \/ SendPayload \/ ReadEnvironment
              \/ KeepEnvironment
Comfy  == ComfyBegin \/ ComfySends \/ ComfyDies \/ ComfyStarts
Next   == Relay \/ Thread \/ Comfy
Spec   == Init /\ [][Next]_vars

(* ------------------------------ properties ------------------------------ *)
\* What was read of a ComfyUI that was gone when the feed's loss was noticed
\* is not kept past that, nor reported later, even where its answer was on
\* its way (timings.py: _environment, invalidate_env).
EnvOutlivesNoLoss == ledger.env # 0 => ledger.env >= relay.since

\* The timings sent are of the prompts' own runs.  A node said to be cached was;
\* one that carries times ran, starts no earlier than it did and ends no
\* earlier than it did, whatever part of the feed was lost, came late or was
\* cleared with the attempt before.
NodeIsTrue(p, n, node) ==
    LET t == node.times
    IN  /\ node.cached => n \in runs[p][1]
        /\ t.started # 0 => t.started >= Min(Started(p, n))
        /\ t.ended # 0 => \A k \in Ended(p, n) : t.ended >= k
        /\ t # Unheard => p \in DOMAIN runs /\ n \notin runs[p][1]
        /\ t.started # 0 /\ t.ended # 0 => t.started <= t.ended
\* Whether a model was loaded is told right where every prompt succeeded, and
\* is not denied where one that succeeded loaded it.
ColdLoadIsTrue(cold, prompts) ==
    LET loaded       == {p \in DOMAIN prompts \cap DOMAIN runs : "loader" \notin runs[p][1]}
        succeeded(p) == prompts[p].status = "success"
    IN  /\ cold = "no" => \A p \in loaded : ~succeeded(p)
        /\ prompts # <<>> /\ (\A p \in DOMAIN prompts : succeeded(p)) =>
               (cold = "yes" <=> loaded # {})
TimingsAreTrue ==
    worker.at = "report" =>
        /\ Payload.attempt = worker.attempt
        /\ ColdLoadIsTrue(Payload.cold, Payload.prompts)
        /\ \A p \in DOMAIN Payload.prompts : Payload.prompts[p].nodes # <<>> =>
               \A n \in NODES : NodeIsTrue(p, n, Payload.prompts[p].nodes[n])

\* On the hub a row samples only once it was submitted: the progress of a prompt
\* left over from an earlier row, which is relayed as the row's that runs now,
\* never comes before that row's own first frame (work_once, ProgressRelay).
SubmitFirst == frame.sampling \in frame.submitted \cup {""}
===============================================================================
