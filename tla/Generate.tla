------------------------------ MODULE Generate ------------------------------
(***************************************************************************)
(* One generate request (application/generate.py) and its runs: killed and *)
(* started again, with the state file they resume from                     *)
(* (infrastructure/persistence/run_state.py), ComfyUI's queue and history, *)
(* and the records chimera keeps of jobs and generations.                  *)
(*                                                                         *)
(* `memory` is the run's `state` dict, `disk` the file save() replaces in  *)
(* one step.  A call ChimeraClient gives up on raises SystemExit through   *)
(* generate(): whether chimera applied it or not, what is left afterwards  *)
(* is what a kill after, or before, the call leaves, so that Crash stands  *)
(* for both.  An answer that breaks off is an OSError instead, which fails *)
(* only the job at hand (JobFails).                                        *)
(*                                                                         *)
(* ComfyUI and chimera's Management API are outside the repository: they   *)
(* are what the calls in generate.py and its tests rely on.  A POST with   *)
(* an idempotency key chimera has seen returns the record it made then.    *)
(***************************************************************************)
EXTENDS Naturals, Sequences, FiniteSets

CONSTANTS
    KeyedModes,   \* TRUE: a claimed row (key_prefix); FALSE: `chagama generate`
    Count,        \* request.count
    Images,       \* images a rendered prompt has
    SeedLists,    \* what _seeds may return: the request's seeds, or random ones
    DiskCanFail,  \* the state file may be lost between two runs
    MaxReruns,    \* bound on runs of a request that has its result already
    MaxPrompts,   \* bound on prompts submitted to ComfyUI
    MaxFaults     \* bound on crashes, ComfyUI restarts, failures and losses

ASSUME KeyedAssumption == KeyedModes \subseteq BOOLEAN /\ DiskCanFail \in BOOLEAN
ASSUME CountAssumption == Count \in Nat \ {0} /\ Images \in Nat \ {0}
ASSUME SeedAssumption  == SeedLists # {} /\ \A s \in SeedLists : s \in Seq(Nat) /\ Len(s) = Count
ASSUME LimitAssumption == MaxReruns \in Nat /\ MaxPrompts \in Nat /\ MaxFaults \in Nat

VARIABLES
    keyed,     \* the request's mode
    pc,        \* where the run is, "off" between runs
    memory,    \* the run's `state`
    idx,       \* the job the loop is at (from 1)
    out,       \* the output the inner loop is at (from 1)
    disk,      \* the state file, NoState when there is none
    requests,  \* chimera: idempotency keys of the requests it has
    job,       \* chimera: the jobs it has, by request, index and key
    gens,      \* chimera: the generations it has
    comfy,     \* ComfyUI: the prompts submitted to it, in order
    key,       \* the last idempotency key drawn (uuid4)
    finished,  \* history: a run came to its end and returned its result
    orphan,    \* history: prompts whose id was lost with the run or the file
    shifted,   \* history: seeds were taken over from an answer with a gap
    reruns, faults

run     == <<memory, idx, out>>
chimera == <<requests, job, gens>>
history == <<orphan, shifted>>
bounds  == <<reruns, faults>>
vars    == <<keyed, pc, run, disk, chimera, comfy, key, finished, history, bounds>>

NoSeeds  == <<>>
NoState  == [req |-> 0, seeds |-> NoSeeds, jobs |-> <<>>, there |-> FALSE]
NoPrompt == 0
Indexes  == 1..Count
Places   == {"off", "open", "opened", "job", "created", "prompt", "submitted", "tell",
             "run", "wait", "complete", "output", "keyed", "upload", "registered",
             "failing", "over"}

\* A uuid4 nobody has drawn before.
Fresh == key + 1

\* f with x mapped to y, whether or not f maps x already.
With(f, x, y) == [z \in DOMAIN f \cup {x} |-> IF z = x THEN y ELSE f[z]]

-----------------------------------------------------------------------------
(* The run's own records.                                                  *)

\* _job_key, _generation_key: the request's, or drawn once and kept.
NewKey == IF keyed THEN 0 ELSE Fresh

NewJob(k) ==
    [key |-> k, made |-> FALSE, prompt |-> NoPrompt, status |-> "new", gens |-> <<>>]

JobId(m, i)  == [req |-> m.req, index |-> i, key |-> m.jobs[i].key]
PromptsOf(m) == {m.jobs[i].prompt : i \in DOMAIN m.jobs} \ {NoPrompt}

Here   == memory.jobs[idx]
HereId == JobId(memory, idx)

-----------------------------------------------------------------------------
(* ComfyUI (external).                                                     *)

\* Mutant: knows looks at the history only.
KnowsHistory(p) == comfy[p].state \in {"success", "error"}

\* In the history, whatever its outcome, or in the queue.
Knows(p) == comfy[p].state # "forgotten"

Ends(p, result) ==
    /\ comfy[p].state = "queued"
    /\ comfy' = [comfy EXCEPT ![p].state = result]

Fault == faults < MaxFaults /\ faults' = faults + 1

Renders(p) ==
    /\ Ends(p, "success")
    /\ UNCHANGED <<pc, run, disk, chimera, key, finished, history, bounds>>

Breaks(p) ==
    /\ Fault
    /\ Ends(p, "error")
    /\ UNCHANGED <<pc, run, disk, chimera, key, finished, history, reruns>>

\* ComfyUI is restarted: its queue and its history are gone.
Forgets ==
    /\ Fault
    /\ comfy' = [p \in DOMAIN comfy |-> [comfy[p] EXCEPT !.state = "forgotten"]]
    /\ UNCHANGED <<pc, run, disk, chimera, key, finished, history, reruns>>

-----------------------------------------------------------------------------
(* The beginning of a run: load, open_request, _adopt_resend_jobs, _seeds. *)

Begin ==
    /\ pc = "off"
    /\ finished => reruns < MaxReruns
    /\ reruns' = IF finished THEN reruns + 1 ELSE reruns
    /\ pc' = "open"
    /\ finished' = FALSE
    /\ IF disk.there
         THEN memory' = disk /\ UNCHANGED key
         ELSE /\ memory' = [NoState EXCEPT !.req = NewKey, !.there = TRUE]
              /\ key' = NewKey
    /\ UNCHANGED <<idx, out, disk, chimera, comfy, history, faults>>

\* The worker's resend of the resolution is answered with the jobs chimera
\* has of the request: Resent by index.
JobsOf(m)    == {id \in DOMAIN job : id.req = m.req}
Answer(m)    == IF keyed THEN {id.index : id \in JobsOf(m)} ELSE {}
Resent(m, i) == CHOOSE id \in JobsOf(m) : id.index = i
GensOf(id)   == {g \in gens : g.job = id}

\* An ingested job of the answer is taken over with the outputs the file does
\* not list; any other only gets its place in the list.
Adopted(m, i) ==
    LET mine == IF i \in DOMAIN m.jobs THEN m.jobs[i] ELSE NewJob(0)
        id   == Resent(m, i)
    IN  IF job[id].status # "ingested" THEN mine
        ELSE [mine EXCEPT
                !.status = "ingested", !.made = TRUE,
                !.prompt = IF job[id].graph # NoPrompt THEN job[id].graph ELSE @,
                !.gens = [o \in DOMAIN @ \cup {g.out : g \in GensOf(id)} |->
                             IF o \in DOMAIN @ THEN @[o]
                             ELSE [key |-> 0, registered |-> TRUE]]]

\* The list is filled up to the last index of the answer.
AdoptedJobs(m) ==
    LET listed == {i \in Indexes : \E j \in Answer(m) \cup DOMAIN m.jobs : i <= j}
    IN  [i \in listed |-> IF i \in Answer(m) THEN Adopted(m, i)
                          ELSE IF i \in DOMAIN m.jobs THEN m.jobs[i] ELSE NewJob(0)]

\* Mutant: the answer's seeds are not taken over.
OwnSeeds(m) == IF m.seeds # NoSeeds THEN {m.seeds} ELSE SeedLists

\* The seeds of the answer's jobs, in the order of their indexes.
AnsweredSeeds(m) ==
    [n \in 1..Cardinality(Answer(m)) |->
        job[Resent(m, CHOOSE i \in Answer(m) : Cardinality(Answer(m) \cap 1..i) = n)].seed]

\* The seeds of the file, else those of the answer, else new ones.
AdoptedSeeds(m) ==
    IF m.seeds # NoSeeds THEN {m.seeds}
    ELSE IF Answer(m) # {} THEN {AnsweredSeeds(m)}
    ELSE SeedLists

Open ==
    /\ pc = "open"
    /\ requests' = requests \cup {memory.req}
    /\ \E s \in AdoptedSeeds(memory) :
           memory' = [memory EXCEPT !.jobs = AdoptedJobs(memory), !.seeds = s]
    /\ shifted' = \/ shifted
                  \/ /\ memory.seeds = NoSeeds
                     /\ Answer(memory) # 1..Cardinality(Answer(memory))
    /\ idx' = 1
    /\ pc' = "opened"
    /\ UNCHANGED <<out, disk, job, gens, comfy, key, finished, orphan, bounds>>

-----------------------------------------------------------------------------
(* JsonRunState.save, at each place generate() calls it.                   *)

AfterSave == [opened |-> "job", created |-> "prompt", submitted |-> "tell",
              keyed |-> "upload", registered |-> "output", over |-> "job"]

Proceed ==
    /\ pc \in DOMAIN AfterSave
    /\ pc' = AfterSave[pc]
    /\ idx' = IF pc = "over" THEN idx + 1 ELSE idx
    /\ out' = IF pc = "registered" THEN out + 1 ELSE out
    /\ UNCHANGED <<memory, chimera, comfy, key, finished, history, bounds>>

\* Mutant: an output's key is not written before it is used.
SaveButKeys ==
    /\ Proceed
    /\ disk' = IF pc = "keyed" THEN disk ELSE memory

Save ==
    /\ Proceed
    /\ disk' = memory

-----------------------------------------------------------------------------
(* The loop over the seeds.                                                *)

\* The job's entry, appended if it is not there yet.
Listed ==
    IF idx \in DOMAIN memory.jobs THEN memory
    ELSE [memory EXCEPT !.jobs = Append(@, NewJob(NewKey))]

InLoop == pc = "job" /\ idx \in DOMAIN memory.seeds

SkipIngested ==
    /\ InLoop
    /\ idx \in DOMAIN memory.jobs /\ Here.status = "ingested"
    /\ idx' = idx + 1
    /\ UNCHANGED <<pc, memory, out, disk, chimera, comfy, key, finished, history, bounds>>

SkipCreated ==
    /\ InLoop
    /\ idx \in DOMAIN memory.jobs /\ Here.status # "ingested" /\ Here.made
    /\ pc' = "prompt"
    /\ UNCHANGED <<run, disk, chimera, comfy, key, finished, history, bounds>>

Creating ==
    /\ InLoop
    /\ idx \in DOMAIN memory.jobs => Here.status # "ingested" /\ ~Here.made

ListedKey == IF idx \in DOMAIN memory.jobs THEN key ELSE NewKey

\* POST /requests/{id}/jobs.
CreatedJobs ==
    LET id == JobId(Listed, idx)
    IN  IF id \in DOMAIN job THEN job
        ELSE With(job, id, [seed |-> memory.seeds[idx], status |-> "new", graph |-> NoPrompt])

CreateJob ==
    /\ Creating
    /\ job' = CreatedJobs
    /\ key' = ListedKey
    /\ memory' = [Listed EXCEPT !.jobs[idx].made = TRUE]
    /\ pc' = "created"
    /\ UNCHANGED <<idx, out, disk, requests, gens, comfy, finished, history, bounds>>

\* ComfyUI knows the prompt of an earlier run; unreachable counts as knowing.
Resume ==
    /\ pc = "prompt" /\ Here.prompt # NoPrompt
    /\ \/ Knows(Here.prompt) /\ UNCHANGED faults
       \/ ~Knows(Here.prompt) /\ Fault
    /\ pc' = "run"
    /\ UNCHANGED <<run, disk, chimera, comfy, key, finished, history, reruns>>

\* No prompt, or one ComfyUI has forgotten: submit the graph.
Submitting ==
    /\ pc = "prompt"
    /\ Here.prompt # NoPrompt => ~Knows(Here.prompt)
    /\ Len(comfy) < MaxPrompts

Submitted ==
    Append(comfy, [index |-> idx, seed |-> memory.seeds[idx], state |-> "queued"])

\* Mutant: the prompt id is taken down although ComfyUI never got the prompt.
SubmitUnsent ==
    /\ Submitting
    /\ memory' = [memory EXCEPT !.jobs[idx].prompt = Len(comfy) + 1]
    /\ pc' = "submitted"
    /\ UNCHANGED <<idx, out, disk, chimera, comfy, key, finished, history, bounds>>

Submit ==
    /\ Submitting
    /\ comfy' = Submitted
    /\ memory' = [memory EXCEPT !.jobs[idx].prompt = Len(comfy) + 1]
    /\ pc' = "submitted"
    /\ UNCHANGED <<idx, out, disk, chimera, key, finished, history, bounds>>

\* PATCH /jobs/{id}: the status each place sends; prompt id and graph go with
\* the one to `queued`, after the save.
StatusAt == [tell |-> "queued", run |-> "running", complete |-> "completed",
             output |-> "ingested", failing |-> "failed"]

PatchedJobs ==
    [job EXCEPT ![HereId].status = StatusAt[pc],
                ![HereId].graph = IF pc = "tell" THEN Here.prompt ELSE @]

PatchJob(from, to) ==
    /\ pc = from
    /\ job' = PatchedJobs
    /\ pc' = to
    /\ UNCHANGED <<idx, disk, requests, gens, comfy, key, finished, history, bounds>>

Tell == PatchJob("tell", "run") /\ UNCHANGED <<memory, out>>

Run == PatchJob("run", "wait") /\ UNCHANGED <<memory, out>>

\* wait_for returns the images.
Rendered ==
    /\ pc = "wait" /\ comfy[Here.prompt].state = "success"
    /\ pc' = "complete"
    /\ UNCHANGED <<run, disk, chimera, comfy, key, finished, history, bounds>>

Complete ==
    /\ PatchJob("complete", "output")
    /\ out' = 1
    /\ UNCHANGED memory

-----------------------------------------------------------------------------
(* The loop over the images, and the job's end.                            *)

Registered == out \in DOMAIN Here.gens /\ Here.gens[out].registered

SkipRegistered ==
    /\ pc = "output" /\ out <= Images /\ Registered
    /\ out' = out + 1
    /\ UNCHANGED <<pc, memory, idx, disk, chimera, comfy, key, finished, history, bounds>>

\* Mutant: the output counts as registered before it has been uploaded.
RegisterFirst ==
    /\ pc = "output" /\ out <= Images /\ ~Registered
    /\ memory' = [memory EXCEPT !.jobs[idx].gens = Append(@, [key |-> NewKey, registered |-> TRUE])]
    /\ key' = NewKey
    /\ pc' = "keyed"
    /\ UNCHANGED <<idx, out, disk, chimera, comfy, finished, history, bounds>>

\* The output's entry, with its key, for the save before the upload.
GiveKey ==
    /\ pc = "output" /\ out <= Images /\ ~Registered
    /\ IF out \in DOMAIN Here.gens THEN UNCHANGED <<memory, key>>
       ELSE /\ memory' = [memory EXCEPT !.jobs[idx].gens =
                              Append(@, [key |-> NewKey, registered |-> FALSE])]
            /\ key' = NewKey
    /\ pc' = "keyed"
    /\ UNCHANGED <<idx, out, disk, chimera, comfy, finished, history, bounds>>

\* fetch, POST the image; its rating is best-effort and not modelled.
UploadedGens ==
    LET g == [job |-> HereId, out |-> out, key |-> Here.gens[out].key, prompt |-> Here.prompt]
        seen == \E h \in gens : [h EXCEPT !.prompt = g.prompt] = g
    IN  IF seen THEN gens ELSE gens \cup {g}

Upload ==
    /\ pc = "upload"
    /\ gens' = UploadedGens
    /\ memory' = [memory EXCEPT !.jobs[idx].gens[out].registered = TRUE]
    /\ pc' = "registered"
    /\ UNCHANGED <<idx, out, disk, requests, job, comfy, key, finished, history, bounds>>

\* Mutant: the job is closed after its first image.
IngestAfterOne ==
    /\ out > 1
    /\ PatchJob("output", "over")
    /\ memory' = [memory EXCEPT !.jobs[idx].status = "ingested"]
    /\ UNCHANGED out

Ingest ==
    /\ out > Images
    /\ PatchJob("output", "over")
    /\ memory' = [memory EXCEPT !.jobs[idx].status = "ingested"]
    /\ UNCHANGED out

\* Mutant: a prompt ComfyUI has lost is waited for without a deadline.
JobFailsOnError ==
    /\ pc = "wait" /\ comfy[Here.prompt].state = "error"
    /\ memory' = [memory EXCEPT !.jobs[idx].status = "failed"]
    /\ pc' = "failing"
    /\ UNCHANGED <<idx, out, disk, chimera, comfy, key, finished, history, bounds>>

InTry == Creating \/ pc \in {"created", "prompt", "submitted", "tell", "run", "wait",
                             "complete", "output", "keyed", "upload", "registered"}

\* The call being made was carried out, but its answer never came.
CallArrives ==
    \/ /\ \/ pc = "job" /\ job' = CreatedJobs
          \/ pc \in {"tell", "run", "complete"} /\ job' = PatchedJobs
          \/ pc = "output" /\ out > Images /\ job' = PatchedJobs
       /\ UNCHANGED <<gens, comfy, orphan>>
    \/ pc = "upload" /\ gens' = UploadedGens /\ UNCHANGED <<job, comfy, orphan>>
    \/ Submitting /\ comfy' = Submitted /\ orphan' = orphan \cup {Len(comfy) + 1}
       /\ UNCHANGED <<job, gens>>

\* RuntimeError or OSError in the try block: the prompt ended in an error, the
\* deadline of wait_for passed, a file could not be written, or the answer of
\* a call to ComfyUI or chimera broke off.  A job never created has nothing to
\* be patched.
JobFails ==
    /\ InTry
    /\ \/ pc = "wait" /\ comfy[Here.prompt].state \in {"error", "forgotten"} /\ UNCHANGED faults
       \/ Fault
    /\ \E arrives \in BOOLEAN, resubmitting \in BOOLEAN :
           /\ IF arrives THEN CallArrives ELSE UNCHANGED <<job, gens, comfy, orphan>>
           /\ resubmitting => Submitting
           /\ arrives /\ Submitting => resubmitting
           /\ memory' = [Listed EXCEPT
                  !.jobs[idx].status = "failed",
                  !.jobs[idx].prompt = IF resubmitting THEN NoPrompt ELSE @]
    /\ key' = ListedKey
    /\ pc' = IF pc = "job" THEN "over" ELSE "failing"
    /\ UNCHANGED <<idx, out, disk, requests, finished, shifted, reruns>>

\* Mutant: chimera is not told of the failure.
FailQuietly ==
    /\ pc = "failing"
    /\ pc' = "over"
    /\ UNCHANGED <<run, disk, chimera, comfy, key, finished, history, bounds>>

Fail ==
    /\ PatchJob("failing", "over")
    /\ UNCHANGED <<memory, out>>

NoRun == memory' = NoState /\ idx' = 1 /\ out' = 1

Finish ==
    /\ pc = "job" /\ idx \notin DOMAIN memory.seeds
    /\ pc' = "off"
    /\ NoRun
    /\ finished' = TRUE
    /\ UNCHANGED <<disk, chimera, comfy, key, history, bounds>>

\* Killed, or SystemExit from a call; what was not saved is lost.
Crash ==
    /\ pc # "off"
    /\ Fault
    /\ pc' = "off"
    /\ NoRun
    /\ orphan' = orphan \cup (PromptsOf(memory) \ PromptsOf(disk))
    /\ UNCHANGED <<disk, chimera, comfy, key, finished, shifted, reruns>>

\* The data directory is pruned, moved or another machine's.
LoseDisk ==
    /\ DiskCanFail /\ pc = "off" /\ disk.there
    /\ Fault
    /\ disk' = NoState
    /\ orphan' = orphan \cup PromptsOf(disk)
    /\ UNCHANGED <<pc, run, chimera, comfy, key, finished, shifted, reruns>>

-----------------------------------------------------------------------------
Init ==
    /\ pc = "off"
    /\ memory = NoState /\ disk = NoState
    /\ idx = 1 /\ out = 1
    /\ keyed \in KeyedModes
    /\ requests = IF keyed THEN {0} ELSE {}
    /\ job = <<>> /\ gens = {} /\ comfy = <<>>
    /\ key = 0
    /\ finished = FALSE
    /\ orphan = {} /\ shifted = FALSE
    /\ reruns = 0 /\ faults = 0

Step ==
    /\ UNCHANGED keyed
    /\ \/ Begin \/ Open \/ Save
       \/ SkipIngested \/ SkipCreated \/ CreateJob
       \/ Resume \/ Submit \/ Tell \/ Run \/ Rendered \/ Complete
       \/ SkipRegistered \/ GiveKey \/ Upload \/ Ingest
       \/ JobFails \/ Fail \/ Finish

Rendering == UNCHANGED keyed /\ \E p \in DOMAIN comfy : Renders(p)

Trouble ==
    /\ UNCHANGED keyed
    /\ \/ \E p \in DOMAIN comfy : Breaks(p)
       \/ Forgets \/ Crash \/ LoseDisk

Next == Step \/ Rendering \/ Trouble

Spec == Init /\ [][Next]_vars

(* Fairness: a run goes on until it ends (HTTP and wait_for have deadlines), *)
(* an interrupted request is run again, and ComfyUI renders what it has.   *)
FairSpec == Spec /\ WF_vars(Step) /\ WF_vars(Rendering)

-----------------------------------------------------------------------------
(* Properties.                                                             *)

Keys   == Nat
Local  == [key : Keys, made : BOOLEAN, prompt : Nat, status : {"new", "failed", "ingested"},
           gens : Seq([key : Keys, registered : BOOLEAN])]
State  == [req : Keys, seeds : Seq(Nat), jobs : Seq(Local), there : BOOLEAN]
Status == {"new", "queued", "running", "completed", "ingested", "failed"}

\* Every variable has its type; what memory and chimera name exists.
TypeOK ==
    /\ keyed \in KeyedModes /\ pc \in Places
    /\ memory \in State /\ disk \in State
    /\ idx \in Nat \ {0} /\ out \in Nat \ {0}
    /\ requests \subseteq Keys
    /\ \A id \in DOMAIN job :
           /\ id \in [req : Keys, index : Nat, key : Keys]
           /\ job[id] \in [seed : Nat, status : Status, graph : DOMAIN comfy \cup {NoPrompt}]
    /\ gens \subseteq [job : DOMAIN job, out : Nat, key : Keys, prompt : DOMAIN comfy]
    /\ comfy \in Seq([index : Nat, seed : Nat,
                      state : {"queued", "success", "error", "forgotten"}])
    /\ key \in Keys /\ finished \in BOOLEAN
    /\ orphan \subseteq DOMAIN comfy /\ shifted \in BOOLEAN
    /\ reruns \in 0..MaxReruns /\ faults \in 0..MaxFaults

\* The state file claims nothing chimera does not have: a resumed run skips
\* only jobs that were created, images that were registered under the key in
\* the file, and jobs chimera shows as ingested.
DiskIsTrue ==
    \A i \in DOMAIN disk.jobs :
        LET mine == disk.jobs[i]
            id   == JobId(disk, i)
        IN  /\ mine.made => id \in DOMAIN job
            /\ mine.status = "ingested" => job[id].status = "ingested"
            /\ \A o \in DOMAIN mine.gens : mine.gens[o].registered =>
                   \E g \in GensOf(id) : g.out = o /\ g.key = mine.gens[o].key

\* A job chimera shows as ingested has every image of its prompt, however
\* many runs it took.
IngestedIsWhole ==
    \A id \in DOMAIN job : job[id].status = "ingested" =>
        {g.out : g \in GensOf(id)} = 1..Images

\* No image of a job is registered twice.
OutputOnce ==
    \A g, h \in gens : g.job = h.job /\ g.out = h.out => g = h

\* ComfyUI never has two prompts of one job it has not forgotten, unless the
\* id of one was lost before it was written down.
RenderedOnce ==
    \A p, q \in DOMAIN comfy \ orphan :
        comfy[p].index = comfy[q].index /\ comfy[p].state # "forgotten"
            /\ comfy[q].state # "forgotten" => p = q

\* The seed chimera records for a job is the one its graph and each of its
\* images were drawn with, also when the state file was lost in between: but
\* not when the jobs chimera then answered with had a gap, whose seeds move up.
SeedsAgree ==
    ~shifted =>
        /\ \A id \in DOMAIN job : job[id].graph # NoPrompt =>
               comfy[job[id].graph].index = id.index /\ comfy[job[id].graph].seed = job[id].seed
        /\ \A g \in gens : comfy[g.prompt].seed = job[g.job].seed

\* A run that returned its result (so that the row is reported done) has an
\* end of every one of the count's jobs on disk, and chimera shows the same
\* end of each job the run could create.
FinishedMeansAll ==
    finished => \A i \in Indexes :
        /\ i \in DOMAIN disk.jobs
        /\ disk.jobs[i].status \in {"ingested", "failed"}
        /\ disk.jobs[i].made => job[JobId(disk, i)].status = disk.jobs[i].status

\* The request gets its result, whatever was killed, restarted or lost.
Completes == <>[]finished

\* README.md:93: a retry resumes instead of creating duplicates.
NoDuplicates ==
    /\ Cardinality(requests) <= 1
    /\ \A id, other \in DOMAIN job : id.index = other.index => id = other

\* docs/archive/render-notes/5-2026-08-26_31.md:595: every render on chimera
\* can be submitted again from its record alone.
IngestedHasGraph ==
    \A id \in DOMAIN job : job[id].status = "ingested" => job[id].graph # NoPrompt

\* generate.py:128: the seeds of a request are as many as its count.
SeedsAreCounted == memory.seeds # NoSeeds => Len(memory.seeds) = Count

=============================================================================
