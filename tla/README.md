# A TLA+ development of comfyui-recipes (chagama)

chagama draws pictures with ComfyUI.  Requests wait on a queue kept by a
management server, chimera; a worker claims them one at a time, runs the
operation each asks for (`generate`, `redraw`, `deliver`, ...) against ComfyUI,
and records jobs and pictures back on chimera.  What is hard about it is not the
drawing but the bookkeeping: three processes that fail independently (worker,
ComfyUI, chimera), calls that may be given up on and still be carried out, runs
that are killed and resumed from a state file, a drain file through which a
deployment asks a worker to leave, and a hub socket that may be down whenever a
row is posted.  This directory models that bookkeeping.

Five parts are modelled: the claim loop (`Worker`), the request it spends most of
its time in (`Generate`), the operations that make one picture from another as runs
that are killed and resumed, with the cut they share (`Derived`), the same
operations as steps of a lineage, with everything they accept, read, submit and
record (`Studio`, over `Options`, `ComfyGraph` and `NodePack`), and the threads that
report on a row while it runs (`Channels`).  `Queue` is what the workers promise
whoever posts a row, and `Worker` implements it.

They meet at the row: a `Worker` row in hand is one run of `Generate` or of one
`Derived` operation, the row's `queued` after a kill or a release is that run's crash,
and its `done` or `failed` is that run's end.  What a `Derived` operation needs of
its source's cut and how many pictures it uploads, constants there, is what a
`Studio` operation reads and records.  A `Channels` row is a `Worker` row, each of its
jobs a prompt of `Generate` or `Derived`.

## Inventory

| component | state | operations | interacts through | what is hard |
|---|---|---|---|---|
| claim loop, `application/work.py` | row in hand, outcome, `interrupted`, the wake event | `release_claims`, `work_once`, `_report`, `_idle`, drain acknowledgement | HTTP calls to chimera, the drain file, the wake event, its threads | calls given up on that arrive late; the stale sweep; Ctrl-C and kills between any two steps; wake-up against sleep |
| channels, `application/worker_channels.py` | hub connection, `current` row, wake event | Heartbeat, HubListener, ProgressRelay | threads beside the loop | a heartbeat outliving its row; rows posted while the socket is down; `current` read twice while the row changes |
| generate, `application/generate.py` | the state dict and its file | `open_request`, `create_job`, submit, wait, upload, ingest, resume | ComfyUI, chimera, `JsonRunState` | a kill between any two of: call, save, call; ComfyUI forgetting; the file lost |
| run state, `infrastructure/persistence/run_state.py` | one JSON file | load, atomic save | the file system | a fresh key is in memory only until the first save |
| ingest, `application/ingest.py` | none | requests, jobs, generations, assets with idempotency keys | chimera | repeats must find the record they made |
| derived operations, `deliver`, `redraw`, `dof`, `lens`, `photo`, `stage` | an operation state file | check source, reuse the stored cut, submit or resume, classify outputs, record, attach | ComfyUI, chimera, cut assets | a resumed run decides from today's records what the first run's prompt contains |
| cut assets, `application/cut_assets.py` | alpha, depth and cut.json on chimera | stored, reusable, attach and merge | chimera | pictures and description are attached one by one |
| lineage, `application/picture_source.py` and the checks of `redraw`, `deliver`, `dof`, `lens`, `photo`, `stage` | none; what chimera keeps of each picture | walks over `base_generation`, refusals, what is inherited | chimera | bounded walks over lineages of any order; parameters that promise layers an interrupted attach never made |
| timings, `infrastructure/comfyui/timings.py` | recorder, attempt ledger, cached environment | begin, register, events, outputs, payload | the ProgressRelay thread, ComfyUI | events of the last row after the next began; events lost with the socket; a restart while the environment is read |
| ComfyUI client | none | submit, knows, wait_for, fetch | ComfyUI | an unreachable server counts as knowing |
| chimera client | none | request with retries, upload | chimera | which failures become SystemExit and which do not |
| watch, `application/watch.py` | none but the request files | poll the pending experiment runs | chimera, generate | a failing run must not stop the others |
| deployment, `deploy/*.ps1`, `comfy_nodes/yukari_worker` | release directories, drain file, status file | prepare, stop, check, the worker's thread inside ComfyUI | the file system | the drain file left behind, the thread never started again |
| request options, `application/request_options.py`, with the `resolved_options` of `work.py` | none | validation, defaults, reporting | the rows; the node pack's ranges | eight parsers and eight reports kept in step by hand; an absent key and a null one |
| graph encoders, `infrastructure/comfyui/*_graph.py`, `roles.py` | none | build a graph, read one back, label its nodes | ComfyUI validates and runs it, timings name its nodes | links by node id and output number in every combination of options |
| node pack, `comfy_nodes/yukari_finalize` | none | sockets and ranges of its nodes | the graphs name them | numbers accepted by the worker and refused by the node |
| recipe domain, imaging, patches, catalog, schema | none | strings, pixels, data | | data only |
| CLI, safety, notification, power | none | dispatch, best-effort effects | | |

What makes each of the modelled components correct:

* claim loop: a row in hand is running under its worker; nothing is left running
  once a worker's calls were answered; chimera never shows an outcome nobody
  reached; no wake-up is lost; a drain is acknowledged only at rest; every row
  settles and every drain is answered.
* generate and its state file: the file claims nothing chimera does not have; an
  ingested job is whole; an image is registered once; a prompt is drawn once
  unless its id was lost; a job's seed is the one its pictures were drawn with; a
  result means that every job came to an end; a request run again after every
  crash completes.
* derived operations and cut assets: what the source's cut describes is there, and
  was cut with the values it says; an ingested job has its pictures, its layers and
  what its prompt cut; a result that was asked to be cut has its whole cut; a
  prompt is never taken for that of another operation, nor the picture's for the
  cut's; every row settles.
* lineage: operations come in one order, each but redraws and lenses once; nothing
  is made from a picture with a viewfinder over it, nor from what LayerDiffuse drew;
  a layer that is loaded is there; layers, depth, light and shadow all come from the
  right record however many lie between.
* options: what is reported as resolved runs again and makes the same picture; a
  number that is accepted is one the node takes.
* graphs: ComfyUI accepts each of them, it saves exactly what the operation looks
  for, a redraw starts from the right pixels, labels are unique and in order.
* channels and timings: a value is charged to the prompt, node and process it belongs
  to; a row samples on the hub only after it was submitted.
* the queue, seen from outside: a row is run at most so many times, and its one final
  outcome is one a run reached or is due to its attempts being used up.

`PROJECT.json` lists the hazards of the code at their lines, with the properties
that cover each or the reason none does yet.

## Modules

### Worker

`Worker.tla` is `work()`, `work_once`, `release_claims`, `_report`, `_idle` and the
two threads `Heartbeat` and `HubListener`, for any number of workers on one queue.

`pc[w]` says where a worker's main thread is.  `query` and `release` are the two
halves of `release_claims` (GET the running rows, PATCH each back); `loop` is the
top of `while True`; `claim` the POST in flight; `empty` the moment between an
empty answer and the return of `work_once`; `execute` and `report` the two halves
of a claimed row; `idle` is `_idle`; `finally` the clause of that name; `ack` the
drain acknowledgement.  `hand`, `outcome`, `todo`, `interrupted`, `once` are the
locals of those functions, `hub`, `frame` and `wake` the listener and the event,
`drain` the drain file.

Chimera's queue is outside the repository; `Claimed`, `Patched`, `Returned`,
`Post`, `Age` and `Requeue` state what the worker's calls and tests rely on: a
PATCH from a worker that does not hold the running row is refused, a row not
heard of between two sweeps goes back, and the last attempt fails instead.

A call the client gives up on (`SystemExit` after its retries) moves into `late`:
it is applied at any later time (`LatePatch`, `LateClaim`) or never (`LostCall`).
A heartbeat is such a call from the start, because `Heartbeat.stop` waits five
seconds for a call that may take 120.  `AnswerBreaksOff` is the other way a call
ends: an exception that is not a `SystemExit` and leaves the loop.  `Interrupt` is
a Ctrl-C anywhere in the loop, `Kill` the end of the process anywhere.

`clean`, `superseded`, `polled` and `ended` are history variables that guard
nothing.

### Generate

`Generate.tla` is one request and its successive runs.  `memory` is the run's
`state`, `disk` the file.  Each place where `generate()` saves is a `Save` of its
own, each call to chimera or ComfyUI an action of its own, so that a `Crash` can
fall between any two.  A `SystemExit` leaves what a crash just before or just after
the call leaves, so `Crash` stands for both.  A `RuntimeError` or `OSError` inside
the job's `try` block is `JobFails`, with the call carried out or not.

A prompt is its position in `comfy`, the list of all submitted prompts; the
handler of `pc = "prompt"` resumes a known prompt or submits a new one.  `keyed` is
chosen from `KeyedModes` at the start and says who asked.  If it is true the request
is a claimed row: the idempotency keys derive from the row and chimera answers the
resend with its jobs, which `AdoptedJobs` and `AdoptedSeeds` take over
(`_adopt_resend_jobs`).  If not it is `chagama generate`: every key is drawn once
and kept in the file.

`LoseDisk` is the pruning of the data directory, or the claim of the same row on
another machine.  `orphan` and `shifted` are history: prompts whose id was lost
before it was written down, and whether seeds were taken over from an answer with
a gap.

### Derived

`Derived.tla` is the pipeline that `deliver`, `redraw`, `dof`, `lens`, `photo` and the
operations of `stage` go through as claimed rows, for any set of them on one source
picture.  They differ in three constants: the roles of the source's cut each draws
with (`Needs`; none for a plain redraw, alpha for a deliver, alpha and depth where
light is involved), how many pictures and layers it uploads (`Pieces`), and whether
its result is cut (`CutsResult`, the redraws with `cut`).

`pc[o]` says where the operation's run is.  `list`, `describe` and `decide` are
`stored_cut` and `reusable`, three places because each reads at another moment;
`prompt` resumes what the state file names or submits the graph, `submitted` the
moment before the prompt id is saved; `wait` is `wait_for` and the classification
of the outputs; `create`, `queue` and `complete` are `record_job`, `piece` the uploads;
`attach` is `attach_cut`, picture by picture and then the description; `ingest` the
PATCH that ends the job; the four places beginning with `cut` are `_cut_output`;
`finish` the save of the result and `report` what is left before the claim loop
hears of it.  `run[o]` holds the locals of the run, which a crash takes away, and
`file[o]` the state file, which it does not.

The values a worker cuts with (`current_cut`: models, sizes, rules) are named by its
release.  `asset[r]` is the release a role of the source was cut by, `cut[r]` the one
cut.json says it was cut by; the two are what the properties compare.

Outside the repository: an asset attached under a role replaces the one that was
there, a POST whose key chimera has seen does nothing (`keyed`, which is why
`Attach` and `DescribeCut` skip what an earlier run attached), and ComfyUI keeps what
it was given until it is restarted (`Forgets`).

`GivesUp` is a call that ends in a `SystemExit` or an exception: the row has failed.
`Crash` is the end of the process or a release of the row: it waits and is claimed
again, perhaps by a worker of another release.  `torn` is history: two runs on the
picture overlapped, one ended while it attached its cut, one resumed what another
release had submitted, or one attached more to what an earlier run of its row had
described.

### Queue

`Queue.tla` is the abstract specification: rows with a status, an attempt count and the
outcomes their runs came to, and no worker, call or thread.  `Worker!Posted` is
`INSTANCE Queue WITH` the first two read off `row` and the last off `ended`, the history
of what runs came to.  `Take` is any claim that takes effect, late or not; `Settle` a
report that does; `GiveBack` and `GiveUp` are the release, the stale sweep and the
interrupt, depending on the attempts left.  A heartbeat, a refused PATCH, a lost call
and everything a thread does is a stutter.

### Studio, Options, ComfyGraph, NodePack

`Studio.tla` grows a lineage: `chain` is the pictures, each made from the one before,
and `row` the request being executed on the last one, with what it answered, read and
submitted.  There is an action per kind of row (`DoRedraw` .. `DoSaturation`), which
reads the options, goes through the refusals in the code's order, walks the lineage as
the code does (`Setting` is `dof._setting`, `InheritedLight` `deliver.inherited_light`,
`LayerRolesPresent`, `HasBackdrop` those of `picture_source.py`), builds the job's graphs
and records the picture.  `Again` is a row that was killed while it attached its
picture's assets and completes them; `Report` ends the row either way.  A refusal is a
`row.how` of its own, and a row whose assets were attached in part is `torn`: it may be
reported as failed there, and the next row finds a picture that promises more than it
has.  `Picture` keeps of chimera's records what some operation looks at.

`Options.tla` has for each kind an acceptance predicate (FALSE where the code raises),
the arguments its use case is called with and the options these are reported as.  A
JSON value is a pair of type and content, numbers in hundredths.  `ComfyGraph.tla`
builds the graphs as functions from node ids to nodes and reads a base graph back as
`base_graph.py` does; `Jobs` names every graph the worker can build, `Built` tabulates
them, and the properties about graphs speak of all of them, submitted or not.  Base
graphs are the recipe's own (with its choices: with or without a hires pass, LoRA,
...) and some the recipe did not draw (`FOREIGN`), as drawings imported into chimera
have.  `NodePack.tla` is what ComfyUI validates a prompt against: sockets and ranges
of the pack's nodes, and, external, of the nodes of other packs.

### Channels

`Channels.tla` is two threads and ComfyUI.  `relay.pc` is where the feed thread
(`ProgressRelay._run`) is: connecting, receiving, feeding the recorder, between its two
reads of `current`, sending, or invalidating the environment after a loss; `worker.at`
where the worker thread is: between the halves of `begin`, before and after the
`submit` frame, between the answer to a submission and `register`, waiting, making the
payload, reading the environment under the lock.  `ledger` is `AttemptTimings`,
`recorder` `TimingRecorder`, `state[row]` the row's state file as far as the prompts of
its jobs not yet ingested.  A call that fails ends a row, at once or, in a row of
`Drawn`, which is `generate`'s, after the jobs that are left (`GivesUp`,
`generate.py:745-751`): their prompts go into the same attempt, ledger and payload.
One of these calls is a submission ComfyUI queued the prompt of and did not get to answer
(`Fails` at `submitted`): that prompt runs and sends its events without being in
ledger or state file.  A `runs[p]` says what ComfyUI took from its cache and where it failed;
`ComfySends` puts the next event of that run on whatever socket there is.  Times are
places in that run, so "charged to the right node" is a comparison of places.

## What the runs check

| run | setting | shows |
|---|---|---|
| `WorkerQueue` | 2 workers, 2 rows, 2 attempts, 1 fault, workers and rows symmetric | types; a row in hand stays held; nothing is left running behind a worker; `Worker` implements `Queue` |
| `WorkerAlone` | 1 worker with hub and drain file, `--once` or not, 1 row, 2 faults | no wake-up is lost; the drain is acknowledged only at rest; every row settles; every drain is answered |
| `WorkerPolling` | as above, 1 fault | violated: the loop is left on an answer that breaks off |
| `GenerateRow` | claimed row or `chagama generate`, 2 jobs of 2 images, the file may be lost, 3 faults, 1 rerun | types; the file is true; ingested jobs are whole; seeds agree; an image is registered once, a prompt drawn once |
| `GenerateKept` | claimed row, 2 jobs, the file is kept, 3 faults | a result means every job ended; the request completes |
| `GenerateCliTwice` | `chagama generate`, 1 job, 1 fault | violated: a second run makes a second request |
| `GenerateGraph` | claimed row, 1 job, 1 fault | violated: a job is ingested without its graph |
| `GenerateSeeds` | claimed row, 2 jobs, the file may be lost | violated: the run goes on with fewer seeds than `count` |
| `DerivedPair` | a deliver and a light redraw with `cut` on one picture, 2 releases, 1 fault; the picture has no cut, an alpha or both | types; what the cut describes is there, and is true unless `torn`; ingested jobs and results are whole; every row settles |
| `DerivedRelease` | one deliver, 2 releases, 1 fault | violated: a resumed run describes the old release's alpha as its own |
| `StudioRow` | every lineage of up to 7 pictures from a drawing of the recipe, of up to 3 or 4 from 17 other starts, 53 rows' options of 8 kinds, one attach cut short | types; one order; no bent viewfinder; layers, depth, light, shadow; no LayerDiffuse; resolved options run again; graphs are accepted, save what is looked for, start from the right pixels; numbers fit; labels in order |
| `ChannelsRow` | 2 rows of 2 jobs that end with a failed one and 2 claims, or a row of `generate`; 2 prompts submitted, ComfyUI restarted or its socket lost once | the environment outlives no loss; timings are of the prompts' own runs, also after a job that failed; submitted before sampling |

Bounds.  `MaxFaults` bounds faults of all kinds together: one fault already allows
a late call, a kill or an interrupt at every place of every interleaving of two
workers; `WorkerAlone` and the generate runs combine two and three of them (a
crash, then the file lost, then ComfyUI restarted).  Two attempts are the least
with which a row is both handed back and failed for good.  Two images and two jobs
are the least with which a job can be partly registered and a request partly
done.  `MaxPrompts` never binds with three faults: each prompt
after a job's first takes a fault.  In `DerivedPair` two operations and two releases
are the least with which one can write the cut while the other holds what it read
of it, and with which that matters; one fault is a kill, a failed call, a broken
prompt or a restart of ComfyUI at any point of any of their interleavings.  Symmetry is used only in `WorkerQueue`, which
checks no liveness.  `GenerateRow`'s invariants were also explored once with three
jobs of one image and four faults, outside the configurations kept here: two
failed jobs, a crash and a lost file then make the seeds adopted from an answer
with a gap move up by one place, which is why `SeedsAgree` excludes that case
(`shifted`), and why the finding of `GenerateSeeds` mentions it.

`StudioRow`.  `MaxChain` is by the lineage's start, and counts a redraw twice: seven is
the longest order there is (drawing, delivery, saturation, stage, lighting, blur, lens)
without a redraw.  The code's own limits are made small where a lineage must go past
them: `LINEAGE_HOPS` is 1 (10 in the code), so two redraws already hide a light, and
`LightIsInherited` says from how many on, in terms of the constant; `SETTING_HOPS` is the
code's 4, which the longest lineage just needs.  Strokes, bands and points of a frame
are bounded at two instead of hundreds; the comparison with the limit is the same.  One
attach cut short (`MaxTorn`) is enough, since an operation reads the layers of one
picture and the parameters of the others.  The rows' options hold for each kind a
plain row, the ends of its ranges, a value just past one, null against absent, and
what changes what the lineage inherits.

`ChannelsRow`.  Two rows and two claims are the least with events of a row after its
successor began; two prompts of one row the least with a resumed prompt and a new one
in a single payload; one loss is a restart at any point or a socket lost at any point,
with the prompt forgotten in the first case only.  One event waiting on the socket is
enough for the feed to be a step behind.  The rows are symmetric (the properties are
state predicates).  A row of `generate` adds payloads of prompts that failed, timed out or
were given up on, followed by another: two jobs and two prompts are the least, and one
claim is enough.  Of what the constraints of `MCChannels` leave out, `Claims` leaves a claim
next to one of `generate`, resumed past the jobs it had given up on, and a second claim
after one that submitted nothing; `Sockets` a socket lost under a row of `generate` while
ComfyUI goes on; `Unsent` what follows the last payload.  These are left to the theorems,
which have no bound.

`CHECK_DEADLOCK FALSE` is set for `Generate`, whose request is over when it has its
result, for `Derived`, whose rows end, for `Studio`, whose lineage is at its bound, and
for `Channels`, whose claims are used up; `Worker` never stops and is checked for
deadlock.

## Findings

* `PollingGoesOn` (`application/work.py:345`): `docs/queueing.md` promises that
  polling always runs underneath the hub socket, but a read timeout or a closed
  connection while a claim or report is answered is neither a `SystemExit` nor
  caught, and ends the loop.  Inside ComfyUI the thread is not started again.
* `NoDuplicates` (`application/generate.py:597`): README promises that a retry
  resumes instead of creating duplicates, but the keys of the request and of its
  jobs are sent before they are saved.
* `IngestedHasGraph` (`application/generate.py:647`): the prompt id is saved before
  the PATCH that carries it, and the resumed run never sends that PATCH.
* `SeedsAreCounted` (`application/generate.py:430`): seeds adopted from the jobs
  chimera answers with are fewer than `count` when only some jobs were created.
* `CutIsTrue` (`application/cut_assets.py:68`): `docs/queueing.md:121-129` says the cut
  records the values its pictures were cut with and that a later deliver loads a
  picture when they are its own.  A row resumed by a worker of another release
  waits for the prompt of the first, and describes its alpha with its own values.
  Three more things break the same promise: two overlapping operations of different
  releases; a run that ends between its pictures and their description; and a row that
  attached a depth and described it, was killed, and is run again by a release that has
  to cut the alpha too after ComfyUI forgot the prompt.  Its alpha is new to chimera,
  but the key of its `cut.json` is the row's (`cut_assets.py:74`) and has been seen, so
  the old description stays.  `CutIsTrueInTurn` leaves out all four (`torn`); that it
  holds otherwise is checked and proved (`CutTrueInTurn`).  The last takes two faults
  and `DerivedPair` has one: it came up when the invariant of the proof, which is for any
  number of them, was checked with two.

### Smaller divergences

Met while modelling and read in the code; the models take the code's side.  None has a
run of its own.

* A lens takes an uploaded photo (`picture_source.py:13,24-27`, `lens.py:47-57`), where
  `docs/queueing.md:215-219` has it take delivered pictures.
* A stage inherits the light its source was delivered in from fewer records than
  `docs/queueing.md:148-154` suggests when a saturation lies over the redraws
  (`stage.py:195`, `deliver.py:55-70`): `LightIsInherited` states how many.
* Labels are unique in every graph the worker builds (`LabelsInOrder`), but a base graph
  read from a picture that was already labelled keeps its titles (`roles.py:181-188`),
  which `docs/remote.md:190` does not mention.
* A saturation of a delivery whose backdrop was never attached, the attach having been
  cut short, is a transparent picture rather than a refusal: `saturation` asks the
  assets, `dof` and `lighting` the parameters.  `LayersMatch` leaves such pictures out.
* `place: null` with a photo is accepted and breaks the row (`row.how = "broken"`).
* ProgressRelay's docstring says that progress outside a row is not relayed; the second
  read of `current` may find it cleared, and the frame is then sent with no row, or with
  the next one.  `SubmitFirst` is what remains true.
* A restart of ComfyUI while the feed is between two attempts to connect is not seen as
  a loss: an environment read before it stays cached until the next loss.
  `EnvOutlivesNoLoss` is stated relative to the losses the feed notices.
* `cold_load` may deny a load made by a prompt that failed unseen on the feed, and claim
  one where a prompt failed before its loader ran: `ColdLoadIsTrue` is about prompts
  that succeeded.

## Fairness

`Worker!FairSpec` asks weak fairness of each worker's start, of its main thread
and of chimera's sweep.  The main thread's calls and waits all end: HTTP calls have
timeouts, `wait_for` a deadline, `_idle` an interval.  A worker that has left is
started again by the scheduled task, by a deployment or by hand.  Inside
ComfyUI the thread itself is never started again while the process lives, so
`EveryRowSettles` holds there only as far as somebody restarts ComfyUI.  Nothing
is asked of the hub, the heartbeats or late calls, so both liveness properties
hold with the hub down for good.

`Generate!FairSpec` asks that a run goes on, that an unfinished request is run again
and that ComfyUI eventually renders or is restarted.  `Completes` therefore says
that no number of faults leaves a state from which runs do not finish, not that
somebody will rerun a command.

`Studio` and `Channels` are checked for safety only: what makes their rows end is
`Derived!Settles` and `Worker!EveryRowSettles`.

`Derived!FairSpec` asks that each run goes on, that a killed row is claimed again
(the claim loop's `EveryRowSettles`) and that ComfyUI renders.  It asks nothing of
faults.  A prompt that broke or was forgotten needs no fairness of its own: the
run's deadline fails the row.

## Proofs

`WorkerProofs.tla` proves, for every set of workers and rows, every wiring and every
bound:

* `TypeCorrect`, from `TypeInv`: `TypeOK` with `RowInHand` (a row is in hand exactly
  while it is run or reported, and what is about to be reported was reached) and
  `CallsTrue` (so was every report still in flight).  `TypeOK` alone is not inductive:
  `ReportAnswered` patches `row[hand[w]]`, which needs `hand[w]` to be a row.
* `HandSafe` from `TypeInv`: `HandIsHeld` is inductive relative to it, because any
  call or sweep that takes the row away sets `superseded`.
* `NothingLeftSafe` from `TypeInv`.
* `AckSafe`, an action property, from `TypeInv`, `NothingLeftRunning` and `TodoInRelease`
  (rows wait in `todo` only inside `release_claims`), which is what turns "nothing but
  what is in `todo` or in hand" into "nothing" at the acknowledgement.
* `OutcomeSafe` from `TypeInv`, whose `CallsTrue` is what a late report needs: an outcome
  chimera shows was reached by some execution (`OutcomeWasReached`).  No run asks for it on
  its own, since the refinement of `Queue`, whose `Settle` gives a row only what was
  reached, cannot hold without it.
* `WakeSafe` from `WakeInv`: a running row was claimed at least once, so no return
  to the queue makes a row that was never claimed; the claim being made has not
  been answered; and `NoLostWakeup` from the moment of the empty answer.

The proofs rest on the three assumptions of `Worker` only: `NoneAssumption`,
`WiringAssumption`, `BoundAssumption`.

`DerivedProofs.tla` proves, for every set of operations, whatever they need and
upload, every set of releases and any number of faults:

* `TypeCorrect`, from `TypeInv`: `Types` with `RunsTrue`.  That a waiting run waits for a
  prompt of its own operation is not inductive: it takes that the state file never
  names another's, nor the picture's prompt where the cut's belongs, and that no
  prompt changes what it was submitted for (`PromptsStay`), however many are added.
* `CutSafe` from `CutInv`: what `cut` describes is there because what a run has seen
  (`seen`) and what it has attached (`keyed`) is there, and pictures are only ever
  replaced; the merge describes nothing else.
* `IngestedSafe` from `WholeInv`: a run past `decide` has what it needs either to cut or
  already there, so whoever submitted the prompt it waits for, what that prompt cut
  (at most what the operation needs, `CutsAsNeeded`) is there when it ingests; and
  the pieces have come one by one.
* `ResultSafe` from `ResultInv`: a run past `ingest` leaves its job ingested, a stored
  result bars every further run, and the parts of a result's cut come in order.
* `CutTrueInTurn` from `InTurn`, which holds of every state until it is `torn`.  Runs are
  then alone on the picture (`Alone`) and draw with a prompt of their own release
  (`OwnRelease`); what a run read of the cut is what there is until it describes it
  anew (`ReadTrue`), so the merge brings nothing old back; and while it attaches, the
  roles it has attached are of its release and the others still described as they were
  (`Half`).  `KeyedWhole` says why a row that is run again can skip what it attached: the
  description came with it.

The proofs rest on the assumptions `OpAssumption`, `ReleaseAssumption` and
`FaultAssumption` of `Derived`.  They do not use that an operation runs once at a
time beyond what `pc` says: a second worker on the same row is not modelled.

`QueueProofs.tla` proves `QueueImplemented`, `Spec => ImplementsQueue`, for every number of
workers, rows and attempts and any number of faults.  Its invariant `RefineInv` is
`TypeInv` with two facts the mapping needs: a row that was never posted was never
handed out (`AbsentIsNew`), and a row in hand was (`HandWasClaimed`), so that a run that
ends is a run there was.  `OneRow` says that an action which changes one row changes what
`Queue` sees of that row only; `PatchIsPosted`, `ReturnIsPosted` and `ClaimIsPosted` take a
PATCH, a return and a claim to a step of `Queue` or a stutter, whether they are applied
when called or late; `StepIsPosted` goes through the actions.

`StudioProofs.tla` proves, for every set of rows' options, every bound on the lineage and
on torn pictures, and every `LINEAGE_HOPS`:

* `OrderSafe`, `ViewfinderSafe` and `DiffuseSafe` from `LineageSafe`: `StudioInv` adds to the
  three properties that the lineage is one of pictures (`Lineage`), that only its first
  one may be a drawing and what that may be (`RootFirst`), and `DiffuseAlone`.  No property is
  inductive alone: that a deliver finds the LayerDiffuse drawing under a repair takes
  that repairs lie nowhere else.  There is a lemma per operation (`RedrawStep` ..
  `DofStep`); what each accepts of its options plays no part, so `Options` is never
  expanded.
* `SettingReached`: the walk of `dof._setting` finds a record that ends it within
  `SETTING_HOPS` of every picture with layers.  It follows from `OneOrder`, since a
  saturation, a stage and a lighting come at most once each (`AnchoredByRank`: a picture
  of rank k is at most k hops from where its layers stand).

From there the same module goes on to the layers (the first two points below) and
`StudioAnswers.tla` to what a row comes out with, for lineages of any length, any posted
JSON and rows cut short anywhere.

* `LayersSafe` (`LayersMatch`) from `AttachedInv`.  A saturation goes by the assets it
  finds and every other operation by the parameters of the lineage, so neither says
  anything of the other without what ties them: a whole picture has the assets its
  parameters promise, a saturation those of what it was made from (`AllThere`), and a
  picture is backed as the one it rests on under any run of saturations and lightings
  (`RestsOn`, `Backed`).  `LayersMatch` is that of each prefix of the lineage.
* `NeverAtALossSafe`, `ReadsSafe`, `DepthSafe` from `RowsSafe`, which carries the three
  together from the step that answers a row to its report (`RowInv`).  The first two
  come down to `AttachedInv`.  The third needs the order of the whole lineage, not of
  neighbours: by `OrderedInv` ranks grow along it, so its redraws lie together under its
  delivery, the drawing the walk ends at is the last one there is, and every frame
  there is lies between.  It also bounds the redraws over a drawing, by how far
  `_load_source` looks for it.
* `LightSafe` (`LightIsInherited`) from `RowLit`.  How far `inherited_light` sees is a
  matter of `OrderedInv`: a `light` redraw is never out of a delivery's reach, and out of a
  stage's only with `LINEAGE_HOPS` redraws over it, or one fewer and a saturation.  That a shadow falls the same by
  a delivery's light and by its stroke takes `AllLit`: every light has a direction, and
  a stroke that has one has its light's, which needs that options are only accepted so.
* `NumbersSafe` (`NumbersFit`) from `Answers`: a row that came out has options that are
  accepted (`Goes`), and each range `Options` checks lies within the node's (`GoesFits`, kind
  by kind, for any JSON).
* `TypeSafe` (`TypeOK`) from `Answers`, `RecordsTyped` (what is put on record of a picture is
  of its type because accepted options are) and `SubmittedSafe`: a row's graphs are among
  `Jobs`.  The last takes that a redraw's base is one of `REDRAWN`, hence that a graph
  drawn from a checkpoint is not taken for the recipe's (`CheckpointIsForeign`).
* `ResolvedSafe` (`ResolvedRunsAgain`) from `Told`: a row that came out reports its options
  resolved, a stage with the frame it came out with (`Came`).  That these are accepted
  again and parsed to the same arguments is a statement about eight parsers and the
  reports beside them, without lineages: `OptionsProofs.tla`.  It goes from the parts to
  the whole: a float read as a float, a range, a point, a color, a light, a list
  taken item by item and an object merged over its defaults are what they were the
  second time; then each kind goes over the keys it reports (`RedrawIsAgain`, for any
  recipe, to `StageIsAgain`).  Three reports are not their arguments: a redraw's gives the
  number its dial stood for, which the method it is posted with must take; a blur's
  gives its photo's options only if one was posted, since one of them alone asks for a
  photo; a stage's gives the canvas its frame was filled in with, and is accepted because
  that canvas has a width and a height (`FilledFrame`; a render of one that has none fails).
* `RunsSafe`, `LabelsSafe` and `PixelsSafe` state `SubmittedRuns`, `LabelsInOrder` and
  `OwnPixels` of every lineage, each under the hypothesis that a finite table is in
  order: `SOUND = Jobs`, `LABELLED = Jobs`, `OWN = REDRAWS`.  The tables have a row for every
  graph the worker can build and depend on no constant; they are built with recursive
  functions, so that TLC evaluates them (each is a conjunct of its property in
  `StudioRow`) and the prover does not.  What is proved is that no lineage leads out of
  the tables, and that a redraw starts from pixels exactly where its source asks for it
  (`PixelsTold`).

The three modules rest on `StudioAssumption` (a lineage starts in one of `Roots`,
`LINEAGE_HOPS` is a number) and, for `ResolvedSafe`, on `LimitsAssumption` of `Options`, which
allows a delivery the two bands of its default; `QueueProofs` on the assumptions of `Worker`.

`GenerateProofs.tla` proves, for every count, every number of images, reruns and faults,
and keyed rows as well as `chagama generate`, all seven invariants of `Generate`.
What carries them is `CoreInv`, inductive as a whole and in no part:

* `TypesHold`, `FileIsTrue`, `IngestedWhole` are conjuncts of it or follow from one.
  The file claims nothing chimera does not have (`Truth`), because the run in memory
  does not either and a save copies it; that a later run does not undo it takes
  `Follows` (memory goes on from the file: same request, same seeds, same keys) and
  `Stored` (at the places just after a save the two are equal).  `Started`, `AtJob` and
  `AtOutput` say what the run's state has at each place of the code, which the
  guards rely on without testing it.
* `OneRecordEach` adds `KeysMatch`: whatever chimera has of a listed job's output came
  under the key the state holds for it, so that the resend after a kill is answered
  with what is there.
* `OnePromptEach` adds `Tracked`: a prompt that is neither forgotten nor lost before it
  was written down is the one the run, or between runs the file, holds for its job,
  unless that job is a claimed row's that chimera shows as ingested.
* `SeedsAreTrue` adds `SeedInv`: a state's prompts were drawn with its seeds and the
  jobs of its request recorded with them.
* `FinishedIsAll` adds `EndsInv`: the jobs the loop has passed are ended, on both sides.
  It assumes `~DiskCanFail`, under which the property is meant: a lost file takes the
  result with it, and a run after that says nothing of the one before.

The module first gathers the effects of the actions on each variable (`Kinds` and the
lemmas around it), so that each part of an invariant needs a handful of cases rather
than one per action.  It rests on `CountAssumption`.

`ChannelsProofs.tla` proves, for every set of rows, whichever of them are `generate`'s, any
jobs per row and any number of
attempts, prompts, losses and events on their way:

* `SubmittedFirst` from `FirstInv`: a row is current only after its first frame, and it
  is `current` that a frame of progress is sent for, whichever prompt's it was.
* `EnvironmentIsFresh` from `EnvInv`: what the worker has read and not yet kept was read
  of a process no older than `since`, which holds because `invalidate_env` waits for
  the lock under which the worker reads and keeps.
* `SentTimingsAreTrue`.  The steps of a script rise in `Rank` (`ScriptRises`, for every
  run there can be); ComfyUI runs the prompts in the order they came and is at one
  place of the first one's script (`QueueInv`); so the events on the socket and in hand
  are of scripts, in their order (`SentInv`), and whatever time the recorder holds of a
  prompt is older than everything still to come of it (`Old`), however much was lost in
  between.  From that order follows what was heard of a node (`HeardNode`): a start is
  no earlier than the node's, an end no earlier than the node's, and if only the end
  was heard there was one.  `LedgerInv` says the history's half; `NodesTrue` and
  `ColdTrue` put the two together as the payload does.

They rest on `ChannelsAssumption` alone.

Every safety property the passing runs check is a theorem.  Only model-checked: the
contents of the tables of graphs, as said above, and the liveness properties
`EveryRowSettles`, `DrainAnswered`, `Completes` and `Settles` (liveness under fairness and
ENABLED are out of the prover's reach).

## Not modelled

* In `Worker`: `--dry-run`, which changes nothing; publication of the catalog and the
  status file.  Timings and ProgressRelay are `Channels`'.
* In `Generate`: state files written before outputs carried an index, the dry
  run, the semantic PUT, the notification and the rating, all best-effort or
  read-only; the contents of the graph.
* In `Derived`: the checks of the source before anything is submitted, the settings
  and the light inherited along the lineage and the graphs, which are `Studio`'s; rating
  and notification; and `chagama deliver` on the command line, which draws its keys
  anew.
* In `Studio`: rows that name a picture that does not exist, lineages with a cycle, two
  rows at once and kills before the picture is recorded (both `Derived`'s); a redraw of
  a picture that is not the lineage's last, which starts a lineage of its own.
* In `ComfyGraph`: inputs that are not links and the strings of prompts, but for the
  pictures loaded and the suffixes saved under.
* In `Channels`: the hub's own connection (a thread of `Worker`), the values measured, the
  text of `/system_stats`, more than one loader and one sampler.
* `application/watch.py`: a poll of chimera's pending experiment runs, each handed to
  `generate()` under a path of its own and apart from the others' failures.  It keeps no
  state of its own; what a killed or repeated poll does is what `Generate` models for
  `chagama generate`.
* `deploy/*.ps1` but for the drain file and the kill: copying and comparing directories
  on one machine, by one process.  One check there is weak: `check.ps1:33` passes on the
  `status.json` of a dead worker whose process id was given out again.
* The retry loop of the chimera client: `Worker`, `Generate` and `Derived` take of it that
  a call is answered, given up on or broken off.
* Data without state: recipes, prompt assembly, patches, the request schema and the
  catalog; pixel arithmetic (`infrastructure/imaging` but for the canvas of a frame, the
  bodies of the pack's nodes), which has no state and no order to get wrong.
* The command line, safety classification, notifications and power: argument parsing
  and best-effort effects.

## What could follow

1. An abstract ledger of whole jobs, implemented by `Generate` and by `Derived`.
2. Two workers on one row in `Generate` and `Derived` (`generate.py:606` among the hazards).
3. The semantic PUT and the notification (`generate.py:718`), and a recipe that changes
   with the release between two jobs (`generate.py:644`).
