------------------------------ MODULE Derived ------------------------------
(***************************************************************************)
(* The operations that make one picture from another (application/deliver, *)
(* redraw, dof, lens, photo and stage, which holds lighting and saturation *)
(* too) and the cut of their source they share (application/cut_assets).   *)
(*                                                                         *)
(* Every operation is a claimed row and goes through one pipeline: load    *)
(* the state file, read the stored cut and load what of it is current,     *)
(* submit the graph or resume the prompt in the file, record the job, the  *)
(* picture and its layers, attach what was cut to the source, ingest, cut  *)
(* the result if asked to, and save the result.  Several workers, perhaps  *)
(* of different releases, may be in it at once, and a run may be killed    *)
(* anywhere and the row be claimed again.                                  *)
(*                                                                         *)
(* The values a release cuts with (current_cut) are named by the release.  *)
(* ComfyUI and chimera are outside the repository: an asset replaces the   *)
(* one of its role, and a POST with a key chimera has seen does nothing.   *)
(***************************************************************************)
EXTENDS Naturals, Sequences, FiniteSets

CONSTANTS
    Ops,        \* the rows
    Needs,      \* the roles of the source's cut each of them draws with
    Pieces,     \* how many pictures and layers each uploads
    CutsResult, \* the redraws with `cut`
    Releases,   \* what the workers may run, numbered from 1
    MaxFaults   \* bound on crashes, failures and ComfyUI restarts

Roles   == {"alpha", "depth"}
Results == <<"alpha", "depth", "cut", "cutout">>

ASSUME OpAssumption ==
    /\ Needs \in [Ops -> SUBSET Roles]
    /\ Pieces \in [Ops -> Nat \ {0}]
    /\ CutsResult \subseteq Ops
ASSUME ReleaseAssumption == Releases \subseteq Nat \ {0} /\ 1 \in Releases
ASSUME FaultAssumption == MaxFaults \in Nat

VARIABLES
    row,     \* chimera: whether the row waits for a run, is done or failed
    job,     \* chimera: the status and prompt of each operation's job
    pieces,  \* chimera: the pictures and layers it has of each operation
    result,  \* chimera: the cut it has of each operation's own picture
    keyed,   \* chimera: the keys of assets of the source it has seen
    asset,   \* chimera: the release each role of the source was cut by
    cut,     \* chimera: the source's cut.json
    comfy,   \* ComfyUI: the prompts submitted to it, in order
    pc,      \* where each operation's run is, "off" between runs
    run,     \* the run's own variables
    file,    \* the state file of each operation
    torn,    \* history: runs overlapped, one ended while it attached its cut, one
             \* resumed what another release had submitted, or one attached more to
             \* what an earlier run of its row had described
    faults

chimera == <<job, pieces, result, keyed, asset, cut>>
vars    == <<row, chimera, comfy, pc, run, file, torn, faults>>

None     == 0
NoFile   == [prompt |-> None, cutPrompt |-> None, completed |-> FALSE]
NoRun(v) == [release |-> v, seen |-> {}, stored |-> [r \in Roles |-> None],
             fresh |-> {}, prompt |-> None, next |-> 1]
Places   == {"off", "list", "describe", "decide", "prompt", "submitted", "wait", "create",
             "queue", "complete", "piece", "attach", "ingest", "cutprompt", "cutsubmitted",
             "cutwait", "cutattach", "finish", "report"}

-----------------------------------------------------------------------------
(* Steps of a run.                                                         *)

\* The run goes from one place to the next with its variables as given.
Go(o, from, to, mine) ==
    /\ pc[o] = from
    /\ pc' = [pc EXCEPT ![o] = to]
    /\ run' = [run EXCEPT ![o] = mine]

Keep(o, from, to) == Go(o, from, to, run[o])

\* The run and its variables are gone.
Leaves(o) ==
    /\ pc' = [pc EXCEPT ![o] = "off"]
    /\ run' = [run EXCEPT ![o] = NoRun(None)]

Fault == faults < MaxFaults /\ faults' = faults + 1

\* The result of an earlier run is returned as it is.
ReturnStored(o) ==
    /\ pc[o] = "off" /\ row[o] = "waits" /\ file[o].completed
    /\ row' = [row EXCEPT ![o] = "done"]
    /\ UNCHANGED <<chimera, comfy, pc, run, file, torn, faults>>

Begin(o, v) ==
    /\ row[o] = "waits" /\ ~file[o].completed
    /\ Go(o, "off", IF Needs[o] = {} THEN "prompt" ELSE "list", NoRun(v))
    /\ torn' = (torn \/ \E other \in Ops \ {o} : pc[other] # "off")
    /\ UNCHANGED <<row, chimera, comfy, file, faults>>

-----------------------------------------------------------------------------
(* The stored cut: stored_cut, reusable.                                   *)

Described == \E r \in Roles : cut[r] # None

\* list_assets: the roles of the source, the cut among them.
List(o) ==
    /\ Go(o, "list", "describe", [run[o] EXCEPT !.seen =
              {r \in Roles : asset[r] # None} \cup (IF Described THEN {"cut"} ELSE {})])
    /\ UNCHANGED <<row, chimera, comfy, file, torn, faults>>

\* fetch_asset of the cut, if it was listed.
Describe(o) ==
    /\ Go(o, "describe", "decide",
          [run[o] EXCEPT !.stored = IF "cut" \in run[o].seen THEN cut ELSE @])
    /\ UNCHANGED <<row, chimera, comfy, file, torn, faults>>

\* Mutant: whatever is stored is reused.
ReusableAny(o, r) == r \in run[o].seen

\* Listed, and described with the values of this release.
Reusable(o, r) == r \in run[o].seen /\ run[o].stored[r] = run[o].release

\* The roles the graph has to cut itself.
Decide(o) ==
    /\ Go(o, "decide", "prompt",
          [run[o] EXCEPT !.fresh = {r \in Needs[o] : ~Reusable(o, r)}])
    /\ UNCHANGED <<row, chimera, comfy, file, torn, faults>>

-----------------------------------------------------------------------------
(* The prompt.                                                             *)

Knows(p) == comfy[p].state # "forgotten"

\* ComfyUI knows the prompt in the file; unreachable counts as knowing.
Resumes(p) ==
    /\ p # None
    /\ \/ Knows(p) /\ UNCHANGED faults
       \/ ~Knows(p) /\ Fault

Submits(o, p, draws, makes) ==
    /\ p # None => ~Knows(p)
    /\ comfy' = Append(comfy, [op |-> o, draws |-> draws, makes |-> makes,
                               release |-> run[o].release, state |-> "queued"])

Resume(o) ==
    /\ Go(o, "prompt", "wait", [run[o] EXCEPT !.prompt = file[o].prompt])
    /\ Resumes(file[o].prompt)
    /\ torn' = (torn \/ comfy[file[o].prompt].release # run[o].release)
    /\ UNCHANGED <<row, chimera, comfy, file>>

Submit(o) ==
    /\ Go(o, "prompt", "submitted", [run[o] EXCEPT !.prompt = Len(comfy) + 1])
    /\ Submits(o, file[o].prompt, "picture", run[o].fresh)
    /\ UNCHANGED <<row, chimera, file, torn, faults>>

SavePrompt(o) ==
    /\ Keep(o, "submitted", "wait")
    /\ file' = [file EXCEPT ![o].prompt = run[o].prompt]
    /\ UNCHANGED <<row, chimera, comfy, torn, faults>>

Ready(p) == comfy[p].state = "success"

\* The outputs have every role the run asks of them.
Rendered(o) ==
    /\ Keep(o, "wait", "create")
    /\ Ready(run[o].prompt) /\ run[o].fresh \subseteq comfy[run[o].prompt].makes
    /\ UNCHANGED <<row, chimera, comfy, file, torn, faults>>

-----------------------------------------------------------------------------
(* The records: record_job, upload_generation, attach_asset.               *)

CreateJob(o) ==
    /\ Keep(o, "create", "queue")
    /\ job' = IF job[o].status = "none" THEN [job EXCEPT ![o].status = "new"] ELSE job
    /\ UNCHANGED <<row, pieces, result, keyed, asset, cut, comfy, file, torn, faults>>

Queue(o) ==
    /\ Keep(o, "queue", "complete")
    /\ job' = [job EXCEPT ![o] = [status |-> "queued", prompt |-> run[o].prompt]]
    /\ UNCHANGED <<row, pieces, result, keyed, asset, cut, comfy, file, torn, faults>>

Complete(o) ==
    /\ Go(o, "complete", "piece", [run[o] EXCEPT !.next = 1])
    /\ job' = [job EXCEPT ![o].status = "completed"]
    /\ UNCHANGED <<row, pieces, result, keyed, asset, cut, comfy, file, torn, faults>>

\* The next picture or layer.
Piece(o) ==
    /\ run[o].next <= Pieces[o]
    /\ Go(o, "piece", "piece", [run[o] EXCEPT !.next = @ + 1])
    /\ pieces' = [pieces EXCEPT ![o] = @ \cup {run[o].next}]
    /\ UNCHANGED <<row, job, result, keyed, asset, cut, comfy, file, torn, faults>>

\* Mutant: the last layer is left out.
PiecesDoneEarly(o) ==
    /\ run[o].next >= Pieces[o]
    /\ Keep(o, "piece", "attach")
    /\ UNCHANGED <<row, chimera, comfy, file, torn, faults>>

PiecesDone(o) ==
    /\ run[o].next > Pieces[o]
    /\ Keep(o, "piece", "attach")
    /\ UNCHANGED <<row, chimera, comfy, file, torn, faults>>

\* attach_cut: the fresh roles, alpha before depth ...
Attach(o, r) ==
    /\ r \in run[o].fresh
    /\ r = "depth" => <<o, "alpha">> \in keyed \/ "alpha" \notin run[o].fresh
    /\ <<o, r>> \notin keyed
    /\ Keep(o, "attach", "attach")
    /\ asset' = [asset EXCEPT ![r] = comfy[run[o].prompt].release]
    /\ keyed' = keyed \cup {<<o, r>>}
    /\ torn' = (torn \/ <<o, "cut">> \in keyed)
    /\ UNCHANGED <<row, job, pieces, result, cut, comfy, file, faults>>

\* Mutant: the entries read from the source win over the new ones.
MergedOldFirst(o) ==
    [r \in Roles |-> IF r \in run[o].seen /\ run[o].stored[r] # None THEN run[o].stored[r]
                     ELSE IF r \in run[o].fresh THEN run[o].release ELSE None]

\* ... and the cut with the entries read before, of the roles listed then.
Merged(o) ==
    [r \in Roles |-> IF r \in run[o].fresh THEN run[o].release
                     ELSE IF r \in run[o].seen THEN run[o].stored[r] ELSE None]

\* Mutant: the cut is described before its pictures are attached.
DescribeCutFirst(o) ==
    /\ run[o].fresh # {}
    /\ <<o, "cut">> \notin keyed
    /\ Keep(o, "attach", "attach")
    /\ cut' = Merged(o)
    /\ keyed' = keyed \cup {<<o, "cut">>}
    /\ UNCHANGED <<row, job, pieces, result, asset, comfy, file, torn, faults>>

DescribeCut(o) ==
    /\ run[o].fresh # {} /\ \A r \in run[o].fresh : <<o, r>> \in keyed
    /\ <<o, "cut">> \notin keyed
    /\ Keep(o, "attach", "attach")
    /\ cut' = Merged(o)
    /\ keyed' = keyed \cup {<<o, "cut">>}
    /\ UNCHANGED <<row, job, pieces, result, asset, comfy, file, torn, faults>>

Attached(o) ==
    /\ run[o].fresh = {} \/ \A r \in run[o].fresh \cup {"cut"} : <<o, r>> \in keyed
    /\ Keep(o, "attach", "ingest")
    /\ UNCHANGED <<row, chimera, comfy, file, torn, faults>>

\* Mutant: a run that is resumed takes the cut of its result for made.
IngestCutOnce(o) ==
    /\ Keep(o, "ingest", IF o \in CutsResult /\ file[o].cutPrompt = None
                         THEN "cutprompt" ELSE "finish")
    /\ job' = [job EXCEPT ![o].status = "ingested"]
    /\ UNCHANGED <<row, pieces, result, keyed, asset, cut, comfy, file, torn, faults>>

Ingest(o) ==
    /\ Keep(o, "ingest", IF o \in CutsResult THEN "cutprompt" ELSE "finish")
    /\ job' = [job EXCEPT ![o].status = "ingested"]
    /\ UNCHANGED <<row, pieces, result, keyed, asset, cut, comfy, file, torn, faults>>

-----------------------------------------------------------------------------
(* The cut of the result: _cut_output.                                     *)

\* Mutant: the prompt of the picture is resumed for the cut.
CutResumeFirst(o) ==
    /\ Go(o, "cutprompt", "cutwait", [run[o] EXCEPT !.prompt = file[o].prompt])
    /\ Resumes(file[o].prompt)
    /\ UNCHANGED <<row, chimera, comfy, file, torn>>

CutResume(o) ==
    /\ Go(o, "cutprompt", "cutwait", [run[o] EXCEPT !.prompt = file[o].cutPrompt])
    /\ Resumes(file[o].cutPrompt)
    /\ UNCHANGED <<row, chimera, comfy, file, torn>>

CutSubmit(o) ==
    /\ Go(o, "cutprompt", "cutsubmitted", [run[o] EXCEPT !.prompt = Len(comfy) + 1])
    /\ Submits(o, file[o].cutPrompt, "cut", Roles)
    /\ UNCHANGED <<row, chimera, file, torn, faults>>

SaveCutPrompt(o) ==
    /\ Keep(o, "cutsubmitted", "cutwait")
    /\ file' = [file EXCEPT ![o].cutPrompt = run[o].prompt]
    /\ UNCHANGED <<row, chimera, comfy, torn, faults>>

CutRendered(o) ==
    /\ Go(o, "cutwait", "cutattach", [run[o] EXCEPT !.next = 1])
    /\ Ready(run[o].prompt)
    /\ UNCHANGED <<row, chimera, comfy, file, torn, faults>>

CutAttach(o) ==
    /\ Go(o, "cutattach", IF run[o].next < Len(Results) THEN "cutattach" ELSE "finish",
          [run[o] EXCEPT !.next = @ + 1])
    /\ result' = [result EXCEPT ![o] = @ \cup {Results[run[o].next]}]
    /\ UNCHANGED <<row, job, pieces, keyed, asset, cut, comfy, file, torn, faults>>

-----------------------------------------------------------------------------
(* The end of a run.                                                       *)

Finish(o) ==
    /\ Keep(o, "finish", "report")
    /\ file' = [file EXCEPT ![o].completed = TRUE]
    /\ UNCHANGED <<row, chimera, comfy, torn, faults>>

Report(o) ==
    /\ pc[o] = "report" /\ Leaves(o)
    /\ row' = [row EXCEPT ![o] = "done"]
    /\ UNCHANGED <<chimera, comfy, file, torn, faults>>

\* SystemExit or an exception leaves the operation: the row has failed.
Fails(o) ==
    /\ Leaves(o)
    /\ row' = [row EXCEPT ![o] = "failed"]
    /\ torn' = (torn \/ pc[o] = "attach")
    /\ UNCHANGED <<chimera, comfy, file>>

\* Mutant: a prompt ComfyUI has lost is waited for without a deadline.
FailsRenderingOnError(o) ==
    /\ pc[o] \in {"wait", "cutwait"} /\ comfy[run[o].prompt].state = "error"
    /\ Fails(o) /\ UNCHANGED faults

\* The prompt ended in an error, or wait_for's deadline passed.
FailsRendering(o) ==
    /\ pc[o] \in {"wait", "cutwait"}
    /\ comfy[run[o].prompt].state \in {"error", "forgotten"}
    /\ Fails(o) /\ UNCHANGED faults

\* "is missing its ... output(s)": the resumed prompt does not make what this
\* run wants cut.
FailsMissing(o) ==
    /\ pc[o] = "wait" /\ Ready(run[o].prompt)
    /\ ~(run[o].fresh \subseteq comfy[run[o].prompt].makes)
    /\ Fails(o) /\ UNCHANGED faults

\* Any call of the run gives up; whether it was carried out or not, what is
\* left is what the run leaves after, or before, its step.
GivesUp(o) ==
    /\ pc[o] \notin {"off", "report"}
    /\ Fault
    /\ Fails(o)

\* Killed: the row is claimed again.
Crash(o) ==
    /\ pc[o] # "off"
    /\ Fault
    /\ Leaves(o)
    /\ torn' = (torn \/ pc[o] = "attach")
    /\ UNCHANGED <<row, chimera, comfy, file>>

Ends(p, state) ==
    /\ comfy[p].state = "queued"
    /\ comfy' = [comfy EXCEPT ![p].state = state]
    /\ UNCHANGED <<row, chimera, pc, run, file, torn>>

Renders(p) == Ends(p, "success") /\ UNCHANGED faults
Breaks(p)  == Ends(p, "error") /\ Fault

\* ComfyUI is restarted: its queue and its history are gone.
Forgets ==
    /\ Fault
    /\ comfy' = [p \in DOMAIN comfy |-> [comfy[p] EXCEPT !.state = "forgotten"]]
    /\ UNCHANGED <<row, chimera, pc, run, file, torn>>

-----------------------------------------------------------------------------
\* The source has no cut, that of a deliver or that of a light redraw, made by
\* the first release.
Init ==
    /\ row = [o \in Ops |-> "waits"]
    /\ job = [o \in Ops |-> [status |-> "none", prompt |-> None]]
    /\ pieces = [o \in Ops |-> {}]
    /\ result = [o \in Ops |-> {}]
    /\ keyed = {}
    /\ asset \in {[r \in Roles |-> IF r \in had THEN 1 ELSE None] :
                  had \in {{}, {"alpha"}, {"alpha", "depth"}}}
    /\ cut = asset
    /\ comfy = <<>>
    /\ pc = [o \in Ops |-> "off"]
    /\ run = [o \in Ops |-> NoRun(None)]
    /\ file = [o \in Ops |-> NoFile]
    /\ torn = FALSE
    /\ faults = 0

Step(o) ==
    \/ ReturnStored(o) \/ \E v \in Releases : Begin(o, v)
    \/ List(o) \/ Describe(o) \/ Decide(o)
    \/ Resume(o) \/ Submit(o) \/ SavePrompt(o) \/ Rendered(o)
    \/ CreateJob(o) \/ Queue(o) \/ Complete(o) \/ Piece(o) \/ PiecesDone(o)
    \/ (\E r \in Roles : Attach(o, r)) \/ DescribeCut(o) \/ Attached(o) \/ Ingest(o)
    \/ CutResume(o) \/ CutSubmit(o) \/ SaveCutPrompt(o) \/ CutRendered(o) \/ CutAttach(o)
    \/ Finish(o) \/ Report(o)
    \/ FailsRendering(o) \/ FailsMissing(o)

Rendering == \E p \in DOMAIN comfy : Renders(p)

Trouble ==
    \/ \E o \in Ops : GivesUp(o) \/ Crash(o)
    \/ \E p \in DOMAIN comfy : Breaks(p)
    \/ Forgets

Next == (\E o \in Ops : Step(o)) \/ Rendering \/ Trouble

Spec == Init /\ [][Next]_vars

(* Fairness: a killed row is claimed again, a run goes on until it ends    *)
(* (every call and wait_for have deadlines), and ComfyUI renders.          *)
FairSpec == Spec /\ (\A o \in Ops : WF_vars(Step(o))) /\ WF_vars(Rendering)

-----------------------------------------------------------------------------
(* Properties.                                                             *)

Cut    == [Roles -> Releases \cup {None}]
Job    == [status : {"none", "new", "queued", "completed", "ingested"}, prompt : Nat]
Prompt == [op : Ops, draws : {"picture", "cut"}, makes : SUBSET Roles, release : Releases,
           state : {"queued", "success", "error", "forgotten"}]
Run    == [release : Releases \cup {None}, seen : SUBSET (Roles \cup {"cut"}), stored : Cut,
           fresh : SUBSET Roles, prompt : Nat, next : Nat \ {0}]
File   == [prompt : Nat, cutPrompt : Nat, completed : BOOLEAN]

Types ==
    /\ row \in [Ops -> {"waits", "done", "failed"}]
    /\ job \in [Ops -> Job]
    /\ pieces \in [Ops -> SUBSET Nat]
    /\ result \in [Ops -> SUBSET {"alpha", "depth", "cut", "cutout"}]
    /\ keyed \subseteq Ops \X (Roles \cup {"cut"})
    /\ asset \in Cut /\ cut \in Cut
    /\ comfy \in Seq(Prompt)
    /\ pc \in [Ops -> Places]
    /\ run \in [Ops -> Run]
    /\ file \in [Ops -> File]
    /\ torn \in BOOLEAN
    /\ faults \in 0..MaxFaults

\* Prompt p draws what operation o goes on to record.
Draws(p, o, what) ==
    p \in DOMAIN comfy /\ comfy[p].op = o /\ comfy[p].draws = what

\* Every variable has its type; a run that waits, waits for a prompt of its own
\* operation, and for the one that draws what it goes on to record.
TypeOK ==
    /\ Types
    /\ \A o \in Ops : pc[o] = "wait" => Draws(run[o].prompt, o, "picture")
    /\ \A o \in Ops : pc[o] = "cutwait" => Draws(run[o].prompt, o, "cut")

\* What the cut of the source describes is there, whichever operations of
\* whichever releases wrote it at once and wherever they were killed.
CutHasPictures == \A r \in Roles : cut[r] # None => asset[r] # None

\* Whatever was killed, given up on or lost elsewhere, the cut of the source says
\* which values each of its pictures was cut with, as long as no two runs on the
\* picture overlapped, none ended while it attached its cut, none resumed what
\* another release had submitted and none attached more to what an earlier run of
\* its row had described: a deliver loads a picture exactly when its own release
\* would cut the same.
CutIsTrueInTurn ==
    ~torn /\ (\A o \in Ops : pc[o] # "attach") =>
        \A r \in Roles : cut[r] # None => asset[r] = cut[r]

\* An ingested job has all its pictures and layers, and what its prompt cut
\* is on the source, whatever its runs decided to load or to cut.
IngestedIsWhole ==
    \A o \in Ops : job[o].status = "ingested" =>
        /\ pieces[o] = 1..Pieces[o]
        /\ \A r \in comfy[job[o].prompt].makes : asset[r] # None

\* An operation with a result has an ingested job, also when the result is
\* the one of a run that was killed before it could report it, and a redraw
\* with `cut` has every part of its cut for the deliver that follows.
ResultIsWhole ==
    \A o \in Ops : row[o] = "done" \/ file[o].completed =>
        /\ job[o].status = "ingested"
        /\ o \in CutsResult => result[o] = {"alpha", "depth", "cut", "cutout"}

\* Every row comes to an end, whatever was killed, restarted or given up on.
Settles == <>(\A o \in Ops : row[o] # "waits")

\* docs/queueing.md:121-129: when every operation is done, the cut records the
\* values its pictures were cut with.
CutIsTrue ==
    (\A o \in Ops : row[o] = "done") => \A r \in Roles : cut[r] # None => asset[r] = cut[r]

=============================================================================
