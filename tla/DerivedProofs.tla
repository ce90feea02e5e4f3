--------------------------- MODULE DerivedProofs ---------------------------
(***************************************************************************)
(* What holds of the derived operations for any number of them on one      *)
(* picture, any releases and any number of faults.                         *)
(*                                                                         *)
(* First the variables each step touches.  Then TypeInv: the types, with   *)
(* RunsTrue, which says that the prompts a run and its file hold are the   *)
(* operation's own.  On top of it CutInv (what a run has seen is there),   *)
(* WholeInv (how far a run has come, and what is there because of it) and  *)
(* ResultInv (the same for the cut of the result).  Each has a lemma for   *)
(* the step of an operation, one for the other operations during it, and   *)
(* one for the faults.  InTurn, last, is about the steps until torn: what  *)
(* a run has read of the cut, and how far it is in attaching it.           *)
(***************************************************************************)
EXTENDS Derived, SequenceTheorems, TLAPS

USE OpAssumption, ReleaseAssumption, FaultAssumption

-----------------------------------------------------------------------------
(* Which steps touch which variables.                                      *)

\* A row is settled by a stored result, a report or a failure.
LEMMA RowSteps ==
    ASSUME NEW o \in Ops, Step(o)
    PROVE  ReturnStored(o) \/ Report(o) \/ Fails(o) \/ UNCHANGED row
BY DEF Step, chimera, Resumes, ReturnStored, Begin, List, Describe, Decide, Resume, Submit,
   SavePrompt, Rendered, CreateJob, Queue, Complete, Piece, PiecesDone, Attach, DescribeCut, Attached, Ingest,
   CutResume, CutSubmit, SaveCutPrompt, CutRendered, CutAttach, Finish, Report,
   FailsRendering, FailsMissing, Fails

\* A job is changed by the four calls that record it.
LEMMA JobSteps ==
    ASSUME NEW o \in Ops, Step(o)
    PROVE  CreateJob(o) \/ Queue(o) \/ Complete(o) \/ Ingest(o) \/ UNCHANGED job
BY DEF Step, chimera, Resumes, ReturnStored, Begin, List, Describe, Decide, Resume, Submit,
   SavePrompt, Rendered, CreateJob, Queue, Complete, Piece, PiecesDone, Attach, DescribeCut, Attached, Ingest,
   CutResume, CutSubmit, SaveCutPrompt, CutRendered, CutAttach, Finish, Report,
   FailsRendering, FailsMissing, Fails

\* Pictures and layers arrive one by one, and so do the parts of a result's cut.
LEMMA PieceSteps ==
    ASSUME NEW o \in Ops, Step(o)
    PROVE  (Piece(o) \/ UNCHANGED pieces) /\ (CutAttach(o) \/ UNCHANGED result)
BY DEF Step, chimera, Resumes, ReturnStored, Begin, List, Describe, Decide, Resume, Submit,
   SavePrompt, Rendered, CreateJob, Queue, Complete, Piece, PiecesDone, Attach, DescribeCut, Attached, Ingest,
   CutResume, CutSubmit, SaveCutPrompt, CutRendered, CutAttach, Finish, Report,
   FailsRendering, FailsMissing, Fails

\* The cut of the source is changed by what attaches it.
LEMMA CutSteps ==
    ASSUME NEW o \in Ops, Step(o)
    PROVE  (\E r \in Roles : Attach(o, r)) \/ DescribeCut(o) \/ UNCHANGED <<asset, cut, keyed>>
BY DEF Step, chimera, Resumes, ReturnStored, Begin, List, Describe, Decide, Resume, Submit,
   SavePrompt, Rendered, CreateJob, Queue, Complete, Piece, PiecesDone, Attach, DescribeCut, Attached, Ingest,
   CutResume, CutSubmit, SaveCutPrompt, CutRendered, CutAttach, Finish, Report,
   FailsRendering, FailsMissing, Fails

\* Prompts are submitted at two places.
LEMMA ComfySteps ==
    ASSUME NEW o \in Ops, Step(o)
    PROVE  Submit(o) \/ CutSubmit(o) \/ UNCHANGED comfy
BY DEF Step, chimera, Resumes, ReturnStored, Begin, List, Describe, Decide, Resume, Submit,
   SavePrompt, Rendered, CreateJob, Queue, Complete, Piece, PiecesDone, Attach, DescribeCut, Attached, Ingest,
   CutResume, CutSubmit, SaveCutPrompt, CutRendered, CutAttach, Finish, Report,
   FailsRendering, FailsMissing, Fails

\* A state file is saved at three.
LEMMA FileSteps ==
    ASSUME NEW o \in Ops, Step(o)
    PROVE  SavePrompt(o) \/ SaveCutPrompt(o) \/ Finish(o) \/ UNCHANGED file
BY DEF Step, chimera, Resumes, ReturnStored, Begin, List, Describe, Decide, Resume, Submit,
   SavePrompt, Rendered, CreateJob, Queue, Complete, Piece, PiecesDone, Attach, DescribeCut, Attached, Ingest,
   CutResume, CutSubmit, SaveCutPrompt, CutRendered, CutAttach, Finish, Report,
   FailsRendering, FailsMissing, Fails

\* The count of faults goes up at most by one, and the history stays a truth value.
LEMMA HistorySteps ==
    ASSUME NEW o \in Ops, Step(o)
    PROVE  (UNCHANGED faults \/ Fault) /\ (UNCHANGED torn \/ torn' \in BOOLEAN)
BY DEF Step, chimera, Resumes, ReturnStored, Begin, List, Describe, Decide, Resume, Submit,
   SavePrompt, Rendered, CreateJob, Queue, Complete, Piece, PiecesDone, Attach, DescribeCut, Attached, Ingest,
   CutResume, CutSubmit, SaveCutPrompt, CutRendered, CutAttach, Finish, Report,
   FailsRendering, FailsMissing, Fails

\* A step of an operation leaves the runs of the others alone.
LEMMA OthersStay ==
    ASSUME Types, NEW o \in Ops, Step(o), NEW other \in Ops \ {o}
    PROVE  pc'[other] = pc[other] /\ run'[other] = run[other]
<1>. pc \in [Ops -> Places] /\ run \in [Ops -> Run]
     BY DEF Types
<1>1. ASSUME NEW from, NEW to, NEW mine, Go(o, from, to, mine)
      PROVE  pc'[other] = pc[other] /\ run'[other] = run[other]
      BY <1>1 DEF Go
<1>2. CASE Leaves(o)
      BY <1>2 DEF Leaves
<1>3. CASE \/ (\E v \in Releases : Begin(o, v)) \/ List(o) \/ Describe(o) \/ Decide(o)
           \/ Resume(o) \/ Submit(o) \/ Complete(o) \/ Piece(o)
      BY <1>1, <1>3 DEF Begin, List, Describe, Decide, Resume, Submit, Complete, Piece
<1>4. CASE CutResume(o) \/ CutSubmit(o) \/ CutRendered(o) \/ CutAttach(o)
      BY <1>1, <1>4 DEF CutResume, CutSubmit, CutRendered, CutAttach
<1>5. CASE \/ SavePrompt(o) \/ Rendered(o) \/ CreateJob(o) \/ Queue(o) \/ PiecesDone(o)
           \/ (\E r \in Roles : Attach(o, r)) \/ DescribeCut(o) \/ Attached(o)
           \/ Ingest(o) \/ SaveCutPrompt(o) \/ Finish(o)
      BY <1>1, <1>5 DEF Keep, SavePrompt, Rendered, CreateJob, Queue, PiecesDone, Attach,
         DescribeCut, Attached, Ingest, SaveCutPrompt, Finish
<1>6. CASE ReturnStored(o)
      BY <1>6 DEF ReturnStored
<1>7. CASE Report(o) \/ FailsRendering(o) \/ FailsMissing(o)
      BY <1>2, <1>7 DEF Report, FailsRendering, FailsMissing, Fails
<1>. QED
     BY <1>3, <1>4, <1>5, <1>6, <1>7 DEF Step

-----------------------------------------------------------------------------
(* The auxiliary invariant of the types: prompts are the operation's own.  *)

\* Where a run holds the prompt of its picture, and where that of its cut.
PicturePlaces == {"submitted", "wait", "create", "queue", "complete", "piece",
                  "attach", "ingest"}
CutPlaces     == {"cutsubmitted", "cutwait", "cutattach"}

\* The prompts in a state file and in a run's hands are the operation's own and
\* draw what it takes them for; a run knows its release, and a part of the cut to
\* attach while it attaches them.
RunsTrue ==
    \A o \in Ops :
        /\ file[o].prompt # None => Draws(file[o].prompt, o, "picture")
        /\ file[o].cutPrompt # None => Draws(file[o].cutPrompt, o, "cut")
        /\ pc[o] \in PicturePlaces => Draws(run[o].prompt, o, "picture")
        /\ pc[o] \in CutPlaces => Draws(run[o].prompt, o, "cut")
        /\ pc[o] # "off" => run[o].release \in Releases
        /\ pc[o] = "cutattach" => run[o].next <= Len(Results)

\* A run's variables keep their types one by one.
LEMMA RunUpdate ==
    ASSUME NEW x \in Run
    PROVE  /\ \A s \in SUBSET (Roles \cup {"cut"}) : [x EXCEPT !.seen = s] \in Run
           /\ \A s \in Cut : [x EXCEPT !.stored = s] \in Run
           /\ \A s \in SUBSET Roles : [x EXCEPT !.fresh = s] \in Run
           /\ \A p \in Nat : [x EXCEPT !.prompt = p] \in Run
           /\ \A n \in Nat \ {0} : [x EXCEPT !.next = n] \in Run
<1>1. \A s \in SUBSET (Roles \cup {"cut"}) : [x EXCEPT !.seen = s] \in Run
      BY DEF Run
<1>2. \A s \in Cut : [x EXCEPT !.stored = s] \in Run
      BY DEF Run
<1>3. \A s \in SUBSET Roles : [x EXCEPT !.fresh = s] \in Run
      BY DEF Run
<1>4. \A p \in Nat : [x EXCEPT !.prompt = p] \in Run
      BY DEF Run
<1>5. \A n \in Nat \ {0} : [x EXCEPT !.next = n] \in Run
      BY DEF Run
<1>. QED
     BY <1>1, <1>2, <1>3, <1>4, <1>5

\* A run that has just begun, or is over, has a run's variables.
LEMMA NoRunType ==
    ASSUME NEW v \in Releases \cup {None}
    PROVE  NoRun(v) \in Run
BY DEF NoRun, Run, Cut, None

\* Every step of an operation leaves it at a place, with a run's variables.
LEMMA RunStep ==
    ASSUME Types, NEW o \in Ops, Step(o)
    PROVE  pc' \in [Ops -> Places] /\ run' \in [Ops -> Run]
<1>. pc \in [Ops -> Places] /\ run \in [Ops -> Run] /\ run[o] \in Run
     BY DEF Types
<1>. Len(comfy) + 1 \in Nat
     BY LenProperties DEF Types
<1>. file[o].prompt \in Nat /\ file[o].cutPrompt \in Nat
     BY DEF Types, File
<1>. run[o].next + 1 \in Nat \ {0} /\ 1 \in Nat \ {0}
     BY DEF Run
<1>1. CASE ReturnStored(o)
      BY <1>1 DEF ReturnStored
<1>2. CASE \E v \in Releases : Begin(o, v)
      BY <1>2, NoRunType DEF Begin, Go, Places
<1>3. CASE List(o)
      BY <1>3, RunUpdate DEF List, Go, Places, Roles
<1>4. CASE Describe(o)
  <2>1. run[o].stored \in Cut /\ cut \in Cut
        BY DEF Run, Types
  <2>. QED
       BY <1>4, <2>1, RunUpdate DEF Describe, Go, Places
<1>5. CASE Decide(o)
  <2>1. {r \in Needs[o] : ~Reusable(o, r)} \in SUBSET Roles
        OBVIOUS
  <2>. QED
       BY <1>5, <2>1, RunUpdate DEF Decide, Go, Places
<1>6. CASE Resume(o)
      BY <1>6, RunUpdate DEF Resume, Go, Places
<1>7. CASE CutResume(o)
      BY <1>7, RunUpdate DEF CutResume, Go, Places
<1>8. CASE Submit(o)
      BY <1>8, RunUpdate DEF Submit, Go, Places
<1>9. CASE CutSubmit(o)
      BY <1>9, RunUpdate DEF CutSubmit, Go, Places
<1>10. CASE Complete(o)
      BY <1>10, RunUpdate DEF Complete, Go, Places
<1>11. CASE Piece(o)
      BY <1>11, RunUpdate DEF Piece, Go, Places
<1>12. CASE CutRendered(o)
      BY <1>12, RunUpdate DEF CutRendered, Go, Places
<1>13. CASE CutAttach(o)
      BY <1>13, RunUpdate DEF CutAttach, Go, Places
<1>14. CASE \/ SavePrompt(o) \/ Rendered(o) \/ CreateJob(o) \/ Queue(o)
           \/ PiecesDone(o) \/ (\E r \in Roles : Attach(o, r)) \/ DescribeCut(o)
           \/ Attached(o) \/ Ingest(o) \/ SaveCutPrompt(o) \/ Finish(o)
      BY <1>14 DEF SavePrompt, Rendered, CreateJob, Queue, PiecesDone, Attach, DescribeCut,
         Attached, Ingest, SaveCutPrompt, Finish, Keep, Go, Places
<1>15. CASE Report(o) \/ FailsRendering(o) \/ FailsMissing(o)
  <2>1. Leaves(o)
        BY <1>15 DEF Report, FailsRendering, FailsMissing, Fails
  <2>. QED
       BY <2>1, NoRunType DEF Leaves, Places
<1>. QED
     BY <1>1, <1>2, <1>3, <1>4, <1>5, <1>6, <1>7, <1>8, <1>9, <1>10, <1>11,
        <1>12, <1>13, <1>14, <1>15 DEF Step

-----------------------------------------------------------------------------
(* The prompts.                                                            *)

\* What a prompt was submitted for stays.
Same(q) ==
    /\ q \in DOMAIN comfy'
    /\ comfy'[q].op = comfy[q].op
    /\ comfy'[q].draws = comfy[q].draws
    /\ comfy'[q].makes = comfy[q].makes
    /\ comfy'[q].release = comfy[q].release

\* A submission adds its prompt and changes no other.
LEMMA SubmitsOne ==
    ASSUME comfy \in Seq(Prompt), NEW o \in Ops, run[o].release \in Releases, NEW p,
           NEW draws \in {"picture", "cut"}, NEW makes \in SUBSET Roles,
           Submits(o, p, draws, makes)
    PROVE  /\ comfy' \in Seq(Prompt)
           /\ \A q \in DOMAIN comfy : Same(q)
           /\ Len(comfy) + 1 \in DOMAIN comfy'
           /\ comfy'[Len(comfy) + 1] = [op |-> o, draws |-> draws, makes |-> makes,
                                        release |-> run[o].release, state |-> "queued"]
           /\ DOMAIN comfy' = DOMAIN comfy \cup {Len(comfy) + 1}
<1>. DEFINE new == [op |-> o, draws |-> draws, makes |-> makes,
                    release |-> run[o].release, state |-> "queued"]
<1>1. new \in Prompt
      BY DEF Prompt
<1>2. comfy' = Append(comfy, new)
      BY DEF Submits
<1>. HIDE DEF new
<1>3. /\ comfy' \in Seq(Prompt) /\ Len(comfy') = Len(comfy) + 1
      /\ comfy'[Len(comfy) + 1] = new
      /\ \A q \in 1..Len(comfy) : comfy'[q] = comfy[q]
      BY <1>1, <1>2, AppendProperties
<1>4. /\ Len(comfy) \in Nat /\ DOMAIN comfy = 1..Len(comfy)
      /\ DOMAIN comfy' = 1..Len(comfy')
      BY <1>3, LenProperties
<1>. QED
     BY <1>3, <1>4 DEF Same, new

\* The end of a prompt changes its state alone.
LEMMA EndsOne ==
    ASSUME comfy \in Seq(Prompt), NEW p \in DOMAIN comfy, NEW s \in {"success", "error"},
           Ends(p, s)
    PROVE  comfy' \in Seq(Prompt) /\ DOMAIN comfy' = DOMAIN comfy
           /\ \A q \in DOMAIN comfy : Same(q)
<1>1. DOMAIN comfy = 1..Len(comfy) /\ Len(comfy) \in Nat
      BY LenProperties
<1>2. comfy[p] \in Prompt
      BY <1>1, ElementOfSeq
<1>. DEFINE e == [comfy[p] EXCEPT !.state = s]
<1>3. /\ e \in Prompt /\ e.op = comfy[p].op /\ e.draws = comfy[p].draws
      /\ e.makes = comfy[p].makes /\ e.release = comfy[p].release
      BY <1>2 DEF Prompt
<1>4. comfy' = [comfy EXCEPT ![p] = e]
      BY DEF Ends
<1>. HIDE DEF e
<1>5. comfy' \in Seq(Prompt) /\ Len(comfy') = Len(comfy)
      /\ \A q \in 1..Len(comfy) : comfy'[q] = IF q = p THEN e ELSE comfy[q]
      BY <1>1, <1>3, <1>4, ExceptSeq
<1>6. DOMAIN comfy' = 1..Len(comfy')
      BY <1>5, LenProperties
<1>. QED
     BY <1>1, <1>3, <1>5, <1>6 DEF Same

\* So does the restart of ComfyUI.
LEMMA ForgetsAll ==
    ASSUME comfy \in Seq(Prompt), Forgets
    PROVE  comfy' \in Seq(Prompt) /\ DOMAIN comfy' = DOMAIN comfy
           /\ \A q \in DOMAIN comfy : Same(q)
<1>1. DOMAIN comfy = 1..Len(comfy) /\ Len(comfy) \in Nat
      BY LenProperties
<1>2. \A q \in 1..Len(comfy) : comfy[q] \in Prompt
      BY ElementOfSeq
<1>3. comfy' = [q \in 1..Len(comfy) |-> [comfy[q] EXCEPT !.state = "forgotten"]]
      BY <1>1 DEF Forgets
<1>4. \A q \in 1..Len(comfy) :
          /\ comfy'[q] = [comfy[q] EXCEPT !.state = "forgotten"]
          /\ comfy'[q] \in Prompt
      BY <1>2, <1>3 DEF Prompt
<1>5. comfy' \in [1..Len(comfy) -> Prompt]
      BY <1>3, <1>4
<1>6. comfy' \in Seq(Prompt)
      BY <1>1, <1>5, SeqDef
<1>7. DOMAIN comfy' = DOMAIN comfy
      BY <1>1, <1>3
<1>. QED
     BY <1>1, <1>2, <1>4, <1>6, <1>7 DEF Same, Prompt

\* Nothing that happens at ComfyUI or to a run touches anything else.
LEMMA TroubleSteps ==
    ASSUME Rendering \/ Trouble
    PROVE  /\ UNCHANGED <<job, pieces, result, keyed, asset, cut, file>>
           /\ \/ \E o \in Ops : (Fails(o) \/ Crash(o)) /\ UNCHANGED comfy
              \/ UNCHANGED <<row, pc, run>>
BY DEF Rendering, Trouble, Renders, Breaks, Ends, GivesUp, Fails, Crash, Forgets, chimera

\* It counts as a fault, or it is a prompt that renders.
LEMMA TroubleHistory ==
    ASSUME Rendering \/ Trouble
    PROVE  (UNCHANGED faults \/ Fault) /\ (UNCHANGED torn \/ torn' \in BOOLEAN)
BY DEF Rendering, Trouble, Renders, Breaks, Ends, GivesUp, Fails, Crash, Forgets

\* A prompt is a record.
LEMMA PromptRecord ==
    ASSUME Types, NEW p \in DOMAIN comfy
    PROVE  comfy[p] \in Prompt
BY ElementOfSeq, LenProperties DEF Types

\* Every prompt stays what it is.
LEMMA PromptsStay ==
    ASSUME Types, RunsTrue, Next
    PROVE  comfy' \in Seq(Prompt) /\ \A q \in DOMAIN comfy : Same(q)
<1>. comfy \in Seq(Prompt)
     BY DEF Types
<1>1. ASSUME UNCHANGED comfy
      PROVE  comfy' \in Seq(Prompt) /\ \A q \in DOMAIN comfy : Same(q)
      BY <1>1 DEF Same
<1>2. ASSUME NEW o \in Ops, Submit(o) \/ CutSubmit(o)
      PROVE  comfy' \in Seq(Prompt) /\ \A q \in DOMAIN comfy : Same(q)
  <2>1. run[o].release \in Releases /\ run[o].fresh \in SUBSET Roles
        BY <1>2 DEF Submit, CutSubmit, Go, RunsTrue, Types, Run
  <2>2. \/ Submits(o, file[o].prompt, "picture", run[o].fresh)
        \/ Submits(o, file[o].cutPrompt, "cut", Roles)
        BY <1>2 DEF Submit, CutSubmit
  <2>. QED
       BY <2>1, <2>2, SubmitsOne
<1>3. ASSUME NEW p \in DOMAIN comfy, Renders(p) \/ Breaks(p)
      PROVE  comfy' \in Seq(Prompt) /\ \A q \in DOMAIN comfy : Same(q)
  <2>1. Ends(p, "success") \/ Ends(p, "error")
        BY <1>3 DEF Renders, Breaks
  <2>. QED
       BY <2>1, EndsOne
<1>4. CASE Forgets
      BY <1>4, ForgetsAll
<1>5. ASSUME NEW o \in Ops, GivesUp(o) \/ Crash(o)
      PROVE  UNCHANGED comfy
      BY <1>5 DEF GivesUp, Fails, Crash
<1>. QED
     BY <1>1, <1>2, <1>3, <1>4, <1>5, ComfySteps DEF Next, Rendering, Trouble

\* The fields of a job keep their types one by one.
LEMMA JobUpdate ==
    ASSUME NEW x \in Job
    PROVE  \A s \in {"none", "new", "queued", "completed", "ingested"} :
               [x EXCEPT !.status = s] \in Job
BY DEF Job

\* So do those of a state file.
LEMMA FileUpdate ==
    ASSUME NEW x \in File
    PROVE  /\ \A p \in Nat : [x EXCEPT !.prompt = p] \in File
           /\ \A p \in Nat : [x EXCEPT !.cutPrompt = p] \in File
           /\ [x EXCEPT !.completed = TRUE] \in File
<1>1. \A p \in Nat : [x EXCEPT !.prompt = p] \in File
      BY DEF File
<1>2. \A p \in Nat : [x EXCEPT !.cutPrompt = p] \in File
      BY DEF File
<1>3. [x EXCEPT !.completed = TRUE] \in File
      BY DEF File
<1>. QED
     BY <1>1, <1>2, <1>3

\* Every step of an operation keeps the types.
LEMMA TypesStep ==
    ASSUME Types, RunsTrue, NEW o \in Ops, Step(o)
    PROVE  Types'
<1>. /\ run[o] \in Run /\ job[o] \in Job /\ file[o] \in File
     /\ run[o].prompt \in Nat /\ run[o].next \in Nat
     BY DEF Types, Run
<1>1. row' \in [Ops -> {"waits", "done", "failed"}]
      BY RowSteps DEF Types, ReturnStored, Report, Fails
<1>2. job' \in [Ops -> Job]
  <2>. job \in [Ops -> Job]
       BY DEF Types
  <2>1. CASE CreateJob(o)
        BY <2>1, JobUpdate DEF CreateJob
  <2>2. CASE Queue(o)
        BY <2>2 DEF Queue, Job
  <2>3. CASE Complete(o)
        BY <2>3, JobUpdate DEF Complete
  <2>4. CASE Ingest(o)
        BY <2>4, JobUpdate DEF Ingest
  <2>. QED
       BY <2>1, <2>2, <2>3, <2>4, JobSteps
<1>3. pieces' \in [Ops -> SUBSET Nat]
  <2>. pieces \in [Ops -> SUBSET Nat]
       BY DEF Types
  <2>1. CASE Piece(o)
        BY <2>1 DEF Piece
  <2>. QED
       BY <2>1, PieceSteps
<1>4. result' \in [Ops -> SUBSET {"alpha", "depth", "cut", "cutout"}]
  <2>. result \in [Ops -> SUBSET {"alpha", "depth", "cut", "cutout"}]
       BY DEF Types
  <2>1. CASE CutAttach(o)
    <3>1. run[o].next \in 1..4
      <4>1. pc[o] = "cutattach"
            BY <2>1 DEF CutAttach, Go
      <4>2. run[o].next <= Len(Results) /\ run[o].next \in Nat \ {0}
            BY <4>1 DEF RunsTrue, Run
      <4>. QED
           BY <4>2 DEF Results
    <3>2. Results[run[o].next] \in {"alpha", "depth", "cut", "cutout"}
          BY <3>1 DEF Results
    <3>. QED
         BY <2>1, <3>2 DEF CutAttach
  <2>. QED
       BY <2>1, PieceSteps
<1>5. keyed' \subseteq Ops \X (Roles \cup {"cut"})
  <2>. keyed \subseteq Ops \X (Roles \cup {"cut"})
       BY DEF Types
  <2>1. ASSUME NEW r \in Roles, Attach(o, r)
        PROVE  keyed' \subseteq Ops \X (Roles \cup {"cut"})
        BY <2>1 DEF Attach
  <2>2. CASE DescribeCut(o)
        BY <2>2 DEF DescribeCut
  <2>. QED
       BY <2>1, <2>2, CutSteps
<1>6. asset' \in Cut /\ cut' \in Cut
  <2>. asset \in Cut /\ cut \in Cut
       BY DEF Types
  <2>1. ASSUME NEW r \in Roles, Attach(o, r)
        PROVE  asset' \in Cut /\ cut' \in Cut
    <3>1. comfy[run[o].prompt].release \in Releases
          BY <2>1, PromptRecord DEF Attach, Keep, Go, RunsTrue, PicturePlaces, Draws, Prompt
    <3>. QED
         BY <2>1, <3>1 DEF Attach, Cut
  <2>2. CASE DescribeCut(o)
    <3>1. run[o].release \in Releases
          BY <2>2 DEF DescribeCut, Keep, Go, RunsTrue
    <3>2. Merged(o) \in Cut
          BY <3>1 DEF Merged, Cut, Types, Run
    <3>. QED
         BY <2>2, <3>2 DEF DescribeCut
  <2>. QED
       BY <2>1, <2>2, CutSteps
<1>7. comfy' \in Seq(Prompt)
      BY PromptsStay DEF Next
<1>8. pc' \in [Ops -> Places] /\ run' \in [Ops -> Run]
      BY RunStep
<1>9. file' \in [Ops -> File]
  <2>. file \in [Ops -> File]
       BY DEF Types
  <2>1. CASE SavePrompt(o)
        BY <2>1, FileUpdate DEF SavePrompt
  <2>2. CASE SaveCutPrompt(o)
        BY <2>2, FileUpdate DEF SaveCutPrompt
  <2>3. CASE Finish(o)
        BY <2>3, FileUpdate DEF Finish
  <2>. QED
       BY <2>1, <2>2, <2>3, FileSteps
<1>10. torn' \in BOOLEAN /\ faults' \in 0..MaxFaults
  <2>1. torn \in BOOLEAN /\ faults \in 0..MaxFaults
        BY DEF Types
  <2>2. faults' \in 0..MaxFaults
        BY <2>1, HistorySteps DEF Fault
  <2>. QED
       BY <2>1, <2>2, HistorySteps
<1>. QED
     BY <1>1, <1>2, <1>3, <1>4, <1>5, <1>6, <1>7, <1>8, <1>9, <1>10 DEF Types

\* A step goes where it says and takes the run's variables along.
LEMMA GoEffect ==
    ASSUME Types, NEW o \in Ops, NEW from, NEW to, NEW mine, Go(o, from, to, mine)
    PROVE  pc[o] = from /\ pc'[o] = to /\ run'[o] = mine
BY DEF Types, Go

\* Every step of an operation keeps the prompts its own.
LEMMA RunsStep ==
    ASSUME Types, RunsTrue, NEW o \in Ops, Step(o)
    PROVE  RunsTrue'
<1>. run[o] \in Run /\ file[o] \in File
     BY DEF Types
<1>1. \A q \in DOMAIN comfy : Same(q)
      BY PromptsStay DEF Next
<1>2. \A other \in Ops \ {o} :
          pc'[other] = pc[other] /\ run'[other] = run[other] /\ file'[other] = file[other]
  <2>1. \A other \in Ops \ {o} : file'[other] = file[other]
        BY FileSteps DEF Types, SavePrompt, SaveCutPrompt, Finish
  <2>. QED
       BY <2>1, OthersStay
<1>3. /\ file'[o].prompt # None => Draws(file[o].prompt, o, "picture")'
      /\ file'[o].cutPrompt # None => Draws(file[o].cutPrompt, o, "cut")'
  <2>1. CASE SavePrompt(o)
    <3>1. Draws(run[o].prompt, o, "picture") /\ run[o].prompt = run'[o].prompt
          BY <2>1 DEF SavePrompt, Keep, Go, RunsTrue, PicturePlaces, Types
    <3>2. file'[o].prompt = run[o].prompt /\ file'[o].cutPrompt = file[o].cutPrompt
          BY <2>1 DEF SavePrompt, Types, File
    <3>. QED
         BY <1>1, <3>1, <3>2 DEF RunsTrue, Draws, Same
  <2>2. CASE SaveCutPrompt(o)
    <3>1. Draws(run[o].prompt, o, "cut") /\ run[o].prompt = run'[o].prompt
          BY <2>2 DEF SaveCutPrompt, Keep, Go, RunsTrue, CutPlaces, Types
    <3>2. file'[o].cutPrompt = run[o].prompt /\ file'[o].prompt = file[o].prompt
          BY <2>2 DEF SaveCutPrompt, Types, File
    <3>. QED
         BY <1>1, <3>1, <3>2 DEF RunsTrue, Draws, Same
  <2>3. ASSUME Finish(o) \/ UNCHANGED file
        PROVE  file'[o].prompt = file[o].prompt /\ file'[o].cutPrompt = file[o].cutPrompt
        BY <2>3 DEF Finish, Types, File
  <2>. QED
       BY <1>1, <2>1, <2>2, <2>3, FileSteps DEF RunsTrue, Draws, Same
<1>4. /\ pc'[o] \in PicturePlaces => Draws(run[o].prompt, o, "picture")'
      /\ pc'[o] \in CutPlaces => Draws(run[o].prompt, o, "cut")'
      /\ pc'[o] # "off" => run'[o].release \in Releases
      /\ pc'[o] = "cutattach" => run'[o].next <= Len(Results)
  <2>. USE <1>1 DEF PicturePlaces, CutPlaces, RunsTrue
  <2>1. CASE ReturnStored(o)
        BY <2>1 DEF ReturnStored, Draws, Same
  <2>2. ASSUME NEW v \in Releases, Begin(o, v)
        PROVE  pc'[o] \in {"prompt", "list"} /\ run'[o].release \in Releases
        BY <2>2, GoEffect DEF Begin, NoRun
  <2>3. ASSUME List(o) \/ Describe(o) \/ Decide(o)
        PROVE  pc'[o] \in {"describe", "decide", "prompt"} /\ run'[o].release \in Releases
    <3>1. run[o] \in Run
          BY DEF Types
    <3>2. CASE List(o)
          BY <3>1, <3>2, GoEffect DEF List, Run
    <3>3. CASE Describe(o)
          BY <3>1, <3>3, GoEffect DEF Describe, Run
    <3>4. CASE Decide(o)
          BY <3>1, <3>4, GoEffect DEF Decide, Run
    <3>. QED
         BY <2>3, <3>2, <3>3, <3>4
  <2>4. CASE Resume(o)
    <3>1. /\ pc'[o] = "wait" /\ pc[o] = "prompt"
          /\ run'[o] = [run[o] EXCEPT !.prompt = file[o].prompt]
          BY <2>4, GoEffect DEF Resume
    <3>3. run'[o].prompt = file[o].prompt /\ run'[o].release = run[o].release
          BY <3>1 DEF Run
    <3>2. Draws(file[o].prompt, o, "picture")
          BY <2>4 DEF Resume, Resumes
    <3>. QED
         BY <3>1, <3>2, <3>3 DEF Draws, Same
  <2>5. CASE CutResume(o)
    <3>1. /\ pc'[o] = "cutwait" /\ run'[o].prompt = file[o].cutPrompt
          /\ run'[o].release = run[o].release /\ pc[o] = "cutprompt"
          BY <2>5, GoEffect DEF CutResume, Run
    <3>2. Draws(file[o].cutPrompt, o, "cut")
          BY <2>5 DEF CutResume, Resumes
    <3>. QED
         BY <3>1, <3>2 DEF Draws, Same
  <2>6. CASE Submit(o)
    <3>1. /\ pc'[o] = "submitted" /\ run'[o].prompt = Len(comfy) + 1
          /\ run'[o].release = run[o].release /\ pc[o] = "prompt"
          BY <2>6, GoEffect DEF Submit, Run
    <3>2. /\ comfy \in Seq(Prompt) /\ run[o].release \in Releases
          /\ run[o].fresh \in SUBSET Roles
          BY <3>1 DEF Types, Run
    <3>3. Submits(o, file[o].prompt, "picture", run[o].fresh)
          BY <2>6 DEF Submit
    <3>4. /\ Len(comfy) + 1 \in DOMAIN comfy'
          /\ comfy'[Len(comfy) + 1] = [op |-> o, draws |-> "picture", makes |-> run[o].fresh,
                                       release |-> run[o].release, state |-> "queued"]
      <4>. HIDE DEF RunsTrue
      <4>. QED
           BY <3>2, <3>3, SubmitsOne
    <3>5. comfy'[Len(comfy) + 1].op = o /\ comfy'[Len(comfy) + 1].draws = "picture"
          BY <3>4
    <3>. QED
         BY <3>1, <3>2, <3>4, <3>5 DEF Draws
  <2>7. CASE CutSubmit(o)
    <3>1. /\ pc'[o] = "cutsubmitted" /\ run'[o].prompt = Len(comfy) + 1
          /\ run'[o].release = run[o].release /\ pc[o] = "cutprompt"
      <4>1. Go(o, "cutprompt", "cutsubmitted", [run[o] EXCEPT !.prompt = Len(comfy) + 1])
            BY <2>7 DEF CutSubmit
      <4>2. /\ pc[o] = "cutprompt" /\ pc'[o] = "cutsubmitted"
            /\ run'[o] = [run[o] EXCEPT !.prompt = Len(comfy) + 1]
            BY <4>1, GoEffect
      <4>. QED
           BY <4>2 DEF Run
    <3>2. comfy \in Seq(Prompt) /\ run[o].release \in Releases /\ Roles \in SUBSET Roles
          BY <3>1 DEF Types
    <3>3. Submits(o, file[o].cutPrompt, "cut", Roles)
          BY <2>7 DEF CutSubmit
    <3>4. /\ Len(comfy) + 1 \in DOMAIN comfy'
          /\ comfy'[Len(comfy) + 1] = [op |-> o, draws |-> "cut", makes |-> Roles,
                                       release |-> run[o].release, state |-> "queued"]
      <4>. HIDE DEF RunsTrue
      <4>. QED
           BY <3>2, <3>3, SubmitsOne
    <3>5. comfy'[Len(comfy) + 1].op = o /\ comfy'[Len(comfy) + 1].draws = "cut"
          BY <3>4
    <3>. QED
         BY <3>1, <3>2, <3>4, <3>5 DEF Draws
  <2>8. CASE \/ SavePrompt(o) \/ Rendered(o) \/ CreateJob(o) \/ Queue(o)
             \/ PiecesDone(o) \/ (\E r \in Roles : Attach(o, r)) \/ DescribeCut(o)
             \/ Attached(o)
    <3>1. /\ pc[o] \in PicturePlaces /\ pc'[o] \in PicturePlaces /\ run'[o] = run[o]
          BY <2>8, GoEffect DEF SavePrompt, Rendered, CreateJob, Queue, PiecesDone, Attach,
             DescribeCut, Attached, Keep
    <3>. QED
         BY <3>1 DEF Draws, Same
  <2>9. CASE Complete(o) \/ Piece(o)
    <3>1. /\ pc[o] \in PicturePlaces /\ pc'[o] = "piece"
          /\ run'[o].prompt = run[o].prompt /\ run'[o].release = run[o].release
          BY <2>9, GoEffect DEF Complete, Piece, Run
    <3>. QED
         BY <3>1 DEF Draws, Same
  <2>10. CASE Ingest(o) \/ Finish(o)
    <3>1. pc[o] # "off" /\ pc'[o] \in {"cutprompt", "finish", "report"} /\ run'[o] = run[o]
          BY <2>10, GoEffect DEF Ingest, Finish, Keep
    <3>. QED
         BY <3>1
  <2>11. CASE SaveCutPrompt(o)
    <3>1. pc[o] = "cutsubmitted" /\ pc'[o] = "cutwait" /\ run'[o] = run[o]
          BY <2>11, GoEffect DEF SaveCutPrompt, Keep
    <3>. QED
         BY <3>1 DEF Draws, Same
  <2>12. CASE CutRendered(o)
    <3>1. /\ pc[o] = "cutwait" /\ pc'[o] = "cutattach"
          /\ run'[o] = [run[o] EXCEPT !.next = 1]
          BY <2>12, GoEffect DEF CutRendered
    <3>2. /\ run'[o].prompt = run[o].prompt /\ run'[o].release = run[o].release
          /\ run'[o].next = 1
          BY <3>1 DEF Types, Run
    <3>. QED
         BY <3>1, <3>2 DEF Draws, Same, Results
  <2>13. CASE CutAttach(o)
    <3>1. /\ pc[o] = "cutattach"
          /\ pc'[o] = IF run[o].next < Len(Results) THEN "cutattach" ELSE "finish"
          /\ run'[o].prompt = run[o].prompt
          /\ run'[o].release = run[o].release /\ run'[o].next = run[o].next + 1
      <4>1. Go(o, "cutattach",
               IF run[o].next < Len(Results) THEN "cutattach" ELSE "finish",
               [run[o] EXCEPT !.next = @ + 1])
            BY <2>13 DEF CutAttach
      <4>2. /\ pc[o] = "cutattach"
            /\ pc'[o] = IF run[o].next < Len(Results) THEN "cutattach" ELSE "finish"
            /\ run'[o] = [run[o] EXCEPT !.next = @ + 1]
            BY <4>1, GoEffect
      <4>. QED
           BY <4>2 DEF Run
    <3>2. run[o].next \in Nat /\ Len(Results) \in Nat
          BY DEF Run, Results
    <3>. QED
         BY <3>1, <3>2 DEF Draws, Same
  <2>14. ASSUME Report(o) \/ FailsRendering(o) \/ FailsMissing(o)
         PROVE  pc'[o] = "off"
         BY <2>14 DEF Report, FailsRendering, FailsMissing, Fails, Leaves, Types
  <2>. QED
       BY <2>1, <2>2, <2>3, <2>4, <2>5, <2>6, <2>7, <2>8, <2>9, <2>10, <2>11, <2>12,
          <2>13, <2>14 DEF Step
<1>5. ASSUME NEW other \in Ops \ {o}
      PROVE  /\ file'[other].prompt # None => Draws(file[other].prompt, other, "picture")'
             /\ file'[other].cutPrompt # None => Draws(file[other].cutPrompt, other, "cut")'
             /\ pc'[other] \in PicturePlaces => Draws(run[other].prompt, other, "picture")'
             /\ pc'[other] \in CutPlaces => Draws(run[other].prompt, other, "cut")'
             /\ pc'[other] # "off" => run'[other].release \in Releases
             /\ pc'[other] = "cutattach" => run'[other].next <= Len(Results)
      BY <1>1, <1>2 DEF RunsTrue, Draws, Same
<1>. QED
     BY <1>3, <1>4, <1>5 DEF RunsTrue

\* What happens at ComfyUI, or to a run that is killed or gives up, keeps both.
LEMMA TroubleStep ==
    ASSUME Types, RunsTrue, Rendering \/ Trouble
    PROVE  Types' /\ RunsTrue'
<1>1. comfy' \in Seq(Prompt) /\ \A q \in DOMAIN comfy : Same(q)
      BY PromptsStay DEF Next
<1>2. CASE UNCHANGED <<row, pc, run>>
  <2>1. UNCHANGED <<row, job, pieces, result, keyed, asset, cut, file, pc, run>>
        BY <1>2, TroubleSteps
  <2>2. torn' \in BOOLEAN /\ faults' \in 0..MaxFaults
        BY TroubleHistory DEF Types, Fault
  <2>3. Types'
        BY <1>1, <2>1, <2>2 DEF Types
  <2>4. RunsTrue'
        BY <1>1, <2>1 DEF RunsTrue, Draws, Same
  <2>. QED
       BY <2>3, <2>4
<1>3. ASSUME NEW o \in Ops, Fails(o) \/ Crash(o), UNCHANGED comfy
      PROVE  Types' /\ RunsTrue'
  <2>1. UNCHANGED <<job, pieces, result, keyed, asset, cut, file>>
        BY TroubleSteps
  <2>2. torn' \in BOOLEAN /\ faults' \in 0..MaxFaults
        BY TroubleHistory DEF Types, Fault
  <2>3. row' \in [Ops -> {"waits", "done", "failed"}]
        BY <1>3 DEF Types, Fails, Crash
  <2>4. /\ pc' = [pc EXCEPT ![o] = "off"] /\ run' = [run EXCEPT ![o] = NoRun(None)]
        BY <1>3 DEF Fails, Crash, Leaves
  <2>5. pc' \in [Ops -> Places] /\ run' \in [Ops -> Run]
        BY <2>4, NoRunType DEF Types, Places
  <2>6. Types'
        BY <1>1, <2>1, <2>2, <2>3, <2>5 DEF Types
  <2>7. \A q \in Ops : pc'[q] # "off" => pc'[q] = pc[q] /\ run'[q] = run[q]
        BY <2>4 DEF Types
  <2>8. RunsTrue'
        BY <1>3, <2>1, <2>7 DEF RunsTrue, Draws, PicturePlaces, CutPlaces
  <2>. QED
       BY <2>6, <2>8
<1>. QED
     BY <1>2, <1>3, TroubleSteps

\* The types, with what makes them inductive.
TypeInv == Types /\ RunsTrue

\* At the start there is no run, no prompt and no file.
LEMMA TypeInit ==
    ASSUME Init
    PROVE  TypeInv
<1>1. NoRun(None) \in Run
      BY NoRunType
<1>2. asset \in Cut /\ cut \in Cut
      BY DEF Init, Cut
<1>3. Types
  <2>1. comfy \in Seq(Prompt)
        BY EmptySeq DEF Init
  <2>2. job \in [Ops -> Job] /\ file \in [Ops -> File]
        BY DEF Init, Job, File, NoFile, None
  <2>3. pc \in [Ops -> Places] /\ run \in [Ops -> Run]
        BY <1>1 DEF Init, Places
  <2>4. /\ row \in [Ops -> {"waits", "done", "failed"}]
        /\ pieces \in [Ops -> SUBSET Nat]
        /\ result \in [Ops -> SUBSET {"alpha", "depth", "cut", "cutout"}]
        /\ keyed \subseteq Ops \X (Roles \cup {"cut"})
        /\ torn \in BOOLEAN
        BY DEF Init
  <2>5. faults \in 0..MaxFaults
        BY DEF Init
  <2>. QED
       BY <1>2, <2>1, <2>2, <2>3, <2>4, <2>5 DEF Types
<1>4. RunsTrue
      BY DEF Init, RunsTrue, NoFile, PicturePlaces, CutPlaces
<1>. QED
     BY <1>3, <1>4 DEF TypeInv

\* Every step keeps both.
LEMMA TypeStep ==
    ASSUME TypeInv, [Next]_vars
    PROVE  TypeInv'
<1>1. CASE Next
      BY <1>1, TypesStep, RunsStep, TroubleStep DEF Next, TypeInv
<1>2. CASE UNCHANGED vars
      BY <1>2 DEF vars, chimera, TypeInv, Types, RunsTrue, Draws
<1>. QED
     BY <1>1, <1>2

\* So they hold throughout.
LEMMA TypeInvHolds == Spec => []TypeInv
BY TypeInit, TypeStep, PTL DEF Spec

\* Every variable has its type, and a run that waits, waits for a prompt of its own
\* operation that draws what it goes on to record, whatever was killed and resumed.
THEOREM TypeCorrect == Spec => []TypeOK
<1>1. TypeInv => TypeOK
      BY DEF TypeInv, TypeOK, RunsTrue, PicturePlaces, CutPlaces
<1>. QED
     BY <1>1, TypeInvHolds, PTL

-----------------------------------------------------------------------------
(* The cut of the source describes only what is there.                     *)

\* Which roles a run has seen changes when it lists them, which it has to cut
\* when it decides; both are gone with the run.
LEMMA FieldSteps ==
    ASSUME Types, NEW o \in Ops, Step(o)
    PROVE  /\ List(o) \/ run'[o].seen \in {run[o].seen, {}}
           /\ Decide(o) \/ run'[o].fresh \in {run[o].fresh, {}}
<1>. run[o] \in Run
     BY DEF Types
<1>1. ASSUME NEW v, run'[o] = NoRun(v)
      PROVE  run'[o].seen = {} /\ run'[o].fresh = {}
      BY <1>1 DEF NoRun
<1>2. CASE \E v \in Releases : Begin(o, v)
      BY <1>1, <1>2, GoEffect DEF Begin
<1>3. CASE List(o)
  <2>1. run'[o].fresh = run[o].fresh
        BY <1>3, GoEffect DEF List, Run
  <2>. QED
       BY <1>3, <2>1
<1>4. CASE Decide(o)
  <2>1. run'[o].seen = run[o].seen
        BY <1>4, GoEffect DEF Decide, Run
  <2>. QED
       BY <1>4, <2>1
<1>5. CASE Describe(o)
      BY <1>5, GoEffect DEF Describe, Run
<1>6. CASE Resume(o)
      BY <1>6, GoEffect DEF Resume, Run
<1>7. CASE Submit(o)
      BY <1>7, GoEffect DEF Submit, Run
<1>8. CASE CutResume(o)
      BY <1>8, GoEffect DEF CutResume, Run
<1>9. CASE CutSubmit(o)
      BY <1>9, GoEffect DEF CutSubmit, Run
<1>10. CASE Complete(o)
       BY <1>10, GoEffect DEF Complete, Run
<1>11. CASE Piece(o)
       BY <1>11, GoEffect DEF Piece, Run
<1>12. CASE CutRendered(o)
       BY <1>12, GoEffect DEF CutRendered, Run
<1>13. CASE CutAttach(o)
       BY <1>13, GoEffect DEF CutAttach, Run
<1>14. CASE \/ ReturnStored(o) \/ SavePrompt(o) \/ Rendered(o) \/ CreateJob(o) \/ Queue(o)
            \/ PiecesDone(o) \/ (\E r \in Roles : Attach(o, r)) \/ DescribeCut(o)
            \/ Attached(o) \/ Ingest(o) \/ SaveCutPrompt(o) \/ Finish(o)
  <2>1. run'[o] = run[o]
        BY <1>14, GoEffect DEF ReturnStored, SavePrompt, Rendered, CreateJob, Queue,
           PiecesDone, Attach, DescribeCut, Attached, Ingest, SaveCutPrompt, Finish, Keep
  <2>. QED
       BY <2>1
<1>15. CASE Report(o) \/ FailsRendering(o) \/ FailsMissing(o)
  <2>1. run'[o] = NoRun(None)
        BY <1>15 DEF Report, FailsRendering, FailsMissing, Fails, Leaves, Types
  <2>. QED
       BY <1>1, <2>1
<1>. QED
     BY <1>2, <1>3, <1>4, <1>5, <1>6, <1>7, <1>8, <1>9, <1>10, <1>11, <1>12, <1>13, <1>14,
        <1>15 DEF Step

\* What a run has seen on the source, and what it has attached to it, is there.
SeenIsThere ==
    \A o \in Ops, r \in Roles : r \in run[o].seen \/ <<o, r>> \in keyed => asset[r] # None

\* What the cut describes is there, with what makes that inductive.
CutInv == TypeInv /\ SeenIsThere /\ CutHasPictures

\* A picture attached to the source is replaced, never taken away.
LEMMA AssetsStay ==
    ASSUME TypeInv, NEW o \in Ops, Step(o)
    PROVE  /\ \A r \in Roles : asset[r] # None => asset'[r] # None
           /\ \A r \in Roles : Attach(o, r) => asset'[r] # None
<1>1. ASSUME NEW r \in Roles, Attach(o, r)
      PROVE  asset'[r] # None /\ \A x \in Roles \ {r} : asset'[x] = asset[x]
  <2>1. Draws(run[o].prompt, o, "picture")
        BY <1>1 DEF Attach, Keep, Go, TypeInv, RunsTrue, PicturePlaces
  <2>2. comfy[run[o].prompt].release \in Releases
        BY <2>1, PromptRecord DEF TypeInv, Draws, Prompt
  <2>3. comfy[run[o].prompt].release # None
        BY <2>2 DEF None
  <2>. QED
       BY <1>1, <2>3 DEF Attach, TypeInv, Types, Cut
<1>2. CASE DescribeCut(o)
      BY <1>1, <1>2 DEF DescribeCut
<1>. QED
     BY <1>1, <1>2, CutSteps

\* Every step of an operation keeps what the cut describes in place.
LEMMA CutStep ==
    ASSUME CutInv, NEW o \in Ops, Step(o)
    PROVE  SeenIsThere' /\ CutHasPictures'
<1>. TypeInv /\ Types /\ SeenIsThere /\ CutHasPictures
     BY DEF CutInv, TypeInv
<1>1. ASSUME NEW r \in Roles, r \in run'[o].seen
      PROVE  asset[r] # None
  <2>1. CASE List(o)
    <3>1. run'[o] = [run[o] EXCEPT !.seen =
              {x \in Roles : asset[x] # None} \cup (IF Described THEN {"cut"} ELSE {})]
          BY <2>1, GoEffect DEF List
    <3>2. r # "cut"
          BY DEF Roles
    <3>. QED
         BY <1>1, <3>1, <3>2 DEF Types, Run
  <2>. QED
       BY <1>1, <2>1, FieldSteps DEF SeenIsThere
<1>2. ASSUME NEW other \in Ops, NEW r \in Roles,
             <<other, r>> \in keyed', <<other, r>> \notin keyed
      PROVE  asset'[r] # None
  <2>1. ASSUME NEW x \in Roles, Attach(o, x)
        PROVE  asset'[r] # None
    <3>1. keyed' = keyed \cup {<<o, x>>}
          BY <2>1 DEF Attach
    <3>2. r = x
          BY <1>2, <3>1
    <3>. QED
         BY <2>1, <3>2, AssetsStay
  <2>2. CASE DescribeCut(o)
    <3>1. keyed' = keyed \cup {<<o, "cut">>} /\ r # "cut"
          BY <2>2 DEF DescribeCut, Roles
    <3>. QED
         BY <1>2, <3>1
  <2>. QED
       BY <1>2, <2>1, <2>2, CutSteps
<1>3. SeenIsThere'
  <2>1. ASSUME NEW other \in Ops, NEW r \in Roles, r \in run'[other].seen
        PROVE  asset'[r] # None
        BY <1>1, <2>1, OthersStay, AssetsStay DEF SeenIsThere
  <2>2. ASSUME NEW other \in Ops, NEW r \in Roles, <<other, r>> \in keyed'
        PROVE  asset'[r] # None
        BY <1>2, <2>2, AssetsStay DEF SeenIsThere
  <2>. QED
       BY <2>1, <2>2 DEF SeenIsThere
<1>4. CutHasPictures'
  <2>1. CASE DescribeCut(o)
    <3>1. /\ cut' = Merged(o) /\ asset' = asset
          /\ \A r \in run[o].fresh : <<o, r>> \in keyed
          BY <2>1 DEF DescribeCut
    <3>2. ASSUME NEW r \in Roles, Merged(o)[r] # None
          PROVE  r \in run[o].fresh \/ r \in run[o].seen
          BY <3>2 DEF Merged
    <3>. QED
         BY <3>1, <3>2 DEF CutHasPictures, SeenIsThere
  <2>2. ASSUME UNCHANGED cut
        PROVE  CutHasPictures'
        BY <2>2, AssetsStay DEF CutHasPictures
  <2>3. ASSUME NEW r \in Roles, Attach(o, r)
        PROVE  UNCHANGED cut
        BY <2>3 DEF Attach
  <2>. QED
       BY <2>1, <2>2, <2>3, CutSteps
<1>. QED
     BY <1>3, <1>4

\* A run that ends has seen nothing any more.
LEMMA RunsEnd ==
    ASSUME Types, Rendering \/ Trouble
    PROVE  \A o \in Ops :
               \/ pc'[o] = pc[o] /\ run'[o] = run[o]
               \/ pc'[o] = "off" /\ run'[o] = NoRun(None)
<1>1. ASSUME NEW o \in Ops, Fails(o) \/ Crash(o)
      PROVE  pc' = [pc EXCEPT ![o] = "off"] /\ run' = [run EXCEPT ![o] = NoRun(None)]
      BY <1>1 DEF Fails, Crash, Leaves
<1>. QED
     BY <1>1, TroubleSteps DEF Types

\* The cut of the source stays in place throughout.
LEMMA CutInvHolds == Spec => []CutInv
<1>1. Init => CutInv
  <2>1. Init => SeenIsThere /\ CutHasPictures
        BY DEF Init, SeenIsThere, CutHasPictures, NoRun
  <2>. QED
       BY <2>1, TypeInit DEF CutInv
<1>2. CutInv /\ [Next]_vars => CutInv'
  <2>. SUFFICES ASSUME CutInv, [Next]_vars
                PROVE  CutInv'
       OBVIOUS
  <2>1. TypeInv' /\ Types
        BY TypeStep DEF CutInv, TypeInv
  <2>2. CASE \E o \in Ops : Step(o)
        BY <2>1, <2>2, CutStep DEF CutInv
  <2>3. CASE Rendering \/ Trouble
    <3>1. \A o \in Ops : run'[o].seen \in {run[o].seen, {}}
          BY <2>1, <2>3, RunsEnd DEF NoRun
    <3>2. UNCHANGED <<keyed, asset, cut>>
          BY <2>3, TroubleSteps
    <3>. QED
         BY <2>1, <3>1, <3>2 DEF CutInv, SeenIsThere, CutHasPictures
  <2>4. CASE UNCHANGED vars
        BY <2>1, <2>4 DEF vars, chimera, CutInv, SeenIsThere, CutHasPictures
  <2>. QED
       BY <2>2, <2>3, <2>4 DEF Next
<1>. QED
     BY <1>1, <1>2, PTL DEF Spec

\* The cut of the source describes only pictures that are there, for any
\* operations of any releases, wherever they are killed.
THEOREM CutSafe == Spec => []CutHasPictures
<1>1. CutInv => CutHasPictures
      BY DEF CutInv
<1>. QED
     BY <1>1, CutInvHolds, PTL

-----------------------------------------------------------------------------
(* An ingested job has everything its prompt drew.                         *)

\* A prompt for a picture cuts only what its operation needs.
CutsAsNeeded ==
    \A p \in DOMAIN comfy :
        comfy[p].draws = "picture" => comfy[p].makes \subseteq Needs[comfy[p].op]

\* All the pictures and layers, and every role needed, are there.
Whole(o) ==
    /\ Draws(job[o].prompt, o, "picture")
    /\ pieces[o] = 1..Pieces[o]
    /\ \A r \in Needs[o] : asset[r] # None

\* What a run has to cut and what is there make up what it needs; the pieces come
\* one after the other; and an ingested job is whole.
Progress(o) ==
    /\ run[o].fresh \subseteq Needs[o]
    /\ pc[o] \in PicturePlaces \cup {"prompt"} =>
           \A r \in Needs[o] \ run[o].fresh : asset[r] # None
    /\ pieces[o] \subseteq 1..Pieces[o]
    /\ pc[o] = "piece" => 1..(run[o].next - 1) \subseteq pieces[o]
    /\ pc[o] = "attach" => pieces[o] = 1..Pieces[o]
    /\ pc[o] \in {"complete", "piece", "attach"} => Draws(job[o].prompt, o, "picture")
    /\ pc[o] = "ingest" => Whole(o)
    /\ job[o].status = "ingested" => Whole(o)

\* What an ingested job has, with what makes that inductive.
WholeInv == CutInv /\ CutsAsNeeded /\ \A o \in Ops : Progress(o)

\* A step of one operation keeps the progress of another.
LEMMA OthersProgress ==
    ASSUME WholeInv, NEW o \in Ops, Step(o), NEW other \in Ops \ {o}
    PROVE  Progress(other)'
<1>. Types /\ TypeInv /\ RunsTrue /\ Progress(other)
     BY DEF WholeInv, CutInv, TypeInv
<1>1. pc'[other] = pc[other] /\ run'[other] = run[other]
      BY OthersStay
<1>2. job'[other] = job[other]
      BY JobSteps DEF Types, CreateJob, Queue, Complete, Ingest
<1>3. pieces'[other] = pieces[other]
      BY PieceSteps DEF Types, Piece
<1>4. \A r \in Roles : asset[r] # None => asset'[r] # None
      BY AssetsStay
<1>5. \A q \in DOMAIN comfy : Same(q)
      BY PromptsStay DEF Next
<1>6. Whole(other) => Whole(other)'
      BY <1>2, <1>3, <1>4, <1>5 DEF Whole, Draws, Same
<1>7. Draws(job[other].prompt, other, "picture") => Draws(job[other].prompt, other, "picture")'
      BY <1>2, <1>5 DEF Draws, Same
<1>. QED
     BY <1>1, <1>2, <1>3, <1>4, <1>6, <1>7 DEF Progress

\* A submission for a picture asks for what its run has to cut.
LEMMA CutsStep ==
    ASSUME WholeInv, NEW o \in Ops, Step(o)
    PROVE  CutsAsNeeded'
<1>. Types /\ RunsTrue /\ CutsAsNeeded /\ run[o].fresh \subseteq Needs[o]
     BY DEF WholeInv, CutInv, TypeInv, Progress
<1>. comfy \in Seq(Prompt) /\ run[o].fresh \in SUBSET Roles
     BY DEF Types, Run
<1>1. CASE Submit(o)
  <2>1. run[o].release \in Releases
        BY <1>1 DEF Submit, Go, RunsTrue
  <2>2. Submits(o, file[o].prompt, "picture", run[o].fresh)
        BY <1>1 DEF Submit
  <2>3. /\ \A q \in DOMAIN comfy : Same(q)
        /\ comfy'[Len(comfy) + 1] = [op |-> o, draws |-> "picture", makes |-> run[o].fresh,
                                     release |-> run[o].release, state |-> "queued"]
        /\ DOMAIN comfy' = DOMAIN comfy \cup {Len(comfy) + 1}
        BY <2>1, <2>2, SubmitsOne
  <2>. QED
       BY <2>3 DEF CutsAsNeeded, Same
<1>2. CASE CutSubmit(o)
  <2>1. run[o].release \in Releases /\ Roles \in SUBSET Roles
        BY <1>2 DEF CutSubmit, Go, RunsTrue
  <2>2. Submits(o, file[o].cutPrompt, "cut", Roles)
        BY <1>2 DEF CutSubmit
  <2>3. /\ \A q \in DOMAIN comfy : Same(q)
        /\ comfy'[Len(comfy) + 1] = [op |-> o, draws |-> "cut", makes |-> Roles,
                                     release |-> run[o].release, state |-> "queued"]
        /\ DOMAIN comfy' = DOMAIN comfy \cup {Len(comfy) + 1}
        BY <2>1, <2>2, SubmitsOne
  <2>. QED
       BY <2>3 DEF CutsAsNeeded, Same
<1>3. CASE UNCHANGED comfy
      BY <1>3 DEF CutsAsNeeded
<1>. QED
     BY <1>1, <1>2, <1>3, ComfySteps

\* A step of an operation keeps its own progress.
LEMMA ProgressStep ==
    ASSUME WholeInv, NEW o \in Ops, Step(o)
    PROVE  Progress(o)'
<1>. TypeInv /\ Types /\ RunsTrue /\ SeenIsThere /\ Progress(o)
     BY DEF WholeInv, CutInv, TypeInv
<1>. run[o] \in Run /\ job[o] \in Job
     BY DEF Types
<1>1. \A r \in Roles : asset[r] # None => asset'[r] # None
      BY AssetsStay
<1>2. \A q \in DOMAIN comfy : Same(q)
      BY PromptsStay DEF Next
<1>3. ASSUME UNCHANGED job, UNCHANGED pieces
      PROVE  /\ Whole(o) => Whole(o)'
             /\ Draws(job[o].prompt, o, "picture") => Draws(job[o].prompt, o, "picture")'
      BY <1>1, <1>2, <1>3 DEF Whole, Draws, Same
<1>4. ASSUME UNCHANGED job, UNCHANGED pieces, run'[o].fresh \in {run[o].fresh, {}},
             pc'[o] \notin PicturePlaces \cup {"prompt"}
      PROVE  Progress(o)'
      BY <1>3, <1>4 DEF Progress, PicturePlaces
<1>5. ASSUME UNCHANGED job, UNCHANGED pieces, run'[o].fresh = run[o].fresh,
             pc[o] \in PicturePlaces \cup {"prompt"},
             pc'[o] \in {"submitted", "wait", "create", "queue"}
      PROVE  Progress(o)'
      BY <1>1, <1>3, <1>5 DEF Progress, PicturePlaces
<1>6. CASE ReturnStored(o)
      BY <1>6 DEF ReturnStored, Progress, PicturePlaces, Whole, Draws, chimera
<1>7. ASSUME NEW v \in Releases, Begin(o, v)
      PROVE  Progress(o)'
  <2>1. /\ pc'[o] = IF Needs[o] = {} THEN "prompt" ELSE "list"
        /\ run'[o].fresh = {} /\ UNCHANGED job /\ UNCHANGED pieces
        BY <1>7, GoEffect DEF Begin, NoRun, chimera
  <2>. QED
       BY <1>3, <2>1 DEF Progress, PicturePlaces
<1>8. CASE List(o) \/ Describe(o)
  <2>1. /\ pc'[o] \in {"describe", "decide"} /\ UNCHANGED job /\ UNCHANGED pieces
        /\ run'[o].fresh = run[o].fresh
        BY <1>8, GoEffect DEF List, Describe, Run, chimera
  <2>. QED
       BY <1>4, <2>1 DEF PicturePlaces
<1>9. CASE Decide(o)
  <2>1. /\ pc'[o] = "prompt" /\ UNCHANGED job /\ UNCHANGED pieces /\ UNCHANGED asset
        /\ run'[o].fresh = {r \in Needs[o] : ~Reusable(o, r)}
        BY <1>9, GoEffect DEF Decide, Run, chimera
  <2>2. \A r \in Needs[o] \ run'[o].fresh : asset[r] # None
        BY <2>1 DEF Reusable, SeenIsThere
  <2>. QED
       BY <1>3, <2>1, <2>2 DEF Progress, PicturePlaces
<1>10. CASE Resume(o) \/ Submit(o)
  <2>1. /\ pc[o] = "prompt" /\ pc'[o] \in {"wait", "submitted"}
        /\ UNCHANGED job /\ UNCHANGED pieces
        BY <1>10, GoEffect DEF Resume, Submit, chimera
  <2>2. run'[o].fresh = run[o].fresh
    <3>1. CASE Resume(o)
          BY <3>1, GoEffect DEF Resume, Run
    <3>2. CASE Submit(o)
          BY <3>2, GoEffect DEF Submit, Run
    <3>. QED
         BY <1>10, <3>1, <3>2
  <2>. QED
       BY <1>5, <2>1, <2>2
<1>11. CASE SavePrompt(o) \/ Rendered(o)
  <2>1. /\ pc[o] \in {"submitted", "wait"} /\ pc'[o] \in {"wait", "create"}
        /\ run'[o] = run[o] /\ UNCHANGED job /\ UNCHANGED pieces
        BY <1>11, GoEffect DEF SavePrompt, Rendered, Keep, chimera
  <2>. QED
       BY <1>5, <2>1 DEF PicturePlaces
<1>12. CASE CreateJob(o)
  <2>1. /\ pc[o] = "create" /\ pc'[o] = "queue" /\ run'[o] = run[o]
        /\ UNCHANGED pieces /\ UNCHANGED asset
        BY <1>12, GoEffect DEF CreateJob, Keep
  <2>2. job'[o].status = "ingested" => job'[o] = job[o]
        BY <1>12 DEF CreateJob, Types, Job
  <2>. QED
       BY <1>2, <2>1, <2>2 DEF Progress, PicturePlaces, Whole, Draws, Same
<1>13. CASE Queue(o)
  <2>1. /\ pc[o] = "queue" /\ pc'[o] = "complete" /\ run'[o] = run[o]
        /\ UNCHANGED pieces /\ UNCHANGED asset
        BY <1>13, GoEffect DEF Queue, Keep
  <2>2. job'[o] = [status |-> "queued", prompt |-> run[o].prompt]
        BY <1>13 DEF Queue, Types
  <2>3. Draws(run[o].prompt, o, "picture")
        BY <2>1 DEF RunsTrue, PicturePlaces
  <2>. QED
       BY <1>2, <2>1, <2>2, <2>3 DEF Progress, PicturePlaces, Draws, Same
<1>14. CASE Complete(o)
  <2>1. /\ pc[o] = "complete" /\ pc'[o] = "piece"
        /\ run'[o] = [run[o] EXCEPT !.next = 1] /\ UNCHANGED pieces /\ UNCHANGED asset
        BY <1>14, GoEffect DEF Complete
  <2>2. run'[o].fresh = run[o].fresh /\ run'[o].next = 1
        BY <2>1 DEF Run
  <2>3. job'[o].status = "completed" /\ job'[o].prompt = job[o].prompt
        BY <1>14 DEF Complete, Types, Job
  <2>4. 1..(1 - 1) = {}
        OBVIOUS
  <2>. QED
       BY <1>2, <2>1, <2>2, <2>3, <2>4 DEF Progress, PicturePlaces, Draws, Same
<1>15. CASE Piece(o)
  <2>1. /\ pc[o] = "piece" /\ pc'[o] = "piece"
        /\ run'[o] = [run[o] EXCEPT !.next = @ + 1] /\ UNCHANGED job /\ UNCHANGED asset
        BY <1>15, GoEffect DEF Piece
  <2>2. /\ run'[o].fresh = run[o].fresh /\ run'[o].next = run[o].next + 1
        /\ run[o].next \in 1..Pieces[o]
        BY <1>15, <2>1 DEF Run, Piece
  <2>3. pieces'[o] = pieces[o] \cup {run[o].next}
        BY <1>15 DEF Piece, Types
  <2>4. 1..(run'[o].next - 1) \subseteq pieces'[o] /\ pieces'[o] \subseteq 1..Pieces[o]
        BY <2>1, <2>2, <2>3 DEF Progress
  <2>5. Whole(o) => Whole(o)'
        BY <1>2, <2>1, <2>2, <2>3 DEF Whole, Draws, Same
  <2>. QED
       BY <1>2, <2>1, <2>2, <2>4, <2>5 DEF Progress, PicturePlaces, Draws, Same
<1>16. CASE PiecesDone(o)
  <2>1. /\ pc[o] = "piece" /\ pc'[o] = "attach" /\ run'[o] = run[o]
        /\ UNCHANGED job /\ UNCHANGED pieces /\ UNCHANGED asset
        BY <1>16, GoEffect DEF PiecesDone, Keep, chimera
  <2>2. pieces[o] = 1..Pieces[o]
    <3>1. run[o].next > Pieces[o] /\ run[o].next \in Nat
          BY <1>16 DEF PiecesDone, Run
    <3>2. 1..Pieces[o] \subseteq 1..(run[o].next - 1)
          BY <3>1
    <3>3. 1..(run[o].next - 1) \subseteq pieces[o] /\ pieces[o] \subseteq 1..Pieces[o]
          BY <2>1 DEF Progress
    <3>. QED
         BY <3>2, <3>3
  <2>. QED
       BY <1>3, <2>1, <2>2 DEF Progress, PicturePlaces
<1>17. CASE (\E r \in Roles : Attach(o, r)) \/ DescribeCut(o)
  <2>1. /\ pc[o] = "attach" /\ pc'[o] = "attach" /\ run'[o] = run[o]
        /\ UNCHANGED job /\ UNCHANGED pieces
        BY <1>17, GoEffect DEF Attach, DescribeCut, Keep
  <2>. QED
       BY <1>1, <1>3, <2>1 DEF Progress, PicturePlaces
<1>18. CASE Attached(o)
  <2>1. /\ pc[o] = "attach" /\ pc'[o] = "ingest" /\ run'[o] = run[o]
        /\ UNCHANGED job /\ UNCHANGED pieces /\ UNCHANGED asset
        BY <1>18, GoEffect DEF Attached, Keep, chimera
  <2>2. \A r \in run[o].fresh : asset[r] # None
    <3>1. run[o].fresh \subseteq Roles
          BY DEF Run
    <3>. QED
         BY <1>18, <3>1 DEF Attached, SeenIsThere
  <2>3. Whole(o)
        BY <2>1, <2>2 DEF Progress, PicturePlaces, Whole
  <2>. QED
       BY <1>3, <2>1, <2>3 DEF Progress, PicturePlaces
<1>19. CASE Ingest(o)
  <2>1. /\ pc[o] = "ingest" /\ pc'[o] \in {"cutprompt", "finish"} /\ run'[o] = run[o]
        /\ UNCHANGED pieces /\ UNCHANGED asset
        BY <1>19, GoEffect DEF Ingest, Keep
  <2>2. job'[o].prompt = job[o].prompt
        BY <1>19 DEF Ingest, Types, Job
  <2>3. Whole(o)'
        BY <1>2, <2>1, <2>2 DEF Progress, Whole, Draws, Same
  <2>. QED
       BY <2>1, <2>3 DEF Progress, PicturePlaces
<1>20. CASE \/ CutResume(o) \/ CutSubmit(o) \/ SaveCutPrompt(o) \/ CutRendered(o)
            \/ CutAttach(o) \/ Finish(o) \/ Report(o) \/ FailsRendering(o)
            \/ FailsMissing(o)
  <2>1. /\ pc'[o] \notin PicturePlaces \cup {"prompt"}
        /\ UNCHANGED job /\ UNCHANGED pieces
    <3>1. CASE \/ CutResume(o) \/ CutSubmit(o) \/ SaveCutPrompt(o) \/ CutRendered(o)
               \/ CutAttach(o) \/ Finish(o)
          BY <3>1, GoEffect DEF CutResume, CutSubmit, SaveCutPrompt, CutRendered,
             CutAttach, Finish, Keep, PicturePlaces, chimera
    <3>2. CASE Report(o) \/ FailsRendering(o) \/ FailsMissing(o)
          BY <3>2 DEF Report, FailsRendering, FailsMissing, Fails, Leaves, Types,
             PicturePlaces, chimera
    <3>. QED
         BY <1>20, <3>1, <3>2
  <2>2. ~Decide(o)
        BY <1>20 DEF Decide, CutResume, CutSubmit, SaveCutPrompt, CutRendered, CutAttach,
           Finish, Report, FailsRendering, FailsMissing, Keep, Go
  <2>. QED
       BY <1>4, <2>1, <2>2, FieldSteps
<1>. QED
     BY <1>6, <1>7, <1>8, <1>9, <1>10, <1>11, <1>12, <1>13, <1>14, <1>15, <1>16, <1>17,
        <1>18, <1>19, <1>20 DEF Step

\* Neither the end of a prompt nor that of a run takes anything away.
LEMMA WholeTrouble ==
    ASSUME WholeInv, Rendering \/ Trouble
    PROVE  CutsAsNeeded' /\ \A o \in Ops : Progress(o)'
<1>. TypeInv /\ Types /\ RunsTrue
     BY DEF WholeInv, CutInv, TypeInv
<1>1. DOMAIN comfy' = DOMAIN comfy /\ \A q \in DOMAIN comfy : Same(q)
  <2>1. \A q \in DOMAIN comfy : Same(q)
        BY PromptsStay DEF Next
  <2>2. DOMAIN comfy' = DOMAIN comfy
        BY DEF Rendering, Trouble, Renders, Breaks, Ends, GivesUp, Fails, Crash, Forgets
  <2>. QED
       BY <2>1, <2>2
<1>2. UNCHANGED <<job, pieces, asset>>
      BY TroubleSteps
<1>3. CutsAsNeeded'
      BY <1>1 DEF WholeInv, CutsAsNeeded, Same
<1>4. ASSUME NEW o \in Ops
      PROVE  Progress(o)'
  <2>1. Progress(o)
        BY DEF WholeInv
  <2>2. /\ Whole(o) => Whole(o)'
        /\ Draws(job[o].prompt, o, "picture") => Draws(job[o].prompt, o, "picture")'
        BY <1>1, <1>2 DEF Whole, Draws, Same
  <2>3. CASE pc'[o] = pc[o] /\ run'[o] = run[o]
        BY <1>2, <2>1, <2>2, <2>3 DEF Progress
  <2>4. CASE pc'[o] = "off" /\ run'[o] = NoRun(None)
    <3>1. run'[o].fresh = {}
          BY <2>4 DEF NoRun
    <3>. QED
         BY <1>2, <2>1, <2>2, <2>4, <3>1 DEF Progress, PicturePlaces
  <2>. QED
       BY <2>3, <2>4, RunsEnd
<1>. QED
     BY <1>3, <1>4

\* The progress of every operation holds throughout.
LEMMA WholeInvHolds == Spec => []WholeInv
<1>1. Init => CutsAsNeeded /\ \A o \in Ops : Progress(o)
      BY DEF Init, CutsAsNeeded, Progress, NoRun, PicturePlaces
<1>2. CutInv /\ CutInv' /\ WholeInv /\ [Next]_vars => WholeInv'
  <2>. SUFFICES ASSUME CutInv', WholeInv, [Next]_vars
                PROVE  WholeInv'
       OBVIOUS
  <2>1. ASSUME NEW o \in Ops, Step(o)
        PROVE  CutsAsNeeded' /\ \A x \in Ops : Progress(x)'
        BY <2>1, CutsStep, ProgressStep, OthersProgress
  <2>2. CASE UNCHANGED vars
        BY <2>2 DEF vars, chimera, WholeInv, CutsAsNeeded, Progress, Whole, Draws
  <2>. QED
       BY <2>1, <2>2, WholeTrouble DEF Next, WholeInv
<1>3. CutInv /\ CutsAsNeeded /\ (\A o \in Ops : Progress(o)) => WholeInv
      BY DEF WholeInv
<1>. QED
     BY <1>1, <1>2, <1>3, CutInvHolds, PTL DEF Spec

\* An ingested job has all its pictures and layers, and what its prompt cut is on
\* the source, whatever its runs decided to load or to cut.
THEOREM IngestedSafe == Spec => []IngestedIsWhole
<1>1. WholeInv => IngestedIsWhole
  <2>. SUFFICES ASSUME WholeInv, NEW o \in Ops, job[o].status = "ingested"
                PROVE  /\ pieces[o] = 1..Pieces[o]
                       /\ \A r \in comfy[job[o].prompt].makes : asset[r] # None
       BY DEF IngestedIsWhole
  <2>1. Whole(o) /\ CutsAsNeeded
        BY DEF WholeInv, Progress
  <2>. QED
       BY <2>1 DEF Whole, CutsAsNeeded, Draws
<1>. QED
     BY <1>1, WholeInvHolds, PTL

-----------------------------------------------------------------------------
(* A result stands for an ingested job and the whole cut.                  *)

\* The parts of a result's cut.
AllParts == {"alpha", "depth", "cut", "cutout"}

\* The parts of a result's cut come one after the other; a run that has ingested
\* its job leaves it so; and a stored result ends the operation.
Stored(o) ==
    /\ pc[o] = "cutattach" =>
           \A k \in 1..Len(Results) : k < run[o].next => Results[k] \in result[o]
    /\ pc[o] \in CutPlaces \cup {"cutprompt", "finish", "report"} =>
           job[o].status = "ingested"
    /\ pc[o] \in {"finish", "report"} /\ o \in CutsResult => result[o] = AllParts
    /\ pc[o] = "report" => file[o].completed
    /\ row[o] = "done" => file[o].completed
    /\ file[o].completed =>
           /\ pc[o] \in {"off", "report"}
           /\ job[o].status = "ingested"
           /\ o \in CutsResult => result[o] = AllParts

\* What a stored result promises, with what makes that inductive.
ResultInv == TypeInv /\ \A o \in Ops : Stored(o)

\* A step of one operation keeps the result of another.
LEMMA OthersStored ==
    ASSUME ResultInv, NEW o \in Ops, Step(o), NEW other \in Ops \ {o}
    PROVE  Stored(other)'
<1>. Types /\ TypeInv /\ Stored(other)
     BY DEF ResultInv, TypeInv
<1>1. pc'[other] = pc[other] /\ run'[other] = run[other]
      BY OthersStay
<1>2. job'[other] = job[other]
      BY JobSteps DEF Types, CreateJob, Queue, Complete, Ingest
<1>3. result'[other] = result[other]
      BY PieceSteps DEF Types, CutAttach
<1>4. row'[other] = row[other]
      BY RowSteps DEF Types, ReturnStored, Report, Fails
<1>5. file'[other] = file[other]
      BY FileSteps DEF Types, SavePrompt, SaveCutPrompt, Finish
<1>. QED
     BY <1>1, <1>2, <1>3, <1>4, <1>5 DEF Stored

\* A step of an operation keeps its own.
LEMMA StoredStep ==
    ASSUME ResultInv, NEW o \in Ops, Step(o)
    PROVE  Stored(o)'
<1>. TypeInv /\ Types /\ RunsTrue /\ Stored(o)
     BY DEF ResultInv, TypeInv
<1>. run[o] \in Run /\ job[o] \in Job /\ file[o] \in File
     BY DEF Types
<1>1. ASSUME UNCHANGED <<job, result, row>>, file'[o].completed = file[o].completed,
             pc[o] \notin {"off", "report"},
             pc'[o] \notin CutPlaces \cup {"cutprompt", "finish", "report"}
      PROVE  Stored(o)'
      BY <1>1 DEF Stored, CutPlaces
<1>2. CASE ReturnStored(o)
      BY <1>2 DEF ReturnStored, Stored, Types, chimera
<1>3. ASSUME NEW v \in Releases, Begin(o, v)
      PROVE  Stored(o)'
  <2>1. /\ pc'[o] \in {"prompt", "list"} /\ ~file[o].completed
        /\ UNCHANGED <<job, result, row, file>>
        BY <1>3, GoEffect DEF Begin, chimera
  <2>. QED
       BY <2>1 DEF Stored, CutPlaces
<1>4. CASE \/ List(o) \/ Describe(o) \/ Decide(o) \/ Resume(o) \/ Submit(o)
           \/ SavePrompt(o) \/ Rendered(o)
  <2>1. /\ pc[o] \notin {"off", "report"}
        /\ pc'[o] \in {"describe", "decide", "prompt", "wait", "submitted", "create"}
        /\ UNCHANGED <<job, result, row>>
        BY <1>4, GoEffect DEF List, Describe, Decide, Resume, Submit, SavePrompt, Rendered,
           Keep, chimera
  <2>2. file'[o].completed = file[o].completed
        BY <1>4 DEF List, Describe, Decide, Resume, Submit, SavePrompt, Rendered, Types, File
  <2>. QED
       BY <1>1, <2>1, <2>2 DEF CutPlaces
<1>5. CASE CreateJob(o) \/ Queue(o) \/ Complete(o)
  <2>1. /\ pc[o] \in {"create", "queue", "complete"} /\ pc'[o] \in {"queue", "complete", "piece"}
        /\ UNCHANGED <<result, row, file>>
        BY <1>5, GoEffect DEF CreateJob, Queue, Complete, Keep
  <2>. QED
       BY <2>1 DEF Stored, CutPlaces
<1>6. CASE \/ Piece(o) \/ PiecesDone(o) \/ (\E r \in Roles : Attach(o, r))
           \/ DescribeCut(o) \/ Attached(o)
  <2>1. UNCHANGED <<job, result, row, file>>
        BY <1>6 DEF Piece, PiecesDone, Attach, DescribeCut, Attached, chimera
  <2>2. pc[o] \in {"piece", "attach"} /\ pc'[o] \in {"piece", "attach", "ingest"}
    <3>1. CASE Piece(o)
          BY <3>1, GoEffect DEF Piece
    <3>2. CASE \/ PiecesDone(o) \/ (\E r \in Roles : Attach(o, r))
               \/ DescribeCut(o) \/ Attached(o)
          BY <3>2, GoEffect DEF PiecesDone, Attach, DescribeCut, Attached, Keep
    <3>. QED
         BY <1>6, <3>1, <3>2
  <2>. QED
       BY <1>1, <2>1, <2>2 DEF CutPlaces
<1>7. CASE Ingest(o)
  <2>1. /\ pc[o] = "ingest" /\ pc'[o] = IF o \in CutsResult THEN "cutprompt" ELSE "finish"
        /\ UNCHANGED <<result, row, file>>
        BY <1>7, GoEffect DEF Ingest, Keep
  <2>2. job'[o].status = "ingested"
        BY <1>7 DEF Ingest, Types, Job
  <2>. QED
       BY <2>1, <2>2 DEF Stored, CutPlaces
<1>8. CASE \/ CutResume(o) \/ CutSubmit(o) \/ SaveCutPrompt(o)
  <2>1. /\ pc[o] \in CutPlaces \cup {"cutprompt"} /\ pc'[o] \in {"cutwait", "cutsubmitted"}
        /\ UNCHANGED <<job, result, row>>
        BY <1>8, GoEffect DEF CutResume, CutSubmit, SaveCutPrompt, Keep, CutPlaces, chimera
  <2>2. file'[o].completed = file[o].completed
        BY <1>8 DEF CutResume, CutSubmit, SaveCutPrompt, Types, File
  <2>. QED
       BY <2>1, <2>2 DEF Stored, CutPlaces
<1>9. CASE CutRendered(o)
  <2>1. /\ pc[o] = "cutwait" /\ pc'[o] = "cutattach" /\ run'[o].next = 1
        /\ UNCHANGED <<job, result, row, file>>
        BY <1>9, GoEffect DEF CutRendered, Run, chimera
  <2>. QED
       BY <2>1 DEF Stored, CutPlaces, Results
<1>10. CASE CutAttach(o)
  <2>1. Go(o, "cutattach", IF run[o].next < Len(Results) THEN "cutattach" ELSE "finish",
           [run[o] EXCEPT !.next = @ + 1])
        BY <1>10 DEF CutAttach
  <2>2. /\ pc[o] = "cutattach"
        /\ pc'[o] = IF run[o].next < Len(Results) THEN "cutattach" ELSE "finish"
        /\ run'[o] = [run[o] EXCEPT !.next = @ + 1]
        BY <2>1, GoEffect
  <2>3. run'[o].next = run[o].next + 1 /\ run[o].next \in Nat \ {0}
        BY <2>2 DEF Run
  <2>4. run[o].next \in 1..4 /\ Len(Results) = 4
        BY <2>2, <2>3 DEF RunsTrue, Results
  <2>5. UNCHANGED <<job, row, file>> /\ result'[o] = result[o] \cup {Results[run[o].next]}
        BY <1>10 DEF CutAttach, Types
  <2>6. \A k \in 1..Len(Results) : k <= run[o].next => Results[k] \in result'[o]
        BY <2>2, <2>3, <2>4, <2>5 DEF Stored
  <2>7. CASE run[o].next < 4
    <3>1. \A k \in 1..Len(Results) : k < run'[o].next => Results[k] \in result'[o]
          BY <2>3, <2>4, <2>6
    <3>. QED
         BY <2>2, <2>4, <2>5, <2>7, <3>1 DEF Stored, CutPlaces
  <2>8. CASE run[o].next = 4
    <3>1. AllParts \subseteq result'[o]
      <4>1. /\ Results[1] \in result'[o] /\ Results[2] \in result'[o]
            /\ Results[3] \in result'[o] /\ Results[4] \in result'[o]
            BY <2>4, <2>6, <2>8
      <4>. QED
           BY <4>1 DEF AllParts, Results
    <3>2. result'[o] \subseteq AllParts
          BY TypesStep DEF Types, AllParts
    <3>. QED
         BY <2>2, <2>4, <2>5, <2>8, <3>1, <3>2 DEF Stored, CutPlaces
  <2>. QED
       BY <2>4, <2>7, <2>8
<1>11. CASE Finish(o)
  <2>1. /\ pc[o] = "finish" /\ pc'[o] = "report" /\ UNCHANGED <<job, result, row>>
        BY <1>11, GoEffect DEF Finish, Keep, chimera
  <2>2. file'[o].completed
        BY <1>11 DEF Finish, Types, File
  <2>. QED
       BY <2>1, <2>2 DEF Stored, CutPlaces
<1>12. CASE Report(o)
  <2>1. /\ pc[o] = "report" /\ pc'[o] = "off" /\ UNCHANGED <<job, result, file>>
        BY <1>12 DEF Report, Leaves, Types, chimera
  <2>. QED
       BY <2>1 DEF Stored, CutPlaces
<1>13. CASE FailsRendering(o) \/ FailsMissing(o)
  <2>1. /\ pc'[o] = "off" /\ row'[o] = "failed" /\ UNCHANGED <<job, result, file>>
        BY <1>13 DEF FailsRendering, FailsMissing, Fails, Leaves, Types, chimera
  <2>. QED
       BY <2>1 DEF Stored, CutPlaces
<1>. QED
     BY <1>2, <1>3, <1>4, <1>5, <1>6, <1>7, <1>8, <1>9, <1>10, <1>11, <1>12, <1>13 DEF Step

\* Nor does a run that ends anywhere lose a result or claim one.
LEMMA StoredTrouble ==
    ASSUME ResultInv, Rendering \/ Trouble
    PROVE  \A o \in Ops : Stored(o)'
<1>. Types
     BY DEF ResultInv, TypeInv
<1>1. UNCHANGED <<job, result, file>>
      BY TroubleSteps
<1>2. \A o \in Ops : row'[o] \in {row[o], "failed"}
      BY TroubleSteps DEF Fails, Crash, Types
<1>3. ASSUME NEW o \in Ops
      PROVE  Stored(o)'
  <2>1. Stored(o)
        BY DEF ResultInv
  <2>2. \/ pc'[o] = pc[o] /\ run'[o] = run[o]
        \/ pc'[o] = "off"
        BY RunsEnd
  <2>. QED
       BY <1>1, <1>2, <2>1, <2>2 DEF Stored, CutPlaces
<1>. QED
     BY <1>3

\* An operation with a result has an ingested job, and a redraw with `cut` every
\* part of its cut, also when the run that made it never reported it.
THEOREM ResultSafe == Spec => []ResultIsWhole
<1>1. Init => ResultInv
  <2>1. ASSUME Init
        PROVE  \A o \in Ops : Stored(o)
        BY <2>1 DEF Init, Stored, NoFile, CutPlaces
  <2>. QED
       BY <2>1, TypeInit DEF ResultInv
<1>2. ResultInv /\ [Next]_vars => ResultInv'
  <2>. SUFFICES ASSUME ResultInv, [Next]_vars
                PROVE  ResultInv'
       OBVIOUS
  <2>1. TypeInv'
        BY TypeStep DEF ResultInv
  <2>2. ASSUME NEW o \in Ops, Step(o)
        PROVE  \A x \in Ops : Stored(x)'
        BY <2>2, StoredStep, OthersStored
  <2>3. CASE UNCHANGED vars
        BY <2>1, <2>3 DEF vars, chimera, ResultInv, Stored
  <2>. QED
       BY <2>1, <2>2, <2>3, StoredTrouble DEF Next, ResultInv
<1>3. ResultInv => ResultIsWhole
      BY DEF ResultInv, Stored, ResultIsWhole, AllParts
<1>. QED
     BY <1>1, <1>2, <1>3, PTL DEF Spec

-----------------------------------------------------------------------------
(* In turn, the cut of the source says what its pictures were cut with.    *)

\* Where a run has read the stored cut, and where it has its picture's prompt.
Drawing == PicturePlaces \ {"ingest"}
Read    == Drawing \cup {"prompt"}

\* What the cut says of the source's pictures.
Truthful == \A r \in Roles : cut[r] # None => asset[r] = cut[r]

\* Runs on the picture follow each other.
Alone == \A o, other \in Ops : pc[o] # "off" /\ pc[other] # "off" => o = other

\* A run draws with a prompt of its own release.
OwnRelease(o) ==
    pc[o] \in Drawing =>
        run[o].prompt \in DOMAIN comfy /\ comfy[run[o].prompt].release = run[o].release

\* What a run read of the cut is what there is until it describes it anew.
ReadTrue(o) ==
    /\ pc[o] = "list" => run[o].stored = [r \in Roles |-> None]
    /\ pc[o] = "describe" => /\ run[o].stored = [r \in Roles |-> None]
                             /\ "cut" \notin run[o].seen => run[o].stored = cut
    /\ pc[o] = "decide" => run[o].stored = cut
    /\ pc[o] \in Read /\ run[o].fresh # {} /\ (pc[o] = "attach" => <<o, "cut">> \notin keyed) =>
           run[o].stored = cut

\* While a run attaches, the roles it has attached are of its release and all
\* others are described as they were.
Half(o) ==
    pc[o] = "attach" =>
        /\ <<o, "cut">> \in keyed => Truthful
        /\ <<o, "cut">> \notin keyed =>
              \A r \in Roles :
                  /\ <<o, r>> \in keyed => r \in run[o].fresh /\ asset[r] = run[o].release
                  /\ <<o, r>> \notin keyed /\ cut[r] # None => asset[r] = cut[r]

\* Between attaches, what an operation has attached it has described.
KeyedWhole(o) == pc[o] # "attach" => \A r \in Roles : <<o, r>> \in keyed => <<o, "cut">> \in keyed

Turn(o) == OwnRelease(o) /\ ReadTrue(o) /\ Half(o) /\ KeyedWhole(o)
InTurn  == ~torn => Alone /\ CutIsTrueInTurn /\ \A o \in Ops : Turn(o)

\* Once torn, always.
LEMMA TornStays ==
    ASSUME Next, torn
    PROVE  torn'
<1>1. ASSUME NEW o \in Ops, Step(o)
      PROVE  torn'
      BY <1>1 DEF Step, chimera, Resumes, ReturnStored, Begin, List, Describe, Decide, Resume,
         Submit, SavePrompt, Rendered, CreateJob, Queue, Complete, Piece, PiecesDone, Attach,
         DescribeCut, Attached, Ingest, CutResume, CutSubmit, SaveCutPrompt, CutRendered,
         CutAttach, Finish, Report, FailsRendering, FailsMissing, Fails
<1>2. CASE Rendering \/ Trouble
      BY <1>2 DEF Rendering, Trouble, Renders, Breaks, Ends, GivesUp, Fails, Crash, Forgets
<1>. QED
     BY <1>1, <1>2 DEF Next

\* A run steps while the others are off, or it returns what is stored.
LEMMA OthersOff ==
    ASSUME Types, Alone, ~torn', NEW o \in Ops, Step(o), NEW other \in Ops \ {o}
    PROVE  ReturnStored(o) \/ pc[other] = "off"
<1>1. CASE \E v \in Releases : Begin(o, v)
      BY <1>1 DEF Begin
<1>2. CASE pc[o] # "off"
      BY <1>2 DEF Alone
<1>3. ReturnStored(o) \/ (\E v \in Releases : Begin(o, v)) \/ pc[o] # "off"
      BY DEF Step, List, Describe, Decide, Resume, Submit, SavePrompt, Rendered, CreateJob, Queue,
         Complete, Piece, PiecesDone, Attach, DescribeCut, Attached, Ingest, CutResume, CutSubmit,
         SaveCutPrompt, CutRendered, CutAttach, Finish, Report, FailsRendering, FailsMissing,
         Keep, Go
<1>. QED
     BY <1>1, <1>2, <1>3

\* What is left of a run's steps, by what they do to what the cut depends on.
Still == UNCHANGED <<asset, cut, keyed>>
LEMMA DrawingSteps ==
    ASSUME Types, NEW o \in Ops,
           SavePrompt(o) \/ Rendered(o) \/ CreateJob(o) \/ Queue(o) \/ Complete(o) \/ Piece(o)
               \/ PiecesDone(o)
    PROVE  /\ pc[o] \in Drawing \ {"attach"} /\ pc'[o] \in Drawing /\ Still /\ comfy' = comfy
           /\ run'[o].prompt = run[o].prompt /\ run'[o].release = run[o].release
           /\ run'[o].fresh = run[o].fresh /\ run'[o].stored = run[o].stored
<1>. run[o] \in Run
     BY DEF Types
<1>1. CASE SavePrompt(o) \/ Rendered(o) \/ CreateJob(o) \/ Queue(o) \/ PiecesDone(o)
      BY <1>1, GoEffect DEF SavePrompt, Rendered, CreateJob, Queue, PiecesDone, Keep, chimera,
         Still, Drawing, PicturePlaces
<1>2. CASE Complete(o)
      BY <1>2, GoEffect DEF Complete, Still, Drawing, PicturePlaces, Run
<1>3. CASE Piece(o)
      BY <1>3, GoEffect DEF Piece, Still, Drawing, PicturePlaces, Run
<1>. QED
     BY <1>1, <1>2, <1>3

\* The steps after it neither read nor attach.
LEMMA LaterSteps ==
    ASSUME Types, NEW o \in Ops,
           Ingest(o) \/ CutResume(o) \/ CutSubmit(o) \/ SaveCutPrompt(o) \/ CutRendered(o)
               \/ CutAttach(o) \/ Finish(o) \/ Report(o) \/ FailsRendering(o) \/ FailsMissing(o)
    PROVE  pc[o] # "attach" /\ pc'[o] \notin Read \cup {"list", "describe", "decide"} /\ Still
<1>1. ASSUME NEW from, NEW to, NEW mine, Go(o, from, to, mine), from # "attach",
             to \in {"cutprompt", "cutsubmitted", "cutwait", "cutattach", "finish", "report"}
      PROVE  pc[o] # "attach" /\ pc'[o] \notin Read \cup {"list", "describe", "decide"}
      BY <1>1, GoEffect DEF Read, Drawing, PicturePlaces
<1>2. CASE Ingest(o)
      BY <1>1, <1>2 DEF Ingest, Keep, Still
<1>3. CASE CutResume(o)
      BY <1>1, <1>3 DEF CutResume, Still, chimera
<1>4. CASE CutSubmit(o)
      BY <1>1, <1>4 DEF CutSubmit, Still, chimera
<1>5. CASE SaveCutPrompt(o) \/ Finish(o)
      BY <1>1, <1>5 DEF SaveCutPrompt, Finish, Keep, Still, chimera
<1>6. CASE CutRendered(o)
      BY <1>1, <1>6 DEF CutRendered, Still, chimera
<1>7. CASE CutAttach(o)
      BY <1>1, <1>7 DEF CutAttach, Still
<1>8. CASE Report(o) \/ FailsRendering(o) \/ FailsMissing(o)
      BY <1>8 DEF Report, FailsRendering, FailsMissing, Fails, Leaves, Types, Still, chimera, Read,
         Drawing, PicturePlaces
<1>. QED
     BY <1>2, <1>3, <1>4, <1>5, <1>6, <1>7, <1>8

\* Of the run that steps: what it has read, drawn and attached stays true, and with
\* no run at its attach the cut is.
LEMMA TurnStep ==
    ASSUME TypeInv, NEW o \in Ops, Step(o), Turn(o), ~torn', ~torn,
           pc[o] # "attach" => Truthful
    PROVE  Turn(o)' /\ (pc'[o] # "attach" => Truthful')
<1>. /\ Types /\ RunsTrue /\ run[o] \in Run
     /\ \A q \in DOMAIN comfy : comfy'[q].release = comfy[q].release
  <2>1. Types /\ RunsTrue
        BY DEF TypeInv
  <2>2. \A q \in DOMAIN comfy : comfy'[q].release = comfy[q].release
        BY <2>1, PromptsStay DEF Next, Same
  <2>. QED
       BY <2>1, <2>2 DEF Types
<1>. "attach" \in Drawing /\ "off" \notin Read /\ "off" \notin Drawing /\ Drawing \subseteq Read
     BY DEF Read, Drawing, PicturePlaces
<1>1. CASE ReturnStored(o)
  <2>1. UNCHANGED <<pc, run, asset, cut, keyed, comfy>>
        BY <1>1 DEF ReturnStored, chimera
  <2>. QED
       BY <2>1 DEF Turn, OwnRelease, ReadTrue, Half, KeyedWhole, Truthful
<1>2. CASE \E v \in Releases : Begin(o, v)
  <2>1. PICK v \in Releases : Begin(o, v)
        BY <1>2
  <2>2. /\ pc[o] = "off" /\ pc'[o] \in {"prompt", "list"} /\ run'[o] = NoRun(v)
        /\ UNCHANGED <<asset, cut, keyed>>
        BY <2>1, GoEffect DEF Begin, chimera
  <2>3. run'[o].stored = [r \in Roles |-> None] /\ run'[o].fresh = {}
        BY <2>2 DEF NoRun
  <2>4. pc'[o] \notin Drawing /\ pc'[o] \notin {"describe", "decide", "attach"}
        BY <2>2 DEF Drawing, PicturePlaces
  <2>. QED
       BY <2>2, <2>3, <2>4 DEF Turn, OwnRelease, ReadTrue, Half, KeyedWhole, Truthful
<1>3. CASE List(o)
  <2>1. /\ pc[o] = "list" /\ pc'[o] = "describe" /\ UNCHANGED <<asset, cut, keyed>>
        /\ run'[o].stored = run[o].stored
        /\ run'[o].seen = {r \in Roles : asset[r] # None} \cup (IF Described THEN {"cut"} ELSE {})
        BY <1>3, GoEffect DEF List, chimera, Run
  <2>2. pc'[o] \notin Read
        BY <2>1 DEF Read, Drawing, PicturePlaces
  <2>3. run'[o].stored = [r \in Roles |-> None]
        BY <2>1 DEF Turn, ReadTrue
  <2>4. "cut" \notin run'[o].seen => cut = [r \in Roles |-> None]
        BY <2>1 DEF Described, Types, Cut
  <2>. QED
       BY <2>1, <2>2, <2>3, <2>4 DEF Turn, OwnRelease, ReadTrue, Half, KeyedWhole, Truthful
<1>4. CASE Describe(o)
  <2>1. /\ pc[o] = "describe" /\ pc'[o] = "decide" /\ UNCHANGED <<asset, cut, keyed>>
        /\ run'[o].stored = IF "cut" \in run[o].seen THEN cut ELSE run[o].stored
        BY <1>4, GoEffect DEF Describe, chimera, Run
  <2>2. pc'[o] \notin Read
        BY <2>1 DEF Read, Drawing, PicturePlaces
  <2>3. run'[o].stored = cut
        BY <2>1 DEF Turn, ReadTrue
  <2>. QED
       BY <2>1, <2>2, <2>3 DEF Turn, OwnRelease, ReadTrue, Half, KeyedWhole, Truthful
<1>5. CASE Decide(o)
  <2>1. /\ pc[o] = "decide" /\ pc'[o] = "prompt" /\ UNCHANGED <<asset, cut, keyed>>
        /\ run'[o].stored = run[o].stored
        BY <1>5, GoEffect DEF Decide, chimera, Run
  <2>2. pc'[o] \notin Drawing
        BY <2>1 DEF Drawing, PicturePlaces
  <2>3. run'[o].stored = cut
        BY <2>1 DEF Turn, ReadTrue
  <2>. QED
       BY <2>1, <2>2, <2>3 DEF Turn, OwnRelease, ReadTrue, Half, KeyedWhole, Truthful
<1>6. CASE Resume(o) \/ Submit(o)
  <2>1. /\ pc[o] = "prompt" /\ pc'[o] \in {"wait", "submitted"} /\ UNCHANGED <<asset, cut, keyed>>
        /\ run'[o].stored = run[o].stored /\ run'[o].fresh = run[o].fresh
        /\ run'[o].release = run[o].release
        BY <1>6, GoEffect DEF Resume, Submit, chimera, Run
  <2>2. pc[o] \in Read /\ pc[o] # "attach" /\ pc'[o] # "attach"
        BY <2>1 DEF Read
  <2>3. run'[o].prompt \in DOMAIN comfy' /\ comfy'[run'[o].prompt].release = run[o].release
    <3>1. CASE Resume(o)
      <4>1. run'[o].prompt = file[o].prompt /\ comfy' = comfy /\ file[o].prompt # None
            BY <3>1, GoEffect DEF Resume, Resumes, Run
      <4>2. comfy[file[o].prompt].release = run[o].release
            BY <3>1, Zenon DEF Resume
      <4>. QED
           BY <4>1, <4>2 DEF RunsTrue, Draws
    <3>2. CASE Submit(o)
      <4>1. /\ run'[o].prompt = Len(comfy) + 1
            /\ Submits(o, file[o].prompt, "picture", run[o].fresh)
            BY <3>2, GoEffect DEF Submit, Run
      <4>2. run[o].release \in Releases /\ run[o].fresh \in SUBSET Roles
            BY <2>1 DEF RunsTrue, Run
      <4>3. /\ Len(comfy) + 1 \in DOMAIN comfy'
            /\ comfy'[Len(comfy) + 1] = [op |-> o, draws |-> "picture", makes |-> run[o].fresh,
                                         release |-> run[o].release, state |-> "queued"]
            BY <4>1, <4>2, SubmitsOne DEF Types
      <4>4. comfy'[Len(comfy) + 1].release = run[o].release
            BY <4>3
      <4>. QED
           BY <4>1, <4>3, <4>4
    <3>. QED
         BY <1>6, <3>1, <3>2
  <2>. QED
       BY <2>1, <2>2, <2>3 DEF Turn, OwnRelease, ReadTrue, Half, KeyedWhole, Truthful
<1>7. CASE SavePrompt(o) \/ Rendered(o) \/ CreateJob(o) \/ Queue(o) \/ Complete(o) \/ Piece(o)
               \/ PiecesDone(o)
  <2>1. /\ pc[o] \in Drawing \ {"attach"} /\ pc'[o] \in Drawing /\ comfy' = comfy
        /\ UNCHANGED <<asset, cut, keyed>>
        /\ run'[o].prompt = run[o].prompt /\ run'[o].release = run[o].release
        /\ run'[o].fresh = run[o].fresh /\ run'[o].stored = run[o].stored
        BY <1>7, DrawingSteps DEF Still
  <2>2. pc'[o] \notin {"list", "describe", "decide"}
        BY <2>1 DEF Drawing, PicturePlaces
  <2>3. Half(o)'
        BY <2>1 DEF Turn, Half, KeyedWhole, Truthful
  <2>4. OwnRelease(o)' /\ ReadTrue(o)'
        BY <2>1, <2>2 DEF Turn, OwnRelease, ReadTrue
  <2>5. KeyedWhole(o)' /\ Truthful'
        BY <2>1 DEF Turn, KeyedWhole, Truthful
  <2>. QED
       BY <2>3, <2>4, <2>5 DEF Turn
<1>8. ASSUME NEW x \in Roles, Attach(o, x)
      PROVE  Turn(o)' /\ (pc'[o] # "attach" => Truthful')
  <2>1. /\ pc[o] = "attach" /\ pc'[o] = "attach" /\ run'[o] = run[o]
        /\ x \in run[o].fresh /\ comfy' = comfy /\ cut' = cut
        /\ asset' = [asset EXCEPT ![x] = comfy[run[o].prompt].release]
        /\ keyed' = keyed \cup {<<o, x>>} /\ <<o, "cut">> \notin keyed
        BY <1>8, GoEffect DEF Attach, Keep
  <2>2. x # "cut" /\ <<o, "cut">> \notin keyed'
        BY <2>1 DEF Roles
  <2>3. comfy[run[o].prompt].release = run[o].release
        BY <2>1 DEF Turn, OwnRelease
  <2>4. /\ asset'[x] = run[o].release
        /\ \A r \in Roles \ {x} : asset'[r] = asset[r] /\ (<<o, r>> \in keyed' <=> <<o, r>> \in keyed)
        BY <2>1, <2>3 DEF Types, Cut
  <2>5. Half(o)'
        BY <2>1, <2>2, <2>4 DEF Turn, Half
  <2>6. OwnRelease(o)' /\ ReadTrue(o)' /\ KeyedWhole(o)'
        BY <2>1 DEF Turn, OwnRelease, ReadTrue, KeyedWhole
  <2>. QED
       BY <2>1, <2>5, <2>6 DEF Turn
<1>9. CASE DescribeCut(o)
  <2>1. /\ pc[o] = "attach" /\ pc'[o] = "attach" /\ run'[o] = run[o] /\ run[o].fresh # {}
        /\ comfy' = comfy /\ cut' = Merged(o) /\ asset' = asset
        /\ \A r \in run[o].fresh : <<o, r>> \in keyed
        /\ keyed' = keyed \cup {<<o, "cut">>} /\ <<o, "cut">> \notin keyed
        BY <1>9, GoEffect DEF DescribeCut, Keep
  <2>2. run[o].stored = cut
        BY <2>1 DEF Turn, ReadTrue
  <2>3. ASSUME NEW r \in Roles, cut'[r] # None
        PROVE  asset'[r] = cut'[r]
    <3>1. CASE r \in run[o].fresh
      <4>1. cut'[r] = run[o].release
            BY <2>1, <3>1 DEF Merged
      <4>2. asset[r] = run[o].release
            BY <2>1, <3>1 DEF Turn, Half
      <4>. QED
           BY <2>1, <4>1, <4>2
    <3>2. CASE r \notin run[o].fresh
      <4>1. cut'[r] = cut[r]
            BY <2>1, <2>2, <2>3, <3>2 DEF Merged
      <4>2. asset[r] = cut[r]
            BY <2>1, <2>3, <3>2, <4>1 DEF Turn, Half
      <4>. QED
           BY <2>1, <4>1, <4>2
    <3>. QED
         BY <3>1, <3>2
  <2>4. Half(o)'
        BY <2>1, <2>3 DEF Half, Truthful
  <2>5. OwnRelease(o)' /\ ReadTrue(o)' /\ KeyedWhole(o)'
        BY <2>1 DEF Turn, OwnRelease, ReadTrue, KeyedWhole
  <2>. QED
       BY <2>1, <2>4, <2>5 DEF Turn
<1>10. CASE Attached(o)
  <2>1. /\ pc[o] = "attach" /\ pc'[o] = "ingest" /\ UNCHANGED <<asset, cut, keyed>>
        /\ run[o].fresh = {} \/ <<o, "cut">> \in keyed
        BY <1>10, GoEffect DEF Attached, Keep, chimera
  <2>2. pc'[o] \notin Read \cup {"list", "describe", "decide", "attach"}
        BY <2>1 DEF Read, Drawing, PicturePlaces
  <2>3. Truthful /\ \A r \in Roles : <<o, r>> \in keyed => <<o, "cut">> \in keyed
        BY <2>1 DEF Turn, Half, Truthful
  <2>. QED
       BY <2>1, <2>2, <2>3 DEF Turn, OwnRelease, ReadTrue, Half, KeyedWhole, Truthful
<1>11. CASE Ingest(o) \/ CutResume(o) \/ CutSubmit(o) \/ SaveCutPrompt(o) \/ CutRendered(o)
               \/ CutAttach(o) \/ Finish(o) \/ Report(o) \/ FailsRendering(o) \/ FailsMissing(o)
  <2>1. /\ pc[o] # "attach" /\ pc'[o] \notin Read \cup {"list", "describe", "decide", "attach"}
        /\ UNCHANGED <<asset, cut, keyed>>
        BY <1>11, LaterSteps DEF Still
  <2>. QED
       BY <2>1 DEF Turn, OwnRelease, ReadTrue, Half, KeyedWhole, Truthful
<1>. QED
     BY <1>1, <1>2, <1>3, <1>4, <1>5, <1>6, <1>7, <1>8, <1>9, <1>10, <1>11 DEF Step

\* A run that does not attach is put off by no restart, prompt or kill of another.
LEMMA TurnTrouble ==
    ASSUME TypeInv, Rendering \/ Trouble, NEW o \in Ops, Turn(o), ~torn',
           \/ pc'[o] = pc[o] /\ run'[o] = run[o]
           \/ pc'[o] = "off" /\ run'[o] = NoRun(None),
           pc[o] = "attach" => pc'[o] = "attach"
    PROVE  Turn(o)'
<1>1. UNCHANGED <<keyed, asset, cut>>
      BY TroubleSteps
<1>2. \A q \in DOMAIN comfy : q \in DOMAIN comfy' /\ comfy'[q].release = comfy[q].release
      BY PromptsStay DEF Next, Same, TypeInv
<1>3. "attach" \in Drawing /\ "off" \notin Read /\ "off" \notin Drawing
      BY DEF Read, Drawing, PicturePlaces
<1>4. CASE pc'[o] = "off"
      BY <1>1, <1>3, <1>4 DEF Turn, OwnRelease, ReadTrue, Half, KeyedWhole
<1>5. CASE pc'[o] = pc[o] /\ run'[o] = run[o]
      BY <1>1, <1>2, <1>5 DEF Turn, OwnRelease, ReadTrue, Half, KeyedWhole, Truthful
<1>. QED
     BY <1>4, <1>5

\* Every step keeps the cut true in turn.
LEMMA InTurnStep ==
    ASSUME TypeInv, InTurn, Next, ~torn'
    PROVE  Alone' /\ CutIsTrueInTurn' /\ \A o \in Ops : Turn(o)'
<1>. /\ Types /\ ~torn /\ Alone /\ \A o \in Ops : Turn(o)
     /\ (\A o \in Ops : pc[o] # "attach") => Truthful
     BY TornStays DEF InTurn, CutIsTrueInTurn, Truthful, TypeInv
<1>1. ASSUME NEW o \in Ops, Step(o)
      PROVE  Alone' /\ CutIsTrueInTurn' /\ \A x \in Ops : Turn(x)'
  <2>1. CASE ReturnStored(o)
    <3>1. UNCHANGED <<pc, run, asset, cut, keyed, comfy>>
          BY <2>1 DEF ReturnStored, chimera
    <3>. QED
         BY <3>1 DEF Alone, CutIsTrueInTurn, Truthful, Turn, OwnRelease, ReadTrue, Half, KeyedWhole
  <2>2. CASE ~ReturnStored(o)
    <3>1. \A other \in Ops \ {o} : pc[other] = "off" /\ pc'[other] = "off"
          BY <1>1, <2>2, OthersOff, OthersStay
    <3>2. Alone'
          BY <3>1 DEF Alone
    <3>3. pc[o] # "attach" => Truthful
          BY <3>1
    <3>4. Turn(o)' /\ (pc'[o] # "attach" => Truthful')
          BY <1>1, <3>3, TurnStep
    <3>5. CutIsTrueInTurn'
          BY <3>4 DEF CutIsTrueInTurn, Truthful
    <3>6. ASSUME NEW other \in Ops \ {o}, NEW r \in Roles, <<other, r>> \in keyed'
          PROVE  <<other, "cut">> \in keyed'
      <4>1. \A x : <<other, x>> \in keyed' <=> <<other, x>> \in keyed
        <5>1. ASSUME NEW x, keyed' = keyed \cup {<<o, x>>}, NEW y
              PROVE  <<other, y>> \in keyed' <=> <<other, y>> \in keyed
              BY <5>1, o # other
        <5>2. (\E x : keyed' = keyed \cup {<<o, x>>}) \/ keyed' = keyed
              BY <1>1, CutSteps DEF Attach, DescribeCut
        <5>. QED
             BY <5>1, <5>2
      <4>2. <<other, r>> \in keyed
            BY <3>6, <4>1
      <4>3. <<other, "cut">> \in keyed
            BY <3>1, <4>2 DEF Turn, KeyedWhole
      <4>. QED
           BY <4>1, <4>3
    <3>7. \A other \in Ops \ {o} : Turn(other)'
          BY <3>1, <3>6 DEF Turn, OwnRelease, ReadTrue, Half, KeyedWhole, Read, Drawing,
             PicturePlaces
    <3>. QED
         BY <3>2, <3>4, <3>5, <3>7
  <2>. QED
       BY <2>1, <2>2
<1>2. CASE Rendering \/ Trouble
  <2>1. \A o \in Ops : \/ pc'[o] = pc[o] /\ run'[o] = run[o]
                       \/ pc'[o] = "off" /\ run'[o] = NoRun(None)
        BY <1>2, RunsEnd
  <2>2. ASSUME NEW o \in Ops, pc[o] = "attach"
        PROVE  pc'[o] = "attach"
    <3>1. ASSUME NEW x \in Ops, Fails(x) \/ Crash(x)
          PROVE  pc[x] # "attach" /\ pc' = [pc EXCEPT ![x] = "off"]
          BY <3>1 DEF Fails, Crash, Leaves
    <3>2. (\E x \in Ops : Fails(x) \/ Crash(x)) \/ pc' = pc
          BY <1>2, TroubleSteps
    <3>. QED
         BY <2>2, <3>1, <3>2 DEF Types
  <2>3. ASSUME NEW o \in Ops
        PROVE  Turn(o)'
    <3>1. Turn(o)
          OBVIOUS
    <3>2. \/ pc'[o] = pc[o] /\ run'[o] = run[o]
          \/ pc'[o] = "off" /\ run'[o] = NoRun(None)
          BY <2>1
    <3>3. pc[o] = "attach" => pc'[o] = "attach"
          BY <2>2
    <3>4. CASE Rendering
          BY ONLY TypeInv, <3>4, <3>1, <3>2, <3>3, ~torn', o \in Ops, TurnTrouble
    <3>5. CASE Trouble
          BY ONLY TypeInv, <3>5, <3>1, <3>2, <3>3, ~torn', o \in Ops, TurnTrouble
    <3>. QED
         BY <1>2, <3>4, <3>5
  <2>4. Alone'
        BY <2>1 DEF Alone
  <2>5. CutIsTrueInTurn'
        BY <1>2, <2>2, TroubleSteps DEF CutIsTrueInTurn, Truthful
  <2>. QED
       BY <2>3, <2>4, <2>5
<1>. QED
     BY <1>1, <1>2 DEF Next

\* Where runs follow each other on the picture, each ends its attach, none goes on
\* with what another release had submitted and none attaches anything more to what
\* an earlier run of it described, the cut of the source says what each of its
\* pictures was cut with, for any operations, releases and faults.
THEOREM CutTrueInTurn == Spec => []CutIsTrueInTurn
<1>1. Init => TypeInv /\ InTurn
  <2>. SUFFICES ASSUME Init
                PROVE  InTurn
       BY TypeInit
  <2>1. /\ cut = asset /\ keyed = {} /\ \A o \in Ops : pc[o] = "off"
        BY DEF Init
  <2>2. Alone /\ CutIsTrueInTurn
        BY <2>1 DEF Alone, CutIsTrueInTurn
  <2>3. \A o \in Ops : Turn(o)
        BY <2>1 DEF Turn, OwnRelease, ReadTrue, Half, KeyedWhole, Read, Drawing, PicturePlaces
  <2>. QED
       BY <2>2, <2>3 DEF InTurn
<1>2. TypeInv /\ InTurn /\ [Next]_vars => TypeInv' /\ InTurn'
  <2>1. TypeInv /\ InTurn /\ Next => InTurn'
        BY InTurnStep DEF InTurn
  <2>2. InTurn /\ UNCHANGED vars => InTurn'
        BY DEF vars, chimera, InTurn, Alone, CutIsTrueInTurn, Truthful, Turn, OwnRelease, ReadTrue,
           Half, KeyedWhole
  <2>. QED
       BY <2>1, <2>2, TypeStep
<1>3. InTurn => CutIsTrueInTurn
      BY DEF InTurn, CutIsTrueInTurn
<1>. QED
     BY <1>1, <1>2, <1>3, PTL DEF Spec

=============================================================================
