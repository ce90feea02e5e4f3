--------------------------- MODULE GenerateProofs ---------------------------
(***************************************************************************)
(* What holds of a request's runs for every count, any number of images,   *)
(* prompts, crashes, restarts and lost files.                              *)
(*                                                                         *)
(* CoreInv is the inductive invariant: the types, what a state may look    *)
(* like (Shapes, Prompts, KeysDrawn), where the run is and what its state  *)
(* has there (Started, AtJob, AtOutput), that the file is what the run     *)
(* goes on from (Stored, Follows) and that neither claims what chimera     *)
(* does not have (Truth).  First come the effects of the steps on each     *)
(* variable, gathered by what they do rather than by action (Kinds), then  *)
(* one lemma for each part of CoreInv.                                     *)
(*                                                                         *)
(* Four results need more than CoreInv, and each adds its own part to it:  *)
(* KeysMatch for OutputOnce, Tracked for RenderedOnce, SeedInv for         *)
(* SeedsAgree, EndsInv for FinishedMeansAll.                               *)
(***************************************************************************)
EXTENDS Generate, SequenceTheorems, FiniteSetTheorems, WellFoundedInduction, TLAPS

USE CountAssumption

-----------------------------------------------------------------------------
(* The inductive invariant.                                                *)

\* An entry of a job's list of outputs.
Output == [key : Keys, registered : BOOLEAN]

\* Where no run has read the state yet, where a job is at hand, where it has a
\* prompt, where its outputs are gone through, and where the file was just saved.
Between  == {"off", "open"}
InJob    == {"created", "prompt", "submitted", "tell", "run", "wait", "complete", "output",
             "keyed", "upload", "registered", "failing"}
Prompted == {"submitted", "tell", "run", "wait", "complete", "output", "keyed", "upload",
             "registered"}
Storing  == {"output", "keyed", "upload", "registered"}
Saved    == {"job", "prompt", "tell", "run", "wait", "complete", "output", "upload"}

\* A state lists at most the count's jobs and the prompt's images, takes over
\* ingested jobs as made, and has seeds as soon as it has jobs.
Shape(m) ==
    /\ Len(m.jobs) <= Count /\ Len(m.seeds) <= Count
    /\ \A i \in DOMAIN m.jobs :
           /\ Len(m.jobs[i].gens) <= Images
           /\ m.jobs[i].status = "ingested" => m.jobs[i].made
    /\ ~m.there => m = NoState
    /\ m.there /\ m.jobs # <<>> => m.seeds # NoSeeds

\* The prompt a state holds for a job was submitted for that job.
OwnPrompts(m, cf) ==
    \A i \in DOMAIN m.jobs : m.jobs[i].prompt # NoPrompt =>
        m.jobs[i].prompt \in DOMAIN cf /\ cf[m.jobs[i].prompt].index = i

\* No key is used that was not drawn; a claimed row has keys of its own.
Drawn(m, k) ==
    /\ m.req <= k
    /\ \A i \in DOMAIN m.jobs :
           /\ m.jobs[i].key <= k
           /\ \A o \in DOMAIN m.jobs[i].gens : m.jobs[i].gens[o].key <= k

\* The run goes on from the file it read: same request, same seeds, the same
\* job at each place, none of them less far.
Ahead(d, m) ==
    d.there =>
        /\ m.there /\ m.req = d.req /\ m.seeds = d.seeds
        /\ \A i \in DOMAIN d.jobs :
               /\ i \in DOMAIN m.jobs /\ m.jobs[i].key = d.jobs[i].key
               /\ d.jobs[i].status = "ingested" => m.jobs[i].status = "ingested"

\* DiskIsTrue of any state, with any jobs and generations at chimera.
TrueOf(m, jb, gs) ==
    \A i \in DOMAIN m.jobs :
        LET mine == m.jobs[i]
            id   == JobId(m, i)
        IN  /\ mine.made => id \in DOMAIN jb
            /\ mine.status = "ingested" => jb[id].status = "ingested"
            /\ \A o \in DOMAIN mine.gens : mine.gens[o].registered =>
                   \E g \in gs : g.job = id /\ g.out = o /\ g.key = mine.gens[o].key

\* Whatever chimera has of a job the state lists was sent under a key it holds.
KeysOf(m, gs) ==
    \A g \in gs, i \in DOMAIN m.jobs : g.job = JobId(m, i) =>
        /\ g.out \in DOMAIN m.jobs[i].gens
        /\ m.jobs[i].gens[g.out].key = g.key

\* A state's prompts were drawn with its seeds, and chimera's jobs of its
\* request have them too.
SeedsOf(m, cf, jb) ==
    /\ \A i \in DOMAIN m.jobs : m.jobs[i].prompt # NoPrompt =>
           i \in DOMAIN m.seeds /\ cf[m.jobs[i].prompt].seed = m.seeds[i]
    /\ m.seeds # NoSeeds => \A id \in DOMAIN jb : id.req = m.req =>
           id.index \in DOMAIN m.seeds /\ jb[id].seed = m.seeds[id.index]

\* Of the run's state and of the file.
Shapes  == Shape(memory) /\ Shape(disk)

\* Each job's prompts are its own, also those chimera has the graph of.
Prompts ==
    /\ OwnPrompts(memory, comfy) /\ OwnPrompts(disk, comfy)
    /\ \A id \in DOMAIN job : job[id].graph # NoPrompt => comfy[job[id].graph].index = id.index

\* No key is in use that was not drawn, and indexes and outputs are within bounds.
KeysDrawn ==
    /\ keyed => key = 0
    /\ Drawn(memory, key) /\ Drawn(disk, key)
    /\ \A id \in DOMAIN job : id.req <= key /\ id.key <= key /\ id.index \in Indexes
    /\ \A g \in gens : g.key <= key /\ g.out \in 1..Images

\* Where the run is, what its state has.
Started ==
    /\ pc = "off" => memory = NoState
    /\ pc = "open" =>
           \/ disk.there /\ memory = disk
           \/ /\ ~disk.there /\ memory = [NoState EXCEPT !.req = memory.req, !.there = TRUE]
              /\ ~keyed => \A id \in DOMAIN job : id.req # memory.req
    /\ pc \notin Between => memory.there /\ memory.seeds # NoSeeds
    /\ pc \notin Between \cup {"opened"} => disk.there
    /\ disk.there => disk.seeds # NoSeeds

\* Where the loop over the jobs is, and what the job at hand has there.
AtJob ==
    /\ pc = "opened" => idx = 1
    /\ pc = "job" => idx <= Len(memory.jobs) + 1
    /\ pc \in InJob \cup {"over"} => idx \in DOMAIN memory.jobs /\ idx \in DOMAIN memory.seeds
    /\ pc \in InJob => Here.made /\ Here.status # "ingested"
    /\ pc = "failing" => Here.status = "failed"
    /\ pc = "over" => Here.status \in {"ingested", "failed"}
    /\ pc \in Prompted => Here.prompt # NoPrompt

\* Where the loop over the outputs is: those before it are registered.
AtOutput ==
    /\ pc \in Storing =>
           /\ out <= Len(Here.gens) + 1 /\ out <= Images + 1
           /\ \A o \in 1..(out - 1) : Here.gens[o].registered
    /\ pc \in {"keyed", "upload", "registered"} => out \in DOMAIN Here.gens
    /\ pc = "registered" => Here.gens[out].registered

\* Where the file is the run's state.
Stored == pc \in Saved => disk = memory

\* A run goes on from the file.
Follows == pc # "off" => Ahead(disk, memory)

\* Neither claims anything chimera does not have.
Truth     == TrueOf(memory, job, gens) /\ TrueOf(disk, job, gens)

\* What all the results below rest on.
CoreInv ==
    /\ TypeOK /\ Shapes /\ Prompts /\ KeysDrawn
    /\ Started /\ AtJob /\ AtOutput /\ Stored /\ Follows
    /\ Truth /\ IngestedIsWhole

-----------------------------------------------------------------------------
(* States and their entries.                                               *)

\* A state's lists are sequences of what they should be.
LEMMA StateLists ==
    ASSUME NEW m \in State
    PROVE  /\ m.req \in Nat /\ m.there \in BOOLEAN
           /\ Len(m.jobs) \in Nat /\ DOMAIN m.jobs = 1..Len(m.jobs)
           /\ Len(m.seeds) \in Nat /\ DOMAIN m.seeds = 1..Len(m.seeds)
           /\ \A i \in DOMAIN m.seeds : m.seeds[i] \in Nat
           /\ \A i \in DOMAIN m.jobs :
                  /\ m.jobs[i] \in Local
                  /\ Len(m.jobs[i].gens) \in Nat
                  /\ DOMAIN m.jobs[i].gens = 1..Len(m.jobs[i].gens)
                  /\ \A o \in DOMAIN m.jobs[i].gens : m.jobs[i].gens[o] \in Output
<1>1. /\ m.req \in Nat /\ m.there \in BOOLEAN
      /\ m.jobs \in Seq(Local) /\ m.seeds \in Seq(Nat)
      BY DEF State, Keys
<1>2. /\ Len(m.jobs) \in Nat /\ DOMAIN m.jobs = 1..Len(m.jobs)
      /\ Len(m.seeds) \in Nat /\ DOMAIN m.seeds = 1..Len(m.seeds)
      BY <1>1, LenProperties
<1>3. \A i \in DOMAIN m.seeds : m.seeds[i] \in Nat
      BY <1>1, <1>2, ElementOfSeq
<1>4. ASSUME NEW i \in DOMAIN m.jobs
      PROVE  /\ m.jobs[i] \in Local
             /\ Len(m.jobs[i].gens) \in Nat
             /\ DOMAIN m.jobs[i].gens = 1..Len(m.jobs[i].gens)
             /\ \A o \in DOMAIN m.jobs[i].gens : m.jobs[i].gens[o] \in Output
  <2>1. m.jobs[i] \in Local
        BY <1>1, <1>2, ElementOfSeq
  <2>2. m.jobs[i].gens \in Seq(Output)
        BY <2>1 DEF Local, Output
  <2>. QED
       BY <2>1, <2>2, LenProperties, ElementOfSeq
<1>. QED
     BY <1>1, <1>2, <1>3, <1>4

\* The state n is m with e as the job's entry at i.
Entry(m, n, i, e) ==
    /\ n \in State
    /\ n.req = m.req /\ n.seeds = m.seeds /\ n.there = m.there
    /\ DOMAIN n.jobs = DOMAIN m.jobs \cup {i}
    /\ n.jobs[i] = e
    /\ \A j \in DOMAIN m.jobs \ {i} : n.jobs[j] = m.jobs[j]

\* So it is when the entry is changed ...
LEMMA ChangedEntry ==
    ASSUME NEW m \in State, NEW i \in DOMAIN m.jobs, NEW e \in Local
    PROVE  Entry(m, [m EXCEPT !.jobs[i] = e], i, e)
<1>. DEFINE s == [m.jobs EXCEPT ![i] = e]
<1>1. m.jobs \in Seq(Local) /\ DOMAIN m.jobs = 1..Len(m.jobs)
      BY StateLists DEF State
<1>2. s \in Seq(Local)
      BY <1>1, ExceptSeq
<1>3. /\ DOMAIN s = DOMAIN m.jobs /\ s[i] = e
      /\ \A j \in DOMAIN m.jobs \ {i} : s[j] = m.jobs[j]
      OBVIOUS
<1>4. [m EXCEPT !.jobs[i] = e] = [m EXCEPT !.jobs = s]
      OBVIOUS
<1>. HIDE DEF s
<1>5. /\ [m EXCEPT !.jobs = s] \in State
      /\ [m EXCEPT !.jobs = s].req = m.req /\ [m EXCEPT !.jobs = s].seeds = m.seeds
      /\ [m EXCEPT !.jobs = s].there = m.there /\ [m EXCEPT !.jobs = s].jobs = s
      BY <1>2 DEF State
<1>. QED
     BY <1>3, <1>4, <1>5 DEF Entry

\* ... and when it is appended.
LEMMA AppendedEntry ==
    ASSUME NEW m \in State, NEW e \in Local
    PROVE  Entry(m, [m EXCEPT !.jobs = Append(@, e)], Len(m.jobs) + 1, e)
<1>. DEFINE s == Append(m.jobs, e)
<1>1. m.jobs \in Seq(Local) /\ Len(m.jobs) \in Nat /\ DOMAIN m.jobs = 1..Len(m.jobs)
      BY StateLists DEF State
<1>2. /\ s \in Seq(Local) /\ Len(s) = Len(m.jobs) + 1 /\ s[Len(m.jobs) + 1] = e
      /\ \A j \in 1..Len(m.jobs) : s[j] = m.jobs[j]
      BY <1>1, AppendProperties
<1>3. DOMAIN s = 1..Len(s)
      BY <1>2, LenProperties
<1>. HIDE DEF s
<1>4. DOMAIN s = DOMAIN m.jobs \cup {Len(m.jobs) + 1}
      BY <1>1, <1>2, <1>3
<1>5. /\ [m EXCEPT !.jobs = s] \in State
      /\ [m EXCEPT !.jobs = s].req = m.req /\ [m EXCEPT !.jobs = s].seeds = m.seeds
      /\ [m EXCEPT !.jobs = s].there = m.there /\ [m EXCEPT !.jobs = s].jobs = s
      BY <1>2 DEF State
<1>6. [m EXCEPT !.jobs = Append(@, e)] = [m EXCEPT !.jobs = s]
      BY DEF s
<1>. QED
     BY <1>1, <1>2, <1>4, <1>5, <1>6 DEF Entry

\* Changing what was appended is appending the changed entry.
LEMMA AppendedChanged ==
    ASSUME NEW m \in State, NEW n, NEW e \in Local, NEW f \in Local,
           n = [m EXCEPT !.jobs = Append(@, e)]
    PROVE  Entry(m, [n EXCEPT !.jobs[Len(m.jobs) + 1] = f], Len(m.jobs) + 1, f)
<1>1. Entry(m, n, Len(m.jobs) + 1, e)
      BY AppendedEntry
<1>2. n \in State /\ Len(m.jobs) + 1 \in DOMAIN n.jobs
      BY <1>1 DEF Entry
<1>3. Entry(n, [n EXCEPT !.jobs[Len(m.jobs) + 1] = f], Len(m.jobs) + 1, f)
      BY <1>2, ChangedEntry
<1>. QED
     BY <1>1, <1>3 DEF Entry

-----------------------------------------------------------------------------
(* What the steps of a job do to the run's state.                          *)

\* The entry of the job the loop is at: its own, or the one it is given.
Old == IF idx \in DOMAIN memory.jobs THEN Here ELSE NewJob(NewKey)

\* The parts of the invariant that are types.
LEMMA CoreTypes ==
    ASSUME CoreInv
    PROVE  /\ memory \in State /\ disk \in State
           /\ idx \in Nat \ {0} /\ out \in Nat \ {0} /\ key \in Nat /\ keyed \in BOOLEAN
           /\ Len(comfy) \in Nat /\ DOMAIN comfy = 1..Len(comfy)
           /\ NewKey \in Nat /\ key <= NewKey
<1>1. Len(comfy) \in Nat /\ DOMAIN comfy = 1..Len(comfy)
      BY LenProperties DEF CoreInv, TypeOK
<1>. QED
     BY <1>1, KeyedAssumption DEF CoreInv, TypeOK, Keys, NewKey, Fresh, KeysDrawn

\* An entry keeps its type in each of its parts.
LEMMA EntryParts ==
    ASSUME NEW e \in Local
    PROVE  /\ [e EXCEPT !.made = TRUE] \in Local
           /\ \A s \in {"new", "failed", "ingested"} : [e EXCEPT !.status = s] \in Local
           /\ \A p \in Nat : [e EXCEPT !.prompt = p] \in Local
           /\ \A s \in {"new", "failed", "ingested"}, p \in Nat :
                  [e EXCEPT !.status = s, !.prompt = p] \in Local
           /\ \A x \in Seq(Output) : [e EXCEPT !.gens = x] \in Local
<1>1. [e EXCEPT !.made = TRUE] \in Local
      BY DEF Local
<1>2. \A s \in {"new", "failed", "ingested"} : [e EXCEPT !.status = s] \in Local
      BY DEF Local
<1>3. \A p \in Nat : [e EXCEPT !.prompt = p] \in Local
      BY DEF Local
<1>4. \A s \in {"new", "failed", "ingested"}, p \in Nat :
          [e EXCEPT !.status = s, !.prompt = p] \in Local
      BY DEF Local
<1>5. \A x \in Seq(Output) : [e EXCEPT !.gens = x] \in Local
      BY DEF Local, Output
<1>. QED
     BY <1>1, <1>2, <1>3, <1>4, <1>5

\* The job at hand has an entry; the one to be created has one or gets one.
LEMMA OldEntry ==
    ASSUME CoreInv
    PROVE  /\ Old \in Local
           /\ idx \in DOMAIN memory.jobs => Old = Here
           /\ pc \in InJob \cup {"over"} => idx \in DOMAIN memory.jobs
           /\ pc = "job" => idx \in DOMAIN memory.jobs \/ idx = Len(memory.jobs) + 1
<1>. memory \in State /\ idx \in Nat \ {0} /\ NewKey \in Nat
     BY CoreTypes
<1>1. Old \in Local
  <2>1. CASE idx \in DOMAIN memory.jobs
        BY <2>1, StateLists DEF Old, Here
  <2>2. CASE idx \notin DOMAIN memory.jobs
    <3>1. <<>> \in Seq(Output)
          BY EmptySeq
    <3>2. NewJob(NewKey) \in Local
          BY <3>1 DEF NewJob, Local, NoPrompt, Keys, Output
    <3>. QED
         BY <2>2, <3>2 DEF Old
  <2>. QED
       BY <2>1, <2>2
<1>2. pc \in InJob \cup {"over"} => idx \in DOMAIN memory.jobs
      BY DEF CoreInv, AtJob
<1>3. pc = "job" => idx \in DOMAIN memory.jobs \/ idx = Len(memory.jobs) + 1
      BY StateLists DEF CoreInv, AtJob
<1>. QED
     BY <1>1, <1>2, <1>3 DEF Old

\* Creating a job marks its entry, which is appended if there is none.
LEMMA CreateEntry ==
    ASSUME CoreInv, CreateJob
    PROVE  Entry(memory, memory', idx, [Old EXCEPT !.made = TRUE])
<1>. memory \in State /\ Old \in Local /\ [Old EXCEPT !.made = TRUE] \in Local
     BY CoreTypes, OldEntry, EntryParts
<1>1. CASE idx \in DOMAIN memory.jobs
  <2>1. memory' = [memory EXCEPT !.jobs[idx] = [Old EXCEPT !.made = TRUE]]
        BY <1>1 DEF CreateJob, Listed, Old, Here
  <2>. QED
       BY <1>1, <2>1, ChangedEntry
<1>2. CASE idx \notin DOMAIN memory.jobs
  <2>1. idx = Len(memory.jobs) + 1
        BY <1>2, OldEntry DEF CreateJob, Creating, InLoop
  <2>2. Listed = [memory EXCEPT !.jobs = Append(@, Old)]
        BY <1>2 DEF Listed, Old
  <2>3. Entry(memory, Listed, idx, Old)
        BY <2>1, <2>2, AppendedEntry
  <2>4. memory' = [Listed EXCEPT !.jobs[idx] = [Old EXCEPT !.made = TRUE]]
        BY <2>3 DEF CreateJob, Entry
  <2>. QED
       BY <2>1, <2>2, <2>4, AppendedChanged
<1>. QED
     BY <1>1, <1>2

\* The entry of a job that failed, with the prompt p.
FailedEntry(p) == [Old EXCEPT !.status = "failed", !.prompt = p]

\* A failure takes down the status, and forgets a prompt it was replacing.
LEMMA FailEntry ==
    ASSUME CoreInv, JobFails
    PROVE  /\ \/ Entry(memory, memory', idx, FailedEntry(Old.prompt))
              \/ Entry(memory, memory', idx, FailedEntry(NoPrompt)) /\ Submitting
           /\ FailedEntry(Old.prompt) \in Local /\ FailedEntry(NoPrompt) \in Local
<1>. memory \in State /\ Old \in Local /\ Old.prompt \in Nat
     BY CoreTypes, OldEntry DEF Local
<1>1. FailedEntry(Old.prompt) \in Local /\ FailedEntry(NoPrompt) \in Local
      BY EntryParts DEF NoPrompt, FailedEntry
<1>2. PICK resubmitting \in BOOLEAN :
          /\ resubmitting => Submitting
          /\ memory' = [Listed EXCEPT
                  !.jobs[idx].status = "failed",
                  !.jobs[idx].prompt = IF resubmitting THEN NoPrompt ELSE @]
      BY DEF JobFails
<1>. DEFINE e == FailedEntry(IF resubmitting THEN NoPrompt ELSE Old.prompt)
<1>3. e \in Local
      BY <1>1
<1>4. Entry(memory, memory', idx, e)
  <2>1. CASE idx \in DOMAIN memory.jobs
    <3>1. memory' = [memory EXCEPT !.jobs[idx] = e]
          BY <1>2, <2>1 DEF Listed, Old, Here, FailedEntry
    <3>. QED
         BY <2>1, <3>1, <1>3, ChangedEntry
  <2>2. CASE idx \notin DOMAIN memory.jobs
    <3>1. idx = Len(memory.jobs) + 1
          BY <2>2, OldEntry DEF JobFails, InTry, Creating, InLoop, InJob
    <3>2. Listed = [memory EXCEPT !.jobs = Append(@, Old)]
          BY <2>2 DEF Listed, Old
    <3>3. Entry(memory, Listed, idx, Old)
          BY <3>1, <3>2, AppendedEntry
    <3>4. memory' = [Listed EXCEPT !.jobs[idx] = e]
          BY <1>2, <3>3 DEF Entry, FailedEntry
    <3>. HIDE DEF e
    <3>. QED
         BY <3>1, <3>2, <3>4, <1>3, AppendedChanged
  <2>. QED
       BY <2>1, <2>2
<1>5. CASE resubmitting
      BY <1>1, <1>2, <1>4, <1>5
<1>6. CASE ~resubmitting
      BY <1>1, <1>2, <1>4, <1>6
<1>. QED
     BY <1>5, <1>6

\* A submission takes down the new prompt ...
LEMMA SubmitEntry ==
    ASSUME CoreInv, Submit
    PROVE  Entry(memory, memory', idx, [Here EXCEPT !.prompt = Len(comfy) + 1])
<1>. /\ memory \in State /\ idx \in DOMAIN memory.jobs /\ Here \in Local
     /\ Len(comfy) + 1 \in Nat
     BY CoreTypes, OldEntry DEF Submit, Submitting, InJob
<1>1. [Here EXCEPT !.prompt = Len(comfy) + 1] \in Local
      BY EntryParts
<1>2. memory' = [memory EXCEPT !.jobs[idx] = [Here EXCEPT !.prompt = Len(comfy) + 1]]
      BY DEF Submit, Here
<1>. QED
     BY <1>1, <1>2, ChangedEntry

\* ... an output the loop is at its key ...
LEMMA KeyEntry ==
    ASSUME CoreInv, GiveKey, out \notin DOMAIN Here.gens
    PROVE  /\ out = Len(Here.gens) + 1
           /\ Entry(memory, memory', idx,
                    [Here EXCEPT !.gens = Append(@, [key |-> NewKey, registered |-> FALSE])])
<1>. DEFINE x == [key |-> NewKey, registered |-> FALSE]
            e == [Here EXCEPT !.gens = Append(@, x)]
<1>. /\ memory \in State /\ idx \in DOMAIN memory.jobs /\ Here \in Local /\ NewKey \in Nat
     /\ out \in Nat \ {0}
     BY CoreTypes, OldEntry DEF GiveKey, InJob
<1>1. out = Len(Here.gens) + 1
      BY StateLists DEF CoreInv, AtOutput, GiveKey, Here, Storing
<1>2. Here.gens \in Seq(Output) /\ x \in Output
      BY DEF Local, Output, Keys
<1>3. e \in Local
      BY <1>2, AppendProperties, EntryParts
<1>4. memory' = [memory EXCEPT !.jobs[idx] = e]
      BY DEF GiveKey, Here
<1>. HIDE DEF e
<1>5. Entry(memory, memory', idx, e)
      BY <1>3, <1>4, ChangedEntry
<1>. QED
     BY <1>1, <1>5 DEF e

\* ... an upload that the output is registered ...
LEMMA UploadEntry ==
    ASSUME CoreInv, Upload
    PROVE  /\ out \in DOMAIN Here.gens
           /\ Entry(memory, memory', idx, [Here EXCEPT !.gens[out].registered = TRUE])
<1>. DEFINE x == [Here.gens[out] EXCEPT !.registered = TRUE]
            s == [Here.gens EXCEPT ![out] = x]
            e == [Here EXCEPT !.gens = s]
<1>. /\ memory \in State /\ idx \in DOMAIN memory.jobs /\ Here \in Local
     BY CoreTypes, OldEntry DEF Upload, InJob
<1>1. out \in DOMAIN Here.gens
      BY DEF CoreInv, AtOutput, Upload
<1>2. Here.gens \in Seq(Output)
      BY DEF Local, Output
<1>2a. DOMAIN Here.gens = 1..Len(Here.gens)
      BY <1>2, LenProperties
<1>2b. Here.gens[out] \in Output
      BY <1>1, <1>2, <1>2a, ElementOfSeq
<1>3. x \in Output
      BY <1>2b DEF Output
<1>. HIDE DEF x
<1>4. s \in Seq(Output)
      BY <1>1, <1>2, <1>2a, <1>3, ExceptSeq
<1>. HIDE DEF s
<1>5. e \in Local
      BY <1>4, EntryParts
<1>6. memory' = [memory EXCEPT !.jobs[idx] = [Here EXCEPT !.gens[out].registered = TRUE]]
      BY DEF Upload, Here
<1>7. [Here EXCEPT !.gens[out].registered = TRUE] = e
      BY DEF s, x
<1>. QED
     BY <1>1, <1>5, <1>6, <1>7, ChangedEntry

\* ... and the end of the outputs that the job is ingested.
LEMMA IngestEntry ==
    ASSUME CoreInv, Ingest
    PROVE  Entry(memory, memory', idx, [Here EXCEPT !.status = "ingested"])
<1>. /\ memory \in State /\ idx \in DOMAIN memory.jobs /\ Here \in Local
     BY CoreTypes, OldEntry DEF Ingest, PatchJob, InJob
<1>1. [Here EXCEPT !.status = "ingested"] \in Local
      BY EntryParts
<1>2. memory' = [memory EXCEPT !.jobs[idx] = [Here EXCEPT !.status = "ingested"]]
      BY DEF Ingest, Here
<1>. QED
     BY <1>1, <1>2, ChangedEntry

-----------------------------------------------------------------------------
(* What a step does to chimera's records and to ComfyUI's prompts.         *)

\* The job at hand, as chimera knows or will know it.
ThisId == [req |-> memory.req, index |-> idx, key |-> Old.key]

\* It is what the calls of the job name.
LEMMA ThisIdHolds ==
    ASSUME CoreInv
    PROVE  /\ ThisId \in [req : Keys, index : Nat, key : Keys]
           /\ idx \in DOMAIN memory.jobs => HereId = ThisId
           /\ Creating => JobId(Listed, idx) = ThisId /\ idx \in DOMAIN memory.seeds
<1>. memory \in State /\ Old \in Local /\ idx \in Nat \ {0}
     BY CoreTypes, OldEntry
<1>1. ThisId \in [req : Keys, index : Nat, key : Keys]
      BY DEF ThisId, State, Local
<1>2. idx \in DOMAIN memory.jobs => HereId = ThisId
      BY DEF HereId, ThisId, JobId, Old, Here
<1>3. ASSUME Creating
      PROVE  JobId(Listed, idx) = ThisId /\ idx \in DOMAIN memory.seeds
  <2>1. CASE idx \in DOMAIN memory.jobs
        BY <1>3, <2>1 DEF Listed, JobId, ThisId, Old, Here, Creating, InLoop
  <2>2. CASE idx \notin DOMAIN memory.jobs
    <3>1. idx = Len(memory.jobs) + 1
          BY <1>3, <2>2, OldEntry DEF Creating, InLoop
    <3>2. Listed = [memory EXCEPT !.jobs = Append(@, Old)]
          BY <2>2 DEF Listed, Old
    <3>3. Entry(memory, Listed, idx, Old)
          BY <3>1, <3>2, AppendedEntry
    <3>. QED
         BY <1>3, <3>3 DEF Entry, JobId, ThisId, Creating, InLoop
  <2>. QED
       BY <2>1, <2>2
<1>. QED
     BY <1>1, <1>2, <1>3

\* The job at hand is at chimera once its entry says so.
LEMMA MadeIsThere ==
    ASSUME CoreInv, pc \in InJob
    PROVE  HereId \in DOMAIN job /\ HereId = ThisId /\ idx \in DOMAIN memory.jobs
<1>1. idx \in DOMAIN memory.jobs /\ Here.made
      BY DEF CoreInv, AtJob
<1>. QED
     BY <1>1, ThisIdHolds DEF CoreInv, Truth, TrueOf, HereId, Here

\* A job is created where its entry does not say it was, ...
Creates == Creating /\ job' = CreatedJobs

\* ... and patched where it was.
Patches == pc \in DOMAIN StatusAt /\ (pc = "output" => out > Images) /\ job' = PatchedJobs

\* No other step changes a job.
LEMMA JobSteps ==
    ASSUME Next
    PROVE  \/ UNCHANGED job
           \/ Creates /\ (CreateJob \/ JobFails)
           \/ Patches /\ (Tell \/ Run \/ Complete \/ Ingest \/ JobFails \/ Fail)
<1>1. CASE JobFails
  <2>. ASSUME CallArrives
       PROVE  \/ UNCHANGED job
              \/ Creates
              \/ Patches
       BY <1>1 DEF CallArrives, JobFails, InTry, Creates, Patches, StatusAt
  <2>. QED
       BY <1>1 DEF JobFails
<1>2. CASE CreateJob
      BY <1>2 DEF CreateJob, Creates
<1>3. CASE Tell \/ Run \/ Complete \/ Ingest \/ Fail
      BY <1>3 DEF Tell, Run, Complete, Ingest, Fail, PatchJob, Patches, StatusAt
<1>4. CASE \/ Begin \/ Open \/ Save \/ SkipIngested \/ SkipCreated \/ Resume \/ Submit
           \/ Rendered \/ SkipRegistered \/ GiveKey \/ Upload \/ Finish
      BY <1>4 DEF chimera, Begin, Open, Save, Proceed, SkipIngested, SkipCreated, Resume,
         Submit, Rendered, SkipRegistered, GiveKey, Upload, Finish
<1>5. CASE Rendering \/ Trouble
      BY <1>5 DEF chimera, Rendering, Trouble, Renders, Breaks, Forgets, Crash, LoseDisk
<1>. QED
     BY <1>1, <1>2, <1>3, <1>4, <1>5 DEF Next, Step

\* What a patch makes of a job's record.
LEMMA PatchedRecord ==
    ASSUME CoreInv, Patches
    PROVE  /\ HereId \in DOMAIN job /\ HereId = ThisId /\ pc \in InJob
           /\ idx \in DOMAIN memory.jobs
           /\ StatusAt[pc] \in Status
           /\ job' = [job EXCEPT ![HereId] =
                          [seed |-> job[HereId].seed, status |-> StatusAt[pc],
                           graph |-> IF pc = "tell" THEN Here.prompt ELSE job[HereId].graph]]
<1>1. pc \in InJob /\ StatusAt[pc] \in Status
      BY DEF Patches, StatusAt, InJob, Status
<1>2. HereId \in DOMAIN job /\ HereId = ThisId /\ idx \in DOMAIN memory.jobs
      BY <1>1, MadeIsThere
<1>. DEFINE r == job[HereId]
            s == StatusAt[pc]
            p == IF pc = "tell" THEN Here.prompt ELSE job[HereId].graph
<1>3. r \in [seed : Nat, status : Status, graph : DOMAIN comfy \cup {NoPrompt}]
      BY <1>2 DEF CoreInv, TypeOK
<1>4. job' = [job EXCEPT ![HereId] = [r EXCEPT !.status = s, !.graph = p]]
      BY DEF Patches, PatchedJobs
<1>. HIDE DEF r, s, p
<1>5. /\ [r EXCEPT !.status = s] = [seed |-> r.seed, status |-> s, graph |-> r.graph]
      /\ [[seed |-> r.seed, status |-> s, graph |-> r.graph] EXCEPT !.graph = p]
             = [seed |-> r.seed, status |-> s, graph |-> p]
      BY <1>3
<1>6. [r EXCEPT !.status = s, !.graph = p] = [[r EXCEPT !.status = s] EXCEPT !.graph = p]
      BY <1>3
<1>7. job' = [job EXCEPT ![HereId] = [seed |-> r.seed, status |-> s, graph |-> p]]
      BY <1>4, <1>5, <1>6
<1>. QED
     BY <1>1, <1>2, <1>7 DEF r, s, p

\* Only the job at hand changes, and only where it is not ingested yet; no job's
\* seed does, and its graph only when it is queued.
LEMMA JobEffect ==
    ASSUME CoreInv, Next
    PROVE  /\ DOMAIN job \subseteq DOMAIN job' /\ DOMAIN job' \subseteq DOMAIN job \cup {ThisId}
           /\ \A id \in DOMAIN job :
                  /\ job'[id].seed = job[id].seed
                  /\ id # ThisId => job'[id] = job[id]
                  /\ job'[id].graph \in {job[id].graph, Here.prompt}
                  /\ job'[id].graph # job[id].graph => pc = "tell"
           /\ ThisId \in DOMAIN job' \ DOMAIN job =>
                  /\ job'[ThisId] =
                         [seed |-> memory.seeds[idx], status |-> "new", graph |-> NoPrompt]
                  /\ Creating
           /\ job' # job =>
                  /\ pc \in InJob \cup {"job"}
                  /\ idx \in DOMAIN memory.jobs => memory.jobs[idx].status # "ingested"
<1>1. CASE UNCHANGED job
      BY <1>1
<1>2. CASE Creates
  <2>1. JobId(Listed, idx) = ThisId
        BY <1>2, ThisIdHolds DEF Creates
  <2>2. job' = job \/ /\ ThisId \notin DOMAIN job
                      /\ job' = With(job, ThisId, [seed |-> memory.seeds[idx],
                                                   status |-> "new", graph |-> NoPrompt])
        BY <1>2, <2>1 DEF Creates, CreatedJobs
  <2>. QED
       BY <1>2, <2>2 DEF With, Creates, Creating, InLoop, Here
<1>3. CASE Patches
  <2>1. memory.jobs[idx].status # "ingested"
        BY <1>3, PatchedRecord DEF CoreInv, AtJob, Here
  <2>. QED
       BY <1>3, <2>1, PatchedRecord
<1>. QED
     BY <1>1, <1>2, <1>3, JobSteps

\* A generation is recorded by an upload.
LEMMA GensSteps ==
    ASSUME Next
    PROVE  \/ UNCHANGED gens
           \/ (Upload \/ JobFails) /\ pc = "upload" /\ gens' = UploadedGens
<1>1. CASE JobFails
      BY <1>1 DEF JobFails, CallArrives
<1>2. CASE \/ Begin \/ Open \/ Save \/ SkipIngested \/ SkipCreated \/ CreateJob \/ Resume
           \/ Submit \/ Tell \/ Run \/ Rendered \/ Complete \/ SkipRegistered \/ GiveKey
           \/ Ingest \/ Fail \/ Finish
      BY <1>2 DEF chimera, Begin, Open, Save, Proceed, SkipIngested, SkipCreated, CreateJob,
         Resume, Submit, Tell, Run, PatchJob, Rendered, Complete, SkipRegistered, GiveKey,
         Ingest, Fail, Finish
<1>3. CASE Rendering \/ Trouble
      BY <1>3 DEF chimera, Rendering, Trouble, Renders, Breaks, Forgets, Crash, LoseDisk
<1>4. CASE Upload
      BY <1>4 DEF Upload
<1>. QED
     BY <1>1, <1>2, <1>3, <1>4 DEF Next, Step

\* The generation of the job and output at hand, under the key in the state.
Uploaded == [job |-> HereId, out |-> out, key |-> Here.gens[out].key, prompt |-> Here.prompt]

\* That is the only one a step adds.
LEMMA GensEffect ==
    ASSUME CoreInv, Next
    PROVE  /\ gens \subseteq gens'
           /\ \A g \in gens' \ gens : pc = "upload" /\ g = Uploaded
           /\ Upload => \E g \in gens' : g.job = HereId /\ g.out = out /\ g.key = Here.gens[out].key
<1>1. ASSUME gens' = UploadedGens
      PROVE  \E g \in gens' : g.job = HereId /\ g.out = out /\ g.key = Here.gens[out].key
  <2>1. CASE \E h \in gens : [h EXCEPT !.prompt = Uploaded.prompt] = Uploaded
    <3>1. PICK h \in gens : [h EXCEPT !.prompt = Uploaded.prompt] = Uploaded
          BY <2>1
    <3>2. h.job = HereId /\ h.out = out /\ h.key = Here.gens[out].key
      <4>1. h \in [job : DOMAIN job, out : Nat, key : Keys, prompt : DOMAIN comfy]
            BY DEF CoreInv, TypeOK
      <4>. QED
           BY <3>1, <4>1 DEF Uploaded
    <3>. QED
         BY <1>1, <2>1, <3>2 DEF UploadedGens, Uploaded
  <2>2. CASE ~\E h \in gens : [h EXCEPT !.prompt = Uploaded.prompt] = Uploaded
    <3>1. gens' = gens \cup {Uploaded}
          BY <1>1, <2>2 DEF UploadedGens, Uploaded
    <3>2. Uploaded \in gens'
          BY <3>1
    <3>3. Uploaded.job = HereId /\ Uploaded.out = out /\ Uploaded.key = Here.gens[out].key
          BY DEF Uploaded
    <3>. QED
         BY <3>2, <3>3
  <2>. QED
       BY <2>1, <2>2
<1>2. Upload => gens' = UploadedGens
      BY DEF Upload
<1>3. UNCHANGED gens \/ (pc = "upload" /\ gens' = UploadedGens)
      BY GensSteps
<1>. QED
     BY <1>1, <1>2, <1>3 DEF UploadedGens, Uploaded

\* A prompt as ComfyUI knows it.
Prompt == [index : Nat, seed : Nat, state : {"queued", "success", "error", "forgotten"}]

\* The prompts change in their state, or one is submitted.
LEMMA ComfySteps ==
    ASSUME Next
    PROVE  \/ UNCHANGED comfy
           \/ \E p \in DOMAIN comfy, s \in {"success", "error"} : Ends(p, s)
           \/ comfy' = [p \in DOMAIN comfy |-> [comfy[p] EXCEPT !.state = "forgotten"]]
           \/ /\ Submitting /\ comfy' = Submitted
              /\ \/ Submit
                 \/ JobFails /\ orphan' = orphan \cup {Len(comfy) + 1}
<1>1. CASE JobFails
      BY <1>1 DEF JobFails, CallArrives
<1>2. CASE \/ Begin \/ Open \/ Save \/ SkipIngested \/ SkipCreated \/ CreateJob \/ Resume
           \/ Tell \/ Run \/ Rendered \/ Complete \/ SkipRegistered \/ GiveKey
           \/ Upload \/ Ingest \/ Fail \/ Finish \/ Crash \/ LoseDisk
      BY <1>2 DEF Begin, Open, Save, Proceed, SkipIngested, SkipCreated, CreateJob, Resume,
         Tell, Run, PatchJob, Rendered, Complete, SkipRegistered, GiveKey, Upload, Ingest,
         Fail, Finish, Crash, LoseDisk
<1>3. CASE Submit
      BY <1>3 DEF Submit
<1>4. CASE Rendering \/ \E p \in DOMAIN comfy : Breaks(p)
      BY <1>4 DEF Rendering, Renders, Breaks
<1>5. CASE Forgets
      BY <1>5 DEF Forgets
<1>. QED
     BY <1>1, <1>2, <1>3, <1>4, <1>5 DEF Next, Step, Trouble

\* A submission adds a prompt of the job at hand, with its seed.
LEMMA SubmitsOne ==
    ASSUME CoreInv, Submitting, comfy' = Submitted
    PROVE  /\ comfy' \in Seq(Prompt)
           /\ DOMAIN comfy' = DOMAIN comfy \cup {Len(comfy) + 1}
           /\ Len(comfy) + 1 \notin DOMAIN comfy
           /\ comfy'[Len(comfy) + 1]
                  = [index |-> idx, seed |-> memory.seeds[idx], state |-> "queued"]
           /\ \A p \in DOMAIN comfy : comfy'[p] = comfy[p]
<1>. DEFINE new == [index |-> idx, seed |-> memory.seeds[idx], state |-> "queued"]
<1>1. comfy \in Seq(Prompt) /\ DOMAIN comfy = 1..Len(comfy) /\ Len(comfy) \in Nat
      BY CoreTypes DEF CoreInv, TypeOK, Prompt
<1>2. idx \in DOMAIN memory.seeds
      BY DEF Submitting, CoreInv, AtJob, InJob
<1>3. new \in Prompt
      BY <1>2, CoreTypes, StateLists DEF Prompt
<1>4. comfy' = Append(comfy, new)
      BY DEF Submitted
<1>. HIDE DEF new
<1>5. /\ comfy' \in Seq(Prompt) /\ Len(comfy') = Len(comfy) + 1
      /\ comfy'[Len(comfy) + 1] = new
      /\ \A q \in 1..Len(comfy) : comfy'[q] = comfy[q]
      BY <1>1, <1>3, <1>4, AppendProperties
<1>6. DOMAIN comfy' = 1..Len(comfy')
      BY <1>5, LenProperties
<1>7. DOMAIN comfy' = DOMAIN comfy \cup {Len(comfy) + 1}
      BY <1>1, <1>5, <1>6
<1>. QED
     BY <1>1, <1>5, <1>7 DEF new

\* What a prompt was submitted for stays, one that was forgotten too, and a new
\* one is of the job at hand.
LEMMA ComfyEffect ==
    ASSUME CoreInv, Next
    PROVE  /\ comfy' \in Seq(Prompt)
           /\ DOMAIN comfy \subseteq DOMAIN comfy'
           /\ \A p \in DOMAIN comfy :
                  /\ comfy'[p].index = comfy[p].index /\ comfy'[p].seed = comfy[p].seed
                  /\ comfy[p].state = "forgotten" => comfy'[p].state = "forgotten"
           /\ \/ DOMAIN comfy' = DOMAIN comfy
              \/ /\ Submitting /\ (Submit \/ JobFails)
                 /\ DOMAIN comfy' = DOMAIN comfy \cup {Len(comfy) + 1}
                 /\ Len(comfy) + 1 \notin DOMAIN comfy
                 /\ \A p \in DOMAIN comfy : comfy'[p] = comfy[p]
                 /\ comfy'[Len(comfy) + 1] =
                        [index |-> idx, seed |-> memory.seeds[idx], state |-> "queued"]
                 /\ JobFails /\ ~Submit => Len(comfy) + 1 \in orphan'
<1>. comfy \in Seq(Prompt)
     BY DEF CoreInv, TypeOK, Prompt
<1>. DOMAIN comfy = 1..Len(comfy) /\ Len(comfy) \in Nat
     BY LenProperties
<1>. \A p \in DOMAIN comfy : comfy[p] \in Prompt
     BY ElementOfSeq
<1>1. CASE UNCHANGED comfy
      BY <1>1
<1>2. CASE \E p \in DOMAIN comfy, s \in {"success", "error"} : Ends(p, s)
  <2>1. PICK p \in DOMAIN comfy, s \in {"success", "error"} : Ends(p, s)
        BY <1>2
  <2>. DEFINE e == [comfy[p] EXCEPT !.state = s]
  <2>2. /\ e \in Prompt /\ e.index = comfy[p].index /\ e.seed = comfy[p].seed
        /\ comfy[p].state # "forgotten"
        BY <2>1 DEF Prompt, Ends
  <2>3. comfy' = [comfy EXCEPT ![p] = e]
        BY <2>1 DEF Ends
  <2>. HIDE DEF e
  <2>4. comfy' \in Seq(Prompt) /\ Len(comfy') = Len(comfy)
        /\ \A q \in 1..Len(comfy) : comfy'[q] = IF q = p THEN e ELSE comfy[q]
        BY <2>2, <2>3, ExceptSeq
  <2>5. DOMAIN comfy' = 1..Len(comfy')
        BY <2>4, LenProperties
  <2>. QED
       BY <2>2, <2>4, <2>5
<1>3. CASE comfy' = [p \in DOMAIN comfy |-> [comfy[p] EXCEPT !.state = "forgotten"]]
  <2>1. \A q \in 1..Len(comfy) :
            /\ comfy'[q] = [comfy[q] EXCEPT !.state = "forgotten"]
            /\ comfy'[q] \in Prompt
        BY <1>3 DEF Prompt
  <2>2. comfy' \in [1..Len(comfy) -> Prompt]
        BY <1>3, <2>1
  <2>3. comfy' \in Seq(Prompt) /\ DOMAIN comfy' = DOMAIN comfy
        BY <1>3, <2>2, SeqDef
  <2>. QED
       BY <2>1, <2>3 DEF Prompt
<1>4. CASE /\ Submitting /\ comfy' = Submitted
           /\ \/ Submit
              \/ JobFails /\ orphan' = orphan \cup {Len(comfy) + 1}
  <2>1. JobFails /\ ~Submit => Len(comfy) + 1 \in orphan'
        BY <1>4
  <2>2. \A p \in DOMAIN comfy : p \in DOMAIN comfy' /\ comfy'[p] = comfy[p]
        BY <1>4, SubmitsOne
  <2>. QED
       BY <1>4, <2>1, <2>2, SubmitsOne
<1>. QED
     BY <1>1, <1>2, <1>3, <1>4, ComfySteps

\* The run's state is read, opened, changed in the entry at hand, or dropped.
LEMMA MemorySteps ==
    ASSUME Next
    PROVE  \/ UNCHANGED memory
           \/ Begin \/ Open \/ CreateJob \/ Submit \/ Upload \/ Ingest \/ JobFails
           \/ GiveKey /\ out \notin DOMAIN Here.gens
           \/ (Finish \/ Crash) /\ memory' = NoState /\ pc' = "off"
<1>1. CASE \/ Save \/ SkipIngested \/ SkipCreated \/ Resume
           \/ Tell \/ Run \/ Rendered \/ Complete \/ SkipRegistered \/ Fail
      BY <1>1 DEF run, Save, Proceed, SkipIngested, SkipCreated, Resume, Tell, Run, PatchJob,
         Rendered, Complete, SkipRegistered, Fail
<1>2. CASE GiveKey \/ Finish \/ Crash
      BY <1>2 DEF GiveKey, Finish, Crash, NoRun
<1>3. CASE Rendering \/ (\E p \in DOMAIN comfy : Breaks(p)) \/ Forgets \/ LoseDisk
      BY <1>3 DEF run, Rendering, Renders, Breaks, Forgets, LoseDisk
<1>. QED
     BY <1>1, <1>2, <1>3 DEF Next, Step, Trouble

\* The state file is saved, or lost between two runs.
LEMMA DiskSteps ==
    ASSUME Next
    PROVE  \/ UNCHANGED disk
           \/ Save /\ disk' = memory
           \/ LoseDisk /\ disk' = NoState /\ pc = "off" /\ pc' = "off"
<1>1. CASE \/ Begin \/ Open \/ SkipIngested \/ SkipCreated \/ CreateJob \/ Resume \/ Submit
           \/ Tell \/ Run \/ Rendered \/ Complete \/ SkipRegistered \/ GiveKey
           \/ Upload \/ Ingest \/ JobFails \/ Fail \/ Finish \/ Crash
      BY <1>1 DEF Begin, Open, SkipIngested, SkipCreated, CreateJob, Resume, Submit,
         Tell, Run, PatchJob, Rendered, Complete, SkipRegistered, GiveKey, Upload, Ingest,
         JobFails, Fail, Finish, Crash
<1>2. CASE Save \/ LoseDisk
      BY <1>2 DEF Save, LoseDisk
<1>3. CASE Rendering \/ (\E p \in DOMAIN comfy : Breaks(p)) \/ Forgets
      BY <1>3 DEF Rendering, Renders, Breaks, Forgets
<1>. QED
     BY <1>1, <1>2, <1>3 DEF Next, Step, Trouble

-----------------------------------------------------------------------------
(* The state a run opens with.                                             *)

\* Of some numbers up to the count one is the least.
LEMMA Least ==
    ASSUME NEW T \in SUBSET (0..Count), T # {}
    PROVE  \E l \in T : \A k \in T : l <= k
<1>. DEFINE F == {1..k : k \in T}
<1>1. IsWellFoundedOn(StrictSubsetOrdering(Nat), FiniteSubsetsOf(Nat))
      BY FS_StrictSubsetOrderingWellFounded
<1>2. \A k \in T : IsFiniteSet(1..k) /\ 1..k \subseteq Nat
      BY FS_Interval
<1>3. F \subseteq FiniteSubsetsOf(Nat) /\ F # {}
      BY <1>2 DEF FiniteSubsetsOf
<1>4. \E x \in F : \A y \in F : ~(<<y, x>> \in StrictSubsetOrdering(Nat))
      BY <1>1, <1>3, WFMin
<1>5. PICK l \in T : \A k \in T : ~(<<1..k, 1..l>> \in StrictSubsetOrdering(Nat))
      BY <1>4
<1>6. ASSUME NEW k \in T, k < l
      PROVE  FALSE
  <2>1. 1..k \subseteq 1..l /\ 1..k # 1..l
        BY <1>6
  <2>2. <<1..k, 1..l>> \in StrictSubsetOrdering(Nat)
        BY <2>1, <1>2 DEF StrictSubsetOrdering
  <2>. QED
       BY <1>5, <2>2
<1>. QED
     BY <1>5, <1>6

\* What goes down to one is an interval.
LEMMA Interval ==
    ASSUME NEW S \in SUBSET Indexes, \A i \in S : \A j \in 1..i : j \in S
    PROVE  \E l \in 0..Count : S = 1..l
<1>. DEFINE T == {k \in 0..Count : S \subseteq 1..k}
<1>1. T \in SUBSET (0..Count) /\ Count \in T
      BY DEF Indexes
<1>2. PICK l \in T : \A k \in T : l <= k
      BY <1>1, Least
<1>3. S \subseteq 1..l
      BY <1>2
<1>4. l = 0 \/ l \in S
  <2>. SUFFICES ASSUME l # 0, l \notin S
                PROVE  FALSE
       OBVIOUS
  <2>1. l - 1 \in T
        BY <1>3
  <2>. QED
       BY <1>2, <2>1
<1>5. 1..l \subseteq S
  <2>1. CASE l = 0
        BY <2>1
  <2>2. CASE l \in S
        BY <2>2
  <2>. QED
       BY <1>4, <2>1, <2>2
<1>. QED
     BY <1>3, <1>5

\* Among some indexes each one has its rank.
LEMMA Ranks ==
    ASSUME NEW A \in SUBSET Indexes, NEW n \in 1..Cardinality(A)
    PROVE  \E i \in A : Cardinality(A \cap 1..i) = n
<1>. DEFINE T == {k \in 0..Count : Cardinality(A \cap 1..k) >= n}
<1>1. IsFiniteSet(A) /\ Cardinality(A) \in Nat
  <2>1. IsFiniteSet(Indexes)
        BY FS_Interval DEF Indexes
  <2>2. IsFiniteSet(A)
        BY <2>1, FS_Subset
  <2>. QED
       BY <2>2, FS_CardinalityType
<1>2. \A k \in 0..Count : IsFiniteSet(A \cap 1..k) /\ Cardinality(A \cap 1..k) \in Nat
      BY <1>1, FS_Subset, FS_CardinalityType
<1>3. A \cap 1..Count = A
      BY DEF Indexes
<1>4. T \in SUBSET (0..Count) /\ Count \in T
      BY <1>1, <1>3
<1>5. PICK l \in T : \A k \in T : l <= k
      BY <1>4, Least
<1>6. l # 0
  <2>1. A \cap 1..0 = {}
        OBVIOUS
  <2>. QED
       BY <1>5, <2>1, FS_EmptySet
<1>7. l - 1 \in 0..Count /\ Cardinality(A \cap 1..(l - 1)) < n
      BY <1>2, <1>5, <1>6
<1>8. l \in A
  <2>. SUFFICES ASSUME l \notin A
                PROVE  FALSE
       OBVIOUS
  <2>1. A \cap 1..l = A \cap 1..(l - 1)
        OBVIOUS
  <2>. QED
       BY <1>5, <1>7, <2>1
<1>9. A \cap 1..l = (A \cap 1..(l - 1)) \cup {l}
      BY <1>8 DEF Indexes
<1>10. Cardinality(A \cap 1..l) = Cardinality(A \cap 1..(l - 1)) + 1
  <2>1. IsFiniteSet(A \cap 1..(l - 1)) /\ l \notin A \cap 1..(l - 1)
        BY <1>2, <1>7
  <2>. QED
       BY <1>9, <2>1, FS_AddElement
<1>11. /\ Cardinality(A \cap 1..l) \in Nat /\ Cardinality(A \cap 1..l) >= n
       /\ Cardinality(A \cap 1..(l - 1)) \in Nat
      BY <1>2, <1>5, <1>7
<1>12. n \in Nat
      BY <1>1
<1>. HIDE DEF T
<1>13. Cardinality(A \cap 1..l) = n
      BY <1>7, <1>10, <1>11, <1>12
<1>. QED
     BY <1>8, <1>13

\* What the answer of the worker's resend says: it has jobs of a claimed row, of
\* which there is one for each index.
LEMMA AnswerFacts ==
    ASSUME CoreInv
    PROVE  /\ Answer(memory) \subseteq Indexes
           /\ Answer(memory) # {} => keyed /\ memory.req = 0
           /\ \A i \in Answer(memory) :
                  /\ Resent(memory, i) = [req |-> 0, index |-> i, key |-> 0]
                  /\ Resent(memory, i) \in DOMAIN job
                  /\ job[Resent(memory, i)]
                         \in [seed : Nat, status : Status, graph : DOMAIN comfy \cup {NoPrompt}]
           /\ \A id \in DOMAIN job : keyed /\ id.req = memory.req => id.index \in Answer(memory)
<1>. memory \in State /\ memory.req \in Nat
     BY CoreTypes, StateLists
<1>1. Answer(memory) \subseteq Indexes
      BY DEF Answer, JobsOf, CoreInv, KeysDrawn
<1>2. ASSUME keyed
      PROVE  memory.req = 0
      BY <1>2 DEF CoreInv, KeysDrawn, Drawn
<1>3. ASSUME NEW i \in Answer(memory)
      PROVE  /\ keyed
             /\ Resent(memory, i) = [req |-> 0, index |-> i, key |-> 0]
             /\ Resent(memory, i) \in DOMAIN job
             /\ job[Resent(memory, i)]
                    \in [seed : Nat, status : Status, graph : DOMAIN comfy \cup {NoPrompt}]
  <2>1. keyed /\ \E id \in JobsOf(memory) : id.index = i
        BY DEF Answer
  <2>2. Resent(memory, i) \in JobsOf(memory) /\ Resent(memory, i).index = i
        BY <2>1 DEF Resent
  <2>3. /\ Resent(memory, i) \in DOMAIN job /\ Resent(memory, i).req = 0
        BY <1>2, <2>1, <2>2 DEF JobsOf
  <2>4. Resent(memory, i) \in [req : Nat, index : Nat, key : Nat]
        BY <2>3 DEF CoreInv, TypeOK, Keys
  <2>5. Resent(memory, i).key = 0
        BY <2>1, <2>3, <2>4 DEF CoreInv, KeysDrawn
  <2>6. Resent(memory, i) = [req |-> 0, index |-> i, key |-> 0]
        BY <2>2, <2>3, <2>4, <2>5
  <2>7. job[Resent(memory, i)]
            \in [seed : Nat, status : Status, graph : DOMAIN comfy \cup {NoPrompt}]
        BY <2>3 DEF CoreInv, TypeOK
  <2>. QED
       BY <2>1, <2>3, <2>6, <2>7
<1>4. ASSUME NEW id \in DOMAIN job, keyed, id.req = memory.req
      PROVE  id.index \in Answer(memory)
      BY <1>4 DEF Answer, JobsOf
<1>. QED
     BY <1>1, <1>2, <1>3, <1>4

\* The seeds a run opens with are some, and no more than the count.
LEMMA SeedsAdopted ==
    ASSUME CoreInv, NEW s \in AdoptedSeeds(memory)
    PROVE  s \in Seq(Nat) /\ Len(s) <= Count /\ s # NoSeeds
<1>1. CASE memory.seeds # NoSeeds
      BY <1>1, CoreTypes DEF AdoptedSeeds, CoreInv, Shapes, Shape, State
<1>2. CASE memory.seeds = NoSeeds /\ Answer(memory) # {}
  <2>. DEFINE A == Answer(memory)
              n == Cardinality(A)
              seedAt(k) == job[Resent(memory, CHOOSE i \in A : Cardinality(A \cap 1..i) = k)].seed
  <2>1. A \in SUBSET Indexes /\ \A i \in A : job[Resent(memory, i)].seed \in Nat
        BY AnswerFacts
  <2>2. n \in Nat /\ n <= Count /\ n # 0
    <3>1. IsFiniteSet(Indexes) /\ Cardinality(Indexes) = Count
          BY FS_Interval DEF Indexes
    <3>2. IsFiniteSet(A) /\ n <= Count
          BY <2>1, <3>1, FS_Subset
    <3>. QED
         BY <1>2, <3>2, FS_CardinalityType, FS_EmptySet
  <2>3. \A k \in 1..n : seedAt(k) \in Nat
    <3>1. ASSUME NEW k \in 1..n
          PROVE  seedAt(k) \in Nat
      <4>1. \E i \in A : Cardinality(A \cap 1..i) = k
            BY <2>1, Ranks
      <4>2. (CHOOSE i \in A : Cardinality(A \cap 1..i) = k) \in A
            BY <4>1
      <4>. QED
           BY <2>1, <4>2
    <3>. QED
         BY <3>1
  <2>4. s = [k \in 1..n |-> seedAt(k)]
        BY <1>2 DEF AdoptedSeeds, AnsweredSeeds
  <2>. HIDE DEF n, seedAt
  <2>5. s \in [1..n -> Nat]
        BY <2>3, <2>4
  <2>6. s \in Seq(Nat) /\ DOMAIN s = 1..n
        BY <2>2, <2>5, SeqDef
  <2>7. Len(s) = n
        BY <2>2, <2>6, LenProperties
  <2>. QED
       BY <2>2, <2>6, <2>7, EmptySeq DEF NoSeeds
<1>3. CASE memory.seeds = NoSeeds /\ Answer(memory) = {}
  <2>1. s \in Seq(Nat) /\ Len(s) = Count
        BY <1>3, SeedAssumption DEF AdoptedSeeds
  <2>. QED
       BY <2>1, EmptySeq DEF NoSeeds
<1>. QED
     BY <1>1, <1>2, <1>3

\* The entry at a place, or the one that fills it.
Mine(m, i) == IF i \in DOMAIN m.jobs THEN m.jobs[i] ELSE NewJob(0)

\* It is an entry.
LEMMA MineType ==
    ASSUME NEW m \in State, NEW i
    PROVE  Mine(m, i) \in Local
<1>1. CASE i \in DOMAIN m.jobs
      BY <1>1, StateLists DEF Mine
<1>2. CASE i \notin DOMAIN m.jobs
  <2>1. <<>> \in Seq(Output)
        BY EmptySeq
  <2>2. NewJob(0) \in Local
        BY <2>1 DEF NewJob, Local, NoPrompt, Keys, Output
  <2>. QED
       BY <1>2, <2>2 DEF Mine
<1>. QED
     BY <1>1, <1>2

\* An adopted entry is ingested, with every image of its prompt.
LEMMA AdoptedEntry ==
    ASSUME CoreInv, NEW i \in Answer(memory), job[Resent(memory, i)].status = "ingested",
           NEW e, e = Adopted(memory, i)
    PROVE  /\ e \in Local /\ e.key = Mine(memory, i).key /\ e.made /\ e.status = "ingested"
           /\ e.prompt = IF job[Resent(memory, i)].graph # NoPrompt
                           THEN job[Resent(memory, i)].graph ELSE Mine(memory, i).prompt
           /\ DOMAIN e.gens = 1..Images /\ Len(e.gens) = Images
           /\ \A o \in 1..Images :
                  e.gens[o] = IF o \in DOMAIN Mine(memory, i).gens THEN Mine(memory, i).gens[o]
                              ELSE [key |-> 0, registered |-> TRUE]
<1>. DEFINE m == Mine(memory, i)
            id == Resent(memory, i)
            p == IF job[id].graph # NoPrompt THEN job[id].graph ELSE m.prompt
            outs == DOMAIN m.gens \cup {g.out : g \in GensOf(id)}
            s == [o \in outs |-> IF o \in DOMAIN m.gens THEN m.gens[o]
                                 ELSE [key |-> 0, registered |-> TRUE]]
<1>1. m \in Local
      BY MineType, CoreTypes
<1>2. /\ id \in DOMAIN job
      /\ job[id] \in [seed : Nat, status : Status, graph : DOMAIN comfy \cup {NoPrompt}]
      BY AnswerFacts
<1>3. p \in Nat
  <2>1. DOMAIN comfy \subseteq Nat /\ NoPrompt \in Nat
        BY CoreTypes DEF NoPrompt
  <2>. QED
       BY <1>1, <1>2, <2>1 DEF Local
<1>4. m.gens \in Seq(Output)
      BY <1>1 DEF Local, Output
<1>5. /\ Len(m.gens) \in Nat /\ Len(m.gens) <= Images
      /\ DOMAIN m.gens = 1..Len(m.gens)
      /\ \A o \in DOMAIN m.gens : m.gens[o] \in Output
  <2>1. Len(m.gens) <= Images
        BY EmptySeq DEF Mine, CoreInv, Shapes, Shape, NewJob
  <2>. QED
       BY <1>4, <2>1, LenProperties, ElementOfSeq
<1>6. {g.out : g \in GensOf(id)} = 1..Images
      BY <1>2 DEF CoreInv, IngestedIsWhole
<1>7. outs = 1..Images
      BY <1>5, <1>6
<1>8. e = [m EXCEPT !.status = "ingested", !.made = TRUE, !.prompt = p, !.gens = s]
      BY DEF Adopted, Mine
<1>9. s \in [1..Images -> Output]
      BY <1>5, <1>7 DEF Output, Keys
<1>10. s \in Seq(Output) /\ Len(s) = Images
  <2>. HIDE DEF s
  <2>1. s \in Seq(Output) /\ DOMAIN s = 1..Images
        BY <1>9, SeqDef
  <2>2. Len(s) \in Nat /\ DOMAIN s = 1..Len(s)
        BY <2>1, LenProperties
  <2>. QED
       BY <2>1, <2>2
<1>11. \A o \in 1..Images : s[o] = IF o \in DOMAIN m.gens THEN m.gens[o]
                                   ELSE [key |-> 0, registered |-> TRUE]
      BY <1>7
<1>. HIDE DEF m, s, p, outs, id
<1>12. /\ e \in Local /\ e.key = m.key /\ e.made /\ e.status = "ingested"
       /\ e.prompt = p /\ e.gens = s
      BY <1>1, <1>3, <1>8, <1>10 DEF Local, Output
<1>. QED
     BY <1>9, <1>10, <1>11, <1>12 DEF m, p, id

\* The jobs a run opens with are those of its state and of the answer, the
\* ingested ones of the answer taken over, every other as it was.
LEMMA OpenEffect ==
    ASSUME CoreInv, Open
    PROVE  /\ memory' \in State /\ memory'.req = memory.req /\ memory'.there = memory.there
           /\ memory'.seeds \in AdoptedSeeds(memory)
           /\ Len(memory'.jobs) <= Count
           /\ DOMAIN memory.jobs \subseteq DOMAIN memory'.jobs
           /\ Answer(memory) \subseteq DOMAIN memory'.jobs
           /\ \A i \in DOMAIN memory'.jobs :
                  memory'.jobs[i] =
                      IF i \in Answer(memory) /\ job[Resent(memory, i)].status = "ingested"
                        THEN Adopted(memory, i) ELSE Mine(memory, i)
           /\ ~keyed => DOMAIN memory'.jobs = DOMAIN memory.jobs
<1>. DEFINE m == memory
            listed == {i \in Indexes : \E j \in Answer(m) \cup DOMAIN m.jobs : i <= j}
            s == AdoptedJobs(m)
            entry(i) == IF i \in Answer(m) /\ job[Resent(m, i)].status = "ingested"
                          THEN Adopted(m, i) ELSE Mine(m, i)
<1>1. /\ m \in State /\ Answer(m) \subseteq Indexes
      /\ DOMAIN m.jobs = 1..Len(m.jobs) /\ Len(m.jobs) \in Nat /\ Len(m.jobs) <= Count
      BY CoreTypes, AnswerFacts, StateLists DEF CoreInv, Shapes, Shape
<1>2. DOMAIN m.jobs \subseteq listed /\ Answer(m) \subseteq listed
      BY <1>1 DEF Indexes
<1>3. PICK l \in 0..Count : listed = 1..l
  <2>1. listed \in SUBSET Indexes
        OBVIOUS
  <2>2. \A i \in listed : \A j \in 1..i : j \in listed
        BY <1>1 DEF Indexes
  <2>. QED
       BY <2>1, <2>2, Interval
<1>4. \A i \in listed : entry(i) \in Local
  <2>1. \A i \in Answer(m) : job[Resent(m, i)].status = "ingested" => Adopted(m, i) \in Local
        BY AdoptedEntry
  <2>2. \A i \in listed : Mine(m, i) \in Local
        BY <1>1, MineType
  <2>. QED
       BY <2>1, <2>2
<1>5. s = [i \in listed |-> entry(i)]
  <2>1. \A i \in listed :
            (IF i \in Answer(m) THEN Adopted(m, i)
             ELSE IF i \in DOMAIN m.jobs THEN m.jobs[i] ELSE NewJob(0)) = entry(i)
        BY DEF Adopted, Mine
  <2>. QED
       BY <2>1 DEF AdoptedJobs
<1>. HIDE DEF s, listed, entry
<1>6. s \in [1..l -> Local]
      BY <1>3, <1>4, <1>5
<1>7. s \in Seq(Local) /\ DOMAIN s = 1..l
      BY <1>3, <1>6, SeqDef
<1>8. Len(s) = l
      BY <1>3, <1>7, LenProperties
<1>9. PICK x \in AdoptedSeeds(m) : memory' = [m EXCEPT !.jobs = s, !.seeds = x]
      BY DEF Open, s
<1>10. x \in Seq(Nat)
      BY SeedsAdopted
<1>11. /\ memory' \in State /\ memory'.req = m.req /\ memory'.there = m.there
       /\ memory'.seeds = x /\ memory'.jobs = s
      BY <1>1, <1>7, <1>9, <1>10 DEF State
<1>12. ASSUME ~keyed
       PROVE  listed = DOMAIN m.jobs
  <2>1. Answer(m) = {}
        BY <1>12 DEF Answer
  <2>. QED
       BY <1>1, <2>1 DEF listed, Indexes
<1>13. \A i \in DOMAIN s : s[i] = entry(i)
      BY <1>3, <1>5, <1>7
<1>. QED
     BY <1>2, <1>3, <1>7, <1>8, <1>11, <1>12, <1>13 DEF entry

-----------------------------------------------------------------------------
(* The types.                                                              *)

\* A state without jobs, as a run begins with it.
LEMMA NoStateType ==
    /\ NoState \in State
    /\ NoState.req = 0 /\ NoState.seeds = NoSeeds /\ NoState.jobs = <<>> /\ ~NoState.there
    /\ DOMAIN NoState.jobs = {}
    /\ \A k \in Nat :
           /\ [NoState EXCEPT !.req = k, !.there = TRUE] \in State
           /\ [NoState EXCEPT !.req = k, !.there = TRUE].req = k
           /\ [NoState EXCEPT !.req = k, !.there = TRUE].there
           /\ [NoState EXCEPT !.req = k, !.there = TRUE].seeds = NoSeeds
           /\ [NoState EXCEPT !.req = k, !.there = TRUE].jobs = <<>>
<1>1. <<>> \in Seq(Local) /\ <<>> \in Seq(Nat)
      BY EmptySeq
<1>2. NoState \in State
      BY <1>1 DEF NoState, State, NoSeeds, Keys
<1>3. /\ NoState.req = 0 /\ NoState.seeds = NoSeeds /\ NoState.jobs = <<>> /\ ~NoState.there
      BY DEF NoState
<1>4. DOMAIN NoState.jobs = {}
      BY <1>3
<1>5. ASSUME NEW k \in Nat
      PROVE  /\ [NoState EXCEPT !.req = k, !.there = TRUE] \in State
             /\ [NoState EXCEPT !.req = k, !.there = TRUE].req = k
             /\ [NoState EXCEPT !.req = k, !.there = TRUE].there
             /\ [NoState EXCEPT !.req = k, !.there = TRUE].seeds = NoSeeds
             /\ [NoState EXCEPT !.req = k, !.there = TRUE].jobs = <<>>
      BY <1>2, <1>3 DEF State, Keys
<1>. QED
     BY <1>2, <1>3, <1>4, <1>5

\* The run's state and the file stay states.
LEMMA StatesStay ==
    ASSUME CoreInv, Next
    PROVE  memory' \in State /\ disk' \in State
<1>. memory \in State /\ disk \in State /\ NewKey \in Nat
     BY CoreTypes
<1>1. disk' \in State
      BY DiskSteps, NoStateType
<1>2. CASE UNCHANGED memory \/ memory' = NoState
      BY <1>1, <1>2, NoStateType
<1>3. CASE Begin
      BY <1>1, <1>3, NoStateType DEF Begin
<1>4. CASE Open
      BY <1>1, <1>4, OpenEffect
<1>5. CASE \/ CreateJob \/ Submit \/ Upload \/ Ingest \/ JobFails
           \/ GiveKey /\ out \notin DOMAIN Here.gens
      BY <1>1, <1>5, CreateEntry, SubmitEntry, UploadEntry, IngestEntry, FailEntry, KeyEntry DEF Entry
<1>. QED
     BY <1>1, <1>2, <1>3, <1>4, <1>5, MemorySteps

\* So do the places, counts and marks.
LEMMA PlainTypes ==
    ASSUME CoreInv, Next
    PROVE  /\ keyed' \in KeyedModes /\ pc' \in Places
           /\ idx' \in Nat \ {0} /\ out' \in Nat \ {0}
           /\ key' \in Keys /\ finished' \in BOOLEAN /\ shifted' \in BOOLEAN
           /\ reruns' \in 0..MaxReruns /\ faults' \in 0..MaxFaults
<1>. /\ keyed \in KeyedModes /\ pc \in Places
     /\ idx \in Nat \ {0} /\ out \in Nat \ {0}
     /\ key \in Nat /\ finished \in BOOLEAN /\ shifted \in BOOLEAN
     /\ reruns \in 0..MaxReruns /\ faults \in 0..MaxFaults
     /\ NewKey \in Nat
     BY CoreTypes DEF CoreInv, TypeOK, Keys
<1>. USE LimitAssumption
<1>1. keyed' \in KeyedModes
      BY DEF Next, Step, Rendering, Trouble
<1>2. CASE Begin
  <2>1. reruns' \in 0..MaxReruns
        BY <1>2 DEF Begin
  <2>2. key' \in Nat
        BY <1>2 DEF Begin
  <2>. QED
       BY <1>1, <1>2, <2>1, <2>2 DEF history, Begin, Places, Keys
<1>8. CASE CreateJob
      BY <1>1, <1>8 DEF bounds, history, CreateJob, Places, Keys, ListedKey
<1>9. CASE Open
  <2>1. shifted' \in BOOLEAN
        BY <1>9 DEF Open
  <2>. QED
       BY <1>1, <1>9, <2>1 DEF bounds, Open, Places, Keys
<1>6. CASE JobFails
      BY <1>1, <1>6 DEF JobFails, Fault, Places, Keys, ListedKey
<1>7. CASE Finish
      BY <1>1, <1>7 DEF bounds, history, Finish, NoRun, Places, Keys
<1>10. CASE Crash
      BY <1>1, <1>10 DEF Crash, NoRun, Fault, Places, Keys
<1>11. CASE LoseDisk
      BY <1>1, <1>11 DEF run, LoseDisk, Fault, Places, Keys
<1>3. CASE \/ SkipIngested \/ SkipCreated \/ Resume \/ Submit \/ Tell \/ Run \/ Rendered
           \/ Complete \/ SkipRegistered \/ GiveKey \/ Upload \/ Ingest \/ Fail
      BY <1>1, <1>3 DEF bounds, history, run, SkipIngested, SkipCreated, Resume, Submit, Tell, Run, PatchJob, Rendered,
         Complete, SkipRegistered, GiveKey, Upload, Ingest, Fail, Fault, Places, Keys
<1>4. CASE Save
      BY <1>1, <1>4 DEF bounds, history, Save, Proceed, AfterSave, Places, Keys
<1>5. CASE Rendering \/ (\E p \in DOMAIN comfy : Breaks(p)) \/ Forgets
      BY <1>1, <1>5 DEF bounds, history, run, Rendering, Renders, Breaks, Forgets, Fault, Keys
<1>. QED
     BY <1>2, <1>3, <1>4, <1>5, <1>6, <1>7, <1>8, <1>9, <1>10, <1>11 DEF Next, Step, Trouble

\* Requests are known by a key.
LEMMA RequestsStay ==
    ASSUME CoreInv, Next
    PROVE  requests' \subseteq Keys
<1>1. requests \subseteq Keys /\ memory.req \in Keys
      BY CoreTypes DEF CoreInv, TypeOK, State
<1>2. requests' = requests \/ requests' = requests \cup {memory.req}
      BY DEF Next, Step, Rendering, Trouble, chimera, Begin, Open, Save, Proceed,
         SkipIngested, SkipCreated, CreateJob, Resume, Submit, Tell, Run, PatchJob, Rendered,
         Complete, SkipRegistered, GiveKey, Upload, Ingest, JobFails, Fail, Finish, Crash,
         LoseDisk, Renders, Breaks, Forgets
<1>. QED
     BY <1>1, <1>2

\* Chimera's jobs keep their types, and their prompts are there.
LEMMA JobsStay ==
    ASSUME CoreInv, Next
    PROVE  \A id \in DOMAIN job' :
               /\ id \in [req : Keys, index : Nat, key : Keys]
               /\ job'[id] \in [seed : Nat, status : Status, graph : DOMAIN comfy' \cup {NoPrompt}]
<1>. DEFINE Record == [seed : Nat, status : Status, graph : DOMAIN comfy' \cup {NoPrompt}]
<1>1. \A id \in DOMAIN job : id \in [req : Keys, index : Nat, key : Keys] /\ job[id] \in Record
  <2>1. DOMAIN comfy \subseteq DOMAIN comfy'
        BY ComfyEffect
  <2>. QED
       BY <2>1 DEF CoreInv, TypeOK
<1>2. CASE UNCHANGED job
      BY <1>1, <1>2
<1>3. CASE Creates
  <2>1. DOMAIN job' \subseteq DOMAIN job \cup {ThisId} /\ ThisId \in [req : Keys, index : Nat, key : Keys]
        BY JobEffect, ThisIdHolds
  <2>2. \A id \in DOMAIN job : id # ThisId => job'[id] = job[id]
        BY JobEffect
  <2>3. memory.seeds[idx] \in Nat
        BY <1>3, ThisIdHolds, CoreTypes, StateLists DEF Creates
  <2>4. [seed |-> memory.seeds[idx], status |-> "new", graph |-> NoPrompt] \in Record
        BY <2>3 DEF Status
  <2>5. job' = job \/ ThisId \in DOMAIN job' \ DOMAIN job
        BY <1>3, ThisIdHolds DEF Creates, CreatedJobs, With
  <2>. QED
       BY <1>1, <2>1, <2>2, <2>4, <2>5, JobEffect
<1>4. CASE Patches
  <2>1. Here.prompt \in DOMAIN comfy' \cup {NoPrompt}
        BY <1>4, PatchedRecord, ComfyEffect DEF CoreInv, Prompts, OwnPrompts, Here
  <2>2. [seed |-> job[HereId].seed, status |-> StatusAt[pc],
         graph |-> IF pc = "tell" THEN Here.prompt ELSE job[HereId].graph] \in Record
        BY <1>1, <1>4, <2>1, PatchedRecord
  <2>3. /\ DOMAIN job' = DOMAIN job
        /\ \A id \in DOMAIN job : job'[id] =
               IF id = HereId
                 THEN [seed |-> job[HereId].seed, status |-> StatusAt[pc],
                       graph |-> IF pc = "tell" THEN Here.prompt ELSE job[HereId].graph]
                 ELSE job[id]
        BY <1>4, PatchedRecord
  <2>. HIDE DEF Record
  <2>4. \A id \in DOMAIN job' : job'[id] \in Record
        BY <1>1, <2>2, <2>3
  <2>. QED
       BY <1>1, <2>3, <2>4 DEF Record
<1>. QED
     BY <1>2, <1>3, <1>4, JobSteps

\* Its generations are of its jobs and of prompts that are there.
LEMMA GensStay ==
    ASSUME CoreInv, Next
    PROVE  gens' \subseteq [job : DOMAIN job', out : Nat, key : Keys, prompt : DOMAIN comfy']
<1>1. gens \subseteq [job : DOMAIN job', out : Nat, key : Keys, prompt : DOMAIN comfy']
      BY JobEffect, ComfyEffect DEF CoreInv, TypeOK
<1>2. ASSUME pc = "upload"
      PROVE  Uploaded \in [job : DOMAIN job', out : Nat, key : Keys, prompt : DOMAIN comfy']
  <2>1. HereId \in DOMAIN job' /\ idx \in DOMAIN memory.jobs
        BY <1>2, MadeIsThere, JobEffect DEF InJob
  <2>2. out \in DOMAIN Here.gens /\ Here.prompt # NoPrompt
        BY <1>2 DEF CoreInv, AtOutput, AtJob, Prompted
  <2>3. Here.gens[out].key \in Keys
        BY <2>1, <2>2, CoreTypes, StateLists DEF Here, Output
  <2>4. Here.prompt \in DOMAIN comfy'
        BY <2>1, <2>2, ComfyEffect DEF CoreInv, Prompts, OwnPrompts, Here
  <2>. QED
       BY <2>1, <2>3, <2>4, CoreTypes DEF Uploaded
<1>. QED
     BY <1>1, <1>2, GensEffect

\* The prompts whose id was lost were submitted.
LEMMA OrphansStay ==
    ASSUME CoreInv, Next
    PROVE  orphan' \subseteq DOMAIN comfy'
<1>1. orphan \subseteq DOMAIN comfy'
      BY ComfyEffect DEF CoreInv, TypeOK
<1>2. PromptsOf(memory) \subseteq DOMAIN comfy' /\ PromptsOf(disk) \subseteq DOMAIN comfy'
      BY ComfyEffect DEF PromptsOf, CoreInv, Prompts, OwnPrompts
<1>3. CASE JobFails
  <2>1. \/ UNCHANGED orphan
        \/ Submitting /\ orphan' = orphan \cup {Len(comfy) + 1} /\ comfy' = Submitted
        BY <1>3 DEF JobFails, CallArrives
  <2>. QED
       BY <1>1, <2>1, SubmitsOne
<1>4. CASE Crash \/ LoseDisk
      BY <1>1, <1>2, <1>4 DEF Crash, LoseDisk
<1>5. CASE \/ Begin \/ Open \/ Save \/ SkipIngested \/ SkipCreated \/ CreateJob \/ Resume
           \/ Submit \/ Tell \/ Run \/ Rendered \/ Complete \/ SkipRegistered \/ GiveKey
           \/ Upload \/ Ingest \/ Fail \/ Finish
           \/ Rendering \/ (\E p \in DOMAIN comfy : Breaks(p)) \/ Forgets
      BY <1>1, <1>5 DEF history, Begin, Open, Save, Proceed,
         SkipIngested, SkipCreated, CreateJob, Resume, Submit, Tell, Run, PatchJob, Rendered,
         Complete, SkipRegistered, GiveKey, Upload, Ingest, Fail, Finish, Rendering,
         Renders, Breaks, Forgets
<1>. QED
     BY <1>3, <1>4, <1>5 DEF Next, Step, Trouble

\* Together they are the types.
LEMMA TypesStay ==
    ASSUME CoreInv, Next
    PROVE  TypeOK'
<1>1. comfy' \in Seq([index : Nat, seed : Nat, state : {"queued", "success", "error", "forgotten"}])
      BY ComfyEffect DEF Prompt
<1>. QED
     BY <1>1, StatesStay, PlainTypes, RequestsStay, JobsStay, GensStay, OrphansStay DEF TypeOK

-----------------------------------------------------------------------------
(* The entry at hand, whatever step changes it.                            *)

\* Steps that change the entry at hand.
Work ==
    \/ CreateJob \/ Submit \/ Upload \/ Ingest \/ JobFails
    \/ GiveKey /\ out \notin DOMAIN Here.gens

\* The loop is at a job that has a seed and is not ingested.
LEMMA WorkPlace ==
    ASSUME CoreInv, Work
    PROVE  /\ memory.there /\ memory.seeds # NoSeeds /\ disk.there
           /\ idx \in DOMAIN memory.seeds /\ idx \in Indexes
           /\ pc \in InJob \cup {"job"} /\ Old \in Local /\ Old.status # "ingested"
           /\ pc # "job" => Old = Here /\ idx \in DOMAIN memory.jobs /\ Old.made
           /\ Len(Old.gens) \in Nat /\ Len(Old.gens) <= Images
           /\ DOMAIN Old.gens = 1..Len(Old.gens)
<1>1. Creating \/ pc \in InJob
      BY DEF Work, CreateJob, Submit, Submitting, Upload, Ingest, PatchJob, JobFails, InTry,
         GiveKey, InJob
<1>2. /\ memory.there /\ memory.seeds # NoSeeds /\ disk.there
      /\ idx \in DOMAIN memory.seeds /\ pc \in InJob \cup {"job"}
      BY <1>1 DEF CoreInv, Started, AtJob, Between, InJob, Creating, InLoop
<1>3. idx \in Indexes
      BY <1>2, CoreTypes, StateLists DEF CoreInv, Shapes, Shape, Indexes
<1>4. pc # "job" => Old = Here /\ idx \in DOMAIN memory.jobs /\ Old.made
      BY <1>2, OldEntry DEF CoreInv, AtJob
<1>5. Old.status # "ingested"
      BY <1>1 DEF CoreInv, AtJob, Creating, Old, NewJob, InJob
<1>6. Old \in Local /\ Old.gens \in Seq(Output)
      BY OldEntry DEF Local, Output
<1>7. Len(Old.gens) \in Nat /\ DOMAIN Old.gens = 1..Len(Old.gens)
      BY <1>6, LenProperties
<1>8. Len(Old.gens) <= Images
  <2>1. CASE idx \in DOMAIN memory.jobs
        BY <2>1 DEF Old, Here, CoreInv, Shapes, Shape
  <2>2. CASE idx \notin DOMAIN memory.jobs
        BY <2>2, EmptySeq DEF Old, NewJob
  <2>. QED
       BY <2>1, <2>2
<1>. QED
     BY <1>2, <1>3, <1>4, <1>5, <1>6, <1>7, <1>8

\* What its entry becomes: the same job, with at least what it had.
Later(e) ==
    /\ e \in Local /\ e.key = Old.key
    /\ Old.made => e.made
    /\ e.made => Old.made \/ CreateJob
    /\ e.status \in {Old.status, "failed", "ingested"}
    /\ e.status = "ingested" => Ingest
    /\ JobFails => e.status = "failed"
    /\ Ingest => e.status = "ingested"
    /\ e.status = "failed" => JobFails \/ Old.status = "failed"
    /\ e.prompt \in {Old.prompt, NoPrompt} \/ (Submit /\ e.prompt = Len(comfy) + 1)
    /\ Submit => e.prompt = Len(comfy) + 1
    /\ e.prompt # Old.prompt => Submitting
    /\ Len(e.gens) \in Nat /\ Len(e.gens) <= Images /\ DOMAIN e.gens = 1..Len(e.gens)
    /\ DOMAIN Old.gens \subseteq DOMAIN e.gens
    /\ \A o \in DOMAIN Old.gens :
           /\ e.gens[o].key = Old.gens[o].key
           /\ Old.gens[o].registered => e.gens[o].registered
           /\ e.gens[o].registered => Old.gens[o].registered \/ (Upload /\ o = out)
    /\ \A o \in DOMAIN e.gens \ DOMAIN Old.gens :
           GiveKey /\ e.gens[o] = [key |-> NewKey, registered |-> FALSE] /\ o = out
    /\ Upload => e.gens[out].registered
    /\ e.gens # Old.gens => GiveKey \/ Upload
    /\ GiveKey => out \in DOMAIN e.gens

\* Every such step changes the entry at hand into a later one.
LEMMA WorkEffect ==
    ASSUME CoreInv, Work
    PROVE  \E e \in Local : Entry(memory, memory', idx, e) /\ Later(e)
<1>. /\ Old \in Local /\ Old.status # "ingested"
     /\ Len(Old.gens) \in Nat /\ Len(Old.gens) <= Images /\ DOMAIN Old.gens = 1..Len(Old.gens)
     /\ Old.gens \in Seq(Output) /\ Old.prompt \in Nat
     BY WorkPlace DEF Local, Output
<1>0. /\ CreateJob => pc' = "created" /\ pc = "job"
      /\ Submit => pc' = "submitted" /\ pc = "prompt"
      /\ Upload => pc' = "registered" /\ pc = "upload"
      /\ Ingest => pc' = "over" /\ pc = "output"
      /\ GiveKey => pc' = "keyed" /\ pc = "output"
      /\ JobFails => pc' \in {"over", "failing"}
      /\ JobFails => pc = "job" \/ pc' # "over"
      BY DEF CreateJob, Creating, InLoop, Submit, Submitting, Upload, Ingest, PatchJob, GiveKey, JobFails
<1>1. CASE CreateJob
  <2>. DEFINE e == [Old EXCEPT !.made = TRUE]
  <2>1. e \in Local /\ Entry(memory, memory', idx, e)
        BY <1>1, CreateEntry, EntryParts
  <2>2. /\ e.key = Old.key /\ e.made /\ e.status = Old.status /\ e.prompt = Old.prompt
        /\ e.gens = Old.gens
        BY DEF Local
  <2>. HIDE DEF e
  <2>3. Later(e)
        BY <1>0, <1>1, <2>1, <2>2 DEF Later
  <2>. QED
       BY <2>1, <2>3
<1>2. CASE Submit
  <2>. DEFINE e == [Old EXCEPT !.prompt = Len(comfy) + 1]
  <2>1. Old = Here
        BY <1>2, WorkPlace DEF Submit, Submitting
  <2>2. Len(comfy) + 1 \in Nat
        BY CoreTypes
  <2>2a. e \in Local /\ Entry(memory, memory', idx, e)
        BY <1>2, <2>1, <2>2, SubmitEntry, EntryParts
  <2>3. /\ e.key = Old.key /\ e.made = Old.made /\ e.status = Old.status
        /\ e.prompt = Len(comfy) + 1 /\ e.gens = Old.gens
        BY DEF Local
  <2>. HIDE DEF e
  <2>4. Submitting
        BY <1>2 DEF Submit
  <2>5. Later(e)
        BY <1>0, <1>2, <2>2a, <2>3, <2>4 DEF Later
  <2>. QED
       BY <2>2a, <2>5
<1>3. CASE Upload
  <2>. DEFINE s == [Old.gens EXCEPT ![out].registered = TRUE]
              e == [Old EXCEPT !.gens = s]
  <2>1. Old = Here
        BY <1>3, WorkPlace DEF Upload
  <2>2. out \in DOMAIN Old.gens
        BY <1>3, <2>1, UploadEntry
  <2>3. Old.gens[out] \in Output
        BY <2>2, ElementOfSeq
  <2>4. [Old.gens[out] EXCEPT !.registered = TRUE] \in Output
        BY <2>3 DEF Output
  <2>5. /\ s \in Seq(Output) /\ Len(s) = Len(Old.gens)
        /\ \A o \in 1..Len(Old.gens) :
               s[o] = IF o = out THEN [Old.gens[out] EXCEPT !.registered = TRUE] ELSE Old.gens[o]
        BY <2>2, <2>4, ExceptSeq
  <2>6. DOMAIN s = 1..Len(s)
        BY <2>5, LenProperties
  <2>7. /\ [Old.gens[out] EXCEPT !.registered = TRUE].key = Old.gens[out].key
        /\ [Old.gens[out] EXCEPT !.registered = TRUE].registered
        BY <2>3 DEF Output
  <2>8. [Old EXCEPT !.gens[out].registered = TRUE] = e
        OBVIOUS
  <2>. HIDE DEF s
  <2>9. /\ e \in Local /\ e.key = Old.key /\ e.made = Old.made /\ e.status = Old.status
        /\ e.prompt = Old.prompt /\ e.gens = s
        BY <2>5, EntryParts DEF Local
  <2>10. Entry(memory, memory', idx, e)
        BY <1>3, <2>1, <2>8, UploadEntry
  <2>. HIDE DEF e
  <2>11. Later(e)
        BY <1>0, <1>3, <2>2, <2>5, <2>6, <2>7, <2>9 DEF Later
  <2>. QED
       BY <2>9, <2>10, <2>11
<1>4. CASE Ingest
  <2>. DEFINE e == [Old EXCEPT !.status = "ingested"]
  <2>1. Old = Here
        BY <1>4, WorkPlace DEF Ingest, PatchJob
  <2>2. e \in Local /\ Entry(memory, memory', idx, e)
        BY <1>4, <2>1, IngestEntry, EntryParts
  <2>3. /\ e.key = Old.key /\ e.made = Old.made /\ e.status = "ingested"
        /\ e.prompt = Old.prompt /\ e.gens = Old.gens
        BY DEF Local
  <2>. HIDE DEF e
  <2>5. Later(e)
        BY <1>0, <1>4, <2>2, <2>3 DEF Later
  <2>. QED
       BY <2>2, <2>5
<1>5. CASE JobFails
  <2>1. PICK p \in {Old.prompt, NoPrompt} :
            /\ Entry(memory, memory', idx, FailedEntry(p)) /\ FailedEntry(p) \in Local
            /\ p = Old.prompt \/ Submitting
        BY <1>5, FailEntry
  <2>. DEFINE e == FailedEntry(p)
  <2>3. /\ e.key = Old.key /\ e.made = Old.made /\ e.status = "failed"
        /\ e.prompt = p /\ e.gens = Old.gens
        BY DEF Local, FailedEntry
  <2>. HIDE DEF e
  <2>5. Later(e)
        BY <1>0, <1>5, <2>1, <2>3 DEF Later, e
  <2>. QED
       BY <2>1, <2>5 DEF e
<1>6. CASE GiveKey /\ out \notin DOMAIN Here.gens
  <2>. DEFINE x == [key |-> NewKey, registered |-> FALSE]
              s == Append(Old.gens, x)
              e == [Old EXCEPT !.gens = s]
  <2>1. Old = Here
        BY <1>6, WorkPlace DEF GiveKey
  <2>2. out = Len(Old.gens) + 1 /\ out <= Images
        BY <1>6, <2>1, KeyEntry DEF GiveKey
  <2>3. x \in Output
        BY CoreTypes DEF Output, Keys
  <2>4. /\ s \in Seq(Output) /\ Len(s) = Len(Old.gens) + 1 /\ s[Len(Old.gens) + 1] = x
        /\ \A o \in 1..Len(Old.gens) : s[o] = Old.gens[o]
        BY <2>3, AppendProperties
  <2>5. DOMAIN s = 1..Len(s)
        BY <2>4, LenProperties
  <2>6. Entry(memory, memory', idx, e)
        BY <1>6, <2>1, KeyEntry
  <2>. HIDE DEF s
  <2>7. /\ e \in Local /\ e.key = Old.key /\ e.made = Old.made /\ e.status = Old.status
        /\ e.prompt = Old.prompt /\ e.gens = s
        BY <2>4, EntryParts DEF Local
  <2>. HIDE DEF e
  <2>8. Later(e)
        BY <1>0, <1>6, <2>2, <2>4, <2>5, <2>7 DEF Later
  <2>. QED
       BY <2>6, <2>7, <2>8
<1>. QED
     BY <1>1, <1>2, <1>3, <1>4, <1>5, <1>6 DEF Work

-----------------------------------------------------------------------------
(* The shape of the states, their prompts and the keys.                    *)

\* A run that has begun has a state.
LEMMA HasState ==
    ASSUME CoreInv
    PROVE  pc # "off" => memory.there
<1>1. memory.req \in Nat
      BY CoreTypes, StateLists
<1>2. [NoState EXCEPT !.req = memory.req, !.there = TRUE].there
      BY <1>1, NoStateType
<1>. QED
     BY <1>2 DEF CoreInv, Started, Between

\* The shape of the states stays.
LEMMA ShapesStay ==
    ASSUME CoreInv, Next
    PROVE  Shapes'
<1>. memory \in State /\ disk \in State /\ memory' \in State /\ disk' \in State
     BY CoreTypes, StatesStay
<1>. Shape(memory) /\ Shape(disk)
     BY DEF CoreInv, Shapes
<1>0. Len(<<>>) = 0 /\ DOMAIN <<>> = {}
      BY EmptySeq
<1>1. Shape(NoState)
  <2>1. NoState.jobs = <<>> /\ NoState.seeds = <<>> /\ ~NoState.there
        BY NoStateType DEF NoSeeds
  <2>. QED
       BY <1>0, <2>1 DEF Shape
<1>2. Shape(disk')
      BY <1>1, DiskSteps
<1>3. Shape(memory')
  <2>1. CASE UNCHANGED memory \/ memory' = NoState
        BY <1>1, <2>1
  <2>2. CASE Begin
    <3>1. CASE disk.there
          BY <2>2, <3>1 DEF Begin
    <3>2. CASE ~disk.there
      <4>1. memory' = [NoState EXCEPT !.req = NewKey, !.there = TRUE]
            BY <2>2, <3>2 DEF Begin
      <4>2. memory'.there /\ memory'.seeds = <<>> /\ memory'.jobs = <<>>
            BY <4>1, NoStateType, CoreTypes DEF NoSeeds
      <4>. QED
           BY <1>0, <4>2 DEF Shape
    <3>. QED
         BY <3>1, <3>2
  <2>3. CASE Open
    <3>1. memory.there
          BY <2>3, HasState DEF Open
    <3>2. memory'.seeds # NoSeeds /\ Len(memory'.seeds) <= Count
          BY <2>3, OpenEffect, SeedsAdopted
    <3>3. ASSUME NEW i \in DOMAIN memory'.jobs
          PROVE  /\ Len(memory'.jobs[i].gens) <= Images
                 /\ memory'.jobs[i].status = "ingested" => memory'.jobs[i].made
      <4>1. CASE i \in Answer(memory) /\ job[Resent(memory, i)].status = "ingested"
        <5>1. memory'.jobs[i] = Adopted(memory, i)
              BY <2>3, <4>1, OpenEffect
        <5>. QED
             BY <4>1, <5>1, AdoptedEntry
      <4>2. CASE memory'.jobs[i] = Mine(memory, i)
            BY <4>2, EmptySeq DEF Shape, Mine, NewJob
      <4>. QED
           BY <2>3, <4>1, <4>2, OpenEffect
    <3>. QED
         BY <2>3, <3>1, <3>2, <3>3, OpenEffect DEF Shape
  <2>4. CASE Work
    <3>1. PICK e \in Local : Entry(memory, memory', idx, e) /\ Later(e)
          BY <2>4, WorkEffect
    <3>2. /\ memory.there /\ memory.seeds # NoSeeds /\ idx \in Indexes
          /\ Old.status # "ingested"
          BY <2>4, WorkPlace
    <3>3. Len(memory'.jobs) <= Count
      <4>1. /\ DOMAIN memory'.jobs = 1..Len(memory'.jobs) /\ Len(memory'.jobs) \in Nat
            /\ DOMAIN memory.jobs = 1..Len(memory.jobs) /\ Len(memory.jobs) \in Nat
            BY StateLists
      <4>2. DOMAIN memory'.jobs \subseteq 1..Count
            BY <3>1, <3>2, <4>1 DEF Entry, Shape, Indexes
      <4>. QED
           BY <4>1, <4>2
    <3>4. Len(e.gens) <= Images /\ (e.status = "ingested" => e.made)
          BY <2>4, <3>1, WorkPlace DEF Later, Ingest, PatchJob, InJob
    <3>. QED
         BY <3>1, <3>2, <3>3, <3>4 DEF Entry, Shape
  <2>. QED
       BY <2>1, <2>2, <2>3, <2>4, MemorySteps DEF Work
<1>. QED
     BY <1>2, <1>3 DEF Shapes

\* A state keeps its prompts when prompts are added.
LEMMA OwnPromptsGrow ==
    ASSUME NEW m, NEW c, NEW d, OwnPrompts(m, c), DOMAIN c \subseteq DOMAIN d,
           \A p \in DOMAIN c : d[p].index = c[p].index
    PROVE  OwnPrompts(m, d)
BY DEF OwnPrompts

\* So do the prompts they hold, each its own job's.
LEMMA PromptsStay ==
    ASSUME CoreInv, Next
    PROVE  Prompts'
<1>. /\ OwnPrompts(memory, comfy) /\ OwnPrompts(disk, comfy)
     /\ \A id \in DOMAIN job : job[id].graph # NoPrompt => comfy[job[id].graph].index = id.index
     BY DEF CoreInv, Prompts
<1>. NoPrompt \notin DOMAIN comfy
     BY CoreTypes DEF NoPrompt
<1>1. /\ DOMAIN comfy \subseteq DOMAIN comfy'
      /\ \A p \in DOMAIN comfy : comfy'[p].index = comfy[p].index
      BY ComfyEffect
<1>2. OwnPrompts(memory, comfy') /\ OwnPrompts(disk, comfy')
      BY <1>1, OwnPromptsGrow
<1>3. OwnPrompts(NoState, comfy')
      BY NoStateType DEF OwnPrompts
<1>4. OwnPrompts(disk', comfy')
      BY <1>2, <1>3, DiskSteps
<1>5. OwnPrompts(memory', comfy')
  <2>1. CASE UNCHANGED memory \/ memory' = NoState
        BY <1>2, <1>3, <2>1
  <2>2. CASE Begin
    <3>1. ASSUME NEW k \in Nat
          PROVE  OwnPrompts([NoState EXCEPT !.req = k, !.there = TRUE], comfy')
          BY NoStateType DEF OwnPrompts
    <3>. QED
         BY <1>2, <2>2, <3>1, CoreTypes DEF Begin
  <2>3. CASE Open
    <3>1. ASSUME NEW i \in DOMAIN memory'.jobs, memory'.jobs[i].prompt # NoPrompt
          PROVE  memory'.jobs[i].prompt \in DOMAIN comfy' /\ comfy'[memory'.jobs[i].prompt].index = i
      <4>1. Mine(memory, i).prompt # NoPrompt =>
                Mine(memory, i).prompt \in DOMAIN comfy' /\ comfy'[Mine(memory, i).prompt].index = i
            BY <1>2 DEF Mine, OwnPrompts, NewJob
      <4>2. CASE i \in Answer(memory) /\ job[Resent(memory, i)].status = "ingested"
        <5>. DEFINE id == Resent(memory, i)
        <5>1. /\ id \in DOMAIN job /\ id.index = i
              /\ job[id].graph \in DOMAIN comfy \cup {NoPrompt}
              BY <4>2, AnswerFacts
        <5>2. memory'.jobs[i].prompt =
                  IF job[id].graph # NoPrompt THEN job[id].graph ELSE Mine(memory, i).prompt
              BY <2>3, <4>2, OpenEffect, AdoptedEntry
        <5>3. job[id].graph # NoPrompt =>
                  job[id].graph \in DOMAIN comfy' /\ comfy'[job[id].graph].index = i
              BY <1>1, <5>1
        <5>. QED
             BY <3>1, <4>1, <5>2, <5>3
      <4>3. CASE memory'.jobs[i] = Mine(memory, i)
            BY <3>1, <4>1, <4>3
      <4>. QED
           BY <2>3, <4>2, <4>3, OpenEffect
    <3>. QED
         BY <3>1 DEF OwnPrompts
  <2>4. CASE Work
    <3>1. PICK e \in Local : Entry(memory, memory', idx, e) /\ Later(e)
          BY <2>4, WorkEffect
    <3>2. Old.prompt # NoPrompt => Old.prompt \in DOMAIN comfy' /\ comfy'[Old.prompt].index = idx
          BY <1>2 DEF Old, OwnPrompts, Here, NewJob
    <3>3. Submit => /\ Len(comfy) + 1 \in DOMAIN comfy'
                    /\ comfy'[Len(comfy) + 1].index = idx
          BY SubmitsOne DEF Submit
    <3>4. e.prompt # NoPrompt => e.prompt \in DOMAIN comfy' /\ comfy'[e.prompt].index = idx
          BY <3>1, <3>2, <3>3 DEF Later
    <3>. QED
         BY <1>2, <3>1, <3>4 DEF Entry, OwnPrompts
  <2>. QED
       BY <2>1, <2>2, <2>3, <2>4, MemorySteps DEF Work
<1>6. ASSUME NEW id \in DOMAIN job', job'[id].graph # NoPrompt
      PROVE  comfy'[job'[id].graph].index = id.index
  <2>1. CASE id \in DOMAIN job /\ job'[id].graph = job[id].graph
    <3>1. job[id].graph \in DOMAIN comfy
          BY <1>6, <2>1 DEF CoreInv, TypeOK
    <3>. QED
         BY <1>1, <1>6, <2>1, <3>1
  <2>2. CASE id \in DOMAIN job /\ job'[id].graph # job[id].graph
    <3>1. id = ThisId /\ job'[id].graph = Here.prompt /\ pc = "tell"
          BY <2>2, JobEffect
    <3>2. idx \in DOMAIN memory.jobs
          BY <3>1 DEF CoreInv, AtJob, InJob
    <3>. QED
         BY <1>2, <1>6, <3>1, <3>2 DEF OwnPrompts, Here, ThisId
  <2>3. CASE id \notin DOMAIN job
        BY <1>6, <2>3, JobEffect
  <2>. QED
       BY <2>1, <2>2, <2>3
<1>. QED
     BY <1>4, <1>5, <1>6 DEF Prompts

\* No step draws fewer keys.
LEMMA KeysGrow ==
    ASSUME CoreInv, Next
    PROVE  key' \in {key, NewKey} /\ key <= key' /\ keyed' = keyed
<1>1. keyed' = keyed
      BY DEF Next, Step, Rendering, Trouble
<1>2. key' \in {key, NewKey}
      BY DEF Next, Step, Rendering, Trouble, Begin, Open, Save, Proceed, ListedKey,
         SkipIngested, SkipCreated, CreateJob, Resume, Submit, Tell, Run, PatchJob, Rendered,
         Complete, SkipRegistered, GiveKey, Upload, Ingest, JobFails, Fail, Finish, Crash,
         LoseDisk, Renders, Breaks, Forgets
<1>. QED
     BY <1>1, <1>2, CoreTypes

\* A state whose keys were drawn stays one.
LEMMA DrawnGrows ==
    ASSUME NEW m \in State, NEW k \in Nat, NEW l \in Nat, k <= l, Drawn(m, k)
    PROVE  Drawn(m, l)
<1>1. m.req <= l
      BY StateLists DEF Drawn
<1>2. ASSUME NEW i \in DOMAIN m.jobs
      PROVE  m.jobs[i].key <= l /\ \A o \in DOMAIN m.jobs[i].gens : m.jobs[i].gens[o].key <= l
      BY StateLists DEF Drawn, Local, Output, Keys
<1>. QED
     BY <1>1, <1>2 DEF Drawn

\* No step uses a key it did not draw.
LEMMA KeysDrawnStay ==
    ASSUME CoreInv, Next
    PROVE  KeysDrawn'
<1>. /\ memory \in State /\ disk \in State /\ memory' \in State /\ disk' \in State
     /\ key \in Nat /\ key' \in Nat /\ NewKey \in Nat /\ key <= key' /\ keyed' = keyed
     /\ key <= NewKey
     BY CoreTypes, StatesStay, KeysGrow
<1>1. keyed' => key' = 0
      BY KeysGrow DEF NewKey, CoreInv, KeysDrawn
<1>2. Drawn(memory, key') /\ Drawn(disk, key')
      BY DrawnGrows DEF CoreInv, KeysDrawn
<1>3. Drawn(NoState, key')
  <2>1. NoState.req = 0 /\ DOMAIN NoState.jobs = {}
        BY NoStateType
  <2>. QED
       BY <2>1 DEF Drawn
<1>4. Drawn(disk', key')
      BY <1>2, <1>3, DiskSteps
<1>5. Drawn(memory', key')
  <2>1. CASE UNCHANGED memory \/ memory' = NoState
        BY <1>2, <1>3, <2>1
  <2>2. CASE Begin
    <3>1. CASE disk.there
          BY <1>2, <2>2, <3>1 DEF Begin
    <3>2. CASE ~disk.there
      <4>1. memory' = [NoState EXCEPT !.req = NewKey, !.there = TRUE] /\ key' = NewKey
            BY <2>2, <3>2 DEF Begin
      <4>2. memory'.req = NewKey /\ memory'.jobs = <<>>
            BY <4>1, NoStateType
      <4>. QED
           BY <4>1, <4>2 DEF Drawn
    <3>. QED
         BY <3>1, <3>2
  <2>3. CASE Open
    <3>1. ASSUME NEW i \in DOMAIN memory'.jobs
          PROVE  /\ memory'.jobs[i].key <= key'
                 /\ \A o \in DOMAIN memory'.jobs[i].gens : memory'.jobs[i].gens[o].key <= key'
      <4>1. /\ Mine(memory, i).key <= key'
            /\ \A o \in DOMAIN Mine(memory, i).gens : Mine(memory, i).gens[o].key <= key'
            BY <1>2 DEF Mine, Drawn, NewJob
      <4>2. CASE i \in Answer(memory) /\ job[Resent(memory, i)].status = "ingested"
        <5>1. memory'.jobs[i] = Adopted(memory, i)
              BY <2>3, <4>2, OpenEffect
        <5>2. /\ memory'.jobs[i].key = Mine(memory, i).key
              /\ DOMAIN memory'.jobs[i].gens = 1..Images
              /\ \A o \in 1..Images : memory'.jobs[i].gens[o] =
                     IF o \in DOMAIN Mine(memory, i).gens THEN Mine(memory, i).gens[o]
                     ELSE [key |-> 0, registered |-> TRUE]
              BY <4>2, <5>1, AdoptedEntry
        <5>. QED
             BY <4>1, <5>2
      <4>3. CASE memory'.jobs[i] = Mine(memory, i)
            BY <4>1, <4>3
      <4>. QED
           BY <2>3, <4>2, <4>3, OpenEffect
    <3>. QED
         BY <1>2, <2>3, <3>1, OpenEffect DEF Drawn
  <2>4. CASE Work
    <3>1. PICK e \in Local : Entry(memory, memory', idx, e) /\ Later(e)
          BY <2>4, WorkEffect
    <3>2. idx \notin DOMAIN memory.jobs \/ (GiveKey /\ out \notin DOMAIN Here.gens) => key' = NewKey
          BY <2>4, WorkPlace DEF Work, CreateJob, JobFails, ListedKey, Submit, Submitting,
             Upload, Ingest, PatchJob, GiveKey
    <3>3. /\ Old.key <= key'
          /\ \A o \in DOMAIN Old.gens : Old.gens[o].key <= key'
          BY <1>2, <3>2 DEF Old, Here, Drawn, NewJob
    <3>4. e.key <= key'
          BY <3>1, <3>3 DEF Later
    <3>5. ASSUME NEW o \in DOMAIN e.gens
          PROVE  e.gens[o].key <= key'
      <4>1. CASE o \in DOMAIN Old.gens
            BY <3>1, <3>3, <4>1 DEF Later
      <4>2. CASE o \notin DOMAIN Old.gens
        <5>1. GiveKey /\ e.gens[o] = [key |-> NewKey, registered |-> FALSE] /\ o = out
              BY <3>1, <4>2 DEF Later
        <5>2. Old = Here
              BY <2>4, <5>1, WorkPlace DEF GiveKey
        <5>. QED
             BY <3>2, <4>2, <5>1, <5>2
      <4>. QED
           BY <4>1, <4>2
    <3>. QED
         BY <1>2, <3>1, <3>4, <3>5 DEF Entry, Drawn
  <2>. QED
       BY <2>1, <2>2, <2>3, <2>4, MemorySteps DEF Work
<1>6. ASSUME NEW id \in DOMAIN job'
      PROVE  id.req <= key' /\ id.key <= key' /\ id.index \in Indexes
  <2>1. CASE id \in DOMAIN job
        BY <2>1 DEF CoreInv, KeysDrawn, TypeOK, Keys
  <2>2. CASE id \notin DOMAIN job
    <3>1. id = ThisId /\ Creating /\ (CreateJob \/ JobFails)
          BY <2>2, JobEffect, JobSteps DEF Patches, PatchedJobs
    <3>2. idx \in Indexes
          BY <3>1, WorkPlace DEF Work
    <3>3. Old.key <= key'
      <4>1. idx \notin DOMAIN memory.jobs => key' = NewKey
            BY <3>1 DEF CreateJob, JobFails, ListedKey
      <4>. QED
           BY <1>2, <4>1 DEF Old, Here, Drawn, NewJob
    <3>. QED
         BY <1>2, <3>1, <3>2, <3>3 DEF ThisId, Drawn
  <2>. QED
       BY <2>1, <2>2
<1>7. ASSUME NEW g \in gens'
      PROVE  g.key <= key' /\ g.out \in 1..Images
  <2>1. CASE g \in gens
        BY <2>1 DEF CoreInv, KeysDrawn, TypeOK, Keys
  <2>2. CASE g \notin gens
    <3>1. pc = "upload" /\ g = Uploaded
          BY <2>2, GensEffect
    <3>2. /\ idx \in DOMAIN memory.jobs /\ out \in DOMAIN Here.gens
          BY <3>1 DEF CoreInv, AtJob, AtOutput, InJob
    <3>3. out \in 1..Images
          BY <3>2, StateLists DEF Here, CoreInv, Shapes, Shape
    <3>4. Here.gens[out].key <= key'
          BY <1>2, <3>2 DEF Here, Drawn
    <3>. QED
         BY <3>1, <3>3, <3>4 DEF Uploaded
  <2>. QED
       BY <2>1, <2>2
<1>. QED
     BY <1>1, <1>4, <1>5, <1>6, <1>7 DEF KeysDrawn

-----------------------------------------------------------------------------
(* Where the run is.                                                       *)

\* Steps that leave the run's state and the file alone.
Moves ==
    \/ SkipIngested \/ SkipCreated \/ Resume \/ Tell \/ Run \/ Rendered \/ Complete
    \/ SkipRegistered \/ Fail
    \/ GiveKey /\ out \in DOMAIN Here.gens

\* Steps of ComfyUI alone.
Quiet == UNCHANGED <<keyed, pc, run, disk, chimera, key, finished, history>>

\* Every step is of one of these kinds.
LEMMA Kinds ==
    ASSUME Next
    PROVE  \/ Begin \/ Open \/ Save \/ Work \/ Moves \/ Finish \/ Crash \/ LoseDisk \/ Quiet
<1>1. CASE Rendering \/ (UNCHANGED keyed /\ ((\E p \in DOMAIN comfy : Breaks(p)) \/ Forgets))
      BY <1>1 DEF Rendering, Renders, Breaks, Forgets, Quiet
<1>. QED
     BY <1>1 DEF Next, Step, Trouble, Work, Moves

\* The file is the state after such a step only if it was before.
LEMMA MovesEffect ==
    ASSUME CoreInv, Moves
    PROVE  /\ memory' = memory /\ disk' = disk
           /\ pc \in InJob \cup {"job"} /\ pc' \in InJob \cup {"job", "over"}
           /\ pc' \in Saved => pc \in Saved
           /\ idx' = idx \/ SkipIngested
           /\ UNCHANGED comfy
<1>. USE DEF run, chimera, history, InJob, Saved
<1>1. CASE SkipIngested \/ SkipCreated \/ Resume
      BY <1>1 DEF SkipIngested, SkipCreated, InLoop, Resume
<1>2. CASE Tell \/ Run \/ Complete \/ Fail
      BY <1>2 DEF Tell, Run, Complete, Fail, PatchJob
<1>3. CASE Rendered \/ SkipRegistered \/ (GiveKey /\ out \in DOMAIN Here.gens)
      BY <1>3 DEF Rendered, SkipRegistered, GiveKey
<1>. QED
     BY <1>1, <1>2, <1>3 DEF Moves

\* The place tells which step of the job was taken.
LEMMA WorkPc ==
    ASSUME CoreInv, Work
    PROVE  /\ pc' \in {"created", "submitted", "registered", "over", "keyed", "failing"}
           /\ idx' = idx /\ out' = out /\ disk' = disk
           /\ pc' = "created" => CreateJob
           /\ pc' = "submitted" => Submit
           /\ pc' = "registered" => Upload
           /\ pc' = "keyed" => GiveKey
           /\ pc' = "over" => Ingest \/ (JobFails /\ pc = "job")
           /\ pc' = "failing" => JobFails /\ pc # "job"
BY DEF Work, CreateJob, Submit, Upload, Ingest, PatchJob, JobFails, GiveKey

\* What a save leaves.
LEMMA SaveEffect ==
    ASSUME CoreInv, Save
    PROVE  /\ memory' = memory /\ disk' = memory
           /\ pc \in {"opened", "created", "submitted", "keyed", "registered", "over"}
           /\ pc' = AfterSave[pc] /\ pc' \in {"job", "prompt", "tell", "upload", "output"}
           /\ idx' = IF pc = "over" THEN idx + 1 ELSE idx
           /\ out' = IF pc = "registered" THEN out + 1 ELSE out
           /\ UNCHANGED <<job, gens, comfy>>
BY DEF Save, Proceed, AfterSave, chimera

\* A run has a state, with seeds, once it has opened, and a file once it has saved.
LEMMA StartedStays ==
    ASSUME CoreInv, Next
    PROVE  Started'
<1>. /\ memory \in State /\ disk \in State /\ memory' \in State /\ disk' \in State
     /\ Started /\ key \in Nat
     BY CoreTypes, StatesStay DEF CoreInv
<1>1. CASE Begin
  <2>1. pc' = "open" /\ disk' = disk /\ job' = job /\ keyed' = keyed
        BY <1>1, KeysGrow DEF Begin, chimera
  <2>2. CASE disk.there
        BY <1>1, <2>1, <2>2 DEF Started, Begin, Between
  <2>3. CASE ~disk.there
    <3>1. memory' = [NoState EXCEPT !.req = NewKey, !.there = TRUE]
          BY <1>1, <2>3 DEF Begin
    <3>2. memory'.req = NewKey
          BY <3>1, CoreTypes, NoStateType
    <3>3. ~keyed => \A id \in DOMAIN job : id.req # NewKey
          BY DEF CoreInv, TypeOK, KeysDrawn, NewKey, Fresh, Keys
    <3>. QED
         BY <2>1, <2>3, <3>1, <3>2, <3>3 DEF Started, Between
  <2>. QED
       BY <2>2, <2>3
<1>2. CASE Open
  <2>1. pc' = "opened" /\ disk' = disk /\ memory.there
        BY <1>2, HasState DEF Open
  <2>. QED
       BY <1>2, <2>1, OpenEffect, SeedsAdopted DEF Started, Between
<1>3. CASE Finish \/ Crash \/ LoseDisk
  <2>1. pc' = "off" /\ memory' = NoState
        BY <1>3 DEF Finish, Crash, LoseDisk, NoRun, run, Started
  <2>2. disk' = disk \/ disk' = NoState
        BY DiskSteps, <2>1, SaveEffect
  <2>3. ~NoState.there
        BY NoStateType
  <2>. QED
       BY <2>1, <2>2, <2>3 DEF Started, Between
<1>4. CASE Save
  <2>1. memory.there /\ memory.seeds # NoSeeds
        BY <1>4, SaveEffect DEF Started, Between
  <2>. QED
       BY <1>4, <2>1, SaveEffect DEF Started, Between
<1>5. CASE Work
  <2>1. memory'.there /\ memory'.seeds # NoSeeds
        BY <1>5, WorkEffect, WorkPlace DEF Entry
  <2>2. disk' = disk /\ disk.there /\ pc' \notin {"off", "open"}
        BY <1>5, WorkPlace, WorkPc
  <2>. QED
       BY <2>1, <2>2 DEF Started, Between
<1>6. CASE Moves
      BY <1>6, MovesEffect DEF Started, Between, InJob
<1>7. CASE Quiet
      BY <1>7 DEF Quiet, run, chimera, Started
<1>. QED
     BY <1>1, <1>2, <1>3, <1>4, <1>5, <1>6, <1>7, Kinds

\* The file is the state until the state changes.
LEMMA StoredStays ==
    ASSUME CoreInv, Next
    PROVE  Stored'
<1>. Stored
     BY DEF CoreInv
<1>1. CASE Begin \/ Open \/ Finish \/ Crash \/ LoseDisk
      BY <1>1 DEF Begin, Open, Finish, Crash, LoseDisk, Stored, Saved
<1>2. CASE Save
      BY <1>2, SaveEffect DEF Stored
<1>3. CASE Work
      BY <1>3, WorkPc DEF Stored, Saved
<1>4. CASE Moves
      BY <1>4, MovesEffect DEF Stored
<1>5. CASE Quiet
      BY <1>5 DEF Quiet, run, Stored
<1>. QED
     BY <1>1, <1>2, <1>3, <1>4, <1>5, Kinds

\* The state never falls behind the file.
LEMMA FollowsStays ==
    ASSUME CoreInv, Next
    PROVE  Follows'
<1>. /\ memory \in State /\ disk \in State /\ Started /\ Follows
     BY CoreTypes DEF CoreInv
<1>1. CASE Begin
      BY <1>1 DEF Begin, Follows, Ahead
<1>2. CASE Open
  <2>. SUFFICES ASSUME disk.there
                PROVE  Ahead(disk, memory')
       BY <1>2 DEF Open, Follows, Ahead
  <2>1. Ahead(disk, memory) /\ memory.seeds # NoSeeds
        BY <1>2 DEF Open, Follows, Ahead, Started
  <2>2. memory'.there /\ memory'.req = memory.req /\ memory'.seeds = memory.seeds
        BY <1>2, <2>1, OpenEffect DEF Ahead, AdoptedSeeds
  <2>3. ASSUME NEW i \in DOMAIN memory.jobs
        PROVE  /\ i \in DOMAIN memory'.jobs /\ memory'.jobs[i].key = memory.jobs[i].key
               /\ memory.jobs[i].status = "ingested" => memory'.jobs[i].status = "ingested"
    <3>1. i \in DOMAIN memory'.jobs /\ Mine(memory, i) = memory.jobs[i]
          BY <1>2, OpenEffect DEF Mine
    <3>2. CASE i \in Answer(memory) /\ job[Resent(memory, i)].status = "ingested"
      <4>1. memory'.jobs[i] = Adopted(memory, i)
            BY <1>2, <3>1, <3>2, OpenEffect
      <4>. QED
           BY <3>1, <3>2, <4>1, AdoptedEntry
    <3>3. CASE memory'.jobs[i] = Mine(memory, i)
          BY <3>1, <3>3
    <3>. QED
         BY <1>2, <3>1, <3>2, <3>3, OpenEffect
  <2>. QED
       BY <2>1, <2>2, <2>3 DEF Ahead
<1>3. CASE Finish \/ Crash \/ LoseDisk
      BY <1>3 DEF Finish, Crash, LoseDisk, Follows
<1>4. CASE Save
      BY <1>4, SaveEffect DEF Follows, Ahead
<1>5. CASE Work
  <2>1. PICK e \in Local : Entry(memory, memory', idx, e) /\ Later(e)
        BY <1>5, WorkEffect
  <2>2. /\ Ahead(disk, memory) /\ Old.status # "ingested" /\ disk' = disk
        /\ idx \in DOMAIN memory.jobs => Old = memory.jobs[idx]
        BY <1>5, WorkPlace, WorkPc DEF InJob, Follows, Old, Here
  <2>3. e.key = Old.key
        BY <2>1 DEF Later
  <2>. QED
       BY <2>1, <2>2, <2>3 DEF Ahead, Entry, Follows
<1>6. CASE Moves
      BY <1>6, MovesEffect DEF Follows, InJob
<1>7. CASE Quiet
      BY <1>7 DEF Quiet, run, Follows
<1>. QED
     BY <1>1, <1>2, <1>3, <1>4, <1>5, <1>6, <1>7, Kinds

\* The entry at hand after the step that changed it.
LEMMA HereNext ==
    ASSUME CoreInv, Work, NEW e \in Local, Entry(memory, memory', idx, e)
    PROVE  /\ Here' = e /\ idx' = idx /\ idx' \in DOMAIN memory'.jobs
           /\ idx' \in DOMAIN memory'.seeds
BY WorkPc, WorkPlace DEF Entry, Here

\* The loop over the jobs is where its entries say.
LEMMA AtJobStays ==
    ASSUME CoreInv, Next
    PROVE  AtJob'
<1>. memory \in State /\ memory' \in State /\ idx \in Nat \ {0} /\ AtJob
     BY CoreTypes, StatesStay DEF CoreInv
<1>. DOMAIN memory.jobs = 1..Len(memory.jobs) /\ Len(memory.jobs) \in Nat
     BY StateLists
<1>1. CASE Begin \/ Finish \/ Crash \/ LoseDisk
      BY <1>1 DEF Begin, Finish, Crash, LoseDisk, AtJob, InJob, Prompted
<1>2. CASE Open
      BY <1>2 DEF Open, AtJob, InJob, Prompted
<1>3. CASE Save
  <2>1. memory' = memory /\ Here = memory.jobs[idx]
        BY <1>3, SaveEffect DEF Here
  <2>2. CASE pc \in {"opened", "over"}
        BY <1>3, <2>1, <2>2, SaveEffect DEF AfterSave, AtJob, InJob, Prompted
  <2>3. CASE pc \in {"created", "submitted", "keyed", "registered"}
    <3>1. idx' = idx /\ pc' \in {"prompt", "tell", "upload", "output"}
          BY <1>3, <2>3, SaveEffect DEF AfterSave
    <3>2. Here' = Here
          BY <2>1, <3>1 DEF Here
    <3>3. pc' # "prompt" => pc \in Prompted
          BY <1>3, <2>3, SaveEffect DEF AfterSave, Prompted
    <3>. QED
         BY <2>1, <2>3, <3>1, <3>2, <3>3 DEF AtJob, InJob, Prompted
  <2>. QED
       BY <1>3, <2>2, <2>3, SaveEffect
<1>4. CASE Work
  <2>1. PICK e \in Local : Entry(memory, memory', idx, e) /\ Later(e)
        BY <1>4, WorkEffect
  <2>2. /\ Here' = e /\ idx' \in DOMAIN memory'.jobs /\ idx' \in DOMAIN memory'.seeds
        BY <1>4, <2>1, HereNext
  <2>3. pc' \in InJob => e.made /\ e.status # "ingested"
    <3>1. pc' \in InJob => ~Ingest
          BY <1>4 DEF Ingest, PatchJob, InJob
    <3>2. Old.made \/ pc = "job"
          BY <1>4, WorkPlace
    <3>3. pc = "job" /\ pc' \in InJob => CreateJob
          BY <1>4, WorkPc DEF Work, CreateJob, Submit, Submitting, Upload, Ingest, PatchJob,
             JobFails, GiveKey, InJob
    <3>4. CreateJob => e.made
      <4>1. CreateJob => Entry(memory, memory', idx, [Old EXCEPT !.made = TRUE])
            BY CreateEntry
      <4>2. CreateJob => e = [Old EXCEPT !.made = TRUE]
            BY <2>1, <4>1 DEF Entry
      <4>. QED
           BY <4>2, WorkPlace, <1>4 DEF Local
    <3>. QED
         BY <2>1, <3>1, <3>2, <3>3, <3>4 DEF Later
  <2>4. /\ pc' = "failing" => e.status = "failed"
        /\ pc' = "over" => e.status \in {"ingested", "failed"}
        BY <1>4, <2>1, WorkPc DEF Later
  <2>5. pc' \in Prompted => e.prompt # NoPrompt
    <3>1. pc' = "submitted" => e.prompt # NoPrompt
          BY <1>4, <2>1, WorkPc, CoreTypes DEF Later, NoPrompt
    <3>2. pc' \in {"registered", "keyed"} => e.prompt = Old.prompt /\ Old = Here /\ pc \in Prompted
          BY <1>4, <2>1, WorkPc, WorkPlace DEF Later, Upload, GiveKey, Submitting, Prompted
    <3>. QED
         BY <1>4, <3>1, <3>2, WorkPc DEF AtJob, Prompted
  <2>6. pc' \notin {"opened", "job"}
        BY <1>4, WorkPc
  <2>. QED
       BY <2>2, <2>3, <2>4, <2>5, <2>6 DEF AtJob
<1>5. CASE Moves
  <2>. memory' = memory
       BY <1>5, MovesEffect
  <2>1. CASE SkipIngested
        BY <2>1 DEF SkipIngested, InLoop, AtJob, InJob, Prompted
  <2>2. CASE SkipCreated
        BY <2>2 DEF SkipCreated, InLoop, AtJob, InJob, Prompted, Here, run
  <2>3. CASE Resume \/ Tell \/ Run \/ Rendered \/ Complete
        BY <2>3 DEF Resume, Tell, Run, PatchJob, Rendered, Complete, AtJob, InJob, Prompted,
           Here, run
  <2>4. CASE SkipRegistered \/ GiveKey
        BY <2>4 DEF SkipRegistered, GiveKey, AtJob, InJob, Prompted, Here
  <2>5. CASE Fail
        BY <2>5 DEF Fail, PatchJob, AtJob, InJob, Prompted, Here
  <2>. QED
       BY <1>5, <2>1, <2>2, <2>3, <2>4, <2>5 DEF Moves
<1>6. CASE Quiet
      BY <1>6 DEF Quiet, run, AtJob, Here
<1>. QED
     BY <1>1, <1>2, <1>3, <1>4, <1>5, <1>6, Kinds

\* The loop over the outputs passes only registered ones.
LEMMA AtOutputStays ==
    ASSUME CoreInv, Next
    PROVE  AtOutput'
<1>. /\ memory \in State /\ memory' \in State /\ idx \in Nat \ {0} /\ out \in Nat \ {0}
     /\ AtOutput
     BY CoreTypes, StatesStay DEF CoreInv
<1>. DEFINE n == Len(Here.gens)
<1>0. pc \in InJob => n \in Nat /\ n <= Images /\ DOMAIN Here.gens = 1..n
      BY StateLists DEF CoreInv, AtJob, Shapes, Shape, Here
<1>. HIDE DEF n
<1>1. CASE Begin \/ Open \/ Finish \/ Crash \/ LoseDisk
      BY <1>1 DEF Begin, Open, Finish, Crash, LoseDisk, AtOutput, Storing
<1>2. CASE Save
  <2>1. memory' = memory /\ (pc # "over" => Here' = Here)
        BY <1>2, SaveEffect DEF Here
  <2>2. CASE pc \in {"opened", "created", "submitted", "over"}
        BY <1>2, <2>2, SaveEffect DEF AfterSave, AtOutput, Storing
  <2>3. CASE pc = "keyed"
        BY <1>2, <2>1, <2>3, SaveEffect DEF AfterSave, AtOutput, Storing
  <2>4. CASE pc = "registered"
    <3>1. pc' = "output" /\ out' = out + 1 /\ Here' = Here
          BY <1>2, <2>1, <2>4, SaveEffect DEF AfterSave
    <3>2. /\ out \in DOMAIN Here.gens /\ Here.gens[out].registered
          /\ \A o \in 1..(out - 1) : Here.gens[o].registered
          BY <2>4 DEF AtOutput, Storing
    <3>3. out \in 1..n /\ n \in Nat /\ n <= Images
          BY <1>0, <2>4, <3>2 DEF InJob
    <3>4. \A o \in 1..((out + 1) - 1) : Here.gens[o].registered
      <4>1. ASSUME NEW o \in 1..((out + 1) - 1)
            PROVE  o = out \/ o \in 1..(out - 1)
            OBVIOUS
      <4>. QED
           BY <3>2, <4>1
    <3>. QED
         BY <3>1, <3>3, <3>4 DEF AtOutput, Storing, n
  <2>. QED
       BY <1>2, <2>2, <2>3, <2>4, SaveEffect
<1>3. CASE Work
  <2>1. PICK e \in Local : Entry(memory, memory', idx, e) /\ Later(e)
        BY <1>3, WorkEffect
  <2>2. Here' = e /\ out' = out
        BY <1>3, <2>1, HereNext, WorkPc
  <2>3. CASE pc' \notin {"registered", "keyed"}
        BY <1>3, <2>3, WorkPc DEF AtOutput, Storing
  <2>4. CASE pc' \in {"registered", "keyed"}
    <3>1. /\ (Upload /\ pc' = "registered") \/ (GiveKey /\ pc' = "keyed")
          /\ pc \in Storing /\ Old = Here
          BY <1>3, <2>4, WorkPc, WorkPlace DEF Upload, GiveKey, Storing
    <3>2. /\ out <= n + 1 /\ out <= Images + 1 /\ n \in Nat /\ DOMAIN Here.gens = 1..n
          /\ \A o \in 1..(out - 1) : Here.gens[o].registered
          BY <1>0, <3>1 DEF AtOutput, Storing, InJob, n
    <3>3. /\ Len(e.gens) \in Nat /\ DOMAIN e.gens = 1..Len(e.gens)
          /\ 1..n \subseteq 1..Len(e.gens)
          /\ \A o \in 1..n : Here.gens[o].registered => e.gens[o].registered
          BY <2>1, <3>1, <3>2 DEF Later
    <3>4. \A o \in 1..(out - 1) : e.gens[o].registered
          BY <3>2, <3>3
    <3>5. out <= Len(e.gens) + 1
      <4>1. n <= Len(e.gens)
            BY <3>2, <3>3
      <4>. QED
           BY <3>2, <3>3, <4>1
    <3>6. out \in DOMAIN e.gens
      <4>1. Upload => out \in DOMAIN Here.gens
            BY UploadEntry
      <4>. QED
           BY <2>1, <3>1, <3>2, <3>3, <4>1 DEF Later
    <3>7. pc' = "registered" => e.gens[out].registered
          BY <1>3, <2>1, <3>1, WorkPc DEF Later
    <3>. QED
         BY <2>2, <2>4, <3>2, <3>4, <3>5, <3>6, <3>7 DEF AtOutput, Storing
  <2>. QED
       BY <2>3, <2>4
<1>4. CASE Moves
  <2>. memory' = memory
       BY <1>4, MovesEffect
  <2>1. CASE SkipIngested \/ SkipCreated \/ Resume \/ Tell \/ Run \/ Rendered \/ Fail
        BY <2>1 DEF SkipIngested, SkipCreated, InLoop, Resume, Tell, Run, PatchJob, Rendered, Fail,
           AtOutput, Storing
  <2>2. CASE Complete
    <3>1. pc' = "output" /\ out' = 1 /\ Here' = Here /\ pc \in InJob
          BY <2>2 DEF Complete, PatchJob, Here, InJob
    <3>. QED
         BY <1>0, <3>1 DEF AtOutput, Storing, n
  <2>3. CASE SkipRegistered
    <3>1. /\ pc' = pc /\ pc = "output" /\ out' = out + 1 /\ Here' = Here /\ pc \in InJob
          /\ out \in DOMAIN Here.gens /\ Here.gens[out].registered /\ out <= Images
          BY <2>3 DEF SkipRegistered, Here, InJob, Registered
    <3>2. \A o \in 1..((out + 1) - 1) : Here.gens[o].registered
      <4>1. ASSUME NEW o \in 1..((out + 1) - 1)
            PROVE  o = out \/ o \in 1..(out - 1)
            OBVIOUS
      <4>. QED
           BY <3>1, <4>1 DEF AtOutput, Storing
    <3>3. out \in 1..n /\ n \in Nat
          BY <1>0, <3>1
    <3>. QED
         BY <3>1, <3>2, <3>3 DEF AtOutput, Storing, n
  <2>4. CASE GiveKey /\ out \in DOMAIN Here.gens
    <3>1. pc' = "keyed" /\ pc = "output" /\ out' = out /\ Here' = Here
          BY <2>4 DEF GiveKey, Here
    <3>. QED
         BY <2>4, <3>1 DEF AtOutput, Storing
  <2>. QED
       BY <1>4, <2>1, <2>2, <2>3, <2>4 DEF Moves
<1>5. CASE Quiet
      BY <1>5 DEF Quiet, run, AtOutput, Here
<1>. QED
     BY <1>1, <1>2, <1>3, <1>4, <1>5, Kinds

-----------------------------------------------------------------------------
(* What the state claims of chimera.                                       *)

\* A state stays true as long as no job it takes for ingested is changed.
LEMMA TruthGrows ==
    ASSUME CoreInv, Next, NEW m, Shape(m), TrueOf(m, job, gens),
           \A i \in DOMAIN m.jobs :
               JobId(m, i) = ThisId /\ job' # job => m.jobs[i].status # "ingested"
    PROVE  TrueOf(m, job', gens')
<1>1. DOMAIN job \subseteq DOMAIN job' /\ \A id \in DOMAIN job : id # ThisId => job'[id] = job[id]
      BY JobEffect
<1>2. gens \subseteq gens'
      BY GensEffect
<1>3. ASSUME NEW i \in DOMAIN m.jobs
      PROVE  /\ m.jobs[i].made => JobId(m, i) \in DOMAIN job'
             /\ m.jobs[i].status = "ingested" => job'[JobId(m, i)].status = "ingested"
             /\ \A o \in DOMAIN m.jobs[i].gens : m.jobs[i].gens[o].registered =>
                    \E g \in gens' : /\ g.job = JobId(m, i) /\ g.out = o
                                     /\ g.key = m.jobs[i].gens[o].key
  <2>1. m.jobs[i].status = "ingested" =>
            JobId(m, i) \in DOMAIN job /\ job[JobId(m, i)].status = "ingested"
        BY DEF Shape, TrueOf
  <2>. QED
       BY <1>1, <1>2, <2>1 DEF TrueOf
<1>. QED
     BY <1>3 DEF TrueOf

\* Neither the run's state nor the file does so for the job at hand.
LEMMA TruthKept ==
    ASSUME CoreInv, Next
    PROVE  TrueOf(memory, job', gens') /\ TrueOf(disk, job', gens')
<1>. /\ Shape(memory) /\ Shape(disk)
     /\ TrueOf(memory, job, gens) /\ TrueOf(disk, job, gens)
     BY DEF CoreInv, Shapes, Truth
<1>1. job' # job =>
          /\ pc \in InJob \cup {"job"}
          /\ idx \in DOMAIN memory.jobs => memory.jobs[idx].status # "ingested"
      BY JobEffect
<1>2. \A m : \A i \in DOMAIN m.jobs : JobId(m, i) = ThisId => i = idx
      BY DEF JobId, ThisId
<1>3. ASSUME NEW i \in DOMAIN disk.jobs, JobId(disk, i) = ThisId, job' # job
      PROVE  disk.jobs[i].status # "ingested"
  <2>1. pc # "off" /\ disk.there
    <3>1. DOMAIN NoState.jobs = {}
          BY NoStateType
    <3>. QED
         BY <1>1, <1>3, <3>1 DEF Shape, InJob
  <2>2. Ahead(disk, memory)
        BY <2>1 DEF CoreInv, Follows
  <2>. QED
       BY <1>1, <1>2, <1>3, <2>1, <2>2 DEF Ahead
<1>4. TrueOf(disk, job', gens')
      BY <1>3, TruthGrows
<1>5. \A i \in DOMAIN memory.jobs :
          JobId(memory, i) = ThisId /\ job' # job => memory.jobs[i].status # "ingested"
      BY <1>1, <1>2
<1>6. TrueOf(memory, job', gens')
      BY <1>5, TruthGrows
<1>. QED
     BY <1>4, <1>6

\* What is taken over from the answer is what chimera has.
LEMMA TruthOpened ==
    ASSUME CoreInv, Open
    PROVE  TrueOf(memory', job, gens)
<1>. memory \in State
     BY CoreTypes
<1>1. TrueOf(memory, job, gens) /\ IngestedIsWhole
      BY DEF CoreInv, Truth
<1>2. SUFFICES ASSUME NEW i \in DOMAIN memory'.jobs
               PROVE  /\ memory'.jobs[i].made => JobId(memory', i) \in DOMAIN job
                      /\ memory'.jobs[i].status = "ingested" =>
                             job[JobId(memory', i)].status = "ingested"
                      /\ \A o \in DOMAIN memory'.jobs[i].gens :
                             memory'.jobs[i].gens[o].registered =>
                                 \E g \in gens : /\ g.job = JobId(memory', i) /\ g.out = o
                                                 /\ g.key = memory'.jobs[i].gens[o].key
      BY DEF TrueOf
<1>3. ASSUME memory'.jobs[i].key = Mine(memory, i).key, i \in DOMAIN memory.jobs
      PROVE  JobId(memory', i) = JobId(memory, i)
      BY <1>3, OpenEffect DEF JobId, Mine
<1>4. \A o \in DOMAIN Mine(memory, i).gens :
          Mine(memory, i).gens[o].registered /\ memory'.jobs[i].key = Mine(memory, i).key =>
              \E g \in gens : /\ g.job = JobId(memory', i) /\ g.out = o
                              /\ g.key = Mine(memory, i).gens[o].key
  <2>1. CASE i \in DOMAIN memory.jobs
        BY <1>1, <1>3, <2>1 DEF Mine, TrueOf
  <2>2. CASE i \notin DOMAIN memory.jobs
        BY <2>2 DEF Mine, NewJob
  <2>. QED
       BY <2>1, <2>2
<1>5. CASE i \in Answer(memory) /\ job[Resent(memory, i)].status = "ingested"
  <2>. DEFINE id == Resent(memory, i)
              e == memory'.jobs[i]
  <2>1. e = Adopted(memory, i)
        BY <1>5, OpenEffect
  <2>2. /\ e.key = Mine(memory, i).key
        /\ DOMAIN e.gens = 1..Images
        /\ \A o \in 1..Images : e.gens[o] =
               IF o \in DOMAIN Mine(memory, i).gens THEN Mine(memory, i).gens[o]
               ELSE [key |-> 0, registered |-> TRUE]
        BY <1>5, <2>1, AdoptedEntry
  <2>3. id \in DOMAIN job /\ id = [req |-> 0, index |-> i, key |-> 0] /\ keyed /\ memory.req = 0
        BY <1>5, AnswerFacts
  <2>4. e.key = 0
    <3>1. key = 0 /\ Mine(memory, i).key <= key /\ Mine(memory, i).key \in Nat
          BY <2>3, MineType DEF CoreInv, KeysDrawn, Drawn, Mine, NewJob, Local, Keys
    <3>. QED
         BY <2>2, <3>1
  <2>5. JobId(memory', i) = id
        BY <2>3, <2>4, OpenEffect DEF JobId
  <2>6. ASSUME NEW o \in 1..Images
        PROVE  \E g \in gens : g.job = id /\ g.out = o /\ g.key = 0
    <3>1. PICK g \in GensOf(id) : g.out = o
          BY <1>1, <1>5, <2>3 DEF IngestedIsWhole
    <3>2. g \in gens /\ g.job = id
          BY DEF GensOf
    <3>3. g.key = 0
          BY <2>3, <3>2 DEF CoreInv, KeysDrawn, TypeOK, Keys
    <3>. QED
         BY <3>1, <3>2, <3>3
  <2>7. ASSUME NEW o \in DOMAIN e.gens, e.gens[o].registered
        PROVE  \E g \in gens : g.job = id /\ g.out = o /\ g.key = e.gens[o].key
    <3>1. CASE o \in DOMAIN Mine(memory, i).gens
          BY <1>4, <2>2, <2>5, <2>7, <3>1
    <3>2. CASE o \notin DOMAIN Mine(memory, i).gens
          BY <2>2, <2>6, <2>7, <3>2
    <3>. QED
         BY <3>1, <3>2
  <2>. QED
       BY <1>5, <2>3, <2>5, <2>7
<1>6. CASE memory'.jobs[i] = Mine(memory, i)
  <2>1. CASE i \in DOMAIN memory.jobs
        BY <1>1, <1>3, <1>6, <2>1 DEF Mine, TrueOf
  <2>2. CASE i \notin DOMAIN memory.jobs
        BY <1>6, <2>2 DEF Mine, NewJob
  <2>. QED
       BY <2>1, <2>2
<1>. QED
     BY <1>5, <1>6, OpenEffect

\* A step of the job at hand claims only what it has just done.
LEMMA TruthWorked ==
    ASSUME CoreInv, Next, Work
    PROVE  TrueOf(memory', job', gens')
<1>1. PICK e \in Local : Entry(memory, memory', idx, e) /\ Later(e)
      BY WorkEffect
<1>2. TrueOf(memory, job', gens')
      BY TruthKept
<1>3. /\ JobId(memory', idx) = ThisId
      /\ \A j \in DOMAIN memory.jobs \ {idx} : JobId(memory', j) = JobId(memory, j)
      BY <1>1 DEF JobId, ThisId, Entry, Later
<1>4. idx \in DOMAIN memory.jobs => Old = memory.jobs[idx] /\ JobId(memory, idx) = ThisId
      BY DEF Old, Here, JobId, ThisId
<1>5. idx \notin DOMAIN memory.jobs => ~Old.made /\ DOMAIN Old.gens = {}
      BY DEF Old, NewJob
<1>6. e.made => ThisId \in DOMAIN job'
  <2>1. CreateJob => ThisId \in DOMAIN job'
        BY ThisIdHolds DEF CreateJob, CreatedJobs, With
  <2>2. Old.made => ThisId \in DOMAIN job'
        BY <1>2, <1>4, <1>5 DEF TrueOf
  <2>. QED
       BY <1>1, <2>1, <2>2 DEF Later
<1>7. e.status = "ingested" => job'[ThisId].status = "ingested"
  <2>1. ASSUME Ingest
        PROVE  job'[ThisId].status = "ingested"
    <3>1. Patches /\ pc = "output"
          BY <2>1 DEF Ingest, PatchJob, Patches, StatusAt
    <3>. QED
         BY <3>1, PatchedRecord DEF StatusAt
  <2>. QED
       BY <1>1, <2>1 DEF Later
<1>8. ASSUME NEW o \in DOMAIN e.gens, e.gens[o].registered
      PROVE  \E g \in gens' : g.job = ThisId /\ g.out = o /\ g.key = e.gens[o].key
  <2>1. o \in DOMAIN Old.gens /\ e.gens[o].key = Old.gens[o].key
        BY <1>1, <1>8 DEF Later
  <2>2. CASE Old.gens[o].registered
        BY <1>2, <1>4, <1>5, <2>1, <2>2 DEF TrueOf
  <2>3. CASE Upload /\ o = out
    <3>1. HereId = ThisId /\ Here = Old
          BY <2>3, <1>4, <1>5, <2>1, ThisIdHolds DEF Here
    <3>. QED
         BY <2>1, <2>3, <3>1, GensEffect
  <2>. QED
       BY <1>1, <1>8, <2>1, <2>2, <2>3 DEF Later
<1>9. ASSUME NEW i \in DOMAIN memory'.jobs
      PROVE  /\ memory'.jobs[i].made => JobId(memory', i) \in DOMAIN job'
             /\ memory'.jobs[i].status = "ingested" => job'[JobId(memory', i)].status = "ingested"
             /\ \A o \in DOMAIN memory'.jobs[i].gens : memory'.jobs[i].gens[o].registered =>
                    \E g \in gens' : /\ g.job = JobId(memory', i) /\ g.out = o
                                     /\ g.key = memory'.jobs[i].gens[o].key
  <2>1. CASE i = idx
    <3>1. memory'.jobs[i] = e /\ JobId(memory', i) = ThisId
          BY <1>1, <1>3, <2>1 DEF Entry
    <3>. QED
         BY <1>6, <1>7, <1>8, <3>1
  <2>2. CASE i # idx
    <3>1. /\ i \in DOMAIN memory.jobs /\ memory'.jobs[i] = memory.jobs[i]
          /\ JobId(memory', i) = JobId(memory, i)
          BY <1>1, <1>3, <2>2 DEF Entry
    <3>. QED
         BY <1>2, <3>1 DEF TrueOf
  <2>. QED
       BY <2>1, <2>2
<1>. QED
     BY <1>9 DEF TrueOf

\* So the claims stay true.
LEMMA TruthStays ==
    ASSUME CoreInv, Next
    PROVE  Truth'
<1>1. TrueOf(memory, job', gens') /\ TrueOf(disk, job', gens')
      BY TruthKept
<1>2. \A m : DOMAIN m.jobs = {} => TrueOf(m, job', gens')
      BY DEF TrueOf
<1>3. DOMAIN NoState.jobs = {}
      BY NoStateType
<1>4. TrueOf(disk', job', gens')
      BY <1>1, <1>2, <1>3, DiskSteps
<1>5. CASE UNCHANGED memory \/ memory' = NoState
      BY <1>1, <1>2, <1>3, <1>4, <1>5 DEF Truth
<1>6. CASE Begin
  <2>1. CASE disk.there
        BY <1>1, <1>4, <1>6, <2>1 DEF Begin, Truth
  <2>2. CASE ~disk.there
    <3>1. memory' = [NoState EXCEPT !.req = NewKey, !.there = TRUE]
          BY <1>6, <2>2 DEF Begin
    <3>2. memory'.jobs = <<>>
          BY <3>1, CoreTypes, NoStateType
    <3>3. DOMAIN memory'.jobs = {}
          BY <3>2
    <3>. QED
         BY <1>2, <1>4, <3>3 DEF Truth
  <2>. QED
       BY <2>1, <2>2
<1>7. CASE Open
  <2>1. job' = job /\ gens' = gens
        BY <1>7 DEF Open
  <2>. QED
       BY <1>4, <1>7, <2>1, TruthOpened DEF Truth
<1>8. CASE Work
      BY <1>4, <1>8, TruthWorked DEF Truth
<1>. QED
     BY <1>5, <1>6, <1>7, <1>8, MemorySteps DEF Work

\* A job becomes ingested only when all of its outputs are at chimera.
LEMMA WholeStays ==
    ASSUME CoreInv, Next
    PROVE  IngestedIsWhole'
<1>1. \A g \in gens' : g.out \in 1..Images
      BY KeysDrawnStay DEF KeysDrawn
<1>2. gens \subseteq gens'
      BY GensEffect
<1>3. ASSUME NEW id \in DOMAIN job', job'[id].status = "ingested", NEW o \in 1..Images
      PROVE  \E g \in gens' : g.job = id /\ g.out = o
  <2>1. CASE id \in DOMAIN job /\ job[id].status = "ingested"
    <3>1. \E g \in GensOf(id) : g.out = o
          BY <2>1 DEF CoreInv, IngestedIsWhole
    <3>. QED
         BY <1>2, <3>1 DEF GensOf
  <2>2. CASE id \notin DOMAIN job \/ job[id].status # "ingested"
    <3>1. id = ThisId /\ Patches
      <4>1. id = ThisId /\ job' # job
            BY <1>3, <2>2, JobEffect
      <4>2. ~Creates
        <5>1. Creates => ThisId \in DOMAIN job' \ DOMAIN job
              BY <4>1, ThisIdHolds DEF Creates, CreatedJobs, With
        <5>. QED
             BY <1>3, <4>1, <5>1, JobEffect
      <4>. QED
           BY <4>1, <4>2, JobSteps
    <3>2. pc = "output" /\ out > Images /\ HereId = ThisId /\ idx \in DOMAIN memory.jobs
          BY <1>3, <3>1, PatchedRecord DEF Patches, StatusAt
    <3>3. o \in 1..(out - 1)
          BY <3>2, CoreTypes
    <3>4. Here.gens[o].registered /\ o \in DOMAIN Here.gens
      <4>1. out <= Len(Here.gens) + 1
            BY <3>2 DEF CoreInv, AtOutput, Storing
      <4>2. DOMAIN Here.gens = 1..Len(Here.gens) /\ Len(Here.gens) \in Nat
            BY <3>2, CoreTypes, StateLists DEF Here
      <4>. QED
           BY <3>2, <3>3, <4>1, <4>2, CoreTypes DEF CoreInv, AtOutput, Storing
    <3>5. \E g \in gens : g.job = HereId /\ g.out = o
          BY <3>2, <3>4 DEF CoreInv, Truth, TrueOf, Here, HereId
    <3>. QED
         BY <1>2, <3>1, <3>2, <3>5
  <2>. QED
       BY <2>1, <2>2
<1>. QED
     BY <1>1, <1>3 DEF IngestedIsWhole, GensOf

-----------------------------------------------------------------------------
(* The core of the invariant holds.                                        *)

\* The invariant holds at first, ...
LEMMA CoreInit ==
    ASSUME Init
    PROVE  CoreInv
<1>. NoState \in State /\ Shape(NoState) /\ DOMAIN NoState.jobs = {} /\ ~NoState.there
     /\ NoState.req = 0
  <2>1. Len(<<>>) = 0
        BY EmptySeq
  <2>2. NoState.jobs = <<>> /\ NoState.seeds = <<>> /\ ~NoState.there /\ NoState.req = 0
        /\ NoState \in State /\ DOMAIN NoState.jobs = {}
        BY NoStateType DEF NoSeeds
  <2>. QED
       BY <2>1, <2>2 DEF Shape
<1>. /\ memory = NoState /\ disk = NoState /\ pc = "off" /\ key = 0
     /\ DOMAIN job = {} /\ gens = {}
     BY DEF Init
<1>1. TypeOK
  <2>1. comfy \in Seq([index : Nat, seed : Nat, state : {"queued", "success", "error", "forgotten"}])
        BY EmptySeq DEF Init
  <2>2. requests \subseteq Keys
        BY DEF Init, Keys
  <2>3. keyed \in KeyedModes /\ pc \in Places /\ memory \in State /\ disk \in State
        BY DEF Init, Places
  <2>4. /\ idx \in Nat \ {0} /\ out \in Nat \ {0} /\ key \in Keys
        /\ reruns \in 0..MaxReruns /\ faults \in 0..MaxFaults
        BY LimitAssumption DEF Init, Keys
  <2>5. finished \in BOOLEAN /\ shifted \in BOOLEAN /\ orphan \subseteq DOMAIN comfy
        BY DEF Init
  <2>. QED
       BY <2>1, <2>2, <2>3, <2>4, <2>5 DEF TypeOK
<1>2. Shapes /\ Prompts /\ KeysDrawn
      BY DEF Shapes, Prompts, OwnPrompts, KeysDrawn, Drawn
<1>3. Started /\ AtJob /\ AtOutput /\ Stored /\ Follows
      BY DEF Started, AtJob, AtOutput, Stored, Follows, Between, InJob, Prompted, Storing, Saved
<1>4. Truth /\ IngestedIsWhole
      BY DEF Truth, TrueOf, IngestedIsWhole
<1>. QED
     BY <1>1, <1>2, <1>3, <1>4 DEF CoreInv

\* ... when nothing happens, ...
LEMMA CoreStutters ==
    ASSUME CoreInv, UNCHANGED vars
    PROVE  CoreInv'
<1>. /\ UNCHANGED <<keyed, pc, memory, idx, out, disk, requests, job, gens, comfy, key>>
     /\ UNCHANGED <<finished, orphan, shifted, reruns, faults>>
     BY DEF vars, run, chimera, history, bounds
<1>. Here' = Here
     BY DEF Here
<1>1. TypeOK'
      BY DEF CoreInv, TypeOK
<1>2. Shapes' /\ Prompts' /\ KeysDrawn'
      BY DEF CoreInv, Shapes, Prompts, KeysDrawn
<1>3. Started' /\ AtJob' /\ AtOutput' /\ Stored' /\ Follows'
      BY DEF CoreInv, Started, AtJob, AtOutput, Stored, Follows
<1>4. Truth' /\ IngestedIsWhole'
      BY DEF CoreInv, Truth, IngestedIsWhole, GensOf
<1>. QED
     BY <1>1, <1>2, <1>3, <1>4 DEF CoreInv

\* ... and after every step.
LEMMA CoreStep ==
    ASSUME CoreInv, [Next]_vars
    PROVE  CoreInv'
<1>1. CASE Next
      BY <1>1, TypesStay, ShapesStay, PromptsStay, KeysDrawnStay, StartedStays, AtJobStays,
         AtOutputStays, StoredStays, FollowsStays, TruthStays, WholeStays DEF CoreInv
<1>2. CASE UNCHANGED vars
      BY <1>2, CoreStutters
<1>. QED
     BY <1>1, <1>2

\* A run, its file and the records at chimera and ComfyUI have the types the
\* calls of generate.py expect of them, for every count, every number of images
\* and any number of crashes, restarts and lost files.
THEOREM TypesHold == Spec => []TypeOK
<1>1. CoreInv => TypeOK
      BY DEF CoreInv
<1>. QED
     BY <1>1, CoreInit, CoreStep, PTL DEF Spec

\* The file a run resumes from never claims a job, an image or an end that
\* chimera does not have, so that a resumed run skips nothing that is missing.
THEOREM FileIsTrue == Spec => []DiskIsTrue
<1>1. CoreInv => DiskIsTrue
      BY DEF CoreInv, Truth, TrueOf, DiskIsTrue, GensOf
<1>. QED
     BY <1>1, CoreInit, CoreStep, PTL DEF Spec

\* A job chimera shows as ingested has every image of its prompt, whichever runs
\* uploaded them.
THEOREM IngestedWhole == Spec => []IngestedIsWhole
<1>1. CoreInv => IngestedIsWhole
      BY DEF CoreInv
<1>. QED
     BY <1>1, CoreInit, CoreStep, PTL DEF Spec

-----------------------------------------------------------------------------
(* The keys of the images.                                                 *)

\* Chimera's images of a claimed row are all under the one key there is; of any
\* other request, under the keys the state and the file hold.
KeysMatch == ~keyed => KeysOf(memory, gens) /\ KeysOf(disk, gens)

\* What chimera has of the output at hand was sent under the key in the state.
LEMMA SentKeys ==
    ASSUME CoreInv, KeysMatch, pc = "upload", NEW g \in gens, g.job = HereId, g.out = out
    PROVE  g.key = Here.gens[out].key
<1>1. idx \in DOMAIN memory.jobs /\ out \in DOMAIN Here.gens
      BY DEF CoreInv, AtJob, AtOutput, InJob
<1>2. CASE keyed
  <2>1. key = 0 /\ g.key <= key /\ Here.gens[out].key <= key
        BY <1>1, <1>2 DEF CoreInv, KeysDrawn, Drawn, Here
  <2>2. g.key \in Nat
        BY DEF CoreInv, TypeOK, Keys
  <2>3. Here.gens[out].key \in Nat
        BY <1>1, CoreTypes, StateLists DEF Here, Output, Keys
  <2>. QED
       BY <2>1, <2>2, <2>3
<1>3. CASE ~keyed
      BY <1>1, <1>3 DEF KeysMatch, KeysOf, Here, HereId
<1>. QED
     BY <1>2, <1>3

\* So an image is recorded only once.
LEMMA OutputOnceStays ==
    ASSUME CoreInv, KeysMatch, OutputOnce, Next
    PROVE  OutputOnce'
<1>1. CASE UNCHANGED gens
      BY <1>1 DEF OutputOnce
<1>2. CASE pc = "upload" /\ gens' = UploadedGens
  <2>. DEFINE seen == \E h \in gens : [h EXCEPT !.prompt = Uploaded.prompt] = Uploaded
  <2>1. gens' = IF seen THEN gens ELSE gens \cup {Uploaded}
        BY <1>2 DEF UploadedGens, Uploaded
  <2>2. ASSUME NEW h \in gens, h.job = Uploaded.job, h.out = Uploaded.out
        PROVE  seen
    <3>1. h.job = HereId /\ h.out = out
          BY <2>2 DEF Uploaded
    <3>2. h.key = Here.gens[out].key
          BY <1>2, <3>1, SentKeys
    <3>3. h \in [job : DOMAIN job, out : Nat, key : Keys, prompt : DOMAIN comfy]
          BY DEF CoreInv, TypeOK
    <3>4. [h EXCEPT !.prompt = Here.prompt]
              = [job |-> HereId, out |-> out, key |-> Here.gens[out].key, prompt |-> Here.prompt]
          BY <3>1, <3>2, <3>3
    <3>. QED
         BY <3>4 DEF Uploaded
  <2>. HIDE DEF seen
  <2>. QED
       BY <2>1, <2>2 DEF OutputOnce
<1>. QED
     BY <1>1, <1>2, GensSteps

\* The keys a state holds match what one more image is sent under.
LEMMA KeysKept ==
    ASSUME CoreInv, KeysMatch, Next, ~keyed
    PROVE  KeysOf(memory, gens') /\ KeysOf(disk, gens')
<1>. KeysOf(memory, gens) /\ KeysOf(disk, gens)
     BY DEF KeysMatch
<1>1. ASSUME NEW g \in gens' \ gens
      PROVE  disk = memory /\ g = Uploaded /\ idx \in DOMAIN memory.jobs /\ out \in DOMAIN Here.gens
  <2>1. pc = "upload" /\ g = Uploaded
        BY GensEffect
  <2>. QED
       BY <2>1 DEF CoreInv, Stored, Saved, AtJob, AtOutput, InJob
<1>2. ASSUME NEW g \in gens' \ gens, NEW i \in DOMAIN memory.jobs, g.job = JobId(memory, i)
      PROVE  g.out \in DOMAIN memory.jobs[i].gens /\ memory.jobs[i].gens[g.out].key = g.key
  <2>1. i = idx
        BY <1>1, <1>2 DEF Uploaded, HereId, JobId
  <2>. QED
       BY <1>1, <2>1 DEF Uploaded, Here
<1>3. KeysOf(memory, gens')
      BY <1>2 DEF KeysOf
<1>4. KeysOf(disk, gens')
  <2>1. CASE gens' \ gens = {}
        BY <2>1 DEF KeysOf
  <2>2. CASE gens' \ gens # {}
        BY <1>1, <1>3, <2>2
  <2>. QED
       BY <2>1, <2>2
<1>. QED
     BY <1>3, <1>4

\* A run that opens without an answer has the jobs of its state.
LEMMA KeysOpened ==
    ASSUME CoreInv, Open, ~keyed, NEW gs, KeysOf(memory, gs)
    PROVE  KeysOf(memory', gs)
<1>1. DOMAIN memory'.jobs = DOMAIN memory.jobs /\ memory'.req = memory.req
      BY OpenEffect
<1>2. Answer(memory) = {}
      BY DEF Answer
<1>3. \A i \in DOMAIN memory.jobs : memory'.jobs[i] = memory.jobs[i]
      BY <1>1, <1>2, OpenEffect DEF Mine
<1>. QED
     BY <1>1, <1>3 DEF KeysOf, JobId

\* A step of the job at hand keeps its keys, and a new job has no images.
LEMMA KeysWorked ==
    ASSUME CoreInv, Next, Work, ~keyed, KeysOf(memory, gens')
    PROVE  KeysOf(memory', gens')
<1>1. PICK e \in Local : Entry(memory, memory', idx, e) /\ Later(e)
      BY WorkEffect
<1>2. /\ JobId(memory', idx) = ThisId
      /\ \A j \in DOMAIN memory.jobs \ {idx} : JobId(memory', j) = JobId(memory, j)
      BY <1>1 DEF JobId, ThisId, Entry, Later
<1>3. ASSUME NEW g \in gens', g.job = ThisId
      PROVE  g.out \in DOMAIN e.gens /\ e.gens[g.out].key = g.key
  <2>1. CASE idx \in DOMAIN memory.jobs
    <3>1. Old = memory.jobs[idx] /\ JobId(memory, idx) = ThisId
          BY <2>1 DEF Old, Here, JobId, ThisId
    <3>2. g.out \in DOMAIN Old.gens /\ Old.gens[g.out].key = g.key
          BY <1>3, <2>1, <3>1 DEF KeysOf
    <3>. QED
         BY <1>1, <3>2 DEF Later
  <2>2. CASE idx \notin DOMAIN memory.jobs
    <3>1. ThisId.key = key + 1
          BY <2>2 DEF ThisId, Old, NewJob, NewKey, Fresh
    <3>2. g \in gens
      <4>1. pc # "upload"
            BY <2>2, WorkPlace
      <4>. QED
           BY <4>1, GensEffect
    <3>3. g.job \in DOMAIN job
          BY <3>2 DEF CoreInv, TypeOK
    <3>4. ThisId.key \in Nat /\ ThisId.key <= key
          BY <1>3, <3>3 DEF CoreInv, KeysDrawn, TypeOK, Keys
    <3>. QED
         BY <3>1, <3>4, CoreTypes
  <2>. QED
       BY <2>1, <2>2
<1>4. ASSUME NEW g \in gens', NEW i \in DOMAIN memory'.jobs, g.job = JobId(memory', i)
      PROVE  g.out \in DOMAIN memory'.jobs[i].gens /\ memory'.jobs[i].gens[g.out].key = g.key
  <2>1. CASE i = idx
    <3>1. memory'.jobs[i] = e
          BY <1>1, <2>1 DEF Entry
    <3>. QED
         BY <1>2, <1>3, <1>4, <2>1, <3>1
  <2>2. CASE i # idx
    <3>1. i \in DOMAIN memory.jobs /\ memory'.jobs[i] = memory.jobs[i]
          BY <1>1, <2>2 DEF Entry
    <3>. QED
         BY <1>2, <1>4, <2>2, <3>1 DEF KeysOf
  <2>. QED
       BY <2>1, <2>2
<1>. QED
     BY <1>4 DEF KeysOf

\* Without keys of its own a run keeps the ones it sent images under.
LEMMA KeysMatchStays ==
    ASSUME CoreInv, KeysMatch, Next
    PROVE  KeysMatch'
<1>. SUFFICES ASSUME ~keyed
              PROVE  KeysOf(memory', gens') /\ KeysOf(disk', gens')
     BY KeysGrow DEF KeysMatch
<1>1. KeysOf(memory, gens') /\ KeysOf(disk, gens')
      BY KeysKept
<1>2. \A m : DOMAIN m.jobs = {} => KeysOf(m, gens')
      BY DEF KeysOf
<1>3. DOMAIN NoState.jobs = {}
      BY NoStateType
<1>4. KeysOf(disk', gens')
      BY <1>1, <1>2, <1>3, DiskSteps
<1>5. CASE UNCHANGED memory \/ memory' = NoState
      BY <1>1, <1>2, <1>3, <1>4, <1>5
<1>6. CASE Begin
  <2>1. CASE disk.there
        BY <1>1, <1>4, <1>6, <2>1 DEF Begin
  <2>2. CASE ~disk.there
    <3>1. memory' = [NoState EXCEPT !.req = NewKey, !.there = TRUE]
          BY <1>6, <2>2 DEF Begin
    <3>2. memory'.jobs = <<>>
          BY <3>1, CoreTypes, NoStateType
    <3>3. DOMAIN memory'.jobs = {}
          BY <3>2
    <3>. QED
         BY <1>2, <1>4, <3>3
  <2>. QED
       BY <2>1, <2>2
<1>7. CASE Open
      BY <1>1, <1>4, <1>7, KeysOpened
<1>8. CASE Work
      BY <1>1, <1>4, <1>8, KeysWorked
<1>. QED
     BY <1>5, <1>6, <1>7, <1>8, MemorySteps DEF Work

\* The inductive invariant of OutputOnce.
OutputInv == CoreInv /\ KeysMatch /\ OutputOnce

\* No image of a job is recorded twice: an upload that is sent again, by this run
\* or by one that resumes it, goes under the key the first one went under.
THEOREM OneRecordEach == Spec => []OutputOnce
<1>1. Init => OutputInv
  <2>1. Init => gens = {}
        BY DEF Init
  <2>. QED
       BY <2>1, CoreInit DEF OutputInv, KeysMatch, KeysOf, OutputOnce
<1>2. OutputInv /\ [Next]_vars => OutputInv'
  <2>1. OutputInv /\ Next => OutputInv'
        BY CoreStep, KeysMatchStays, OutputOnceStays DEF OutputInv
  <2>2. OutputInv /\ UNCHANGED vars => OutputInv'
    <3>. SUFFICES ASSUME OutputInv, UNCHANGED vars
                  PROVE  OutputInv'
         OBVIOUS
    <3>1. UNCHANGED <<keyed, memory, disk, gens>>
          BY DEF vars, run, chimera
    <3>. QED
         BY <3>1, CoreStutters DEF OutputInv, KeysMatch, OutputOnce
  <2>. QED
       BY <2>1, <2>2
<1>3. OutputInv => OutputOnce
      BY DEF OutputInv
<1>. QED
     BY <1>1, <1>2, <1>3, PTL DEF Spec

-----------------------------------------------------------------------------
(* Where the prompts are that ComfyUI may still render.                    *)

\* What is left if the run is killed, or what it goes on with.
Kept == IF pc = "off" THEN disk ELSE memory

\* The state m has p as the prompt of job i.
Holds(m, i, p) == i \in DOMAIN m.jobs /\ m.jobs[i].prompt = p

\* A claimed row's job that chimera shows as ingested needs no prompt, and the
\* run knows as soon as it has opened.
Settled(i) ==
    /\ keyed
    /\ [req |-> 0, index |-> i, key |-> 0] \in DOMAIN job
    /\ job[[req |-> 0, index |-> i, key |-> 0]].status = "ingested"
    /\ pc \notin Between => i \in DOMAIN memory.jobs /\ memory.jobs[i].status = "ingested"

\* A prompt that may still be rendered, whose id was not lost.
Live(p) == p \in DOMAIN comfy \ orphan /\ comfy[p].state # "forgotten"

\* Such a prompt is at hand for the next run, or its job needs none.
Tracked ==
    \A p \in DOMAIN comfy : Live(p) =>
        Holds(Kept, comfy[p].index, p) \/ Settled(comfy[p].index)

\* A prompt whose id was lost stays lost.
LEMMA OrphansGrow ==
    ASSUME Next
    PROVE  orphan \subseteq orphan'
<1>. USE DEF history
<1>1. CASE Begin \/ Open \/ Save
      BY <1>1 DEF Begin, Open, Save, Proceed
<1>2. CASE SkipIngested \/ SkipCreated \/ CreateJob \/ Resume \/ Submit
      BY <1>2 DEF SkipIngested, SkipCreated, CreateJob, Resume, Submit
<1>3. CASE Tell \/ Run \/ Rendered \/ Complete \/ Ingest \/ Fail
      BY <1>3 DEF Tell, Run, Rendered, Complete, Ingest, Fail, PatchJob
<1>4. CASE SkipRegistered \/ GiveKey \/ Upload \/ Finish
      BY <1>4 DEF SkipRegistered, GiveKey, Upload, Finish
<1>5. CASE JobFails
      BY <1>5 DEF JobFails, CallArrives
<1>6. CASE Rendering \/ Trouble
      BY <1>6 DEF Rendering, Renders, Trouble, Breaks, Forgets, Crash, LoseDisk
<1>. QED
     BY <1>1, <1>2, <1>3, <1>4, <1>5, <1>6 DEF Next, Step

\* Where the run is before and after a step that is not one of its job.
LEMMA OtherPlaces ==
    ASSUME CoreInv, Next
    PROVE  /\ Begin => pc = "off" /\ pc' = "open"
           /\ Open => pc = "open" /\ pc' = "opened"
           /\ Save => pc \notin Between /\ pc' \notin Between /\ memory' = memory
           /\ Work => pc \notin Between /\ pc' \notin Between
           /\ Moves => pc \notin Between /\ pc' \notin Between /\ memory' = memory
           /\ Finish => pc = "job" /\ pc' = "off" /\ disk' = disk
           /\ Crash => pc # "off" /\ pc' = "off" /\ disk' = disk
           /\ LoseDisk => pc = "off" /\ pc' = "off"
           /\ Quiet => pc' = pc /\ memory' = memory /\ disk' = disk
<1>1. Begin => pc = "off" /\ pc' = "open"
      BY DEF Begin
<1>2. Open => pc = "open" /\ pc' = "opened"
      BY DEF Open
<1>3. Save => pc \notin Between /\ pc' \notin Between /\ memory' = memory
      BY SaveEffect DEF Between
<1>4. Work => pc \notin Between /\ pc' \notin Between
  <2>1. Work => pc \notin Between
        BY WorkPlace DEF Between, InJob
  <2>2. Work => pc' \notin Between
        BY WorkPc DEF Between
  <2>. QED
       BY <2>1, <2>2
<1>5. Moves => pc \notin Between /\ pc' \notin Between /\ memory' = memory
      BY MovesEffect DEF Between, InJob
<1>6. Finish => pc = "job" /\ pc' = "off" /\ disk' = disk
      BY DEF Finish
<1>7. Crash => pc # "off" /\ pc' = "off" /\ disk' = disk
      BY DEF Crash
<1>8. LoseDisk => pc = "off" /\ pc' = "off"
      BY DEF LoseDisk
<1>9. Quiet => pc' = pc /\ memory' = memory /\ disk' = disk
      BY DEF Quiet, run
<1>. QED
     BY <1>1, <1>2, <1>3, <1>4, <1>5, <1>6, <1>7, <1>8, <1>9

\* A claimed row has one request, and the answer tells of all of its jobs.
LEMMA SettledOpens ==
    ASSUME CoreInv, Open, NEW i, Settled(i)
    PROVE  i \in DOMAIN memory'.jobs /\ memory'.jobs[i].status = "ingested"
<1>. DEFINE id == [req |-> 0, index |-> i, key |-> 0]
<1>1. memory.req = 0
  <2>1. memory.req \in Nat /\ memory.req <= key /\ key = 0
        BY CoreTypes, StateLists DEF Settled, CoreInv, KeysDrawn, Drawn
  <2>. QED
       BY <2>1
<1>2. i \in Answer(memory)
  <2>1. id \in DOMAIN job /\ keyed /\ id.req = memory.req
        BY <1>1 DEF Settled
  <2>2. id.index \in Answer(memory)
        BY <2>1, AnswerFacts
  <2>. QED
       BY <2>2
<1>3. job[Resent(memory, i)].status = "ingested"
      BY <1>2, AnswerFacts DEF Settled
<1>4. i \in DOMAIN memory'.jobs /\ memory'.jobs[i] = Adopted(memory, i)
      BY <1>2, <1>3, OpenEffect
<1>. QED
     BY <1>2, <1>3, <1>4, AdoptedEntry

\* What is settled stays so: no step touches an ingested job.
LEMMA SettledStays ==
    ASSUME CoreInv, Next, NEW i, Settled(i)
    PROVE  Settled(i)'
<1>. DEFINE id == [req |-> 0, index |-> i, key |-> 0]
<1>1. keyed' = keyed
      BY KeysGrow
<1>2. id \in DOMAIN job' /\ job'[id].status = "ingested"
  <2>1. id \in DOMAIN job /\ job[id].status = "ingested"
        BY DEF Settled
  <2>2. job'[id] = job[id]
    <3>1. SUFFICES ASSUME id = ThisId, job' # job
                   PROVE  FALSE
          BY <2>1, JobEffect
    <3>2. i = idx
          BY <3>1 DEF ThisId
    <3>3. pc \notin Between
          BY <3>1, JobEffect DEF InJob, Between
    <3>. QED
         BY <3>1, <3>2, <3>3, JobEffect DEF Settled
  <2>. QED
       BY <2>1, <2>2, JobEffect
<1>3. ASSUME pc' \notin Between
      PROVE  i \in DOMAIN memory'.jobs /\ memory'.jobs[i].status = "ingested"
  <2>1. CASE Open
        BY <2>1, SettledOpens
  <2>2. CASE Work
    <3>1. PICK e \in Local : Entry(memory, memory', idx, e) /\ Later(e)
          BY <2>2, WorkEffect
    <3>2. i \in DOMAIN memory.jobs /\ memory.jobs[i].status = "ingested"
          BY <2>2, OtherPlaces DEF Settled
    <3>3. i # idx
          BY <2>2, <3>2, WorkPlace DEF Old, Here
    <3>. QED
         BY <3>1, <3>2, <3>3 DEF Entry
  <2>3. CASE Save \/ Moves \/ Quiet
        BY <1>3, <2>3, OtherPlaces DEF Settled
  <2>4. CASE Begin \/ Finish \/ Crash \/ LoseDisk
        BY <1>3, <2>4, OtherPlaces DEF Between
  <2>. QED
       BY <2>1, <2>2, <2>3, <2>4, Kinds
<1>. QED
     BY <1>1, <1>2, <1>3 DEF Settled

\* Opening a run replaces a prompt only by the one of an ingested job.
LEMMA HeldOpens ==
    ASSUME CoreInv, Next, Open, NEW i, NEW p, Holds(memory, i, p)
    PROVE  Holds(memory', i, p) \/ Settled(i)'
<1>1. i \in DOMAIN memory'.jobs
      BY OpenEffect DEF Holds
<1>2. CASE i \in Answer(memory) /\ job[Resent(memory, i)].status = "ingested"
  <2>1. memory'.jobs[i].status = "ingested"
    <3>1. memory'.jobs[i] = Adopted(memory, i)
          BY <1>1, <1>2, OpenEffect
    <3>. QED
         BY <1>2, <3>1, AdoptedEntry
  <2>2. keyed /\ keyed' = keyed /\ job' = job
        BY <1>2, AnswerFacts, KeysGrow DEF Open
  <2>3. Resent(memory, i) = [req |-> 0, index |-> i, key |-> 0] /\ Resent(memory, i) \in DOMAIN job
        BY <1>2, AnswerFacts
  <2>. QED
       BY <1>1, <1>2, <2>1, <2>2, <2>3 DEF Settled
<1>3. CASE ~(i \in Answer(memory) /\ job[Resent(memory, i)].status = "ingested")
  <2>1. memory'.jobs[i] = Mine(memory, i)
        BY <1>1, <1>3, OpenEffect
  <2>. QED
       BY <1>1, <2>1 DEF Holds, Mine
<1>. QED
     BY <1>2, <1>3

\* A prompt that may still be rendered is given up by no step but one that loses
\* its id.
LEMMA HeldStays ==
    ASSUME CoreInv, Next, NEW p \in DOMAIN comfy, p \notin orphan',
           comfy[p].state # "forgotten", NEW i, i = comfy[p].index, Holds(Kept, i, p)
    PROVE  Holds(Kept', i, p) \/ Settled(i)'
<1>. p # NoPrompt
     BY CoreTypes DEF NoPrompt
<1>1. CASE Begin
  <2>1. Holds(disk, i, p)
        BY <1>1, OtherPlaces DEF Kept
  <2>2. disk.there
        BY <2>1, NoStateType DEF CoreInv, Shapes, Shape, Holds
  <2>3. memory' = disk /\ pc' = "open"
        BY <1>1, <2>2 DEF Begin
  <2>. QED
       BY <2>1, <2>3 DEF Kept
<1>2. CASE Open
  <2>1. Kept = memory /\ Kept' = memory'
        BY <1>2, OtherPlaces DEF Kept
  <2>. QED
       BY <1>2, <2>1, HeldOpens
<1>3. CASE Work
  <2>1. Kept = memory /\ Kept' = memory'
        BY <1>3, OtherPlaces DEF Kept, Between
  <2>2. PICK e \in Local : Entry(memory, memory', idx, e) /\ Later(e)
        BY <1>3, WorkEffect
  <2>3. CASE i = idx
    <3>1. Old = Here /\ Here.prompt = p
          BY <2>1, <2>3, OldEntry DEF Holds, Here
    <3>2. e.prompt = p
          BY <2>2, <3>1 DEF Later, Submitting, Knows
    <3>. QED
         BY <2>1, <2>2, <2>3, <3>2 DEF Entry, Holds
  <2>4. CASE i # idx
        BY <2>1, <2>2, <2>4 DEF Entry, Holds
  <2>. QED
       BY <2>3, <2>4
<1>4. CASE Save \/ Moves
      BY <1>4, OtherPlaces DEF Kept, Between
<1>5. CASE Quiet
      BY <1>5, OtherPlaces DEF Kept
<1>6. CASE Finish
  <2>1. disk = memory
        BY <1>6, OtherPlaces DEF CoreInv, Stored, Saved
  <2>. QED
       BY <1>6, <2>1, OtherPlaces DEF Kept
<1>7. CASE Crash
  <2>1. Kept = memory /\ Kept' = disk
        BY <1>7, OtherPlaces DEF Kept
  <2>2. p \in PromptsOf(memory)
        BY <2>1 DEF PromptsOf, Holds
  <2>3. p \in PromptsOf(disk)
        BY <1>7, <2>2 DEF Crash
  <2>4. PICK j \in DOMAIN disk.jobs : disk.jobs[j].prompt = p
        BY <2>3 DEF PromptsOf
  <2>5. j = i
        BY <2>4 DEF CoreInv, Prompts, OwnPrompts
  <2>. QED
       BY <2>1, <2>4, <2>5 DEF Holds
<1>8. CASE LoseDisk
  <2>1. Kept = disk
        BY <1>8, OtherPlaces DEF Kept
  <2>2. p \in PromptsOf(disk)
        BY <2>1 DEF PromptsOf, Holds
  <2>. QED
       BY <1>8, <2>2 DEF LoseDisk
<1>. QED
     BY <1>1, <1>2, <1>3, <1>4, <1>5, <1>6, <1>7, <1>8, Kinds

\* No prompt that may still be rendered is lost sight of.
LEMMA TrackedStays ==
    ASSUME CoreInv, Tracked, Next
    PROVE  Tracked'
<1>. SUFFICES ASSUME NEW p \in DOMAIN comfy', Live(p)'
              PROVE  Holds(Kept', comfy'[p].index, p) \/ Settled(comfy[p].index)'
     BY DEF Tracked
<1>1. CASE p \in DOMAIN comfy
  <2>1. PICK i : i = comfy[p].index
        OBVIOUS
  <2>2. comfy'[p].index = i /\ comfy[p].state # "forgotten" /\ p \notin orphan'
        BY <1>1, <2>1, ComfyEffect DEF Live
  <2>3. Live(p)
        BY <1>1, <2>2, OrphansGrow DEF Live
  <2>4. Holds(Kept, i, p) \/ Settled(i)
        BY <1>1, <2>1, <2>3 DEF Tracked
  <2>5. Holds(Kept', i, p) \/ Settled(i)'
        BY <1>1, <2>1, <2>2, <2>4, HeldStays, SettledStays
  <2>. QED
       BY <2>2, <2>5 DEF Settled
<1>2. CASE p \notin DOMAIN comfy
  <2>1. /\ p = Len(comfy) + 1 /\ (Submit \/ JobFails) /\ comfy'[p].index = idx
        /\ JobFails /\ ~Submit => p \in orphan'
        BY <1>2, ComfyEffect
  <2>2. Submit
        BY <2>1 DEF Live
  <2>3. PICK e \in Local : Entry(memory, memory', idx, e) /\ Later(e)
        BY <2>2, WorkEffect DEF Work
  <2>4. Holds(memory', idx, p)
        BY <2>1, <2>2, <2>3 DEF Later, Entry, Holds
  <2>5. Kept' = memory'
        BY <2>2 DEF Submit, Kept
  <2>. QED
       BY <2>1, <2>4, <2>5
<1>. QED
     BY <1>1, <1>2

\* A job's prompt is submitted again only when ComfyUI has forgotten it.
LEMMA RenderedOnceStays ==
    ASSUME CoreInv, Tracked, RenderedOnce, Next
    PROVE  RenderedOnce'
<1>1. \A p \in DOMAIN comfy : Live(p)' => Live(p) /\ comfy'[p].index = comfy[p].index
      BY OrphansGrow, ComfyEffect DEF Live
<1>2. ASSUME NEW p \in DOMAIN comfy, Live(p), NEW q \in DOMAIN comfy' \ DOMAIN comfy, Live(q)'
      PROVE  comfy[p].index # comfy'[q].index
  <2>1. /\ q = Len(comfy) + 1 /\ (Submit \/ JobFails) /\ comfy'[q].index = idx
        /\ Submitting /\ (JobFails /\ ~Submit => q \in orphan')
        BY <1>2, ComfyEffect
  <2>2. Submit
        BY <1>2, <2>1 DEF Live
  <2>3. SUFFICES ASSUME comfy[p].index = idx
                 PROVE  FALSE
        BY <2>1
  <2>4. pc = "prompt"
        BY <2>1 DEF Submitting
  <2>5. ~Settled(idx)
        BY <2>4 DEF Settled, CoreInv, AtJob, InJob, Between, Here
  <2>6. Here.prompt = p
        BY <1>2, <2>3, <2>4, <2>5 DEF Tracked, Holds, Kept, Here
  <2>7. p # NoPrompt
        BY CoreTypes DEF NoPrompt
  <2>. QED
       BY <1>2, <2>1, <2>6, <2>7 DEF Submitting, Knows, Live
<1>3. ASSUME NEW p \in DOMAIN comfy', NEW q \in DOMAIN comfy', Live(p)', Live(q)',
             comfy'[p].index = comfy'[q].index
      PROVE  p = q
  <2>1. CASE p \in DOMAIN comfy /\ q \in DOMAIN comfy
        BY <1>1, <1>3, <2>1 DEF RenderedOnce, Live
  <2>2. CASE p \notin DOMAIN comfy /\ q \notin DOMAIN comfy
        BY <2>2, ComfyEffect
  <2>3. CASE p \in DOMAIN comfy /\ q \notin DOMAIN comfy
        BY <1>1, <1>2, <1>3, <2>3
  <2>4. CASE p \notin DOMAIN comfy /\ q \in DOMAIN comfy
        BY <1>1, <1>2, <1>3, <2>4
  <2>. QED
       BY <2>1, <2>2, <2>3, <2>4
<1>. QED
     BY <1>3 DEF RenderedOnce, Live

\* The inductive invariant of RenderedOnce.
RenderedInv == CoreInv /\ Tracked /\ RenderedOnce

\* ComfyUI is never left with two prompts of one job to render, through any
\* kills, restarts and failures, unless an id was lost before it was saved.
THEOREM OnePromptEach == Spec => []RenderedOnce
<1>1. Init => RenderedInv
  <2>1. Init => DOMAIN comfy = {}
        BY DEF Init
  <2>. QED
       BY <2>1, CoreInit DEF RenderedInv, Tracked, RenderedOnce
<1>2. RenderedInv /\ [Next]_vars => RenderedInv'
  <2>1. RenderedInv /\ Next => RenderedInv'
        BY CoreStep, TrackedStays, RenderedOnceStays DEF RenderedInv
  <2>2. RenderedInv /\ UNCHANGED vars => RenderedInv'
    <3>. SUFFICES ASSUME RenderedInv, UNCHANGED vars
                  PROVE  RenderedInv'
         OBVIOUS
    <3>1. UNCHANGED <<keyed, pc, memory, disk, job, comfy, orphan>>
          BY DEF vars, run, chimera, history
    <3>2. Tracked' /\ RenderedOnce'
          BY <3>1 DEF RenderedInv, Tracked, RenderedOnce, Live, Kept, Holds, Settled
    <3>. QED
         BY <3>2, CoreStutters DEF RenderedInv
  <2>. QED
       BY <2>1, <2>2
<1>3. RenderedInv => RenderedOnce
      BY DEF RenderedInv
<1>. QED
     BY <1>1, <1>2, <1>3, PTL DEF Spec

-----------------------------------------------------------------------------
(* The seeds.                                                              *)

\* As long as no gap moved the seeds up, the run's state and the file have those
\* of chimera's jobs and of the prompts.
SeedInv == ~shifted => SeedsOf(memory, comfy, job) /\ SeedsOf(disk, comfy, job)

\* A gap is never forgotten, and there is none in an answer whose seeds are taken
\* over without one.
LEMMA ShiftsStay ==
    ASSUME Next
    PROVE  /\ shifted => shifted'
           /\ Open /\ ~shifted' /\ memory.seeds = NoSeeds =>
                  Answer(memory) = 1..Cardinality(Answer(memory))
<1>1. /\ Open /\ shifted => shifted'
      /\ Open /\ ~shifted' /\ memory.seeds = NoSeeds =>
             Answer(memory) = 1..Cardinality(Answer(memory))
  <2>1. Open => shifted' = \/ shifted
                           \/ /\ memory.seeds = NoSeeds
                              /\ Answer(memory) # 1..Cardinality(Answer(memory))
        BY DEF Open
  <2>. QED
       BY <2>1, Zenon
<1>2. Open \/ shifted' = shifted
  <2>. USE DEF history
  <2>1. CASE Begin \/ Save
        BY <2>1 DEF Begin, Save, Proceed
  <2>2. CASE SkipIngested \/ SkipCreated \/ CreateJob \/ Resume \/ Submit
        BY <2>2 DEF SkipIngested, SkipCreated, CreateJob, Resume, Submit
  <2>3. CASE Tell \/ Run \/ Rendered \/ Complete \/ Ingest \/ Fail
        BY <2>3 DEF Tell, Run, Rendered, Complete, Ingest, Fail, PatchJob
  <2>4. CASE SkipRegistered \/ GiveKey \/ Upload \/ Finish
        BY <2>4 DEF SkipRegistered, GiveKey, Upload, Finish
  <2>5. CASE JobFails
        BY <2>5 DEF JobFails
  <2>6. CASE Rendering \/ Trouble
        BY <2>6 DEF Rendering, Renders, Trouble, Breaks, Forgets, Crash, LoseDisk
  <2>. QED
       BY <1>1, <2>1, <2>2, <2>3, <2>4, <2>5, <2>6 DEF Next, Step
<1>3. shifted => shifted'
      BY <1>1, <1>2, Zenon
<1>. QED
     BY <1>1, <1>3, Zenon

\* In an answer without a gap every job has the seed of its own index.
LEMMA AnsweredInOrder ==
    ASSUME CoreInv, Answer(memory) = 1..Cardinality(Answer(memory)),
           NEW i \in Answer(memory)
    PROVE  /\ i \in DOMAIN AnsweredSeeds(memory)
           /\ AnsweredSeeds(memory)[i] = job[Resent(memory, i)].seed
<1>. DEFINE A == Answer(memory)
            n == Cardinality(A)
<1>1. A \subseteq Indexes /\ Count \in Nat
      BY AnswerFacts
<1>2. n \in Nat
  <2>1. IsFiniteSet(Indexes)
        BY <1>1, FS_Interval DEF Indexes
  <2>2. IsFiniteSet(A)
        BY <1>1, <2>1, FS_Subset
  <2>. QED
       BY <2>2, FS_CardinalityType
<1>3. i \in 1..n
      OBVIOUS
<1>4. \A k \in A : Cardinality(A \cap 1..k) = k
  <2>. SUFFICES ASSUME NEW k \in A
                PROVE  Cardinality(A \cap 1..k) = k
       OBVIOUS
  <2>1. k \in 1..n
        OBVIOUS
  <2>. HIDE DEF n
  <2>2. A \cap 1..k = 1..k
        BY <1>2, <2>1 DEF n
  <2>3. Cardinality(1..k) = k
        BY <1>2, <2>1, FS_Interval
  <2>. QED
       BY <2>2, <2>3
<1>5. (CHOOSE k \in A : Cardinality(A \cap 1..k) = i) = i
      BY <1>4
<1>6. AnsweredSeeds(memory) =
          [k \in 1..n |-> job[Resent(memory, CHOOSE j \in A : Cardinality(A \cap 1..j) = k)].seed]
      BY DEF AnsweredSeeds
<1>. HIDE DEF A, n
<1>. QED
     BY <1>3, <1>5, <1>6

\* So a run opens with the seeds of chimera's jobs.
LEMMA SeedsOpened ==
    ASSUME CoreInv, Open, Next, SeedsOf(memory, comfy, job), ~shifted'
    PROVE  /\ memory.seeds # NoSeeds => memory'.seeds = memory.seeds
           /\ memory.seeds = NoSeeds => DOMAIN memory.jobs = {}
           /\ \A id \in DOMAIN job : id.req = memory.req =>
                  /\ id.index \in DOMAIN memory'.seeds
                  /\ job[id].seed = memory'.seeds[id.index]
<1>1. memory.seeds # NoSeeds => memory'.seeds = memory.seeds
      BY OpenEffect DEF AdoptedSeeds
<1>2. memory.seeds = NoSeeds => DOMAIN memory.jobs = {}
  <2>1. memory.there
        BY HasState DEF Open
  <2>2. memory.seeds = NoSeeds => memory.jobs = <<>>
        BY <2>1 DEF CoreInv, Shapes, Shape
  <2>. QED
       BY <2>2
<1>3. ASSUME NEW id \in DOMAIN job, id.req = memory.req
      PROVE  id.index \in DOMAIN memory'.seeds /\ job[id].seed = memory'.seeds[id.index]
  <2>1. CASE memory.seeds # NoSeeds
        BY <1>1, <1>3, <2>1 DEF SeedsOf
  <2>2. CASE memory.seeds = NoSeeds
    <3>1. keyed
      <4>1. ~disk.there \/ memory # disk
            BY <2>2 DEF CoreInv, Started
      <4>. QED
           BY <1>3, <4>1 DEF CoreInv, Started, Open
    <3>2. id.index \in Answer(memory)
          BY <1>3, <3>1, AnswerFacts
    <3>3. memory'.seeds = AnsweredSeeds(memory)
          BY <2>2, <3>2, OpenEffect DEF AdoptedSeeds
    <3>4. Answer(memory) = 1..Cardinality(Answer(memory))
          BY <2>2, ShiftsStay
    <3>5. Resent(memory, id.index) = id
      <4>1. id \in [req : Keys, index : Nat, key : Keys] /\ id.key <= key /\ key = 0
            BY <3>1 DEF CoreInv, TypeOK, KeysDrawn
      <4>2. id.key = 0
            BY <4>1 DEF Keys
      <4>3. id.req = 0
            BY <1>3, <3>2, AnswerFacts
      <4>4. id = [req |-> 0, index |-> id.index, key |-> 0]
            BY <4>1, <4>2, <4>3
      <4>5. Resent(memory, id.index) = [req |-> 0, index |-> id.index, key |-> 0]
            BY <3>2, AnswerFacts
      <4>. QED
           BY <4>4, <4>5
    <3>. QED
         BY <3>2, <3>3, <3>4, <3>5, AnsweredInOrder
  <2>. QED
       BY <2>1, <2>2
<1>. QED
     BY <1>1, <1>2, <1>3

\* What is submitted and created is drawn with the seeds of the state.
LEMMA SeedsKept ==
    ASSUME CoreInv, Next, SeedsOf(memory, comfy, job), SeedsOf(disk, comfy, job)
    PROVE  SeedsOf(memory, comfy', job') /\ SeedsOf(disk, comfy', job')
<1>1. /\ \A p \in DOMAIN comfy : comfy'[p].seed = comfy[p].seed
      /\ OwnPrompts(memory, comfy) /\ OwnPrompts(disk, comfy)
      BY ComfyEffect DEF CoreInv, Prompts
<1>2. ASSUME NEW id \in DOMAIN job' \ DOMAIN job
      PROVE  /\ id.req = memory.req /\ id.index = idx /\ idx \in DOMAIN memory.seeds
             /\ job'[id].seed = memory.seeds[idx] /\ pc = "job"
  <2>1. id = ThisId /\ Creating /\ job'[id].seed = memory.seeds[idx]
        BY <1>2, JobEffect
  <2>. QED
       BY <2>1, ThisIdHolds DEF ThisId, Creating, InLoop
<1>3. \A id \in DOMAIN job : job'[id].seed = job[id].seed
      BY JobEffect
<1>4. SeedsOf(memory, comfy', job')
      BY <1>1, <1>2, <1>3 DEF SeedsOf, OwnPrompts
<1>5. pc = "job" => disk = memory
      BY DEF CoreInv, Stored, Saved
<1>6. SeedsOf(disk, comfy', job')
  <2>1. CASE pc = "job"
        BY <1>4, <1>5, <2>1
  <2>2. CASE pc # "job"
        BY <1>1, <1>2, <1>3, <2>2 DEF SeedsOf, OwnPrompts
  <2>. QED
       BY <2>1, <2>2
<1>. QED
     BY <1>4, <1>6

\* A prompt taken over from an ingested job was drawn with the job's seed.
LEMMA OpenedSeeds ==
    ASSUME CoreInv, Next, Open, ~shifted, ~shifted', SeedsAgree, SeedsOf(memory, comfy, job)
    PROVE  SeedsOf(memory', comfy, job)
<1>1. /\ memory'.req = memory.req
      /\ memory.seeds # NoSeeds => memory'.seeds = memory.seeds
      /\ memory.seeds = NoSeeds => DOMAIN memory.jobs = {}
      /\ \A id \in DOMAIN job : id.req = memory.req =>
             id.index \in DOMAIN memory'.seeds /\ job[id].seed = memory'.seeds[id.index]
      BY OpenEffect, SeedsOpened
<1>2. ASSUME NEW i, Mine(memory, i).prompt # NoPrompt
      PROVE  i \in DOMAIN memory'.seeds /\ comfy[Mine(memory, i).prompt].seed = memory'.seeds[i]
      BY <1>1, <1>2 DEF Mine, NewJob, SeedsOf
<1>3. ASSUME NEW i \in DOMAIN memory'.jobs, memory'.jobs[i].prompt # NoPrompt
      PROVE  i \in DOMAIN memory'.seeds /\ comfy[memory'.jobs[i].prompt].seed = memory'.seeds[i]
  <2>1. CASE i \in Answer(memory) /\ job[Resent(memory, i)].status = "ingested"
    <3>1. memory'.jobs[i] = Adopted(memory, i)
          BY <2>1, OpenEffect
    <3>2. CASE job[Resent(memory, i)].graph # NoPrompt
      <4>1. PICK id \in DOMAIN job : id = Resent(memory, i)
            BY <2>1, AnswerFacts
      <4>2. id.req = memory.req /\ id.index = i
            BY <2>1, <4>1, AnswerFacts
      <4>3. memory'.jobs[i].prompt = job[id].graph
            BY <2>1, <3>1, <3>2, <4>1, AdoptedEntry
      <4>4. comfy[job[id].graph].seed = job[id].seed
            BY <3>2, <4>1 DEF SeedsAgree
      <4>. QED
           BY <1>1, <4>2, <4>3, <4>4
    <3>3. CASE job[Resent(memory, i)].graph = NoPrompt
      <4>1. memory'.jobs[i].prompt = Mine(memory, i).prompt
            BY <2>1, <3>1, <3>3, AdoptedEntry
      <4>. QED
           BY <1>2, <1>3, <4>1
    <3>. QED
         BY <3>2, <3>3
  <2>2. CASE ~(i \in Answer(memory) /\ job[Resent(memory, i)].status = "ingested")
    <3>1. memory'.jobs[i] = Mine(memory, i)
          BY <2>2, OpenEffect
    <3>. QED
         BY <1>2, <1>3, <3>1
  <2>. QED
       BY <2>1, <2>2
<1>. QED
     BY <1>1, <1>3 DEF SeedsOf

\* A step of the job at hand submits its prompt with its seed.
LEMMA WorkedSeeds ==
    ASSUME CoreInv, Next, Work, SeedsOf(memory, comfy', job')
    PROVE  SeedsOf(memory', comfy', job')
<1>1. PICK e \in Local : Entry(memory, memory', idx, e) /\ Later(e)
      BY WorkEffect
<1>2. idx \in DOMAIN memory.seeds /\ memory'.seeds = memory.seeds /\ memory'.req = memory.req
      BY <1>1, WorkPlace DEF Entry
<1>3. e.prompt # NoPrompt => comfy'[e.prompt].seed = memory.seeds[idx]
  <2>1. CASE e.prompt = Old.prompt
    <3>1. Old.prompt # NoPrompt => idx \in DOMAIN memory.jobs /\ Old = memory.jobs[idx]
          BY DEF Old, NewJob, Here
    <3>. QED
         BY <2>1, <3>1 DEF SeedsOf
  <2>2. CASE Submit /\ e.prompt = Len(comfy) + 1
    <3>1. Submitting /\ comfy' = Submitted
          BY <2>2 DEF Submit
    <3>. QED
         BY <2>2, <3>1, SubmitsOne
  <2>. QED
       BY <1>1, <2>1, <2>2 DEF Later
<1>4. ASSUME NEW i \in DOMAIN memory'.jobs, memory'.jobs[i].prompt # NoPrompt
      PROVE  i \in DOMAIN memory.seeds /\ comfy'[memory'.jobs[i].prompt].seed = memory.seeds[i]
  <2>1. CASE i = idx
        BY <1>1, <1>2, <1>3, <1>4, <2>1 DEF Entry
  <2>2. CASE i # idx
        BY <1>1, <1>4, <2>2 DEF Entry, SeedsOf
  <2>. QED
       BY <2>1, <2>2
<1>. QED
     BY <1>2, <1>4 DEF SeedsOf

\* No step but the reading of a gap parts the seeds.
LEMMA SeedInvStays ==
    ASSUME CoreInv, SeedInv, SeedsAgree, Next
    PROVE  SeedInv'
<1>. SUFFICES ASSUME ~shifted'
              PROVE  SeedsOf(memory', comfy', job') /\ SeedsOf(disk', comfy', job')
     BY DEF SeedInv
<1>0. ~shifted /\ SeedsOf(memory, comfy, job) /\ SeedsOf(disk, comfy, job)
      BY ShiftsStay DEF SeedInv
<1>1. SeedsOf(memory, comfy', job') /\ SeedsOf(disk, comfy', job')
      BY <1>0, SeedsKept
<1>2. \A m : DOMAIN m.jobs = {} /\ m.seeds = NoSeeds => SeedsOf(m, comfy', job')
      BY DEF SeedsOf
<1>3. DOMAIN NoState.jobs = {} /\ NoState.seeds = NoSeeds
      BY NoStateType
<1>4. SeedsOf(disk', comfy', job')
      BY <1>1, <1>2, <1>3, DiskSteps
<1>5. CASE UNCHANGED memory \/ memory' = NoState
      BY <1>1, <1>2, <1>3, <1>4, <1>5
<1>6. CASE Begin
  <2>1. CASE disk.there
        BY <1>1, <1>4, <1>6, <2>1 DEF Begin
  <2>2. CASE ~disk.there
    <3>1. memory' = [NoState EXCEPT !.req = NewKey, !.there = TRUE]
          BY <1>6, <2>2 DEF Begin
    <3>2. memory'.jobs = <<>> /\ memory'.seeds = NoSeeds
          BY <3>1, CoreTypes, NoStateType
    <3>3. DOMAIN memory'.jobs = {}
          BY <3>2
    <3>. QED
         BY <1>2, <1>4, <3>2, <3>3
  <2>. QED
       BY <2>1, <2>2
<1>7. CASE Open
  <2>1. comfy' = comfy /\ job' = job
        BY <1>7 DEF Open
  <2>. QED
       BY <1>0, <1>4, <1>7, <2>1, OpenedSeeds
<1>8. CASE Work
      BY <1>1, <1>4, <1>8, WorkedSeeds
<1>. QED
     BY <1>5, <1>6, <1>7, <1>8, MemorySteps DEF Work

\* The job at hand, its prompt and the state have one seed.
LEMMA SeedHere ==
    ASSUME CoreInv, SeedsOf(memory, comfy, job), pc \in Prompted
    PROVE  /\ Here.prompt \in DOMAIN comfy /\ HereId \in DOMAIN job
           /\ comfy[Here.prompt].seed = job[HereId].seed
<1>1. pc \in InJob /\ idx \in DOMAIN memory.jobs /\ Here.prompt # NoPrompt
      BY DEF CoreInv, AtJob, InJob, Prompted
<1>2. HereId \in DOMAIN job
      BY <1>1, MadeIsThere
<1>3. memory.seeds # NoSeeds
      BY <1>1 DEF CoreInv, Started, InJob, Between
<1>4. job[HereId].seed = memory.seeds[idx]
      BY <1>2, <1>3 DEF SeedsOf, HereId, JobId
<1>5. comfy[Here.prompt].seed = memory.seeds[idx] /\ Here.prompt \in DOMAIN comfy
      BY <1>1 DEF SeedsOf, Here, CoreInv, Prompts, OwnPrompts
<1>. QED
     BY <1>2, <1>4, <1>5

\* What is recorded is recorded with the seed of the job at hand.
LEMMA SeedsAgreeStays ==
    ASSUME CoreInv, SeedInv, SeedsAgree, Next
    PROVE  SeedsAgree'
<1>. SUFFICES ASSUME ~shifted'
              PROVE  SeedsAgree'
     BY DEF SeedsAgree
<1>0. ~shifted /\ SeedsOf(memory, comfy, job)
      BY ShiftsStay DEF SeedInv
<1>1. \A p \in DOMAIN comfy : comfy'[p].seed = comfy[p].seed
      BY ComfyEffect
<1>2. \A id \in DOMAIN job : job'[id].seed = job[id].seed
      BY JobEffect
<1>3. ASSUME NEW id \in DOMAIN job', job'[id].graph # NoPrompt
      PROVE  /\ comfy'[job'[id].graph].index = id.index
             /\ comfy'[job'[id].graph].seed = job'[id].seed
  <2>1. comfy'[job'[id].graph].index = id.index
        BY <1>3, PromptsStay DEF Prompts
  <2>2. id \in DOMAIN job
        BY <1>3, JobEffect
  <2>3. CASE job'[id].graph = job[id].graph
    <3>1. job[id].graph \in DOMAIN comfy
          BY <1>3, <2>2, <2>3 DEF CoreInv, TypeOK
    <3>2. comfy[job[id].graph].seed = job[id].seed
          BY <1>0, <1>3, <2>2, <2>3 DEF SeedsAgree
    <3>. QED
         BY <1>1, <1>2, <2>1, <2>2, <2>3, <3>1, <3>2
  <2>4. CASE job'[id].graph # job[id].graph
    <3>1. pc = "tell" /\ id = ThisId /\ job'[id].graph = Here.prompt
          BY <2>2, <2>4, JobEffect
    <3>2. HereId = ThisId
          BY <3>1, MadeIsThere DEF InJob
    <3>3. /\ Here.prompt \in DOMAIN comfy
          /\ comfy[Here.prompt].seed = job[HereId].seed
          BY <1>0, <3>1, SeedHere DEF Prompted
    <3>. QED
         BY <1>1, <1>2, <2>1, <2>2, <3>1, <3>2, <3>3
  <2>. QED
       BY <2>3, <2>4
<1>4. ASSUME NEW g \in gens'
      PROVE  comfy'[g.prompt].seed = job'[g.job].seed
  <2>1. CASE g \in gens
    <3>1. g.prompt \in DOMAIN comfy /\ g.job \in DOMAIN job
          BY <2>1 DEF CoreInv, TypeOK
    <3>. QED
         BY <1>0, <1>1, <1>2, <2>1, <3>1 DEF SeedsAgree
  <2>2. CASE g \notin gens
    <3>1. pc = "upload" /\ g.prompt = Here.prompt /\ g.job = HereId
          BY <1>4, <2>2, GensEffect DEF Uploaded
    <3>. QED
         BY <1>0, <1>1, <1>2, <3>1, SeedHere DEF Prompted
  <2>. QED
       BY <2>1, <2>2
<1>. QED
     BY <1>3, <1>4 DEF SeedsAgree

\* The inductive invariant of SeedsAgree.
DrawnInv == CoreInv /\ SeedInv /\ SeedsAgree

\* The seed chimera shows of a job is the one its graph and its images were drawn
\* with, also when a run started without its file: unless the answer it then took
\* the seeds from had a gap.
THEOREM SeedsAreTrue == Spec => []SeedsAgree
<1>1. Init => DrawnInv
  <2>. SUFFICES ASSUME Init
                PROVE  DrawnInv
       OBVIOUS
  <2>1. DOMAIN job = {} /\ gens = {} /\ memory = NoState /\ disk = NoState
        BY DEF Init
  <2>2. DOMAIN NoState.jobs = {} /\ NoState.seeds = NoSeeds
        BY NoStateType
  <2>. QED
       BY <2>1, <2>2, CoreInit DEF DrawnInv, SeedInv, SeedsOf, SeedsAgree
<1>2. DrawnInv /\ [Next]_vars => DrawnInv'
  <2>1. DrawnInv /\ Next => DrawnInv'
        BY CoreStep, SeedInvStays, SeedsAgreeStays DEF DrawnInv
  <2>2. DrawnInv /\ UNCHANGED vars => DrawnInv'
    <3>. SUFFICES ASSUME DrawnInv, UNCHANGED vars
                  PROVE  DrawnInv'
         OBVIOUS
    <3>1. UNCHANGED <<memory, disk, job, gens, comfy, shifted>>
          BY DEF vars, run, chimera, history
    <3>2. SeedInv' /\ SeedsAgree'
          BY <3>1 DEF DrawnInv, SeedInv, SeedsAgree
    <3>. QED
         BY <3>2, CoreStutters DEF DrawnInv
  <2>. QED
       BY <2>1, <2>2
<1>3. DrawnInv => SeedsAgree
      BY DEF DrawnInv
<1>. QED
     BY <1>1, <1>2, <1>3, PTL DEF Spec

-----------------------------------------------------------------------------
(* The end of a run.                                                       *)

\* The job at i has come to an end, which chimera shows if it has the job.
Ended(m, jb, i) ==
    /\ i \in DOMAIN m.jobs /\ m.jobs[i].status \in {"ingested", "failed"}
    /\ m.jobs[i].made => jb[JobId(m, i)].status = m.jobs[i].status

\* Nothing is at chimera without a file, whose seeds are as many as the count;
\* the loop has seen every job before the one at hand to its end.
SeedsCounted ==
    /\ ~disk.there => DOMAIN job = {}
    /\ disk.there => Len(disk.seeds) = Count
    /\ pc \notin Between => Len(memory.seeds) = Count
LoopDone ==
    /\ pc \notin Between => \A i \in 1..(idx - 1) : Ended(memory, job, i)
    /\ pc = "over" => Ended(memory, job, idx)
EndsInv == SeedsCounted /\ LoopDone /\ (finished => pc = "off") /\ FinishedMeansAll

\* A file that is not lost stays, and is saved before a job is created.
LEMMA SeedsCountedStay ==
    ASSUME ~DiskCanFail, CoreInv, SeedsCounted, Next
    PROVE  SeedsCounted'
<1>1. disk' = disk \/ (Save /\ disk' = memory)
      BY DiskSteps DEF LoseDisk
<1>2. Save => memory.there /\ pc \notin Between
      BY HasState, OtherPlaces DEF Between
<1>3. ASSUME ~disk'.there
      PROVE  DOMAIN job' = {}
  <2>1. ~disk.there
        BY <1>1, <1>2, <1>3
  <2>2. pc \in Between \cup {"opened"}
        BY <2>1 DEF CoreInv, Started
  <2>3. job' = job
        BY <2>2, JobEffect DEF InJob, Between
  <2>. QED
       BY <2>1, <2>3 DEF SeedsCounted
<1>4. disk'.there => Len(disk'.seeds) = Count
      BY <1>1, <1>2 DEF SeedsCounted
<1>5. ASSUME pc' \notin Between
      PROVE  Len(memory'.seeds) = Count
  <2>1. CASE Open
    <3>1. CASE memory.seeds # NoSeeds
      <4>1. disk.there /\ memory = disk
        <5>1. memory.req \in Nat
              BY CoreTypes, StateLists
        <5>2. [NoState EXCEPT !.req = memory.req, !.there = TRUE].seeds = NoSeeds
              BY <5>1, NoStateType
        <5>. QED
             BY <2>1, <3>1, <5>2 DEF Open, CoreInv, Started
      <4>2. memory'.seeds = memory.seeds
            BY <2>1, <3>1, OpenEffect DEF AdoptedSeeds
      <4>. QED
           BY <4>1, <4>2 DEF SeedsCounted
    <3>2. CASE memory.seeds = NoSeeds
      <4>1. ~disk.there
            BY <2>1, <3>2 DEF Open, CoreInv, Started
      <4>2. Answer(memory) = {}
            BY <4>1 DEF SeedsCounted, Answer, JobsOf
      <4>3. memory'.seeds \in SeedLists
            BY <2>1, <3>2, <4>2, OpenEffect DEF AdoptedSeeds
      <4>. QED
           BY <4>3, SeedAssumption
    <3>. QED
         BY <3>1, <3>2
  <2>2. CASE Work
    <3>1. PICK e \in Local : Entry(memory, memory', idx, e)
          BY <2>2, WorkEffect
    <3>. QED
         BY <2>2, <3>1, OtherPlaces DEF Entry, SeedsCounted
  <2>3. CASE Save \/ Moves \/ Quiet
        BY <1>5, <2>3, OtherPlaces DEF SeedsCounted
  <2>4. CASE Begin \/ Finish \/ Crash \/ LoseDisk
        BY <1>5, <2>4, OtherPlaces DEF Between
  <2>. QED
       BY <2>1, <2>2, <2>3, <2>4, Kinds
<1>. QED
     BY <1>3, <1>4, <1>5 DEF SeedsCounted

\* No step of another job undoes the end of one.
LEMMA EndedStays ==
    ASSUME CoreInv, Next, NEW i, i # idx, Ended(memory, job, i),
           UNCHANGED memory \/ Work
    PROVE  Ended(memory', job', i)
<1>1. /\ i \in DOMAIN memory'.jobs /\ memory'.jobs[i] = memory.jobs[i]
      /\ JobId(memory', i) = JobId(memory, i)
  <2>1. CASE UNCHANGED memory
        BY <2>1 DEF Ended, JobId
  <2>2. CASE Work
    <3>1. PICK e \in Local : Entry(memory, memory', idx, e)
          BY <2>2, WorkEffect
    <3>. QED
         BY <3>1 DEF Entry, Ended, JobId
  <2>. QED
       BY <2>1, <2>2
<1>2. memory.jobs[i].made => JobId(memory, i) \in DOMAIN job
      BY DEF Ended, CoreInv, Truth, TrueOf
<1>3. JobId(memory, i) # ThisId
      BY DEF JobId, ThisId
<1>4. memory.jobs[i].made => job'[JobId(memory, i)] = job[JobId(memory, i)]
      BY <1>2, <1>3, JobEffect
<1>. QED
     BY <1>1, <1>4 DEF Ended

\* A job is over with the end chimera was told of.
LEMMA OverEnds ==
    ASSUME CoreInv, LoopDone, Next, pc' = "over"
    PROVE  Ended(memory', job', idx')
<1>1. Ingest \/ (JobFails /\ pc = "job") \/ Fail \/ Quiet
  <2>1. Work => Ingest \/ (JobFails /\ pc = "job")
        BY WorkPc
  <2>2. Moves => Fail
        BY DEF Moves, SkipIngested, InLoop, SkipCreated, Resume, Tell, Run, Rendered, Complete,
           SkipRegistered, PatchJob, GiveKey
  <2>3. ~(Begin \/ Open \/ Finish \/ Crash \/ LoseDisk)
        BY OtherPlaces
  <2>4. ~Save
        BY SaveEffect
  <2>. QED
       BY <2>1, <2>2, <2>3, <2>4, Kinds
<1>2. CASE Ingest
  <2>1. PICK e \in Local : Entry(memory, memory', idx, e) /\ Later(e)
        BY <1>2, WorkEffect DEF Work
  <2>2. Patches /\ pc = "output"
        BY <1>2 DEF Ingest, PatchJob, Patches, StatusAt
  <2>3. job'[ThisId].status = "ingested"
        BY <2>2, PatchedRecord DEF StatusAt
  <2>4. JobId(memory', idx) = ThisId
        BY <2>1 DEF Entry, Later, JobId, ThisId
  <2>5. idx' = idx
        BY <1>2 DEF Ingest, PatchJob
  <2>. QED
       BY <1>2, <2>1, <2>3, <2>4, <2>5 DEF Entry, Later, Ended
<1>3. CASE JobFails /\ pc = "job"
  <2>1. PICK e \in Local : Entry(memory, memory', idx, e) /\ Later(e)
        BY <1>3, WorkEffect DEF Work
  <2>2. ~Old.made
        BY <1>3 DEF JobFails, InTry, Creating, Old, NewJob
  <2>3. ~CreateJob /\ idx' = idx
        BY <1>3 DEF CreateJob, JobFails
  <2>. QED
       BY <1>3, <2>1, <2>2, <2>3 DEF Entry, Later, Ended
<1>4. CASE Fail
  <2>1. Patches /\ pc = "failing" /\ memory' = memory /\ idx' = idx
        BY <1>4 DEF Fail, PatchJob, Patches, StatusAt
  <2>2. job'[HereId].status = "failed" /\ idx \in DOMAIN memory.jobs
        BY <2>1, PatchedRecord DEF StatusAt
  <2>3. Here.status = "failed"
        BY <2>1 DEF CoreInv, AtJob
  <2>. QED
       BY <2>1, <2>2, <2>3 DEF Ended, Here, HereId
<1>5. CASE Quiet
      BY <1>5 DEF Quiet, run, chimera, LoopDone
<1>. QED
     BY <1>1, <1>2, <1>3, <1>4, <1>5

\* The loop goes on only past jobs at their end.
LEMMA LoopDoneStays ==
    ASSUME CoreInv, LoopDone, Next
    PROVE  LoopDone'
<1>1. pc' = "over" => Ended(memory', job', idx')
      BY OverEnds
<1>2. ASSUME pc' \notin Between, NEW i \in 1..(idx' - 1)
      PROVE  Ended(memory', job', i)
  <2>. idx \in Nat \ {0}
       BY CoreTypes
  <2>1. CASE Open
        BY <1>2, <2>1 DEF Open
  <2>2. CASE Work
    <3>1. i \in 1..(idx - 1) /\ pc \notin Between
          BY <1>2, <2>2, WorkPc, OtherPlaces
    <3>. QED
         BY <2>2, <3>1, EndedStays DEF LoopDone
  <2>3. CASE Quiet
    <3>1. /\ idx' = idx /\ memory' = memory /\ job' = job /\ pc' = pc
          BY <2>3 DEF Quiet, run, chimera
    <3>. QED
         BY <1>2, <3>1 DEF LoopDone
  <2>4. CASE Save
    <3>1. i \in 1..(idx - 1) \/ (pc = "over" /\ i = idx)
          BY <1>2, <2>4, SaveEffect
    <3>2. Ended(memory, job, i)
          BY <2>4, <3>1, OtherPlaces DEF LoopDone
    <3>. QED
         BY <2>4, <3>2, SaveEffect
  <2>5. CASE Moves
    <3>1. memory' = memory /\ pc \notin Between
          BY <2>5, OtherPlaces
    <3>2. i \in 1..(idx - 1) \/ (SkipIngested /\ i = idx)
          BY <1>2, <2>5, MovesEffect DEF SkipIngested
    <3>3. CASE i \in 1..(idx - 1)
          BY <3>1, <3>3, EndedStays DEF LoopDone
    <3>4. CASE SkipIngested /\ i = idx
      <4>1. idx \in DOMAIN memory.jobs /\ Here.status = "ingested" /\ job' = job
            BY <3>4 DEF SkipIngested, chimera
      <4>2. job[HereId].status = "ingested"
            BY <4>1 DEF CoreInv, Truth, TrueOf, Here, HereId
      <4>. QED
           BY <3>1, <3>4, <4>1, <4>2 DEF Ended, Here, HereId
    <3>. QED
         BY <3>2, <3>3, <3>4
  <2>6. CASE Begin \/ Finish \/ Crash \/ LoseDisk
        BY <1>2, <2>6, OtherPlaces DEF Between
  <2>. QED
       BY <2>1, <2>2, <2>3, <2>4, <2>5, <2>6, Kinds
<1>. QED
     BY <1>1, <1>2 DEF LoopDone

\* Only the end of a run sets the mark, and only the next one takes it away.
LEMMA MarkStays ==
    ASSUME Next
    PROVE  finished' = finished \/ (Begin /\ finished' = FALSE) \/ Finish
<1>1. CASE Begin \/ Open \/ Save \/ Finish
      BY <1>1 DEF Begin, Open, Save, Proceed
<1>2. CASE SkipIngested \/ SkipCreated \/ CreateJob \/ Resume \/ Submit
      BY <1>2 DEF SkipIngested, SkipCreated, CreateJob, Resume, Submit
<1>3. CASE Tell \/ Run \/ Rendered \/ Complete \/ Ingest \/ Fail
      BY <1>3 DEF Tell, Run, Rendered, Complete, Ingest, Fail, PatchJob
<1>4. CASE SkipRegistered \/ GiveKey \/ Upload \/ JobFails
      BY <1>4 DEF SkipRegistered, GiveKey, Upload, JobFails
<1>5. CASE Rendering \/ Trouble
      BY <1>5 DEF Rendering, Renders, Trouble, Breaks, Forgets, Crash, LoseDisk
<1>. QED
     BY <1>1, <1>2, <1>3, <1>4, <1>5 DEF Next, Step

\* A run finishes only when the loop has passed all jobs.
LEMMA FinishedStays ==
    ASSUME ~DiskCanFail, CoreInv, EndsInv, Next
    PROVE  (finished => pc = "off")' /\ FinishedMeansAll'
<1>1. CASE Finish
  <2>1. /\ pc = "job" /\ pc' = "off" /\ disk' = disk /\ job' = job
        /\ idx \notin DOMAIN memory.seeds
        BY <1>1 DEF Finish, chimera
  <2>2. disk = memory
        BY <2>1 DEF CoreInv, Stored, Saved
  <2>3. DOMAIN memory.seeds = 1..Count
        BY <2>1, CoreTypes, StateLists DEF EndsInv, SeedsCounted, Between
  <2>4. Indexes \subseteq 1..(idx - 1)
        BY <2>1, <2>3, CoreTypes DEF Indexes
  <2>5. \A i \in Indexes : Ended(memory, job, i)
        BY <2>1, <2>4 DEF EndsInv, LoopDone, Between
  <2>. QED
       BY <2>1, <2>2, <2>5 DEF FinishedMeansAll, Ended
<1>2. CASE ~finished'
      BY <1>2 DEF FinishedMeansAll
<1>3. CASE finished' /\ finished' = finished
  <2>1. finished /\ pc = "off"
        BY <1>3 DEF EndsInv
  <2>2. CASE Begin
        BY <1>3, <2>2 DEF Begin
  <2>3. CASE Quiet
        BY <2>1, <2>3 DEF Quiet, chimera, EndsInv, FinishedMeansAll, JobId
  <2>4. ~(Open \/ Save \/ Work \/ Moves \/ Finish \/ Crash)
        BY <2>1, OtherPlaces DEF Between
  <2>5. ~LoseDisk
        BY DEF LoseDisk
  <2>. QED
       BY <2>2, <2>3, <2>4, <2>5, Kinds
<1>. QED
     BY <1>1, <1>2, <1>3, MarkStays

\* A run that returned its result has seen every one of the count's jobs to its
\* end, on disk and at chimera, however often the request was run before: as
\* long as no file is lost, which takes the result's own away too.
THEOREM FinishedIsAll ==
    ASSUME ~DiskCanFail
    PROVE  Spec => []FinishedMeansAll
<1>1. Init => CoreInv /\ EndsInv
  <2>. SUFFICES ASSUME Init
                PROVE  EndsInv
       BY CoreInit
  <2>1. DOMAIN job = {} /\ disk = NoState /\ pc = "off" /\ ~finished
        BY DEF Init
  <2>2. ~NoState.there
        BY NoStateType
  <2>. QED
       BY <2>1, <2>2 DEF EndsInv, SeedsCounted, LoopDone, FinishedMeansAll, Between
<1>2. CoreInv /\ EndsInv /\ [Next]_vars => (CoreInv /\ EndsInv)'
  <2>1. CoreInv /\ EndsInv /\ Next => (CoreInv /\ EndsInv)'
        BY CoreStep, SeedsCountedStay, LoopDoneStays, FinishedStays DEF EndsInv
  <2>2. CoreInv /\ EndsInv /\ UNCHANGED vars => (CoreInv /\ EndsInv)'
    <3>. SUFFICES ASSUME CoreInv, EndsInv, UNCHANGED vars
                  PROVE  CoreInv' /\ EndsInv'
         OBVIOUS
    <3>1. UNCHANGED <<pc, memory, idx, disk, job, finished>>
          BY DEF vars, run, chimera
    <3>2. EndsInv'
          BY <3>1 DEF EndsInv, SeedsCounted, LoopDone, FinishedMeansAll, Ended, JobId
    <3>. QED
         BY <3>2, CoreStutters
  <2>. QED
       BY <2>1, <2>2
<1>3. EndsInv => FinishedMeansAll
      BY DEF EndsInv
<1>. QED
     BY <1>1, <1>2, <1>3, PTL DEF Spec

=============================================================================
