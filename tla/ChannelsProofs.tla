---------------------------- MODULE ChannelsProofs ----------------------------
(***************************************************************************)
(* What holds of the channels for any rows, jobs, attempts, prompts, losses *)
(* and any number of events on their way.                                   *)
(*                                                                          *)
(* SubmitFirst and EnvOutlivesNoLoss need only what each thread is at.      *)
(* TimingsAreTrue rests on the order of the events: a prompt's script rises *)
(* in Rank, what was sent comes in the order it was sent in (SentInv), and  *)
(* what was heard of a prompt is therefore older than whatever is still to  *)
(* come of it (HeardInv), however much was lost in between.                 *)
(***************************************************************************)
EXTENDS Channels, SequenceTheorems, TLAPS

USE ChannelsAssumption

-----------------------------------------------------------------------------
(* The scripts.                                                            *)

Kinds == {"cached", "executing", "running", "progress", "finished", "end"}
Step  == [kind : Kinds, node : NODES \cup {""}]

\* Where a step has its place in a script that has every step.
Rank(s) ==
    CASE s.kind = "cached"    -> 1
      [] s.kind = "executing" -> IF s.node = "loader" THEN 2 ELSE 4
      [] s.kind = "running"   -> 5
      [] s.kind = "progress"  -> 6
      [] s.kind = "finished"  -> IF s.node = "loader" THEN 3 ELSE 7
      [] s.kind = "end"       -> 8

\* A part of a script: its steps rise from rank lo to hi, are of nodes that are
\* not cached, and tell nothing of a node before it executes.
Rises(s) == \A k, l \in DOMAIN s : k < l => Rank(s[k]) < Rank(s[l])
Between(s, lo, hi) == \A k \in DOMAIN s : Rank(s[k]) \in lo..hi
Led(s) ==
    \A k \in DOMAIN s : s[k].kind \in {"running", "progress"} =>
        \E j \in 1..k : s[j] = [kind |-> "executing", node |-> s[k].node]
Owned(e, cached) ==
    /\ e.kind \in {"cached", "end"} => e.node = ""
    /\ e.kind \notin {"cached", "end"} => e.node \in NODES \ cached
    /\ e.kind \in {"running", "progress"} => e.node = "sampler"
Part(s, lo, hi, cached) ==
    /\ s \in Seq(Step) /\ Rises(s) /\ Between(s, lo, hi) /\ Led(s)
    /\ \A k \in DOMAIN s : Owned(s[k], cached)

-----------------------------------------------------------------------------
(* The invariants.                                                         *)

PCs == {"down", "recv", "feed", "check", "send", "lost"}
Ats == {"idle", "begun", "announce", "enter", "job", "submitted", "wait", "ingest", "failed",
        "report", "environment", "answered"}
Workers  == [at : Ats, row : Rows \cup {""}, attempt : Nat, job : Nat \ {0},
             prompts : Nat, env : Nat]
States   == [Rows -> Seq(Nat)]
Events   == [prompt : Nat, at : Nat, kind : Kinds \cup {""}, node : NODES \cup {""}]
Relays   == [pc : PCs, to : Nat, inbox : Seq(Events), event : Events, drops : Nat, since : Nat]
Comfys   == [process : Nat, up : BOOLEAN, queue : Seq(Nat), at : Nat, history : SUBSET Nat,
             warm : BOOLEAN]
Frames   == [submitted : SUBSET Rows, sampling : Rows \cup {""}]
Times    == [started : Nat, ended : Nat, steps : Seq(Int), mark : Nat, finished : BOOLEAN]
Hearings == [nodes : [NODES -> Times], current : NODES \cup {""}, cached : SUBSET NODES]
Entries  == [resumed : BOOLEAN, graph : BOOLEAN, status : {"unknown", "success", "error"},
             cached : SUBSET NODES, ready : BOOLEAN, ingested : BOOLEAN]

LedgerType(l) ==
    /\ DOMAIN l = {"attempt", "prompts", "env"} /\ l.attempt \in Nat /\ l.env \in Nat
    /\ \A p \in DOMAIN l.prompts : l.prompts[p] \in Entries
RecorderType(r) == \A p \in DOMAIN r : r[p] \in Hearings
RunsType(r) == DOMAIN r \subseteq Nat /\ \A p \in DOMAIN r : r[p] \in Runs
TypeInv ==
    /\ worker \in Workers /\ state \in States /\ current \in Rows \cup {""}
    /\ relay \in Relays /\ comfy \in Comfys /\ frame \in Frames
    /\ LedgerType(ledger) /\ RecorderType(recorder) /\ RunsType(runs)

\* A row is current only after its first frame; the row of a worker that is to
\* enter it, too.  What is submitted is a job that is not ingested yet.
FirstInv ==
    /\ worker.at # "idle" => worker.row \in Rows
    /\ worker.at = "enter" => worker.row \in frame.submitted
    /\ current # "" => current \in frame.submitted
    /\ worker.at \in {"submitted", "wait", "ingest"} => worker.job \in DOMAIN state[worker.row]

\* What the worker has of the environment, and what is kept of it, was read of a
\* process not gone when the feed was last lost.
EnvInv ==
    /\ relay.since <= comfy.process + (IF comfy.up THEN 0 ELSE 1)
    /\ worker.env # 0 => worker.at = "answered" /\ worker.env >= relay.since

\* The queue's prompts come in the order they were submitted in, and only the
\* first has begun; the rest of its script is still to come.
QueueInv ==
    LET q == comfy.queue
    IN  /\ \A k, l \in DOMAIN q : k < l => q[k] < q[l]
        /\ \A k \in DOMAIN q : q[k] <= worker.prompts
        /\ \A p \in DOMAIN runs : p <= worker.prompts
        /\ \A p \in DOMAIN runs, k \in DOMAIN q : p < q[k] \/ (k = 1 /\ p = q[k])
        /\ q # <<>> /\ Head(q) \in DOMAIN runs => comfy.at < Len(SCRIPTS[runs[Head(q)]])
        /\ comfy.history \subseteq DOMAIN runs

\* The place of a prompt's script is over.
Past(p, at) == \A k \in DOMAIN comfy.queue : comfy.queue[k] = p => at <= comfy.at
Sent(e) ==
    /\ e.prompt \in DOMAIN runs
    /\ e.at \in DOMAIN SCRIPTS[runs[e.prompt]]
    /\ SCRIPTS[runs[e.prompt]][e.at] = [kind |-> e.kind, node |-> e.node]
    /\ Past(e.prompt, e.at)
SentEvents == {e \in Events : Sent(e)}
Before(e, f) == e.prompt = f.prompt => e.at < f.at

\* The events on their way, on the socket and in hand, come in the order of their script.
SentInv ==
    /\ \A k \in DOMAIN relay.inbox : Sent(relay.inbox[k])
    /\ \A k, l \in DOMAIN relay.inbox : k < l => Before(relay.inbox[k], relay.inbox[l])
    /\ relay.pc = "feed" =>
           /\ Sent(relay.event)
           /\ \A k \in DOMAIN relay.inbox : Before(relay.event, relay.inbox[k])

\* The time t of a prompt is older than what is still to come of it.
Old(p, t) ==
    /\ Past(p, t)
    /\ \A k \in DOMAIN relay.inbox : relay.inbox[k].prompt = p => t < relay.inbox[k].at
    /\ relay.pc = "feed" /\ relay.event.prompt = p => t < relay.event.at

\* What was heard of a node of a prompt that began.
HeardNode(p, n, t) ==
    /\ t.started # 0 => \E k \in Started(p, n) : k <= t.started
    /\ t.ended # 0 => \A k \in Ended(p, n) : k <= t.ended
    /\ t.ended # 0 /\ t.started = 0 => \E k \in Ended(p, n) : k <= t.ended
    /\ t.started # 0 /\ t.ended # 0 => t.started <= t.ended
    /\ t # Unheard => n \notin runs[p][1]
HearingInv(p, h) ==
    /\ h.cached \in {{}, runs[p][1]}
    /\ h.current # "" => h.nodes[h.current].started # 0
    /\ \A n \in NODES :
           HeardNode(p, n, h.nodes[n]) /\ Old(p, h.nodes[n].started) /\ Old(p, h.nodes[n].ended)
HeardInv == \A p \in DOMAIN recorder : p \in DOMAIN runs /\ HearingInv(p, recorder[p])

\* What the ledger has of a prompt's end, it has of the history.
LedgerInv ==
    /\ ledger.attempt = worker.attempt
    /\ \A p \in DOMAIN ledger.prompts :
           /\ ledger.prompts[p].status = "unknown" => ledger.prompts[p].cached = {}
           /\ ledger.prompts[p].status # "unknown" =>
                  /\ p \in DOMAIN runs /\ ledger.prompts[p].graph
                  /\ ledger.prompts[p].cached = runs[p][1]

-----------------------------------------------------------------------------
(* Every script rises.                                                     *)

\* The rank of each step.
LEMMA Ranks ==
    /\ Rank([kind |-> "cached", node |-> ""]) = 1
    /\ Rank([kind |-> "executing", node |-> "loader"]) = 2
    /\ Rank([kind |-> "finished", node |-> "loader"]) = 3
    /\ Rank([kind |-> "executing", node |-> "sampler"]) = 4
    /\ Rank([kind |-> "running", node |-> "sampler"]) = 5
    /\ Rank([kind |-> "progress", node |-> "sampler"]) = 6
    /\ Rank([kind |-> "finished", node |-> "sampler"]) = 7
    /\ Rank([kind |-> "end", node |-> ""]) = 8
BY DEF Rank

\* A step's rank is a number.
LEMMA RankType ==
    ASSUME NEW s \in Step
    PROVE  Rank(s) \in 1..8
<1>1. s.kind \in Kinds
      BY DEF Step
<1>2. CASE s.kind = "cached" \/ s.kind = "executing"
      BY <1>2 DEF Rank
<1>3. CASE s.kind = "running" \/ s.kind = "progress"
      BY <1>3 DEF Rank
<1>4. CASE s.kind = "finished" \/ s.kind = "end"
      BY <1>4 DEF Rank
<1>. QED
     BY <1>1, <1>2, <1>3, <1>4 DEF Kinds

\* Two parts one after the other are a part.
LEMMA Joined ==
    ASSUME NEW a \in Nat, NEW b \in Nat, NEW c \in Nat, NEW d \in Nat, a <= c, b < c, b <= d,
           NEW cached, NEW s, NEW t, Part(s, a, b, cached), Part(t, c, d, cached)
    PROVE  Part(s \o t, a, d, cached)
<1>. DEFINE u == s \o t
<1>1. s \in Seq(Step) /\ t \in Seq(Step)
      BY DEF Part
<1>2. /\ Len(s) \in Nat /\ DOMAIN s = 1..Len(s)
      /\ Len(t) \in Nat /\ DOMAIN t = 1..Len(t)
      BY <1>1, LenProperties
<1>3. /\ u \in Seq(Step) /\ Len(u) = Len(s) + Len(t)
      /\ \A i \in 1..(Len(s) + Len(t)) : u[i] = IF i <= Len(s) THEN s[i] ELSE t[i - Len(s)]
      BY <1>1, ConcatProperties
<1>4. DOMAIN u = 1..(Len(s) + Len(t))
      BY <1>3, LenProperties
<1>. HIDE DEF u
<1>5. ASSUME NEW k \in DOMAIN u
      PROVE  \/ k \in DOMAIN s /\ u[k] = s[k]
             \/ k - Len(s) \in DOMAIN t /\ k > Len(s) /\ u[k] = t[k - Len(s)]
      BY <1>2, <1>3, <1>4
<1>6. Between(u, a, d)
  <2>. SUFFICES ASSUME NEW k \in DOMAIN u
                PROVE  Rank(u[k]) \in a..d
       BY DEF Between
  <2>1. CASE k \in DOMAIN s /\ u[k] = s[k]
    <3>1. Rank(s[k]) \in a..b
          BY <2>1 DEF Part, Between
    <3>. QED
         BY <2>1, <3>1
  <2>2. CASE k - Len(s) \in DOMAIN t /\ u[k] = t[k - Len(s)]
    <3>1. Rank(t[k - Len(s)]) \in c..d
          BY <2>2 DEF Part, Between
    <3>. QED
         BY <2>2, <3>1
  <2>. QED
       BY <1>5, <2>1, <2>2
<1>7. Rises(u)
  <2>. SUFFICES ASSUME NEW k \in DOMAIN u, NEW l \in DOMAIN u, k < l
                PROVE  Rank(u[k]) < Rank(u[l])
       BY DEF Rises
  <2>. k \in Nat /\ l \in Nat
       BY <1>2, <1>4
  <2>1. CASE l \in DOMAIN s /\ u[l] = s[l]
    <3>1. k \in DOMAIN s /\ u[k] = s[k]
          BY <1>2, <1>5, <2>1
    <3>. QED
         BY <2>1, <3>1 DEF Part, Rises
  <2>2. CASE l - Len(s) \in DOMAIN t /\ l > Len(s) /\ u[l] = t[l - Len(s)]
    <3>1. CASE k \in DOMAIN s /\ u[k] = s[k]
      <4>1. Rank(s[k]) \in a..b /\ Rank(t[l - Len(s)]) \in c..d
            BY <2>2, <3>1 DEF Part, Between
      <4>. QED
           BY <2>2, <3>1, <4>1
    <3>2. CASE k - Len(s) \in DOMAIN t /\ u[k] = t[k - Len(s)]
      <4>1. k - Len(s) < l - Len(s)
            BY <1>2
      <4>. QED
           BY <2>2, <3>2, <4>1 DEF Part, Rises
    <3>. QED
         BY <1>5, <3>1, <3>2
  <2>. QED
       BY <1>5, <2>1, <2>2
<1>8. Led(u)
  <2>. SUFFICES ASSUME NEW k \in DOMAIN u, u[k].kind \in {"running", "progress"}
                PROVE  \E j \in 1..k : u[j] = [kind |-> "executing", node |-> u[k].node]
       BY DEF Led
  <2>1. CASE k \in DOMAIN s /\ u[k] = s[k]
    <3>1. PICK j \in 1..k : s[j] = [kind |-> "executing", node |-> s[k].node]
          BY <2>1 DEF Part, Led
    <3>2. u[j] = s[j]
          BY <1>2, <1>3, <2>1
    <3>. QED
         BY <2>1, <3>1, <3>2
  <2>2. CASE k - Len(s) \in DOMAIN t /\ k > Len(s) /\ u[k] = t[k - Len(s)]
    <3>1. PICK j \in 1..(k - Len(s)) : t[j] = [kind |-> "executing", node |-> t[k - Len(s)].node]
          BY <2>2 DEF Part, Led
    <3>2. j \in Nat /\ j \in 1..Len(t) /\ k \in Nat
          BY <1>2, <1>4, <2>2
    <3>3. j + Len(s) \in 1..k /\ j + Len(s) \in 1..(Len(s) + Len(t)) /\ ~(j + Len(s) <= Len(s))
          BY <1>2, <2>2, <3>2
    <3>4. u[j + Len(s)] = t[(j + Len(s)) - Len(s)]
          BY <1>3, <3>3
    <3>5. (j + Len(s)) - Len(s) = j
          BY <1>2, <3>2
    <3>. QED
         BY <2>2, <3>1, <3>3, <3>4, <3>5
  <2>. QED
       BY <1>5, <2>1, <2>2
<1>9. ASSUME NEW k \in DOMAIN u
      PROVE  Owned(u[k], cached)
      BY <1>5 DEF Part
<1>. QED
     BY <1>3, <1>6, <1>7, <1>8, <1>9 DEF u, Part

\* A sequence of one thing.
LEMMA Single ==
    ASSUME NEW S, NEW e \in S
    PROVE  \E s \in Seq(S) : s = <<e>> /\ DOMAIN s = {1} /\ s[1] = e
<1>1. <<e>> \in Seq(S)
      OBVIOUS
<1>2. DOMAIN <<e>> = {1}
      OBVIOUS
<1>3. <<e>>[1] = e
      OBVIOUS
<1>. QED
     BY <1>1, <1>2, <1>3

\* One step is a part, ...
LEMMA OneStep ==
    ASSUME NEW e \in Step, NEW r \in Nat, r = Rank(e), NEW cached,
           e.kind \notin {"running", "progress"}, Owned(e, cached)
    PROVE  Part(<<e>>, r, r, cached)
<1>1. PICK s \in Seq(Step) : s = <<e>> /\ DOMAIN s = {1} /\ s[1] = e
      BY Single
<1>2. DOMAIN s = {1} /\ s[1] = e
      BY <1>1
<1>3. Rises(s)
  <2>1. \A k, l \in DOMAIN s : ~(k < l)
        BY <1>2
  <2>. QED
       BY <2>1 DEF Rises
<1>4. Between(s, r, r)
  <2>1. \A k \in DOMAIN s : s[k] = e
        BY <1>2
  <2>. QED
       BY <2>1 DEF Between
<1>5. Led(s)
      BY <1>2 DEF Led
<1>6. Part(s, r, r, cached)
      BY <1>2, <1>3, <1>4, <1>5 DEF Part
<1>. QED
     BY <1>1, <1>6

\* ... and so is none.
LEMMA NoStep ==
    ASSUME NEW a, NEW b, NEW cached
    PROVE  Part(<<>>, a, b, cached)
<1>1. <<>> \in Seq(Step) /\ DOMAIN <<>> = {}
      BY EmptySeq
<1>. QED
     BY <1>1 DEF Part, Rises, Between, Led

\* What the loader and the sampler send unless they are cached.
EL == [kind |-> "executing", node |-> "loader"]
FL == [kind |-> "finished", node |-> "loader"]
ES == [kind |-> "executing", node |-> "sampler"]
RS == [kind |-> "running", node |-> "sampler"]
PS == [kind |-> "progress", node |-> "sampler"]
FS == [kind |-> "finished", node |-> "sampler"]

\* They are steps, in this order.
LEMMA NodeSteps ==
    /\ EL \in Step /\ FL \in Step /\ ES \in Step /\ RS \in Step /\ PS \in Step /\ FS \in Step
    /\ Rank(EL) = 2 /\ Rank(FL) = 3 /\ Rank(ES) = 4 /\ Rank(RS) = 5 /\ Rank(PS) = 6 /\ Rank(FS) = 7
BY Ranks DEF EL, FL, ES, RS, PS, FS, Step, Kinds, NODES

\* The loader's steps are a part ...
LEMMA LoaderSteps ==
    ASSUME NEW cached \in SUBSET NODES, NEW fails
    PROVE  Part(OnNode(cached, fails, "loader", <<"executing">>), 2, 3, cached)
<1>1. CASE "loader" \in cached
      BY <1>1, NoStep DEF OnNode
<1>2. CASE "loader" \notin cached
  <2>1. Part(<<EL>>, 2, 2, cached)
        BY <1>2, NodeSteps, OneStep DEF EL, NODES, Owned
  <2>2. Part(<<FL>>, 3, 3, cached)
        BY <1>2, NodeSteps, OneStep DEF FL, NODES, Owned
  <2>3. Part(<<EL>> \o <<FL>>, 2, 3, cached)
        BY <2>1, <2>2, Joined
  <2>4. Part(<<EL>> \o <<>>, 2, 3, cached)
    <3>1. PICK t : t = <<>> /\ Part(t, 3, 3, cached)
          BY NoStep
    <3>2. Part(t, 3, 3, cached)
          BY <3>1
    <3>3. Part(<<EL>> \o t, 2, 3, cached)
          BY <2>1, <3>2, Joined
    <3>. QED
         BY <3>1, <3>3
  <2>5. [k \in 1..Len(<<"executing">>) |-> [kind |-> <<"executing">>[k], node |-> "loader"]]
            = <<EL>>
        BY DEF EL
  <2>6. OnNode(cached, fails, "loader", <<"executing">>)
            = <<EL>> \o (IF "loader" = fails THEN <<>> ELSE <<FL>>)
        BY <1>2, <2>5 DEF OnNode, FL
  <2>. QED
       BY <2>3, <2>4, <2>6
<1>. QED
     BY <1>1, <1>2

\* ... and the sampler's are one.
LEMMA SamplerSteps ==
    ASSUME NEW cached \in SUBSET NODES, NEW fails
    PROVE  Part(OnNode(cached, fails, "sampler", <<"executing", "running", "progress">>), 4, 7, cached)
<1>1. CASE "sampler" \in cached \/ fails = "loader"
      BY <1>1, NoStep DEF OnNode
<1>2. CASE "sampler" \notin cached /\ fails # "loader"
  <2>1. Part(<<ES, RS, PS>>, 4, 6, cached)
    <3>1. PICK s \in Seq(Step) : /\ s = <<ES, RS, PS>> /\ DOMAIN s = 1..3
                                 /\ s[1] = ES /\ s[2] = RS /\ s[3] = PS
      <4>1. <<ES, RS, PS>> \in Seq(Step)
            BY NodeSteps
      <4>2. DOMAIN <<ES, RS, PS>> = 1..3
            OBVIOUS
      <4>3. <<ES, RS, PS>>[1] = ES /\ <<ES, RS, PS>>[2] = RS /\ <<ES, RS, PS>>[3] = PS
            OBVIOUS
      <4>. QED
           BY <4>1, <4>2, <4>3
    <3>2. DOMAIN s = {1, 2, 3}
          BY <3>1
    <3>3. Rises(s) /\ Between(s, 4, 6)
          BY <3>1, <3>2, NodeSteps DEF Rises, Between
    <3>4. Led(s)
          BY <3>1, <3>2 DEF Led, ES, RS, PS
    <3>4a. Owned(ES, cached) /\ Owned(RS, cached) /\ Owned(PS, cached)
          BY <1>2 DEF ES, RS, PS, Owned, NODES
    <3>4b. s[1] = ES /\ s[2] = RS /\ s[3] = PS
          BY <3>1
    <3>5. \A k \in DOMAIN s : Owned(s[k], cached)
          BY <3>2, <3>4a, <3>4b
    <3>6. Part(s, 4, 6, cached)
          BY <3>1, <3>3, <3>4, <3>5 DEF Part
    <3>. QED
         BY <3>1, <3>6
  <2>2. Part(<<FS>>, 7, 7, cached)
        BY <1>2, NodeSteps, OneStep DEF FS, NODES, Owned
  <2>3. Part(<<ES, RS, PS>> \o <<FS>>, 4, 7, cached)
        BY <2>1, <2>2, Joined
  <2>4. Part(<<ES, RS, PS>> \o <<>>, 4, 7, cached)
    <3>1. PICK t : t = <<>> /\ Part(t, 7, 7, cached)
          BY NoStep
    <3>2. Part(t, 7, 7, cached)
          BY <3>1
    <3>3. Part(<<ES, RS, PS>> \o t, 4, 7, cached)
          BY <2>1, <3>2, Joined
    <3>. QED
         BY <3>1, <3>3
  <2>5. [k \in 1..Len(<<"executing", "running", "progress">>) |->
            [kind |-> <<"executing", "running", "progress">>[k], node |-> "sampler"]]
            = <<ES, RS, PS>>
        BY DEF ES, RS, PS
  <2>6. OnNode(cached, fails, "sampler", <<"executing", "running", "progress">>)
            = <<ES, RS, PS>> \o (IF "sampler" = fails THEN <<>> ELSE <<FS>>)
        BY <1>2, <2>5 DEF OnNode, FS
  <2>. QED
       BY <2>3, <2>4, <2>6
<1>. QED
     BY <1>1, <1>2

\* So every script is one, and not empty.
LEMMA ScriptRises ==
    ASSUME NEW r \in Runs
    PROVE  /\ Part(SCRIPTS[r], 1, 8, r[1])
           /\ Len(SCRIPTS[r]) \in Nat \ {0} /\ DOMAIN SCRIPTS[r] = 1..Len(SCRIPTS[r])
<1>. DEFINE c == [kind |-> "cached", node |-> ""]
            e == [kind |-> "end", node |-> ""]
            l == OnNode(r[1], r[2], "loader", <<"executing">>)
            s == OnNode(r[1], r[2], "sampler", <<"executing", "running", "progress">>)
<1>1. r[1] \in SUBSET NODES
      BY DEF Runs, NODES
<1>2. c \in Step /\ e \in Step /\ Rank(c) = 1 /\ Rank(e) = 8
      BY Ranks DEF Step, Kinds
<1>3. Part(<<c>>, 1, 1, r[1])
      BY <1>2, OneStep DEF Owned
<1>4. Part(<<e>>, 8, 8, r[1])
      BY <1>2, OneStep DEF Owned
<1>5. Part(l, 2, 3, r[1]) /\ Part(s, 4, 7, r[1])
      BY <1>1, LoaderSteps, SamplerSteps
<1>6. SCRIPTS[r] = ((<<c>> \o l) \o s) \o <<e>>
      BY DEF SCRIPTS, Script
<1>. HIDE DEF c, e, l, s
<1>7. Part(<<c>> \o l, 1, 3, r[1])
      BY <1>3, <1>5, Joined
<1>8. Part((<<c>> \o l) \o s, 1, 7, r[1])
      BY <1>5, <1>7, Joined
<1>9. Part(((<<c>> \o l) \o s) \o <<e>>, 1, 8, r[1])
      BY <1>4, <1>8, Joined
<1>10. Len(((<<c>> \o l) \o s) \o <<e>>) \in Nat \ {0}
  <2>1. (<<c>> \o l) \o s \in Seq(Step) /\ <<e>> \in Seq(Step)
        BY <1>4, <1>8 DEF Part
  <2>2. Len(<<e>>) = 1
        OBVIOUS
  <2>. QED
       BY <2>1, <2>2, ConcatProperties, LenProperties
<1>11. SCRIPTS[r] \in Seq(Step)
       BY <1>6, <1>9 DEF Part
<1>. QED
     BY <1>6, <1>9, <1>10, <1>11, LenProperties


-----------------------------------------------------------------------------
(* The types.                                                              *)

\* What the sequence operators give.
LEMMA Taken ==
    ASSUME NEW S, NEW s \in Seq(S), s # <<>>
    PROVE  /\ Head(s) \in S /\ Head(s) = s[1] /\ 1 \in DOMAIN s
           /\ Tail(s) \in Seq(S)
           /\ DOMAIN s = 1..Len(s) /\ Len(s) \in Nat /\ DOMAIN Tail(s) = 1..(Len(s) - 1)
           /\ \A k \in DOMAIN Tail(s) : Tail(s)[k] = s[k + 1] /\ k + 1 \in DOMAIN s
<1>1. /\ Head(s) \in S /\ Tail(s) \in Seq(S) /\ Len(Tail(s)) = Len(s) - 1
      /\ \A i \in 1..Len(Tail(s)) : Tail(s)[i] = s[i + 1]
      BY HeadTailProperties
<1>2. Len(s) \in Nat /\ DOMAIN s = 1..Len(s) /\ Len(s) # 0
      BY LenProperties, EmptySeq
<1>3. DOMAIN Tail(s) = 1..Len(Tail(s))
      BY <1>1, LenProperties
<1>4. Head(s) = s[1]
      OBVIOUS
<1>. QED
     BY <1>1, <1>2, <1>3, <1>4
LEMMA Added ==
    ASSUME NEW S, NEW s \in Seq(S), NEW e \in S
    PROVE  /\ Append(s, e) \in Seq(S)
           /\ Len(s) \in Nat /\ DOMAIN s = 1..Len(s) /\ DOMAIN Append(s, e) = 1..(Len(s) + 1)
           /\ \A k \in DOMAIN s : Append(s, e)[k] = s[k]
           /\ Append(s, e)[Len(s) + 1] = e
<1>1. /\ Append(s, e) \in Seq(S) /\ Len(Append(s, e)) = Len(s) + 1
      /\ \A i \in 1..Len(s) : Append(s, e)[i] = s[i]
      /\ Append(s, e)[Len(s) + 1] = e
      BY AppendProperties
<1>2. Len(s) \in Nat /\ DOMAIN s = 1..Len(s) /\ DOMAIN Append(s, e) = 1..Len(Append(s, e))
      BY <1>1, LenProperties
<1>. QED
     BY <1>1, <1>2

\* Every step of a script has its type and its place.
LEMMA Steps ==
    ASSUME NEW r \in Runs, NEW k \in DOMAIN SCRIPTS[r]
    PROVE  SCRIPTS[r][k] \in Step /\ k \in Nat \ {0} /\ k <= Len(SCRIPTS[r])
<1>1. SCRIPTS[r] \in Seq(Step) /\ Len(SCRIPTS[r]) \in Nat /\ DOMAIN SCRIPTS[r] = 1..Len(SCRIPTS[r])
      BY ScriptRises DEF Part
<1>. QED
     BY <1>1, ElementOfSeq

\* A hearing begins with nothing heard.
LEMMA HeardType ==
    ASSUME NEW p, TypeInv
    PROVE  Heard(p) \in Hearings
<1>1. CASE p \in DOMAIN recorder
      BY <1>1 DEF Heard, TypeInv, RecorderType
<1>2. CASE p \notin DOMAIN recorder
  <2>1. Unheard \in Times
    <3>1. <<>> \in Seq(Int)
          BY EmptySeq
    <3>. QED
         BY <3>1 DEF Unheard, Times
  <2>2. NoPrompt \in Hearings
        BY <2>1 DEF NoPrompt, Hearings
  <2>. QED
       BY <1>2, <2>2 DEF Heard
<1>. QED
     BY <1>1, <1>2

\* What an event that ends a node leaves of a hearing.
LEMMA ClosedIs ==
    ASSUME NEW r \in Hearings, NEW at \in Nat
    PROVE  /\ Closed(r, at) \in Hearings
           /\ Closed(r, at).current = "" /\ Closed(r, at).cached = r.cached
<1>. DEFINE open == r.current # "" /\ r.nodes[r.current].ended = 0
            f == [n \in NODES |-> IF open /\ n = r.current
                                  THEN [r.nodes[n] EXCEPT !.ended = at] ELSE r.nodes[n]]
<1>1. r = [nodes |-> r.nodes, current |-> r.current, cached |-> r.cached]
      /\ r.nodes \in [NODES -> Times] /\ r.cached \in SUBSET NODES
      BY DEF Hearings
<1>2. Closed(r, at) = [r EXCEPT !.current = "", !.nodes = f]
      BY DEF Closed
<1>3. ASSUME NEW t \in Times
      PROVE  [t EXCEPT !.ended = at] \in Times
      BY DEF Times
<1>4. f \in [NODES -> Times]
      BY <1>1, <1>3
<1>. HIDE DEF f, open
<1>6. Closed(r, at) = [nodes |-> f, current |-> "", cached |-> r.cached]
      BY <1>1, <1>2
<1>7. Closed(r, at) \in Hearings
  <2>1. [nodes |-> f, current |-> "", cached |-> r.cached] \in Hearings
        BY <1>1, <1>4 DEF Hearings
  <2>. QED
       BY <1>6, <2>1
<1>8. Closed(r, at).nodes = f /\ Closed(r, at).current = "" /\ Closed(r, at).cached = r.cached
  <2>1. ASSUME NEW c, c = [nodes |-> f, current |-> "", cached |-> r.cached]
        PROVE  c.nodes = f /\ c.current = "" /\ c.cached = r.cached
        BY <2>1
  <2>. QED
       BY <1>6, <2>1
<1>. QED
     BY <1>7, <1>8

\* The node that was executing has ended by then, the others are as they were.
LEMMA ClosedNodes ==
    ASSUME NEW r \in Hearings, NEW e \in Events, NEW n \in NODES
    PROVE  \/ Closed(r, e.at).nodes[n] = r.nodes[n]
           \/ /\ n = r.current
              /\ Closed(r, e.at).nodes[n].started = r.nodes[n].started
              /\ Closed(r, e.at).nodes[n].ended = e.at
<1>. DEFINE open == r.current # "" /\ r.nodes[r.current].ended = 0
            f == [m \in NODES |-> IF open /\ m = r.current
                                  THEN [r.nodes[m] EXCEPT !.ended = e.at] ELSE r.nodes[m]]
<1>1. DOMAIN r = {"nodes", "current", "cached"} /\ r.nodes[n] \in Times
      BY DEF Hearings
<1>2. Closed(r, e.at) = [r EXCEPT !.current = "", !.nodes = f]
      BY DEF Closed
<1>3. f[n] = r.nodes[n] \/ (n = r.current /\ f[n] = [r.nodes[n] EXCEPT !.ended = e.at])
      OBVIOUS
<1>. HIDE DEF f, open
<1>4. Closed(r, e.at).nodes = f
      BY <1>1, <1>2
<1>5. ASSUME NEW t, t = [r.nodes[n] EXCEPT !.ended = e.at]
      PROVE  t.started = r.nodes[n].started /\ t.ended = e.at
      BY <1>1, <1>5 DEF Times
<1>6. CASE f[n] = r.nodes[n]
      BY <1>4, <1>6
<1>7. CASE n = r.current /\ f[n] = [r.nodes[n] EXCEPT !.ended = e.at]
  <2>1. f[n].started = r.nodes[n].started /\ f[n].ended = e.at
        BY <1>5, <1>7
  <2>. QED
       BY <1>4, <1>7, <2>1
<1>. QED
     BY <1>3, <1>6, <1>7

\* What an event adds, by its kind.
LEMMA FedExecuting ==
    ASSUME NEW r \in Hearings, NEW e \in Events, e.kind = "executing", e.node \in NODES
    PROVE  /\ Fed(r, e) \in Hearings
           /\ Fed(r, e).current = e.node /\ Fed(r, e).cached = r.cached
           /\ \A n \in NODES \ {e.node} : Fed(r, e).nodes[n] = Closed(r, e.at).nodes[n]
           /\ \E t \in Times :
                  /\ Fed(r, e).nodes[e.node] = t
                  /\ t.ended = Closed(r, e.at).nodes[e.node].ended
                  /\ LET was == Closed(r, e.at).nodes[e.node].started
                     IN  t.started = IF was = 0 THEN e.at ELSE was
<1>1. e.at \in Nat
      BY DEF Events
<1>2. PICK c \in Hearings : c = Closed(r, e.at)
      BY <1>1, ClosedIs
<1>3. c.cached = r.cached
      BY <1>1, <1>2, ClosedIs
<1>4. c = [nodes |-> c.nodes, current |-> c.current, cached |-> c.cached]
      /\ c.nodes \in [NODES -> Times] /\ c.cached \in SUBSET NODES
      BY DEF Hearings
<1>. DEFINE t == Begun(c.nodes[e.node], e.at)
<1>5. Fed(r, e) = [c EXCEPT !.current = e.node, !.nodes[e.node] = t]
      BY <1>2 DEF Fed
<1>6. t \in Times /\ t.ended = c.nodes[e.node].ended
      /\ t.started = IF c.nodes[e.node].started = 0 THEN e.at ELSE c.nodes[e.node].started
      BY <1>1, <1>4 DEF Begun, Times
<1>. HIDE DEF t
<1>7. Fed(r, e) = [nodes |-> [c.nodes EXCEPT ![e.node] = t], current |-> e.node, cached |-> c.cached]
      BY <1>4, <1>5
<1>8. [c.nodes EXCEPT ![e.node] = t] \in [NODES -> Times]
      BY <1>4, <1>6
<1>9. Fed(r, e) \in Hearings
  <2>1. [nodes |-> [c.nodes EXCEPT ![e.node] = t], current |-> e.node, cached |-> c.cached] \in Hearings
        BY <1>4, <1>8 DEF Hearings
  <2>. QED
       BY <1>7, <2>1
<1>10. /\ Fed(r, e).current = e.node /\ Fed(r, e).cached = r.cached
       /\ Fed(r, e).nodes[e.node] = t
       /\ \A n \in NODES \ {e.node} : Fed(r, e).nodes[n] = c.nodes[n]
       BY <1>3, <1>4, <1>7
<1>. QED
     BY <1>2, <1>6, <1>9, <1>10
LEMMA FedNode ==
    ASSUME NEW r \in Hearings, NEW e \in Events, e.node \in NODES,
           e.kind \in {"running", "finished", "progress"}
    PROVE  /\ Fed(r, e) \in Hearings
           /\ Fed(r, e).current = r.current /\ Fed(r, e).cached = r.cached
           /\ \A n \in NODES \ {e.node} : Fed(r, e).nodes[n] = r.nodes[n]
           /\ \E t \in Times :
                  /\ Fed(r, e).nodes[e.node] = t
                  /\ \/ t.started = r.nodes[e.node].started
                     \/ /\ e.kind = "running" /\ r.nodes[e.node].started = 0
                        /\ t.started = e.at
                  /\ \/ t.ended = r.nodes[e.node].ended
                     \/ e.kind = "finished" /\ t.ended = e.at
<1>1. r = [nodes |-> r.nodes, current |-> r.current, cached |-> r.cached]
      /\ r.nodes \in [NODES -> Times] /\ r.cached \in SUBSET NODES /\ e.at \in Nat
      BY DEF Hearings, Events
<1>2. r.nodes[e.node] \in Times
      BY <1>1
<1>3. CASE Fed(r, e) = r
  <2>1. \E t \in Times : t = r.nodes[e.node]
        BY <1>2
  <2>. QED
       BY <1>3, <2>1
<1>4. ASSUME NEW t \in Times, Fed(r, e) = [r EXCEPT !.nodes[e.node] = t]
      PROVE  /\ Fed(r, e) \in Hearings
             /\ Fed(r, e).current = r.current /\ Fed(r, e).cached = r.cached
             /\ \A n \in NODES \ {e.node} : Fed(r, e).nodes[n] = r.nodes[n]
             /\ Fed(r, e).nodes[e.node] = t
  <2>1. Fed(r, e) = [nodes |-> [r.nodes EXCEPT ![e.node] = t], current |-> r.current, cached |-> r.cached]
        BY <1>1, <1>4
  <2>2. [r.nodes EXCEPT ![e.node] = t] \in [NODES -> Times]
        BY <1>1, <1>4
  <2>3. [nodes |-> [r.nodes EXCEPT ![e.node] = t], current |-> r.current, cached |-> r.cached] \in Hearings
        BY <1>1, <2>2 DEF Hearings
  <2>. QED
       BY <1>1, <2>1, <2>3
<1>5. CASE e.kind = "running" /\ r.nodes[e.node].started = 0
  <2>1. Fed(r, e) = [r EXCEPT !.nodes[e.node] = [r.nodes[e.node] EXCEPT !.started = e.at, !.mark = e.at]]
        BY <1>5 DEF Fed
  <2>2. PICK t : t = [r.nodes[e.node] EXCEPT !.started = e.at, !.mark = e.at]
        OBVIOUS
  <2>3. t \in Times /\ t.started = e.at /\ t.ended = r.nodes[e.node].ended
        BY <1>1, <1>2, <2>2 DEF Times
  <2>4. /\ Fed(r, e) \in Hearings
        /\ Fed(r, e).current = r.current /\ Fed(r, e).cached = r.cached
        /\ \A n \in NODES \ {e.node} : Fed(r, e).nodes[n] = r.nodes[n]
        /\ Fed(r, e).nodes[e.node] = t
        BY <1>4, <2>1, <2>2, <2>3
  <2>. QED
       BY <1>5, <2>3, <2>4
<1>6. CASE e.kind = "finished" /\ ~r.nodes[e.node].finished
  <2>1. Fed(r, e) = [r EXCEPT !.nodes[e.node] = [r.nodes[e.node] EXCEPT !.finished = TRUE, !.ended = e.at]]
        BY <1>6 DEF Fed
  <2>2. PICK t : t = [r.nodes[e.node] EXCEPT !.finished = TRUE, !.ended = e.at]
        OBVIOUS
  <2>3. t \in Times /\ t.started = r.nodes[e.node].started /\ t.ended = e.at
        BY <1>1, <1>2, <2>2 DEF Times
  <2>4. /\ Fed(r, e) \in Hearings
        /\ Fed(r, e).current = r.current /\ Fed(r, e).cached = r.cached
        /\ \A n \in NODES \ {e.node} : Fed(r, e).nodes[n] = r.nodes[n]
        /\ Fed(r, e).nodes[e.node] = t
        BY <1>4, <2>1, <2>2, <2>3
  <2>. QED
       BY <1>6, <2>3, <2>4
<1>7. CASE e.kind = "progress"
  <2>. DEFINE t == Stepped(r.nodes[e.node], e.at)
  <2>1. Fed(r, e) = [r EXCEPT !.nodes[e.node] = t]
        BY <1>7 DEF Fed
  <2>2. t \in Times /\ t.started = r.nodes[e.node].started /\ t.ended = r.nodes[e.node].ended
    <3>. DEFINE m == r.nodes[e.node].mark
                u == IF m = 0 THEN r.nodes[e.node].steps
                     ELSE Append(r.nodes[e.node].steps, e.at - m)
    <3>1. t = [r.nodes[e.node] EXCEPT !.steps = u, !.mark = e.at]
          BY DEF Stepped
    <3>2. u \in Seq(Int)
      <4>1. r.nodes[e.node].steps \in Seq(Int) /\ e.at - m \in Int
            BY <1>1, <1>2 DEF Times
      <4>. QED
           BY <4>1, AppendProperties
    <3>. HIDE DEF u, t
    <3>. QED
         BY <1>1, <1>2, <3>1, <3>2 DEF Times
  <2>. HIDE DEF t
  <2>3. /\ Fed(r, e) \in Hearings
        /\ Fed(r, e).current = r.current /\ Fed(r, e).cached = r.cached
        /\ \A n \in NODES \ {e.node} : Fed(r, e).nodes[n] = r.nodes[n]
        /\ Fed(r, e).nodes[e.node] = t
        BY <1>4, <2>1, <2>2
  <2>. QED
       BY <2>2, <2>3
<1>8. CASE e.kind = "running" /\ r.nodes[e.node].started # 0
      BY <1>3, <1>8 DEF Fed
<1>9. CASE e.kind = "finished" /\ r.nodes[e.node].finished
      BY <1>3, <1>9 DEF Fed
<1>. QED
     BY <1>5, <1>6, <1>7, <1>8, <1>9
LEMMA FedEdge ==
    ASSUME NEW r \in Hearings, NEW e \in Events, e.kind \in {"cached", "end"},
           runs[e.prompt][1] \in SUBSET NODES
    PROVE  /\ Fed(r, e) \in Hearings
           /\ e.kind = "cached" => /\ Fed(r, e).cached = runs[e.prompt][1]
                                   /\ Fed(r, e).current = r.current /\ Fed(r, e).nodes = r.nodes
           /\ e.kind = "end" => Fed(r, e) = Closed(r, e.at)
<1>1. CASE e.kind = "cached"
  <2>1. Fed(r, e) = [r EXCEPT !.cached = runs[e.prompt][1]]
        BY <1>1 DEF Fed
  <2>. QED
       BY <1>1, <2>1 DEF Hearings
<1>2. CASE e.kind = "end"
  <2>1. Fed(r, e) = Closed(r, e.at)
        BY <1>2 DEF Fed
  <2>2. e.at \in Nat
        BY DEF Events
  <2>3. Closed(r, e.at) \in Hearings
        BY <2>2, ClosedIs
  <2>. QED
       BY <1>2, <2>1, <2>3
<1>. QED
     BY <1>1, <1>2

-----------------------------------------------------------------------------
(* What each action keeps of the types.                                    *)

\* The records, field by field, ...
LEMMA Fields ==
    ASSUME TypeInv
    PROVE  /\ worker.at \in Ats /\ worker.row \in Rows \cup {""} /\ worker.attempt \in Nat
           /\ worker.prompts \in Nat /\ worker.env \in Nat
           /\ relay.pc \in PCs /\ relay.to \in Nat /\ relay.inbox \in Seq(Events)
           /\ relay.event \in Events /\ relay.drops \in Nat /\ relay.since \in Nat
           /\ comfy.process \in Nat /\ comfy.up \in BOOLEAN /\ comfy.queue \in Seq(Nat)
           /\ comfy.at \in Nat /\ comfy.history \in SUBSET Nat /\ comfy.warm \in BOOLEAN
BY DEF TypeInv, Workers, Relays, Comfys

\* ... and with other fields.
LEMMA WorkerWith ==
    ASSUME TypeInv, NEW at \in Ats
    PROVE  /\ [worker EXCEPT !.at = at] \in Workers
           /\ \A n \in Nat : [worker EXCEPT !.at = at, !.prompts = n] \in Workers
           /\ \A n \in Nat : [worker EXCEPT !.at = at, !.env = n] \in Workers
           /\ \A n \in Nat \ {0} : [worker EXCEPT !.at = at, !.job = n] \in Workers
           /\ \A row \in Rows, n \in Nat :
                  [worker EXCEPT !.at = at, !.row = row, !.job = 1, !.attempt = n] \in Workers
<1>1. worker \in Workers
      BY DEF TypeInv
<1>2. 1 \in Nat \ {0}
      OBVIOUS
<1>. QED
     BY <1>1, <1>2 DEF Workers

\* A place of a sequence.
LEMMA Placed ==
    ASSUME NEW s \in Seq(Nat), NEW n \in Nat \ {0}, n <= Len(s)
    PROVE  n \in DOMAIN s
BY LenProperties

\* A worker that gives up a job is still one, and keeps all but its place.
LEMMA GivenUp ==
    ASSUME TypeInv, GivesUp
    PROVE  /\ worker' \in Workers /\ worker'.at \in {"failed", "job"}
           /\ worker'.row = worker.row /\ worker'.attempt = worker.attempt
           /\ worker'.prompts = worker.prompts /\ worker'.env = worker.env
<1>1. worker \in Workers
      BY DEF TypeInv
<1>2. CASE To("failed")
      BY <1>1, <1>2 DEF To, Workers, Ats
<1>3. CASE worker' = [worker EXCEPT !.at = "job", !.job = @ + 1]
  <2>1. worker.job \in Nat \ {0}
        BY <1>1 DEF Workers
  <2>2. worker.job + 1 \in Nat \ {0}
        BY <2>1
  <2>3. PICK n \in Nat \ {0} : worker' = [worker EXCEPT !.at = "job", !.job = n]
        BY <1>3, <2>2
  <2>. QED
       BY <1>1, <2>3 DEF Workers, Ats
<1>. QED
     BY <1>2, <1>3 DEF GivesUp

\* A job's prompt is another, or the job is ingested.
LEMMA JobsWith ==
    ASSUME TypeInv, NEW row \in Rows, NEW j \in Nat \ {0}
    PROVE  /\ \A p \in Nat : /\ [state EXCEPT ![row][j] = p] \in States
                            /\ DOMAIN [state EXCEPT ![row][j] = p][row] = DOMAIN state[row]
           /\ j \in DOMAIN state[row] => [state EXCEPT ![row] = RemoveAt(@, j)] \in States
<1>. DEFINE s == state[row]
<1>1. state \in [Rows -> Seq(Nat)] /\ s \in Seq(Nat)
      BY DEF TypeInv, States
<1>2. s \in [1..Len(s) -> Nat] /\ DOMAIN s = 1..Len(s) /\ Len(s) \in Nat
      BY <1>1, LenProperties
<1>3. ASSUME NEW p \in Nat
      PROVE  [s EXCEPT ![j] = p] \in Seq(Nat) /\ DOMAIN [s EXCEPT ![j] = p] = DOMAIN s
  <2>1. [s EXCEPT ![j] = p] \in [1..Len(s) -> Nat]
        BY <1>2
  <2>. QED
       BY <1>2, <2>1, SeqDef
<1>4. ASSUME j \in DOMAIN s
      PROVE  RemoveAt(s, j) \in Seq(Nat)
  <2>1. SubSeq(s, 1, j - 1) \in Seq(Nat) /\ SubSeq(s, j + 1, Len(s)) \in Seq(Nat)
        BY <1>1, <1>2, <1>4, SubSeqProperties
  <2>. QED
       BY <2>1, ConcatProperties DEF RemoveAt
<1>. QED
     BY <1>1, <1>3, <1>4 DEF States

\* ... and the feed with other fields.
LEMMA RelayWith ==
    ASSUME TypeInv, NEW pc \in PCs, NEW n \in Nat, NEW e \in Events, NEW q \in Seq(Events)
    PROVE  /\ [relay EXCEPT !.pc = pc] \in Relays
           /\ [relay EXCEPT !.pc = pc, !.to = n] \in Relays
           /\ [relay EXCEPT !.pc = pc, !.since = n] \in Relays
           /\ [relay EXCEPT !.pc = pc, !.event = e] \in Relays
           /\ [relay EXCEPT !.pc = pc, !.event = e, !.inbox = q] \in Relays
           /\ [relay EXCEPT !.inbox = q] \in Relays
           /\ [relay EXCEPT !.pc = pc, !.to = 0, !.inbox = q, !.drops = n] \in Relays
<1>1. relay \in Relays
      BY DEF TypeInv
<1>. QED
     BY <1>1 DEF Relays
LEMMA ComfyWith ==
    ASSUME TypeInv, NEW q \in Seq(Nat), NEW n \in Nat, NEW h \in SUBSET Nat, NEW b \in BOOLEAN
    PROVE  /\ [comfy EXCEPT !.queue = q] \in Comfys
           /\ [comfy EXCEPT !.at = n, !.warm = b] \in Comfys
           /\ [comfy EXCEPT !.at = n, !.queue = q, !.history = h] \in Comfys
           /\ [comfy EXCEPT !.up = b, !.queue = q, !.history = h, !.warm = b] \in Comfys
           /\ [comfy EXCEPT !.up = b, !.process = n] \in Comfys
<1>1. comfy \in Comfys
      BY DEF TypeInv
<1>. QED
     BY <1>1 DEF Comfys
LEMMA LedgerWith ==
    ASSUME TypeInv
    PROVE  /\ \A n \in Nat : LedgerType([ledger EXCEPT !.env = n])
           /\ \A n \in Nat : LedgerType([ledger EXCEPT !.attempt = n, !.prompts = <<>>])
           /\ \A p : \A f \in Entries : LedgerType([ledger EXCEPT !.prompts = Registered(p, f)])
           /\ \A p : LedgerType([ledger EXCEPT !.prompts[p].ingested = TRUE])
<1>1. LedgerType(ledger)
      BY DEF TypeInv
<1>2. ASSUME NEW n \in Nat
      PROVE  LedgerType([ledger EXCEPT !.env = n])
      BY <1>1 DEF LedgerType
<1>3. ASSUME NEW n \in Nat
      PROVE  LedgerType([ledger EXCEPT !.attempt = n, !.prompts = <<>>])
  <2>1. PICK s \in Seq(Entries) : s = <<>> /\ DOMAIN s = {}
    <3>1. <<>> \in Seq(Entries) /\ DOMAIN <<>> = {}
          BY EmptySeq
    <3>. QED
         BY <3>1
  <2>2. DOMAIN s = {}
        BY <2>1
  <2>3. LedgerType([ledger EXCEPT !.attempt = n, !.prompts = s])
        BY <1>1, <2>2 DEF LedgerType
  <2>. QED
       BY <2>1, <2>3
<1>4. ASSUME NEW p, NEW f \in Entries
      PROVE  LedgerType([ledger EXCEPT !.prompts = Registered(p, f)])
  <2>1. \A q \in DOMAIN Registered(p, f) : Registered(p, f)[q] \in Entries
        BY <1>1 DEF LedgerType, Registered
  <2>. QED
       BY <1>1, <2>1 DEF LedgerType
<1>5. ASSUME NEW p
      PROVE  LedgerType([ledger EXCEPT !.prompts[p].ingested = TRUE])
  <2>1. ASSUME NEW f \in Entries
        PROVE  [f EXCEPT !.ingested = TRUE] \in Entries
        BY DEF Entries
  <2>2. PICK g : g = [ledger.prompts EXCEPT ![p] = [@ EXCEPT !.ingested = TRUE]]
        OBVIOUS
  <2>3. \A q \in DOMAIN g : g[q] \in Entries
        BY <1>1, <2>1, <2>2 DEF LedgerType
  <2>4. [ledger EXCEPT !.prompts[p].ingested = TRUE] = [ledger EXCEPT !.prompts = g]
        BY <2>2
  <2>5. LedgerType([ledger EXCEPT !.prompts = g])
        BY <1>1, <2>3 DEF LedgerType
  <2>. QED
       BY <2>4, <2>5
<1>. QED
     BY <1>2, <1>3, <1>4, <1>5

\* What an event that was sent is.
LEMMA SentIs ==
    ASSUME TypeInv, NEW e \in Events, Sent(e)
    PROVE  /\ e.prompt \in DOMAIN runs /\ runs[e.prompt] \in Runs
           /\ runs[e.prompt][1] \in SUBSET NODES
           /\ e.at \in Nat \ {0} /\ e.kind \in Kinds
           /\ e.kind \notin {"cached", "end"} => e.node \in NODES \ runs[e.prompt][1]
<1>1. e.prompt \in DOMAIN runs /\ runs[e.prompt] \in Runs /\ e.at \in DOMAIN SCRIPTS[runs[e.prompt]]
      BY DEF Sent, TypeInv, RunsType
<1>2. PICK s \in Step : s = SCRIPTS[runs[e.prompt]][e.at]
      BY <1>1, Steps
<1>3. s = [kind |-> e.kind, node |-> e.node]
      BY <1>2 DEF Sent
<1>4. Owned(s, runs[e.prompt][1])
      BY <1>1, <1>2, ScriptRises DEF Part
<1>5. e.kind \in Kinds
      BY <1>3 DEF Step
<1>6. e.kind \notin {"cached", "end"} => e.node \in NODES \ runs[e.prompt][1]
      BY <1>3, <1>4 DEF Owned
<1>7. runs[e.prompt][1] \in SUBSET NODES
      BY <1>1 DEF Runs, NODES
<1>8. e.at \in Nat \ {0}
      BY <1>1, Steps
<1>. QED
     BY <1>1, <1>5, <1>6, <1>7, <1>8

\* What an event leaves of a hearing is one.
LEMMA FedType ==
    ASSUME TypeInv, NEW r \in Hearings, NEW e \in Events, Sent(e)
    PROVE  Fed(r, e) \in Hearings
<1>1. /\ e.kind \in Kinds /\ runs[e.prompt][1] \in SUBSET NODES
      /\ e.kind \notin {"cached", "end"} => e.node \in NODES
      BY SentIs
<1>2. CASE e.kind \in {"cached", "end"}
      BY <1>1, <1>2, FedEdge
<1>3. CASE e.kind = "executing"
      BY <1>1, <1>3, FedExecuting
<1>4. CASE e.kind \in {"running", "finished", "progress"}
      BY <1>1, <1>4, FedNode
<1>. QED
     BY <1>1, <1>2, <1>3, <1>4 DEF Kinds

\* Every action of the feed's thread keeps the types, ...
LEMMA RelayTypes ==
    ASSUME TypeInv, SentInv, Relay
    PROVE  TypeInv'
<1>0. NoEvent \in Events
      BY DEF NoEvent, Events
<1>01. relay.drops \in Nat /\ relay.event \in Events /\ relay.inbox \in Seq(Events) /\ comfy.process \in Nat
       BY Fields
<1>1. CASE Connect
  <2>1. relay' \in Relays
        BY <1>0, <1>01, <1>1, RelayWith DEF Connect, PCs
  <2>. QED
       BY <1>1, <2>1 DEF Connect, TypeInv
<1>1a. CASE ConnectFails
  <2>1. relay' \in Relays
        BY <1>0, <1>01, <1>1a, RelayWith DEF ConnectFails, PCs
  <2>. QED
       BY <1>1a, <2>1 DEF ConnectFails, TypeInv
<1>2. CASE Drop
  <2>1. <<>> \in Seq(Events)
        BY EmptySeq
  <2>2. PICK d : d = IF relay.to = comfy.process /\ comfy.up THEN relay.drops + 1 ELSE relay.drops
        OBVIOUS
  <2>3. d \in Nat
        BY <1>01, <2>2
  <2>4. relay' = [relay EXCEPT !.pc = "lost", !.to = 0, !.inbox = <<>>, !.drops = d]
        BY <1>2, <2>2 DEF Drop
  <2>5. relay' \in Relays
        BY <1>0, <2>1, <2>3, <2>4, RelayWith DEF PCs
  <2>. QED
       BY <1>2, <2>5 DEF Drop, TypeInv
<1>3. CASE Invalidate
  <2>1. PICK s : s = IF comfy.up THEN comfy.process ELSE comfy.process + 1
        OBVIOUS
  <2>2. s \in Nat
        BY <1>01, <2>1
  <2>3. relay' = [relay EXCEPT !.pc = "down", !.since = s]
        BY <1>3, <2>1 DEF Invalidate
  <2>4. relay' \in Relays
        BY <1>0, <1>01, <2>2, <2>3, RelayWith DEF PCs
  <2>5. LedgerType(ledger')
        BY <1>3, LedgerWith DEF Invalidate
  <2>. QED
       BY <1>3, <2>4, <2>5 DEF Invalidate, TypeInv
<1>4. CASE Recv
  <2>1. Head(relay.inbox) \in Events /\ Tail(relay.inbox) \in Seq(Events)
        BY <1>01, <1>4, Taken DEF Recv
  <2>2. relay' = [relay EXCEPT !.pc = "feed", !.event = Head(relay.inbox), !.inbox = Tail(relay.inbox)]
        BY <1>4 DEF Recv
  <2>3. relay' \in Relays
        BY <1>01, <2>1, <2>2, RelayWith DEF PCs
  <2>. QED
       BY <1>4, <2>3 DEF Recv, TypeInv
<1>5. CASE Feed
  <2>. DEFINE e == relay.event
  <2>1. PICK h : h = Fed(Heard(e.prompt), e)
        OBVIOUS
  <2>2. h \in Hearings
    <3>1. Sent(e)
          BY <1>5 DEF Feed, SentInv
    <3>2. Heard(e.prompt) \in Hearings
          BY HeardType
    <3>. QED
         BY <1>01, <2>1, <3>1, <3>2, FedType
  <2>3. recorder' = [p \in DOMAIN recorder \cup {e.prompt} |->
                        IF p = e.prompt THEN h ELSE recorder[p]]
        BY <1>5, <2>1 DEF Feed
  <2>4. RecorderType(recorder)
        BY DEF TypeInv
  <2>5. RecorderType(recorder')
        BY <2>2, <2>3, <2>4 DEF RecorderType
  <2>6. relay' \in Relays
    <3>1. PICK pc \in PCs : relay' = [relay EXCEPT !.pc = pc, !.event = NoEvent]
          BY <1>5 DEF Feed, PCs
    <3>. QED
         BY <1>0, <1>01, <3>1, RelayWith
  <2>7. frame' \in Frames
        BY <1>5 DEF Feed, TypeInv, Frames
  <2>. QED
       BY <1>5, <2>5, <2>6, <2>7 DEF Feed, TypeInv
<1>6. CASE Check
  <2>1. PICK pc \in PCs : relay' = [relay EXCEPT !.pc = pc]
        BY <1>6 DEF Check, PCs
  <2>2. relay' \in Relays
        BY <1>0, <1>01, <2>1, RelayWith
  <2>. QED
       BY <1>6, <2>2 DEF Check, TypeInv
<1>7. CASE Send
  <2>1. relay' \in Relays
        BY <1>0, <1>01, <1>7, RelayWith DEF Send, PCs
  <2>2. frame' \in Frames
        BY <1>7 DEF Send, TypeInv, Frames
  <2>. QED
       BY <1>7, <2>1, <2>2 DEF Send, TypeInv
<1>. QED
     BY <1>1, <1>1a, <1>2, <1>3, <1>4, <1>5, <1>6, <1>7 DEF Relay

\* ... every one of the worker's, ...
LEMMA ThreadTypes ==
    ASSUME TypeInv, FirstInv, QueueInv, Thread
    PROVE  TypeInv'
<1>0. \A b \in BOOLEAN : Entry(b) \in Entries
      BY DEF Entry, Entries
<1>01. worker.attempt + 1 \in Nat /\ worker.prompts + 1 \in Nat /\ worker.prompts \in Nat
  <2>1. worker.attempt \in Nat /\ worker.prompts \in Nat
        BY Fields
  <2>. QED
       BY <2>1
<1>1. CASE Claim
  <2>1. worker' \in Workers
    <3>1. PICK row \in Rows :
              worker' = [worker EXCEPT !.at = "begun", !.row = row, !.job = 1,
                                       !.attempt = worker.attempt + 1]
          BY <1>1 DEF Claim
    <3>. QED
         BY <1>01, <3>1, WorkerWith DEF Ats
  <2>2. LedgerType(ledger')
        BY <1>01, <1>1, LedgerWith DEF Claim
  <2>. QED
       BY <1>1, <2>1, <2>2 DEF Claim, TypeInv
<1>2. CASE ClearRecorder
  <2>1. worker' \in Workers
        BY <1>2, WorkerWith DEF ClearRecorder, To, Ats
  <2>2. RecorderType(recorder')
    <3>1. <<>> \in Seq(Hearings) /\ DOMAIN <<>> = {}
          BY EmptySeq
    <3>. QED
         BY <1>2, <3>1 DEF ClearRecorder, RecorderType
  <2>. QED
       BY <1>2, <2>1, <2>2 DEF ClearRecorder, TypeInv
<1>3. CASE Announce
  <2>1. worker' \in Workers
        BY <1>3, WorkerWith DEF Announce, To, Ats
  <2>2. worker.row \in Rows
        BY <1>3 DEF Announce, FirstInv
  <2>3. frame' \in Frames
        BY <1>3, <2>2 DEF Announce, TypeInv, Frames
  <2>. QED
       BY <1>3, <2>1, <2>3 DEF Announce, TypeInv
<1>4. CASE Enter
  <2>1. worker' \in Workers
        BY <1>4, WorkerWith DEF Enter, To, Ats
  <2>2. worker.row \in Rows
        BY <1>4 DEF Enter, FirstInv
  <2>. QED
       BY <1>4, <2>1, <2>2 DEF Enter, TypeInv
<1>5. CASE Submit
  <2>1. Append(comfy.queue, worker.prompts + 1) \in Seq(Nat)
    <3>1. comfy.queue \in Seq(Nat)
          BY Fields
    <3>. QED
         BY <1>01, <3>1, Added
  <2>2. comfy' = [comfy EXCEPT !.queue = Append(comfy.queue, worker.prompts + 1)]
        /\ worker' = [worker EXCEPT !.at = "submitted", !.prompts = worker.prompts + 1]
        BY <1>5 DEF Submit
  <2>3. comfy' \in Comfys
        BY <2>1, <2>2, ComfyWith
  <2>4. worker' \in Workers
        BY <1>01, <2>2, WorkerWith DEF Ats
  <2>5. state' \in States
    <3>1. worker.row \in Rows /\ worker.job \in Nat \ {0}
          BY <1>5 DEF Submit, FirstInv, TypeInv, Workers
    <3>2. state[worker.row] \in Seq(Nat) /\ worker.job \in DOMAIN state[worker.row]
      <4>1. state[worker.row] \in Seq(Nat)
            BY <3>1 DEF TypeInv, States
      <4>2. worker.job <= Len(state[worker.row])
            BY <1>5 DEF Submit, Jobs
      <4>. QED
           BY <3>1, <4>1, <4>2, Placed
    <3>3. PICK p \in Nat : state' = [state EXCEPT ![worker.row][worker.job] = p]
      <4>1. state[worker.row][worker.job] \in Nat
            BY <3>2, ElementOfSeq, LenProperties
      <4>2. CASE worker.row \in Drawn
        <5>1. state' = [state EXCEPT ![worker.row][worker.job] = 0]
              BY <1>5, <4>2 DEF Submit
        <5>. QED
             BY <5>1
      <4>3. CASE worker.row \notin Drawn
        <5>1. state' = [state EXCEPT ![worker.row][worker.job] = state[worker.row][worker.job]]
              BY <1>5, <4>3 DEF Submit
        <5>. QED
             BY <4>1, <5>1
      <4>. QED
           BY <4>2, <4>3
    <3>. QED
         BY <3>1, <3>3, JobsWith
  <2>. QED
       BY <1>5, <2>3, <2>4, <2>5 DEF Submit, TypeInv
<1>6. CASE Register
  <2>1. LedgerType(ledger')
        BY <1>0, <1>6, LedgerWith DEF Register
  <2>2. worker' \in Workers
        BY <1>6, WorkerWith DEF Register, To, Ats
  <2>3. state' \in States
    <3>1. worker.row \in Rows /\ worker.job \in Nat \ {0}
          BY <1>6 DEF Register, FirstInv, TypeInv, Workers
    <3>. QED
         BY <1>01, <1>6, <3>1, JobsWith DEF Register
  <2>. QED
       BY <1>6, <2>1, <2>2, <2>3 DEF Register, TypeInv
<1>7. CASE Resume
  <2>1. ledger' = ledger \/ ledger' = [ledger EXCEPT !.prompts = Registered(Prompt, Entry(TRUE))]
        BY <1>7 DEF Resume
  <2>2. LedgerType(ledger')
    <3>1. LedgerType(ledger)
          BY DEF TypeInv
    <3>2. Entry(TRUE) \in Entries
          BY <1>0
    <3>3. LedgerType([ledger EXCEPT !.prompts = Registered(Prompt, Entry(TRUE))])
          BY <3>2, LedgerWith
    <3>. QED
         BY <2>1, <3>1, <3>3
  <2>3. worker' \in Workers
        BY <1>7, WorkerWith DEF Resume, To, Ats
  <2>. QED
       BY <1>7, <2>2, <2>3 DEF Resume, TypeInv
<1>8. CASE Ready
  <2>. DEFINE old == IF Prompt \in DOMAIN ledger.prompts THEN ledger.prompts[Prompt] ELSE Entry(TRUE)
              out == Outcome(runs[Prompt])
  <2>1. PICK f : f = [old EXCEPT !.ready = TRUE, !.graph = TRUE, !.status = out.status,
                                 !.cached = out.cached]
        OBVIOUS
  <2>2. Prompt \in DOMAIN runs /\ runs[Prompt] \in Runs
        BY <1>8 DEF Ready, QueueInv, TypeInv, RunsType
  <2>3. out.status \in {"unknown", "success", "error"} /\ out.cached \in SUBSET NODES
        BY <2>2 DEF Outcome, Runs, NODES
  <2>4. old \in Entries
    <3>1. CASE Prompt \in DOMAIN ledger.prompts
          BY <3>1 DEF TypeInv, LedgerType
    <3>2. CASE Prompt \notin DOMAIN ledger.prompts
          BY <1>0, <3>2
    <3>. QED
         BY <3>1, <3>2
  <2>. HIDE DEF old, out
  <2>5. f \in Entries
        BY <2>1, <2>3, <2>4 DEF Entries
  <2>6. ledger' = [ledger EXCEPT !.prompts = Registered(Prompt, f)]
        BY <1>8, <2>1 DEF Ready, old, out
  <2>7. worker' \in Workers
    <3>1. CASE To("ingest")
          BY <3>1, WorkerWith DEF To, Ats
    <3>. QED
         BY <1>8, <3>1, GivenUp DEF Ready
  <2>8. LedgerType(ledger')
        BY <2>5, <2>6, LedgerWith
  <2>. QED
       BY <1>8, <2>7, <2>8 DEF Ready, TypeInv
<1>9. CASE Ingest
  <2>1. LedgerType(ledger')
        BY <1>9, LedgerWith DEF Ingest
  <2>2. worker' \in Workers
        BY <1>9, WorkerWith DEF Ingest, To, Ats
  <2>3. state' \in States
    <3>1. worker.row \in Rows /\ worker.job \in Nat \ {0} /\ worker.job \in DOMAIN state[worker.row]
          BY <1>9 DEF Ingest, FirstInv, TypeInv, Workers
    <3>. QED
         BY <1>9, <3>1, JobsWith DEF Ingest
  <2>. QED
       BY <1>9, <2>1, <2>2, <2>3 DEF Ingest, TypeInv
<1>10. CASE Fails
  <2>1. worker' \in Workers
        BY <1>10, GivenUp DEF Fails
  <2>. QED
       BY <1>10, <2>1 DEF Fails, TypeInv
<1>11. CASE Leave
  <2>1. worker' \in Workers
        BY <1>11, WorkerWith DEF Leave, Ats
  <2>. QED
       BY <1>11, <2>1 DEF Leave, TypeInv
<1>12. CASE SendPayload
  <2>1. PICK at \in Ats : worker' = [worker EXCEPT !.at = at]
        BY <1>12 DEF SendPayload, To, Ats
  <2>2. worker' \in Workers
        BY <2>1, WorkerWith
  <2>. QED
       BY <1>12, <2>2 DEF SendPayload, TypeInv
<1>13. CASE ReadEnvironment
  <2>1. PICK n \in Nat : worker' = [worker EXCEPT !.at = "answered", !.env = n]
        BY <1>13, Fields DEF ReadEnvironment
  <2>2. worker' \in Workers
        BY <2>1, WorkerWith DEF Ats
  <2>. QED
       BY <1>13, <2>2 DEF ReadEnvironment, TypeInv
<1>14. CASE KeepEnvironment
  <2>1. worker' \in Workers
        BY <1>14, WorkerWith DEF KeepEnvironment, Ats
  <2>2. LedgerType(ledger')
        BY <1>14, Fields, LedgerWith DEF KeepEnvironment
  <2>. QED
       BY <1>14, <2>1, <2>2 DEF KeepEnvironment, TypeInv
<1>. QED
     BY <1>1, <1>2, <1>3, <1>4, <1>5, <1>6, <1>7, <1>8, <1>9, <1>10, <1>11, <1>12, <1>13,
        <1>14 DEF Thread

\* ComfyUI is at the next step of its first prompt, which has one.
LEMMA Sends ==
    ASSUME TypeInv, QueueInv, ComfySends
    PROVE  /\ Head(comfy.queue) \in DOMAIN runs /\ Head(comfy.queue) \in Nat
           /\ runs[Head(comfy.queue)] \in Runs
           /\ comfy.at + 1 \in DOMAIN SCRIPTS[runs[Head(comfy.queue)]]
           /\ SCRIPTS[runs[Head(comfy.queue)]][comfy.at + 1] \in Step
<1>. DEFINE p == Head(comfy.queue)
<1>1. p \in DOMAIN runs /\ runs[p] \in Runs /\ comfy.queue # <<>>
      BY DEF ComfySends, TypeInv, RunsType
<1>2. p \in Nat /\ comfy.at \in Nat
      BY <1>1, Fields, Taken
<1>3. comfy.at < Len(SCRIPTS[runs[p]])
      BY <1>1 DEF QueueInv
<1>4. Len(SCRIPTS[runs[p]]) \in Nat /\ DOMAIN SCRIPTS[runs[p]] = 1..Len(SCRIPTS[runs[p]])
      BY <1>1, ScriptRises
<1>5. comfy.at + 1 \in DOMAIN SCRIPTS[runs[p]]
      BY <1>2, <1>3, <1>4
<1>. QED
     BY <1>1, <1>2, <1>5, Steps

\* ... and every one of ComfyUI's.
LEMMA ComfyTypes ==
    ASSUME TypeInv, QueueInv, Comfy
    PROVE  TypeInv'
<1>0. /\ comfy.process \in Nat /\ comfy.up \in BOOLEAN /\ comfy.queue \in Seq(Nat)
      /\ comfy.at \in Nat /\ comfy.history \in SUBSET Nat /\ comfy.warm \in BOOLEAN
      /\ relay.inbox \in Seq(Events) /\ relay.pc \in PCs
      BY Fields
<1>1. CASE ComfyBegin
  <2>1. PICK run \in Runs :
            /\ runs' = [p \in DOMAIN runs \cup {Head(comfy.queue)} |->
                           IF p \in DOMAIN runs THEN runs[p] ELSE run]
            /\ comfy' = [comfy EXCEPT !.at = 0, !.warm = @ \/ run[2] # "loader"]
        BY <1>1 DEF ComfyBegin
  <2>2. Head(comfy.queue) \in Nat
        BY <1>0, <1>1, Taken DEF ComfyBegin
  <2>3. comfy' \in Comfys
    <3>1. PICK w \in BOOLEAN : w = (comfy.warm \/ run[2] # "loader")
          OBVIOUS
    <3>2. comfy' = [comfy EXCEPT !.at = 0, !.warm = w]
          BY <2>1, <3>1
    <3>. QED
         BY <1>0, <3>2, ComfyWith
  <2>4. RunsType(runs)
        BY DEF TypeInv
  <2>5. RunsType(runs')
        BY <2>1, <2>2, <2>4 DEF RunsType
  <2>. QED
       BY <1>1, <2>3, <2>5 DEF ComfyBegin, TypeInv
<1>2. CASE ComfySends
  <2>. DEFINE p == Head(comfy.queue)
              script == SCRIPTS[runs[p]]
              at == comfy.at + 1
              over == at = Len(script)
  <2>1. p \in Nat /\ Tail(comfy.queue) \in Seq(Nat)
        BY <1>0, <1>2, Taken DEF ComfySends
  <2>2. PICK s \in Step : s = script[at]
        BY <1>2, Sends
  <2>3. [prompt |-> p, at |-> at, kind |-> s.kind, node |-> s.node] \in Events
    <3>1. s.kind \in Kinds /\ s.node \in NODES \cup {""}
          BY DEF Step
    <3>2. at \in Nat
          BY <1>0
    <3>. HIDE DEF at, p
    <3>. QED
         BY <2>1, <3>1, <3>2 DEF Events
  <2>4. /\ comfy' = [comfy EXCEPT !.at = at, !.queue = IF over THEN Tail(@) ELSE @,
                                  !.history = IF over THEN @ \cup {p} ELSE @]
        /\ \/ relay' = relay
           \/ relay' = [relay EXCEPT !.inbox =
                  Append(@, [prompt |-> p, at |-> at, kind |-> s.kind, node |-> s.node])]
        BY <1>2, <2>2 DEF ComfySends
  <2>. HIDE DEF p, script, over
  <2>5. comfy' \in Comfys
    <3>1. PICK q \in Seq(Nat), h \in SUBSET Nat :
              comfy' = [comfy EXCEPT !.at = at, !.queue = q, !.history = h]
      <4>1. CASE over
        <5>1. comfy.history \cup {p} \in SUBSET Nat
              BY <1>0, <2>1
        <5>2. comfy' = [comfy EXCEPT !.at = at, !.queue = Tail(comfy.queue),
                                     !.history = comfy.history \cup {p}]
              BY <2>4, <4>1
        <5>. QED
             BY <2>1, <5>1, <5>2
      <4>2. CASE ~over
        <5>1. comfy' = [comfy EXCEPT !.at = at, !.queue = comfy.queue, !.history = comfy.history]
              BY <2>4, <4>2
        <5>. QED
             BY <1>0, <5>1
      <4>. QED
           BY <4>1, <4>2
    <3>2. at \in Nat
          BY <1>0
    <3>. HIDE DEF at
    <3>. QED
         BY <1>0, <3>1, <3>2, ComfyWith
  <2>6. relay' \in Relays
    <3>1. PICK e \in Events : relay' = relay \/ relay' = [relay EXCEPT !.inbox = Append(@, e)]
          BY <2>3, <2>4
    <3>2. Append(relay.inbox, e) \in Seq(Events)
          BY <1>0, Added
    <3>3. relay \in Relays
          BY DEF TypeInv
    <3>4. CASE relay' = [relay EXCEPT !.inbox = Append(@, e)]
          BY <1>0, <3>2, <3>4, RelayWith
    <3>. QED
         BY <3>1, <3>3, <3>4
  <2>. QED
       BY <1>2, <2>5, <2>6 DEF ComfySends, TypeInv
<1>3. CASE ComfyDies
  <2>1. <<>> \in Seq(Nat)
        BY EmptySeq
  <2>2. comfy' \in Comfys
        BY <1>3, <2>1, <1>0, ComfyWith DEF ComfyDies
  <2>. QED
       BY <1>3, <2>2 DEF ComfyDies, TypeInv
<1>4. CASE ComfyStarts
  <2>1. comfy.process + 1 \in Nat
        BY <1>0
  <2>2. comfy' \in Comfys
        BY <1>0, <1>4, <2>1, ComfyWith DEF ComfyStarts
  <2>. QED
       BY <1>4, <2>2 DEF ComfyStarts, TypeInv
<1>. QED
     BY <1>1, <1>2, <1>3, <1>4 DEF Comfy

-----------------------------------------------------------------------------
(* What each action keeps of what the worker is at.                        *)

\* The row that runs has had its first frame: Enter comes after Announce.
LEMMA FirstStep ==
    ASSUME TypeInv, FirstInv, Next
    PROVE  FirstInv'
<1>. /\ worker.at \in Ats /\ worker.row \in Rows \cup {""} /\ worker.prompts \in Nat
     /\ DOMAIN worker = {"at", "row", "attempt", "job", "prompts", "env"}
     /\ DOMAIN frame = {"submitted", "sampling"}
     BY DEF TypeInv, Workers, Frames
<1>1. CASE Claim
  <2>1. PICK row \in Rows : worker' = [worker EXCEPT !.at = "begun", !.row = row, !.job = 1,
                                                     !.attempt = @ + 1]
        BY <1>1 DEF Claim
  <2>. QED
       BY <1>1, <2>1 DEF Claim, FirstInv
<1>2. CASE ClearRecorder
      BY <1>2 DEF ClearRecorder, To, FirstInv
<1>3. CASE Announce
      BY <1>3 DEF Announce, To, FirstInv
<1>4. CASE Enter
      BY <1>4 DEF Enter, To, FirstInv
<1>. worker.job \in Nat \ {0}
     BY DEF TypeInv, Workers
<1>5. CASE Submit
  <2>1. worker.row \in Rows /\ worker.at = "job"
        BY <1>5 DEF Submit, FirstInv
  <2>2. state \in [Rows -> Seq(Nat)] /\ state[worker.row] \in Seq(Nat)
        BY <2>1 DEF TypeInv, States
  <2>3. worker.job \in DOMAIN state[worker.row]
    <3>1. worker.job <= Len(state[worker.row])
          BY <1>5 DEF Submit, Jobs
    <3>. QED
         BY <2>2, <3>1, Placed
  <2>4. DOMAIN state'[worker.row] = DOMAIN state[worker.row]
        BY <1>5, <2>1, <2>2 DEF Submit
  <2>5. worker'.job = worker.job /\ worker'.row = worker.row /\ worker'.at = "submitted"
        BY <1>5 DEF Submit
  <2>. QED
       BY <1>5, <2>1, <2>3, <2>4, <2>5 DEF Submit, FirstInv
<1>6. CASE Register
  <2>1. worker.row \in Rows /\ worker.job \in DOMAIN state[worker.row]
        BY <1>6 DEF Register, FirstInv
  <2>2. state \in [Rows -> Seq(Nat)]
        BY DEF TypeInv, States
  <2>3. DOMAIN state'[worker.row] = DOMAIN state[worker.row]
        BY <1>6, <2>1, <2>2 DEF Register
  <2>. QED
       BY <1>6, <2>1, <2>3 DEF Register, To, FirstInv
<1>6a. CASE Resume
  <2>1. worker.row \in Rows /\ worker.at = "job"
        BY <1>6a DEF Resume, FirstInv
  <2>2. state[worker.row] \in Seq(Nat)
        BY <2>1 DEF TypeInv, States
  <2>3. worker.job \in DOMAIN state[worker.row]
    <3>1. worker.job <= Len(state[worker.row])
          BY <1>6a DEF Resume, Jobs
    <3>. QED
         BY <2>2, <3>1, Placed
  <2>. QED
       BY <1>6a, <2>1, <2>3 DEF Resume, To, FirstInv
<1>6b. CASE Ingest
      BY <1>6b DEF Ingest, To, FirstInv
<1>7. CASE Ready
  <2>1. CASE To("ingest")
        BY <1>7, <2>1 DEF Ready, To, FirstInv
  <2>2. CASE GivesUp
        BY <1>7, <2>2, GivenUp DEF Ready, FirstInv
  <2>. QED
       BY <1>7, <2>1, <2>2 DEF Ready
<1>8. CASE Fails
      BY <1>8, GivenUp DEF Fails, FirstInv
<1>9. CASE Leave
      BY <1>9 DEF Leave, FirstInv
<1>10. CASE SendPayload
  <2>1. PICK at \in {"environment", "idle"} : worker' = [worker EXCEPT !.at = at]
        BY <1>10 DEF SendPayload, To
  <2>. QED
       BY <1>10, <2>1 DEF SendPayload, FirstInv
<1>11. CASE ReadEnvironment \/ KeepEnvironment
       BY <1>11 DEF ReadEnvironment, KeepEnvironment, FirstInv
<1>12. CASE Feed
       BY <1>12 DEF Feed, FirstInv
<1>13. CASE Send
       BY <1>13 DEF Send, FirstInv
<1>14. CASE Connect \/ ConnectFails \/ Drop \/ Invalidate \/ Recv \/ Check
       BY <1>14 DEF Connect, ConnectFails, Drop, Invalidate, Recv, Check, FirstInv
<1>15. CASE Comfy
       BY <1>15 DEF Comfy, ComfyBegin, ComfySends, ComfyDies, ComfyStarts, FirstInv
<1>. QED
     BY <1>1, <1>2, <1>3, <1>4, <1>5, <1>6, <1>6a, <1>6b, <1>7, <1>8, <1>9, <1>10, <1>11, <1>12,
        <1>13, <1>14, <1>15 DEF Next, Relay, Thread

\* A row samples only as the current one, which was submitted.
LEMMA SubmitStep ==
    ASSUME TypeInv, FirstInv, SubmitFirst, Next
    PROVE  SubmitFirst'
<1>. DOMAIN frame = {"submitted", "sampling"}
     BY DEF TypeInv, Frames
<1>1. CASE Announce
      BY <1>1 DEF Announce, SubmitFirst
<1>2. CASE Feed
      BY <1>2 DEF Feed, SubmitFirst
<1>3. CASE Send
      BY <1>3 DEF Send, SubmitFirst, FirstInv
<1>4. CASE frame' = frame
      BY <1>4 DEF SubmitFirst
<1>5. frame' = frame \/ Announce \/ Feed \/ Send
      BY DEF Next, Relay, Connect, ConnectFails, Drop, Invalidate, Recv, Check, Thread, Claim,
             ClearRecorder, Enter, Submit, Register, Resume, Ready, Ingest, Fails, Leave, SendPayload,
             ReadEnvironment, KeepEnvironment, Comfy, ComfyBegin, ComfySends, ComfyDies, ComfyStarts
<1>. QED
     BY <1>1, <1>2, <1>3, <1>4, <1>5

\* The environment is read and kept while the lock is held, and the loss of the
\* feed waits for it.
LEMMA EnvStep ==
    ASSUME TypeInv, EnvInv, EnvOutlivesNoLoss, Next
    PROVE  EnvInv' /\ EnvOutlivesNoLoss'
<1>. /\ worker.env \in Nat /\ relay.since \in Nat /\ comfy.process \in Nat /\ comfy.up \in BOOLEAN
     /\ ledger.env \in Nat /\ worker.at \in Ats
     /\ DOMAIN worker = {"at", "row", "attempt", "job", "prompts", "env"}
     /\ DOMAIN ledger = {"attempt", "prompts", "env"}
     /\ DOMAIN relay = {"pc", "to", "inbox", "event", "drops", "since"}
     /\ DOMAIN comfy = {"process", "up", "queue", "at", "history", "warm"}
     BY Fields DEF TypeInv, Workers, Relays, Comfys, LedgerType
<1>1. CASE Invalidate
  <2>1. relay'.since = IF comfy.up THEN comfy.process ELSE comfy.process + 1
        BY <1>1 DEF Invalidate
  <2>2. ledger'.env = 0
        BY <1>1 DEF Invalidate
  <2>3. worker.env = 0
        BY <1>1 DEF Invalidate, Unlocked, EnvInv
  <2>4. relay'.since <= comfy.process + (IF comfy.up THEN 0 ELSE 1)
        BY <2>1
  <2>. QED
       BY <1>1, <2>2, <2>3, <2>4 DEF Invalidate, EnvInv, EnvOutlivesNoLoss
<1>2. CASE ReadEnvironment
  <2>1. worker'.at = "answered" /\ worker'.env = IF comfy.up THEN comfy.process ELSE 0
        BY <1>2 DEF ReadEnvironment
  <2>2. worker'.env # 0 => worker'.env >= relay.since
        BY <2>1 DEF EnvInv
  <2>. QED
       BY <1>2, <2>1, <2>2 DEF ReadEnvironment, EnvInv, EnvOutlivesNoLoss
<1>3. CASE KeepEnvironment
      BY <1>3 DEF KeepEnvironment, EnvInv, EnvOutlivesNoLoss
<1>4. CASE ComfyDies
  <2>1. comfy.up /\ comfy'.up = FALSE /\ comfy'.process = comfy.process
        BY <1>4 DEF ComfyDies
  <2>. QED
       BY <1>4, <2>1 DEF ComfyDies, EnvInv, EnvOutlivesNoLoss
<1>5. CASE ComfyStarts
  <2>1. ~comfy.up /\ comfy'.up = TRUE /\ comfy'.process = comfy.process + 1
        BY <1>5 DEF ComfyStarts
  <2>. QED
       BY <1>5, <2>1 DEF ComfyStarts, EnvInv, EnvOutlivesNoLoss
<1>6. ASSUME worker'.env = worker.env, worker.env # 0 => worker'.at = worker.at,
             ledger'.env = ledger.env, relay'.since = relay.since, comfy'.up = comfy.up,
             comfy'.process = comfy.process
      PROVE  EnvInv' /\ EnvOutlivesNoLoss'
      BY <1>6 DEF EnvInv, EnvOutlivesNoLoss
<1>7. worker.at # "answered" => worker.env = 0
      BY DEF EnvInv
<1>8. CASE Connect \/ ConnectFails \/ Recv \/ Feed \/ Check \/ Send
      BY <1>6, <1>8 DEF Connect, ConnectFails, Recv, Feed, Check, Send
<1>9. CASE Drop
      BY <1>6, <1>9 DEF Drop
<1>10. CASE ComfyBegin
  <2>1. PICK run : comfy' = [comfy EXCEPT !.at = 0, !.warm = @ \/ run[2] # "loader"]
        BY <1>10 DEF ComfyBegin
  <2>. QED
       BY <1>6, <1>10, <2>1 DEF ComfyBegin
<1>11. CASE ComfySends
  <2>1. relay'.since = relay.since
        BY <1>11 DEF ComfySends
  <2>2. comfy'.up = comfy.up /\ comfy'.process = comfy.process
        BY <1>11 DEF ComfySends
  <2>. QED
       BY <1>6, <1>11, <2>1, <2>2 DEF ComfySends
<1>12. CASE Claim \/ ClearRecorder \/ Announce \/ Enter
       BY <1>6, <1>7, <1>12 DEF Claim, ClearRecorder, Announce, Enter, To
<1>13. CASE Submit
       BY <1>6, <1>7, <1>13 DEF Submit
<1>14. CASE Register \/ Ingest \/ Leave \/ SendPayload
       BY <1>6, <1>7, <1>14 DEF Register, Ingest, Leave, SendPayload, To
<1>14a. CASE Fails
       BY <1>6, <1>7, <1>14a, GivenUp DEF Fails
<1>15. CASE Resume
  <2>1. ledger'.env = ledger.env
        BY <1>15 DEF Resume
  <2>. QED
       BY <1>6, <1>7, <1>15, <2>1 DEF Resume, To
<1>16. CASE Ready
  <2>1. ledger'.env = ledger.env
        BY <1>16 DEF Ready
  <2>2. worker'.env = worker.env
        BY <1>16, GivenUp DEF Ready, To
  <2>. QED
       BY <1>6, <1>7, <1>16, <2>1, <2>2 DEF Ready
<1>. QED
     BY <1>1, <1>2, <1>3, <1>4, <1>5, <1>8, <1>9, <1>10, <1>11, <1>12, <1>13, <1>14, <1>14a,
        <1>15, <1>16 DEF Next, Relay, Thread, Comfy

-----------------------------------------------------------------------------
(* The queue.                                                              *)

\* The first prompt is the only one of the queue that may have begun.
LEMMA FirstOnly ==
    ASSUME TypeInv, QueueInv, NEW k \in DOMAIN comfy.queue, comfy.queue[k] \in DOMAIN runs
    PROVE  comfy.queue # <<>> /\ k = 1 /\ comfy.queue[k] = Head(comfy.queue)
<1>1. comfy.queue \in Seq(Nat)
      BY Fields
<1>2. comfy.queue # <<>>
  <2>1. comfy.queue = <<>> => DOMAIN comfy.queue = {}
    <3>1. <<>> \in Seq(Nat) /\ DOMAIN <<>> = {}
          BY EmptySeq
    <3>. QED
         BY <3>1
  <2>. QED
       BY <2>1
<1>3. comfy.queue[k] \in Nat
      BY <1>1, ElementOfSeq, LenProperties
<1>4. comfy.queue[k] < comfy.queue[k] \/ (k = 1 /\ comfy.queue[k] = comfy.queue[k])
      BY DEF QueueInv
<1>5. k = 1
      BY <1>3, <1>4
<1>6. Head(comfy.queue) = comfy.queue[1]
      BY <1>1, <1>2, Taken
<1>. QED
     BY <1>2, <1>5, <1>6

\* Only a submit and ComfyUI itself change the queue.
LEMMA QueueStill ==
    ASSUME TypeInv, Next
    PROVE  \/ Submit \/ ComfyBegin \/ ComfySends \/ ComfyDies
           \/ /\ comfy'.queue = comfy.queue /\ comfy'.at = comfy.at
              /\ comfy'.history = comfy.history /\ worker'.prompts = worker.prompts /\ runs' = runs
<1>1. DOMAIN comfy = {"process", "up", "queue", "at", "history", "warm"}
      /\ DOMAIN worker = {"at", "row", "attempt", "job", "prompts", "env"}
      BY DEF TypeInv, Comfys, Workers
<1>2. CASE ComfyStarts
      BY <1>1, <1>2 DEF ComfyStarts
<1>3. CASE Relay
      BY <1>3 DEF Relay, Connect, ConnectFails, Drop, Invalidate, Recv, Feed, Check, Send
<1>4. CASE Thread /\ ~Submit
  <2>1. comfy' = comfy /\ runs' = runs
        BY <1>4 DEF Thread, Claim, ClearRecorder, Announce, Enter, Register, Resume, Ready, Ingest,
                    Fails, Leave, SendPayload, ReadEnvironment, KeepEnvironment
  <2>2. CASE GivesUp
        BY <2>1, <2>2, GivenUp
  <2>3. CASE ~GivesUp
    <3>1. worker'.prompts = worker.prompts
          BY <1>1, <1>4, <2>3 DEF Thread, Claim, ClearRecorder, Announce, Enter, Register, Resume,
                     Ready, Ingest, Fails, Leave, SendPayload, ReadEnvironment, KeepEnvironment, To
    <3>. QED
         BY <2>1, <3>1
  <2>. QED
       BY <2>2, <2>3
<1>. QED
     BY <1>2, <1>3, <1>4 DEF Next, Comfy

\* Prompts are numbered as they are submitted, begun in that order, and leave
\* the queue with their last event.
LEMMA QueueStep ==
    ASSUME TypeInv, QueueInv, Next
    PROVE  QueueInv'
<1>. DEFINE q == comfy.queue
<1>1. /\ q \in Seq(Nat) /\ worker.prompts \in Nat /\ comfy.at \in Nat
      /\ Len(q) \in Nat /\ DOMAIN q = 1..Len(q)
      /\ \A k \in DOMAIN q : q[k] \in Nat
  <2>1. q \in Seq(Nat) /\ worker.prompts \in Nat /\ comfy.at \in Nat
        BY Fields
  <2>2. Len(q) \in Nat /\ DOMAIN q = 1..Len(q)
        BY <2>1, LenProperties
  <2>. QED
       BY <2>1, <2>2, ElementOfSeq
<1>2. DOMAIN runs \subseteq Nat
      BY DEF TypeInv, RunsType
<1>3. DOMAIN comfy = {"process", "up", "queue", "at", "history", "warm"}
      /\ DOMAIN worker = {"at", "row", "attempt", "job", "prompts", "env"}
      BY DEF TypeInv, Comfys, Workers
<1>4. CASE Submit
  <2>. DEFINE n == worker.prompts + 1
              r == Append(q, n)
  <2>1. comfy'.queue = r /\ comfy'.at = comfy.at /\ comfy'.history = comfy.history
        BY <1>3, <1>4 DEF Submit
  <2>2. worker'.prompts = n
        BY <1>3, <1>4 DEF Submit
  <2>3. runs' = runs
        BY <1>4 DEF Submit
  <2>4. /\ r \in Seq(Nat) /\ DOMAIN r = 1..(Len(q) + 1)
        /\ \A k \in DOMAIN q : r[k] = q[k]
        /\ r[Len(q) + 1] = n
        BY <1>1, Added
  <2>5. n \in Nat /\ worker.prompts < n
        BY <1>1
  <2>. HIDE DEF r, n
  <2>6. \A k \in DOMAIN r : (k \in DOMAIN q /\ r[k] = q[k]) \/ (k = Len(q) + 1 /\ r[k] = n)
        BY <1>1, <2>4
  <2>7. \A k, l \in DOMAIN r : k < l => r[k] < r[l]
    <3>. SUFFICES ASSUME NEW k \in DOMAIN r, NEW l \in DOMAIN r, k < l
                  PROVE  r[k] < r[l]
         OBVIOUS
    <3>1. k \in DOMAIN q /\ r[k] = q[k]
          BY <1>1, <2>4
    <3>2. CASE l \in DOMAIN q /\ r[l] = q[l]
          BY <3>1, <3>2 DEF QueueInv
    <3>3. CASE l = Len(q) + 1 /\ r[l] = n
      <4>1. q[k] <= worker.prompts
            BY <3>1 DEF QueueInv
      <4>. QED
           BY <1>1, <2>5, <3>1, <3>3, <4>1
    <3>. QED
         BY <2>6, <3>2, <3>3
  <2>8. \A k \in DOMAIN r : r[k] <= n
    <3>1. \A k \in DOMAIN q : q[k] <= worker.prompts
          BY DEF QueueInv
    <3>. SUFFICES ASSUME NEW k \in DOMAIN r
                  PROVE  r[k] <= n
         OBVIOUS
    <3>2. CASE k \in DOMAIN q /\ r[k] = q[k]
      <4>1. q[k] <= worker.prompts /\ q[k] \in Nat
            BY <1>1, <3>1, <3>2
      <4>. QED
           BY <1>1, <2>5, <3>2, <4>1
    <3>3. CASE r[k] = n
          BY <2>5, <3>3
    <3>. QED
         BY <2>6, <3>2, <3>3
  <2>9. \A p \in DOMAIN runs : p <= worker.prompts
        BY DEF QueueInv
  <2>10. \A p \in DOMAIN runs, k \in DOMAIN r : p < r[k] \/ (k = 1 /\ p = r[k])
    <3>. SUFFICES ASSUME NEW p \in DOMAIN runs, NEW k \in DOMAIN r
                  PROVE  p < r[k] \/ (k = 1 /\ p = r[k])
         OBVIOUS
    <3>1. CASE k \in DOMAIN q /\ r[k] = q[k]
          BY <3>1 DEF QueueInv
    <3>2. CASE r[k] = n
          BY <1>1, <1>2, <2>5, <2>9, <3>2
    <3>. QED
         BY <2>6, <3>1, <3>2
  <2>11. r # <<>> /\ Head(r) \in DOMAIN runs => comfy.at < Len(SCRIPTS[runs[Head(r)]])
    <3>. SUFFICES ASSUME r # <<>>, Head(r) \in DOMAIN runs
                  PROVE  comfy.at < Len(SCRIPTS[runs[Head(r)]])
         OBVIOUS
    <3>1. Head(r) = r[1] /\ 1 \in DOMAIN r
          BY <2>4, Taken
    <3>2. ~(Head(r) = n)
          BY <1>1, <1>2, <2>5, <2>9
    <3>3. 1 \in DOMAIN q /\ q[1] = Head(r)
          BY <2>6, <3>1, <3>2
    <3>4. q # <<>> /\ Head(q) = Head(r)
          BY <3>3, FirstOnly
    <3>. QED
         BY <3>4 DEF QueueInv
  <2>12. \A p \in DOMAIN runs : p <= n
        BY <1>1, <1>2, <2>5, <2>9
  <2>13. comfy.history \subseteq DOMAIN runs
        BY DEF QueueInv
  <2>. QED
       BY <2>1, <2>2, <2>3, <2>7, <2>8, <2>10, <2>11, <2>12, <2>13 DEF QueueInv
<1>5. CASE ComfyBegin
  <2>. DEFINE h == Head(q)
  <2>1. PICK run \in Runs :
            /\ runs' = [p \in DOMAIN runs \cup {h} |-> IF p \in DOMAIN runs THEN runs[p] ELSE run]
            /\ comfy' = [comfy EXCEPT !.at = 0, !.warm = @ \/ run[2] # "loader"]
        BY <1>5 DEF ComfyBegin
  <2>2. q # <<>> /\ h \notin DOMAIN runs
        BY <1>5 DEF ComfyBegin
  <2>3. h \in Nat /\ h = q[1] /\ 1 \in DOMAIN q
        BY <1>1, <2>2, Taken
  <2>4. comfy'.queue = q /\ comfy'.at = 0 /\ comfy'.history = comfy.history
        BY <1>3, <2>1
  <2>5. DOMAIN runs' = DOMAIN runs \cup {h} /\ runs'[h] = run
        BY <2>1, <2>2
  <2>6. worker' = worker
        BY <1>5 DEF ComfyBegin
  <2>7. 0 < Len(SCRIPTS[run])
        BY ScriptRises
  <2>. HIDE DEF h
  <2>8. \A p \in DOMAIN runs' : p <= worker.prompts
        BY <2>3, <2>5 DEF QueueInv
  <2>9. \A p \in DOMAIN runs', k \in DOMAIN q : p < q[k] \/ (k = 1 /\ p = q[k])
    <3>. SUFFICES ASSUME NEW p \in DOMAIN runs', NEW k \in DOMAIN q
                  PROVE  p < q[k] \/ (k = 1 /\ p = q[k])
         OBVIOUS
    <3>1. CASE p \in DOMAIN runs
          BY <3>1 DEF QueueInv
    <3>2. CASE p = h /\ k = 1
          BY <2>3, <3>2
    <3>3. CASE p = h /\ k # 1
      <4>1. 1 < k
            BY <1>1, <3>3
      <4>2. q[1] < q[k]
            BY <2>3, <4>1 DEF QueueInv
      <4>. QED
           BY <2>3, <3>3, <4>2
    <3>. QED
         BY <2>5, <3>1, <3>2, <3>3
  <2>10. comfy.history \subseteq DOMAIN runs'
        BY <2>5 DEF QueueInv
  <2>11. Head(q) = h
        BY DEF h
  <2>12. /\ \A k, l \in DOMAIN q : k < l => q[k] < q[l]
         /\ \A k \in DOMAIN q : q[k] <= worker.prompts
         BY DEF QueueInv
  <2>. QED
       BY <2>4, <2>5, <2>6, <2>7, <2>8, <2>9, <2>10, <2>11, <2>12 DEF QueueInv
<1>6. CASE ComfySends
  <2>. DEFINE h == Head(q)
              n == Len(SCRIPTS[runs[h]])
  <2>1. q # <<>> /\ h \in DOMAIN runs /\ h \in Nat /\ runs[h] \in Runs
        BY <1>6, Sends DEF ComfySends
  <2>2. comfy' = [comfy EXCEPT !.at = comfy.at + 1,
                      !.queue = IF comfy.at + 1 = n THEN Tail(@) ELSE @,
                      !.history = IF comfy.at + 1 = n THEN @ \cup {h} ELSE @]
        BY <1>6 DEF ComfySends
  <2>3. runs' = runs /\ worker' = worker
        BY <1>6 DEF ComfySends
  <2>4. comfy.at < n /\ n \in Nat
        BY <2>1, ScriptRises DEF QueueInv
  <2>. HIDE DEF n, h
  <2>5. CASE comfy.at + 1 # n
    <3>1. comfy'.queue = q /\ comfy'.at = comfy.at + 1 /\ comfy'.history = comfy.history
          BY <1>3, <2>2, <2>5
    <3>2. comfy.at + 1 < Len(SCRIPTS[runs[Head(q)]])
      <4>1. comfy.at + 1 < n
            BY <1>1, <2>4, <2>5
      <4>. QED
           BY <4>1 DEF n, h
    <3>. QED
         BY <2>3, <3>1, <3>2 DEF QueueInv
  <2>6. CASE comfy.at + 1 = n
    <3>. DEFINE t == Tail(q)
    <3>1. comfy'.queue = t /\ comfy'.at = comfy.at + 1 /\ comfy'.history = comfy.history \cup {h}
          BY <1>3, <2>2, <2>6
    <3>2. /\ t \in Seq(Nat) /\ DOMAIN t = 1..(Len(q) - 1)
          /\ \A k \in DOMAIN t : t[k] = q[k + 1] /\ k + 1 \in DOMAIN q
          BY <1>1, <2>1, Taken
    <3>. HIDE DEF t
    <3>3. \A k, l \in DOMAIN t : k < l => t[k] < t[l]
      <4>. SUFFICES ASSUME NEW k \in DOMAIN t, NEW l \in DOMAIN t, k < l
                    PROVE  t[k] < t[l]
           OBVIOUS
      <4>1. k + 1 < l + 1
            BY <1>1, <3>2
      <4>. QED
           BY <3>2, <4>1 DEF QueueInv
    <3>4. \A k \in DOMAIN t : t[k] <= worker.prompts
          BY <3>2 DEF QueueInv
    <3>5. \A p \in DOMAIN runs, k \in DOMAIN t : p < t[k]
      <4>. SUFFICES ASSUME NEW p \in DOMAIN runs, NEW k \in DOMAIN t
                    PROVE  p < t[k]
           OBVIOUS
      <4>1. k + 1 # 1
            BY <1>1, <3>2
      <4>. QED
           BY <3>2, <4>1 DEF QueueInv
    <3>6. t # <<>> => Head(t) \notin DOMAIN runs
      <4>. SUFFICES ASSUME t # <<>>, Head(t) \in DOMAIN runs
                    PROVE  FALSE
           OBVIOUS
      <4>1. Head(t) = t[1] /\ 1 \in DOMAIN t
            BY <3>2, Taken
      <4>. QED
           BY <1>2, <3>5, <4>1
    <3>7. comfy.history \cup {h} \subseteq DOMAIN runs
          BY <2>1 DEF QueueInv
    <3>8. \A p \in DOMAIN runs : p <= worker.prompts
          BY DEF QueueInv
    <3>. QED
         BY <2>3, <3>1, <3>3, <3>4, <3>5, <3>6, <3>7, <3>8 DEF QueueInv
  <2>. QED
       BY <2>5, <2>6
<1>7. CASE ComfyDies
  <2>1. comfy'.queue = <<>> /\ comfy'.history = {} /\ runs' = runs /\ worker' = worker
        BY <1>3, <1>7 DEF ComfyDies
  <2>2. <<>> \in Seq(Nat) /\ DOMAIN <<>> = {}
        BY EmptySeq
  <2>3. DOMAIN comfy'.queue = {}
        BY <2>1, <2>2
  <2>4. \A p \in DOMAIN runs : p <= worker.prompts
        BY DEF QueueInv
  <2>. QED
       BY <2>1, <2>3, <2>4 DEF QueueInv
<1>8. ASSUME comfy'.queue = q, comfy'.at = comfy.at, comfy'.history = comfy.history,
             worker'.prompts = worker.prompts, runs' = runs
      PROVE  QueueInv'
      BY <1>8 DEF QueueInv
<1>. QED
     BY <1>4, <1>5, <1>6, <1>7, <1>8, QueueStill

-----------------------------------------------------------------------------
(* The events on their way.                                                *)

\* What has begun stays what it is, and what was past stays so.
LEMMA PastKept ==
    ASSUME TypeInv, QueueInv, Next, NEW p \in DOMAIN runs, NEW at \in Nat, Past(p, at)
    PROVE  p \in DOMAIN runs' /\ runs'[p] = runs[p] /\ Past(p, at)'
<1>. DEFINE q == comfy.queue
<1>1. q \in Seq(Nat) /\ DOMAIN q = 1..Len(q) /\ Len(q) \in Nat /\ comfy.at \in Nat
      /\ worker.prompts \in Nat /\ p \in Nat
      BY Fields, LenProperties DEF TypeInv, RunsType
<1>2. DOMAIN comfy = {"process", "up", "queue", "at", "history", "warm"}
      BY DEF TypeInv, Comfys
<1>3. CASE Submit
  <2>1. comfy'.queue = Append(q, worker.prompts + 1) /\ comfy'.at = comfy.at /\ runs' = runs
        BY <1>2, <1>3 DEF Submit
  <2>2. DOMAIN Append(q, worker.prompts + 1) = 1..(Len(q) + 1)
        /\ \A k \in DOMAIN q : Append(q, worker.prompts + 1)[k] = q[k]
        /\ Append(q, worker.prompts + 1)[Len(q) + 1] = worker.prompts + 1
        BY <1>1, Added
  <2>3. p <= worker.prompts
        BY DEF QueueInv
  <2>4. \A k \in DOMAIN comfy'.queue : comfy'.queue[k] = p => k \in DOMAIN q /\ q[k] = p
        BY <1>1, <2>1, <2>2, <2>3
  <2>. QED
       BY <2>1, <2>4 DEF Past
<1>4. CASE ComfyBegin
  <2>1. comfy'.queue = q
        BY <1>2, <1>4 DEF ComfyBegin
  <2>2. p \in DOMAIN runs' /\ runs'[p] = runs[p]
        BY <1>4 DEF ComfyBegin
  <2>3. \A k \in DOMAIN q : q[k] # p
        BY <1>4, FirstOnly DEF ComfyBegin
  <2>. QED
       BY <2>1, <2>2, <2>3 DEF Past
<1>5. CASE ComfySends
  <2>. DEFINE over == comfy.at + 1 = Len(SCRIPTS[runs[Head(q)]])
  <2>1. /\ q # <<>> /\ runs' = runs
        /\ comfy' = [comfy EXCEPT !.at = comfy.at + 1, !.queue = IF over THEN Tail(@) ELSE @,
                       !.history = IF over THEN @ \cup {Head(q)} ELSE @]
        BY <1>5 DEF ComfySends
  <2>2. /\ DOMAIN Tail(q) = 1..(Len(q) - 1)
        /\ \A k \in DOMAIN Tail(q) : Tail(q)[k] = q[k + 1] /\ k + 1 \in DOMAIN q
        BY <1>1, <2>1, Taken
  <2>. HIDE DEF over
  <2>3. comfy'.at = comfy.at + 1 /\ (comfy'.queue = q \/ comfy'.queue = Tail(q))
        BY <1>2, <2>1
  <2>4. \A k \in DOMAIN comfy'.queue : comfy'.queue[k] = p => \E l \in DOMAIN q : q[l] = p
        BY <2>2, <2>3
  <2>5. (\E l \in DOMAIN q : q[l] = p) => at <= comfy.at + 1
        BY <1>1 DEF Past
  <2>. QED
       BY <2>1, <2>3, <2>4, <2>5 DEF Past
<1>6. CASE ComfyDies
  <2>1. comfy'.queue = <<>> /\ runs' = runs
        BY <1>2, <1>6 DEF ComfyDies
  <2>2. <<>> \in Seq(Nat) /\ DOMAIN <<>> = {}
        BY EmptySeq
  <2>3. DOMAIN comfy'.queue = {}
        BY <2>1, <2>2
  <2>. QED
       BY <2>1, <2>3 DEF Past
<1>7. CASE comfy'.queue = q /\ comfy'.at = comfy.at /\ runs' = runs
      BY <1>7 DEF Past
<1>. QED
     BY <1>3, <1>4, <1>5, <1>6, <1>7, QueueStill

\* What was sent stays sent.
LEMMA SentKept ==
    ASSUME TypeInv, QueueInv, Next, NEW e \in Events, Sent(e)
    PROVE  Sent(e)'
<1>1. e.prompt \in DOMAIN runs /\ e.at \in Nat /\ Past(e.prompt, e.at)
      BY SentIs DEF Sent
<1>2. e.prompt \in DOMAIN runs' /\ runs'[e.prompt] = runs[e.prompt] /\ Past(e.prompt, e.at)'
      BY <1>1, PastKept
<1>. QED
     BY <1>2 DEF Sent

\* The socket and what is in hand change with these only.
LEMMA SocketStill ==
    ASSUME TypeInv, Next
    PROVE  \/ Drop \/ Recv \/ ComfySends
           \/ /\ relay'.inbox = relay.inbox
              /\ relay'.pc = "feed" => relay.pc = "feed" /\ relay'.event = relay.event
<1>1. DOMAIN relay = {"pc", "to", "inbox", "event", "drops", "since"}
      BY DEF TypeInv, Relays
<1>2. CASE Connect
      BY <1>1, <1>2 DEF Connect
<1>2a. CASE ConnectFails
      BY <1>1, <1>2a DEF ConnectFails
<1>2b. CASE Invalidate
  <2>1. PICK s : relay' = [relay EXCEPT !.pc = "down", !.since = s]
        BY <1>2b DEF Invalidate
  <2>. QED
       BY <1>1, <2>1
<1>3. CASE Feed
  <2>1. PICK pc \in {"check", "recv"} : relay' = [relay EXCEPT !.pc = pc, !.event = NoEvent]
        BY <1>3 DEF Feed
  <2>. QED
       BY <1>1, <2>1
<1>4. CASE Check
  <2>1. PICK pc \in {"recv", "send"} : relay' = [relay EXCEPT !.pc = pc]
        BY <1>4 DEF Check
  <2>. QED
       BY <1>1, <2>1
<1>5. CASE Send
      BY <1>1, <1>5 DEF Send
<1>6. CASE Thread
      BY <1>6 DEF Thread, Claim, ClearRecorder, Announce, Enter, Submit, Register, Resume, Ready,
                  Ingest, Fails, Leave, SendPayload, ReadEnvironment, KeepEnvironment
<1>7. CASE ComfyBegin \/ ComfyDies \/ ComfyStarts
      BY <1>7 DEF ComfyBegin, ComfyDies, ComfyStarts
<1>. QED
     BY <1>2, <1>2a, <1>2b, <1>3, <1>4, <1>5, <1>6, <1>7 DEF Next, Relay, Comfy

\* The event that ComfyUI sends, if there is a socket to send it to.
LEMMA NewEvent ==
    ASSUME TypeInv, QueueInv, ComfySends
    PROVE  \E e \in Events :
               /\ e.prompt = Head(comfy.queue) /\ e.at = comfy.at + 1 /\ Sent(e)'
               /\ \A p, at : Past(p, at) /\ p = e.prompt /\ at \in Nat => at < e.at
               /\ \/ relay' = relay
                  \/ relay' = [relay EXCEPT !.inbox = Append(@, e)]
<1>. DEFINE p == Head(comfy.queue)
            script == SCRIPTS[runs[p]]
            at == comfy.at + 1
<1>1. comfy.queue # <<>> /\ comfy.queue \in Seq(Nat) /\ comfy.at \in Nat
      BY Fields DEF ComfySends
<1>2. p \in DOMAIN runs /\ p \in Nat /\ at \in DOMAIN script /\ at \in Nat
      BY <1>1, Sends
<1>3. PICK s \in Step : s = script[at]
      BY Sends
<1>4. s.kind \in Kinds /\ s.node \in NODES \cup {""} /\ script[at] = [kind |-> s.kind, node |-> s.node]
  <2>1. s = [kind |-> s.kind, node |-> s.node] /\ s.kind \in Kinds /\ s.node \in NODES \cup {""}
        BY DEF Step
  <2>. QED
       BY <1>3, <2>1
<1>5. PICK e : e = [prompt |-> p, at |-> at, kind |-> s.kind, node |-> s.node]
      OBVIOUS
<1>6. relay' = relay \/ relay' = [relay EXCEPT !.inbox = Append(@, e)]
      BY <1>3, <1>5 DEF ComfySends
<1>7. comfy'.at = at
  <2>1. DOMAIN comfy = {"process", "up", "queue", "at", "history", "warm"}
        BY DEF TypeInv, Comfys
  <2>. QED
       BY <2>1 DEF ComfySends
<1>8. runs' = runs
      BY DEF ComfySends
<1>. HIDE DEF p, at
<1>9. e \in Events /\ e.prompt = p /\ e.at = at /\ e.kind = s.kind /\ e.node = s.node
      BY <1>2, <1>4, <1>5 DEF Events
<1>10. Sent(e)'
  <2>1. at <= comfy'.at
        BY <1>2, <1>7
  <2>. QED
       BY <1>2, <1>4, <1>8, <1>9, <2>1 DEF Sent, Past
<1>11. ASSUME NEW a \in Nat, Past(p, a)
       PROVE  a < at
  <2>1. 1 \in DOMAIN comfy.queue /\ comfy.queue[1] = p
        BY <1>1, Taken DEF p
  <2>2. a <= comfy.at
        BY <1>11, <2>1 DEF Past
  <2>. QED
       BY <1>1, <2>2 DEF at
<1>. QED
     BY <1>6, <1>9, <1>10, <1>11 DEF p, at

\* What is on its way stays in order.
LEMMA SentStep ==
    ASSUME TypeInv, QueueInv, SentInv, Next
    PROVE  SentInv'
<1>. DEFINE q == relay.inbox
<1>1. q \in Seq(Events) /\ relay.event \in Events /\ DOMAIN q = 1..Len(q) /\ Len(q) \in Nat
      /\ \A k \in DOMAIN q : q[k] \in Events
  <2>1. q \in Seq(Events) /\ relay.event \in Events
        BY Fields
  <2>. QED
       BY <2>1, LenProperties, ElementOfSeq
<1>2. DOMAIN relay = {"pc", "to", "inbox", "event", "drops", "since"}
      BY DEF TypeInv, Relays
<1>3. /\ \A k \in DOMAIN q : q[k] \in SentEvents'
      /\ relay.pc = "feed" => relay.event \in SentEvents'
  <2>1. \A e \in Events : Sent(e) => e \in SentEvents'
        BY SentKept DEF SentEvents
  <2>2. \A k \in DOMAIN q : Sent(q[k])
        BY DEF SentInv
  <2>3. relay.pc = "feed" => Sent(relay.event)
        BY DEF SentInv
  <2>. QED
       BY <1>1, <2>1, <2>2, <2>3
<1>4. /\ \A k, l \in DOMAIN q : k < l => Before(q[k], q[l])
      /\ relay.pc = "feed" => \A k \in DOMAIN q : Before(relay.event, q[k])
      BY DEF SentInv
<1>5. ASSUME NEW r, r = relay'.inbox, \A k \in DOMAIN r : r[k] \in SentEvents',
             \A k, l \in DOMAIN r : k < l => Before(r[k], r[l]),
             relay'.pc = "feed" => /\ relay'.event \in SentEvents'
                                   /\ \A k \in DOMAIN r : Before(relay'.event, r[k])
      PROVE  SentInv'
  <2>2. \A k \in DOMAIN relay'.inbox : Sent(relay.inbox[k])'
        BY <1>5 DEF SentEvents
  <2>3. relay'.pc = "feed" => Sent(relay.event)'
        BY <1>5 DEF SentEvents
  <2>. QED
       BY <1>5, <2>2, <2>3 DEF SentInv, Before
<1>6. CASE Drop
  <2>1. relay'.inbox = <<>> /\ relay'.pc = "lost"
        BY <1>2, <1>6 DEF Drop
  <2>2. <<>> \in Seq(Nat) /\ DOMAIN <<>> = {}
        BY EmptySeq
  <2>3. DOMAIN relay'.inbox = {}
        BY <2>1, <2>2
  <2>. QED
       BY <1>5, <2>1, <2>3
<1>7. CASE Recv
  <2>. DEFINE t == Tail(q)
  <2>1. relay'.inbox = t /\ relay'.event = Head(q) /\ q # <<>>
        BY <1>2, <1>7 DEF Recv
  <2>2. /\ Head(q) = q[1] /\ 1 \in DOMAIN q /\ DOMAIN t = 1..(Len(q) - 1)
        /\ \A k \in DOMAIN t : t[k] = q[k + 1] /\ k + 1 \in DOMAIN q
        BY <1>1, <2>1, Taken
  <2>. HIDE DEF t
  <2>3. \A k \in DOMAIN t : t[k] \in SentEvents'
        BY <1>3, <2>2
  <2>4. \A k, l \in DOMAIN t : k < l => Before(t[k], t[l])
    <3>. SUFFICES ASSUME NEW k \in DOMAIN t, NEW l \in DOMAIN t, k < l
                  PROVE  Before(t[k], t[l])
         OBVIOUS
    <3>1. k + 1 < l + 1
          BY <1>1, <2>2
    <3>. QED
         BY <1>4, <2>2, <3>1
  <2>5. \A k \in DOMAIN t : Before(Head(q), t[k])
    <3>. SUFFICES ASSUME NEW k \in DOMAIN t
                  PROVE  Before(Head(q), t[k])
         OBVIOUS
    <3>1. 1 < k + 1
          BY <1>1, <2>2
    <3>. QED
         BY <1>4, <2>2, <3>1
  <2>6. Head(q) \in SentEvents'
        BY <1>3, <2>2
  <2>. QED
       BY <1>5, <2>1, <2>3, <2>4, <2>5, <2>6
<1>8. CASE ComfySends
  <2>1. PICK e \in Events :
            /\ Sent(e)'
            /\ \A p, at : Past(p, at) /\ p = e.prompt /\ at \in Nat => at < e.at
            /\ relay' = relay \/ relay' = [relay EXCEPT !.inbox = Append(@, e)]
        BY <1>8, NewEvent
  <2>2. CASE relay' = relay
        BY <1>3, <1>4, <1>5, <2>2
  <2>3. CASE relay' = [relay EXCEPT !.inbox = Append(@, e)]
    <3>. DEFINE t == Append(q, e)
    <3>1. relay'.inbox = t /\ relay'.pc = relay.pc /\ relay'.event = relay.event
          BY <1>2, <2>3
    <3>2. /\ DOMAIN t = 1..(Len(q) + 1) /\ t[Len(q) + 1] = e
          /\ \A k \in DOMAIN q : t[k] = q[k]
          BY <1>1, Added
    <3>. HIDE DEF t
    <3>3. \A k \in DOMAIN t : (k \in DOMAIN q /\ t[k] = q[k]) \/ (k = Len(q) + 1 /\ t[k] = e)
          BY <1>1, <3>2
    <3>4. e \in SentEvents'
          BY <2>1 DEF SentEvents
    <3>5. \A f \in Events : Sent(f) => Before(f, e)
      <4>. SUFFICES ASSUME NEW f \in Events, Sent(f), f.prompt = e.prompt
                    PROVE  f.at < e.at
           BY DEF Before
      <4>1. Past(f.prompt, f.at) /\ f.at \in Nat
            BY DEF Sent, Events
      <4>. QED
           BY <2>1, <4>1
    <3>6. \A k, l \in DOMAIN t : k < l => Before(t[k], t[l])
      <4>. SUFFICES ASSUME NEW k \in DOMAIN t, NEW l \in DOMAIN t, k < l
                    PROVE  Before(t[k], t[l])
           OBVIOUS
      <4>1. k \in DOMAIN q /\ t[k] = q[k]
            BY <1>1, <3>2, <3>3
      <4>2. CASE l \in DOMAIN q /\ t[l] = q[l]
            BY <1>4, <4>1, <4>2
      <4>3. CASE t[l] = e
        <5>1. q[k] \in Events /\ Sent(q[k])
              BY <1>1, <4>1 DEF SentInv
        <5>. QED
             BY <3>5, <4>1, <4>3, <5>1
      <4>. QED
           BY <3>3, <4>2, <4>3
    <3>7. relay.pc = "feed" => \A k \in DOMAIN t : Before(relay.event, t[k])
      <4>1. relay.pc = "feed" => Before(relay.event, e)
            BY <1>1, <3>5 DEF SentInv
      <4>. QED
           BY <1>4, <3>3, <4>1
    <3>8. \A k \in DOMAIN t : t[k] \in SentEvents'
          BY <1>3, <3>3, <3>4
    <3>. QED
         BY <1>3, <1>5, <3>1, <3>6, <3>7, <3>8
  <2>. QED
       BY <2>1, <2>2, <2>3
<1>9. CASE relay'.inbox = q /\ (relay'.pc = "feed" => relay.pc = "feed" /\ relay'.event = relay.event)
      BY <1>3, <1>4, <1>5, <1>9
<1>. QED
     BY <1>6, <1>7, <1>8, <1>9, SocketStill

-----------------------------------------------------------------------------
(* The order of the events of a prompt.                                    *)

\* Steps of a script come in the order of their ranks.
LEMMA Ahead ==
    ASSUME NEW r \in Runs, NEW k \in DOMAIN SCRIPTS[r], NEW l \in DOMAIN SCRIPTS[r]
    PROVE  /\ k \in Nat /\ l \in Nat
           /\ Rank(SCRIPTS[r][k]) < Rank(SCRIPTS[r][l]) => k < l
           /\ Rank(SCRIPTS[r][k]) = Rank(SCRIPTS[r][l]) => k = l
<1>1. \A i, j \in DOMAIN SCRIPTS[r] : i < j => Rank(SCRIPTS[r][i]) < Rank(SCRIPTS[r][j])
      BY ScriptRises DEF Part, Rises
<1>2. k \in Nat /\ l \in Nat /\ Rank(SCRIPTS[r][k]) \in Nat /\ Rank(SCRIPTS[r][l]) \in Nat
      BY Steps, RankType
<1>. QED
     BY <1>1, <1>2

\* What an event says of when its node, and the one before, began and ended.
LEMMA EventOrder ==
    ASSUME TypeInv, NEW e \in Events, Sent(e)
    PROVE  LET p == e.prompt
               m == e.node
           IN  /\ e.kind = "executing" => e.at \in Started(p, m) /\ \A k \in Started(p, m) : k = e.at
               /\ e.kind = "running" => \E k \in Started(p, m) : k <= e.at
               /\ e.kind \in {"executing", "running"} => \A k \in Ended(p, m) : e.at < k
               /\ e.kind = "finished" => e.at \in Ended(p, m) /\ \A k \in Ended(p, m) : k = e.at
               /\ e.kind = "end" => \A n \in NODES : \A k \in Ended(p, n) : k < e.at
               /\ e.kind = "executing" => \A n \in NODES \ {m} : \A k \in Started(p, n) :
                      k < e.at => \A l \in Ended(p, n) : l < e.at
<1>. DEFINE p == e.prompt
            m == e.node
            s == SCRIPTS[runs[p]]
<1>1. /\ runs[p] \in Runs /\ e.at \in Nat /\ e.kind \in Kinds
      /\ e.kind \notin {"cached", "end"} => m \in NODES
      BY SentIs
<1>2. e.at \in DOMAIN s /\ s[e.at] = [kind |-> e.kind, node |-> m]
      BY DEF Sent
<1>3. ASSUME NEW n, NEW k \in Started(p, n)
      PROVE  k \in DOMAIN s /\ s[k] = [kind |-> "executing", node |-> n]
      BY <1>3 DEF Started, Places
<1>4. ASSUME NEW n, NEW k \in Ended(p, n)
      PROVE  k \in DOMAIN s /\ s[k] = [kind |-> "finished", node |-> n]
      BY <1>4 DEF Ended, Places
<1>5. ASSUME NEW k \in DOMAIN s, NEW l \in DOMAIN s
      PROVE  /\ k \in Nat /\ l \in Nat
             /\ Rank(s[k]) < Rank(s[l]) => k < l
             /\ Rank(s[k]) = Rank(s[l]) => k = l
      BY <1>1, Ahead
<1>. HIDE DEF s, p
<1>6. ASSUME NEW n \in NODES
      PROVE  /\ n = "loader" => /\ Rank([kind |-> "executing", node |-> n]) = 2
                                /\ Rank([kind |-> "finished", node |-> n]) = 3
             /\ n = "sampler" => /\ Rank([kind |-> "executing", node |-> n]) = 4
                                 /\ Rank([kind |-> "running", node |-> n]) = 5
                                 /\ Rank([kind |-> "finished", node |-> n]) = 7
             /\ n \in {"loader", "sampler"}
      BY <1>6, Ranks DEF NODES
<1>7. e.kind = "running" => \E k \in Started(p, m) : k <= e.at
  <2>. SUFFICES ASSUME e.kind = "running"
                PROVE  \E k \in Started(p, m) : k <= e.at
       OBVIOUS
  <2>1. Led(s)
        BY <1>1, ScriptRises DEF Part, s
  <2>2. s[e.at].kind = "running" /\ s[e.at].node = m
        BY <1>2
  <2>3. PICK j \in 1..e.at : s[j] = [kind |-> "executing", node |-> m]
        BY <1>2, <2>1, <2>2 DEF Led
  <2>4. j \in DOMAIN s
    <3>1. DOMAIN s = 1..Len(s) /\ Len(s) \in Nat
          BY <1>1, ScriptRises DEF s
    <3>. QED
         BY <1>1, <1>2, <2>3, <3>1
  <2>5. j \in Started(p, m) /\ j <= e.at
        BY <1>1, <2>3, <2>4 DEF Started, Places, s
  <2>. QED
       BY <2>5
<1>8. e.kind = "executing" => e.at \in Started(p, m) /\ \A k \in Started(p, m) : k = e.at
  <2>. SUFFICES ASSUME e.kind = "executing"
                PROVE  e.at \in Started(p, m) /\ \A k \in Started(p, m) : k = e.at
       OBVIOUS
  <2>1. e.at \in Started(p, m)
        BY <1>2 DEF Started, Places, s
  <2>2. ASSUME NEW k \in Started(p, m)
        PROVE  k = e.at
    <3>1. k \in DOMAIN s /\ s[k] = s[e.at]
          BY <1>2, <1>3
    <3>2. Rank(s[k]) = Rank(s[e.at])
          BY <3>1
    <3>. QED
         BY <1>2, <1>5, <3>1, <3>2
  <2>. QED
       BY <2>1, <2>2
<1>9. e.kind = "finished" => e.at \in Ended(p, m) /\ \A k \in Ended(p, m) : k = e.at
  <2>. SUFFICES ASSUME e.kind = "finished"
                PROVE  e.at \in Ended(p, m) /\ \A k \in Ended(p, m) : k = e.at
       OBVIOUS
  <2>1. e.at \in Ended(p, m)
        BY <1>2 DEF Ended, Places, s
  <2>2. ASSUME NEW k \in Ended(p, m)
        PROVE  k = e.at
    <3>1. k \in DOMAIN s /\ s[k] = s[e.at]
          BY <1>2, <1>4
    <3>2. Rank(s[k]) = Rank(s[e.at])
          BY <3>1
    <3>. QED
         BY <1>2, <1>5, <3>1, <3>2
  <2>. QED
       BY <2>1, <2>2
<1>10. e.kind \in {"executing", "running"} => \A k \in Ended(p, m) : e.at < k
  <2>. SUFFICES ASSUME e.kind \in {"executing", "running"}, NEW k \in Ended(p, m)
                PROVE  e.at < k
       OBVIOUS
  <2>1. k \in DOMAIN s /\ s[k] = [kind |-> "finished", node |-> m]
        BY <1>4
  <2>2. m \in NODES /\ Owned(s[e.at], runs[p][1])
        BY <1>1, <1>2, ScriptRises DEF Part, s
  <2>3. Rank(s[e.at]) < Rank(s[k])
    <3>1. CASE m = "sampler"
      <4>1. Rank(s[k]) = 7
        <5>1. s[k] = [kind |-> "finished", node |-> "sampler"]
              BY <2>1, <3>1
        <5>. QED
             BY <5>1, Ranks
      <4>2. Rank(s[e.at]) \in {4, 5}
        <5>1. s[e.at] = [kind |-> "executing", node |-> "sampler"]
                  \/ s[e.at] = [kind |-> "running", node |-> "sampler"]
              BY <1>2, <3>1
        <5>. QED
             BY <5>1, Ranks
      <4>. QED
           BY <4>1, <4>2
    <3>2. CASE m = "loader" /\ e.kind = "executing"
      <4>1. s[k] = [kind |-> "finished", node |-> "loader"]
            /\ s[e.at] = [kind |-> "executing", node |-> "loader"]
            BY <1>2, <2>1, <3>2
      <4>2. Rank(s[k]) = 3 /\ Rank(s[e.at]) = 2
            BY <4>1, Ranks
      <4>. QED
           BY <4>2
    <3>3. CASE m = "loader" /\ e.kind = "running"
          BY <1>2, <2>2, <3>3 DEF Owned
    <3>. QED
         BY <1>6, <2>2, <3>1, <3>2, <3>3
  <2>. QED
       BY <1>2, <1>5, <2>1, <2>3
<1>11. e.kind = "end" => \A n \in NODES : \A k \in Ended(p, n) : k < e.at
  <2>. SUFFICES ASSUME e.kind = "end", NEW n \in NODES, NEW k \in Ended(p, n)
                PROVE  k < e.at
       OBVIOUS
  <2>1. k \in DOMAIN s /\ s[k] = [kind |-> "finished", node |-> n]
        BY <1>4
  <2>2. Rank(s[e.at]) = 8
        BY <1>2 DEF Rank
  <2>3. Rank(s[k]) < 8
    <3>1. CASE n = "sampler"
      <4>1. s[k] = [kind |-> "finished", node |-> "sampler"]
            BY <2>1, <3>1
      <4>2. Rank(s[k]) = 7
            BY <4>1, Ranks
      <4>. QED
           BY <4>2
    <3>2. CASE n = "loader"
      <4>1. s[k] = [kind |-> "finished", node |-> "loader"]
            BY <2>1, <3>2
      <4>2. Rank(s[k]) = 3
            BY <4>1, Ranks
      <4>. QED
           BY <4>2
    <3>. QED
         BY <1>6, <3>1, <3>2
  <2>. QED
       BY <1>2, <1>5, <2>1, <2>2, <2>3
<1>12. e.kind = "executing" => \A n \in NODES \ {m} : \A k \in Started(p, n) :
           k < e.at => \A l \in Ended(p, n) : l < e.at
  <2>. SUFFICES ASSUME e.kind = "executing", NEW n \in NODES \ {m}, NEW k \in Started(p, n), k < e.at,
                       NEW l \in Ended(p, n)
                PROVE  l < e.at
       OBVIOUS
  <2>1. /\ k \in DOMAIN s /\ s[k] = [kind |-> "executing", node |-> n]
        /\ l \in DOMAIN s /\ s[l] = [kind |-> "finished", node |-> n]
        BY <1>3, <1>4
  <2>2. m \in NODES
        BY <1>1
  <2>3. CASE m = "sampler" /\ n = "loader"
    <3>1. Rank(s[l]) = 3 /\ Rank(s[e.at]) = 4
          BY <1>2, <1>6, <2>1, <2>2, <2>3
    <3>. QED
         BY <1>2, <1>5, <2>1, <3>1
  <2>4. CASE m = "loader" /\ n = "sampler"
    <3>1. Rank(s[k]) = 4 /\ Rank(s[e.at]) = 2
          BY <1>2, <1>6, <2>1, <2>2, <2>4
    <3>2. e.at < k /\ k \in Nat
          BY <1>2, <1>5, <2>1, <3>1
    <3>. QED
         BY <1>1, <3>2
  <2>. QED
       BY <1>6, <2>2, <2>3, <2>4
<1>. QED
     BY <1>7, <1>8, <1>9, <1>10, <1>11, <1>12 DEF p

-----------------------------------------------------------------------------
(* What was heard.                                                         *)

\* What is older than what is to come stays so.
LEMMA OldKept ==
    ASSUME TypeInv, QueueInv, SentInv, Next, NEW p \in DOMAIN runs, NEW t \in Nat, Old(p, t)
    PROVE  Old(p, t)'
<1>. DEFINE q == relay.inbox
<1>1. q \in Seq(Events) /\ relay.event \in Events /\ DOMAIN q = 1..Len(q) /\ Len(q) \in Nat
      BY Fields, LenProperties
<1>2. DOMAIN relay = {"pc", "to", "inbox", "event", "drops", "since"}
      BY DEF TypeInv, Relays
<1>3. Past(p, t)'
      BY PastKept DEF Old
<1>4. /\ \A k \in DOMAIN q : q[k].prompt = p => t < q[k].at
      /\ relay.pc = "feed" /\ relay.event.prompt = p => t < relay.event.at
      BY DEF Old
<1>5. CASE Drop
  <2>1. relay'.inbox = <<>> /\ relay'.pc = "lost"
        BY <1>2, <1>5 DEF Drop
  <2>2. <<>> \in Seq(Nat) /\ DOMAIN <<>> = {}
        BY EmptySeq
  <2>3. DOMAIN relay'.inbox = {}
        BY <2>1, <2>2
  <2>. QED
       BY <1>3, <2>1, <2>3 DEF Old
<1>6. CASE Recv
  <2>1. relay'.inbox = Tail(q) /\ relay'.event = Head(q) /\ q # <<>>
        BY <1>2, <1>6 DEF Recv
  <2>2. /\ Head(q) = q[1] /\ 1 \in DOMAIN q /\ DOMAIN Tail(q) = 1..(Len(q) - 1)
        /\ \A k \in DOMAIN Tail(q) : Tail(q)[k] = q[k + 1] /\ k + 1 \in DOMAIN q
        BY <1>1, <2>1, Taken
  <2>. QED
       BY <1>3, <1>4, <2>1, <2>2 DEF Old
<1>7. CASE ComfySends
  <2>1. PICK e \in Events :
            /\ \A x, at : Past(x, at) /\ x = e.prompt /\ at \in Nat => at < e.at
            /\ relay' = relay \/ relay' = [relay EXCEPT !.inbox = Append(@, e)]
        BY <1>7, NewEvent
  <2>2. CASE relay' = relay
        BY <1>3, <1>4, <2>2 DEF Old
  <2>3. CASE relay' = [relay EXCEPT !.inbox = Append(@, e)]
    <3>. DEFINE r == Append(q, e)
    <3>1. relay'.inbox = r /\ relay'.pc = relay.pc /\ relay'.event = relay.event
          BY <1>2, <2>3
    <3>2. /\ DOMAIN r = 1..(Len(q) + 1) /\ r[Len(q) + 1] = e
          /\ \A k \in DOMAIN q : r[k] = q[k]
          BY <1>1, Added
    <3>3. e.prompt = p => t < e.at
          BY <2>1 DEF Old
    <3>. HIDE DEF r
    <3>4. \A k \in DOMAIN r : r[k].prompt = p => t < r[k].at
      <4>1. \A k \in DOMAIN r : (k \in DOMAIN q /\ r[k] = q[k]) \/ r[k] = e
            BY <1>1, <3>2
      <4>. QED
           BY <1>4, <3>3, <4>1
    <3>. QED
         BY <1>3, <1>4, <3>1, <3>4 DEF Old
  <2>. QED
       BY <2>1, <2>2, <2>3
<1>8. CASE relay'.inbox = q /\ (relay'.pc = "feed" => relay.pc = "feed" /\ relay'.event = relay.event)
      BY <1>3, <1>4, <1>8 DEF Old
<1>. QED
     BY <1>5, <1>6, <1>7, <1>8, SocketStill

\* What was heard of a prompt stays true of it.
LEMMA HearingKept ==
    ASSUME TypeInv, QueueInv, SentInv, Next, NEW p \in DOMAIN runs, NEW h \in Hearings,
           HearingInv(p, h)
    PROVE  p \in DOMAIN runs' /\ HearingInv(p, h)'
<1>1. p \in DOMAIN runs' /\ runs'[p] = runs[p]
  <2>1. Past(p, 0)
    <3>1. comfy.at \in Nat
          BY Fields
    <3>. QED
         BY <3>1 DEF Past
  <2>. QED
       BY <2>1, PastKept
<1>2. ASSUME NEW n
      PROVE  Started(p, n)' = Started(p, n) /\ Ended(p, n)' = Ended(p, n)
      BY <1>1 DEF Started, Ended, Places
<1>3. ASSUME NEW n \in NODES
      PROVE  HeardNode(p, n, h.nodes[n])' /\ Old(p, h.nodes[n].started)' /\ Old(p, h.nodes[n].ended)'
  <2>1. h.nodes[n].started \in Nat /\ h.nodes[n].ended \in Nat
        BY DEF Hearings, Times
  <2>2. HeardNode(p, n, h.nodes[n]) /\ Old(p, h.nodes[n].started) /\ Old(p, h.nodes[n].ended)
        BY DEF HearingInv
  <2>3. HeardNode(p, n, h.nodes[n])'
        BY <1>1, <1>2, <2>2 DEF HeardNode
  <2>. QED
       BY <2>1, <2>2, <2>3, OldKept
<1>4. h.cached \in {{}, runs'[p][1]}
      BY <1>1 DEF HearingInv
<1>5. h.current # "" => h.nodes[h.current].started # 0
      BY DEF HearingInv
<1>. QED
     BY <1>1, <1>3, <1>4, <1>5 DEF HearingInv

\* So it is of the event in hand, of whose prompt nothing may have been heard.
LEMMA HeardSoFar ==
    ASSUME TypeInv, SentInv, HeardInv, relay.pc = "feed"
    PROVE  HearingInv(relay.event.prompt, Heard(relay.event.prompt))
<1>. DEFINE p == relay.event.prompt
<1>1. CASE p \in DOMAIN recorder
      BY <1>1 DEF HeardInv, Heard
<1>2. CASE p \notin DOMAIN recorder
  <2>1. Heard(p) = NoPrompt
        BY <1>2 DEF Heard
  <2>2. NoPrompt.cached = {} /\ NoPrompt.current = "" /\ \A n \in NODES : NoPrompt.nodes[n] = Unheard
        BY DEF NoPrompt
  <2>3. Unheard.started = 0 /\ Unheard.ended = 0
        BY DEF Unheard
  <2>4. \A n \in NODES : HeardNode(p, n, Unheard)
        BY <2>3 DEF HeardNode
  <2>5. Old(p, 0)
    <3>1. comfy.at \in Nat /\ relay.inbox \in Seq(Events) /\ relay.event \in Events
          BY Fields
    <3>2. \A k \in DOMAIN relay.inbox : relay.inbox[k] \in Events /\ Sent(relay.inbox[k])
          BY <3>1, ElementOfSeq, LenProperties DEF SentInv
    <3>3. \A k \in DOMAIN relay.inbox : 0 < relay.inbox[k].at
      <4>1. \A e \in Events : Sent(e) => e.at \in Nat \ {0}
            BY SentIs
      <4>. QED
           BY <3>2, <4>1
    <3>4. 0 < relay.event.at
          BY <3>1, SentIs DEF SentInv
    <3>. QED
         BY <3>1, <3>3, <3>4 DEF Old, Past
  <2>. QED
       BY <2>1, <2>2, <2>3, <2>4, <2>5 DEF HearingInv
<1>. QED
     BY <1>1, <1>2

\* Closing the node that was executing tells a time it had ended by.
LEMMA ClosedNode ==
    ASSUME TypeInv, NEW e \in Events, Sent(e), NEW h \in Hearings, NEW n \in NODES,
           HearingInv(e.prompt, h), h.nodes[n].started < e.at,
           e.kind = "end" \/ (e.kind = "executing" /\ n # e.node)
    PROVE  LET t == Closed(h, e.at).nodes[n]
           IN  /\ HeardNode(e.prompt, n, t)
               /\ t.started = h.nodes[n].started /\ t.ended \in {h.nodes[n].ended, e.at}
<1>. DEFINE p == e.prompt
<1>1. e.at \in Nat /\ h.nodes[n] \in Times
      BY DEF Events, Hearings
<1>2. HeardNode(p, n, h.nodes[n])
      BY DEF HearingInv
<1>3. CASE Closed(h, e.at).nodes[n] = h.nodes[n]
      BY <1>2, <1>3
<1>4. CASE /\ n = h.current /\ Closed(h, e.at).nodes[n].started = h.nodes[n].started
           /\ Closed(h, e.at).nodes[n].ended = e.at
  <2>1. PICK t : t = Closed(h, e.at).nodes[n]
        OBVIOUS
  <2>2. t.started = h.nodes[n].started /\ t.ended = e.at
        BY <1>4, <2>1
  <2>3. h.nodes[n].started # 0
        BY <1>4 DEF HearingInv, NODES
  <2>4. PICK k \in Started(p, n) : k <= h.nodes[n].started
        BY <1>2, <2>3 DEF HeardNode
  <2>5. k \in Nat
    <3>1. k \in DOMAIN SCRIPTS[runs[p]] /\ runs[p] \in Runs
          BY SentIs DEF Started, Places
    <3>. QED
         BY <3>1, Steps
  <2>6. k < e.at /\ h.nodes[n].started \in Nat
        BY <1>1, <2>4, <2>5 DEF Times
  <2>7. \A l \in Ended(p, n) : l < e.at
    <3>1. CASE e.kind = "end"
          BY <3>1, EventOrder
    <3>2. CASE e.kind = "executing" /\ n # e.node
          BY <2>4, <2>6, <3>2, EventOrder
    <3>. QED
         BY <3>1, <3>2
  <2>8. \A l \in Ended(p, n) : l <= e.at
    <3>1. \A l \in Ended(p, n) : l \in Nat
      <4>1. runs[p] \in Runs /\ \A l \in Ended(p, n) : l \in DOMAIN SCRIPTS[runs[p]]
            BY SentIs DEF Ended, Places
      <4>. QED
           BY <4>1, Steps
    <3>. QED
         BY <1>1, <2>7, <3>1
  <2>9. n \notin runs[p][1]
    <3>1. h.nodes[n] # Unheard
          BY <2>3 DEF Unheard
    <3>. QED
         BY <1>2, <3>1 DEF HeardNode
  <2>10. HeardNode(p, n, t)
    <3>1. \E l \in Started(p, n) : l <= t.started
          BY <2>2, <2>4
    <3>2. t.started <= t.ended /\ \A l \in Ended(p, n) : l <= t.ended
          BY <1>1, <2>2, <2>6, <2>8
    <3>3. t.started # 0
          BY <2>2, <2>3
    <3>. HIDE DEF p
    <3>. QED
         BY <2>9, <3>1, <3>2, <3>3 DEF HeardNode
  <2>. QED
       BY <1>4, <2>1, <2>2, <2>10
<1>5. \/ Closed(h, e.at).nodes[n] = h.nodes[n]
      \/ /\ n = h.current /\ Closed(h, e.at).nodes[n].started = h.nodes[n].started
         /\ Closed(h, e.at).nodes[n].ended = e.at
      BY ClosedNodes
<1>. QED
     BY <1>3, <1>4, <1>5

\* A node that is told running from `at` on, and one that is told finished.
LEMMA StartedNode ==
    ASSUME TypeInv, NEW e \in Events, Sent(e), e.kind \in {"executing", "running"},
           NEW t \in Times, NEW u \in Times, HeardNode(e.prompt, e.node, t), t.ended < e.at,
           u.ended = t.ended, u.started = t.started \/ (t.started = 0 /\ u.started = e.at)
    PROVE  HeardNode(e.prompt, e.node, u)
<1>. DEFINE p == e.prompt
            n == e.node
<1>1. /\ e.at \in Nat \ {0} /\ t.started \in Nat /\ t.ended \in Nat /\ n \notin runs[p][1]
      BY SentIs DEF Times
<1>2. CASE u.started = t.started
      BY <1>1, <1>2 DEF HeardNode
<1>3. CASE t.started = 0 /\ u.started = e.at
  <2>1. \E k \in Started(p, n) : k <= e.at
    <3>1. CASE e.kind = "executing"
      <4>1. e.at \in Started(p, n)
            BY <3>1, EventOrder
      <4>. QED
           BY <1>1, <4>1
    <3>2. CASE e.kind = "running"
          BY <3>2, EventOrder
    <3>. QED
         BY <3>1, <3>2
  <2>2. t.ended = 0
    <3>. SUFFICES ASSUME t.ended # 0
                  PROVE  FALSE
         OBVIOUS
    <3>1. PICK k \in Ended(p, n) : k <= t.ended
          BY <1>3 DEF HeardNode
    <3>2. e.at < k
          BY EventOrder
    <3>3. k \in Nat
      <4>1. runs[p] \in Runs /\ k \in DOMAIN SCRIPTS[runs[p]]
            BY SentIs DEF Ended, Places
      <4>. QED
           BY <4>1, Steps
    <3>. QED
         BY <1>1, <3>1, <3>2, <3>3
  <2>. QED
       BY <1>1, <1>3, <2>1, <2>2 DEF HeardNode
<1>. QED
     BY <1>2, <1>3
LEMMA EndedNode ==
    ASSUME TypeInv, NEW e \in Events, Sent(e), e.kind = "finished",
           NEW t \in Times, NEW u \in Times, HeardNode(e.prompt, e.node, t), t.started < e.at,
           u.started = t.started, u.ended = t.ended \/ u.ended = e.at
    PROVE  HeardNode(e.prompt, e.node, u)
<1>. DEFINE p == e.prompt
            n == e.node
<1>1. /\ e.at \in Nat \ {0} /\ t.started \in Nat /\ t.ended \in Nat /\ n \notin runs[p][1]
      BY SentIs DEF Times
<1>2. CASE u.ended = t.ended
      BY <1>1, <1>2 DEF HeardNode
<1>3. CASE u.ended = e.at
  <2>1. e.at \in Ended(p, n) /\ \A k \in Ended(p, n) : k = e.at
        BY EventOrder
  <2>. QED
       BY <1>1, <1>3, <2>1 DEF HeardNode
<1>. QED
     BY <1>2, <1>3
LEMMA SteppedNode ==
    ASSUME TypeInv, NEW e \in Events, Sent(e), e.kind = "progress",
           NEW t \in Times, NEW u \in Times, HeardNode(e.prompt, e.node, t),
           u.started = t.started, u.ended = t.ended
    PROVE  HeardNode(e.prompt, e.node, u)
<1>1. e.node \notin runs[e.prompt][1]
      BY SentIs
<1>. QED
     BY <1>1 DEF HeardNode

\* What the event in hand adds is true of its prompt, and no younger than it.
LEMMA FedTrue ==
    ASSUME TypeInv, SentInv, HeardInv, relay.pc = "feed",
           NEW e \in Events, e = relay.event, NEW h \in Hearings, h = Heard(e.prompt)
    PROVE  /\ Fed(h, e).cached \in {{}, runs[e.prompt][1]}
           /\ Fed(h, e).current # "" => Fed(h, e).nodes[Fed(h, e).current].started # 0
           /\ \A n \in NODES : /\ HeardNode(e.prompt, n, Fed(h, e).nodes[n])
                               /\ Fed(h, e).nodes[n].started \in {h.nodes[n].started, e.at}
                               /\ Fed(h, e).nodes[n].ended \in {h.nodes[n].ended, e.at}
<1>. DEFINE p == e.prompt
            m == e.node
            f == Fed(h, e)
<1>1. Sent(e) /\ HearingInv(p, h)
      BY HeardSoFar DEF SentInv
<1>2. /\ e.at \in Nat \ {0} /\ e.kind \in Kinds /\ runs[p][1] \in SUBSET NODES
      /\ e.kind \notin {"cached", "end"} => m \in NODES
      BY <1>1, SentIs
<1>3. ASSUME NEW n \in NODES
      PROVE  /\ h.nodes[n] \in Times /\ HeardNode(p, n, h.nodes[n])
             /\ h.nodes[n].started < e.at /\ h.nodes[n].ended < e.at
             /\ h.nodes[n].started \in Nat /\ h.nodes[n].ended \in Nat
  <2>1. HeardNode(p, n, h.nodes[n]) /\ Old(p, h.nodes[n].started) /\ Old(p, h.nodes[n].ended)
        BY <1>1 DEF HearingInv
  <2>2. h.nodes[n].started < e.at /\ h.nodes[n].ended < e.at
        BY <2>1 DEF Old
  <2>3. h.nodes[n] \in Times
        BY DEF Hearings
  <2>. QED
       BY <2>1, <2>2, <2>3 DEF Times
<1>4. h.cached \in {{}, runs[p][1]} /\ (h.current # "" => h.nodes[h.current].started # 0)
      /\ h.current \in NODES \cup {""}
      BY <1>1 DEF HearingInv, Hearings
<1>5. CASE e.kind = "cached"
  <2>1. f.cached = runs[p][1] /\ f.current = h.current /\ f.nodes = h.nodes
        BY <1>2, <1>5, FedEdge
  <2>. QED
       BY <1>3, <1>4, <2>1
<1>6. CASE e.kind = "end"
  <2>1. f = Closed(h, e.at)
        BY <1>2, <1>6, FedEdge
  <2>2. f.cached = h.cached /\ f.current = ""
    <3>1. Closed(h, e.at).current = "" /\ Closed(h, e.at).cached = h.cached
      <4>1. e.at \in Nat
            BY <1>2
      <4>. QED
           BY <4>1, ClosedIs
    <3>. QED
         BY <2>1, <3>1
  <2>3. ASSUME NEW n \in NODES
        PROVE  /\ HeardNode(p, n, f.nodes[n])
               /\ f.nodes[n].started = h.nodes[n].started
               /\ f.nodes[n].ended \in {h.nodes[n].ended, e.at}
        BY <1>1, <1>3, <1>6, <2>1, ClosedNode
  <2>. QED
       BY <1>4, <2>2, <2>3
<1>7. CASE e.kind = "executing"
  <2>. DEFINE c == Closed(h, e.at)
  <2>1. m \in NODES
        BY <1>2, <1>7
  <2>2. /\ f.current = m /\ f.cached = h.cached
        /\ \A n \in NODES \ {m} : f.nodes[n] = c.nodes[n]
        BY <1>7, <2>1, FedExecuting
  <2>3. PICK u \in Times : /\ f.nodes[m] = u /\ u.ended = c.nodes[m].ended
                           /\ LET was == c.nodes[m].started
                              IN  u.started = IF was = 0 THEN e.at ELSE was
        BY <1>7, <2>1, FedExecuting
  <2>4. c.nodes[m] = h.nodes[m]
    <3>1. m # h.current
      <4>. SUFFICES ASSUME m = h.current
                    PROVE  FALSE
           OBVIOUS
      <4>1. h.nodes[m].started # 0
            BY <1>4, <2>1 DEF NODES
      <4>2. PICK k \in Started(p, m) : k <= h.nodes[m].started
            BY <1>3, <2>1, <4>1 DEF HeardNode
      <4>3. k = e.at
            BY <1>1, <1>7, EventOrder
      <4>. QED
           BY <1>2, <1>3, <2>1, <4>2, <4>3
    <3>. QED
         BY <2>1, <3>1, ClosedNodes
  <2>5. u.ended = h.nodes[m].ended
        /\ (u.started = h.nodes[m].started \/ (h.nodes[m].started = 0 /\ u.started = e.at))
        /\ u.started # 0
        BY <1>2, <2>3, <2>4
  <2>6. HeardNode(p, m, u)
        BY <1>1, <1>3, <1>7, <2>1, <2>5, StartedNode
  <2>7. ASSUME NEW n \in NODES \ {m}
        PROVE  /\ HeardNode(p, n, f.nodes[n])
               /\ f.nodes[n].started = h.nodes[n].started
               /\ f.nodes[n].ended \in {h.nodes[n].ended, e.at}
        BY <1>1, <1>3, <1>7, <2>2, ClosedNode
  <2>8. f.nodes[m] = u
        BY <2>3
  <2>. HIDE DEF f, m, p
  <2>9. f.current # "" => f.nodes[f.current].started # 0
        BY <2>2, <2>5, <2>8
  <2>10. ASSUME NEW n \in NODES
         PROVE  /\ HeardNode(p, n, f.nodes[n])
                /\ f.nodes[n].started \in {h.nodes[n].started, e.at}
                /\ f.nodes[n].ended \in {h.nodes[n].ended, e.at}
    <3>1. CASE n = m
          BY <2>5, <2>6, <2>8, <3>1
    <3>2. CASE n # m
          BY <2>7, <3>2
    <3>. QED
         BY <3>1, <3>2
  <2>. QED
       BY <1>4, <2>2, <2>9, <2>10 DEF f, p
<1>8. CASE e.kind \in {"running", "finished", "progress"}
  <2>1. m \in NODES
        BY <1>2, <1>8
  <2>2. /\ f.current = h.current /\ f.cached = h.cached
        /\ \A n \in NODES \ {m} : f.nodes[n] = h.nodes[n]
        BY <1>8, <2>1, FedNode
  <2>. DEFINE t == h.nodes[m]
  <2>3. PICK u \in Times :
            /\ f.nodes[m] = u
            /\ \/ u.started = t.started
               \/ e.kind = "running" /\ t.started = 0 /\ u.started = e.at
            /\ u.ended = t.ended \/ (e.kind = "finished" /\ u.ended = e.at)
        BY <1>8, <2>1, FedNode
  <2>4. t \in Times /\ HeardNode(p, m, t) /\ t.started < e.at /\ t.ended < e.at
        BY <1>3, <2>1
  <2>. HIDE DEF t
  <2>5. HeardNode(p, m, u)
    <3>1. CASE e.kind = "running"
          BY <1>1, <2>3, <2>4, <3>1, StartedNode
    <3>2. CASE e.kind = "finished"
          BY <1>1, <2>3, <2>4, <3>2, EndedNode
    <3>3. CASE e.kind = "progress"
          BY <1>1, <2>3, <2>4, <3>3, SteppedNode
    <3>. QED
         BY <1>8, <3>1, <3>2, <3>3
  <2>6. u.started \in {t.started, e.at} /\ u.ended \in {t.ended, e.at}
        BY <2>3
  <2>7. f.nodes[m] = u /\ t = h.nodes[m]
        BY <2>3 DEF t
  <2>8. u.started = t.started \/ u.started # 0
        BY <1>2, <2>3
  <2>. HIDE DEF f, m, p
  <2>9. f.current # "" => f.nodes[f.current].started # 0
    <3>. SUFFICES ASSUME f.current # ""
                  PROVE  f.nodes[f.current].started # 0
         OBVIOUS
    <3>1. f.current = h.current /\ h.nodes[h.current].started # 0 /\ h.current \in NODES
          BY <1>4, <2>2
    <3>2. CASE h.current = m
          BY <2>7, <2>8, <3>1, <3>2
    <3>3. CASE h.current # m
          BY <2>2, <3>1, <3>3
    <3>. QED
         BY <3>2, <3>3
  <2>10. ASSUME NEW n \in NODES
         PROVE  /\ HeardNode(p, n, f.nodes[n])
                /\ f.nodes[n].started \in {h.nodes[n].started, e.at}
                /\ f.nodes[n].ended \in {h.nodes[n].ended, e.at}
    <3>1. CASE n = m
          BY <2>5, <2>6, <2>7, <3>1
    <3>2. CASE n # m
      <4>1. f.nodes[n] = h.nodes[n]
            BY <2>2, <3>2
      <4>2. HeardNode(p, n, h.nodes[n])
            BY <1>3 DEF p
      <4>. QED
           BY <4>1, <4>2
    <3>. QED
         BY <3>1, <3>2
  <2>. QED
       BY <1>4, <2>2, <2>9, <2>10 DEF f, p
<1>. QED
     BY <1>2, <1>5, <1>6, <1>7, <1>8 DEF Kinds

\* The hearings that are true of a prompt.
TrueOf(p) == {h \in Hearings : p \in DOMAIN runs /\ HearingInv(p, h)}

\* What was heard is true after every step.
LEMMA HeardStep ==
    ASSUME TypeInv, QueueInv, SentInv, HeardInv, Next
    PROVE  HeardInv'
<1>1. ASSUME NEW p \in DOMAIN recorder
      PROVE  recorder[p] \in TrueOf(p)'
  <2>1. p \in DOMAIN runs /\ HearingInv(p, recorder[p]) /\ recorder[p] \in Hearings
        BY DEF HeardInv, TypeInv, RecorderType
  <2>2. PICK h \in Hearings : h = recorder[p] /\ HearingInv(p, h)
        BY <2>1
  <2>3. h \in TrueOf(p)'
        BY <2>1, <2>2, HearingKept DEF TrueOf
  <2>. QED
       BY <2>2, <2>3
<1>2. ASSUME \A p \in DOMAIN recorder' : recorder'[p] \in TrueOf(p)'
      PROVE  HeardInv'
      BY <1>2 DEF HeardInv, TrueOf
<1>3. CASE recorder' = recorder
      BY <1>1, <1>2, <1>3
<1>4. CASE ClearRecorder
  <2>1. recorder' = <<>>
        BY <1>4 DEF ClearRecorder
  <2>2. <<>> \in Seq(Nat) /\ DOMAIN <<>> = {}
        BY EmptySeq
  <2>3. DOMAIN recorder' = {}
        BY <2>1, <2>2
  <2>. QED
       BY <1>2, <2>3
<1>5. CASE Feed
  <2>1. PICK e \in Events : e = relay.event
        BY Fields
  <2>2. PICK h \in Hearings : h = Heard(e.prompt)
        BY HeardType
  <2>3. relay.pc = "feed"
        BY <1>5 DEF Feed
  <2>4. PICK f : f = Fed(h, e)
        OBVIOUS
  <2>5. recorder' = [p \in DOMAIN recorder \cup {e.prompt} |-> IF p = e.prompt THEN f ELSE recorder[p]]
        BY <1>5, <2>1, <2>2, <2>4 DEF Feed
  <2>6. Sent(e)
        BY <2>1, <2>3 DEF SentInv
  <2>7. f \in Hearings
        BY <2>4, <2>6, FedType
  <2>8. /\ f.cached \in {{}, runs[e.prompt][1]}
        /\ f.current # "" => f.nodes[f.current].started # 0
        /\ \A n \in NODES : /\ HeardNode(e.prompt, n, f.nodes[n])
                            /\ f.nodes[n].started \in {h.nodes[n].started, e.at}
                            /\ f.nodes[n].ended \in {h.nodes[n].ended, e.at}
        BY <2>1, <2>2, <2>3, <2>4, FedTrue
  <2>9. HearingInv(e.prompt, h)
        BY <2>1, <2>2, <2>3, HeardSoFar
  <2>10. e.prompt \in DOMAIN runs /\ runs' = runs /\ e.at \in Nat
         BY <1>5, <2>6, SentIs DEF Feed
  <2>11. PICK pc \in {"check", "recv"} : relay' = [relay EXCEPT !.pc = pc, !.event = NoEvent]
         BY <1>5 DEF Feed
  <2>12. relay'.inbox = relay.inbox /\ relay'.pc # "feed" /\ comfy' = comfy
    <3>1. DOMAIN relay = {"pc", "to", "inbox", "event", "drops", "since"}
          BY DEF TypeInv, Relays
    <3>2. comfy' = comfy
          BY <1>5 DEF Feed
    <3>. QED
         BY <2>11, <3>1, <3>2
  <2>13. ASSUME NEW t \in Nat, Old(e.prompt, t)
         PROVE  Old(e.prompt, t)'
         BY <2>12, <2>13 DEF Old, Past
  <2>14. Old(e.prompt, e.at)'
    <3>1. Past(e.prompt, e.at)
          BY <2>6 DEF Sent
    <3>2. \A k \in DOMAIN relay.inbox : relay.inbox[k].prompt = e.prompt => e.at < relay.inbox[k].at
          BY <2>1, <2>3 DEF SentInv, Before
    <3>. QED
         BY <2>12, <3>1, <3>2 DEF Old, Past
  <2>15. ASSUME NEW n \in NODES
         PROVE  Old(e.prompt, f.nodes[n].started)' /\ Old(e.prompt, f.nodes[n].ended)'
    <3>1. h.nodes[n].started \in Nat /\ h.nodes[n].ended \in Nat
          BY DEF Hearings, Times
    <3>2. Old(e.prompt, h.nodes[n].started) /\ Old(e.prompt, h.nodes[n].ended)
          BY <2>9 DEF HearingInv
    <3>3. Old(e.prompt, h.nodes[n].started)' /\ Old(e.prompt, h.nodes[n].ended)'
          BY <2>13, <3>1, <3>2
    <3>4. f.nodes[n].started \in {h.nodes[n].started, e.at} /\ f.nodes[n].ended \in {h.nodes[n].ended, e.at}
          BY <2>8
    <3>. QED
         BY <2>14, <3>3, <3>4
  <2>16. ASSUME NEW n \in NODES
         PROVE  HeardNode(e.prompt, n, f.nodes[n])'
    <3>1. HeardNode(e.prompt, n, f.nodes[n])
          BY <2>8
    <3>. QED
         BY <2>10, <3>1 DEF HeardNode, Started, Ended, Places
  <2>17. HearingInv(e.prompt, f)'
         BY <2>8, <2>10, <2>15, <2>16 DEF HearingInv
  <2>18. f \in TrueOf(e.prompt)'
         BY <2>7, <2>10, <2>17 DEF TrueOf
  <2>. QED
       BY <1>1, <1>2, <2>5, <2>18
<1>6. recorder' = recorder \/ ClearRecorder \/ Feed
      BY DEF Next, Relay, Connect, ConnectFails, Drop, Invalidate, Recv, Check, Send, Thread, Claim,
             Announce, Enter, Submit, Register, Resume, Ready, Ingest, Fails, Leave, SendPayload,
             ReadEnvironment, KeepEnvironment, Comfy, ComfyBegin, ComfySends, ComfyDies, ComfyStarts
<1>. QED
     BY <1>3, <1>4, <1>5, <1>6

\* The entries that are true of a prompt.
EntryTrue(p) ==
    {x \in Entries : /\ x.status = "unknown" => x.cached = {}
                     /\ x.status # "unknown" => p \in DOMAIN runs /\ x.graph /\ x.cached = runs[p][1]}

\* What the ledger has of a prompt's end stays what the history had.
LEMMA LedgerStep ==
    ASSUME TypeInv, FirstInv, QueueInv, LedgerInv, Next
    PROVE  LedgerInv'
<1>1. /\ DOMAIN ledger = {"attempt", "prompts", "env"}
      /\ DOMAIN worker = {"at", "row", "attempt", "job", "prompts", "env"}
      BY DEF TypeInv, Workers, LedgerType
<1>2. \A p \in DOMAIN runs : p \in DOMAIN runs' /\ runs'[p] = runs[p]
  <2>1. \A p \in DOMAIN runs : Past(p, 0)
    <3>1. comfy.at \in Nat
          BY Fields
    <3>. QED
         BY <3>1 DEF Past
  <2>. QED
       BY <2>1, PastKept
<1>3. ASSUME NEW p
      PROVE  EntryTrue(p) \subseteq EntryTrue(p)'
      BY <1>2 DEF EntryTrue
<1>4. \A p \in DOMAIN ledger.prompts : ledger.prompts[p] \in EntryTrue(p)
      BY DEF LedgerInv, EntryTrue, TypeInv, LedgerType
<1>5. ledger.attempt = worker.attempt
      BY DEF LedgerInv
<1>6. ASSUME ledger'.attempt = worker'.attempt,
             \A p \in DOMAIN ledger'.prompts : ledger'.prompts[p] \in EntryTrue(p)'
      PROVE  LedgerInv'
      BY <1>6 DEF LedgerInv, EntryTrue
<1>7. CASE /\ ledger'.attempt = ledger.attempt /\ worker'.attempt = worker.attempt
           /\ ledger'.prompts = ledger.prompts
      BY <1>3, <1>4, <1>5, <1>6, <1>7
<1>8. ASSUME NEW q, NEW x \in EntryTrue(q), ledger' = [ledger EXCEPT !.prompts = Registered(q, x)],
             worker'.attempt = worker.attempt
      PROVE  LedgerInv'
  <2>1. ledger'.prompts = Registered(q, x) /\ ledger'.attempt = ledger.attempt
        BY <1>1, <1>8
  <2>2. \A p \in DOMAIN Registered(q, x) : Registered(q, x)[p] \in EntryTrue(p)'
        BY <1>3, <1>4, <1>8 DEF Registered
  <2>. QED
       BY <1>5, <1>6, <1>8, <2>1, <2>2
<1>9. \A q : \A b \in BOOLEAN : Entry(b) \in EntryTrue(q)
      BY DEF Entry, EntryTrue, Entries
<1>10. CASE Claim
  <2>1. ledger'.attempt = worker.attempt + 1 /\ ledger'.prompts = <<>>
        BY <1>1, <1>10 DEF Claim
  <2>2. worker'.attempt = worker.attempt + 1
        BY <1>1, <1>10 DEF Claim
  <2>3. <<>> \in Seq(Nat) /\ DOMAIN <<>> = {}
        BY EmptySeq
  <2>4. DOMAIN ledger'.prompts = {}
        BY <2>1, <2>3
  <2>. QED
       BY <1>6, <2>1, <2>2, <2>4
<1>11. CASE Register
  <2>1. worker'.attempt = worker.attempt
        BY <1>1, <1>11 DEF Register, To
  <2>2. Entry(FALSE) \in EntryTrue(worker.prompts)
        BY <1>9
  <2>. QED
       BY <1>8, <1>11, <2>1, <2>2 DEF Register
<1>12. CASE Resume
  <2>1. worker'.attempt = worker.attempt
        BY <1>1, <1>12 DEF Resume, To
  <2>2. Entry(TRUE) \in EntryTrue(Prompt)
        BY <1>9
  <2>3. ledger' = ledger \/ ledger' = [ledger EXCEPT !.prompts = Registered(Prompt, Entry(TRUE))]
        BY <1>12 DEF Resume
  <2>4. CASE ledger' = ledger
        BY <1>7, <2>1, <2>4
  <2>. QED
       BY <1>8, <2>1, <2>2, <2>3, <2>4
<1>13. CASE Ready
  <2>. DEFINE old == IF Prompt \in DOMAIN ledger.prompts THEN ledger.prompts[Prompt] ELSE Entry(TRUE)
              out == Outcome(runs[Prompt])
  <2>1. PICK x : x = [old EXCEPT !.ready = TRUE, !.graph = TRUE, !.status = out.status,
                                 !.cached = out.cached]
        OBVIOUS
  <2>2. Prompt \in DOMAIN runs /\ runs[Prompt] \in Runs
        BY <1>13 DEF Ready, QueueInv, TypeInv, RunsType
  <2>3. out.status \in {"success", "error"} /\ out.cached = runs[Prompt][1]
        /\ runs[Prompt][1] \in SUBSET NODES
        BY <2>2 DEF Outcome, Runs, NODES
  <2>4. old \in Entries
    <3>1. CASE Prompt \in DOMAIN ledger.prompts
          BY <3>1 DEF TypeInv, LedgerType
    <3>2. CASE Prompt \notin DOMAIN ledger.prompts
      <4>1. Entry(TRUE) \in EntryTrue(Prompt)
            BY <1>9
      <4>. QED
           BY <3>2, <4>1 DEF EntryTrue
    <3>. QED
         BY <3>1, <3>2
  <2>. HIDE DEF old, out
  <2>5. x \in Entries /\ x.status = out.status /\ x.graph /\ x.cached = out.cached
        BY <2>1, <2>3, <2>4 DEF Entries
  <2>6. x \in EntryTrue(Prompt)
        BY <2>2, <2>3, <2>5 DEF EntryTrue
  <2>7. ledger' = [ledger EXCEPT !.prompts = Registered(Prompt, x)]
        BY <1>13, <2>1 DEF Ready, old, out
  <2>8. worker'.attempt = worker.attempt
        BY <1>1, <1>13, GivenUp DEF Ready, To
  <2>. QED
       BY <1>8, <2>6, <2>7, <2>8
<1>14. CASE Ingest
  <2>1. ASSUME NEW p, NEW x \in EntryTrue(p)
        PROVE  [x EXCEPT !.ingested = TRUE] \in EntryTrue(p)
        BY DEF EntryTrue, Entries
  <2>2. PICK g : g = [ledger.prompts EXCEPT ![Prompt] = [@ EXCEPT !.ingested = TRUE]]
        OBVIOUS
  <2>3. \A p \in DOMAIN g : g[p] \in EntryTrue(p)
        BY <1>4, <2>1, <2>2
  <2>4. ledger' = [ledger EXCEPT !.prompts = g]
        BY <1>14, <2>2 DEF Ingest
  <2>5. ledger'.prompts = g /\ ledger'.attempt = ledger.attempt
        BY <1>1, <2>4
  <2>6. worker'.attempt = worker.attempt
        BY <1>1, <1>14 DEF Ingest, To
  <2>. QED
       BY <1>3, <1>5, <1>6, <2>3, <2>5, <2>6
<1>15. CASE Invalidate
  <2>1. ledger'.attempt = ledger.attempt /\ ledger'.prompts = ledger.prompts /\ worker' = worker
        BY <1>1, <1>15 DEF Invalidate
  <2>. QED
       BY <1>7, <2>1
<1>16. CASE KeepEnvironment
  <2>1. ledger'.attempt = ledger.attempt /\ ledger'.prompts = ledger.prompts
        BY <1>1, <1>16 DEF KeepEnvironment
  <2>2. worker'.attempt = worker.attempt
        BY <1>1, <1>16 DEF KeepEnvironment
  <2>. QED
       BY <1>7, <2>1, <2>2
<1>17. CASE ClearRecorder \/ Announce \/ Enter \/ Submit \/ Fails \/ Leave \/ SendPayload
            \/ ReadEnvironment
  <2>1. ledger' = ledger
        BY <1>17 DEF ClearRecorder, Announce, Enter, Submit, Fails, Leave, SendPayload, ReadEnvironment
  <2>2. worker'.attempt = worker.attempt
        BY <1>1, <1>17, GivenUp DEF ClearRecorder, Announce, Enter, Submit, Fails, Leave,
                           SendPayload, ReadEnvironment, To
  <2>. QED
       BY <1>7, <2>1, <2>2
<1>18. CASE ledger' = ledger /\ worker' = worker
       BY <1>7, <1>18
<1>19. \/ Claim \/ Register \/ Resume \/ Ready \/ Ingest \/ Invalidate \/ KeepEnvironment
       \/ ClearRecorder \/ Announce \/ Enter \/ Submit \/ Fails \/ Leave \/ SendPayload
       \/ ReadEnvironment \/ (ledger' = ledger /\ worker' = worker)
       BY DEF Next, Relay, Connect, ConnectFails, Drop, Recv, Feed, Check, Send, Thread, Comfy,
              ComfyBegin, ComfySends, ComfyDies, ComfyStarts
<1>. QED
     BY <1>10, <1>11, <1>12, <1>13, <1>14, <1>15, <1>16, <1>17, <1>18, <1>19

-----------------------------------------------------------------------------
(* The timings sent.                                                       *)

\* A script has at most one step that starts a node; the least of its places is that one.
LEMMA OneStart ==
    ASSUME TypeInv, NEW p \in DOMAIN runs, NEW n \in NODES, NEW k \in Started(p, n)
    PROVE  Min(Started(p, n)) = k /\ k \in Nat
<1>1. runs[p] \in Runs
      BY DEF TypeInv, RunsType
<1>2. \A l \in Started(p, n) : l = k /\ l \in Nat
      BY <1>1, Ahead DEF Started, Places
<1>3. Started(p, n) = {k}
      BY <1>2
<1>4. \A l \in {k} : l = k /\ k <= k
      BY <1>2
<1>. QED
     BY <1>2, <1>3, <1>4 DEF Min

\* What was heard of a node is true of the prompt's run.
LEMMA HeardIsTrue ==
    ASSUME TypeInv, HeardInv, NEW p, NEW n \in NODES
    PROVE  /\ Heard(p).cached # {} => p \in DOMAIN runs /\ Heard(p).cached = runs[p][1]
           /\ LET t == Heard(p).nodes[n]
              IN  /\ t.started # 0 => t.started >= Min(Started(p, n))
                  /\ t.ended # 0 => \A k \in Ended(p, n) : t.ended >= k
                  /\ t # Unheard => p \in DOMAIN runs /\ n \notin runs[p][1]
                  /\ t.started # 0 /\ t.ended # 0 => t.started <= t.ended
<1>. DEFINE t == Heard(p).nodes[n]
<1>1. CASE p \notin DOMAIN recorder
  <2>1. Heard(p) = NoPrompt
        BY <1>1 DEF Heard
  <2>2. NoPrompt.cached = {} /\ NoPrompt.nodes[n] = Unheard
        BY DEF NoPrompt
  <2>3. Unheard.started = 0 /\ Unheard.ended = 0
        BY DEF Unheard
  <2>. QED
       BY <2>1, <2>2, <2>3
<1>2. CASE p \in DOMAIN recorder
  <2>1. Heard(p) = recorder[p] /\ p \in DOMAIN runs /\ HearingInv(p, Heard(p))
        BY <1>2 DEF Heard, HeardInv
  <2>2. HeardNode(p, n, t) /\ t \in Times
        BY <2>1, HeardType DEF HearingInv, Hearings
  <2>3. t.started \in Nat /\ t.ended \in Nat
        BY <2>2 DEF Times
  <2>4. Heard(p).cached # {} => Heard(p).cached = runs[p][1]
        BY <2>1 DEF HearingInv
  <2>5. runs[p] \in Runs
        BY <2>1 DEF TypeInv, RunsType
  <2>6. t.started # 0 => t.started >= Min(Started(p, n))
        BY <2>1, <2>2, <2>3, OneStart DEF HeardNode
  <2>7. \A k \in Ended(p, n) : k \in Nat
        BY <2>5, Ahead DEF Ended, Places
  <2>8. t.ended # 0 => \A k \in Ended(p, n) : t.ended >= k
        BY <2>2, <2>3, <2>7 DEF HeardNode
  <2>9. /\ t # Unheard => n \notin runs[p][1]
        /\ t.started # 0 /\ t.ended # 0 => t.started <= t.ended
        BY <2>2 DEF HeardNode
  <2>. QED
       BY <2>1, <2>4, <2>6, <2>8, <2>9
<1>. QED
     BY <1>1, <1>2

\* What is sent of a prompt's nodes is true of its run; of one that succeeded, all is known.
LEMMA NodesTrue ==
    ASSUME TypeInv, HeardInv, LedgerInv, NEW p \in DOMAIN ledger.prompts
    PROVE  /\ Nodes(p) # <<>> => \A n \in NODES : NodeIsTrue(p, n, Nodes(p)[n])
           /\ ledger.prompts[p].status = "success" =>
                  /\ Known(p) /\ p \in DOMAIN runs
                  /\ \A n \in NODES : Nodes(p)[n].cached <=> n \in runs[p][1]
<1>. DEFINE entry  == ledger.prompts[p]
            cached == entry.cached \cup Heard(p).cached
<1>1. entry \in Entries
      BY DEF TypeInv, LedgerType
<1>2. /\ entry.cached # {} => p \in DOMAIN runs /\ entry.cached = runs[p][1]
      /\ entry.status = "success" => p \in DOMAIN runs /\ entry.graph /\ entry.cached = runs[p][1]
      BY <1>1 DEF LedgerInv, Entries
<1>3. Heard(p).cached # {} => p \in DOMAIN runs /\ Heard(p).cached = runs[p][1]
      BY HeardIsTrue DEF NODES
<1>4. cached # {} => p \in DOMAIN runs /\ cached = runs[p][1]
      BY <1>2, <1>3
<1>5. entry.status = "success" => p \in DOMAIN runs /\ cached = runs[p][1]
      BY <1>2, <1>3
<1>6. CASE ~entry.graph
  <2>1. Nodes(p) = <<>>
        BY <1>6 DEF Nodes
  <2>. QED
       BY <1>2, <1>6, <2>1 DEF Known
<1>7. CASE entry.graph
  <2>1. Nodes(p) = [n \in NODES |-> [cached |-> n \in cached,
                        times  |-> IF n \in cached THEN Unheard ELSE Heard(p).nodes[n]]]
        BY <1>7 DEF Nodes
  <2>2. DOMAIN Nodes(p) = NODES
        BY <2>1
  <2>3. <<>> \in Seq(NODES) /\ DOMAIN <<>> = {}
        OBVIOUS
  <2>4. Nodes(p) # <<>>
        BY <2>2, <2>3 DEF NODES
  <2>5. ASSUME NEW n \in NODES
        PROVE  /\ NodeIsTrue(p, n, Nodes(p)[n])
               /\ Nodes(p)[n].cached <=> n \in cached
    <3>. DEFINE node == Nodes(p)[n]
    <3>1. /\ node.cached <=> n \in cached
          /\ n \in cached => node.times = Unheard
          /\ n \notin cached => node.times = Heard(p).nodes[n]
      <4>1. node = [cached |-> n \in cached,
                    times  |-> IF n \in cached THEN Unheard ELSE Heard(p).nodes[n]]
            BY <2>1, Zenon
      <4>. HIDE DEF node, cached
      <4>. QED
           BY <4>1, Zenon
    <3>2. CASE n \in cached
      <4>1. node.times = Unheard /\ node.times.started = 0 /\ node.times.ended = 0
            BY <3>1, <3>2 DEF Unheard
      <4>2. n \in runs[p][1]
            BY <1>4, <3>2
      <4>. QED
           BY <3>1, <4>1, <4>2 DEF NodeIsTrue
    <3>3. CASE n \notin cached
      <4>1. node.times = Heard(p).nodes[n] /\ ~node.cached
            BY <3>1, <3>3
      <4>. HIDE DEF node
      <4>. QED
           BY <3>1, <3>3, <4>1, HeardIsTrue DEF NodeIsTrue, node
    <3>. QED
         BY <3>2, <3>3
  <2>6. entry.status = "success" => Known(p)
        BY <2>4 DEF Known
  <2>. QED
       BY <1>5, <2>5, <2>6
<1>. QED
     BY <1>6, <1>7

\* Whether a model was loaded is told from nodes that are true.
LEMMA ColdTrue ==
    ASSUME TypeInv, HeardInv, LedgerInv
    PROVE  ColdLoadIsTrue(Payload.cold, Payload.prompts)
<1>. DEFINE P         == DOMAIN ledger.prompts
            known     == {p \in P : Known(p)}
            prompts   == [p \in P |-> [status |-> ledger.prompts[p].status, nodes |-> Nodes(p)]]
            loaded    == {p \in P \cap DOMAIN runs : "loader" \notin runs[p][1]}
            ok(p)     == ledger.prompts[p].status = "success"
            cold(p)   == ~Nodes(p)["loader"].cached
<1>1. Payload.cold = ColdLoad /\ Payload.prompts = prompts
      BY DEF Payload
<1>2. DOMAIN prompts = P /\ \A p \in P : prompts[p].status = "success" <=> ok(p)
      OBVIOUS
<1>3. ASSUME NEW p \in P, ok(p)
      PROVE  p \in known /\ (cold(p) <=> p \in loaded)
  <2>1. /\ Known(p) /\ p \in DOMAIN runs
        /\ \A n \in NODES : Nodes(p)[n].cached <=> n \in runs[p][1]
        BY <1>3, NodesTrue
  <2>2. "loader" \in NODES
        BY DEF NODES
  <2>. QED
       BY <2>1, <2>2
<1>4. /\ ColdLoad = "no" => known # {} /\ \A p \in known : ~cold(p)
      /\ ColdLoad = "yes" <=> \E p \in known : cold(p)
      BY DEF ColdLoad
<1>5. prompts # <<>> => P # {}
  <2>. SUFFICES ASSUME P = {} PROVE prompts = <<>>
       OBVIOUS
  <2>. QED
       OBVIOUS
<1>. HIDE DEF known, loaded, cold, ok
<1>6. ColdLoad = "no" => \A p \in loaded : ~ok(p)
      BY <1>3, <1>4 DEF loaded
<1>7. prompts # <<>> /\ (\A p \in P : ok(p)) => (ColdLoad = "yes" <=> loaded # {})
      BY <1>3, <1>4, <1>5 DEF loaded, known
<1>8. loaded = {p \in DOMAIN prompts \cap DOMAIN runs : "loader" \notin runs[p][1]}
      BY <1>2 DEF loaded
<1>. HIDE DEF prompts
<1>. QED
     BY <1>1, <1>2, <1>6, <1>7, <1>8 DEF ColdLoadIsTrue, loaded

\* What the worker sends of an attempt is true of the prompts' runs.
LEMMA PayloadTrue ==
    ASSUME TypeInv, HeardInv, LedgerInv
    PROVE  TimingsAreTrue
<1>1. Payload.attempt = worker.attempt
      BY DEF Payload, LedgerInv
<1>2. DOMAIN Payload.prompts = DOMAIN ledger.prompts
      /\ \A p \in DOMAIN ledger.prompts : Payload.prompts[p].nodes = Nodes(p)
      BY DEF Payload
<1>. QED
     BY <1>1, <1>2, ColdTrue, NodesTrue DEF TimingsAreTrue

-----------------------------------------------------------------------------
(* The invariants of the specification.                                    *)

\* What every other invariant rests on.
OrderInv == TypeInv /\ FirstInv /\ QueueInv /\ SentInv

\* A start is well typed.
LEMMA InitTypes == Init => TypeInv
<1>. SUFFICES ASSUME Init PROVE TypeInv
     OBVIOUS
<1>1. worker \in Workers
  <2>1. 0 \in Nat /\ 1 \in Nat \ {0}
        OBVIOUS
  <2>. QED
       BY <2>1 DEF Init, Workers, Ats
<1>2. state \in States
  <2>1. JOBS \in Nat
        OBVIOUS
  <2>2. [j \in 1..JOBS |-> 0] \in [1..JOBS -> Nat]
        OBVIOUS
  <2>3. [j \in 1..JOBS |-> 0] \in Seq(Nat)
        BY <2>1, <2>2, SeqDef
  <2>. QED
       BY <2>3 DEF Init, States
<1>3. NoEvent \in Events
      BY DEF NoEvent, Events
<1>4. <<>> \in Seq(Events) /\ <<>> \in Seq(Nat) /\ DOMAIN <<>> = {}
      OBVIOUS
<1>5. relay \in Relays
  <2>. HIDE DEF NoEvent, Events
  <2>. QED
       BY <1>3, <1>4 DEF Init, Relays, PCs
<1>6. comfy \in Comfys
      BY <1>4 DEF Init, Comfys
<1>7. frame \in Frames
      BY DEF Init, Frames
<1>8. ledger = [attempt |-> 0, prompts |-> <<>>, env |-> 0] /\ recorder = <<>> /\ runs = <<>>
      BY DEF Init
<1>9. LedgerType(ledger)
      BY <1>4, <1>8 DEF LedgerType
<1>10. RecorderType(recorder) /\ RunsType(runs)
       BY <1>4, <1>8 DEF RecorderType, RunsType
<1>11. current \in Rows \cup {""}
       BY DEF Init
<1>. QED
     BY <1>1, <1>2, <1>5, <1>6, <1>7, <1>9, <1>10, <1>11 DEF TypeInv

\* At the start nothing was said yet, and nothing heard.
LEMMA InitInvs ==
    Init => FirstInv /\ SubmitFirst /\ EnvInv /\ EnvOutlivesNoLoss /\ QueueInv /\ SentInv
            /\ HeardInv /\ LedgerInv
<1>. SUFFICES ASSUME Init
              PROVE  FirstInv /\ SubmitFirst /\ EnvInv /\ EnvOutlivesNoLoss /\ QueueInv /\ SentInv
                     /\ HeardInv /\ LedgerInv
     OBVIOUS
<1>1. <<>> \in Seq(Nat) /\ DOMAIN <<>> = {}
      OBVIOUS
<1>2. /\ worker.at = "idle" /\ worker.env = 0 /\ worker.attempt = 0 /\ current = ""
      /\ ledger.attempt = 0 /\ ledger.env = 0 /\ ledger.prompts = <<>> /\ recorder = <<>>
      /\ runs = <<>> /\ frame.sampling = ""
      /\ relay.pc = "down" /\ relay.inbox = <<>> /\ relay.since = 1
      /\ comfy.process = 1 /\ comfy.up /\ comfy.queue = <<>> /\ comfy.history = {}
      BY DEF Init
<1>3. FirstInv /\ SubmitFirst
      BY <1>2 DEF FirstInv, SubmitFirst
<1>4. EnvInv /\ EnvOutlivesNoLoss
  <2>. DEFINE gone == IF comfy.up THEN 0 ELSE 1
  <2>1. gone = 0
        BY <1>2
  <2>. HIDE DEF gone
  <2>2. relay.since <= comfy.process + gone
    <3>1. relay.since = 1 /\ comfy.process = 1
          BY <1>2
    <3>. QED
         BY <2>1, <3>1
  <2>. USE DEF gone
  <2>. QED
       BY <1>2, <2>2 DEF EnvInv, EnvOutlivesNoLoss
<1>5. QueueInv
      BY <1>1, <1>2 DEF QueueInv
<1>6. SentInv
      BY <1>1, <1>2 DEF SentInv
<1>7. HeardInv
      BY <1>1, <1>2 DEF HeardInv
<1>8. LedgerInv
      BY <1>1, <1>2 DEF LedgerInv
<1>. QED
     BY <1>3, <1>4, <1>5, <1>6, <1>7, <1>8

\* A step that changes nothing keeps every invariant.
LEMMA Stutters ==
    ASSUME UNCHANGED vars
    PROVE  /\ TypeInv => TypeInv'
           /\ FirstInv => FirstInv'
           /\ SubmitFirst => SubmitFirst'
           /\ EnvInv /\ EnvOutlivesNoLoss => EnvInv' /\ EnvOutlivesNoLoss'
           /\ QueueInv => QueueInv'
           /\ SentInv => SentInv'
           /\ HeardInv => HeardInv'
           /\ LedgerInv => LedgerInv'
<1>1. /\ worker' = worker /\ state' = state /\ current' = current /\ ledger' = ledger
      /\ recorder' = recorder /\ relay' = relay /\ comfy' = comfy /\ runs' = runs /\ frame' = frame
      BY DEF vars
<1>2. TypeInv => TypeInv'
      BY <1>1 DEF TypeInv
<1>3. (FirstInv => FirstInv') /\ (SubmitFirst => SubmitFirst')
      BY <1>1 DEF FirstInv, SubmitFirst
<1>4. EnvInv /\ EnvOutlivesNoLoss => EnvInv' /\ EnvOutlivesNoLoss'
      BY <1>1 DEF EnvInv, EnvOutlivesNoLoss
<1>5. QueueInv => QueueInv'
      BY <1>1 DEF QueueInv
<1>6. SentInv => SentInv'
      BY <1>1 DEF SentInv, Sent, Past
<1>7. HeardInv => HeardInv'
  <2>1. ASSUME NEW p, NEW t, Old(p, t)
        PROVE  Old(p, t)'
        BY <1>1, <2>1 DEF Old, Past
  <2>2. ASSUME NEW p, NEW n, NEW t, HeardNode(p, n, t)
        PROVE  HeardNode(p, n, t)'
        BY <1>1, <2>2 DEF HeardNode, Started, Ended, Places
  <2>3. ASSUME NEW p, NEW h, HearingInv(p, h)
        PROVE  HearingInv(p, h)'
        BY <1>1, <2>1, <2>2, <2>3 DEF HearingInv
  <2>. QED
       BY <1>1, <2>3 DEF HeardInv
<1>8. LedgerInv => LedgerInv'
      BY <1>1 DEF LedgerInv
<1>. QED
     BY <1>2, <1>3, <1>4, <1>5, <1>6, <1>7, <1>8

\* Every step keeps the order of what is said, whatever it says.
LEMMA OrderStep ==
    ASSUME OrderInv, [Next]_vars
    PROVE  OrderInv'
<1>1. CASE Next
  <2>1. TypeInv'
        BY <1>1, RelayTypes, ThreadTypes, ComfyTypes DEF OrderInv, Next
  <2>2. FirstInv' /\ QueueInv' /\ SentInv'
        BY <1>1, FirstStep, QueueStep, SentStep DEF OrderInv
  <2>. QED
       BY <2>1, <2>2 DEF OrderInv
<1>2. CASE UNCHANGED vars
      BY <1>2, Stutters DEF OrderInv
<1>. QED
     BY <1>1, <1>2

\* The threads' places, the queue and the events on their way are in order, always.
THEOREM OrderHolds == Spec => []OrderInv
<1>1. Init => OrderInv
      BY InitTypes, InitInvs DEF OrderInv
<1>2. OrderInv /\ [Next]_vars => OrderInv'
      BY OrderStep
<1>. QED
     BY <1>1, <1>2, PTL DEF Spec

\* On the hub a row samples only once its first frame was sent: what the feed
\* thread relays goes to the row that is current, and a row is made current only
\* after its own submit, so that progress left over from an earlier row's prompt
\* may be told as the next row's but never before it.
THEOREM SubmittedFirst == Spec => []SubmitFirst
<1>1. Init => OrderInv /\ SubmitFirst
      BY InitTypes, InitInvs DEF OrderInv
<1>2. OrderInv /\ SubmitFirst /\ [Next]_vars => OrderInv' /\ SubmitFirst'
  <2>1. OrderInv /\ SubmitFirst /\ Next => SubmitFirst'
        BY SubmitStep DEF OrderInv
  <2>2. SubmitFirst /\ UNCHANGED vars => SubmitFirst'
        BY Stutters
  <2>. QED
       BY <2>1, <2>2, OrderStep
<1>. QED
     BY <1>1, <1>2, PTL DEF Spec

\* An environment read of a process is never kept past the moment the feed
\* thread has noticed that the process is gone, even where the answer was under
\* way: invalidate_env waits for the lock the payload is made under.
THEOREM EnvironmentIsFresh == Spec => []EnvOutlivesNoLoss
<1>1. Init => OrderInv /\ EnvInv /\ EnvOutlivesNoLoss
      BY InitTypes, InitInvs DEF OrderInv
<1>2. OrderInv /\ (EnvInv /\ EnvOutlivesNoLoss) /\ [Next]_vars
          => OrderInv' /\ (EnvInv' /\ EnvOutlivesNoLoss')
  <2>1. OrderInv /\ EnvInv /\ EnvOutlivesNoLoss /\ Next => EnvInv' /\ EnvOutlivesNoLoss'
        BY EnvStep DEF OrderInv
  <2>2. EnvInv /\ EnvOutlivesNoLoss /\ UNCHANGED vars => EnvInv' /\ EnvOutlivesNoLoss'
        BY Stutters
  <2>. QED
       BY <2>1, <2>2, OrderStep
<1>. QED
     BY <1>1, <1>2, PTL DEF Spec

\* The timings an attempt sends are of its prompts' own runs: what was heard of
\* them on the feed and what their history told, however many events were lost
\* with a socket or a process, came before the attempt began, or were cleared.
THEOREM SentTimingsAreTrue == Spec => []TimingsAreTrue
<1>1. Init => OrderInv /\ HeardInv /\ LedgerInv
      BY InitTypes, InitInvs DEF OrderInv
<1>2. OrderInv /\ (HeardInv /\ LedgerInv) /\ [Next]_vars => OrderInv' /\ (HeardInv' /\ LedgerInv')
  <2>1. OrderInv /\ HeardInv /\ LedgerInv /\ Next => HeardInv' /\ LedgerInv'
        BY HeardStep, LedgerStep DEF OrderInv
  <2>2. HeardInv /\ LedgerInv /\ UNCHANGED vars => HeardInv' /\ LedgerInv'
        BY Stutters
  <2>. QED
       BY <2>1, <2>2, OrderStep
<1>3. OrderInv /\ HeardInv /\ LedgerInv => TimingsAreTrue
      BY PayloadTrue DEF OrderInv
<1>. QED
     BY <1>1, <1>2, <1>3, PTL DEF Spec
===============================================================================
