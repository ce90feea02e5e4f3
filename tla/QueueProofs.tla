----------------------------- MODULE QueueProofs -----------------------------
(***************************************************************************)
(* The workers implement Queue, whatever calls are lost, late or doubled,  *)
(* for any number of workers and rows.  A step of Worker is a step of      *)
(* Queue or leaves what Queue sees as it was; that an execution ends only  *)
(* of a row that was handed out, and that a row is posted with no attempt  *)
(* made, is what the inductive invariant adds to TypeInv.                  *)
(***************************************************************************)
EXTENDS WorkerProofs

USE NoneAssumption, WiringAssumption, BoundAssumption

\* What Queue sees of a row.
Shown == [r \in Rows |-> row[r].status]
Tried == [r \in Rows |-> row[r].attempt]
Came  == [r \in Rows |-> {o \in Outcomes : <<r, o>> \in ended}]

PostedStep == Posted!Next \/ (Shown' = Shown /\ Tried' = Tried /\ Came' = Came)

\* A row that was not posted was not handed out.
AbsentIsNew == \A r \in Rows : row[r].status = "absent" => row[r].attempt = 0

\* A row in a worker's hand was.
HandWasClaimed == \A w \in Workers : hand[w] \in Rows => row[hand[w]].attempt # 0

RefineInv == TypeInv /\ AbsentIsNew /\ HandWasClaimed

\* One row changes: so does what Queue sees of it, and of no other.
LEMMA OneRow ==
    ASSUME TypeOK, NEW q \in Rows, NEW y \in RowRecord,
           row' = [row EXCEPT ![q] = y], ended' = ended
    PROVE  /\ Shown' = [Shown EXCEPT ![q] = y.status]
           /\ Tried' = [Tried EXCEPT ![q] = y.attempt]
           /\ Came' = Came
           /\ Shown[q] = row[q].status /\ Tried[q] = row[q].attempt
           /\ row[q] \in RowRecord
<1>1. row'[q] = y /\ \A r \in Rows : r # q => row'[r] = row[r]
      BY DEF TypeOK
<1>2. Shown' = [Shown EXCEPT ![q] = y.status]
  <2>1. \A r \in Rows : row'[r].status = IF r = q THEN y.status ELSE row[r].status
        BY <1>1
  <2>2. Shown' = [r \in Rows |-> IF r = q THEN y.status ELSE row[r].status]
        BY <2>1 DEF Shown
  <2> QED
      BY <2>2 DEF Shown
<1>3. Tried' = [Tried EXCEPT ![q] = y.attempt]
  <2>1. \A r \in Rows : row'[r].attempt = IF r = q THEN y.attempt ELSE row[r].attempt
        BY <1>1
  <2>2. Tried' = [r \in Rows |-> IF r = q THEN y.attempt ELSE row[r].attempt]
        BY <2>1 DEF Tried
  <2> QED
      BY <2>2 DEF Tried
<1>4. Came' = Came
      BY DEF Came
<1> QED
    BY <1>2, <1>3, <1>4 DEF Shown, Tried, TypeOK

\* A row handed back goes on the queue again or is given up.
LEMMA ReturnIsPosted ==
    ASSUME TypeOK, NEW q \in Rows, row[q].status = "running",
           row' = [row EXCEPT ![q] = Returned(row[q])], ended' = ended
    PROVE  PostedStep
<1>1. row[q] \in RowRecord
      BY DEF TypeOK
<1>2. Returned(row[q]) \in RowRecord /\ Returned(row[q]).attempt = row[q].attempt
      BY <1>1 DEF Returned, RowRecord, Statuses, Outcomes
<1>3. /\ Shown' = [Shown EXCEPT ![q] = Returned(row[q]).status]
      /\ Tried' = Tried /\ Came' = Came
      /\ Shown[q] = "running" /\ Tried[q] = row[q].attempt
  <2>1. /\ Shown' = [Shown EXCEPT ![q] = Returned(row[q]).status]
        /\ Tried' = [Tried EXCEPT ![q] = Returned(row[q]).attempt]
        /\ Came' = Came /\ Shown[q] = row[q].status /\ Tried[q] = row[q].attempt
        BY <1>2, OneRow
  <2>2. Tried' = Tried
        BY <1>2, <2>1 DEF Tried
  <2> QED
      BY <2>1, <2>2
<1>4. CASE row[q].attempt < MaxAttempts
  <2>1. Posted!GiveBack(q)
        BY <1>3, <1>4 DEF Posted!GiveBack, Posted!Become, Returned, Shown, Tried, Came
  <2> QED
      BY <2>1 DEF PostedStep, Posted!Next
<1>5. CASE ~(row[q].attempt < MaxAttempts)
  <2>1. row[q].attempt = MaxAttempts
        BY <1>1, <1>5 DEF RowRecord
  <2>2. Posted!GiveUp(q)
        BY <1>3, <1>5, <2>1 DEF Posted!GiveUp, Posted!Become, Returned, Shown, Tried, Came
  <2> QED
      BY <2>2 DEF PostedStep, Posted!Next
<1> QED
    BY <1>4, <1>5

\* A call applied to a row settles it, hands it back or changes nothing.
LEMMA PatchIsPosted ==
    ASSUME TypeOK, NEW q \in Rows, NEW w \in Workers, NEW op \in Ops,
           op \in Outcomes => <<q, op>> \in ended,
           row' = [row EXCEPT ![q] = Patched(row[q], w, op)], ended' = ended
    PROVE  PostedStep
<1>1. row[q] \in RowRecord
      BY DEF TypeOK
<1>2. Patched(row[q], w, op) \in RowRecord
      BY <1>1, PatchedType
<1>3. /\ Shown' = [Shown EXCEPT ![q] = Patched(row[q], w, op).status]
      /\ Tried' = [Tried EXCEPT ![q] = Patched(row[q], w, op).attempt]
      /\ Came' = Came /\ Shown[q] = row[q].status /\ Tried[q] = row[q].attempt
      BY <1>2, OneRow
<1>4. CASE ~(row[q].status = "running" /\ row[q].holder = w)
  <2>1. Patched(row[q], w, op) = row[q]
        BY <1>4, PatchRefused
  <2> QED
      BY <1>3, <2>1 DEF PostedStep, Shown, Tried
<1>5. CASE row[q].status = "running" /\ row[q].holder = w /\ op = "running"
  <2>1. Patched(row[q], w, op) = [row[q] EXCEPT !.fresh = TRUE]
        BY <1>5 DEF Patched
  <2> QED
      BY <1>1, <1>3, <1>5, <2>1 DEF PostedStep, Shown, Tried, RowRecord
<1>6. CASE row[q].status = "running" /\ row[q].holder = w /\ op = "queued"
  <2>1. Patched(row[q], w, op) = Returned(row[q])
        BY <1>6 DEF Patched
  <2> QED
      BY <1>6, <2>1, ReturnIsPosted
<1>7. CASE row[q].status = "running" /\ row[q].holder = w /\ op \in Outcomes
  <2>1. Patched(row[q], w, op).status = op /\ Patched(row[q], w, op).attempt = row[q].attempt
        BY <1>7 DEF Patched, Outcomes
  <2>2. op \in Came[q]
        BY <1>7 DEF Came
  <2>3. Posted!Settle(q, op)
        BY <1>3, <1>7, <2>1, <2>2 DEF Posted!Settle, Posted!Become, Shown, Tried, Came
  <2>4. op \in Posted!Outcomes
        BY <1>7 DEF Outcomes, Posted!Outcomes
  <2> QED
      BY <2>3, <2>4 DEF PostedStep, Posted!Next
<1> QED
    BY <1>4, <1>5, <1>6, <1>7 DEF Ops

\* A claim hands out a queued row, one attempt further.
LEMMA ClaimIsPosted ==
    ASSUME TypeOK, NEW q \in Rows, NEW w \in Workers, Claimable(row[q]),
           row' = [row EXCEPT ![q] = Claimed(row[q], w)], ended' = ended
    PROVE  PostedStep
<1>1. row[q] \in RowRecord
      BY DEF TypeOK
<1>2. Claimed(row[q], w) \in RowRecord
      BY <1>1 DEF Claimable, Claimed, RowRecord, Statuses
<1>3. /\ Shown' = [Shown EXCEPT ![q] = "running"]
      /\ Tried' = [Tried EXCEPT ![q] = row[q].attempt + 1]
      /\ Came' = Came /\ Shown[q] = row[q].status /\ Tried[q] = row[q].attempt
      BY <1>2, OneRow DEF Claimed
<1>4. Posted!Take(q)
      BY <1>3 DEF Posted!Take, Posted!Become, Claimable, Shown, Tried, Came
<1> QED
    BY <1>4 DEF PostedStep, Posted!Next

\* Every step is one of Queue, or none that Queue sees.
LEMMA StepIsPosted == RefineInv /\ [Next]_vars => PostedStep
<1> SUFFICES ASSUME RefineInv, [Next]_vars PROVE PostedStep
    OBVIOUS
<1> USE DEF RefineInv, TypeInv, server, thread, channel, history
<1>0. \A r \in Rows : row[r] \in RowRecord
      BY DEF TypeOK
<1>1. ASSUME NEW r \in Rows, Post(r)
      PROVE  PostedStep
  <2> DEFINE y == [status |-> "queued", holder |-> NoWorker, attempt |-> 0, fresh |-> FALSE]
  <2>1. y \in RowRecord
        BY DEF RowRecord, Statuses
  <2>2. row' = [row EXCEPT ![r] = y] /\ ended' = ended
        BY <1>1 DEF Post
  <2>3. y.status = "queued" /\ y.attempt = 0
        OBVIOUS
  <2> HIDE DEF y
  <2>4. /\ Shown' = [Shown EXCEPT ![r] = "queued"] /\ Tried' = [Tried EXCEPT ![r] = 0]
        /\ Came' = Came /\ Shown[r] = row[r].status /\ Tried[r] = row[r].attempt
    <3>1. /\ Shown' = [Shown EXCEPT ![r] = y.status] /\ Tried' = [Tried EXCEPT ![r] = y.attempt]
          /\ Came' = Came /\ Shown[r] = row[r].status /\ Tried[r] = row[r].attempt
          BY <2>1, <2>2, OneRow
    <3> QED
        BY <2>3, <3>1
  <2>5. row[r].status = "absent" /\ Tried[r] = 0
        BY <1>1, <2>4 DEF Post, AbsentIsNew
  <2>6. Tried' = Tried
        BY <2>4, <2>5 DEF Tried
  <2>7. Posted!Post(r)
        BY <2>4, <2>5, <2>6 DEF Posted!Post, Posted!Become, Shown, Tried, Came
  <2> QED
      BY <2>7 DEF PostedStep, Posted!Next
<1>2. CASE UNCHANGED <<row, ended>>
      BY <1>2 DEF PostedStep, Shown, Tried, Came
<1>3. ASSUME NEW r \in Rows, Age(r)
      PROVE  PostedStep
  <2>1. \A q \in Rows : row'[q].status = row[q].status /\ row'[q].attempt = row[q].attempt
        BY <1>0, <1>3 DEF Age, TypeOK, RowRecord
  <2> QED
      BY <1>3, <2>1 DEF PostedStep, Shown, Tried, Came, Age
<1>4. ASSUME NEW r \in Rows, Requeue(r)
      PROVE  PostedStep
      BY <1>4, ReturnIsPosted DEF Requeue
<1>5. ASSUME NEW m \in late, NEW r \in Rows, LateClaim(m, r)
      PROVE  PostedStep
  <2>1. m.worker \in Workers
        BY CallFields DEF TypeOK
  <2> QED
      BY <1>5, <2>1, ClaimIsPosted DEF LateClaim
<1>6. ASSUME NEW m \in late, LatePatch(m)
      PROVE  PostedStep
  <2>1. m.row \in Rows /\ m.worker \in Workers /\ m.op \in Ops
        BY <1>6, CallFields DEF LatePatch, TypeOK
  <2>2. m.op \in Outcomes => <<m.row, m.op>> \in ended
        BY DEF CallsTrue
  <2> QED
      BY <1>6, <2>1, <2>2, PatchIsPosted DEF LatePatch
<1>7. ASSUME NEW w \in Workers, NEW r \in Rows, ReleaseAnswered(w, r)
      PROVE  PostedStep
  <2>1. "queued" \in Ops /\ "queued" \notin Outcomes
        BY DEF Ops, Outcomes
  <2> QED
      BY <1>7, <2>1, PatchIsPosted DEF ReleaseAnswered
<1>8. ASSUME NEW w \in Workers, NEW r \in Rows, ClaimRow(w, r)
      PROVE  PostedStep
      BY <1>8, ClaimIsPosted DEF ClaimRow
<1>9. ASSUME NEW w \in Workers, ReportAnswered(w)
      PROVE  PostedStep
  <2>1. hand[w] \in Rows /\ outcome[w] \in Ops /\ <<hand[w], outcome[w]>> \in ended
        BY <1>9 DEF ReportAnswered, RowInHand, Ops
  <2> QED
      BY <1>9, <2>1, PatchIsPosted DEF ReportAnswered
<1>10. ASSUME NEW w \in Workers, NEW o \in Outcomes, Execute(w, o)
       PROVE  PostedStep
  <2>0. PICK q \in Rows : q = hand[w]
        BY <1>10 DEF Execute, RowInHand
  <2>1. row' = row /\ ended' = ended \cup {<<q, o>>}
        BY <1>10, <2>0 DEF Execute
  <2>2. row[q].attempt # 0 /\ row[q].attempt \in Nat
        BY <1>0, <2>0 DEF HandWasClaimed, RowRecord
  <2>3. Shown' = Shown /\ Tried' = Tried /\ Tried[q] > 0
        BY <2>1, <2>2 DEF Shown, Tried
  <2>4. Came' = [Came EXCEPT ![q] = @ \cup {o}]
        BY <2>1 DEF Came
  <2>5. Posted!Reach(q, o)
        BY <2>3, <2>4 DEF Posted!Reach, Shown, Tried, Came
  <2>6. o \in Posted!Outcomes
        BY DEF Outcomes, Posted!Outcomes
  <2>7. Posted!Next
        BY <2>5, <2>6 DEF Posted!Next
  <2> QED
      BY <2>7 DEF PostedStep
<1>11. ASSUME NEW w \in Workers, Step(w)
       PROVE  PostedStep
       BY <1>2, <1>7, <1>8, <1>9, <1>10, <1>11 DEF Step, QueryAnswered, ReleaseOver,
          LeaveForDrain, Ask, ClearAndClaim, ClaimEmpty, GoIdle, IdleOver, Finally,
          Acknowledge, Exit
<1>12. ASSUME NEW w \in Workers, Disturbance(w)
       PROVE  PostedStep
       BY <1>2, <1>12 DEF Disturbance, QueryFails, ReleaseGivenUp, ClaimGivenUp,
          ReportGivenUp, GiveUp, AskUnread, ClearAndClaim, AcknowledgeFails,
          Interrupt, AnswerBreaksOff, Kill, Exit
<1>13. ASSUME NEW w \in Workers, Side(w) \/ Start(w)
       PROVE  PostedStep
       BY <1>2, <1>13 DEF Side, Beat, HubHello, HubUp, HubQueued, HubLost,
          AskToDrain, DrainTimesOut, Start
<1>14. ASSUME NEW m \in late, LostCall(m)
       PROVE  PostedStep
       BY <1>2, <1>14 DEF LostCall
<1>15. CASE UNCHANGED vars
       BY <1>2, <1>15 DEF vars
<1> QED
    BY <1>1, <1>3, <1>4, <1>5, <1>6, <1>11, <1>12, <1>13, <1>14, <1>15 DEF Next, Chimera

\* A step of Queue never takes an attempt back, and makes none of an absent row.
LEMMA AttemptsStand ==
    ASSUME RefineInv, PostedStep
    PROVE  AbsentIsNew' /\ \A r \in Rows : row[r].attempt # 0 => row'[r].attempt # 0
<1> USE DEF RefineInv, TypeInv
<1>1. \A r \in Rows : Tried[r] \in Nat
      BY DEF TypeOK, RowRecord, Tried
<1>2. /\ \A r \in Rows : Tried[r] # 0 => Tried'[r] # 0
      /\ \A r \in Rows : Shown'[r] = "absent" => Shown[r] = "absent" /\ Tried'[r] = Tried[r]
  <2> DEFINE Goal == /\ \A r \in Rows : Tried[r] # 0 => Tried'[r] # 0
                     /\ \A r \in Rows : Shown'[r] = "absent" =>
                            Shown[r] = "absent" /\ Tried'[r] = Tried[r]
  <2>1. ASSUME NEW r \in Rows, NEW s, s # "absent", Shown' = [Shown EXCEPT ![r] = s],
               Tried' = Tried
        PROVE  Goal
        BY <2>1 DEF Shown
  <2>2. ASSUME NEW r \in Rows, Posted!Take(r)
        PROVE  Goal
    <3>1. /\ Shown' = [Shown EXCEPT ![r] = "running"]
          /\ Tried' = [Tried EXCEPT ![r] = Tried[r] + 1]
          BY <2>2 DEF Posted!Take, Posted!Become, Shown, Tried
    <3>2. Tried'[r] = Tried[r] + 1 /\ Tried'[r] # 0 /\ Shown'[r] # "absent"
          BY <1>1, <3>1 DEF Shown, Tried
    <3>3. \A q \in Rows : q # r => Tried'[q] = Tried[q] /\ Shown'[q] = Shown[q]
          BY <3>1 DEF Shown, Tried
    <3> QED
        BY <3>2, <3>3
  <2>3. ASSUME NEW r \in Rows,
               Posted!Post(r) \/ Posted!GiveBack(r) \/ Posted!GiveUp(r)
        PROVE  Goal
    <3>1. /\ Tried' = Tried
          /\ \/ Shown' = [Shown EXCEPT ![r] = "queued"]
             \/ Shown' = [Shown EXCEPT ![r] = "failed"]
          BY <2>3 DEF Posted!Post, Posted!GiveBack, Posted!GiveUp, Posted!Become, Shown, Tried
    <3> QED
        BY <2>1, <3>1
  <2>4. ASSUME NEW r \in Rows, NEW o \in Outcomes, Posted!Settle(r, o)
        PROVE  Goal
    <3>1. Tried' = Tried /\ Shown' = [Shown EXCEPT ![r] = o]
          BY <2>4 DEF Posted!Settle, Posted!Become, Shown, Tried
    <3>2. o # "absent"
          BY DEF Outcomes
    <3> QED
        BY <2>1, <3>1, <3>2
  <2>5. ASSUME NEW r \in Rows, NEW o \in Outcomes, Posted!Reach(r, o)
        PROVE  Goal
    <3>1. Tried' = Tried /\ Shown' = Shown
          BY <2>5 DEF Posted!Reach, Shown, Tried
    <3> QED
        BY <3>1
  <2>6. CASE Shown' = Shown /\ Tried' = Tried
        BY <2>6
  <2>7. Posted!Outcomes = Outcomes
        BY DEF Outcomes, Posted!Outcomes
  <2> QED
      BY <2>2, <2>3, <2>4, <2>5, <2>6, <2>7 DEF PostedStep, Posted!Next
<1> QED
    BY <1>2 DEF AbsentIsNew, Shown, Tried

\* Every step keeps what the refinement rests on.
LEMMA RefineStep == RefineInv /\ [Next]_vars => RefineInv'
<1> SUFFICES ASSUME RefineInv, [Next]_vars PROVE RefineInv'
    OBVIOUS
<1> USE DEF RefineInv
<1>1. TypeInv'
      BY TypeStep, RowInHandStep DEF TypeInv
<1>2. AbsentIsNew' /\ \A r \in Rows : row[r].attempt # 0 => row'[r].attempt # 0
      BY StepIsPosted, AttemptsStand
<1>3. ASSUME NEW v \in Workers, hand'[v] = hand[v]
      PROVE  hand'[v] \in Rows => row'[hand'[v]].attempt # 0
      BY <1>2, <1>3 DEF HandWasClaimed
<1>4. ASSUME NEW w \in Workers, NEW r \in Rows, ClaimRow(w, r)
      PROVE  HandWasClaimed'
  <2>1. row'[r].attempt # 0
        BY <1>4 DEF ClaimRow, Claimed, TypeInv, TypeOK, RowRecord
  <2>2. \A v \in Workers : hand'[v] = IF v = w THEN r ELSE hand[v]
        BY <1>4 DEF ClaimRow, TypeInv, TypeOK
  <2> QED
      BY <1>3, <2>1, <2>2 DEF HandWasClaimed
<1>5. ASSUME NEW w \in Workers, hand' = [hand EXCEPT ![w] = NoRow]
      PROVE  HandWasClaimed'
      BY <1>3, <1>5 DEF HandWasClaimed, TypeInv, TypeOK
<1>6. ASSUME hand' = hand
      PROVE  HandWasClaimed'
      BY <1>3, <1>6 DEF HandWasClaimed
<1>7. ASSUME NEW w \in Workers, Step(w)
      PROVE  HandWasClaimed'
      BY <1>4, <1>5, <1>6, <1>7 DEF Step, QueryAnswered, ReleaseAnswered, ReleaseOver,
         LeaveForDrain, Ask, ClearAndClaim, ClaimEmpty, GoIdle, Execute, ReportAnswered,
         DropRow, IdleOver, Finally, Acknowledge, Exit
<1>8. ASSUME NEW w \in Workers, Disturbance(w)
      PROVE  HandWasClaimed'
      BY <1>5, <1>6, <1>8 DEF Disturbance, QueryFails, ReleaseGivenUp, ClaimGivenUp,
         ReportGivenUp, AskUnread, ClearAndClaim, AcknowledgeFails, Interrupt,
         AnswerBreaksOff, Kill, Exit, DropRow
<1>9. ASSUME NEW w \in Workers, Side(w) \/ Start(w)
      PROVE  HandWasClaimed'
      BY <1>6, <1>9 DEF Side, Beat, HubHello, HubUp, HubQueued, HubLost, AskToDrain,
         DrainTimesOut, Start, thread
<1>10. ASSUME Chimera \/ UNCHANGED vars
       PROVE  HandWasClaimed'
       BY <1>6, <1>10 DEF Chimera, Post, Age, Requeue, LateClaim, LatePatch, LostCall,
          vars, thread
<1>11. HandWasClaimed'
       BY <1>7, <1>8, <1>9, <1>10 DEF Next
<1> QED
    BY <1>1, <1>2, <1>11

\* Whoever posts a row sees the queue Queue promises, for any number of
\* workers, rows and faults: at most MaxAttempts hand-outs, an outcome that is
\* final, reached by a run or due to the attempts being used up.
THEOREM QueueImplemented == Spec => ImplementsQueue
<1>1. Init => RefineInv /\ Posted!Init
  <2>1. Init => RefineInv
        BY DEF Init, RefineInv, TypeInv, TypeOK, RowInHand, CallsTrue, RowRecord, Statuses,
               Outcomes, Verdicts, Places, InLoop, Call, AbsentIsNew, HandWasClaimed
  <2>2. Init => Posted!Init
        BY DEF Init, Posted!Init
  <2> QED
      BY <2>1, <2>2
<1>2. RefineInv /\ [Next]_vars => RefineInv'
      BY RefineStep
<1>3. RefineInv /\ [Next]_vars => [Posted!Next]_(Posted!vars)
      BY StepIsPosted DEF PostedStep, Posted!vars, Shown, Tried, Came
<1> QED
    BY <1>1, <1>2, <1>3, PTL DEF Spec, ImplementsQueue, Posted!Spec

=============================================================================
