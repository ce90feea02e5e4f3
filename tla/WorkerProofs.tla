---------------------------- MODULE WorkerProofs ----------------------------
(***************************************************************************)
(* What holds of the claim loop for any number of workers and rows.        *)
(*                                                                         *)
(* Type correctness first, with RowInHand and CallsTrue (TypeInv); then    *)
(* each safety property of Worker, inductive relative to TypeInv and the   *)
(* parts named with it.  Each part has a lemma that says every step        *)
(* preserves it, with one step per action that touches its variables.      *)
(***************************************************************************)
EXTENDS Worker, TLAPS

USE NoneAssumption, WiringAssumption, BoundAssumption

-----------------------------------------------------------------------------
(* What chimera does with a call.                                          *)

Ops == {"running", "queued"} \cup Outcomes

\* A patched row is a row.
LEMMA PatchedType ==
    ASSUME NEW x \in RowRecord, NEW w \in Workers, NEW op \in Ops
    PROVE  Patched(x, w, op) \in RowRecord
BY DEF Patched, Returned, RowRecord, Statuses, Outcomes, Ops

\* So is a row the sweep has looked at.
LEMMA AgedType ==
    ASSUME NEW x \in RowRecord
    PROVE  [x EXCEPT !.fresh = FALSE] \in RowRecord
BY DEF RowRecord

\* A patch by a worker that does not hold the row changes nothing.
LEMMA PatchRefused ==
    ASSUME NEW x, NEW w, NEW op, ~(x.status = "running" /\ x.holder = w)
    PROVE  Patched(x, w, op) = x
BY DEF Patched

\* A patch never starts a row, never changes its holder and never its attempt;
\* it ends a row with the outcome patched, or fails it on its last attempt.
LEMMA PatchedRow ==
    ASSUME NEW x \in RowRecord, NEW w \in Workers, NEW op \in Ops
    PROVE  LET y == Patched(x, w, op)
           IN  /\ y.attempt = x.attempt
               /\ y.status = "running" => x.status = "running" /\ y.holder = x.holder
               /\ y.status = "done" => x.status = "done" \/ op = "done"
               /\ y.status = "failed" =>
                      x.status = "failed" \/ op = "failed" \/ x.attempt = MaxAttempts
BY DEF Patched, Returned, RowRecord, Statuses, Outcomes, Ops

\* A call carries its worker, and its row unless it is a claim.
LEMMA CallFields ==
    ASSUME NEW m \in Call
    PROVE  /\ m.worker \in Workers
           /\ m.op # "claim" => m.row \in Rows /\ m.op \in Ops
BY DEF Call, Ops, Outcomes

-----------------------------------------------------------------------------
(* The inductive invariant's auxiliary parts.                              *)

\* A worker has a row in hand exactly while it runs or reports it, and what
\* it reports is what the execution came to.
RowInHand ==
    \A w \in Workers :
        /\ pc[w] \in {"execute", "report"} <=> hand[w] \in Rows
        /\ pc[w] = "report" =>
               outcome[w] \in Outcomes /\ <<hand[w], outcome[w]>> \in ended

\* So is a report that is still on its way.
CallsTrue ==
    \A m \in late : m.op \in Outcomes => <<m.row, m.op>> \in ended

\* What a worker that is stopped leaves in flight is a call.
LEMMA SentType ==
    ASSUME RowInHand, NEW w \in Workers
    PROVE  CallBeingSent(w) \subseteq Call
<1>1. CASE pc[w] = "claim"
      BY <1>1 DEF CallBeingSent, Call
<1>2. CASE pc[w] = "report"
  <2>1. hand[w] \in Rows /\ outcome[w] \in Outcomes
        BY <1>2 DEF RowInHand
  <2>2. [op |-> outcome[w], worker |-> w, row |-> hand[w]] \in Call
        BY <2>1 DEF Call
  <2> QED
      BY <1>2, <2>2 DEF CallBeingSent
<1>3. CASE pc[w] \notin {"claim", "report"}
      BY <1>3 DEF CallBeingSent
<1> QED
    BY <1>1, <1>2, <1>3

-----------------------------------------------------------------------------
(* Type correctness.                                                       *)

\* Every step keeps the variables' types.
LEMMA TypeStep == TypeOK /\ RowInHand /\ [Next]_vars => TypeOK'
<1> SUFFICES ASSUME TypeOK, RowInHand, [Next]_vars PROVE TypeOK'
    OBVIOUS
<1> USE DEF RowRecord, Statuses, Outcomes, Verdicts, Places, InLoop,
            server, thread, channel, history
<1>1. ASSUME NEW r \in Rows, Post(r)
      PROVE  TypeOK'
      BY <1>1 DEF TypeOK, Post
<1>2. ASSUME NEW r \in Rows, Age(r)
      PROVE  TypeOK'
  <2>1. [row[r] EXCEPT !.fresh = FALSE] \in RowRecord
        BY AgedType DEF TypeOK
  <2>2. row' \in [Rows -> RowRecord]
        BY <1>2, <2>1 DEF Age, TypeOK
  <2> QED
        BY <1>2, <2>2 DEF Age, TypeOK
<1>3. ASSUME NEW r \in Rows, Requeue(r)
      PROVE  TypeOK'
      BY <1>3 DEF TypeOK, Requeue, Returned, Lose, Taken
<1>4. ASSUME NEW m \in late, NEW r \in Rows, LateClaim(m, r)
      PROVE  TypeOK'
      BY <1>4 DEF TypeOK, LateClaim, Claimable, Claimed, Call
<1>5. ASSUME NEW m \in late, LatePatch(m)
      PROVE  TypeOK'
  <2>1. m.worker \in Workers /\ m.row \in Rows /\ m.op \in Ops
        BY <1>5, CallFields DEF LatePatch, TypeOK
  <2>2. row[m.row] \in RowRecord
        BY <2>1 DEF TypeOK
  <2>3. Patched(row[m.row], m.worker, m.op) \in RowRecord
        BY ONLY <2>1, <2>2, PatchedType
  <2> QED
        BY <1>5, <2>1, <2>3 DEF LatePatch, Lose, TypeOK
<1>6. ASSUME NEW m \in late, LostCall(m)
      PROVE  TypeOK'
      BY <1>6 DEF TypeOK, LostCall
<1>7. ASSUME NEW w \in Workers, NEW r \in Rows, ReleaseAnswered(w, r)
      PROVE  TypeOK'
  <2>1. Patched(row[r], w, "queued") \in RowRecord
        BY PatchedType DEF TypeOK, Ops
  <2> QED
        BY <1>7, <2>1 DEF ReleaseAnswered, TypeOK
<1>8. ASSUME NEW w \in Workers, NEW r \in Rows, ClaimRow(w, r)
      PROVE  TypeOK'
      BY <1>8 DEF TypeOK, ClaimRow, Claimable, Claimed, Goto
<1>9. ASSUME NEW w \in Workers, NEW r \in Rows, ReleaseGivenUp(w, r)
      PROVE  TypeOK'
      BY <1>9 DEF TypeOK, ReleaseGivenUp, GiveUp, Fault, Call
<1>10. ASSUME NEW w \in Workers, NEW o \in Outcomes, Execute(w, o)
      PROVE  TypeOK'
  <2>1. hand[w] \in Rows
        BY <1>10 DEF Execute, RowInHand
  <2>2. ended' \subseteq Rows \X Outcomes
        BY <1>10, <2>1 DEF Execute, TypeOK
  <2> QED
        BY <1>10, <2>2 DEF TypeOK, Execute, Goto
<1>11. ASSUME NEW w \in Workers, Start(w)
      PROVE  TypeOK'
      BY <1>11 DEF TypeOK, Start, Goto
<1>12. ASSUME NEW w \in Workers, QueryAnswered(w)
      PROVE  TypeOK'
      BY <1>12 DEF TypeOK, QueryAnswered, Goto, HeldBy
<1>13. ASSUME NEW w \in Workers, ReleaseOver(w)
      PROVE  TypeOK'
      BY <1>13 DEF TypeOK, ReleaseOver, Goto, AfterRelease
<1>14. ASSUME NEW w \in Workers, LeaveForDrain(w)
      PROVE  TypeOK'
      BY <1>14 DEF TypeOK, LeaveForDrain, Goto
<1>15. ASSUME NEW w \in Workers, Ask(w)
      PROVE  TypeOK'
      BY <1>15 DEF TypeOK, Ask, ClearAndClaim, Goto
<1>16. ASSUME NEW w \in Workers, ClaimEmpty(w)
      PROVE  TypeOK'
      BY <1>16 DEF TypeOK, ClaimEmpty, Goto
<1>17. ASSUME NEW w \in Workers, GoIdle(w)
      PROVE  TypeOK'
      BY <1>17 DEF TypeOK, GoIdle, Goto, AfterRow
<1>18. ASSUME NEW w \in Workers, IdleOver(w)
      PROVE  TypeOK'
      BY <1>18 DEF TypeOK, IdleOver, Goto
<1>19. ASSUME NEW w \in Workers, Finally(w)
      PROVE  TypeOK'
      BY <1>19 DEF TypeOK, Finally, Goto
<1>20. ASSUME NEW w \in Workers, QueryFails(w)
      PROVE  TypeOK'
      BY <1>20 DEF TypeOK, QueryFails, Fault, Goto, AfterRelease
<1>21. ASSUME NEW w \in Workers, AskUnread(w)
      PROVE  TypeOK'
      BY <1>21 DEF TypeOK, AskUnread, Fault, ClearAndClaim, Goto
<1>22. ASSUME NEW w \in Workers, HubHello(w)
      PROVE  TypeOK'
      BY <1>22 DEF TypeOK, HubHello, Listening
<1>23. ASSUME NEW w \in Workers, HubUp(w)
      PROVE  TypeOK'
      BY <1>23 DEF TypeOK, HubUp
<1>24. ASSUME NEW w \in Workers, HubQueued(w)
      PROVE  TypeOK'
      BY <1>24 DEF TypeOK, HubQueued
<1>25. ASSUME NEW w \in Workers, HubLost(w)
      PROVE  TypeOK'
      BY <1>25 DEF TypeOK, HubLost
<1>26. ASSUME NEW w \in Workers, AskToDrain(w)
      PROVE  TypeOK'
      BY <1>26 DEF TypeOK, AskToDrain, Fault
<1>27. ASSUME NEW w \in Workers, DrainTimesOut(w)
      PROVE  TypeOK'
      BY <1>27 DEF TypeOK, DrainTimesOut
<1>28. ASSUME NEW w \in Workers, ClaimGivenUp(w)
      PROVE  TypeOK'
      BY <1>28 DEF TypeOK, ClaimGivenUp, GiveUp, Fault, Goto, AfterRow, Call
<1>29. ASSUME NEW w \in Workers, AcknowledgeFails(w)
      PROVE  TypeOK'
      BY <1>29 DEF TypeOK, AcknowledgeFails, Fault, Exit, DropRow, Goto, Call
<1>30. ASSUME NEW w \in Workers, Acknowledge(w)
      PROVE  TypeOK'
      BY <1>30 DEF TypeOK, Acknowledge, Exit, DropRow, Goto, Call
<1>31. ASSUME NEW w \in Workers, Interrupt(w)
      PROVE  TypeOK'
  <2>1. CallBeingSent(w) \subseteq Call
        BY SentType
  <2>2. late' \subseteq Call
        BY <1>31, <2>1 DEF Interrupt, TypeOK
  <2> QED
        BY <1>31, <2>2 DEF TypeOK, Interrupt, Fault, DropRow, Goto
<1>37. ASSUME NEW w \in Workers, AnswerBreaksOff(w)
      PROVE  TypeOK'
  <2>1. CallBeingSent(w) \subseteq Call
        BY SentType
  <2>2. late' \subseteq Call
        BY <1>37, <2>1 DEF AnswerBreaksOff, TypeOK
  <2> QED
        BY <1>37, <2>2 DEF TypeOK, AnswerBreaksOff, Fault, DropRow, Goto
<1>32. ASSUME NEW w \in Workers, Kill(w)
      PROVE  TypeOK'
  <2>1. CallBeingSent(w) \subseteq Call
        BY SentType
  <2>2. late' \subseteq Call
        BY <1>32, <2>1 DEF Kill, TypeOK
  <2> QED
        BY <1>32, <2>2 DEF TypeOK, Kill, Fault, Exit, DropRow, Goto
<1>33. ASSUME NEW w \in Workers, Beat(w)
      PROVE  TypeOK'
  <2>1. [op |-> "running", worker |-> w, row |-> hand[w]] \in Call
        BY <1>33 DEF Beat, RowInHand, Call
  <2> QED
        BY <1>33, <2>1 DEF Beat, TypeOK
<1>34. ASSUME NEW w \in Workers, ReportAnswered(w)
      PROVE  TypeOK'
  <2>1. hand[w] \in Rows /\ outcome[w] \in Ops
        BY <1>34 DEF ReportAnswered, RowInHand, Ops
  <2>2. Patched(row[hand[w]], w, outcome[w]) \in RowRecord
        BY <2>1, PatchedType DEF TypeOK
  <2>3. row' \in [Rows -> RowRecord]
        BY <1>34, <2>1, <2>2 DEF ReportAnswered, TypeOK
  <2> QED
        BY <1>34, <2>3 DEF TypeOK, ReportAnswered, DropRow, Goto, AfterRow
<1>35. ASSUME NEW w \in Workers, ReportGivenUp(w)
      PROVE  TypeOK'
  <2>1. [op |-> outcome[w], worker |-> w, row |-> hand[w]] \in Call
        BY <1>35 DEF ReportGivenUp, RowInHand, Call
  <2> QED
        BY <1>35, <2>1 DEF TypeOK, ReportGivenUp, GiveUp, Fault, DropRow, Goto, AfterRow
<1>36. CASE UNCHANGED vars
      BY <1>36 DEF TypeOK, vars
<1> QED
      BY <1>1, <1>2, <1>3, <1>4, <1>5, <1>6, <1>7, <1>8, <1>9, <1>10, <1>11, <1>12, <1>13, <1>14, <1>15, <1>16, <1>17, <1>18, <1>19, <1>20, <1>21, <1>22, <1>23, <1>24, <1>25, <1>26, <1>27, <1>28, <1>29, <1>30, <1>31, <1>32, <1>33, <1>34, <1>35, <1>36, <1>37
      DEF Next, Chimera, Step, Disturbance, Side

\* Every step keeps the reports, made or on their way, true.
LEMMA RowInHandStep ==
    TypeOK /\ RowInHand /\ CallsTrue /\ [Next]_vars => RowInHand' /\ CallsTrue'
<1> SUFFICES ASSUME TypeOK, RowInHand, CallsTrue, [Next]_vars
             PROVE  RowInHand' /\ CallsTrue'
    OBVIOUS
<1> USE DEF Outcomes, InLoop, server, thread, channel, history
<1>1. ASSUME NEW r \in Rows, Post(r)
      PROVE  RowInHand' /\ CallsTrue'
      BY <1>1 DEF RowInHand, CallsTrue, Post
<1>2. ASSUME NEW r \in Rows, Age(r)
      PROVE  RowInHand' /\ CallsTrue'
      BY <1>2 DEF RowInHand, CallsTrue, Age
<1>3. ASSUME NEW r \in Rows, Requeue(r)
      PROVE  RowInHand' /\ CallsTrue'
      BY <1>3 DEF RowInHand, CallsTrue, Requeue
<1>4. ASSUME NEW m \in late, NEW r \in Rows, LateClaim(m, r)
      PROVE  RowInHand' /\ CallsTrue'
      BY <1>4 DEF RowInHand, CallsTrue, LateClaim
<1>5. ASSUME NEW m \in late, LatePatch(m)
      PROVE  RowInHand' /\ CallsTrue'
      BY <1>5 DEF RowInHand, CallsTrue, LatePatch
<1>6. ASSUME NEW m \in late, LostCall(m)
      PROVE  RowInHand' /\ CallsTrue'
      BY <1>6 DEF RowInHand, CallsTrue, LostCall
<1>7. ASSUME NEW w \in Workers, NEW r \in Rows, ReleaseAnswered(w, r)
      PROVE  RowInHand' /\ CallsTrue'
      BY <1>7 DEF TypeOK, RowInHand, CallsTrue, ReleaseAnswered
<1>8. ASSUME NEW w \in Workers, NEW r \in Rows, ClaimRow(w, r)
      PROVE  RowInHand' /\ CallsTrue'
      BY <1>8 DEF TypeOK, RowInHand, CallsTrue, ClaimRow, Claimable, Claimed, Goto
<1>9. ASSUME NEW w \in Workers, NEW r \in Rows, ReleaseGivenUp(w, r)
      PROVE  RowInHand' /\ CallsTrue'
      BY <1>9 DEF TypeOK, RowInHand, CallsTrue, ReleaseGivenUp, GiveUp, Fault
<1>10. ASSUME NEW w \in Workers, NEW o \in Outcomes, Execute(w, o)
      PROVE  RowInHand' /\ CallsTrue'
      BY <1>10 DEF TypeOK, RowInHand, CallsTrue, Execute, Goto
<1>11. ASSUME NEW w \in Workers, Start(w)
      PROVE  RowInHand' /\ CallsTrue'
      BY <1>11 DEF TypeOK, RowInHand, CallsTrue, Start, Goto
<1>12. ASSUME NEW w \in Workers, QueryAnswered(w)
      PROVE  RowInHand' /\ CallsTrue'
      BY <1>12 DEF TypeOK, RowInHand, CallsTrue, QueryAnswered, Goto, HeldBy
<1>13. ASSUME NEW w \in Workers, ReleaseOver(w)
      PROVE  RowInHand' /\ CallsTrue'
      BY <1>13 DEF TypeOK, RowInHand, CallsTrue, ReleaseOver, Goto, AfterRelease
<1>14. ASSUME NEW w \in Workers, LeaveForDrain(w)
      PROVE  RowInHand' /\ CallsTrue'
      BY <1>14 DEF TypeOK, RowInHand, CallsTrue, LeaveForDrain, Goto
<1>15. ASSUME NEW w \in Workers, Ask(w)
      PROVE  RowInHand' /\ CallsTrue'
      BY <1>15 DEF TypeOK, RowInHand, CallsTrue, Ask, ClearAndClaim, Goto
<1>16. ASSUME NEW w \in Workers, ClaimEmpty(w)
      PROVE  RowInHand' /\ CallsTrue'
      BY <1>16 DEF TypeOK, RowInHand, CallsTrue, ClaimEmpty, Goto
<1>17. ASSUME NEW w \in Workers, GoIdle(w)
      PROVE  RowInHand' /\ CallsTrue'
      BY <1>17 DEF TypeOK, RowInHand, CallsTrue, GoIdle, Goto, AfterRow
<1>18. ASSUME NEW w \in Workers, IdleOver(w)
      PROVE  RowInHand' /\ CallsTrue'
      BY <1>18 DEF TypeOK, RowInHand, CallsTrue, IdleOver, Goto
<1>19. ASSUME NEW w \in Workers, Finally(w)
      PROVE  RowInHand' /\ CallsTrue'
      BY <1>19 DEF TypeOK, RowInHand, CallsTrue, Finally, Goto
<1>20. ASSUME NEW w \in Workers, QueryFails(w)
      PROVE  RowInHand' /\ CallsTrue'
      BY <1>20 DEF TypeOK, RowInHand, CallsTrue, QueryFails, Fault, Goto, AfterRelease
<1>21. ASSUME NEW w \in Workers, AskUnread(w)
      PROVE  RowInHand' /\ CallsTrue'
      BY <1>21 DEF TypeOK, RowInHand, CallsTrue, AskUnread, Fault, ClearAndClaim, Goto
<1>22. ASSUME NEW w \in Workers, HubHello(w)
      PROVE  RowInHand' /\ CallsTrue'
      BY <1>22 DEF TypeOK, RowInHand, CallsTrue, HubHello, Listening
<1>23. ASSUME NEW w \in Workers, HubUp(w)
      PROVE  RowInHand' /\ CallsTrue'
      BY <1>23 DEF TypeOK, RowInHand, CallsTrue, HubUp
<1>24. ASSUME NEW w \in Workers, HubQueued(w)
      PROVE  RowInHand' /\ CallsTrue'
      BY <1>24 DEF TypeOK, RowInHand, CallsTrue, HubQueued
<1>25. ASSUME NEW w \in Workers, HubLost(w)
      PROVE  RowInHand' /\ CallsTrue'
      BY <1>25 DEF TypeOK, RowInHand, CallsTrue, HubLost
<1>26. ASSUME NEW w \in Workers, AskToDrain(w)
      PROVE  RowInHand' /\ CallsTrue'
      BY <1>26 DEF TypeOK, RowInHand, CallsTrue, AskToDrain, Fault
<1>27. ASSUME NEW w \in Workers, DrainTimesOut(w)
      PROVE  RowInHand' /\ CallsTrue'
      BY <1>27 DEF TypeOK, RowInHand, CallsTrue, DrainTimesOut
<1>28. ASSUME NEW w \in Workers, ClaimGivenUp(w)
      PROVE  RowInHand' /\ CallsTrue'
      BY <1>28 DEF TypeOK, RowInHand, CallsTrue, ClaimGivenUp, GiveUp, Fault, Goto, AfterRow
<1>29. ASSUME NEW w \in Workers, ReportAnswered(w)
      PROVE  RowInHand' /\ CallsTrue'
      BY <1>29 DEF TypeOK, RowInHand, CallsTrue, ReportAnswered, DropRow, Goto, AfterRow
<1>30. ASSUME NEW w \in Workers, ReportGivenUp(w)
      PROVE  RowInHand' /\ CallsTrue'
      BY <1>30 DEF TypeOK, RowInHand, CallsTrue, ReportGivenUp, GiveUp, Fault, DropRow, Goto, AfterRow
<1>31. ASSUME NEW w \in Workers, Interrupt(w)
      PROVE  RowInHand' /\ CallsTrue'
      BY <1>31 DEF TypeOK, RowInHand, CallsTrue, Interrupt, Fault, CallBeingSent, DropRow, Goto
<1>37. ASSUME NEW w \in Workers, AnswerBreaksOff(w)
      PROVE  RowInHand' /\ CallsTrue'
      BY <1>37 DEF TypeOK, RowInHand, CallsTrue, AnswerBreaksOff, Fault, CallBeingSent, DropRow, Goto
<1>32. ASSUME NEW w \in Workers, Kill(w)
      PROVE  RowInHand' /\ CallsTrue'
      BY <1>32 DEF TypeOK, RowInHand, CallsTrue, Kill, Fault, CallBeingSent, Exit, DropRow, Goto
<1>33. ASSUME NEW w \in Workers, Acknowledge(w)
      PROVE  RowInHand' /\ CallsTrue'
      BY <1>33 DEF TypeOK, RowInHand, CallsTrue, Acknowledge, Exit, DropRow, Goto
<1>34. ASSUME NEW w \in Workers, AcknowledgeFails(w)
      PROVE  RowInHand' /\ CallsTrue'
      BY <1>34 DEF TypeOK, RowInHand, CallsTrue, AcknowledgeFails, Fault, Exit, DropRow, Goto
<1>35. ASSUME NEW w \in Workers, Beat(w)
      PROVE  RowInHand' /\ CallsTrue'
      BY <1>35 DEF TypeOK, RowInHand, CallsTrue, Beat
<1>36. CASE UNCHANGED vars
      BY <1>36 DEF RowInHand, CallsTrue, vars
<1> QED
      BY <1>1, <1>2, <1>3, <1>4, <1>5, <1>6, <1>7, <1>8, <1>9, <1>10, <1>11, <1>12, <1>13, <1>14, <1>15, <1>16, <1>17, <1>18, <1>19, <1>20, <1>21, <1>22, <1>23, <1>24, <1>25, <1>26, <1>27, <1>28, <1>29, <1>30, <1>31, <1>32, <1>33, <1>34, <1>35, <1>36, <1>37
      DEF Next, Chimera, Step, Disturbance, Side

TypeInv == TypeOK /\ RowInHand /\ CallsTrue

\* Every reachable state is well typed.
THEOREM TypeCorrect == Spec => []TypeOK
<1>1. Init => TypeInv
      BY DEF Init, TypeInv, TypeOK, RowInHand, CallsTrue, RowRecord, Statuses,
             Outcomes, Verdicts, Places, InLoop, Call
<1>2. TypeInv /\ [Next]_vars => TypeInv'
      BY TypeStep, RowInHandStep DEF TypeInv
<1>3. TypeInv => TypeOK
      BY DEF TypeInv
<1> QED
      BY <1>1, <1>2, <1>3, PTL DEF Spec

-----------------------------------------------------------------------------
(* HandIsHeld.                                                             *)

\* Every step keeps the row in hand held by its worker.
LEMMA HandIsHeldStep ==
    TypeInv /\ HandIsHeld /\ [Next]_vars => HandIsHeld'
<1> SUFFICES ASSUME TypeInv, HandIsHeld, [Next]_vars PROVE HandIsHeld'
    OBVIOUS
<1> USE DEF TypeInv, HandIsHeld, HeldBy, server, thread, channel, history
<1>0. \A r \in Rows : row[r] \in RowRecord
      BY DEF TypeOK
<1>1. ASSUME NEW r \in Rows, Post(r)
      PROVE  HandIsHeld'
      BY <1>1 DEF Post, TypeOK
<1>2. ASSUME NEW r \in Rows, Age(r)
      PROVE  HandIsHeld'
      BY <1>0, <1>2 DEF Age, TypeOK, RowRecord
<1>3. ASSUME NEW r \in Rows, Requeue(r)
      PROVE  HandIsHeld'
      BY <1>0, <1>3 DEF Requeue, Returned, Lose, Taken, TypeOK
<1>4. ASSUME NEW m \in late, NEW r \in Rows, LateClaim(m, r)
      PROVE  HandIsHeld'
      BY <1>4 DEF LateClaim, Claimable, TypeOK
<1>5. ASSUME NEW m \in late, LatePatch(m)
      PROVE  HandIsHeld'
  <2>1. m.row \in Rows
        BY <1>5, CallFields DEF LatePatch, TypeOK
  <2> QED
      BY <1>5, <2>1 DEF LatePatch, Lose, Taken, TypeOK
<1>6. ASSUME NEW w \in Workers, NEW r \in Rows, ReleaseAnswered(w, r)
      PROVE  HandIsHeld'
  <2>1. hand[w] = NoRow
        BY <1>6 DEF ReleaseAnswered, RowInHand, TypeOK
  <2>2. \A v \in Workers : v # w /\ row[r].holder = v => row'[r] = row[r]
        BY <1>6, PatchRefused DEF ReleaseAnswered, TypeOK
  <2> QED
      BY <1>6, <2>1, <2>2 DEF ReleaseAnswered, TypeOK
<1>7. ASSUME NEW w \in Workers, NEW r \in Rows, ClaimRow(w, r)
      PROVE  HandIsHeld'
      BY <1>7 DEF ClaimRow, Claimable, Claimed, TypeOK
<1>8. ASSUME NEW w \in Workers, ReportAnswered(w)
      PROVE  HandIsHeld'
  <2>1. hand[w] \in Rows
        BY <1>8 DEF ReportAnswered, RowInHand
  <2>2. \A v \in Workers : v # w /\ row[hand[w]].holder = v => row'[hand[w]] = row[hand[w]]
        BY <1>8, <2>1, PatchRefused DEF ReportAnswered, TypeOK
  <2> QED
      BY <1>8, <2>1, <2>2 DEF ReportAnswered, DropRow, TypeOK
<1>9. ASSUME NEW w \in Workers,
             ReportGivenUp(w) \/ Interrupt(w) \/ AnswerBreaksOff(w) \/ Kill(w) \/ Acknowledge(w)
             \/ AcknowledgeFails(w)
      PROVE  HandIsHeld'
      BY <1>9 DEF ReportGivenUp, Interrupt, AnswerBreaksOff, Kill, Acknowledge, AcknowledgeFails,
                  GiveUp, Exit, DropRow, TypeOK
<1>10. CASE UNCHANGED <<row, hand, superseded>>
      BY <1>10
<1> QED
  <2>1. ASSUME NEW m \in late, LostCall(m)
        PROVE  HandIsHeld'
        BY <1>10, <2>1 DEF LostCall
  <2>2. ASSUME NEW w \in Workers, NEW r \in Rows, ReleaseGivenUp(w, r)
        PROVE  HandIsHeld'
        BY <1>10, <2>2 DEF ReleaseGivenUp, GiveUp
  <2>3. ASSUME NEW w \in Workers, Side(w) \/ Start(w)
        PROVE  HandIsHeld'
        BY <1>10, <2>3 DEF Side, Beat, HubHello, HubUp, HubQueued, HubLost,
           AskToDrain, DrainTimesOut, Start
  <2>4. ASSUME NEW w \in Workers, Step(w)
        PROVE  HandIsHeld'
        BY <1>6, <1>7, <1>8, <1>9, <1>10, <2>4 DEF Step, QueryAnswered, ReleaseOver,
           LeaveForDrain, Ask, ClearAndClaim, ClaimEmpty, GoIdle, Execute, IdleOver,
           Finally
  <2>5. ASSUME NEW w \in Workers, Disturbance(w)
        PROVE  HandIsHeld'
        BY <1>9, <1>10, <2>2, <2>5 DEF Disturbance, QueryFails, ClaimGivenUp,
           GiveUp, AskUnread, ClearAndClaim
  <2>6. CASE UNCHANGED vars
        BY <1>10, <2>6 DEF vars
  <2> QED
      BY <1>1, <1>2, <1>3, <1>4, <1>5, <2>1, <2>3, <2>4, <2>5, <2>6 DEF Next, Chimera

\* No release and no claim ever takes a row from the worker that is drawing it.
THEOREM HandSafe == Spec => []HandIsHeld
<1>1. Init => TypeInv /\ HandIsHeld
      BY DEF Init, TypeInv, TypeOK, RowInHand, CallsTrue, RowRecord, Statuses,
             Outcomes, Verdicts, Places, InLoop, Call, HandIsHeld, HeldBy
<1>2. TypeInv /\ HandIsHeld /\ [Next]_vars => TypeInv' /\ HandIsHeld'
      BY TypeStep, RowInHandStep, HandIsHeldStep DEF TypeInv
<1> QED
      BY <1>1, <1>2, PTL DEF Spec


-----------------------------------------------------------------------------
(* NothingLeftRunning.                                                     *)

\* Rows wait in todo only while release_claims goes through them.
TodoInRelease == \A w \in Workers : todo[w] # {} => pc[w] = "release"

\* Every step keeps the rows to release within release_claims.
LEMMA TodoStep == TypeInv /\ TodoInRelease /\ [Next]_vars => TodoInRelease'
<1> SUFFICES ASSUME TypeInv, TodoInRelease, [Next]_vars PROVE TodoInRelease'
    OBVIOUS
<1> USE DEF TypeInv, TypeOK, TodoInRelease, InLoop, server, thread, channel, history
<1>1. ASSUME NEW w \in Workers, NEW r \in Rows,
             ReleaseAnswered(w, r) \/ ReleaseGivenUp(w, r) \/ ClaimRow(w, r)
      PROVE  TodoInRelease'
      BY <1>1 DEF ReleaseAnswered, ReleaseGivenUp, GiveUp, Fault, ClaimRow, Goto
<1>2. ASSUME NEW w \in Workers, Step(w), \A r \in Rows : ~ReleaseAnswered(w, r) /\ ~ClaimRow(w, r)
      PROVE  TodoInRelease'
      BY <1>2 DEF Step, QueryAnswered, ReleaseOver, LeaveForDrain, Ask,
         ClearAndClaim, ClaimEmpty, GoIdle, Execute, ReportAnswered, DropRow,
         IdleOver, Finally, Acknowledge, Exit, Goto
<1>3. ASSUME NEW w \in Workers, Disturbance(w), \A r \in Rows : ~ReleaseGivenUp(w, r)
      PROVE  TodoInRelease'
      BY <1>3 DEF Disturbance, QueryFails, ClaimGivenUp, ReportGivenUp, AskUnread,
         ClearAndClaim, AcknowledgeFails, Interrupt, AnswerBreaksOff, Kill, Exit, DropRow, Goto
<1>4. ASSUME NEW w \in Workers, Side(w) \/ Start(w)
      PROVE  TodoInRelease'
      BY <1>4 DEF Side, Beat, HubHello, HubUp, HubQueued, HubLost, AskToDrain,
         DrainTimesOut, Start, Goto
<1>5. CASE Chimera \/ UNCHANGED vars
      BY <1>5 DEF Chimera, Post, Age, Requeue, LatePatch, LostCall, LateClaim, vars
<1> QED
    BY <1>1, <1>2, <1>3, <1>4, <1>5 DEF Next, Step, Disturbance

\* Every step keeps what a worker leaves running in its todo or its hand.
LEMMA LeftStep == TypeInv /\ NothingLeftRunning /\ [Next]_vars => NothingLeftRunning'
<1> SUFFICES ASSUME TypeInv, NothingLeftRunning, [Next]_vars PROVE NothingLeftRunning'
    OBVIOUS
<1> USE DEF TypeInv, NothingLeftRunning, HeldBy, server, thread, channel, history
<1>0. \A r \in Rows : row[r] \in RowRecord
      BY DEF TypeOK
<1>1. ASSUME NEW r \in Rows, Post(r) \/ Age(r) \/ Requeue(r)
      PROVE  NothingLeftRunning'
      BY <1>0, <1>1 DEF Post, Age, Requeue, Returned, TypeOK, RowRecord
<1>2. ASSUME NEW m \in late, NEW r \in Rows, LateClaim(m, r)
      PROVE  NothingLeftRunning'
  <2>1. m.worker \in Workers
        BY CallFields DEF TypeOK
  <2> QED
      BY <1>2, <2>1 DEF LateClaim, Claimed, TypeOK
<1>3. ASSUME NEW m \in late, LatePatch(m)
      PROVE  NothingLeftRunning'
  <2>1. m.row \in Rows /\ m.worker \in Workers /\ m.op \in Ops
        BY <1>3, CallFields DEF LatePatch, TypeOK
  <2>2. row'[m.row].status = "running" =>
            row[m.row].status = "running" /\ row'[m.row].holder = row[m.row].holder
        BY <1>0, <1>3, <2>1, PatchedRow DEF LatePatch, TypeOK
  <2> QED
      BY <1>3, <2>1, <2>2 DEF LatePatch, TypeOK
<1>4. ASSUME NEW w \in Workers, NEW r \in Rows, ReleaseAnswered(w, r)
      PROVE  NothingLeftRunning'
  <2>1. row'[r].status = "running" =>
            row[r].status = "running" /\ row'[r].holder = row[r].holder
        BY <1>0, <1>4, PatchedRow DEF ReleaseAnswered, TypeOK, Ops
  <2>2. r \notin HeldBy(w)'
        BY <1>0, <1>4 DEF ReleaseAnswered, Patched, Returned, TypeOK
  <2> QED
      BY <1>4, <2>1, <2>2 DEF ReleaseAnswered, TypeOK
<1>5. ASSUME NEW w \in Workers, NEW r \in Rows, ClaimRow(w, r)
      PROVE  NothingLeftRunning'
  <2>1. hand[w] \notin Rows
        BY <1>5 DEF ClaimRow, RowInHand
  <2> QED
      BY <1>5, <2>1 DEF ClaimRow, Claimed, TypeOK
<1>6. ASSUME NEW w \in Workers, ReportAnswered(w)
      PROVE  NothingLeftRunning'
  <2>1. hand[w] \in Rows /\ outcome[w] \in Outcomes
        BY <1>6 DEF ReportAnswered, RowInHand
  <2>2. row'[hand[w]].status = "running" =>
            row[hand[w]].status = "running" /\ row'[hand[w]].holder = row[hand[w]].holder
    <3>1. outcome[w] \in Ops /\ row[hand[w]] \in RowRecord
          BY <1>0, <2>1 DEF Ops
    <3>2. row'[hand[w]] = Patched(row[hand[w]], w, outcome[w])
          BY <1>6, <2>1 DEF ReportAnswered, TypeOK
    <3> QED
        BY <3>1, <3>2, PatchedRow
  <2>3. hand[w] \notin HeldBy(w)'
        BY <1>0, <1>6, <2>1 DEF ReportAnswered, Patched, TypeOK, Outcomes
  <2> QED
      BY <1>6, <2>1, <2>2, <2>3 DEF ReportAnswered, DropRow, TypeOK
<1>7. ASSUME NEW w \in Workers, QueryAnswered(w)
      PROVE  NothingLeftRunning'
      BY <1>7 DEF QueryAnswered, TypeOK
<1>8. ASSUME NEW w \in Workers, clean' = [clean EXCEPT ![w] = FALSE], UNCHANGED row,
             \A v \in Workers \ {w} : hand'[v] = hand[v] /\ todo'[v] = todo[v]
      PROVE  NothingLeftRunning'
      BY <1>8 DEF TypeOK
<1>9. CASE UNCHANGED <<row, hand, todo, clean>>
      BY <1>9
<1>10. ASSUME NEW w \in Workers, Disturbance(w)
       PROVE  NothingLeftRunning'
  <2>1. ASSUME AskUnread(w)
        PROVE  NothingLeftRunning'
        BY <1>9, <2>1 DEF AskUnread, ClearAndClaim
  <2>2. ASSUME QueryFails(w) \/ ClaimGivenUp(w) \/ ReportGivenUp(w) \/ Interrupt(w) \/ AnswerBreaksOff(w)
               \/ Kill(w) \/ AcknowledgeFails(w)
        PROVE  NothingLeftRunning'
        BY <1>8, <2>2 DEF QueryFails, ClaimGivenUp, ReportGivenUp, Interrupt, AnswerBreaksOff, Kill,
           AcknowledgeFails, GiveUp, Exit, DropRow, TypeOK
  <2>3. ASSUME NEW r \in Rows, ReleaseGivenUp(w, r)
        PROVE  NothingLeftRunning'
        BY <1>8, <2>3 DEF ReleaseGivenUp, GiveUp, TypeOK
  <2> QED
      BY <1>10, <2>1, <2>2, <2>3 DEF Disturbance
<1>11. ASSUME NEW w \in Workers, Step(w) \/ Side(w) \/ Start(w)
       PROVE  NothingLeftRunning'
  <2>1. ASSUME Acknowledge(w)
        PROVE  NothingLeftRunning'
        BY <1>8, <2>1 DEF Acknowledge, Exit, DropRow, TypeOK
  <2> QED
      BY <1>4, <1>5, <1>6, <1>7, <1>9, <1>11, <2>1 DEF Step, ReleaseOver,
         LeaveForDrain, Ask, ClearAndClaim, ClaimEmpty, GoIdle, Execute, IdleOver,
         Finally, Side, Beat, HubHello, HubUp, HubQueued, HubLost, AskToDrain,
         DrainTimesOut, Start
<1>12. CASE UNCHANGED vars
       BY <1>9, <1>12 DEF vars
<1>13. ASSUME NEW m \in late, LostCall(m)
       PROVE  NothingLeftRunning'
       BY <1>9, <1>13 DEF LostCall
<1> QED
    BY <1>1, <1>2, <1>3, <1>10, <1>11, <1>12, <1>13 DEF Next, Chimera

\* A worker whose calls were answered leaves no row behind as running.
THEOREM NothingLeftSafe == Spec => []NothingLeftRunning
<1>1. Init => TypeInv /\ NothingLeftRunning
      BY DEF Init, TypeInv, TypeOK, RowInHand, CallsTrue, RowRecord, Statuses,
             Outcomes, Verdicts, Places, InLoop, Call, NothingLeftRunning, HeldBy
<1>2. TypeInv /\ NothingLeftRunning /\ [Next]_vars => TypeInv' /\ NothingLeftRunning'
      BY TypeStep, RowInHandStep, LeftStep DEF TypeInv
<1> QED
    BY <1>1, <1>2, PTL DEF Spec

\* The drain file is deleted by the worker only when it is at rest.
THEOREM AckSafe == Spec => AckOnlyAtRest
<1> DEFINE Inv == TypeInv /\ TodoInRelease /\ NothingLeftRunning
<1>1. Init => Inv
      BY DEF Init, TypeInv, TypeOK, RowInHand, CallsTrue, RowRecord, Statuses, Outcomes,
             Verdicts, Places, InLoop, Call, NothingLeftRunning, HeldBy, TodoInRelease
<1>2. Inv /\ [Next]_vars => Inv'
      BY TypeStep, RowInHandStep, TodoStep, LeftStep DEF TypeInv
<1>3. Inv /\ [Next]_vars =>
          [\A w \in Workers : drain[w] /\ ~drain'[w] /\ pc'[w] # pc[w] =>
                hand[w] = NoRow /\ (clean[w] => HeldBy(w) = {})]_vars
  <2> SUFFICES ASSUME Inv, Next, NEW w \in Workers,
                      drain[w], ~drain'[w], pc'[w] # pc[w]
               PROVE  hand[w] = NoRow /\ (clean[w] => HeldBy(w) = {})
      OBVIOUS
  <2>1. pc[w] = "ack"
    <3>1. \A v \in Workers : ~DrainTimesOut(v)
          BY DEF DrainTimesOut, thread
    <3>2. \E v \in Workers : Acknowledge(v)
          BY <3>1 DEF Next, Chimera, Post, Age, Requeue, LateClaim, LatePatch, LostCall,
             Start, Step, QueryAnswered, ReleaseAnswered, ReleaseOver, LeaveForDrain,
             Ask, ClearAndClaim, ClaimRow, ClaimEmpty, GoIdle, Execute, ReportAnswered,
             IdleOver, Finally, Disturbance, QueryFails, ReleaseGivenUp, ClaimGivenUp,
             ReportGivenUp, AskUnread, AcknowledgeFails, Interrupt, AnswerBreaksOff, Kill, Side, Beat,
             HubHello, HubUp, HubQueued, HubLost, AskToDrain, TypeInv, TypeOK
    <3> QED
        BY <3>2 DEF Acknowledge, TypeInv, TypeOK
  <2>2. hand[w] = NoRow /\ todo[w] = {}
        BY <2>1 DEF TypeInv, TypeOK, RowInHand, TodoInRelease
  <2> QED
      BY <2>2 DEF NothingLeftRunning, HeldBy
<1> QED
    BY <1>1, <1>2, <1>3, PTL DEF Spec, AckOnlyAtRest

-----------------------------------------------------------------------------
(* OutcomeWasReached.                                                      *)

\* A patched row shows an outcome it had, the one patched, or, its attempts
\* used up, a failure.
LEMMA PatchOutcome ==
    ASSUME TypeInv, OutcomeWasReached, NEW q \in Rows, NEW w \in Workers, NEW op \in Ops,
           op \in Outcomes => <<q, op>> \in ended,
           row' = [row EXCEPT ![q] = Patched(row[q], w, op)], ended' = ended
    PROVE  OutcomeWasReached'
<1>1. row[q] \in RowRecord /\ row'[q] = Patched(row[q], w, op)
      BY DEF TypeInv, TypeOK
<1>2. \A r \in Rows : r # q => row'[r] = row[r]
      BY DEF TypeInv, TypeOK
<1>3. /\ row'[q].attempt = row[q].attempt
      /\ row'[q].status = "done" => row[q].status = "done" \/ op = "done"
      /\ row'[q].status = "failed" =>
             row[q].status = "failed" \/ op = "failed" \/ row[q].attempt = MaxAttempts
      BY <1>1, PatchedRow
<1> QED
    BY <1>2, <1>3 DEF OutcomeWasReached, Outcomes

\* Every step keeps the outcomes chimera shows among those reached.
LEMMA OutcomeStep == TypeInv /\ OutcomeWasReached /\ [Next]_vars => OutcomeWasReached'
<1> SUFFICES ASSUME TypeInv, OutcomeWasReached, [Next]_vars PROVE OutcomeWasReached'
    OBVIOUS
<1> USE DEF TypeInv, OutcomeWasReached, server, thread, channel, history
<1>0. \A r \in Rows : row[r] \in RowRecord
      BY DEF TypeOK
<1>1. ASSUME NEW r \in Rows, Post(r)
      PROVE  OutcomeWasReached'
      BY <1>1 DEF Post, TypeOK
<1>2. ASSUME NEW r \in Rows, Age(r) \/ Requeue(r)
      PROVE  OutcomeWasReached'
  <2>1. row[r].status = "running" /\ row[r].attempt \in 0..MaxAttempts
        BY <1>0, <1>2 DEF Age, Requeue, RowRecord
  <2>2. CASE Age(r)
    <3>1. \A q \in Rows : row'[q].status = row[q].status /\ row'[q].attempt = row[q].attempt
          BY <1>0, <2>2 DEF Age, TypeOK, RowRecord
    <3> QED
        BY <2>2, <3>1 DEF Age
  <2>3. CASE Requeue(r)
    <3>1. row'[r].attempt = row[r].attempt
          /\ (row'[r].status = "queued" \/ (row'[r].status = "failed" /\ row[r].attempt = MaxAttempts))
      <4>1. row'[r] = Returned(row[r])
            BY <2>3 DEF Requeue, TypeOK
      <4>2. ~(row[r].attempt < MaxAttempts) => row[r].attempt = MaxAttempts
            BY <2>1
      <4> QED
          BY <2>1, <4>1, <4>2 DEF Returned
    <3>2. \A q \in Rows : q # r => row'[q] = row[q]
          BY <2>3 DEF Requeue, TypeOK
    <3>3. ended' = ended
          BY <2>3 DEF Requeue
    <3>4. row'[r].status # "done" /\ (row'[r].status = "failed" => row'[r].attempt = MaxAttempts)
          BY <3>1
    <3> QED
        BY <3>2, <3>3, <3>4
  <2> QED
      BY <1>2, <2>2, <2>3
<1>3. ASSUME NEW m \in late, NEW r \in Rows, LateClaim(m, r)
      PROVE  OutcomeWasReached'
      BY <1>3 DEF LateClaim, Claimed, TypeOK
<1>4. ASSUME NEW m \in late, LatePatch(m)
      PROVE  OutcomeWasReached'
  <2>1. m.row \in Rows /\ m.worker \in Workers /\ m.op \in Ops
        BY <1>4, CallFields DEF LatePatch, TypeOK
  <2>2. m.op \in Outcomes => <<m.row, m.op>> \in ended
        BY DEF CallsTrue
  <2> QED
      BY <1>4, <2>1, <2>2, PatchOutcome DEF LatePatch
<1>5. ASSUME NEW w \in Workers, NEW r \in Rows, ReleaseAnswered(w, r)
      PROVE  OutcomeWasReached'
  <2>1. "queued" \in Ops /\ "queued" \notin Outcomes
        BY DEF Ops, Outcomes
  <2> QED
      BY <1>5, <2>1, PatchOutcome DEF ReleaseAnswered
<1>6. ASSUME NEW w \in Workers, NEW r \in Rows, ClaimRow(w, r)
      PROVE  OutcomeWasReached'
      BY <1>6 DEF ClaimRow, Claimed, TypeOK
<1>7. ASSUME NEW w \in Workers, ReportAnswered(w)
      PROVE  OutcomeWasReached'
  <2>1. hand[w] \in Rows /\ outcome[w] \in Ops /\ <<hand[w], outcome[w]>> \in ended
        BY <1>7 DEF ReportAnswered, RowInHand, Ops
  <2> QED
      BY <1>7, <2>1, PatchOutcome DEF ReportAnswered
<1>8. ASSUME NEW w \in Workers, NEW o \in Outcomes, Execute(w, o)
      PROVE  OutcomeWasReached'
      BY <1>8 DEF Execute
<1>9. CASE UNCHANGED <<row, ended>>
      BY <1>9
<1>10. ASSUME NEW w \in Workers, Step(w)
       PROVE  OutcomeWasReached'
       BY <1>5, <1>6, <1>7, <1>8, <1>9, <1>10 DEF Step, QueryAnswered, ReleaseOver,
          LeaveForDrain, Ask, ClearAndClaim, ClaimEmpty, GoIdle, IdleOver, Finally,
          Acknowledge, Exit
<1>11. ASSUME NEW w \in Workers, Disturbance(w)
       PROVE  OutcomeWasReached'
       BY <1>9, <1>11 DEF Disturbance, QueryFails, ReleaseGivenUp, ClaimGivenUp,
          ReportGivenUp, GiveUp, AskUnread, ClearAndClaim, AcknowledgeFails,
          Interrupt, AnswerBreaksOff, Kill, Exit
<1>12. ASSUME NEW w \in Workers, Side(w) \/ Start(w)
       PROVE  OutcomeWasReached'
       BY <1>9, <1>12 DEF Side, Beat, HubHello, HubUp, HubQueued, HubLost,
          AskToDrain, DrainTimesOut, Start
<1>13. ASSUME NEW m \in late, LostCall(m)
       PROVE  OutcomeWasReached'
       BY <1>9, <1>13 DEF LostCall
<1>14. CASE UNCHANGED vars
       BY <1>9, <1>14 DEF vars
<1> QED
    BY <1>1, <1>2, <1>3, <1>4, <1>10, <1>11, <1>12, <1>13, <1>14 DEF Next, Chimera

\* chimera shows only outcomes an execution reached.
THEOREM OutcomeSafe == Spec => []OutcomeWasReached
<1>1. Init => TypeInv /\ OutcomeWasReached
      BY DEF Init, TypeInv, TypeOK, RowInHand, CallsTrue, RowRecord, Statuses,
             Outcomes, Verdicts, Places, InLoop, Call, OutcomeWasReached
<1>2. TypeInv /\ OutcomeWasReached /\ [Next]_vars => TypeInv' /\ OutcomeWasReached'
      BY TypeStep, RowInHandStep, OutcomeStep DEF TypeInv
<1> QED
    BY <1>1, <1>2, PTL DEF Spec

-----------------------------------------------------------------------------
(* NoLostWakeup.                                                           *)

\* A row no worker ever claimed waits on the queue.
Waits(r) == row[r].status = "queued" /\ row[r].attempt = 0

\* A running row has been claimed, so that no row comes back to the queue as
\* one nobody ever claimed.
RunningWasClaimed == \A r \in Rows : row[r].status = "running" => row[r].attempt # 0

\* The claim being made has not been answered yet.
ClaimUnanswered == \A w \in Workers : pc[w] = "claim" => ~polled[w]

\* NoLostWakeup, from the moment the claim was answered.
WokenOrNothing ==
    \A w \in Workers : pc[w] \in {"empty", "idle"} /\ polled[w] /\ hub[w] = "up" =>
        wake[w] \/ frame[w] \/ \A r \in Rows : ~Waits(r)

WakeInv == TypeInv /\ RunningWasClaimed /\ ClaimUnanswered /\ WokenOrNothing

\* A call or the sweep never makes a row wait that did not: what is patched or
\* returned was claimed before.
LEMMA NoNewWait ==
    ASSUME TypeOK, RunningWasClaimed, NEW q \in Rows, NEW w \in Workers, NEW op \in Ops,
           \/ row' = [row EXCEPT ![q] = Patched(row[q], w, op)]
           \/ row[q].status = "running" /\ row' = [row EXCEPT ![q] = Returned(row[q])]
    PROVE  RunningWasClaimed' /\ \A r \in Rows : Waits(r)' => Waits(r)
<1>1. row[q] \in RowRecord /\ \A r \in Rows : r # q => row'[r] = row[r]
      BY DEF TypeOK
<1>2. CASE row' = [row EXCEPT ![q] = Patched(row[q], w, op)]
  <2>1. row'[q] = Patched(row[q], w, op)
        BY <1>2 DEF TypeOK
  <2>2. CASE row[q].status = "running" /\ row[q].holder = w
    <3>1. row'[q].attempt = row[q].attempt /\ row[q].attempt # 0
          BY <1>1, <2>1, <2>2, PatchedRow DEF RunningWasClaimed
    <3> QED
        BY <1>1, <3>1 DEF RunningWasClaimed, Waits
  <2>3. CASE ~(row[q].status = "running" /\ row[q].holder = w)
        BY <1>1, <2>1, <2>3, PatchRefused DEF RunningWasClaimed, Waits
  <2> QED
      BY <2>2, <2>3
<1>3. CASE row[q].status = "running" /\ row' = [row EXCEPT ![q] = Returned(row[q])]
  <2>1. row'[q].attempt = row[q].attempt /\ row[q].attempt # 0
        BY <1>3 DEF TypeOK, Returned, RunningWasClaimed
  <2> QED
      BY <1>1, <2>1 DEF RunningWasClaimed, Waits
<1> QED
    BY <1>2, <1>3

\* A claimed row does not wait, and has been claimed.
LEMMA NoWaitAfterClaim ==
    ASSUME TypeOK, RunningWasClaimed, NEW q \in Rows, NEW w,
           row' = [row EXCEPT ![q] = Claimed(row[q], w)]
    PROVE  RunningWasClaimed' /\ \A r \in Rows : Waits(r)' => Waits(r)
<1>1. row[q] \in RowRecord /\ \A r \in Rows : r # q => row'[r] = row[r]
      BY DEF TypeOK
<1>2. row'[q].status = "running" /\ row'[q].attempt # 0
      BY <1>1 DEF TypeOK, Claimed, RowRecord
<1> QED
    BY <1>1, <1>2 DEF RunningWasClaimed, Waits

\* Every step keeps a worker that found the queue empty woken or with nothing
\* to be woken for.
LEMMA WakeStep == WakeInv /\ [Next]_vars => RunningWasClaimed' /\ ClaimUnanswered' /\ WokenOrNothing'
<1> DEFINE Goal == RunningWasClaimed' /\ ClaimUnanswered' /\ WokenOrNothing'
           NoWait == RunningWasClaimed' /\ \A r \in Rows : Waits(r)' => Waits(r)
<1> SUFFICES ASSUME WakeInv, [Next]_vars PROVE Goal
    OBVIOUS
<1> USE DEF WakeInv, TypeInv, server, thread, channel, history
<1>1. row' = row => NoWait
      BY DEF RunningWasClaimed, Waits
<1>2. ASSUME NoWait, UNCHANGED <<pc, polled, channel>>
      PROVE  Goal
      BY <1>2 DEF ClaimUnanswered, WokenOrNothing
<1>3. ASSUME NoWait, NEW w \in Workers, NEW place \in Places \ {"claim", "empty", "idle"},
             Goto(w, place), UNCHANGED <<polled, wake>>,
             \A v \in Workers \ {w} : hub'[v] = hub[v] /\ frame'[v] = frame[v]
      PROVE  Goal
      BY <1>3 DEF ClaimUnanswered, WokenOrNothing, Goto, TypeOK
<1>4. ASSUME NEW r \in Rows, Post(r)
      PROVE  Goal
  <2>1. \A w \in Workers : hub'[w] = "up" => frame'[w]
        BY <1>4 DEF Post, TypeOK
  <2> QED
      BY <1>4, <2>1 DEF Post, TypeOK, RunningWasClaimed, ClaimUnanswered, WokenOrNothing
<1>5. ASSUME NEW r \in Rows, Age(r) \/ Requeue(r)
      PROVE  Goal
  <2>1. CASE Age(r)
    <3>1. \A q \in Rows : row'[q].status = row[q].status /\ row'[q].attempt = row[q].attempt
          BY <2>1 DEF Age, TypeOK, RowRecord
    <3> QED
        BY <1>2, <2>1, <3>1 DEF Age, RunningWasClaimed, Waits
  <2>2. CASE Requeue(r) /\ Workers # {}
    <3>1. PICK w \in Workers : TRUE
          BY <2>2
    <3>2. NoWait
          BY <2>2, <3>1, NoNewWait DEF Requeue, Ops
    <3> QED
        BY <1>2, <2>2, <3>2 DEF Requeue
  <2>3. CASE Requeue(r) /\ Workers = {}
    <3>1. row'[r].attempt = row[r].attempt /\ row[r].attempt # 0
          BY <2>3 DEF Requeue, Returned, TypeOK, RunningWasClaimed
    <3>2. \A q \in Rows : q # r => row'[q] = row[q]
          BY <2>3 DEF Requeue, TypeOK
    <3> QED
        BY <2>3, <3>1, <3>2 DEF RunningWasClaimed, ClaimUnanswered, WokenOrNothing
  <2> QED
      BY <1>5, <2>1, <2>2, <2>3
<1>6. ASSUME NEW m \in late, NEW r \in Rows, LateClaim(m, r)
      PROVE  Goal
      BY <1>2, <1>6, NoWaitAfterClaim DEF LateClaim
<1>7. ASSUME NEW m \in late, LatePatch(m)
      PROVE  Goal
  <2>1. m.worker \in Workers /\ m.row \in Rows /\ m.op \in Ops
        BY <1>7, CallFields DEF LatePatch, TypeOK
  <2> QED
      BY <1>2, <1>7, <2>1, NoNewWait DEF LatePatch
<1>8. ASSUME NEW m \in late, LostCall(m)
      PROVE  Goal
      BY <1>1, <1>2, <1>8 DEF LostCall
<1>9. ASSUME NEW w \in Workers, NEW r \in Rows, ReleaseAnswered(w, r)
      PROVE  Goal
  <2>1. "queued" \in Ops
        BY DEF Ops
  <2> QED
      BY <1>2, <1>9, <2>1, NoNewWait DEF ReleaseAnswered
<1>10. ASSUME NEW w \in Workers, NEW r \in Rows, ReleaseGivenUp(w, r)
       PROVE  Goal
       BY <1>1, <1>2, <1>10 DEF ReleaseGivenUp, GiveUp
<1>11. ASSUME NEW w \in Workers, NEW r \in Rows, ClaimRow(w, r)
       PROVE  Goal
       BY <1>3, <1>11, NoWaitAfterClaim DEF ClaimRow, Places, InLoop
<1>12. ASSUME NEW w \in Workers, ReportAnswered(w)
       PROVE  Goal
  <2>1. hand[w] \in Rows /\ outcome[w] \in Ops
        BY <1>12 DEF ReportAnswered, RowInHand, Ops
  <2>2. NoWait
        BY <1>12, <2>1, NoNewWait DEF ReportAnswered
  <2>3. AfterRow(w, "loop") \in Places \ {"claim", "empty", "idle"}
        BY DEF AfterRow, Places, InLoop
  <2> QED
      BY <1>3, <1>12, <2>2, <2>3 DEF ReportAnswered
<1>13. ASSUME NEW w \in Workers, ClearAndClaim(w)
       PROVE  Goal
       BY <1>1, <1>13 DEF ClearAndClaim, Goto, TypeOK, ClaimUnanswered, WokenOrNothing
<1>14. ASSUME NEW w \in Workers, ClaimEmpty(w)
       PROVE  Goal
  <2>1. \A r \in Rows : ~Waits(r)
        BY <1>14 DEF ClaimEmpty, Claimable, Waits
  <2> QED
      BY <1>1, <1>14, <2>1 DEF ClaimEmpty, Goto, TypeOK, ClaimUnanswered, WokenOrNothing
<1>15. ASSUME NEW w \in Workers, GoIdle(w) \/ ClaimGivenUp(w)
       PROVE  Goal
       BY <1>1, <1>15 DEF GoIdle, ClaimGivenUp, GiveUp, AfterRow, Goto, TypeOK,
          ClaimUnanswered, WokenOrNothing
<1>16. ASSUME NEW w \in Workers, Exit(w)
       PROVE  Goal
       BY <1>1, <1>16 DEF Exit, Goto, TypeOK, ClaimUnanswered, WokenOrNothing
<1>17. ASSUME NEW w \in Workers,
              \/ Start(w) \/ QueryAnswered(w) \/ QueryFails(w) \/ ReleaseOver(w)
              \/ LeaveForDrain(w) \/ IdleOver(w) \/ Interrupt(w) \/ AnswerBreaksOff(w) \/ Finally(w)
              \/ ReportGivenUp(w) \/ \E o \in Outcomes : Execute(w, o)
       PROVE  Goal
  <2>1. row' = row /\ UNCHANGED <<polled, wake>>
        BY <1>17 DEF Start, QueryAnswered, QueryFails, ReleaseOver, LeaveForDrain, IdleOver,
           Interrupt, AnswerBreaksOff, Finally, ReportGivenUp, GiveUp, Execute
  <2>2. \A v \in Workers \ {w} : hub'[v] = hub[v] /\ frame'[v] = frame[v]
        BY <1>17 DEF Start, QueryAnswered, QueryFails, ReleaseOver, LeaveForDrain, IdleOver,
           Interrupt, AnswerBreaksOff, Finally, ReportGivenUp, Execute, TypeOK
  <2>3. \E place \in Places \ {"claim", "empty", "idle"} : Goto(w, place)
    <3>1. CASE Start(w)
          BY <3>1 DEF Start, Places
    <3>2. CASE QueryAnswered(w)
          BY <3>2 DEF QueryAnswered, Places
    <3>3. CASE QueryFails(w) \/ ReleaseOver(w)
          BY <3>3 DEF QueryFails, ReleaseOver, AfterRelease, Places, InLoop
    <3>4. CASE LeaveForDrain(w) \/ Interrupt(w) \/ AnswerBreaksOff(w)
          BY <3>4 DEF LeaveForDrain, Interrupt, AnswerBreaksOff, Places
    <3>5. CASE IdleOver(w)
          BY <3>5 DEF IdleOver, Places, InLoop
    <3>6. CASE Finally(w)
          BY <3>6 DEF Finally, Places
    <3>7. CASE ReportGivenUp(w)
          BY <3>7 DEF ReportGivenUp, AfterRow, Places, InLoop
    <3>8. CASE \E o \in Outcomes : Execute(w, o)
          BY <3>8 DEF Execute, Places, InLoop
    <3> QED
        BY <1>17, <3>1, <3>2, <3>3, <3>4, <3>5, <3>6, <3>7, <3>8
  <2> QED
      BY <1>1, <1>3, <2>1, <2>2, <2>3
<1>18. ASSUME NEW w \in Workers, HubHello(w) \/ HubUp(w) \/ HubQueued(w) \/ HubLost(w)
       PROVE  Goal
       BY <1>1, <1>18 DEF HubHello, HubUp, HubQueued, HubLost, TypeOK, ClaimUnanswered,
          WokenOrNothing
<1>19. ASSUME NEW w \in Workers, Beat(w) \/ AskToDrain(w) \/ DrainTimesOut(w)
       PROVE  Goal
       BY <1>1, <1>2, <1>19 DEF Beat, AskToDrain, DrainTimesOut
<1>20. CASE UNCHANGED vars
       BY <1>1, <1>2, <1>20 DEF vars
<1>21. ASSUME NEW w \in Workers, Step(w)
       PROVE  Goal
       BY <1>9, <1>11, <1>12, <1>13, <1>14, <1>15, <1>16, <1>17, <1>21 DEF Step, Ask, Acknowledge
<1>22. ASSUME NEW w \in Workers, Disturbance(w)
       PROVE  Goal
       BY <1>10, <1>13, <1>15, <1>16, <1>17, <1>22 DEF Disturbance, AskUnread,
          AcknowledgeFails, Kill
<1> QED
    BY <1>4, <1>5, <1>6, <1>7, <1>8, <1>17, <1>18, <1>19, <1>20, <1>21, <1>22
    DEF Next, Chimera, Side

\* A worker that idles on a live hub socket after an empty claim is woken for
\* every row posted since: clearing the wake-up before the claim, and the
\* wake-up set once the socket is up, leave no window.
THEOREM WakeSafe == Spec => []NoLostWakeup
<1>1. Init => WakeInv
      BY DEF Init, WakeInv, TypeInv, TypeOK, RowInHand, CallsTrue, RowRecord, Statuses,
             Outcomes, Verdicts, Places, InLoop, Call, RunningWasClaimed, ClaimUnanswered,
             WokenOrNothing
<1>2. WakeInv /\ [Next]_vars => WakeInv'
      BY TypeStep, RowInHandStep, WakeStep DEF WakeInv, TypeInv
<1>3. WakeInv => NoLostWakeup
      BY DEF WakeInv, WokenOrNothing, NoLostWakeup, Waits
<1> QED
    BY <1>1, <1>2, <1>3, PTL DEF Spec

=============================================================================
