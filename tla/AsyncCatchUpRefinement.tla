----------------------- MODULE AsyncCatchUpRefinement -----------------------
(***************************************************************************)
(* AsyncCatchUp implements NarrationLedger, what the chat is promised about*)
(* the result of a job, and TurnLedger, what the runtime promises about the*)
(* key of the continuation.  RuntimeTurn implements TurnLedger too: the    *)
(* scheduler meets the runtime that is modelled there.                     *)
(***************************************************************************)
EXTENDS AsyncCatchUpProofs

USE CatchUpAssumption DEF At, GoesTo, Quits, Fault, Idle, userVars

\* A result is handed on only if the turn gave one: whoever holds an answer that says
\* completed, narrates or sends.
Answered(s) ==
    /\ sch[s].got = "completed" => run.replied
    /\ sch[s].pc \in {"mark", "publish", "pin", "stamp", "attach", "outcome"} =>
          sch[s].got \in {"completed", "failed"}
    /\ sch[s].pc = "output" => sch[s].got = "completed"
    /\ sch[s].pc \in {"attempt", "send", "settle", "complete"} => bubble.narrated

AllAnswered == \A s \in Schedulers : Answered(s)

StoryInv == AllAnswered /\ (bubble.narrated => run.replied)

\* Whoever settles an attempt was given the right to it.
Settles == \A s \in Schedulers : sch[s].pc = "settle" => handle.attempt[sch[s].doing] # "none"

-----------------------------------------------------------------------------
(* The narration is what the turn replied.                                  *)

\* A result that was persisted stays persisted, also when the receipt is overwritten.
LEMMA ReplyStays ==
  ASSUME TypeInv, [Next]_vars
  PROVE  run.replied => run'.replied
<1> USE DEF TypeInv, TypeOK, RunReal, Runs
<1>1. CASE PersistResult \/ PersistFailure
  BY <1>1 DEF PersistResult, PersistFailure
<1>2. CASE Return \/ HandlerDies \/ OrphanReceipt
  BY <1>2 DEF Return, HandlerDies, OrphanReceipt
<1>3. ASSUME NEW t \in Tokens, Accept(t) PROVE run.replied => run'.replied
  BY <1>3 DEF Accept
<1> QED BY <1>1, <1>2, <1>3, RunChanges

\* persistPermanentFailureMessage and requeueClaim narrate nothing.
LEMMA FailSilent ==
  ASSUME TypeInv, NEW x, FailWith(x)
  PROVE  bubble'.narrated = bubble.narrated /\ handle'.owner = x.owner
BY DEF FailWith, TypeInv, TypeOK, Bubbles
LEMMA RequeueSilent ==
  ASSUME TypeInv, NEW s, RequeueClaim(s)
  PROVE  bubble'.narrated = bubble.narrated /\ handle'.owner = handle.owner
<1> DEFINE tried == [handle EXCEPT !.retries = @ + 1]
<1>1. tried.owner = handle.owner
  BY DEF TypeInv, TypeOK, Handles
<1>2. CASE FailWith(tried)
  BY <1>1, <1>2, FailSilent
<1>3. CASE /\ handle' = [tried EXCEPT !.state = "ready", !.token = None, !.expired = FALSE]
           /\ UNCHANGED bubble
  BY <1>1, <1>3 DEF TypeInv, TypeOK, Handles
<1> QED BY <1>2, <1>3 DEF RequeueClaim

\* Only persistOutputOnce narrates.
NarrationStep ==
    \/ bubble'.narrated = bubble.narrated
    \/ \E s \in Schedulers : PersistOutput(s) /\ bubble'.narrated = TRUE

LEMMA NarratedBy ==
  ASSUME TypeInv, [Next]_vars
  PROVE  NarrationStep
<1> USE DEF TypeInv, TypeOK, Bubbles, NarrationStep
<1>1. CASE UNCHANGED bubble
  BY <1>1
<1>2. ASSUME NEW s \in Schedulers, Publish(s) \/ Pin(s) \/ Attach(s) PROVE NarrationStep
  BY <1>2 DEF Publish, Pin, Attach
<1>3. ASSUME NEW s \in Schedulers, PersistOutput(s) PROVE NarrationStep
  BY <1>3 DEF PersistOutput
<1>4. ASSUME NEW s \in Schedulers, FailClaim(s) PROVE NarrationStep
  BY <1>4, FailSilent DEF FailClaim
<1>5. ASSUME NEW s \in Schedulers, Requeue(s) \/ ProveAbsent(s) PROVE NarrationStep
  BY <1>5, RequeueSilent DEF Requeue, ProveAbsent
<1> QED BY <1>1, <1>2, <1>3, <1>4, <1>5, BubbleChanges

LEMMA NarratedStays ==
  ASSUME TypeInv, [Next]_vars
  PROVE  bubble.narrated => bubble'.narrated
BY NarratedBy DEF NarrationStep

\* An answer that says completed comes from a completed receipt.
LEMMA AnswerReal ==
  ASSUME TypeInv, AllAnswered, NEW t, NEW pc \in {"mark", "inspect", "release"}, NEW got,
         Answer(t, pc, got), run.replied => run'.replied, bubble.narrated => bubble'.narrated,
         got = "completed" => run'.replied, pc = "mark" => got \in {"completed", "failed"}
  PROVE  AllAnswered'
<1> USE DEF TypeInv, SchTyped, Work
<1> SUFFICES ASSUME NEW s \in Schedulers PROVE Answered(s)'
  BY DEF AllAnswered
<1>1. Answered(s)
  BY DEF AllAnswered
<1>2. CASE At(s, "await") /\ sch[s].tok = t
  <2>1. sch'[s].pc = pc /\ sch'[s].got = got
    BY <1>2 DEF Answer
  <2> QED BY <2>1 DEF Answered
<1>3. CASE ~ (At(s, "await") /\ sch[s].tok = t)
  <2>1. sch'[s] = sch[s]
    BY <1>3 DEF Answer
  <2> QED BY <2>1, <1>1 DEF Answered
<1> QED BY <1>2, <1>3

LEMMA ReplayReal ==
  ASSUME TypeInv, AllAnswered, NEW t, Replay(t), [Next]_vars
  PROVE  AllAnswered'
<1>1. \/ run.status = "completed" /\ Answer(t, "mark", "completed")
      \/ Answer(t, "inspect", "conflict")
  BY DEF Replay
<1>2. run.status = "completed" => run.replied
  BY DEF TypeInv, RunReal
<1> QED BY <1>1, <1>2, AnswerReal, ReplyStays, NarratedStays

\* Schedulers narrate and send only what they were answered.
LEMMA AnsweredStep ==
  ASSUME TypeInv, AllAnswered, [Next]_vars
  PROVE  AllAnswered'
<1>0. /\ run.replied => run'.replied
      /\ bubble.narrated => bubble'.narrated
  BY ReplyStays, NarratedStays
<1>1. CASE JobEnds \/ WorkerRecords \/ Observe \/ SubscribePending \/ ApiDies \/
          EarlyMessage \/ SourceTurnEnds \/ SaveReply \/ FinalizePersisted \/
          FinalizeFailed \/ SweepSourceTurn \/ ClaimExpires \/ PersistResult \/
          PersistFailure \/ OrphanReceipt
  BY <1>1, <1>0 DEF JobEnds, WorkerRecords, Observe,
        SubscribePending, ApiDies, EarlyMessage, SourceTurnEnds, SaveReply,
        FinalizePersisted, FinalizeFailed, SweepSourceTurn, ClaimExpires, PersistResult,
        PersistFailure, OrphanReceipt, AllAnswered, Answered, TypeInv, SchTyped, Work
<1>2. CASE Return
  <2>1. Answer(run.req, "mark", IF run.pc = "succeeded" THEN "completed" ELSE "failed")
    BY <1>2 DEF Return
  <2>2. run.pc = "succeeded" => run.replied
    BY DEF TypeInv, RunReal
  <2> QED BY <2>1, <2>2, AnswerReal, ReplyStays, NarratedStays
<1>3. CASE HandlerDies
  <2>1. Answer(run.req, "inspect", "none")
    BY <1>3 DEF HandlerDies
  <2> QED BY <2>1, AnswerReal, ReplyStays, NarratedStays
<1>4. ASSUME NEW t \in Tokens, CheckReplay(t) PROVE AllAnswered'
  <2>1. CASE UNCHANGED sch
    BY <2>1, <1>0 DEF AllAnswered, Answered
  <2>2. CASE Replay(t)
    BY <2>2, ReplayReal
  <2> QED BY <1>4, <2>1, <2>2 DEF CheckReplay
<1>5. ASSUME NEW t \in Tokens, Accept(t) PROVE AllAnswered'
  <2>1. CASE UNCHANGED sch
    BY <2>1, <1>0 DEF AllAnswered, Answered
  <2>2. CASE Replay(t)
    BY <2>2, ReplayReal
  <2>3. CASE Answer(t, "inspect", "duplicate") \/ Answer(t, "release", "busy")
    BY <2>3, AnswerReal, ReplyStays, NarratedStays
  <2> QED BY <1>5, <2>1, <2>2, <2>3 DEF Accept
<1>6. ASSUME NEW s \in Schedulers, ListOpen(s) PROVE AllAnswered'
  BY <1>6, <1>0 DEF ListOpen, AllAnswered, Answered, TypeInv,
        SchTyped, Work
<1>7. ASSUME NEW s \in Schedulers, ClaimReadyHead(s) PROVE AllAnswered'
  BY <1>7, <1>0 DEF ClaimReadyHead, AllAnswered, Answered, TypeInv,
        SchTyped, Work
<1>8. ASSUME NEW s \in Schedulers, ReconcileExpired(s) PROVE AllAnswered'
  BY <1>8, <1>0 DEF ReconcileExpired, AllAnswered, Answered,
        TypeInv, SchTyped, Work
<1>9. ASSUME NEW s \in Schedulers, RecordListed(s) PROVE AllAnswered'
  BY <1>9, <1>0 DEF RecordListed, AllAnswered, Answered, TypeInv,
        SchTyped, Work
<1>10. ASSUME NEW s \in Schedulers, Validate(s) PROVE AllAnswered'
  BY <1>10, <1>0 DEF Validate, AllAnswered, Answered, TypeInv,
        SchTyped, Work
<1>11. ASSUME NEW s \in Schedulers, Gate(s) PROVE AllAnswered'
  BY <1>11, <1>0 DEF Gate, AllAnswered, Answered, TypeInv,
        SchTyped, Work
<1>12. ASSUME NEW s \in Schedulers, Call(s) PROVE AllAnswered'
  BY <1>12, <1>0 DEF Call, AllAnswered, Answered, TypeInv,
        SchTyped, Work
<1>13. ASSUME NEW s \in Schedulers, Release(s) PROVE AllAnswered'
  BY <1>13, <1>0 DEF Release, AllAnswered, Answered, TypeInv,
        SchTyped, Work
<1>14. ASSUME NEW s \in Schedulers, Inspect(s) PROVE AllAnswered'
  BY <1>14, <1>0 DEF Inspect, AllAnswered, Answered, TypeInv,
        SchTyped, Work
<1>15. ASSUME NEW s \in Schedulers, MarkDispatched(s) PROVE AllAnswered'
  BY <1>15, <1>0 DEF MarkDispatched, AllAnswered, Answered,
        TypeInv, SchTyped, Work
<1>16. ASSUME NEW s \in Schedulers, Publish(s) PROVE AllAnswered'
  BY <1>16, <1>0 DEF Publish, AllAnswered, Answered, TypeInv,
        SchTyped, Work
<1>17. ASSUME NEW s \in Schedulers, Pin(s) PROVE AllAnswered'
  BY <1>17, <1>0 DEF Pin, AllAnswered, Answered, TypeInv, SchTyped,
        Work
<1>18. ASSUME NEW s \in Schedulers, Stamp(s) PROVE AllAnswered'
  BY <1>18, <1>0 DEF Stamp, AllAnswered, Answered, TypeInv,
        SchTyped, Work
<1>19. ASSUME NEW s \in Schedulers, Attach(s) PROVE AllAnswered'
  BY <1>19, <1>0 DEF Attach, AllAnswered, Answered, TypeInv,
        SchTyped, Work
<1>20. ASSUME NEW s \in Schedulers, Outcome(s) PROVE AllAnswered'
  BY <1>20, <1>0 DEF Outcome, AllAnswered, Answered, TypeInv,
        SchTyped, Work
<1>21. ASSUME NEW s \in Schedulers, PersistOutput(s) PROVE AllAnswered'
  <2>1. CASE Quits(s)
    BY <2>1, <1>0 DEF AllAnswered, Answered, TypeInv, SchTyped, Work
  <2>2. CASE GoesTo(s, "requeue")
    BY <2>2, <1>0 DEF AllAnswered, Answered, TypeInv, SchTyped, Work
  <2>3. CASE /\ sch' = [sch EXCEPT ![s].pc = "attempt", ![s].doing = "artifacts"]
             /\ bubble'.narrated
    BY <2>3, <1>0 DEF AllAnswered, Answered, TypeInv, SchTyped, Work
  <2> QED BY <1>21, <2>1, <2>2, <2>3 DEF PersistOutput, TypeInv, TypeOK, Bubbles
<1>22. ASSUME NEW s \in Schedulers, ClaimAttempt(s) PROVE AllAnswered'
  BY <1>22, <1>0 DEF ClaimAttempt, AfterAttempt, AllAnswered,
        Answered, TypeInv, SchTyped, Work
<1>23. ASSUME NEW s \in Schedulers, Send(s) PROVE AllAnswered'
  BY <1>23, <1>0 DEF Send, AllAnswered, Answered, TypeInv,
        SchTyped, Work
<1>24. ASSUME NEW s \in Schedulers, SettleAttempt(s) PROVE AllAnswered'
  BY <1>24, <1>0 DEF SettleAttempt, AfterAttempt, AllAnswered,
        Answered, TypeInv, SchTyped, Work
<1>25. ASSUME NEW s \in Schedulers, CheckAttempts(s) PROVE AllAnswered'
  BY <1>25, <1>0 DEF CheckAttempts, AllAnswered, Answered, TypeInv,
        SchTyped, Work
<1>26. ASSUME NEW s \in Schedulers, CompleteClaim(s) PROVE AllAnswered'
  BY <1>26, <1>0 DEF CompleteClaim, AllAnswered, Answered, TypeInv,
        SchTyped, Work
<1>27. ASSUME NEW s \in Schedulers, FailClaim(s) PROVE AllAnswered'
  BY <1>27, <1>0 DEF FailClaim, AllAnswered, Answered, TypeInv,
        SchTyped, Work
<1>28. ASSUME NEW s \in Schedulers, ClaimNotice(s) PROVE AllAnswered'
  BY <1>28, <1>0 DEF ClaimNotice, AllAnswered, Answered, TypeInv,
        SchTyped, Work
<1>29. ASSUME NEW s \in Schedulers, SendNotice(s) PROVE AllAnswered'
  BY <1>29, <1>0 DEF SendNotice, AllAnswered, Answered, TypeInv,
        SchTyped, Work
<1>30. ASSUME NEW s \in Schedulers, SettleNotice(s) PROVE AllAnswered'
  BY <1>30, <1>0 DEF SettleNotice, AllAnswered, Answered, TypeInv,
        SchTyped, Work
<1>31. ASSUME NEW s \in Schedulers, Requeue(s) PROVE AllAnswered'
  BY <1>31, <1>0 DEF Requeue, RequeueClaim, AllAnswered, Answered,
        TypeInv, SchTyped, Work
<1>32. ASSUME NEW s \in Schedulers, GiveUpAttempts(s) PROVE AllAnswered'
  BY <1>32, <1>0 DEF GiveUpAttempts, AllAnswered, Answered,
        TypeInv, SchTyped, Work
<1>33. ASSUME NEW s \in Schedulers, LookUpReceipt(s) PROVE AllAnswered'
  BY <1>33, <1>0 DEF LookUpReceipt, TypeOK, Runs, RunReal, Lost,
        AllAnswered, Answered, TypeInv, SchTyped, Work
<1>34. ASSUME NEW s \in Schedulers, ProveAbsent(s) PROVE AllAnswered'
  BY <1>34, <1>0 DEF ProveAbsent, RequeueClaim, AllAnswered,
        Answered, TypeInv, SchTyped, Work
<1>35. ASSUME NEW s \in Schedulers, Crash(s) PROVE AllAnswered'
  BY <1>35, <1>0 DEF Crash, AllAnswered, Answered, TypeInv,
        SchTyped, Work
<1>36. ASSUME NEW s \in Schedulers, LoseLock(s) PROVE AllAnswered'
  BY <1>36, <1>0 DEF LoseLock, AllAnswered, Answered, TypeInv,
        SchTyped, Work
<1>37. ASSUME NEW s \in Schedulers, Throws(s) PROVE AllAnswered'
  BY <1>37, <1>0 DEF Throws, AllAnswered, Answered, TypeInv,
        SchTyped, Work
<1>38. ASSUME NEW s \in Schedulers, PublishThrows(s) PROVE AllAnswered'
  BY <1>38, <1>0 DEF PublishThrows, AllAnswered, Answered, TypeInv,
        SchTyped, Work
<1>39. ASSUME NEW s \in Schedulers, GiveUpCall(s) PROVE AllAnswered'
  BY <1>39, <1>0 DEF GiveUpCall, AllAnswered, Answered, TypeInv,
        SchTyped, Work
<1>40. CASE UNCHANGED vars
  BY <1>40 DEF vars, AllAnswered, Answered, TypeInv, SchTyped, Work
<1> QED BY <1>1, <1>2, <1>3, <1>4, <1>5, <1>6, <1>7, <1>8, <1>9, <1>10, <1>11, <1>12,
       <1>13, <1>14, <1>15, <1>16, <1>17, <1>18, <1>19, <1>20, <1>21, <1>22, <1>23,
       <1>24, <1>25, <1>26, <1>27, <1>28, <1>29, <1>30, <1>31, <1>32, <1>33, <1>34,
       <1>35, <1>36, <1>37, <1>38, <1>39, <1>40 DEF Next, Chat, Runtime, Poll, Step,
       Disturb

LEMMA StoryStep ==
  ASSUME TypeInv, StoryInv, [Next]_vars
  PROVE  StoryInv'
<1>1. ASSUME NEW s \in Schedulers, PersistOutput(s), bubble'.narrated PROVE run'.replied
  <2>1. CASE bubble.narrated
    BY <2>1, ReplyStays DEF StoryInv
  <2>2. CASE ~ bubble.narrated
    <3>1. At(s, "output")
      BY <1>1 DEF PersistOutput
    <3> QED BY <3>1, ReplyStays DEF StoryInv, AllAnswered, Answered
  <2> QED BY <2>1, <2>2
<1> QED BY <1>1, AnsweredStep, NarratedBy, ReplyStays DEF StoryInv, NarrationStep

LEMMA StoryInvariant == Spec => []StoryInv
<1>1. Init => StoryInv
  BY DEF Init, StoryInv, AllAnswered, Answered
<1>2. TypeInv /\ StoryInv /\ [Next]_vars => StoryInv'
  BY StoryStep
<1> QED BY <1>1, <1>2, BaseInvariant, PTL DEF Spec

-----------------------------------------------------------------------------
(* Rights and tellers.                                                      *)

\* A right that was given stays given.
LEMMA RightStays ==
  ASSUME TypeInv, [Next]_vars, NEW k \in Attempts, handle.attempt[k] # "none"
  PROVE  handle'.attempt[k] # "none"
<1>1. handle \in Handles
  BY DEF TypeInv, TypeOK
<1>2. CASE handle'.attempt = handle.attempt
  BY <1>2
<1>3. ASSUME NEW s \in Schedulers, AttemptStep(s) PROVE handle'.attempt[k] # "none"
  BY <1>1, <1>3 DEF AttemptStep, ClaimAttempt, SettleAttempt, ClaimNotice, SettleNotice,
        GiveUpAttempts, Handles
<1> QED BY <1>2, <1>3, AttemptKept DEF AttemptsKept

\* How a scheduler comes to settle an attempt, to complete its claim, and to a message.
Comes(s) ==
    \/ Send(s) \/ CheckAttempts(s) \/ ReconcileExpired(s)
    \/ Publish(s) \/ Pin(s) \/ Stamp(s) \/ Attach(s)

SettlersKept ==
    \A s \in Schedulers :
        sch'[s] = sch[s] \/ sch'[s].pc \notin {"settle", "finish", "pin", "stamp", "attach"} \/ Comes(s)

LEMMA AnswerSettles ==
  ASSUME TypeInv, NEW t, NEW pc \in {"mark", "inspect", "release"}, NEW got, Answer(t, pc, got)
  PROVE  SettlersKept
<1> SUFFICES ASSUME NEW s \in Schedulers PROVE sch'[s] = sch[s] \/ sch'[s].pc \notin {"settle", "finish", "pin", "stamp", "attach"}
  BY DEF SettlersKept
<1>1. CASE At(s, "await") /\ sch[s].tok = t
  BY <1>1 DEF Answer, TypeInv, SchTyped, Work
<1>2. CASE ~ (At(s, "await") /\ sch[s].tok = t)
  BY <1>2 DEF Answer
<1> QED BY <1>1, <1>2

\* Nobody comes there on another way.
LEMMA SettlersStep ==
  ASSUME TypeInv, [Next]_vars
  PROVE  SettlersKept
<1>1. CASE JobEnds \/ WorkerRecords \/ Observe \/ SubscribePending \/ ApiDies \/
          EarlyMessage \/ SourceTurnEnds \/ SaveReply \/ FinalizePersisted \/
          FinalizeFailed \/ SweepSourceTurn \/ ClaimExpires \/ PersistResult \/
          PersistFailure \/ OrphanReceipt
  BY <1>1 DEF JobEnds, WorkerRecords, Observe, SubscribePending, ApiDies, EarlyMessage,
        SourceTurnEnds, SaveReply, FinalizePersisted, FinalizeFailed, SweepSourceTurn,
        ClaimExpires, PersistResult, PersistFailure, OrphanReceipt, SettlersKept,
        TypeInv, SchTyped, Work
<1>2. CASE Return
  BY <1>2, AnswerSettles DEF Return
<1>3. CASE HandlerDies
  BY <1>3, AnswerSettles DEF HandlerDies
<1>4. ASSUME NEW t \in Tokens, CheckReplay(t) PROVE SettlersKept
  BY <1>4, AnswerSettles DEF CheckReplay, Replay, SettlersKept
<1>5. ASSUME NEW t \in Tokens, Accept(t) PROVE SettlersKept
  BY <1>5, AnswerSettles DEF Accept, Replay, SettlersKept
<1>6. ASSUME NEW s \in Schedulers, ListOpen(s) PROVE SettlersKept
  BY <1>6 DEF ListOpen, SettlersKept, TypeInv, SchTyped, Work
<1>7. ASSUME NEW s \in Schedulers, ClaimReadyHead(s) PROVE SettlersKept
  BY <1>7 DEF ClaimReadyHead, SettlersKept, TypeInv, SchTyped, Work
<1>8. ASSUME NEW s \in Schedulers, ReconcileExpired(s) PROVE SettlersKept
  BY <1>8 DEF SettlersKept, Comes, ReconcileExpired, TypeInv, SchTyped, Work
<1>9. ASSUME NEW s \in Schedulers, RecordListed(s) PROVE SettlersKept
  BY <1>9 DEF RecordListed, SettlersKept, TypeInv, SchTyped, Work
<1>10. ASSUME NEW s \in Schedulers, Validate(s) PROVE SettlersKept
  BY <1>10 DEF Validate, SettlersKept, TypeInv, SchTyped, Work
<1>11. ASSUME NEW s \in Schedulers, Gate(s) PROVE SettlersKept
  BY <1>11 DEF Gate, SettlersKept, TypeInv, SchTyped, Work
<1>12. ASSUME NEW s \in Schedulers, Call(s) PROVE SettlersKept
  BY <1>12 DEF Call, SettlersKept, TypeInv, SchTyped, Work
<1>13. ASSUME NEW s \in Schedulers, Release(s) PROVE SettlersKept
  BY <1>13 DEF Release, SettlersKept, TypeInv, SchTyped, Work
<1>14. ASSUME NEW s \in Schedulers, Inspect(s) PROVE SettlersKept
  BY <1>14 DEF Inspect, SettlersKept, TypeInv, SchTyped, Work
<1>15. ASSUME NEW s \in Schedulers, MarkDispatched(s) PROVE SettlersKept
  BY <1>15 DEF MarkDispatched, SettlersKept, TypeInv, SchTyped, Work
<1>16. ASSUME NEW s \in Schedulers, Publish(s) PROVE SettlersKept
  BY <1>16 DEF SettlersKept, Comes, Publish, TypeInv, SchTyped, Work
<1>17. ASSUME NEW s \in Schedulers, Pin(s) PROVE SettlersKept
  BY <1>17 DEF SettlersKept, Comes, Pin, TypeInv, SchTyped, Work
<1>18. ASSUME NEW s \in Schedulers, Stamp(s) PROVE SettlersKept
  BY <1>18 DEF SettlersKept, Comes, Stamp, TypeInv, SchTyped, Work
<1>19. ASSUME NEW s \in Schedulers, Attach(s) PROVE SettlersKept
  BY <1>19 DEF SettlersKept, Comes, Attach, TypeInv, SchTyped, Work
<1>20. ASSUME NEW s \in Schedulers, Outcome(s) PROVE SettlersKept
  BY <1>20 DEF Outcome, SettlersKept, TypeInv, SchTyped, Work
<1>21. ASSUME NEW s \in Schedulers, PersistOutput(s) PROVE SettlersKept
  BY <1>21 DEF PersistOutput, SettlersKept, TypeInv, SchTyped, Work
<1>22. ASSUME NEW s \in Schedulers, ClaimAttempt(s) PROVE SettlersKept
  BY <1>22 DEF ClaimAttempt, AfterAttempt, SettlersKept, TypeInv, SchTyped, Work
<1>23. ASSUME NEW s \in Schedulers, Send(s) PROVE SettlersKept
  BY <1>23 DEF SettlersKept, Comes, Send, TypeInv, SchTyped, Work
<1>24. ASSUME NEW s \in Schedulers, SettleAttempt(s) PROVE SettlersKept
  BY <1>24 DEF SettleAttempt, AfterAttempt, SettlersKept, TypeInv, SchTyped, Work
<1>25. ASSUME NEW s \in Schedulers, CheckAttempts(s) PROVE SettlersKept
  BY <1>25 DEF SettlersKept, Comes, CheckAttempts, TypeInv, SchTyped, Work
<1>26. ASSUME NEW s \in Schedulers, CompleteClaim(s) PROVE SettlersKept
  BY <1>26 DEF CompleteClaim, SettlersKept, TypeInv, SchTyped, Work
<1>27. ASSUME NEW s \in Schedulers, FailClaim(s) PROVE SettlersKept
  BY <1>27 DEF FailClaim, SettlersKept, TypeInv, SchTyped, Work
<1>28. ASSUME NEW s \in Schedulers, ClaimNotice(s) PROVE SettlersKept
  BY <1>28 DEF ClaimNotice, SettlersKept, TypeInv, SchTyped, Work
<1>29. ASSUME NEW s \in Schedulers, SendNotice(s) PROVE SettlersKept
  BY <1>29 DEF SendNotice, SettlersKept, TypeInv, SchTyped, Work
<1>30. ASSUME NEW s \in Schedulers, SettleNotice(s) PROVE SettlersKept
  BY <1>30 DEF SettleNotice, SettlersKept, TypeInv, SchTyped, Work
<1>31. ASSUME NEW s \in Schedulers, Requeue(s) PROVE SettlersKept
  BY <1>31 DEF Requeue, RequeueClaim, SettlersKept, TypeInv, SchTyped, Work
<1>32. ASSUME NEW s \in Schedulers, GiveUpAttempts(s) PROVE SettlersKept
  BY <1>32 DEF GiveUpAttempts, SettlersKept, TypeInv, SchTyped, Work
<1>33. ASSUME NEW s \in Schedulers, LookUpReceipt(s) PROVE SettlersKept
  BY <1>33 DEF LookUpReceipt, SettlersKept, TypeInv, SchTyped, Work
<1>34. ASSUME NEW s \in Schedulers, ProveAbsent(s) PROVE SettlersKept
  BY <1>34 DEF ProveAbsent, RequeueClaim, SettlersKept, TypeInv, SchTyped, Work
<1>35. ASSUME NEW s \in Schedulers, Crash(s) PROVE SettlersKept
  BY <1>35 DEF Crash, SettlersKept, TypeInv, SchTyped, Work
<1>36. ASSUME NEW s \in Schedulers, LoseLock(s) PROVE SettlersKept
  BY <1>36 DEF LoseLock, SettlersKept, TypeInv, SchTyped, Work
<1>37. ASSUME NEW s \in Schedulers, Throws(s) PROVE SettlersKept
  BY <1>37 DEF Throws, SettlersKept, TypeInv, SchTyped, Work
<1>38. ASSUME NEW s \in Schedulers, PublishThrows(s) PROVE SettlersKept
  BY <1>38 DEF PublishThrows, SettlersKept, TypeInv, SchTyped, Work
<1>39. ASSUME NEW s \in Schedulers, GiveUpCall(s) PROVE SettlersKept
  BY <1>39 DEF GiveUpCall, SettlersKept, TypeInv, SchTyped, Work
<1>40. CASE UNCHANGED vars
  BY <1>40 DEF vars, SettlersKept, TypeInv, SchTyped, Work
<1> QED BY <1>1, <1>2, <1>3, <1>4, <1>5, <1>6, <1>7, <1>8, <1>9, <1>10, <1>11, <1>12,
       <1>13, <1>14, <1>15, <1>16, <1>17, <1>18, <1>19, <1>20, <1>21, <1>22, <1>23,
       <1>24, <1>25, <1>26, <1>27, <1>28, <1>29, <1>30, <1>31, <1>32, <1>33, <1>34,
       <1>35, <1>36, <1>37, <1>38, <1>39, <1>40 DEF Next, Chat, Runtime, Poll, Step,
       Disturb

LEMMA SettlesStep ==
  ASSUME TypeInv, SendInv, Settles, [Next]_vars
  PROVE  Settles'
<1> SUFFICES ASSUME NEW s \in Schedulers, sch'[s].pc = "settle"
             PROVE  handle'.attempt[sch'[s].doing] # "none"
  BY DEF Settles
<1>1. CASE sch'[s] = sch[s]
  <2>1. sch[s].doing \in Attempts /\ handle.attempt[sch[s].doing] # "none"
    BY <1>1 DEF Settles, TypeInv, Doing
  <2> QED BY <1>1, <2>1, RightStays
<1>2. CASE Send(s)
  <2>1. sch[s].doing \in Attempts /\ handle.attempt[sch[s].doing] # "none"
    BY <1>2 DEF Send, TypeInv, Doing, SendInv, SentOnce, Sends
  <2>2. sch'[s].doing = sch[s].doing
    BY <1>2 DEF Send, TypeInv, SchTyped, Work
  <2> QED BY <2>1, <2>2, RightStays
<1>3. CASE CheckAttempts(s)
  BY <1>3 DEF CheckAttempts, TypeInv, SchTyped, Work
<1>4. CASE ReconcileExpired(s)
  BY <1>4 DEF ReconcileExpired, TypeInv, SchTyped, Work
<1>5. CASE Publish(s) \/ Pin(s) \/ Stamp(s) \/ Attach(s)
  BY <1>5 DEF Publish, Pin, Stamp, Attach, TypeInv, SchTyped, Work
<1> QED BY <1>1, <1>2, <1>3, <1>4, <1>5, SettlersStep DEF SettlersKept, Comes

\* Who tells the result is decided, and only a turn gives it up.
OwnerKept ==
    \/ handle'.owner = handle.owner
    \/ /\ \/ handle.owner = "none"
          \/ handle.owner = "current" /\ handle'.owner \in {"continuation", "exhausted"}
       /\ handle'.owner \in {"current", "continuation", "exhausted"}
       /\ handle'.attempt = handle.attempt /\ UNCHANGED <<run, bubble, sent>>

LEMMA FinalizeDecides ==
  ASSUME TypeInv, NEW outcome, FinalizeSourceTurn(outcome), UNCHANGED <<run, bubble, sent>>
  PROVE  OwnerKept
<1>1. handle \in Handles
  BY DEF TypeInv, TypeOK
<1>2. \/ handle' = [handle EXCEPT !.final = TRUE]
      \/ /\ handle.owner \in {"none", "current"}
         /\ \E st : \E ow \in {"continuation", "exhausted"} :
               handle' = [[handle EXCEPT !.final = TRUE] EXCEPT !.owner = ow, !.state = st]
  BY DEF FinalizeSourceTurn
<1> QED BY <1>1, <1>2 DEF OwnerKept, Handles

\* finalizeSourceTurn, subscribePending, observeForCurrentTurn and recordCanonicalCompletion.
LEMMA OwnerStep ==
  ASSUME TypeInv, [Next]_vars
  PROVE  OwnerKept
<1>1. CASE JobEnds
  BY <1>1 DEF JobEnds, OwnerKept, TypeInv, TypeOK, Handles
<1>2. CASE WorkerRecords
  BY <1>2 DEF WorkerRecords, RecordCompletion, OwnerKept, TypeInv, TypeOK, Handles
<1>3. CASE Observe
  BY <1>3 DEF Observe, NarrateInline, OwnerKept, TypeInv, TypeOK, Handles
<1>4. CASE SubscribePending
  BY <1>4 DEF SubscribePending, NarrateInline, OwnerKept, TypeInv, TypeOK, Handles
<1>5. CASE FinalizePersisted
  <2>1. UNCHANGED <<run, bubble, sent>> /\ \E outcome : FinalizeSourceTurn(outcome)
    BY <1>5 DEF FinalizePersisted
  <2> QED BY <2>1, FinalizeDecides
<1>6. CASE FinalizeFailed
  <2>1. UNCHANGED <<run, bubble, sent>> /\ \E outcome : FinalizeSourceTurn(outcome)
    BY <1>6 DEF FinalizeFailed
  <2> QED BY <2>1, FinalizeDecides
<1>7. CASE SweepSourceTurn
  <2>1. UNCHANGED <<run, bubble, sent>> /\ \E outcome : FinalizeSourceTurn(outcome)
    BY <1>7 DEF SweepSourceTurn
  <2> QED BY <2>1, FinalizeDecides
<1>8. CASE ClaimExpires
  BY <1>8 DEF ClaimExpires, OwnerKept, TypeInv, TypeOK, Handles
<1>9. ASSUME NEW s \in Schedulers, ClaimReadyHead(s) PROVE OwnerKept
  BY <1>9 DEF ClaimReadyHead, OwnerKept, TypeInv, TypeOK, Handles
<1>10. ASSUME NEW s \in Schedulers, RecordListed(s) PROVE OwnerKept
  BY <1>10 DEF RecordListed, RecordCompletion, OwnerKept, TypeInv, TypeOK, Handles
<1>11. ASSUME NEW s \in Schedulers, Release(s) PROVE OwnerKept
  BY <1>11 DEF Release, Mine, OwnerKept, TypeInv, TypeOK, Handles
<1>12. ASSUME NEW s \in Schedulers, MarkDispatched(s) PROVE OwnerKept
  BY <1>12 DEF MarkDispatched, Mine, OwnerKept, TypeInv, TypeOK, Handles
<1>13. ASSUME NEW s \in Schedulers, Stamp(s) PROVE OwnerKept
  BY <1>13 DEF Stamp, Unattached, OwnerKept, TypeInv, TypeOK, Handles
<1>14. ASSUME NEW s \in Schedulers, PersistOutput(s) PROVE OwnerKept
  BY <1>14 DEF PersistOutput, Mine, OwnerKept, TypeInv, TypeOK, Handles
<1>15. ASSUME NEW s \in Schedulers, ClaimAttempt(s) PROVE OwnerKept
  BY <1>15 DEF ClaimAttempt, Mine, AfterAttempt, OwnerKept, TypeInv, TypeOK, Handles
<1>16. ASSUME NEW s \in Schedulers, SettleAttempt(s) PROVE OwnerKept
  BY <1>16 DEF SettleAttempt, Mine, AfterAttempt, OwnerKept, TypeInv, TypeOK, Handles
<1>17. ASSUME NEW s \in Schedulers, CompleteClaim(s) PROVE OwnerKept
  BY <1>17 DEF CompleteClaim, Mine, OwnerKept, TypeInv, TypeOK, Handles
<1>18. ASSUME NEW s \in Schedulers, FailClaim(s) PROVE OwnerKept
  <2>1. CASE FailWith(handle)
    BY <2>1, FailKeeps DEF TypeInv, TypeOK, OwnerKept
  <2>2. CASE \E msg : handle' = [handle EXCEPT !.state = "completed", !.token = None,
                                              !.expired = FALSE, !.msg = msg]
    BY <2>2 DEF TypeInv, TypeOK, Handles, OwnerKept
  <2>3. CASE UNCHANGED handle
    BY <2>3 DEF OwnerKept
  <2> QED BY <1>18, <2>1, <2>2, <2>3 DEF FailClaim
<1>19. ASSUME NEW s \in Schedulers, ClaimNotice(s) PROVE OwnerKept
  BY <1>19 DEF ClaimNotice, OwnerKept, TypeInv, TypeOK, Handles
<1>20. ASSUME NEW s \in Schedulers, SettleNotice(s) PROVE OwnerKept
  BY <1>20 DEF SettleNotice, OwnerKept, TypeInv, TypeOK, Handles
<1>21. ASSUME NEW s \in Schedulers, Requeue(s) PROVE OwnerKept
  <2>1. CASE Mine(s, {"claimed"}) /\ RequeueClaim(s)
    BY <2>1, RequeueKeeps DEF Mine, OwnerKept
  <2> QED BY <1>21, <2>1 DEF Requeue, OwnerKept
<1>22. ASSUME NEW s \in Schedulers, GiveUpAttempts(s) PROVE OwnerKept
  BY <1>22 DEF GiveUpAttempts, Mine, OwnerKept, TypeInv, TypeOK, Handles
<1>23. ASSUME NEW s \in Schedulers, ProveAbsent(s) PROVE OwnerKept
  <2>1. CASE Mine(s, {"claimed", "dispatched"}) /\ RequeueClaim(s)
    BY <2>1, RequeueKeeps DEF Mine, OwnerKept
  <2> QED BY <1>23, <2>1 DEF ProveAbsent, OwnerKept
<1>24. CASE UNCHANGED <<handle, job, owed>>
  BY <1>24 DEF OwnerKept
<1> QED BY <1>1, <1>2, <1>3, <1>4, <1>5, <1>6, <1>7, <1>8, <1>9, <1>10, <1>11, <1>12,
       <1>13, <1>14, <1>15, <1>16, <1>17, <1>18, <1>19, <1>20, <1>21, <1>22, <1>23,
       <1>24, HandleChanges

-----------------------------------------------------------------------------
(* The narration.                                                           *)

\* What an owner of the row is called.
LEMMA TellerNames ==
  /\ handle.owner = "none" => Teller = "open"
  /\ handle.owner = "current" => Teller = "turn"
  /\ handle.owner = "continuation" => Teller = "continuation"
  /\ handle.owner = "exhausted" => Teller = "nobody"
BY DEF Teller

LEMMA DecideStep ==
  ASSUME OwnerKept, handle'.owner # handle.owner
  PROVE  Tale!Decide
<1>1. UNCHANGED <<TurnState, bubble.narrated, handle.attempt, sent>>
  BY DEF OwnerKept, TurnState
<1>2. \/ Teller = "open" /\ Teller' \in {"turn", "continuation", "nobody"}
      \/ Teller = "turn" /\ Teller' \in {"continuation", "nobody"}
  BY DEF OwnerKept, Teller
<1> QED BY <1>1, <1>2 DEF Tale!Decide

\* createAsyncContinuation begins the turn and, with its result, replies.
LEMMA TurnTale ==
  ASSUME TypeInv, Engaged,
         \/ PersistResult \/ PersistFailure \/ Return \/ HandlerDies \/ OrphanReceipt
         \/ \E t \in Tokens : Accept(t)
  PROVE  [Tale!TellNext]_(Tale!tellVars)
<1> USE DEF TypeInv, TypeOK, RunReal, Runs, Lost
<1>0. UNCHANGED <<handle, bubble, sent>>
  BY DEF PersistResult, PersistFailure, Return, HandlerDies, OrphanReceipt, Accept
<1>1. UNCHANGED <<Teller, bubble.narrated, handle.attempt, sent>>
  BY <1>0 DEF Teller
<1>2. CASE UNCHANGED TurnState
  BY <1>1, <1>2 DEF Tale!tellVars
<1>3. CASE PersistResult
  <2>1. TurnState \in {"begun", "replied"} /\ TurnState' = "replied"
    BY <1>3 DEF PersistResult, TurnState
  <2> QED BY <1>1, <1>2, <2>1 DEF Tale!Reply, Tale!TellNext
<1>4. CASE PersistFailure \/ Return \/ HandlerDies \/ OrphanReceipt
  <2>1. /\ run.status # "absent" /\ run'.status # "absent"
        /\ run'.replied = run.replied
    BY <1>4 DEF PersistFailure, Return, HandlerDies, OrphanReceipt
  <2>2. UNCHANGED TurnState
    BY <2>1 DEF TurnState
  <2> QED BY <1>2, <2>2
<1>5. ASSUME NEW t \in Tokens, Accept(t) PROVE [Tale!TellNext]_(Tale!tellVars)
  <2>1. CASE UNCHANGED run
    BY <1>2, <2>1 DEF TurnState
  <2>2. CASE run.status = "absent" /\ run'.status = "running" /\ ~ run'.replied
    <3>1. TurnState = "none" /\ TurnState' = "begun"
      BY <2>2 DEF TurnState
    <3>2. Teller = "continuation"
      <4>1. call[t] # "none"
        BY <1>5 DEF Accept
      <4> QED BY <4>1, TellerNames DEF Engaged, Continues
    <3> QED BY <1>1, <3>1, <3>2 DEF Tale!BeginTurn, Tale!TellNext
  <2> QED BY <1>5, <2>1, <2>2 DEF Accept
<1> QED BY <1>3, <1>4, <1>5

\* Whoever sends has the right to, and is the first.
LEMMA SendTale ==
  ASSUME TypeInv, SendInv, NEW s \in Schedulers, Send(s) \/ SendNotice(s)
  PROVE  [Tale!TellNext]_(Tale!tellVars)
<1>0. UNCHANGED <<handle, run, bubble>>
  BY DEF Send, SendNotice
<1>1. UNCHANGED <<Teller, TurnState, bubble.narrated, handle.attempt>>
  BY <1>0 DEF Teller, TurnState
<1>2. PICK k \in Attempts : Sends(s, k) /\ (sent' = OnceMore(k) \/ UNCHANGED sent)
  BY DEF Send, SendNotice, Sends, TypeInv, Doing, Attempts
<1>3. handle.attempt[k] # "none" /\ sent[k] = 0
  BY <1>2 DEF SendInv, SentOnce
<1>4. sent' = [sent EXCEPT ![k] = 1] \/ UNCHANGED sent
  BY <1>2, <1>3 DEF OnceMore, TypeInv, TypeOK
<1> QED BY <1>1, <1>3, <1>4 DEF Tale!Tell, Tale!TellNext, Tale!tellVars

\* Writing what is there changes nothing.
LEMMA Unwritten ==
  ASSUME NEW S, NEW T, NEW f \in [S -> T], NEW x \in S, NEW v, f[x] = v
  PROVE  [f EXCEPT ![x] = v] = f
OBVIOUS

\* claimDeliveryAttempt, claimFailedHandleExternalNotice, recordDeliveryAttemptResult and
\* settleExpiredDeliveryAttempts give and spend rights.
LEMMA RightTale ==
  ASSUME TypeInv, Engaged, AllAnswered, Settles, NEW s \in Schedulers, AttemptStep(s)
  PROVE  [Tale!TellNext]_(Tale!tellVars)
<1> DEFINE a == handle.attempt
<1>t. handle \in Handles /\ a \in [Attempts -> {"none", "attempting", "settled"}]
  BY DEF TypeInv, TypeOK, Handles
<1>0. UNCHANGED <<run, bubble, sent>> /\ handle'.owner = handle.owner
  BY <1>t DEF AttemptStep, ClaimAttempt, SettleAttempt, ClaimNotice, SettleNotice, GiveUpAttempts,
        Handles
<1>1. UNCHANGED <<Teller, TurnState, bubble.narrated, sent>>
  BY <1>0 DEF Teller, TurnState
<1>2. CASE a' = a
  BY <1>1, <1>2 DEF Tale!tellVars
<1>3. ASSUME NEW k \in Attempts, a[k] = "none", a' = [a EXCEPT ![k] = "attempting"],
             sch[s].pc \notin {"idle", "record"}, k = "artifacts" => bubble.narrated
      PROVE  Tale!Take(k)
  <2>1. Teller = "continuation"
    BY <1>3, TellerNames DEF Engaged, Continues
  <2> QED BY <1>1, <1>3, <2>1 DEF Tale!Take
<1>4. ASSUME NEW S \in SUBSET Attempts, \A k \in S : a[k] = "attempting",
             a' = [k \in Attempts |-> IF k \in S THEN "settled" ELSE a[k]]
      PROVE  Tale!Spend(S)
  BY <1>1, <1>4 DEF Tale!Spend
<1>5. ASSUME NEW k \in Attempts, a[k] = "attempting", a' = [a EXCEPT ![k] = "settled"]
      PROVE  Tale!Spend({k})
  <2>1. a' = [j \in Attempts |-> IF j \in {k} THEN "settled" ELSE a[j]]
    BY <1>t, <1>5
  <2> HIDE DEF a
  <2> QED BY <1>4, <1>5, <2>1
<1>6. CASE ClaimAttempt(s)
  <2>1. At(s, "attempt") /\ sch[s].doing \in Attempts /\ bubble.narrated
    BY <1>6 DEF ClaimAttempt, TypeInv, Doing, AllAnswered, Answered
  <2>2. \/ a' = a
        \/ a[sch[s].doing] = "none" /\ a' = [a EXCEPT ![sch[s].doing] = "attempting"]
    BY <1>t, <1>6 DEF ClaimAttempt, Handles
  <2> HIDE DEF a
  <2>3. a' = a \/ Tale!Take(sch[s].doing)
    BY <1>3, <2>1, <2>2
  <2> QED BY <1>2, <2>1, <2>3 DEF Tale!TellNext
<1>7. CASE ClaimNotice(s)
  <2>1. At(s, "notice") /\ "external" \in Attempts
    BY <1>7 DEF ClaimNotice, Attempts
  <2>2. \/ a' = a
        \/ a["external"] = "none" /\ a' = [a EXCEPT !["external"] = "attempting"]
    BY <1>t, <1>7 DEF ClaimNotice, Handles
  <2> HIDE DEF a
  <2>3. a' = a \/ Tale!Take("external")
    BY <1>3, <2>1, <2>2
  <2> QED BY <1>2, <2>1, <2>3 DEF Tale!TellNext
<1>8. CASE SettleAttempt(s)
  <2>1. sch[s].doing \in Attempts /\ a[sch[s].doing] # "none"
    BY <1>8 DEF SettleAttempt, TypeInv, Doing, Settles
  <2>2. a' = a \/ a' = [a EXCEPT ![sch[s].doing] = "settled"]
    BY <1>t, <1>8 DEF SettleAttempt, Handles
  <2> HIDE DEF a
  <2>3. \/ a' = a
        \/ a[sch[s].doing] = "attempting" /\ a' = [a EXCEPT ![sch[s].doing] = "settled"]
    <3>1. a[sch[s].doing] \in {"none", "attempting", "settled"}
      BY <1>t, <2>1
    <3>2. CASE a[sch[s].doing] = "settled"
      BY <1>t, <2>1, <2>2, <3>2, Unwritten
    <3> QED BY <2>1, <2>2, <3>1, <3>2
  <2>4. a' = a \/ Tale!Spend({sch[s].doing})
    BY <1>5, <2>1, <2>3
  <2> QED BY <1>2, <2>1, <2>4 DEF Tale!TellNext
<1>9. CASE SettleNotice(s)
  <2>1. "external" \in Attempts
    BY DEF Attempts
  <2>2. \/ a' = a
        \/ a["external"] = "attempting" /\ a' = [a EXCEPT !["external"] = "settled"]
    BY <1>t, <1>9 DEF SettleNotice, Handles
  <2> HIDE DEF a
  <2>3. a' = a \/ Tale!Spend({"external"})
    BY <1>5, <2>1, <2>2
  <2> QED BY <1>2, <2>1, <2>3 DEF Tale!TellNext
<1>10. CASE GiveUpAttempts(s)
  <2> DEFINE S == {k \in Attempts : a[k] = "attempting"}
  <2>1. a' = a \/ a' = [k \in Attempts |-> IF k \in S THEN "settled" ELSE a[k]]
    BY <1>t, <1>10 DEF GiveUpAttempts, Handles
  <2>2. S \in SUBSET Attempts /\ \A k \in S : a[k] = "attempting"
    OBVIOUS
  <2> HIDE DEF a, S
  <2>3. a' = a \/ Tale!Spend(S)
    BY <1>4, <2>1, <2>2
  <2> QED BY <1>2, <2>2, <2>3 DEF Tale!TellNext
<1> QED BY <1>6, <1>7, <1>8, <1>9, <1>10 DEF AttemptStep

\* persistOutputOnce narrates what the turn replied.
LEMMA NarrateTale ==
  ASSUME TypeInv, StoryInv, NEW s \in Schedulers, PersistOutput(s)
  PROVE  [Tale!TellNext]_(Tale!tellVars)
<1>t. handle \in Handles /\ bubble \in Bubbles
  BY DEF TypeInv, TypeOK
<1>0. /\ UNCHANGED <<run, sent>> /\ handle'.owner = handle.owner /\ handle'.attempt = handle.attempt
      /\ bubble'.narrated \in {bubble.narrated, TRUE}
  BY <1>t DEF PersistOutput, Handles, Bubbles
<1>1. UNCHANGED <<Teller, TurnState, handle.attempt, sent>>
  BY <1>0 DEF Teller, TurnState
<1>2. TurnState = "replied"
  BY DEF PersistOutput, StoryInv, AllAnswered, Answered, TurnState, TypeInv, RunReal
<1> QED BY <1>0, <1>1, <1>2 DEF Tale!Narrate, Tale!TellNext, Tale!tellVars

\* Every step of the code is a step of the narration or none.
LEMMA TaleStep ==
  ASSUME TypeInv, NarratorInv, SendInv, StoryInv, Settles, [Next]_vars
  PROVE  [Tale!TellNext]_(Tale!tellVars)
<1>1. CASE handle'.owner # handle.owner
  BY <1>1, OwnerStep, DecideStep DEF Tale!TellNext
<1>2. CASE handle'.owner = handle.owner /\ UNCHANGED <<run, sent>>
           /\ handle'.attempt = handle.attempt /\ bubble'.narrated = bubble.narrated
  BY <1>2 DEF Tale!tellVars, Teller, TurnState
<1>3. CASE \/ PersistResult \/ PersistFailure \/ Return \/ HandlerDies \/ OrphanReceipt
           \/ \E t \in Tokens : Accept(t)
  BY <1>3, TurnTale DEF NarratorInv
<1>4. ASSUME NEW s \in Schedulers, Send(s) \/ SendNotice(s)
      PROVE  [Tale!TellNext]_(Tale!tellVars)
  BY <1>4, SendTale
<1>5. ASSUME NEW s \in Schedulers, AttemptStep(s)
      PROVE  [Tale!TellNext]_(Tale!tellVars)
  BY <1>5, RightTale DEF NarratorInv, StoryInv
<1>6. ASSUME NEW s \in Schedulers, PersistOutput(s)
      PROVE  [Tale!TellNext]_(Tale!tellVars)
  BY <1>6, NarrateTale
<1>7. UNCHANGED run \/ [Tale!TellNext]_(Tale!tellVars)
  BY <1>3, RunChanges
<1>8. UNCHANGED sent \/ [Tale!TellNext]_(Tale!tellVars)
  BY <1>4, SentChanges
<1>9. handle'.attempt = handle.attempt \/ [Tale!TellNext]_(Tale!tellVars)
  BY <1>5, AttemptKept DEF AttemptsKept
<1>10. bubble'.narrated = bubble.narrated \/ [Tale!TellNext]_(Tale!tellVars)
  BY <1>6, NarratedBy DEF NarrationStep
<1> QED BY <1>1, <1>2, <1>7, <1>8, <1>9, <1>10

LEMMA TaleInit == Init => Tale!TellInit
BY DEF Init, Tale!TellInit, Teller, TurnState

LEMMA SettlesInvariant == Spec => []Settles
<1>1. Init => Settles
  BY DEF Init, Settles
<1>2. TypeInv /\ SendInv /\ Settles /\ [Next]_vars => Settles'
  BY SettlesStep
<1> QED BY <1>1, <1>2, BaseInvariant, PTL DEF Spec

\* Whatever crashes, is late, expires or is claimed again: the result of a job has one teller,
\* the narration in the chat is what the one turn of the continuation replied, files go out
\* with a narration only, and every part goes out once, by a right that is given once
\* (claimDeliveryAttempt, persistOutputOnce, finalizeSourceTurn).
THEOREM NarrationImplemented == Spec => NarrationKept
<1>1. TypeInv /\ NarratorInv /\ SendInv /\ StoryInv /\ Settles /\ [Next]_vars
        => [Tale!TellNext]_(Tale!tellVars)
  BY TaleStep
<1> QED
  BY <1>1, TaleInit, BaseInvariant, StoryInvariant, SettlesInvariant, PTL
  DEF Spec, NarrationKept, Tale!TellSpec

-----------------------------------------------------------------------------
(* The key.                                                                 *)

\* The ledger has one key.
LEMMA OneKey ==
  ASSUME NEW k, NEW x, NEW y
  PROVE  [[j \in {k} |-> x] EXCEPT ![k] = y] = [j \in {k} |-> y]
OBVIOUS

\* createAsyncContinuation, completeAcceptedTurn, failAcceptedTurnQuietly and the reconciler
\* write the receipt as the ledger does.
LEMMA KeyStep ==
  ASSUME TypeInv, [Next]_vars
  PROVE  [Ledger!LedgerNext]_(Ledger!ledgerVars)
<1> USE DEF TypeInv, TypeOK, RunReal, Runs, Lost
<1> DEFINE K == ContinuationKey
           Row(status) == [k \in {K} |-> LedgerState(status)]
           Owner(r) == [k \in {K} |-> r]
           Replied == IF run.replied THEN {run.req} ELSE {}
<1>1. CASE /\ LedgerState(run'.status) = LedgerState(run.status)
           /\ run'.req = run.req /\ run'.replied = run.replied
  BY <1>1 DEF Ledger!ledgerVars
<1>2. ASSUME NEW t \in Tokens, run.status = "absent", run'.status = "running", run'.req = t,
             ~ run'.replied
      PROVE  Ledger!Begin(t)
  <2>1. Row(run.status)[K] = "absent" /\ ~ run.replied
    BY <1>2 DEF LedgerState
  <2>2. Row(run'.status) = [Row(run.status) EXCEPT ![K] = "running"]
    BY <1>2 DEF LedgerState
  <2>3. Owner(run'.req) = [Owner(run.req) EXCEPT ![K] = t]
    BY <1>2
  <2> QED BY <1>2, <2>1, <2>2, <2>3 DEF Ledger!Begin
<1>3. ASSUME run.status = "running", run'.status = "orphaned", run'.req = run.req,
             run'.replied = run.replied
      PROVE  Ledger!Lose(K)
  <2>1. Row(run.status)[K] = "running"
    BY <1>3 DEF LedgerState
  <2>2. Row(run'.status) = [Row(run.status) EXCEPT ![K] = "lost"]
    BY <1>3 DEF LedgerState
  <2> QED BY <1>3, <2>1, <2>2 DEF Ledger!Lose
<1>4. ASSUME run.status # "absent", run'.status \in {"completed", "failed"}, run'.req = run.req,
             run'.replied \in {run.replied, TRUE}
      PROVE  Ledger!Settle(run.req)
  <2>1. Owner(run.req)[K] = run.req
    OBVIOUS
  <2>2. Row(run'.status) = [Row(run.status) EXCEPT ![K] = "settled"]
    BY <1>4 DEF LedgerState
  <2>3. (IF run'.replied THEN {run'.req} ELSE {}) \in {Replied, Replied \cup {run.req}}
    BY <1>4
  <2> QED BY <1>4, <2>1, <2>2, <2>3 DEF Ledger!Settle
<1>5. CASE UNCHANGED run
  BY <1>1, <1>5
<1>6. CASE PersistResult \/ PersistFailure
  <2>1. run.status # "absent" /\ run.req \in Tokens
    BY <1>6 DEF PersistResult, PersistFailure
  <2>2. \/ /\ run'.status \in {"completed", "failed"} /\ run'.req = run.req
           /\ run'.replied \in {run.replied, TRUE}
        \/ run'.status = run.status /\ run'.req = run.req /\ run'.replied = run.replied
    BY <1>6 DEF PersistResult, PersistFailure
  <2> QED BY <1>1, <1>4, <2>1, <2>2 DEF Ledger!LedgerNext
<1>7. CASE Return \/ HandlerDies
  BY <1>1, <1>7 DEF Return, HandlerDies
<1>8. CASE OrphanReceipt
  BY <1>3, <1>8 DEF OrphanReceipt, Ledger!LedgerNext
<1>9. ASSUME NEW t \in Tokens, Accept(t) PROVE [Ledger!LedgerNext]_(Ledger!ledgerVars)
  BY <1>2, <1>5, <1>9 DEF Accept, Ledger!LedgerNext
<1> QED BY <1>5, <1>6, <1>7, <1>8, <1>9, RunChanges

LEMMA KeyInit == Init => Ledger!LedgerInit
BY DEF Init, Ledger!LedgerInit, LedgerState

\* The key async-cont:<handle> is run by one request, declared lost at most while it runs, and
\* settled only by its owner, late or not: what RuntimeTurn promises is what the scheduler
\* meets (createAsyncContinuation).
THEOREM CatchUpKeepsLedger == Spec => KeepsTurnLedger
<1>1. TypeInv /\ [Next]_vars => [Ledger!LedgerNext]_(Ledger!ledgerVars)
  BY KeyStep
<1> QED BY <1>1, KeyInit, BaseInvariant, PTL DEF Spec, KeepsTurnLedger, Ledger!LedgerSpec

-----------------------------------------------------------------------------
(* A claim that ends well was told.                                         *)

\* Files go out with a narration, a narration is in a message, whoever publishes has one,
\* and whoever is about to complete saw that nothing is left to send.
Shown ==
    /\ handle.attempt["artifacts"] # "none" => bubble.narrated
    /\ bubble.narrated => handle.msg # 0

Publisher(s) == sch[s].pc \in {"pin", "stamp", "attach"} => sch[s].msg # 0
Finisher(s) == sch[s].pc = "finish" => AllSettled

ToldInv == Shown /\ \A s \in Schedulers : Publisher(s) /\ Finisher(s)

\* A right that was spent stays spent.
LEMMA SpentStays ==
  ASSUME TypeInv, [Next]_vars, NEW k \in Attempts, handle.attempt[k] = "settled"
  PROVE  handle'.attempt[k] = "settled"
<1>1. handle \in Handles
  BY DEF TypeInv, TypeOK
<1>2. CASE handle'.attempt = handle.attempt
  BY <1>2
<1>3. ASSUME NEW s \in Schedulers, AttemptStep(s) PROVE handle'.attempt[k] = "settled"
  BY <1>1, <1>3 DEF AttemptStep, ClaimAttempt, SettleAttempt, ClaimNotice, SettleNotice,
        GiveUpAttempts, Handles
<1> QED BY <1>2, <1>3, AttemptKept DEF AttemptsKept

\* What a step other than the end of a claim does to the message and the state of the row.
RowShown ==
    /\ handle.msg # 0 => handle'.msg # 0
    /\ handle.state \in {"claimed", "dispatched"} /\ handle'.state = "completed" =>
          \E s \in Schedulers : CompleteClaim(s) \/ FailClaim(s)

\* recordCanonicalCompletion keeps the message and never completes a claim.
LEMMA RecordShown ==
  ASSUME TypeInv, Engaged, RecordCompletion
  PROVE  handle'.msg = handle.msg /\ (handle.state \in {"claimed", "dispatched"} => handle'.state = "ready")
<1>1. handle \in Handles
  BY DEF TypeInv, TypeOK
<1>2. handle.state \in {"claimed", "dispatched"} => handle.owner = "continuation"
  BY DEF Engaged, Continues
<1> QED BY <1>1, <1>2 DEF RecordCompletion, Handles

\* finalizeSourceTurn neither.
LEMMA FinalizeShown ==
  ASSUME TypeInv, Engaged, NEW outcome, FinalizeSourceTurn(outcome)
  PROVE  handle'.msg = handle.msg /\ (handle.state \in {"claimed", "dispatched"} => handle'.state = handle.state)
<1>1. handle \in Handles
  BY DEF TypeInv, TypeOK
<1>2. handle.state \in {"claimed", "dispatched"} => handle.owner = "continuation"
  BY DEF Engaged, Continues
<1> QED BY <1>1, <1>2 DEF FinalizeSourceTurn, Handles, Terminal

\* Nor persistPermanentFailureMessage and requeueClaim.
LEMMA FailShown ==
  ASSUME TypeInv, FailMessage
  PROVE  RowShown
BY DEF FailMessage, RowShown, TypeInv, TypeOK, Handles

LEMMA RequeueShown ==
  ASSUME TypeInv, NEW s, handle.state \in {"claimed", "dispatched"}, RequeueClaim(s)
  PROVE  RowShown
BY RequeueTells, FailShown DEF RowShown

\* Every step keeps the message, and only two complete a claim.
LEMMA RowShownStep ==
  ASSUME TypeInv, Engaged, ToldInv, [Next]_vars
  PROVE  RowShown
<1> USE DEF RowShown
<1>t. handle \in Handles /\ bubble \in Bubbles
  BY DEF TypeInv, TypeOK
<1>1. CASE JobEnds \/ ClaimExpires \/ UNCHANGED <<handle, job, owed>>
  BY <1>t, <1>1 DEF JobEnds, ClaimExpires, Handles
<1>2. CASE WorkerRecords
  BY <1>2, RecordShown DEF WorkerRecords
<1>3. CASE Observe \/ SubscribePending
  BY <1>t, <1>3 DEF Observe, SubscribePending, NarrateInline, Engaged, Continues, Handles
<1>4. CASE FinalizePersisted \/ FinalizeFailed \/ SweepSourceTurn
  <2>1. \E outcome : FinalizeSourceTurn(outcome)
    BY <1>4 DEF FinalizePersisted, FinalizeFailed, SweepSourceTurn
  <2> QED BY <2>1, FinalizeShown
<1>5. ASSUME NEW s \in Schedulers, RecordListed(s) PROVE RowShown
  BY <1>5, RecordShown DEF RecordListed
<1>6. ASSUME NEW s \in Schedulers, ClaimReadyHead(s) \/ Release(s) \/ MarkDispatched(s) PROVE RowShown
  BY <1>t, <1>6 DEF ClaimReadyHead, Release, MarkDispatched, Handles
<1>7. ASSUME NEW s \in Schedulers, Stamp(s) PROVE RowShown
  BY <1>t, <1>7 DEF Stamp, ToldInv, Publisher, Handles
<1>8. ASSUME NEW s \in Schedulers, PersistOutput(s) PROVE RowShown
  BY <1>t, <1>8 DEF PersistOutput, Handles, Bubbles
<1>9. ASSUME NEW s \in Schedulers, AttemptStep(s) PROVE RowShown
  BY <1>t, <1>9 DEF AttemptStep, ClaimAttempt, SettleAttempt, ClaimNotice, SettleNotice,
        GiveUpAttempts, Handles
<1>10. ASSUME NEW s \in Schedulers, CompleteClaim(s) PROVE RowShown
  BY <1>t, <1>10 DEF CompleteClaim, Handles
<1>11. ASSUME NEW s \in Schedulers, FailClaim(s) PROVE RowShown
  <2>1. CASE FailWith(handle)
    BY <1>t, <2>1, FailTells, FailShown
  <2> QED BY <1>t, <1>11, <2>1 DEF FailClaim, Handles
<1>12. ASSUME NEW s \in Schedulers, Requeue(s) PROVE RowShown
  <2>1. CASE Mine(s, {"claimed"}) /\ RequeueClaim(s)
    BY <2>1, RequeueShown DEF Mine
  <2> QED BY <1>12, <2>1 DEF Requeue
<1>13. ASSUME NEW s \in Schedulers, ProveAbsent(s) PROVE RowShown
  <2>1. CASE Mine(s, {"claimed", "dispatched"}) /\ RequeueClaim(s)
    BY <2>1, RequeueShown DEF Mine
  <2> QED BY <1>13, <2>1 DEF ProveAbsent
<1> QED BY <1>1, <1>2, <1>3, <1>4, <1>5, <1>6, <1>7, <1>8, <1>9, <1>10, <1>11, <1>12, <1>13,
       HandleChanges DEF AttemptStep

\* The files of a narration are given out by who narrated.
LEMMA ShownStep ==
  ASSUME TypeInv, Engaged, AllAnswered, Settles, ToldInv, [Next]_vars
  PROVE  Shown'
<1>t. handle \in Handles /\ bubble \in Bubbles /\ "artifacts" \in Attempts
  BY DEF TypeInv, TypeOK, Attempts
<1>1. (handle.attempt["artifacts"] # "none" => bubble.narrated) /\ (bubble.narrated => bubble'.narrated)
  BY NarratedStays DEF ToldInv, Shown
<1>2. handle'.attempt["artifacts"] # "none" => bubble'.narrated
  <2>1. ASSUME NEW s \in Schedulers, AttemptStep(s)
        PROVE  handle'.attempt["artifacts"] # "none" => bubble'.narrated
    <3>1. CASE ClaimAttempt(s)
      BY <1>1, <3>1 DEF ClaimAttempt, AllAnswered, Answered
    <3>2. CASE SettleAttempt(s)
      BY <1>t, <1>1, <3>2 DEF SettleAttempt, Settles, TypeInv, Doing, Handles
    <3>3. CASE ClaimNotice(s) \/ SettleNotice(s) \/ GiveUpAttempts(s)
      BY <1>t, <1>1, <3>3 DEF ClaimNotice, SettleNotice, GiveUpAttempts, Handles
    <3> QED BY <2>1, <3>1, <3>2, <3>3 DEF AttemptStep
  <2> QED BY <1>1, <2>1, AttemptKept DEF AttemptsKept
<1>3. bubble'.narrated => handle'.msg # 0
  <2>1. ASSUME NEW s \in Schedulers, PersistOutput(s), bubble'.narrated = TRUE
        PROVE  bubble.narrated \/ handle'.msg # 0
    BY <1>t, <2>1 DEF PersistOutput, Handles, Bubbles
  <2>2. (handle.msg # 0 => handle'.msg # 0) /\ (bubble.narrated => handle.msg # 0)
    BY RowShownStep DEF RowShown, ToldInv, Shown
  <2> QED BY <2>1, <2>2, NarratedBy DEF NarrationStep
<1> QED BY <1>2, <1>3 DEF Shown

LEMMA ToldStep ==
  ASSUME TypeInv, Engaged, AllAnswered, Settles, ToldInv, [Next]_vars
  PROVE  ToldInv'
<1>1. AllSettled => AllSettled'
  BY SpentStays DEF AllSettled
<1>2. ASSUME NEW s \in Schedulers PROVE (Publisher(s) /\ Finisher(s))'
  <2>0. Publisher(s) /\ Finisher(s) /\ sch[s] \in Work
    BY DEF ToldInv, TypeInv, SchTyped
  <2>1. CASE sch'[s] = sch[s]
    BY <1>1, <2>0, <2>1 DEF Publisher, Finisher
  <2>2. CASE sch'[s].pc \notin {"settle", "finish", "pin", "stamp", "attach"}
    BY <2>2 DEF Publisher, Finisher
  <2>3. CASE Send(s)
    BY <2>3 DEF Send, Publisher, Finisher, TypeInv, SchTyped
  <2>4. CASE CheckAttempts(s)
    BY <1>1, <2>4 DEF CheckAttempts, Publisher, Finisher, TypeInv, SchTyped, Work
  <2>5. CASE ReconcileExpired(s)
    BY <1>1, <2>5 DEF ReconcileExpired, Publisher, Finisher, TypeInv, SchTyped, Work
  <2>6. CASE Publish(s)
    BY <2>6 DEF Publish, Publisher, Finisher, TypeInv, TypeOK, Bubbles, SchTyped, Work
  <2>7. CASE Pin(s) \/ Stamp(s) \/ Attach(s)
    BY <2>0, <2>7 DEF Pin, Stamp, Attach, Publisher, Finisher, TypeInv, SchTyped, Work
  <2> QED BY <2>1, <2>2, <2>3, <2>4, <2>5, <2>6, <2>7, SettlersStep DEF SettlersKept, Comes
<1> QED BY <1>2, ShownStep DEF ToldInv

\* completeClaim finds what CheckAttempts saw, settleDeliveredLocked a message.
LEMMA ToldWhenCompleted ==
  ASSUME TypeInv, Engaged, ToldInv, [Next]_vars,
         handle.state \in {"claimed", "dispatched"}, handle'.state = "completed"
  PROVE  handle'.msg # 0 /\ (Delivered \/ (bubble.narrated /\ AllSettled))
<1>t. handle \in Handles /\ "artifacts" \in Attempts
  BY DEF TypeInv, TypeOK, Attempts
<1>1. PICK s \in Schedulers : CompleteClaim(s) \/ FailClaim(s)
  BY RowShownStep DEF RowShown
<1>2. CASE CompleteClaim(s)
  <2>1. AllSettled
    BY <1>2 DEF CompleteClaim, ToldInv, Finisher
  <2>2. bubble.narrated /\ handle.msg # 0
    BY <1>t, <2>1 DEF AllSettled, ToldInv, Shown
  <2> QED BY <1>2, <1>t, <2>1, <2>2 DEF CompleteClaim, Handles
<1>3. CASE FailClaim(s)
  <2>1. ~ FailWith(handle)
    BY <1>t, FailTells DEF FailMessage
  <2>2. Delivered /\ handle' = [handle EXCEPT !.state = "completed", !.token = None, !.expired = FALSE,
                                              !.msg = IF bubble.pin # 0 THEN bubble.pin ELSE @]
    BY <1>3, <2>1 DEF FailClaim
  <2> QED BY <1>t, <2>2 DEF Delivered, Handles
<1> QED BY <1>1, <1>2, <1>3

\* A claim ends as completed only with a message in the chat that shows the artifacts of the
\* job or is its narration, sent as far as it ever will be (completeClaim,
\* settleDeliveredLocked), with any number of schedulers that share an expired claim.
THEOREM CompletedTold == Spec => CompletedIsTold
<1>1. Init => ToldInv
  BY DEF Init, ToldInv, Shown, Publisher, Finisher, Attempts
<1>2. TypeInv /\ NarratorInv /\ SendInv /\ StoryInv /\ Settles /\ ToldInv /\ [Next]_vars => ToldInv'
  BY ToldStep DEF NarratorInv, StoryInv
<1>3. Spec => []ToldInv
  BY <1>1, <1>2, BaseInvariant, StoryInvariant, SettlesInvariant, PTL DEF Spec
<1>4. TypeInv /\ NarratorInv /\ ToldInv /\ [Next]_vars =>
        [handle.state \in {"claimed", "dispatched"} /\ handle'.state = "completed" =>
            /\ handle'.msg # 0
            /\ Delivered \/ (bubble.narrated /\ AllSettled)]_vars
  BY ToldWhenCompleted DEF NarratorInv
<1> QED BY <1>3, <1>4, BaseInvariant, PTL DEF Spec, CompletedIsTold
=============================================================================
