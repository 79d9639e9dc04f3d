------------------------- MODULE AsyncCatchUpProofs -------------------------
(***************************************************************************)
(* Proofs about AsyncCatchUp: the handle is well typed, is narrated by one *)
(* side only and not before the runtime took the turn; files and text are  *)
(* sent once; a sandbox job has one message; a media job is narrated in    *)
(* the message of its files while one scheduler works at a time.           *)
(***************************************************************************)
EXTENDS AsyncCatchUp, TLAPS

Places ==
    {"idle", "record", "held", "gate", "call", "await", "release", "inspect", "mark",
     "publish", "pin", "stamp", "attach", "outcome", "output", "attempt", "send", "settle",
     "complete", "finish", "fail", "notice", "sendNotice", "settleNotice", "requeue",
     "giveUp", "lookup", "proof"}

Answers == {"none", "absent", "completed", "failed", "conflict", "duplicate", "busy"}

Work ==
    [pc : Places, role : {"none", "claim", "recon"}, tok : Tokens \cup {None},
     got : Answers, doing : Attempts \cup {"none"}, msg : 0 .. MaxMessages]

SchTyped == sch \in [Schedulers -> Work]

\* Whoever attempts, sends or settles knows what.
Doing == \A s \in Schedulers : sch[s].pc \in {"attempt", "send", "settle"} => sch[s].doing \in Attempts

\* A worker that owes a record, a snapshot and a handle that is ready or claimed have
\* seen the end of the job.
JobOver == owed \/ handle.snap \/ handle.state \in {"ready", "claimed", "dispatched"} => job # "running"

\* A claim has a retry left.
Budget == handle.state \in {"claimed", "dispatched"} => handle.retries < MaxRetries

Others ==
    /\ job \in {"running"} \cup Terminal
    /\ owed \in BOOLEAN
    /\ source \in [turn : {"running", "completed", "failed"},
                   api : {"turn", "finalize", "gone"}, saved : BOOLEAN]
    /\ run \in Runs
    /\ call \in [Tokens -> {"none", "sent", "checked", "accepted"}]
    /\ sent \in [Attempts -> 0 .. 2]
    /\ faults \in 0 .. MaxFaults

\* A handler has a receipt, and a completed receipt a result.
RunReal ==
    /\ run.status = "absent" => run.pc = "gone" /\ ~ run.replied
    /\ run.status # "absent" => run.req \in Tokens
    /\ run.status = "completed" \/ run.pc = "succeeded" => run.replied

TypeInv == TypeOK /\ SchTyped /\ Doing /\ JobOver /\ Budget /\ RunReal

\* Once a handle is waiting for its job, nothing but the continuation narrates it.
Continues == handle.owner = "continuation"

Engaged ==
    /\ handle.state \in {"subscribed", "ready", "claimed", "dispatched"} => Continues
    /\ \A s \in Schedulers : sch[s].pc \notin {"idle", "record"} => Continues
    /\ \A t \in Tokens : call[t] # "none" => Continues
    /\ run.status # "absent" => Continues
    /\ \A k \in Attempts : sent[k] # 0 => Continues

Accepted ==
    /\ DispatchedIsAccepted
    /\ \A s \in Schedulers : At(s, "mark") => run.status # "absent"

NarratorInv == Engaged /\ Accepted

\* The right to send is claimed once, and whoever has it has not sent yet.
Sends(s, k) ==
    \/ sch[s].pc = "send" /\ sch[s].doing = k
    \/ sch[s].pc = "sendNotice" /\ k = "external"

SentOnce(k) ==
    /\ handle.attempt[k] = "none" => sent[k] = 0
    /\ sent[k] <= 1
    /\ \A s \in Schedulers : Sends(s, k) => handle.attempt[k] # "none" /\ sent[k] = 0
    /\ \A s, u \in Schedulers : Sends(s, k) /\ Sends(u, k) => s = u

SendInv == \A k \in Attempts : SentOnce(k)

\* A sandbox job publishes nothing; its handle knows the message there is.
Publishing == {"publish", "pin", "stamp", "attach"}

SandboxRow == bubble.pin = 0 /\ bubble.made <= 1 /\ handle.msg = bubble.made

SandboxWork == \A s \in Schedulers : sch[s].pc \notin Publishing

SandboxInv == SandboxRow /\ SandboxWork

\* With one scheduler the handle points to the pinned message, unless the failure of
\* a job without artifacts was told in another one, after which nothing is narrated.
Misplaced == handle.msg \notin {0, bubble.pin}

PinRow ==
    /\ bubble.narrated => handle.msg = bubble.pin /\ bubble.pin # 0
    /\ Misplaced =>
         /\ Continues /\ handle.state \in Terminal /\ job \in {"failed", "cancelled"}
         /\ handle.state = "failed" \/ ~ owed

PinWork ==
    \A s \in Schedulers :
        /\ sch[s].pc = "pin" => bubble.pin = 0 /\ sch[s].msg # 0
        /\ sch[s].pc \in {"stamp", "attach"} => sch[s].msg = bubble.pin /\ bubble.pin # 0
        /\ sch[s].pc = "record" => ~ Misplaced

PinInv == PinRow /\ PinWork

\* The lease of the scheduler and the lock of the chat hold.
Alone == \A s, u \in Schedulers : s = u

-----------------------------------------------------------------------------
USE CatchUpAssumption DEF At, GoesTo, Quits, Fault, Idle, userVars

\* The steps that write the handle row or end the job.
LEMMA HandleChanges ==
  ASSUME [Next]_vars
  PROVE  \/ UNCHANGED <<handle, job, owed>>
         \/ JobEnds
         \/ WorkerRecords
         \/ Observe
         \/ SubscribePending
         \/ FinalizePersisted
         \/ FinalizeFailed
         \/ SweepSourceTurn
         \/ ClaimExpires
         \/ \E s \in Schedulers : ClaimReadyHead(s) \/ RecordListed(s) \/ Release(s) \/
               MarkDispatched(s) \/ Stamp(s) \/ PersistOutput(s) \/ ClaimAttempt(s) \/
               SettleAttempt(s) \/ CompleteClaim(s) \/ FailClaim(s) \/ ClaimNotice(s) \/
               SettleNotice(s) \/ Requeue(s) \/ GiveUpAttempts(s) \/ ProveAbsent(s)
<1>1. CASE ApiDies \/ EarlyMessage \/ SourceTurnEnds \/ SaveReply \/ PersistResult \/
         PersistFailure \/ Return \/ HandlerDies \/ OrphanReceipt
  BY <1>1 DEF ApiDies, EarlyMessage, SourceTurnEnds, SaveReply, PersistResult,
        PersistFailure, Return, Answer, HandlerDies, OrphanReceipt
<1>2. ASSUME NEW t \in Tokens, CheckReplay(t) \/ Accept(t) PROVE UNCHANGED <<handle,
         job, owed>>
  BY <1>2 DEF CheckReplay, Replay, Answer, Accept
<1>3. ASSUME NEW s \in Schedulers, ListOpen(s) \/ ReconcileExpired(s) \/ Validate(s) \/
         Gate(s) \/ Call(s) \/ Inspect(s) \/ Publish(s) \/ Pin(s) \/ Attach(s) \/
         Outcome(s) \/ Send(s) \/ CheckAttempts(s) \/ SendNotice(s) \/ LookUpReceipt(s)
         \/ Crash(s) \/ LoseLock(s) \/ Throws(s) \/ PublishThrows(s) \/ GiveUpCall(s)
         PROVE UNCHANGED <<handle, job, owed>>
  BY <1>3 DEF ListOpen, ReconcileExpired, Validate, Gate, Call, Inspect, Publish, Pin,
        Attach, Outcome, Send, CheckAttempts, SendNotice, LookUpReceipt, Crash,
        LoseLock, Throws, PublishThrows, GiveUpCall
<1> QED BY <1>1, <1>2, <1>3 DEF Next, Chat, Runtime, Poll, Step, Disturb, vars

\* The steps of the turn at the runtime.
LEMMA RunChanges ==
  ASSUME [Next]_vars
  PROVE  \/ UNCHANGED run
         \/ PersistResult
         \/ PersistFailure
         \/ Return
         \/ HandlerDies
         \/ OrphanReceipt
         \/ \E t \in Tokens : Accept(t)
<1>1. CASE JobEnds \/ WorkerRecords \/ Observe \/ SubscribePending \/ ApiDies \/
         EarlyMessage \/ SourceTurnEnds \/ SaveReply \/ FinalizePersisted \/
         FinalizeFailed \/ SweepSourceTurn \/ ClaimExpires
  BY <1>1 DEF JobEnds, WorkerRecords, RecordCompletion, Observe, NarrateInline,
        SubscribePending, ApiDies, EarlyMessage, SourceTurnEnds, SaveReply,
        FinalizePersisted, FinalizeSourceTurn, FinalizeFailed, SweepSourceTurn,
        ClaimExpires
<1>2. ASSUME NEW t \in Tokens, CheckReplay(t) PROVE UNCHANGED run
  BY <1>2 DEF CheckReplay, Replay, Answer
<1>3. ASSUME NEW s \in Schedulers, ListOpen(s) \/ ClaimReadyHead(s) \/
         ReconcileExpired(s) \/ RecordListed(s) \/ Validate(s) \/ Gate(s) \/ Call(s) \/
         Release(s) \/ Inspect(s) \/ MarkDispatched(s) \/ Publish(s) \/ Pin(s) \/
         Stamp(s) \/ Attach(s) \/ Outcome(s) \/ PersistOutput(s) \/ ClaimAttempt(s) \/
         Send(s) \/ SettleAttempt(s) \/ CheckAttempts(s) \/ CompleteClaim(s) \/
         FailClaim(s) \/ ClaimNotice(s) \/ SendNotice(s) \/ SettleNotice(s) \/
         Requeue(s) \/ GiveUpAttempts(s) \/ LookUpReceipt(s) \/ ProveAbsent(s) \/
         Crash(s) \/ LoseLock(s) \/ Throws(s) \/ PublishThrows(s) \/ GiveUpCall(s) PROVE
         UNCHANGED run
  BY <1>3 DEF ListOpen, ClaimReadyHead, ReconcileExpired, RecordListed,
        RecordCompletion, Validate, Gate, Call, Release, Inspect, MarkDispatched,
        Publish, Pin, Stamp, Attach, Outcome, PersistOutput, ClaimAttempt, AfterAttempt,
        Send, SettleAttempt, CheckAttempts, CompleteClaim, FailClaim, Delivered,
        ClaimNotice, SendNotice, SettleNotice, Requeue, RequeueClaim, GiveUpAttempts,
        LookUpReceipt, ProveAbsent, Crash, LoseLock, Throws, PublishThrows, GiveUpCall
<1> QED BY <1>1, <1>2, <1>3 DEF Next, Chat, Runtime, Poll, Step, Disturb, vars

\* The steps that write to the chat.
LEMMA BubbleChanges ==
  ASSUME [Next]_vars
  PROVE  \/ UNCHANGED bubble
         \/ \E s \in Schedulers : Publish(s) \/ Pin(s) \/ Attach(s) \/ PersistOutput(s)
               \/ FailClaim(s) \/ Requeue(s) \/ ProveAbsent(s)
<1>1. CASE JobEnds \/ WorkerRecords \/ Observe \/ SubscribePending \/ ApiDies \/
         EarlyMessage \/ SourceTurnEnds \/ SaveReply \/ FinalizePersisted \/
         FinalizeFailed \/ SweepSourceTurn \/ ClaimExpires \/ PersistResult \/
         PersistFailure \/ Return \/ HandlerDies \/ OrphanReceipt
  BY <1>1 DEF JobEnds, WorkerRecords, RecordCompletion, Observe, NarrateInline,
        SubscribePending, ApiDies, EarlyMessage, SourceTurnEnds, SaveReply,
        FinalizePersisted, FinalizeSourceTurn, FinalizeFailed, SweepSourceTurn,
        ClaimExpires, PersistResult, PersistFailure, Return, Answer, HandlerDies,
        OrphanReceipt
<1>2. ASSUME NEW t \in Tokens, CheckReplay(t) \/ Accept(t) PROVE UNCHANGED bubble
  BY <1>2 DEF CheckReplay, Replay, Answer, Accept
<1>3. ASSUME NEW s \in Schedulers, ListOpen(s) \/ ClaimReadyHead(s) \/
         ReconcileExpired(s) \/ RecordListed(s) \/ Validate(s) \/ Gate(s) \/ Call(s) \/
         Release(s) \/ Inspect(s) \/ MarkDispatched(s) \/ Stamp(s) \/ Outcome(s) \/
         ClaimAttempt(s) \/ Send(s) \/ SettleAttempt(s) \/ CheckAttempts(s) \/
         CompleteClaim(s) \/ ClaimNotice(s) \/ SendNotice(s) \/ SettleNotice(s) \/
         GiveUpAttempts(s) \/ LookUpReceipt(s) \/ Crash(s) \/ LoseLock(s) \/ Throws(s)
         \/ PublishThrows(s) \/ GiveUpCall(s) PROVE UNCHANGED bubble
  BY <1>3 DEF ListOpen, ClaimReadyHead, ReconcileExpired, RecordListed,
        RecordCompletion, Validate, Gate, Call, Release, Inspect, MarkDispatched, Stamp,
        Outcome, ClaimAttempt, AfterAttempt, Send, SettleAttempt, CheckAttempts,
        CompleteClaim, ClaimNotice, SendNotice, SettleNotice, GiveUpAttempts,
        LookUpReceipt, Crash, LoseLock, Throws, PublishThrows, GiveUpCall
<1> QED BY <1>1, <1>2, <1>3 DEF Next, Chat, Runtime, Poll, Step, Disturb, vars

\* persistPermanentFailureMessage keeps the row and the message within their types.
LEMMA FailTyped ==
  ASSUME handle \in Handles, bubble \in Bubbles,
         NEW x \in Handles, x.msg = handle.msg, FailWith(x)
  PROVE  /\ handle' \in Handles /\ bubble' \in Bubbles
         /\ handle'.state = "failed" /\ handle'.snap = x.snap
<1>1. PICK msg \in IF x.msg # 0 THEN {x.msg}
                   ELSE {0} \cup (IF Kind # "sandbox" /\ job = "completed" THEN {} ELSE {bubble.made + 1}) :
        /\ msg <= MaxMessages
        /\ handle' = [x EXCEPT !.state = "failed", !.token = None, !.expired = FALSE, !.msg = msg]
        /\ bubble' = [bubble EXCEPT !.made = IF msg > @ THEN msg ELSE @]
  BY DEF FailWith
<1>2. msg \in 0 .. MaxMessages
  BY <1>1 DEF Handles, Bubbles
<1>3. bubble' \in Bubbles
  BY <1>1, <1>2 DEF Bubbles
<1> QED BY <1>1, <1>2, <1>3 DEF Handles, Terminal

\* So does requeueClaim, of a row that has a retry left.
LEMMA RequeueTyped ==
  ASSUME TypeInv, NEW s \in Schedulers, handle.state \in {"claimed", "dispatched"},
         RequeueClaim(s)
  PROVE  /\ handle' \in Handles /\ bubble' \in Bubbles
         /\ handle'.state \in {"ready", "failed"} /\ handle'.snap = handle.snap
<1> DEFINE tried == [handle EXCEPT !.retries = @ + 1]
<1>1. tried \in Handles /\ tried.msg = handle.msg /\ tried.snap = handle.snap
  BY DEF TypeInv, Budget, TypeOK, Handles
<1>2. CASE FailWith(tried)
  BY <1>1, <1>2, FailTyped DEF TypeInv, TypeOK
<1>3. CASE handle' = [tried EXCEPT !.state = "ready", !.token = None, !.expired = FALSE]
           /\ UNCHANGED bubble
  <2> HIDE DEF tried
  <2> QED BY <1>1, <1>3 DEF TypeInv, TypeOK, Handles
<1> QED BY <1>2, <1>3 DEF RequeueClaim

\* recordCanonicalCompletion: the handle becomes ready or gets the status of the job.
LEMMA RecordTyped ==
  ASSUME TypeInv, job # "running", RecordCompletion
  PROVE  /\ handle' \in Handles /\ handle'.retries = handle.retries
         /\ handle'.state \in {"ready"} \cup Terminal
<1>1. PICK st \in {"ready"} \cup Terminal, ow \in {handle.owner, "continuation"} :
        handle' = [handle EXCEPT !.snap = TRUE, !.owner = ow, !.state = st]
  BY DEF RecordCompletion, TypeInv, TypeOK
<1>2. handle.owner \in {"none", "current", "continuation", "exhausted"}
  BY DEF TypeInv, TypeOK, Handles
<1> QED BY <1>1, <1>2 DEF TypeInv, TypeOK, Handles

\* A turn that narrates the result gives the handle the status of the job.
LEMMA InlineTyped ==
  ASSUME TypeInv, job # "running", NarrateInline
  PROVE  handle' \in Handles /\ handle'.state \in Terminal
<1>1. job \in Terminal
  BY DEF TypeInv, TypeOK
<1> QED BY <1>1 DEF NarrateInline, TypeInv, TypeOK, Handles

\* finalizeSourceTurn: a handle it makes ready has a snapshot.
LEMMA FinalizeTyped ==
  ASSUME TypeInv, NEW outcome, FinalizeSourceTurn(outcome)
  PROVE  /\ handle' \in Handles /\ handle'.snap = handle.snap
         /\ handle'.retries = handle.retries /\ handle'.attempt = handle.attempt
         /\ handle'.msg = handle.msg /\ (Continues => handle'.owner = handle.owner)
         /\ Continues => handle'.state = handle.state
         /\ handle'.state \in {"subscribed", "ready"} =>
               handle'.state = handle.state \/ handle'.owner = "continuation"
         /\ \/ handle'.state = handle.state
            \/ handle'.state \in {"failed", "subscribed"}
            \/ handle'.state = "ready" /\ handle.snap
<1>0. handle \in Handles
  BY DEF TypeInv, TypeOK
<1>1. PICK st \in {handle.state, "failed", "subscribed", "ready"},
           ow \in {handle.owner, "continuation", "exhausted"} :
        /\ handle' = [handle EXCEPT !.final = TRUE, !.owner = ow, !.state = st]
        /\ st = "ready" => handle.snap \/ handle.state = "ready"
        /\ Continues => ow = handle.owner /\ st = handle.state
        /\ st \in {"subscribed", "ready"} => st = handle.state \/ ow = "continuation"
  <2> DEFINE final == [handle EXCEPT !.final = TRUE]
             ended == handle.snap /\ handle.state \in Terminal
  <2>1. CASE handle' = final
    <3>1. handle' = [handle EXCEPT !.final = TRUE, !.owner = handle.owner, !.state = handle.state]
      BY <1>0, <2>1 DEF Handles
    <3> QED BY <3>1
  <2>2. CASE ~ Continues /\ handle' = [final EXCEPT !.owner = "exhausted", !.state = "failed"]
    <3>1. handle' = [handle EXCEPT !.final = TRUE, !.owner = "exhausted", !.state = "failed"]
      BY <2>2
    <3> QED BY <2>2, <3>1
  <2>3. CASE /\ ~ Continues
             /\ handle' = [final EXCEPT !.owner = "continuation",
                                        !.state = IF ended THEN "ready"
                                                  ELSE IF @ = "none" THEN "subscribed" ELSE @]
    <3>1. PICK st \in {handle.state, "subscribed", "ready"} :
            /\ handle' = [final EXCEPT !.owner = "continuation", !.state = st]
            /\ st = "ready" => handle.snap \/ handle.state = "ready"
      BY <1>0, <2>3 DEF Handles
    <3>2. handle' = [handle EXCEPT !.final = TRUE, !.owner = "continuation", !.state = st]
      BY <3>1
    <3> QED BY <2>3, <3>1, <3>2
  <2>4. (handle.owner = "none" \/ handle.owner = "current") => ~ Continues
    BY DEF Continues
  <2> QED BY <2>1, <2>2, <2>3, <2>4 DEF FinalizeSourceTurn
<1>2. /\ handle.owner \in {"none", "current", "continuation", "exhausted"}
      /\ handle.state \in {"none", "subscribed", "ready", "claimed", "dispatched"} \cup Terminal
  BY DEF TypeInv, TypeOK, Handles
<1> QED BY <1>1, <1>2 DEF TypeInv, TypeOK, Handles, Terminal

\* No step leaves the type of the row, nor overdraws its retries.
LEMMA HandleTyped ==
  ASSUME TypeInv, [Next]_vars
  PROVE  handle' \in Handles /\ JobOver' /\ Budget'
<1>1. CASE JobEnds
  BY <1>1 DEF JobEnds, TypeInv, TypeOK, JobOver, Budget, Handles, Terminal
<1>2. CASE WorkerRecords
  <2>1. CASE RecordCompletion
    <3>1. job # "running" /\ job' = job
      BY <1>2 DEF WorkerRecords, TypeInv, JobOver
    <3> QED BY <2>1, <3>1, RecordTyped DEF TypeInv, JobOver, Budget, Terminal
  <2> QED BY <1>2, <2>1 DEF WorkerRecords, TypeInv, TypeOK, JobOver, Budget
<1>3. CASE Observe
  <2>1. CASE NarrateInline
    BY <1>3, <2>1, InlineTyped DEF Observe, TypeInv, JobOver, Budget, Terminal
  <2>2. CASE handle' = [handle EXCEPT !.snap = TRUE, !.state = "ready"]
    BY <1>3, <2>2 DEF Observe, TypeInv, TypeOK, JobOver, Budget, Handles
  <2> QED BY <1>3, <2>1, <2>2 DEF Observe
<1>4. CASE SubscribePending
  <2>1. CASE job # "running" /\ NarrateInline
    BY <1>4, <2>1, InlineTyped DEF SubscribePending, TypeInv, JobOver, Budget, Terminal
  <2>2. CASE handle' = [handle EXCEPT !.owner = "exhausted", !.state = "failed"]
    BY <1>4, <2>2 DEF SubscribePending, TypeInv, TypeOK, JobOver, Budget, Handles, Terminal
  <2>3. CASE handle' = [handle EXCEPT !.owner = "continuation", !.state = "subscribed"]
    BY <1>4, <2>3 DEF SubscribePending, TypeInv, TypeOK, JobOver, Budget, Handles, Terminal
  <2> QED BY <1>4, <2>1, <2>2, <2>3 DEF SubscribePending
<1>5. CASE FinalizePersisted
  <2>1. \E outcome : FinalizeSourceTurn(outcome)
    BY <1>5 DEF FinalizePersisted
  <2> QED BY <1>5, <2>1, FinalizeTyped DEF FinalizePersisted, TypeInv, JobOver, Budget
<1>6. CASE FinalizeFailed
  <2>1. \E outcome : FinalizeSourceTurn(outcome)
    BY <1>6 DEF FinalizeFailed
  <2> QED BY <1>6, <2>1, FinalizeTyped DEF FinalizeFailed, TypeInv, JobOver, Budget
<1>7. CASE SweepSourceTurn
  <2>1. \E outcome : FinalizeSourceTurn(outcome)
    BY <1>7 DEF SweepSourceTurn
  <2> QED BY <1>7, <2>1, FinalizeTyped DEF SweepSourceTurn, TypeInv, JobOver, Budget
<1>8. CASE ClaimExpires
  <2>1. handle' = [handle EXCEPT !.expired = TRUE] /\ UNCHANGED <<job, owed>>
    BY <1>8 DEF ClaimExpires
  <2>2. handle \in Handles
    BY DEF TypeInv, TypeOK
  <2>3. /\ handle' \in Handles /\ handle'.state = handle.state
        /\ handle'.snap = handle.snap /\ handle'.retries = handle.retries
    BY <2>1, <2>2 DEF Handles
  <2> QED BY <2>1, <2>3 DEF TypeInv, JobOver, Budget
<1>9. ASSUME NEW s \in Schedulers, ClaimReadyHead(s) PROVE handle' \in Handles /\
             JobOver' /\ Budget'
  <2>1. PICK t \in Tokens :
          handle' = [handle EXCEPT !.state = "claimed", !.token = t, !.expired = FALSE]
    BY <1>9 DEF ClaimReadyHead
  <2>2. handle.state = "ready" /\ handle.retries < MaxRetries /\ UNCHANGED <<job, owed>>
    BY <1>9 DEF ClaimReadyHead
  <2>3. handle \in Handles
    BY DEF TypeInv, TypeOK
  <2>4. /\ handle' \in Handles /\ handle'.state = "claimed"
        /\ handle'.snap = handle.snap /\ handle'.retries = handle.retries
    BY <2>1, <2>3 DEF Handles
  <2> QED BY <2>2, <2>4 DEF TypeInv, JobOver, Budget
<1>10. ASSUME NEW s \in Schedulers, RecordListed(s) PROVE handle' \in Handles /\
             JobOver' /\ Budget'
  <2>1. CASE job # "running" /\ RecordCompletion
    BY <1>10, <2>1, RecordTyped DEF RecordListed, TypeInv, JobOver, Budget, Terminal
  <2> QED BY <1>10, <2>1 DEF RecordListed, TypeInv, TypeOK, JobOver, Budget
<1>11. ASSUME NEW s \in Schedulers, Release(s) PROVE handle' \in Handles /\ JobOver' /\
             Budget'
  BY <1>11 DEF Release, Mine, TypeInv, TypeOK, JobOver, Budget, Handles, Terminal
<1>12. ASSUME NEW s \in Schedulers, MarkDispatched(s) PROVE handle' \in Handles /\
             JobOver' /\ Budget'
  <2>1. CASE Mine(s, {"claimed"})
    <3>1. /\ handle.state = "claimed" /\ UNCHANGED <<job, owed>>
          /\ handle' = [handle EXCEPT !.state = "dispatched", !.expired = FALSE]
      BY <1>12, <2>1 DEF MarkDispatched, Mine
    <3> QED BY <3>1 DEF TypeInv, TypeOK, JobOver, Budget, Handles
  <2> QED BY <1>12, <2>1 DEF MarkDispatched, TypeInv, TypeOK, JobOver, Budget
<1>13. ASSUME NEW s \in Schedulers, Stamp(s) PROVE handle' \in Handles /\ JobOver' /\
             Budget'
  <2>1. sch[s].msg \in 0 .. MaxMessages
    BY DEF TypeInv, SchTyped, Work
  <2>2. handle' = [handle EXCEPT !.msg = sch[s].msg] /\ UNCHANGED <<job, owed>>
    BY <1>13 DEF Stamp
  <2> QED BY <2>1, <2>2 DEF TypeInv, TypeOK, JobOver, Budget, Handles
<1>14. ASSUME NEW s \in Schedulers, PersistOutput(s) PROVE handle' \in Handles /\
             JobOver' /\ Budget'
  BY <1>14 DEF PersistOutput, Mine, Bubbles, TypeInv, TypeOK, JobOver, Budget, Handles,
        Terminal
<1>15. ASSUME NEW s \in Schedulers, ClaimAttempt(s) PROVE handle' \in Handles /\
             JobOver' /\ Budget'
  BY <1>15 DEF ClaimAttempt, Mine, AfterAttempt, Doing, Attempts, TypeInv, TypeOK,
        JobOver, Budget, Handles, Terminal
<1>16. ASSUME NEW s \in Schedulers, SettleAttempt(s) PROVE handle' \in Handles /\
             JobOver' /\ Budget'
  BY <1>16 DEF SettleAttempt, Mine, AfterAttempt, Doing, Attempts, TypeInv, TypeOK,
        JobOver, Budget, Handles, Terminal
<1>17. ASSUME NEW s \in Schedulers, CompleteClaim(s) PROVE handle' \in Handles /\
             JobOver' /\ Budget'
  BY <1>17 DEF CompleteClaim, Mine, TypeInv, TypeOK, JobOver, Budget, Handles, Terminal
<1>18. ASSUME NEW s \in Schedulers, FailClaim(s) PROVE handle' \in Handles /\ JobOver'
             /\ Budget'
  <2>1. CASE FailWith(handle) /\ Mine(s, {"claimed", "dispatched"})
    <3>1. handle' \in Handles /\ handle'.state = "failed" /\ handle'.snap = handle.snap
      BY <2>1, FailTyped DEF TypeInv, TypeOK
    <3> QED BY <1>18, <3>1 DEF FailClaim, TypeInv, JobOver, Budget
  <2>2. CASE handle' = [handle EXCEPT !.state = "completed", !.token = None, !.expired = FALSE,
                                      !.msg = IF bubble.pin # 0 THEN bubble.pin ELSE @]
    BY <1>18, <2>2 DEF FailClaim, TypeInv, TypeOK, JobOver, Budget, Handles, Bubbles, Terminal
  <2> QED BY <1>18, <2>1, <2>2 DEF FailClaim, TypeInv, TypeOK, JobOver, Budget
<1>19. ASSUME NEW s \in Schedulers, ClaimNotice(s) PROVE handle' \in Handles /\ JobOver'
             /\ Budget'
  BY <1>19 DEF ClaimNotice, Attempts, TypeInv, TypeOK, JobOver, Budget, Handles,
        Terminal
<1>20. ASSUME NEW s \in Schedulers, SettleNotice(s) PROVE handle' \in Handles /\
             JobOver' /\ Budget'
  BY <1>20 DEF SettleNotice, Attempts, TypeInv, TypeOK, JobOver, Budget, Handles,
        Terminal
<1>21. ASSUME NEW s \in Schedulers, Requeue(s) PROVE handle' \in Handles /\ JobOver' /\
             Budget'
  <2>1. CASE Mine(s, {"claimed"}) /\ RequeueClaim(s)
    <3>1. handle.state = "claimed" /\ UNCHANGED <<job, owed>>
      BY <1>21, <2>1 DEF Requeue, Mine
    <3>2. handle' \in Handles /\ handle'.state \in {"ready", "failed"} /\ handle'.snap = handle.snap
      BY <2>1, <3>1, RequeueTyped
    <3> QED BY <3>1, <3>2 DEF TypeInv, JobOver, Budget
  <2> QED BY <1>21, <2>1 DEF Requeue, TypeInv, TypeOK, JobOver, Budget
<1>22. ASSUME NEW s \in Schedulers, GiveUpAttempts(s) PROVE handle' \in Handles /\
             JobOver' /\ Budget'
  BY <1>22 DEF GiveUpAttempts, Mine, Attempts, TypeInv, TypeOK, JobOver, Budget,
        Handles, Terminal
<1>23. ASSUME NEW s \in Schedulers, ProveAbsent(s) PROVE handle' \in Handles /\ JobOver'
             /\ Budget'
  <2>1. CASE Mine(s, {"claimed", "dispatched"}) /\ RequeueClaim(s)
    <3>1. handle.state \in {"claimed", "dispatched"} /\ UNCHANGED <<job, owed>>
      BY <1>23, <2>1 DEF ProveAbsent, Mine
    <3>2. handle' \in Handles /\ handle'.state \in {"ready", "failed"} /\ handle'.snap = handle.snap
      BY <2>1, <3>1, RequeueTyped
    <3> QED BY <3>1, <3>2 DEF TypeInv, JobOver, Budget
  <2> QED BY <1>23, <2>1 DEF ProveAbsent, TypeInv, TypeOK, JobOver, Budget
<1>24. CASE UNCHANGED <<handle, job, owed>>
  BY <1>24 DEF TypeInv, TypeOK, JobOver, Budget
<1> QED BY <1>1, <1>2, <1>3, <1>4, <1>5, <1>6, <1>7, <1>8, <1>9, <1>10, <1>11, <1>12,
       <1>13, <1>14, <1>15, <1>16, <1>17, <1>18, <1>19, <1>20, <1>21, <1>22, <1>23,
       <1>24, HandleChanges

\* Nor does the chat get more messages than the bound.
LEMMA ChatTyped ==
  ASSUME TypeInv, [Next]_vars
  PROVE  bubble' \in Bubbles
<1>1. ASSUME NEW s \in Schedulers, Publish(s) PROVE bubble' \in Bubbles
  BY <1>1 DEF Publish, Unattached, TypeInv, TypeOK, Bubbles
<1>2. ASSUME NEW s \in Schedulers, Pin(s) PROVE bubble' \in Bubbles
  BY <1>2 DEF Pin, SchTyped, Work, TypeInv, TypeOK, Bubbles
<1>3. ASSUME NEW s \in Schedulers, Attach(s) PROVE bubble' \in Bubbles
  BY <1>3 DEF Attach, TypeInv, TypeOK, Bubbles
<1>4. ASSUME NEW s \in Schedulers, PersistOutput(s) PROVE bubble' \in Bubbles
  <2> DEFINE known == IF handle.msg # 0 THEN handle.msg ELSE bubble.pin
             msg == IF known # 0 THEN known ELSE bubble.made + 1
  <2>1. CASE UNCHANGED bubble
    BY <2>1 DEF TypeInv, TypeOK
  <2>2. CASE /\ msg <= MaxMessages
             /\ bubble' = [bubble EXCEPT !.made = IF msg > @ THEN msg ELSE @, !.narrated = TRUE]
    <3>1. msg \in 0 .. MaxMessages
      BY <2>2 DEF TypeInv, TypeOK, Handles, Bubbles
    <3> HIDE DEF msg
    <3> QED BY <2>2, <3>1 DEF TypeInv, TypeOK, Bubbles
  <2> QED BY <1>4, <2>1, <2>2 DEF PersistOutput
<1>5. ASSUME NEW s \in Schedulers, FailClaim(s) PROVE bubble' \in Bubbles
  <2>1. CASE FailWith(handle)
    BY <2>1, FailTyped DEF TypeInv, TypeOK
  <2> QED BY <1>5, <2>1 DEF FailClaim, TypeInv, TypeOK
<1>6. ASSUME NEW s \in Schedulers, Requeue(s) PROVE bubble' \in Bubbles
  <2>1. CASE Mine(s, {"claimed"}) /\ RequeueClaim(s)
    BY <2>1, RequeueTyped DEF Mine
  <2> QED BY <1>6, <2>1 DEF Requeue, TypeInv, TypeOK
<1>7. ASSUME NEW s \in Schedulers, ProveAbsent(s) PROVE bubble' \in Bubbles
  <2>1. CASE Mine(s, {"claimed", "dispatched"}) /\ RequeueClaim(s)
    BY <2>1, RequeueTyped DEF Mine
  <2> QED BY <1>7, <2>1 DEF ProveAbsent, TypeInv, TypeOK
<1>8. CASE UNCHANGED bubble
  BY <1>8 DEF TypeInv, TypeOK
<1> QED BY <1>1, <1>2, <1>3, <1>4, <1>5, <1>6, <1>7, <1>8, BubbleChanges

\* An answer of the runtime moves only those who wait for it.
LEMMA AnswerTyped ==
  ASSUME TypeInv, NEW t, NEW pc \in {"mark", "inspect", "release"}, NEW got \in Answers,
         Answer(t, pc, got)
  PROVE  SchTyped' /\ Doing'
<1>1. ASSUME NEW w \in Work PROVE [w EXCEPT !.pc = pc, !.got = got] \in Work
  BY DEF Work, Places
<1>2. \A s \in Schedulers :
         sch'[s] = sch[s] \/ sch'[s] = [sch[s] EXCEPT !.pc = pc, !.got = got]
  BY DEF Answer
<1>3. sch' = [s \in Schedulers |-> sch'[s]]
  BY DEF Answer
<1>5. \A s \in Schedulers : sch[s] \in Work
  BY DEF TypeInv, SchTyped
<1>4. SchTyped'
  <2>1. \A s \in Schedulers : sch'[s] \in Work
    BY <1>1, <1>2, <1>5
  <2> QED BY <1>3, <2>1 DEF SchTyped
<1>6. Doing'
  <2> SUFFICES ASSUME NEW s \in Schedulers, sch'[s].pc \in {"attempt", "send", "settle"}
               PROVE  sch'[s].doing \in Attempts
    BY DEF Doing
  <2>1. CASE sch'[s] = sch[s]
    BY <2>1 DEF TypeInv, Doing
  <2>2. CASE sch'[s] = [sch[s] EXCEPT !.pc = pc, !.got = got]
    <3>1. sch'[s].pc = pc
      BY <1>5, <2>2 DEF Work
    <3> QED BY <3>1
  <2> QED BY <1>2, <2>1, <2>2
<1> QED BY <1>4, <1>6

\* A scheduler with nothing to do is well typed.
LEMMA IdleTyped == Idle \in Work /\ Idle.pc = "idle"
BY DEF Work, Places, Answers

\* So do those who start or drop what they do.
LEMMA BegunTyped ==
  ASSUME TypeInv, NEW s \in Schedulers, NEW x \in Work, x.pc \notin {"attempt", "send", "settle"},
         sch' = [sch EXCEPT ![s] = x]
  PROVE  SchTyped' /\ Doing'
BY DEF TypeInv, SchTyped, Doing

\* Schedulers stay at the places they have.
LEMMA SchedulersTyped ==
  ASSUME TypeInv, [Next]_vars
  PROVE  SchTyped' /\ Doing'
<1>1. CASE JobEnds
  BY <1>1 DEF JobEnds, TypeInv, SchTyped, Work, Doing, Places, Answers
<1>2. CASE WorkerRecords
  BY <1>2 DEF WorkerRecords, TypeInv, SchTyped, Work, Doing, Places, Answers
<1>3. CASE Observe
  BY <1>3 DEF Observe, TypeInv, SchTyped, Work, Doing, Places, Answers
<1>4. CASE SubscribePending
  BY <1>4 DEF SubscribePending, TypeInv, SchTyped, Work, Doing, Places, Answers
<1>5. CASE ApiDies
  BY <1>5 DEF ApiDies, TypeInv, SchTyped, Work, Doing, Places, Answers
<1>6. CASE EarlyMessage
  BY <1>6 DEF EarlyMessage, TypeInv, SchTyped, Work, Doing, Places, Answers
<1>7. CASE SourceTurnEnds
  BY <1>7 DEF SourceTurnEnds, TypeInv, SchTyped, Work, Doing, Places, Answers
<1>8. CASE SaveReply
  BY <1>8 DEF SaveReply, TypeInv, SchTyped, Work, Doing, Places, Answers
<1>9. CASE FinalizePersisted
  BY <1>9 DEF FinalizePersisted, TypeInv, SchTyped, Work, Doing, Places, Answers
<1>10. CASE FinalizeFailed
  BY <1>10 DEF FinalizeFailed, TypeInv, SchTyped, Work, Doing, Places, Answers
<1>11. CASE SweepSourceTurn
  BY <1>11 DEF SweepSourceTurn, TypeInv, SchTyped, Work, Doing, Places, Answers
<1>12. CASE ClaimExpires
  BY <1>12 DEF ClaimExpires, TypeInv, SchTyped, Work, Doing, Places, Answers
<1>13. CASE PersistResult
  BY <1>13 DEF PersistResult, TypeInv, SchTyped, Work, Doing, Places, Answers
<1>14. CASE PersistFailure
  BY <1>14 DEF PersistFailure, TypeInv, SchTyped, Work, Doing, Places, Answers
<1>15. CASE Return
  <2>1. PICK got \in Answers : Answer(run.req, "mark", got)
    BY <1>15 DEF Return, Answers
  <2> QED BY <2>1, AnswerTyped
<1>16. CASE HandlerDies
  <2>1. "none" \in Answers /\ Answer(run.req, "inspect", "none")
    BY <1>16 DEF HandlerDies, Answers
  <2> QED BY <2>1, AnswerTyped
<1>17. CASE OrphanReceipt
  BY <1>17 DEF OrphanReceipt, TypeInv, SchTyped, Work, Doing, Places, Answers
<1>18. ASSUME NEW t \in Tokens, CheckReplay(t) PROVE SchTyped' /\ Doing'
  <2>1. CASE UNCHANGED sch
    BY <2>1 DEF TypeInv, SchTyped, Doing
  <2>2. CASE Replay(t)
    BY <2>2, AnswerTyped DEF Replay, Answers
  <2> QED BY <1>18, <2>1, <2>2 DEF CheckReplay
<1>19. ASSUME NEW t \in Tokens, Accept(t) PROVE SchTyped' /\ Doing'
  <2>1. CASE UNCHANGED sch
    BY <2>1 DEF TypeInv, SchTyped, Doing
  <2>2. CASE Replay(t)
    BY <2>2, AnswerTyped DEF Replay, Answers
  <2>3. CASE Answer(t, "inspect", "duplicate") \/ Answer(t, "release", "busy")
    BY <2>3, AnswerTyped DEF Answers
  <2> QED BY <1>19, <2>1, <2>2, <2>3 DEF Accept
<1>20. ASSUME NEW s \in Schedulers, ListOpen(s) PROVE SchTyped' /\ Doing'
  BY <1>20 DEF ListOpen, TypeInv, SchTyped, Work, Doing, Places, Answers
<1>21. ASSUME NEW s \in Schedulers, ClaimReadyHead(s) PROVE SchTyped' /\ Doing'
  <2>1. PICK t \in Tokens :
          sch' = [sch EXCEPT ![s] = [Idle EXCEPT !.pc = "held", !.role = "claim", !.tok = t]]
    BY <1>21 DEF ClaimReadyHead
  <2> DEFINE x == [Idle EXCEPT !.pc = "held", !.role = "claim", !.tok = t]
  <2>2. x \in Work /\ x.pc = "held"
    <3> HIDE DEF Idle
    <3> QED BY IdleTyped DEF Work, Places
  <2>3. sch' = [sch EXCEPT ![s] = x]
    BY <2>1
  <2> HIDE DEF x
  <2> QED BY <2>2, <2>3, BegunTyped
<1>22. ASSUME NEW s \in Schedulers, ReconcileExpired(s) PROVE SchTyped' /\ Doing'
  <2>1. PICK pc \in {"requeue", "giveUp", "finish", "lookup"} :
          sch' = [sch EXCEPT ![s] = [Idle EXCEPT !.pc = pc, !.role = "recon", !.tok = handle.token]]
    BY <1>22 DEF ReconcileExpired
  <2> DEFINE x == [Idle EXCEPT !.pc = pc, !.role = "recon", !.tok = handle.token]
  <2>2. x \in Work /\ x.pc \notin {"attempt", "send", "settle"}
    <3>1. handle.token \in Tokens \cup {None}
      BY DEF TypeInv, TypeOK, Handles
    <3> HIDE DEF Idle
    <3> QED BY <3>1, IdleTyped DEF Work, Places
  <2>3. sch' = [sch EXCEPT ![s] = x]
    BY <2>1
  <2> HIDE DEF x
  <2> QED BY <2>2, <2>3, BegunTyped
<1>23. ASSUME NEW s \in Schedulers, RecordListed(s) PROVE SchTyped' /\ Doing'
  BY <1>23 DEF RecordListed, TypeInv, SchTyped, Work, Doing, Places, Answers
<1>24. ASSUME NEW s \in Schedulers, Validate(s) PROVE SchTyped' /\ Doing'
  BY <1>24 DEF Validate, TypeInv, SchTyped, Work, Doing, Places, Answers
<1>25. ASSUME NEW s \in Schedulers, Gate(s) PROVE SchTyped' /\ Doing'
  BY <1>25 DEF Gate, TypeInv, SchTyped, Work, Doing, Places, Answers
<1>26. ASSUME NEW s \in Schedulers, Call(s) PROVE SchTyped' /\ Doing'
  BY <1>26 DEF Call, TypeInv, SchTyped, Work, Doing, Places, Answers
<1>27. ASSUME NEW s \in Schedulers, Release(s) PROVE SchTyped' /\ Doing'
  BY <1>27 DEF Release, TypeInv, SchTyped, Work, Doing, Places, Answers
<1>28. ASSUME NEW s \in Schedulers, Inspect(s) PROVE SchTyped' /\ Doing'
  BY <1>28 DEF Inspect, TypeInv, SchTyped, Work, Doing, Places, Answers
<1>29. ASSUME NEW s \in Schedulers, MarkDispatched(s) PROVE SchTyped' /\ Doing'
  BY <1>29 DEF MarkDispatched, TypeInv, SchTyped, Work, Doing, Places, Answers
<1>30. ASSUME NEW s \in Schedulers, Publish(s) PROVE SchTyped' /\ Doing'
  <2>1. PICK pc \in {"pin", "attach", "stamp"}, m \in 0 .. MaxMessages :
          sch' = [sch EXCEPT ![s].pc = pc, ![s].msg = m]
    BY <1>30 DEF Publish, TypeInv, TypeOK, Bubbles
  <2> DEFINE x == [sch[s] EXCEPT !.pc = pc, !.msg = m]
  <2>2. x \in Work /\ x.pc \notin {"attempt", "send", "settle"}
    <3>1. sch[s] \in Work
      BY DEF TypeInv, SchTyped
    <3> QED BY <3>1 DEF Work, Places
  <2>3. sch' = [sch EXCEPT ![s] = x]
    BY <2>1 DEF TypeInv, SchTyped
  <2> HIDE DEF x
  <2> QED BY <2>2, <2>3, BegunTyped
<1>31. ASSUME NEW s \in Schedulers, Pin(s) PROVE SchTyped' /\ Doing'
  BY <1>31 DEF Pin, TypeInv, SchTyped, Work, Doing, Places, Answers
<1>32. ASSUME NEW s \in Schedulers, Stamp(s) PROVE SchTyped' /\ Doing'
  BY <1>32 DEF Stamp, TypeInv, SchTyped, Work, Doing, Places, Answers
<1>33. ASSUME NEW s \in Schedulers, Attach(s) PROVE SchTyped' /\ Doing'
  BY <1>33 DEF Attach, TypeInv, SchTyped, Work, Doing, Places, Answers
<1>34. ASSUME NEW s \in Schedulers, Outcome(s) PROVE SchTyped' /\ Doing'
  BY <1>34 DEF Outcome, TypeInv, SchTyped, Work, Doing, Places, Answers
<1>35. ASSUME NEW s \in Schedulers, PersistOutput(s) PROVE SchTyped' /\ Doing'
  BY <1>35 DEF PersistOutput, Attempts, TypeInv, SchTyped, Work, Doing, Places, Answers
<1>36. ASSUME NEW s \in Schedulers, ClaimAttempt(s) PROVE SchTyped' /\ Doing'
  BY <1>36 DEF ClaimAttempt, AfterAttempt, Attempts, TypeInv, SchTyped, Work, Doing,
        Places, Answers
<1>37. ASSUME NEW s \in Schedulers, Send(s) PROVE SchTyped' /\ Doing'
  BY <1>37 DEF Send, TypeInv, SchTyped, Work, Doing, Places, Answers
<1>38. ASSUME NEW s \in Schedulers, SettleAttempt(s) PROVE SchTyped' /\ Doing'
  BY <1>38 DEF SettleAttempt, AfterAttempt, Attempts, TypeInv, SchTyped, Work, Doing,
        Places, Answers
<1>39. ASSUME NEW s \in Schedulers, CheckAttempts(s) PROVE SchTyped' /\ Doing'
  BY <1>39 DEF CheckAttempts, TypeInv, SchTyped, Work, Doing, Places, Answers
<1>40. ASSUME NEW s \in Schedulers, CompleteClaim(s) PROVE SchTyped' /\ Doing'
  BY <1>40 DEF CompleteClaim, TypeInv, SchTyped, Work, Doing, Places, Answers
<1>41. ASSUME NEW s \in Schedulers, FailClaim(s) PROVE SchTyped' /\ Doing'
  BY <1>41 DEF FailClaim, TypeInv, SchTyped, Work, Doing, Places, Answers
<1>42. ASSUME NEW s \in Schedulers, ClaimNotice(s) PROVE SchTyped' /\ Doing'
  BY <1>42 DEF ClaimNotice, TypeInv, SchTyped, Work, Doing, Places, Answers
<1>43. ASSUME NEW s \in Schedulers, SendNotice(s) PROVE SchTyped' /\ Doing'
  BY <1>43 DEF SendNotice, TypeInv, SchTyped, Work, Doing, Places, Answers
<1>44. ASSUME NEW s \in Schedulers, SettleNotice(s) PROVE SchTyped' /\ Doing'
  BY <1>44 DEF SettleNotice, TypeInv, SchTyped, Work, Doing, Places, Answers
<1>45. ASSUME NEW s \in Schedulers, Requeue(s) PROVE SchTyped' /\ Doing'
  <2>1. sch' = [sch EXCEPT ![s].pc = "notice"] \/ Quits(s)
    BY <1>45 DEF Requeue, RequeueClaim
  <2> QED BY <2>1 DEF TypeInv, SchTyped, Work, Doing, Places, Answers
<1>46. ASSUME NEW s \in Schedulers, GiveUpAttempts(s) PROVE SchTyped' /\ Doing'
  BY <1>46 DEF GiveUpAttempts, TypeInv, SchTyped, Work, Doing, Places, Answers
<1>47. ASSUME NEW s \in Schedulers, LookUpReceipt(s) PROVE SchTyped' /\ Doing'
  BY <1>47 DEF LookUpReceipt, TypeOK, TypeInv, SchTyped, Work, Doing, Places, Answers
<1>48. ASSUME NEW s \in Schedulers, ProveAbsent(s) PROVE SchTyped' /\ Doing'
  <2>1. sch' = [sch EXCEPT ![s].pc = "notice"] \/ Quits(s)
    BY <1>48 DEF ProveAbsent, RequeueClaim
  <2> QED BY <2>1 DEF TypeInv, SchTyped, Work, Doing, Places, Answers
<1>49. ASSUME NEW s \in Schedulers, Crash(s) PROVE SchTyped' /\ Doing'
  BY <1>49 DEF Crash, TypeInv, SchTyped, Work, Doing, Places, Answers
<1>50. ASSUME NEW s \in Schedulers, LoseLock(s) PROVE SchTyped' /\ Doing'
  BY <1>50 DEF LoseLock, TypeInv, SchTyped, Work, Doing, Places, Answers
<1>51. ASSUME NEW s \in Schedulers, Throws(s) PROVE SchTyped' /\ Doing'
  BY <1>51 DEF Throws, TypeInv, SchTyped, Work, Doing, Places, Answers
<1>52. ASSUME NEW s \in Schedulers, PublishThrows(s) PROVE SchTyped' /\ Doing'
  BY <1>52 DEF PublishThrows, TypeInv, SchTyped, Work, Doing, Places, Answers
<1>53. ASSUME NEW s \in Schedulers, GiveUpCall(s) PROVE SchTyped' /\ Doing'
  BY <1>53 DEF GiveUpCall, TypeInv, SchTyped, Work, Doing, Places, Answers
<1>54. CASE UNCHANGED vars
  BY <1>54 DEF vars, TypeInv, SchTyped, Work, Doing, Places, Answers
<1> QED BY <1>1, <1>2, <1>3, <1>4, <1>5, <1>6, <1>7, <1>8, <1>9, <1>10, <1>11, <1>12,
       <1>13, <1>14, <1>15, <1>16, <1>17, <1>18, <1>19, <1>20, <1>21, <1>22, <1>23,
       <1>24, <1>25, <1>26, <1>27, <1>28, <1>29, <1>30, <1>31, <1>32, <1>33, <1>34,
       <1>35, <1>36, <1>37, <1>38, <1>39, <1>40, <1>41, <1>42, <1>43, <1>44, <1>45,
       <1>46, <1>47, <1>48, <1>49, <1>50, <1>51, <1>52, <1>53, <1>54 DEF Next, Chat,
       Runtime, Poll, Step, Disturb

\* The rest: the job, the source turn, the runtime, what was sent.
LEMMA OthersTyped ==
  ASSUME TypeInv, [Next]_vars
  PROVE  Others'
<1>1. CASE Observe \/ SubscribePending \/ SweepSourceTurn \/ ClaimExpires
  BY <1>1 DEF Observe, SubscribePending, SweepSourceTurn, ClaimExpires, TypeInv, TypeOK,
        Others
<1>2. CASE JobEnds
  <2>1. job' \in Terminal /\ owed' \in BOOLEAN
    BY <1>2 DEF JobEnds
  <2> QED BY <1>2, <2>1 DEF JobEnds, TypeInv, TypeOK, Others
<1>3. CASE WorkerRecords
  <2>1. owed' = FALSE /\ (UNCHANGED faults \/ Fault)
    BY <1>3 DEF WorkerRecords
  <2>2. faults' \in 0 .. MaxFaults
    BY <2>1 DEF TypeInv, TypeOK
  <2> QED BY <1>3, <2>1, <2>2 DEF WorkerRecords, TypeInv, TypeOK, Others
<1>4. CASE ApiDies
  BY <1>4 DEF ApiDies, TypeInv, TypeOK, Others
<1>5. CASE EarlyMessage
  BY <1>5 DEF EarlyMessage, TypeInv, TypeOK, Others
<1>6. CASE SourceTurnEnds
  BY <1>6 DEF SourceTurnEnds, TypeInv, TypeOK, Others
<1>7. CASE SaveReply
  BY <1>7 DEF SaveReply, TypeInv, TypeOK, Others
<1>8. CASE FinalizePersisted
  BY <1>8 DEF FinalizePersisted, TypeInv, TypeOK, Others
<1>9. CASE FinalizeFailed
  BY <1>9 DEF FinalizeFailed, TypeInv, TypeOK, Others
<1>10. CASE PersistResult
  <2>1. run' \in Runs
    BY <1>10 DEF PersistResult, TypeInv, TypeOK, Runs, Lost
  <2>2. call' \in [Tokens -> {"none", "sent", "checked", "accepted"}]
    BY <1>10 DEF PersistResult, Answer, TypeInv, TypeOK
  <2>3. faults' \in 0 .. MaxFaults
    BY <1>10 DEF PersistResult, TypeInv, TypeOK
  <2> QED BY <1>10, <2>1, <2>2, <2>3 DEF PersistResult, TypeInv, TypeOK, Others
<1>11. CASE PersistFailure
  <2>1. run' \in Runs
    BY <1>11 DEF PersistFailure, TypeInv, TypeOK, Runs, Lost
  <2>2. call' \in [Tokens -> {"none", "sent", "checked", "accepted"}]
    BY <1>11 DEF PersistFailure, Answer, TypeInv, TypeOK
  <2>3. faults' \in 0 .. MaxFaults
    BY <1>11 DEF PersistFailure, TypeInv, TypeOK
  <2> QED BY <1>11, <2>1, <2>2, <2>3 DEF PersistFailure, TypeInv, TypeOK, Others
<1>12. CASE Return
  <2>1. run' \in Runs
    BY <1>12 DEF Return, TypeInv, TypeOK, Runs, Lost
  <2>2. call' \in [Tokens -> {"none", "sent", "checked", "accepted"}]
    BY <1>12 DEF Return, Answer, TypeInv, TypeOK
  <2>3. faults' \in 0 .. MaxFaults
    BY <1>12 DEF Return, TypeInv, TypeOK
  <2> QED BY <1>12, <2>1, <2>2, <2>3 DEF Return, TypeInv, TypeOK, Others
<1>13. CASE HandlerDies
  <2>1. run' \in Runs
    BY <1>13 DEF HandlerDies, TypeInv, TypeOK, Runs, Lost
  <2>2. call' \in [Tokens -> {"none", "sent", "checked", "accepted"}]
    BY <1>13 DEF HandlerDies, Answer, TypeInv, TypeOK
  <2>3. faults' \in 0 .. MaxFaults
    BY <1>13 DEF HandlerDies, TypeInv, TypeOK
  <2> QED BY <1>13, <2>1, <2>2, <2>3 DEF HandlerDies, TypeInv, TypeOK, Others
<1>14. CASE OrphanReceipt
  <2>1. run' \in Runs
    BY <1>14 DEF OrphanReceipt, TypeInv, TypeOK, Runs, Lost
  <2>2. call' \in [Tokens -> {"none", "sent", "checked", "accepted"}]
    BY <1>14 DEF OrphanReceipt, Answer, TypeInv, TypeOK
  <2>3. faults' \in 0 .. MaxFaults
    BY <1>14 DEF OrphanReceipt, TypeInv, TypeOK
  <2> QED BY <1>14, <2>1, <2>2, <2>3 DEF OrphanReceipt, TypeInv, TypeOK, Others
<1>15. ASSUME NEW t \in Tokens, CheckReplay(t) PROVE Others'
  <2>1. \E c \in {"none", "checked"} : call' = [call EXCEPT ![t] = c]
    BY <1>15 DEF CheckReplay, Replay, Answer
  <2>2. UNCHANGED <<job, owed, source, run, sent, faults>>
    BY <1>15 DEF CheckReplay
  <2> QED BY <2>1, <2>2 DEF TypeInv, TypeOK, Others
<1>16. ASSUME NEW t \in Tokens, Accept(t) PROVE Others'
  <2>1. \E c \in {"none", "accepted"} : call' = [call EXCEPT ![t] = c]
    BY <1>16 DEF Accept, Replay, Answer
  <2>2. run' \in Runs
    <3>1. \/ UNCHANGED run
          \/ run' = [status |-> "running", req |-> t, pc |-> "working", replied |-> FALSE]
      BY <1>16 DEF Accept
    <3>2. CASE UNCHANGED run
      BY <3>2 DEF TypeInv, TypeOK
    <3>3. [status |-> "running", req |-> t, pc |-> "working", replied |-> FALSE] \in Runs
      BY DEF Runs
    <3> QED BY <3>1, <3>2, <3>3
  <2>3. faults' \in 0 .. MaxFaults
    BY <1>16 DEF Accept, TypeInv, TypeOK
  <2>4. UNCHANGED <<job, owed, source, sent>>
    BY <1>16 DEF Accept
  <2> QED BY <2>1, <2>2, <2>3, <2>4 DEF TypeInv, TypeOK, Others
<1>17. ASSUME NEW s \in Schedulers, ListOpen(s) \/ ClaimReadyHead(s) \/
             ReconcileExpired(s) \/ RecordListed(s) \/ Validate(s) \/ Release(s) \/
             MarkDispatched(s) \/ Publish(s) \/ Pin(s) \/ Stamp(s) \/ Attach(s) \/
             Outcome(s) \/ PersistOutput(s) \/ ClaimAttempt(s) \/ SettleAttempt(s) \/
             CheckAttempts(s) \/ CompleteClaim(s) \/ FailClaim(s) \/ ClaimNotice(s) \/
             SettleNotice(s) \/ Requeue(s) \/ GiveUpAttempts(s) \/ LookUpReceipt(s)
             PROVE Others'
  BY <1>17 DEF ListOpen, ClaimReadyHead, ReconcileExpired, RecordListed, Validate,
        Release, MarkDispatched, Publish, Pin, Stamp, Attach, Outcome, PersistOutput,
        ClaimAttempt, SettleAttempt, CheckAttempts, CompleteClaim, FailClaim,
        ClaimNotice, SettleNotice, Requeue, GiveUpAttempts, LookUpReceipt, TypeInv,
        TypeOK, Others
<1>18. ASSUME NEW s \in Schedulers, Gate(s) \/ Inspect(s) \/ ProveAbsent(s) \/ Crash(s)
             \/ LoseLock(s) \/ Throws(s) \/ PublishThrows(s) PROVE Others'
  BY <1>18 DEF Gate, Inspect, ProveAbsent, Crash, LoseLock, Throws, PublishThrows,
        TypeInv, TypeOK, Others
<1>19. ASSUME NEW s \in Schedulers, Send(s) \/ SendNotice(s) PROVE Others'
  BY <1>19 DEF Send, OnceMore, SendNotice, Attempts, Doing, TypeInv, TypeOK, Others
<1>20. ASSUME NEW s \in Schedulers, Call(s) PROVE Others'
  BY <1>20 DEF Call, TypeInv, TypeOK, Others
<1>21. ASSUME NEW s \in Schedulers, GiveUpCall(s) PROVE Others'
  BY <1>21 DEF GiveUpCall, TypeInv, TypeOK, Others
<1>22. CASE UNCHANGED vars
  BY <1>22 DEF vars, TypeInv, TypeOK, Others
<1> QED BY <1>1, <1>2, <1>3, <1>4, <1>5, <1>6, <1>7, <1>8, <1>9, <1>10, <1>11, <1>12,
       <1>13, <1>14, <1>15, <1>16, <1>17, <1>18, <1>19, <1>20, <1>21, <1>22 DEF Next,
       Chat, Runtime, Poll, Step, Disturb

\* The receipt is begun, settled and overwritten by its handler only.
LEMMA RunStep ==
  ASSUME TypeInv, [Next]_vars
  PROVE  RunReal'
<1> USE DEF TypeInv, TypeOK, RunReal, Runs, Lost
<1>1. CASE UNCHANGED run
  BY <1>1
<1>2. CASE PersistResult \/ PersistFailure
  BY <1>2 DEF PersistResult, PersistFailure
<1>3. CASE Return \/ HandlerDies \/ OrphanReceipt
  BY <1>3 DEF Return, HandlerDies, OrphanReceipt
<1>4. ASSUME NEW t \in Tokens, Accept(t) PROVE RunReal'
  BY <1>4 DEF Accept
<1> QED BY <1>1, <1>2, <1>3, <1>4, RunChanges

\* No step leaves the types.
LEMMA TypeStep ==
  ASSUME TypeInv, [Next]_vars
  PROVE  TypeInv'
BY HandleTyped, ChatTyped, SchedulersTyped, OthersTyped, RunStep DEF TypeInv, TypeOK, Others

\* The types hold before the first step.
LEMMA TypeInit == Init => TypeInv
<1> SUFFICES ASSUME Init PROVE TypeInv
  OBVIOUS
<1>1. handle \in Handles /\ JobOver /\ Budget
  BY DEF Init, Handles, Attempts, JobOver, Budget
<1>2. bubble \in Bubbles
  BY DEF Init, Bubbles
<1>3. SchTyped /\ Doing
  <2> HIDE DEF Idle
  <2> QED BY IdleTyped DEF Init, SchTyped, Doing
<1>4. Others
  <2>1. job = "running" /\ owed = FALSE /\ faults \in 0 .. MaxFaults
    BY DEF Init
  <2>2. source = [turn |-> "running", api |-> "turn", saved |-> FALSE]
    BY DEF Init
  <2>3. run = [status |-> "absent", req |-> None, pc |-> "gone", replied |-> FALSE]
    BY DEF Init
  <2>4. call = [t \in Tokens |-> "none"] /\ sent = [k \in Attempts |-> 0]
    BY DEF Init
  <2>5. call \in [Tokens -> {"none", "sent", "checked", "accepted"}]
    BY <2>4
  <2>6. sent \in [Attempts -> 0 .. 2]
    BY <2>4
  <2> QED BY <2>1, <2>2, <2>3, <2>5, <2>6 DEF Others, Runs
<1>5. RunReal
  BY DEF Init, RunReal
<1> QED BY <1>1, <1>2, <1>3, <1>4, <1>5 DEF TypeInv, TypeOK, Others

-----------------------------------------------------------------------------
(* One send.                                                                *)

AttemptStep(s) ==
    ClaimAttempt(s) \/ SettleAttempt(s) \/ ClaimNotice(s) \/ SettleNotice(s) \/ GiveUpAttempts(s)

AttemptsKept == handle'.attempt = handle.attempt \/ \E s \in Schedulers : AttemptStep(s)

\* What persistPermanentFailureMessage and requeueClaim leave of a row.
LEMMA FailKeeps ==
  ASSUME NEW x \in Handles, FailWith(x)
  PROVE  handle'.attempt = x.attempt /\ handle'.owner = x.owner
<1>1. PICK msg : handle' = [x EXCEPT !.state = "failed", !.token = None, !.expired = FALSE,
                                     !.msg = msg]
  BY DEF FailWith
<1> QED BY <1>1 DEF Handles

\* requeueClaim leaves the owner and the attempts alone.
LEMMA RequeueKeeps ==
  ASSUME TypeInv, NEW s, handle.state \in {"claimed", "dispatched"}, RequeueClaim(s)
  PROVE  handle'.attempt = handle.attempt /\ handle'.owner = handle.owner
<1> DEFINE tried == [handle EXCEPT !.retries = @ + 1]
<1>1. tried \in Handles /\ tried.attempt = handle.attempt /\ tried.owner = handle.owner
  BY DEF TypeInv, Budget, TypeOK, Handles
<1>2. CASE FailWith(tried)
  BY <1>1, <1>2, FailKeeps
<1>3. CASE handle' = [tried EXCEPT !.state = "ready", !.token = None, !.expired = FALSE]
  <2> HIDE DEF tried
  <2> QED BY <1>1, <1>3 DEF Handles
<1> QED BY <1>2, <1>3 DEF RequeueClaim

\* Attempts are only claimed and settled.
LEMMA AttemptKept ==
  ASSUME TypeInv, [Next]_vars
  PROVE  AttemptsKept
<1>1. CASE JobEnds
  BY <1>1 DEF JobEnds, AttemptsKept, TypeInv, TypeOK, Handles
<1>2. CASE WorkerRecords
  BY <1>2 DEF WorkerRecords, RecordCompletion, AttemptsKept, TypeInv, TypeOK, Handles
<1>3. CASE Observe
  BY <1>3 DEF Observe, NarrateInline, AttemptsKept, TypeInv, TypeOK, Handles
<1>4. CASE SubscribePending
  BY <1>4 DEF SubscribePending, NarrateInline, AttemptsKept, TypeInv, TypeOK, Handles
<1>5. CASE FinalizePersisted
  <2>1. \E outcome : FinalizeSourceTurn(outcome)
    BY <1>5 DEF FinalizePersisted
  <2> QED BY <2>1, FinalizeTyped DEF AttemptsKept
<1>6. CASE FinalizeFailed
  <2>1. \E outcome : FinalizeSourceTurn(outcome)
    BY <1>6 DEF FinalizeFailed
  <2> QED BY <2>1, FinalizeTyped DEF AttemptsKept
<1>7. CASE SweepSourceTurn
  <2>1. \E outcome : FinalizeSourceTurn(outcome)
    BY <1>7 DEF SweepSourceTurn
  <2> QED BY <2>1, FinalizeTyped DEF AttemptsKept
<1>8. CASE ClaimExpires
  BY <1>8 DEF ClaimExpires, AttemptsKept, TypeInv, TypeOK, Handles
<1>9. ASSUME NEW s \in Schedulers, ClaimReadyHead(s) PROVE AttemptsKept
  BY <1>9 DEF ClaimReadyHead, AttemptsKept, TypeInv, TypeOK, Handles
<1>10. ASSUME NEW s \in Schedulers, RecordListed(s) PROVE AttemptsKept
  BY <1>10 DEF RecordListed, RecordCompletion, AttemptsKept, TypeInv, TypeOK, Handles
<1>11. ASSUME NEW s \in Schedulers, Release(s) PROVE AttemptsKept
  BY <1>11 DEF Release, Mine, AttemptsKept, TypeInv, TypeOK, Handles
<1>12. ASSUME NEW s \in Schedulers, MarkDispatched(s) PROVE AttemptsKept
  BY <1>12 DEF MarkDispatched, Mine, AttemptsKept, TypeInv, TypeOK, Handles
<1>13. ASSUME NEW s \in Schedulers, Stamp(s) PROVE AttemptsKept
  BY <1>13 DEF Stamp, Unattached, AttemptsKept, TypeInv, TypeOK, Handles
<1>14. ASSUME NEW s \in Schedulers, PersistOutput(s) PROVE AttemptsKept
  BY <1>14 DEF PersistOutput, Mine, AttemptsKept, TypeInv, TypeOK, Handles
<1>15. ASSUME NEW s \in Schedulers, ClaimAttempt(s) PROVE AttemptsKept
  BY <1>15 DEF AttemptsKept, AttemptStep
<1>16. ASSUME NEW s \in Schedulers, SettleAttempt(s) PROVE AttemptsKept
  BY <1>16 DEF AttemptsKept, AttemptStep
<1>17. ASSUME NEW s \in Schedulers, CompleteClaim(s) PROVE AttemptsKept
  BY <1>17 DEF CompleteClaim, Mine, AttemptsKept, TypeInv, TypeOK, Handles
<1>18. ASSUME NEW s \in Schedulers, FailClaim(s) PROVE AttemptsKept
  <2>1. handle \in Handles
    BY DEF TypeInv, TypeOK
  <2>2. CASE FailWith(handle)
    BY <2>1, <2>2, FailKeeps DEF AttemptsKept
  <2> QED BY <1>18, <2>1, <2>2 DEF FailClaim, Handles, AttemptsKept
<1>19. ASSUME NEW s \in Schedulers, ClaimNotice(s) PROVE AttemptsKept
  BY <1>19 DEF AttemptsKept, AttemptStep
<1>20. ASSUME NEW s \in Schedulers, SettleNotice(s) PROVE AttemptsKept
  BY <1>20 DEF AttemptsKept, AttemptStep
<1>21. ASSUME NEW s \in Schedulers, Requeue(s) PROVE AttemptsKept
  <2>1. CASE Mine(s, {"claimed"}) /\ RequeueClaim(s)
    BY <2>1, RequeueKeeps DEF Mine, AttemptsKept
  <2> QED BY <1>21, <2>1 DEF Requeue, AttemptsKept
<1>22. ASSUME NEW s \in Schedulers, GiveUpAttempts(s) PROVE AttemptsKept
  BY <1>22 DEF AttemptsKept, AttemptStep
<1>23. ASSUME NEW s \in Schedulers, ProveAbsent(s) PROVE AttemptsKept
  <2>1. CASE Mine(s, {"claimed", "dispatched"}) /\ RequeueClaim(s)
    BY <2>1, RequeueKeeps DEF Mine, AttemptsKept
  <2> QED BY <1>23, <2>1 DEF ProveAbsent, AttemptsKept
<1>24. CASE UNCHANGED <<handle, job, owed>>
  BY <1>24 DEF AttemptsKept
<1> QED BY <1>1, <1>2, <1>3, <1>4, <1>5, <1>6, <1>7, <1>8, <1>9, <1>10, <1>11, <1>12,
       <1>13, <1>14, <1>15, <1>16, <1>17, <1>18, <1>19, <1>20, <1>21, <1>22, <1>23,
       <1>24, HandleChanges

\* Only these send.
LEMMA SentChanges ==
  ASSUME [Next]_vars
  PROVE  \/ UNCHANGED sent
         \/ \E s \in Schedulers : Send(s) \/ SendNotice(s)
<1>1. CASE JobEnds \/ WorkerRecords \/ Observe \/ SubscribePending \/ ApiDies \/
         EarlyMessage \/ SourceTurnEnds \/ SaveReply \/ FinalizePersisted \/
         FinalizeFailed \/ SweepSourceTurn \/ ClaimExpires \/ PersistResult \/
         PersistFailure \/ Return \/ HandlerDies \/ OrphanReceipt
  BY <1>1 DEF JobEnds, WorkerRecords, RecordCompletion, Observe, NarrateInline,
        SubscribePending, ApiDies, EarlyMessage, SourceTurnEnds, SaveReply,
        FinalizePersisted, FinalizeSourceTurn, FinalizeFailed, SweepSourceTurn,
        ClaimExpires, PersistResult, PersistFailure, Return, Answer, HandlerDies,
        OrphanReceipt
<1>2. ASSUME NEW t \in Tokens, CheckReplay(t) \/ Accept(t) PROVE UNCHANGED sent
  BY <1>2 DEF CheckReplay, Replay, Answer, Accept
<1>3. ASSUME NEW s \in Schedulers, ListOpen(s) \/ ClaimReadyHead(s) \/
         ReconcileExpired(s) \/ RecordListed(s) \/ Validate(s) \/ Gate(s) \/ Call(s) \/
         Release(s) \/ Inspect(s) \/ MarkDispatched(s) \/ Publish(s) \/ Pin(s) \/
         Stamp(s) \/ Attach(s) \/ Outcome(s) \/ PersistOutput(s) \/ ClaimAttempt(s) \/
         SettleAttempt(s) \/ CheckAttempts(s) \/ CompleteClaim(s) \/ FailClaim(s) \/
         ClaimNotice(s) \/ SettleNotice(s) \/ Requeue(s) \/ GiveUpAttempts(s) \/
         LookUpReceipt(s) \/ ProveAbsent(s) \/ Crash(s) \/ LoseLock(s) \/ Throws(s) \/
         PublishThrows(s) \/ GiveUpCall(s) PROVE UNCHANGED sent
  BY <1>3 DEF ListOpen, ClaimReadyHead, ReconcileExpired, RecordListed,
        RecordCompletion, Validate, Gate, Call, Release, Inspect, MarkDispatched,
        Publish, Pin, Stamp, Attach, Outcome, PersistOutput, ClaimAttempt, AfterAttempt,
        SettleAttempt, CheckAttempts, CompleteClaim, FailClaim, Delivered, ClaimNotice,
        SettleNotice, Requeue, RequeueClaim, GiveUpAttempts, LookUpReceipt, ProveAbsent,
        Crash, LoseLock, Throws, PublishThrows, GiveUpCall
<1> QED BY <1>1, <1>2, <1>3 DEF Next, Chat, Runtime, Poll, Step, Disturb, vars

\* Nobody else comes to send.
SendersKept ==
    \/ \A s \in Schedulers : sch'[s] = sch[s] \/ sch'[s].pc \notin {"send", "sendNotice"}
    \/ \E s \in Schedulers : ClaimAttempt(s) \/ ClaimNotice(s)

\* Only the claim of an attempt or of a notice leads to sending.
LEMMA SendersStep ==
  ASSUME TypeInv, [Next]_vars
  PROVE  SendersKept
<1>1. CASE JobEnds \/ WorkerRecords \/ Observe \/ SubscribePending \/ ApiDies \/
          EarlyMessage \/ SourceTurnEnds \/ SaveReply \/ FinalizePersisted \/
          FinalizeFailed \/ SweepSourceTurn \/ ClaimExpires \/ PersistResult \/
          PersistFailure \/ OrphanReceipt
  BY <1>1 DEF JobEnds, WorkerRecords, Observe, SubscribePending, ApiDies, EarlyMessage,
        SourceTurnEnds, SaveReply, FinalizePersisted, FinalizeFailed, SweepSourceTurn,
        ClaimExpires, PersistResult, PersistFailure, OrphanReceipt, SendersKept,
        TypeInv, SchTyped, Work
<1>2. CASE Return
  <2>1. UNCHANGED sch \/ \E x, pc, got : pc # "send" /\ pc # "sendNotice" /\ Answer(x, pc, got)
    BY <1>2 DEF Return
  <2>2. ASSUME NEW x, NEW pc, NEW got, pc # "send", pc # "sendNotice", Answer(x, pc, got)
        PROVE  SendersKept
    BY <2>2 DEF Answer, SendersKept, TypeInv, SchTyped, Work
  <2> QED BY <2>1, <2>2 DEF SendersKept
<1>3. CASE HandlerDies
  <2>1. UNCHANGED sch \/ \E x, pc, got : pc # "send" /\ pc # "sendNotice" /\ Answer(x, pc, got)
    BY <1>3 DEF HandlerDies
  <2>2. ASSUME NEW x, NEW pc, NEW got, pc # "send", pc # "sendNotice", Answer(x, pc, got)
        PROVE  SendersKept
    BY <2>2 DEF Answer, SendersKept, TypeInv, SchTyped, Work
  <2> QED BY <2>1, <2>2 DEF SendersKept
<1>4. ASSUME NEW t \in Tokens, CheckReplay(t) PROVE SendersKept
  <2>1. UNCHANGED sch \/ \E x, pc, got : pc # "send" /\ pc # "sendNotice" /\ Answer(x, pc, got)
    BY <1>4 DEF CheckReplay, Replay
  <2>2. ASSUME NEW x, NEW pc, NEW got, pc # "send", pc # "sendNotice", Answer(x, pc, got)
        PROVE  SendersKept
    BY <2>2 DEF Answer, SendersKept, TypeInv, SchTyped, Work
  <2> QED BY <2>1, <2>2 DEF SendersKept
<1>5. ASSUME NEW t \in Tokens, Accept(t) PROVE SendersKept
  <2>1. UNCHANGED sch \/ \E x, pc, got : pc # "send" /\ pc # "sendNotice" /\ Answer(x, pc, got)
    BY <1>5 DEF Accept, Replay
  <2>2. ASSUME NEW x, NEW pc, NEW got, pc # "send", pc # "sendNotice", Answer(x, pc, got)
        PROVE  SendersKept
    BY <2>2 DEF Answer, SendersKept, TypeInv, SchTyped, Work
  <2> QED BY <2>1, <2>2 DEF SendersKept
<1>6. ASSUME NEW s \in Schedulers, ListOpen(s) PROVE SendersKept
  BY <1>6 DEF ListOpen, SendersKept, TypeInv, SchTyped, Work
<1>7. ASSUME NEW s \in Schedulers, ClaimReadyHead(s) PROVE SendersKept
  BY <1>7 DEF ClaimReadyHead, SendersKept, TypeInv, SchTyped, Work
<1>8. ASSUME NEW s \in Schedulers, ReconcileExpired(s) PROVE SendersKept
  BY <1>8 DEF ReconcileExpired, SendersKept, TypeInv, SchTyped, Work
<1>9. ASSUME NEW s \in Schedulers, RecordListed(s) PROVE SendersKept
  BY <1>9 DEF RecordListed, SendersKept, TypeInv, SchTyped, Work
<1>10. ASSUME NEW s \in Schedulers, Validate(s) PROVE SendersKept
  BY <1>10 DEF Validate, SendersKept, TypeInv, SchTyped, Work
<1>11. ASSUME NEW s \in Schedulers, Gate(s) PROVE SendersKept
  BY <1>11 DEF Gate, SendersKept, TypeInv, SchTyped, Work
<1>12. ASSUME NEW s \in Schedulers, Call(s) PROVE SendersKept
  BY <1>12 DEF Call, SendersKept, TypeInv, SchTyped, Work
<1>13. ASSUME NEW s \in Schedulers, Release(s) PROVE SendersKept
  BY <1>13 DEF Release, SendersKept, TypeInv, SchTyped, Work
<1>14. ASSUME NEW s \in Schedulers, Inspect(s) PROVE SendersKept
  BY <1>14 DEF Inspect, SendersKept, TypeInv, SchTyped, Work
<1>15. ASSUME NEW s \in Schedulers, MarkDispatched(s) PROVE SendersKept
  BY <1>15 DEF MarkDispatched, SendersKept, TypeInv, SchTyped, Work
<1>16. ASSUME NEW s \in Schedulers, Publish(s) PROVE SendersKept
  BY <1>16 DEF Publish, SendersKept, TypeInv, SchTyped, Work
<1>17. ASSUME NEW s \in Schedulers, Pin(s) PROVE SendersKept
  BY <1>17 DEF Pin, SendersKept, TypeInv, SchTyped, Work
<1>18. ASSUME NEW s \in Schedulers, Stamp(s) PROVE SendersKept
  BY <1>18 DEF Stamp, SendersKept, TypeInv, SchTyped, Work
<1>19. ASSUME NEW s \in Schedulers, Attach(s) PROVE SendersKept
  BY <1>19 DEF Attach, SendersKept, TypeInv, SchTyped, Work
<1>20. ASSUME NEW s \in Schedulers, Outcome(s) PROVE SendersKept
  BY <1>20 DEF Outcome, SendersKept, TypeInv, SchTyped, Work
<1>21. ASSUME NEW s \in Schedulers, PersistOutput(s) PROVE SendersKept
  BY <1>21 DEF PersistOutput, SendersKept, TypeInv, SchTyped, Work
<1>22. ASSUME NEW s \in Schedulers, ClaimAttempt(s) PROVE SendersKept
  BY <1>22 DEF SendersKept
<1>23. ASSUME NEW s \in Schedulers, Send(s) PROVE SendersKept
  BY <1>23 DEF Send, SendersKept, TypeInv, SchTyped, Work
<1>24. ASSUME NEW s \in Schedulers, SettleAttempt(s) PROVE SendersKept
  BY <1>24 DEF SettleAttempt, AfterAttempt, SendersKept, TypeInv, SchTyped, Work
<1>25. ASSUME NEW s \in Schedulers, CheckAttempts(s) PROVE SendersKept
  BY <1>25 DEF CheckAttempts, SendersKept, TypeInv, SchTyped, Work
<1>26. ASSUME NEW s \in Schedulers, CompleteClaim(s) PROVE SendersKept
  BY <1>26 DEF CompleteClaim, SendersKept, TypeInv, SchTyped, Work
<1>27. ASSUME NEW s \in Schedulers, FailClaim(s) PROVE SendersKept
  BY <1>27 DEF FailClaim, SendersKept, TypeInv, SchTyped, Work
<1>28. ASSUME NEW s \in Schedulers, ClaimNotice(s) PROVE SendersKept
  BY <1>28 DEF SendersKept
<1>29. ASSUME NEW s \in Schedulers, SendNotice(s) PROVE SendersKept
  BY <1>29 DEF SendNotice, SendersKept, TypeInv, SchTyped, Work
<1>30. ASSUME NEW s \in Schedulers, SettleNotice(s) PROVE SendersKept
  BY <1>30 DEF SettleNotice, SendersKept, TypeInv, SchTyped, Work
<1>31. ASSUME NEW s \in Schedulers, Requeue(s) PROVE SendersKept
  BY <1>31 DEF Requeue, RequeueClaim, SendersKept, TypeInv, SchTyped, Work
<1>32. ASSUME NEW s \in Schedulers, GiveUpAttempts(s) PROVE SendersKept
  BY <1>32 DEF GiveUpAttempts, SendersKept, TypeInv, SchTyped, Work
<1>33. ASSUME NEW s \in Schedulers, LookUpReceipt(s) PROVE SendersKept
  BY <1>33 DEF LookUpReceipt, SendersKept, TypeInv, SchTyped, Work
<1>34. ASSUME NEW s \in Schedulers, ProveAbsent(s) PROVE SendersKept
  BY <1>34 DEF ProveAbsent, RequeueClaim, SendersKept, TypeInv, SchTyped, Work
<1>35. ASSUME NEW s \in Schedulers, Crash(s) PROVE SendersKept
  BY <1>35 DEF Crash, SendersKept, TypeInv, SchTyped, Work
<1>36. ASSUME NEW s \in Schedulers, LoseLock(s) PROVE SendersKept
  BY <1>36 DEF LoseLock, SendersKept, TypeInv, SchTyped, Work
<1>37. ASSUME NEW s \in Schedulers, Throws(s) PROVE SendersKept
  BY <1>37 DEF Throws, SendersKept, TypeInv, SchTyped, Work
<1>38. ASSUME NEW s \in Schedulers, PublishThrows(s) PROVE SendersKept
  BY <1>38 DEF PublishThrows, SendersKept, TypeInv, SchTyped, Work
<1>39. ASSUME NEW s \in Schedulers, GiveUpCall(s) PROVE SendersKept
  BY <1>39 DEF GiveUpCall, SendersKept, TypeInv, SchTyped, Work
<1>40. CASE UNCHANGED vars
  BY <1>40 DEF vars, SendersKept, TypeInv, SchTyped, Work
<1> QED BY <1>1, <1>2, <1>3, <1>4, <1>5, <1>6, <1>7, <1>8, <1>9, <1>10, <1>11, <1>12,
       <1>13, <1>14, <1>15, <1>16, <1>17, <1>18, <1>19, <1>20, <1>21, <1>22, <1>23,
       <1>24, <1>25, <1>26, <1>27, <1>28, <1>29, <1>30, <1>31, <1>32, <1>33, <1>34,
       <1>35, <1>36, <1>37, <1>38, <1>39, <1>40 DEF Next, Chat, Runtime, Poll, Step,
       Disturb

\* claimDeliveryAttempt, claimFailedHandleExternalNotice: the claim of an attempt is what
\* lets one caller send, once.
LEMMA SendStep ==
  ASSUME TypeInv, SendInv, [Next]_vars
  PROVE  SendInv'
<1> SUFFICES ASSUME NEW k \in Attempts PROVE SentOnce(k)'
  BY DEF SendInv
<1> USE DEF Sends
<1>0. SentOnce(k)
  BY DEF SendInv
<1>1. /\ handle \in Handles /\ sent \in [Attempts -> 0 .. 2] /\ k \in DOMAIN handle.attempt
      /\ \A s \in Schedulers : sch[s] \in Work
      /\ sch \in [Schedulers -> Work]
  BY DEF TypeInv, TypeOK, Handles, SchTyped
<1>2. ASSUME NEW s \in Schedulers, ClaimAttempt(s) PROVE SentOnce(k)'
  <2>1. UNCHANGED sent
    BY <1>2 DEF ClaimAttempt
  <2>2. CASE UNCHANGED handle /\ AfterAttempt(s)
    <3>1. \A u \in Schedulers : Sends(u, k)' => Sends(u, k)
      BY <1>1, <2>2 DEF AfterAttempt, Work
    <3> QED BY <1>0, <2>1, <2>2, <3>1 DEF SentOnce
  <2>3. CASE ~ (UNCHANGED handle /\ AfterAttempt(s))
    <3> DEFINE d == sch[s].doing
    <3>1. /\ d \in Attempts /\ handle.attempt[d] = "none"
          /\ handle' = [handle EXCEPT !.attempt[d] = "attempting"]
          /\ sch' = [sch EXCEPT ![s].pc = "send"]
      BY <1>2, <2>3 DEF ClaimAttempt, TypeInv, Doing
    <3>2. handle'.attempt = [handle.attempt EXCEPT ![d] = "attempting"]
      BY <1>1, <3>1 DEF Handles
    <3>3. /\ sch'[s].pc = "send" /\ sch'[s].doing = d
          /\ \A u \in Schedulers : u # s => sch'[u] = sch[u]
      BY <1>1, <3>1 DEF Work
    <3> HIDE DEF d
    <3>4. CASE k = d
      BY <1>0, <1>1, <2>1, <3>1, <3>2, <3>3, <3>4 DEF SentOnce, Handles
    <3>5. CASE k # d
      BY <1>0, <1>1, <2>1, <3>1, <3>2, <3>3, <3>5 DEF SentOnce, Handles
    <3> QED BY <3>4, <3>5
  <2> QED BY <2>2, <2>3
<1>3. ASSUME NEW s \in Schedulers, ClaimNotice(s) PROVE SentOnce(k)'
  <2>1. UNCHANGED sent
    BY <1>3 DEF ClaimNotice
  <2>2. CASE UNCHANGED handle /\ Quits(s)
    <3>1. \A u \in Schedulers : Sends(u, k)' => Sends(u, k)
      BY <1>1, <2>2 DEF Work
    <3> QED BY <1>0, <2>1, <2>2, <3>1 DEF SentOnce
  <2>3. CASE ~ (UNCHANGED handle /\ Quits(s))
    <3>1. /\ handle.attempt["external"] = "none"
          /\ handle' = [handle EXCEPT !.attempt["external"] = "attempting"]
          /\ sch' = [sch EXCEPT ![s].pc = "sendNotice"]
      BY <1>3, <2>3 DEF ClaimNotice
    <3>2. handle'.attempt = [handle.attempt EXCEPT !["external"] = "attempting"]
      BY <1>1, <3>1 DEF Handles
    <3>3. /\ sch'[s].pc = "sendNotice"
          /\ \A u \in Schedulers : u # s => sch'[u] = sch[u]
      BY <1>1, <3>1 DEF Work
    <3>4. CASE k = "external"
      BY <1>0, <1>1, <2>1, <3>1, <3>2, <3>3, <3>4 DEF SentOnce, Handles
    <3>5. CASE k # "external"
      BY <1>0, <1>1, <2>1, <3>1, <3>2, <3>3, <3>5 DEF SentOnce, Handles
    <3> QED BY <3>4, <3>5
  <2> QED BY <2>2, <2>3
<1>4. ASSUME NEW s \in Schedulers, Send(s) \/ SendNotice(s) PROVE SentOnce(k)'
  <2>1. PICK d \in Attempts : /\ Sends(s, d)
                              /\ UNCHANGED sent \/ sent' = [sent EXCEPT ![d] = IF @ = 2 THEN 2 ELSE @ + 1]
    <3>1. CASE Send(s)
      BY <3>1 DEF Send, OnceMore, TypeInv, Doing
    <3>2. CASE SendNotice(s)
      BY <3>2 DEF SendNotice, OnceMore, Attempts
    <3> QED BY <1>4, <3>1, <3>2
  <2>2. UNCHANGED handle
    BY <1>4 DEF Send, SendNotice
  <2>3. \A u \in Schedulers : IF u = s THEN sch'[u].pc \in {"settle", "settleNotice"} ELSE sch'[u] = sch[u]
    BY <1>1, <1>4 DEF Send, SendNotice, Work
  <2>4. CASE k = d
    BY <1>0, <1>1, <2>1, <2>2, <2>3, <2>4 DEF SentOnce
  <2>5. CASE k # d
    BY <1>0, <1>1, <2>1, <2>2, <2>3, <2>5 DEF SentOnce
  <2> QED BY <2>4, <2>5
<1>5. CASE \A s \in Schedulers : ~ (Send(s) \/ SendNotice(s) \/ ClaimAttempt(s) \/ ClaimNotice(s))
  <2>1. UNCHANGED sent
    BY <1>5, SentChanges
  <2>2. \A s \in Schedulers : sch'[s] = sch[s] \/ sch'[s].pc \notin {"send", "sendNotice"}
    BY <1>5, SendersStep DEF SendersKept
  <2>3. handle'.attempt[k] = handle.attempt[k] \/ handle'.attempt[k] = "settled"
    <3>1. CASE handle'.attempt = handle.attempt
      BY <3>1
    <3>2. ASSUME NEW s \in Schedulers, SettleAttempt(s) \/ SettleNotice(s) \/ GiveUpAttempts(s)
          PROVE  handle'.attempt[k] = handle.attempt[k] \/ handle'.attempt[k] = "settled"
      BY <1>1, <3>2 DEF SettleAttempt, SettleNotice, GiveUpAttempts, Handles
    <3> QED BY <1>5, <3>1, <3>2, AttemptKept DEF AttemptsKept, AttemptStep
  <2> QED BY <1>0, <2>1, <2>2, <2>3 DEF SentOnce
<1> QED BY <1>2, <1>3, <1>4, <1>5

-----------------------------------------------------------------------------
(* One narrator, and not before the runtime has the turn.                   *)

\* The row stays with the continuation, and nobody else waits or narrates for it.
RowEngaged ==
    /\ Continues => Continues'
    /\ handle'.state \in {"subscribed", "ready", "claimed", "dispatched"} => Continues'
    /\ handle'.state = "dispatched" => handle.state = "dispatched" \/ \E s \in Schedulers : At(s, "mark")

\* recordCanonicalCompletion makes a handle ready only for its continuation.
LEMMA RecordEngaged ==
  ASSUME TypeInv, Engaged, RecordCompletion
  PROVE  RowEngaged
<1>1. job \in {"running"} \cup Terminal /\ handle \in Handles
  BY DEF TypeInv, TypeOK
<1>2. \/ handle' = [handle EXCEPT !.snap = TRUE, !.state = job]
      \/ handle' = [handle EXCEPT !.snap = TRUE, !.owner = "continuation", !.state = "ready"]
      \/ handle' = [handle EXCEPT !.snap = TRUE, !.owner = "continuation", !.state = job]
  BY <1>1 DEF RecordCompletion, Handles
<1> QED BY <1>1, <1>2 DEF RowEngaged, Continues, Handles, Terminal

\* Every step leaves the row to the side that has it.
LEMMA RowStep ==
  ASSUME TypeInv, Engaged, [Next]_vars
  PROVE  RowEngaged
<1>1. CASE JobEnds
  BY <1>1 DEF JobEnds, RowEngaged, Engaged, Continues, TypeInv, TypeOK, Handles,
        Terminal
<1>2. CASE WorkerRecords
  <2>1. CASE UNCHANGED handle
    BY <2>1 DEF RowEngaged, Engaged, Continues
  <2> QED BY <1>2, <2>1, RecordEngaged DEF WorkerRecords
<1>3. CASE Observe
  <2>1. CASE handle.owner = "none" /\ job # "running" /\ NarrateInline
    <3>1. handle'.state \in Terminal
      BY <2>1, InlineTyped
    <3> QED BY <2>1, <3>1 DEF RowEngaged, Continues, Terminal
  <2>2. CASE /\ handle.owner = "continuation"
             /\ handle' = [handle EXCEPT !.snap = TRUE, !.state = "ready"]
    BY <2>2 DEF RowEngaged, Continues, TypeInv, TypeOK, Handles
  <2> QED BY <1>3, <2>1, <2>2 DEF Observe
<1>4. CASE SubscribePending
  <2>1. CASE job # "running" /\ NarrateInline
    <3>1. handle' \in Handles /\ handle'.state \in Terminal
      BY <2>1, InlineTyped
    <3> QED BY <1>4, <3>1 DEF SubscribePending, RowEngaged, Continues, Terminal
  <2>2. CASE handle' = [handle EXCEPT !.owner = "exhausted", !.state = "failed"]
    <3>1. handle.owner = "none" /\ handle'.state = "failed"
      BY <1>4, <2>2 DEF SubscribePending, TypeInv, TypeOK, Handles
    <3> QED BY <3>1 DEF RowEngaged, Continues
  <2>3. CASE handle' = [handle EXCEPT !.owner = "continuation", !.state = "subscribed"]
    <3>1. handle'.owner = "continuation" /\ handle'.state = "subscribed"
      BY <2>3 DEF TypeInv, TypeOK, Handles
    <3> QED BY <3>1 DEF RowEngaged, Continues
  <2> QED BY <1>4, <2>1, <2>2, <2>3 DEF SubscribePending
<1>5. CASE FinalizePersisted
  <2>1. \E outcome : FinalizeSourceTurn(outcome)
    BY <1>5 DEF FinalizePersisted
  <2> QED BY <2>1, FinalizeTyped DEF RowEngaged, Engaged, Continues
<1>6. CASE FinalizeFailed
  <2>1. \E outcome : FinalizeSourceTurn(outcome)
    BY <1>6 DEF FinalizeFailed
  <2> QED BY <2>1, FinalizeTyped DEF RowEngaged, Engaged, Continues
<1>7. CASE SweepSourceTurn
  <2>1. \E outcome : FinalizeSourceTurn(outcome)
    BY <1>7 DEF SweepSourceTurn
  <2> QED BY <2>1, FinalizeTyped DEF RowEngaged, Engaged, Continues
<1>8. CASE ClaimExpires
  BY <1>8 DEF ClaimExpires, RowEngaged, Engaged, Continues, TypeInv, TypeOK, Handles,
        Terminal
<1>9. ASSUME NEW s \in Schedulers, ClaimReadyHead(s) PROVE RowEngaged
  BY <1>9 DEF ClaimReadyHead, RowEngaged, Engaged, Continues, TypeInv, TypeOK, Handles,
        Terminal
<1>10. ASSUME NEW s \in Schedulers, RecordListed(s) PROVE RowEngaged
  <2>1. CASE UNCHANGED handle
    BY <2>1 DEF RowEngaged, Engaged, Continues
  <2> QED BY <1>10, <2>1, RecordEngaged DEF RecordListed
<1>11. ASSUME NEW s \in Schedulers, Release(s) PROVE RowEngaged
  BY <1>11 DEF Release, Mine, RowEngaged, Engaged, Continues, TypeInv, TypeOK, Handles,
        Terminal
<1>12. ASSUME NEW s \in Schedulers, MarkDispatched(s) PROVE RowEngaged
  <2>1. CASE UNCHANGED handle
    BY <2>1 DEF RowEngaged, Engaged, Continues
  <2>2. CASE ~ UNCHANGED handle
    <3>1. /\ handle.state = "claimed" /\ At(s, "mark")
          /\ handle' = [handle EXCEPT !.state = "dispatched", !.expired = FALSE]
      BY <1>12, <2>2 DEF MarkDispatched, Mine
    <3>2. handle'.owner = handle.owner
      BY <3>1 DEF TypeInv, TypeOK, Handles
    <3> QED BY <3>1, <3>2 DEF RowEngaged, Engaged, Continues
  <2> QED BY <2>1, <2>2
<1>13. ASSUME NEW s \in Schedulers, Stamp(s) PROVE RowEngaged
  BY <1>13 DEF Stamp, Unattached, RowEngaged, Engaged, Continues, TypeInv, TypeOK,
        Handles, Terminal
<1>14. ASSUME NEW s \in Schedulers, PersistOutput(s) PROVE RowEngaged
  BY <1>14 DEF PersistOutput, Mine, RowEngaged, Engaged, Continues, TypeInv, TypeOK,
        Handles, Terminal
<1>15. ASSUME NEW s \in Schedulers, ClaimAttempt(s) PROVE RowEngaged
  BY <1>15 DEF ClaimAttempt, Mine, AfterAttempt, RowEngaged, Engaged, Continues,
        TypeInv, TypeOK, Handles, Terminal
<1>16. ASSUME NEW s \in Schedulers, SettleAttempt(s) PROVE RowEngaged
  BY <1>16 DEF SettleAttempt, Mine, AfterAttempt, RowEngaged, Engaged, Continues,
        TypeInv, TypeOK, Handles, Terminal
<1>17. ASSUME NEW s \in Schedulers, CompleteClaim(s) PROVE RowEngaged
  <2>1. CASE UNCHANGED handle
    BY <2>1 DEF RowEngaged, Engaged, Continues
  <2>2. CASE ~ UNCHANGED handle
    <3>1. handle' = [handle EXCEPT !.state = "completed", !.token = None, !.expired = FALSE]
      BY <1>17, <2>2 DEF CompleteClaim
    <3>2. handle'.owner = handle.owner /\ handle'.state = "completed"
      BY <3>1 DEF TypeInv, TypeOK, Handles
    <3> QED BY <3>2 DEF RowEngaged, Continues
  <2> QED BY <2>1, <2>2
<1>18. ASSUME NEW s \in Schedulers, FailClaim(s) PROVE RowEngaged
  <2>1. CASE FailWith(handle)
    <3>1. handle'.owner = handle.owner /\ handle'.state = "failed"
      BY <2>1, FailKeeps, FailTyped DEF TypeInv, TypeOK
    <3> QED BY <3>1 DEF RowEngaged, Continues
  <2>2. CASE UNCHANGED handle
    BY <2>2 DEF RowEngaged, Engaged, Continues
  <2>3. CASE handle' = [handle EXCEPT !.state = "completed", !.token = None, !.expired = FALSE,
                                      !.msg = IF bubble.pin # 0 THEN bubble.pin ELSE @]
    <3>1. handle'.owner = handle.owner /\ handle'.state = "completed"
      BY <2>3 DEF TypeInv, TypeOK, Handles
    <3> QED BY <3>1 DEF RowEngaged, Continues
  <2> QED BY <1>18, <2>1, <2>2, <2>3 DEF FailClaim
<1>19. ASSUME NEW s \in Schedulers, ClaimNotice(s) PROVE RowEngaged
  BY <1>19 DEF ClaimNotice, RowEngaged, Engaged, Continues, TypeInv, TypeOK, Handles,
        Terminal
<1>20. ASSUME NEW s \in Schedulers, SettleNotice(s) PROVE RowEngaged
  BY <1>20 DEF SettleNotice, RowEngaged, Engaged, Continues, TypeInv, TypeOK, Handles,
        Terminal
<1>21. ASSUME NEW s \in Schedulers, Requeue(s) PROVE RowEngaged
  <2>1. CASE RequeueClaim(s) /\ handle.state \in {"claimed", "dispatched"}
    <3>1. handle'.owner = handle.owner /\ handle'.state \in {"ready", "failed"}
      BY <2>1, RequeueKeeps, RequeueTyped
    <3> QED BY <2>1, <3>1 DEF Engaged, RowEngaged, Continues
  <2> QED BY <1>21, <2>1 DEF Requeue, Mine, RowEngaged, Engaged, Continues
<1>22. ASSUME NEW s \in Schedulers, GiveUpAttempts(s) PROVE RowEngaged
  BY <1>22 DEF GiveUpAttempts, Mine, RowEngaged, Engaged, Continues, TypeInv, TypeOK,
        Handles, Terminal
<1>23. ASSUME NEW s \in Schedulers, ProveAbsent(s) PROVE RowEngaged
  <2>1. CASE RequeueClaim(s) /\ handle.state \in {"claimed", "dispatched"}
    <3>1. handle'.owner = handle.owner /\ handle'.state \in {"ready", "failed"}
      BY <2>1, RequeueKeeps, RequeueTyped
    <3> QED BY <2>1, <3>1 DEF Engaged, RowEngaged, Continues
  <2> QED BY <1>23, <2>1 DEF ProveAbsent, Mine, RowEngaged, Engaged, Continues
<1>24. CASE UNCHANGED <<handle, job, owed>>
  BY <1>24 DEF RowEngaged, Engaged, Continues
<1> QED BY <1>1, <1>2, <1>3, <1>4, <1>5, <1>6, <1>7, <1>8, <1>9, <1>10, <1>11, <1>12,
       <1>13, <1>14, <1>15, <1>16, <1>17, <1>18, <1>19, <1>20, <1>21, <1>22, <1>23,
       <1>24, HandleChanges

\* Whoever works for the handle, waits or sends does it for its continuation.
WorkEngaged ==
    /\ \A s \in Schedulers : sch'[s].pc \notin {"idle", "record"} => Continues
    /\ \A t \in Tokens : call'[t] # "none" => Continues
    /\ run'.status # "absent" => Continues
    /\ \A k \in Attempts : sent'[k] # 0 => Continues

\* Work begins only for a continuation.
LEMMA WorkStep ==
  ASSUME TypeInv, Engaged, [Next]_vars
  PROVE  WorkEngaged
<1>1. CASE JobEnds \/ WorkerRecords \/ Observe \/ SubscribePending \/ ApiDies \/
          EarlyMessage \/ SourceTurnEnds \/ SaveReply \/ FinalizePersisted \/
          FinalizeFailed \/ SweepSourceTurn \/ ClaimExpires
  BY <1>1 DEF JobEnds, WorkerRecords, Observe, SubscribePending, ApiDies, EarlyMessage,
        SourceTurnEnds, SaveReply, FinalizePersisted, FinalizeFailed, SweepSourceTurn,
        ClaimExpires, WorkEngaged, Engaged, Continues, TypeInv, TypeOK, SchTyped, Work
<1>2. CASE PersistResult
  <2>1. Continues
    BY <1>2 DEF PersistResult, Engaged, TypeInv, RunReal
  <2> QED BY <1>2, <2>1 DEF PersistResult, Answer, Engaged, WorkEngaged, Continues
<1>3. CASE PersistFailure
  <2>1. Continues
    BY <1>3 DEF PersistFailure, Engaged, TypeInv, RunReal
  <2> QED BY <1>3, <2>1 DEF PersistFailure, Answer, Engaged, WorkEngaged, Continues
<1>4. CASE Return
  <2>1. Continues
    BY <1>4 DEF Return, Engaged, TypeInv, RunReal
  <2> QED BY <1>4, <2>1 DEF Return, Answer, Engaged, WorkEngaged, Continues
<1>5. CASE HandlerDies
  <2>1. Continues
    BY <1>5 DEF HandlerDies, Engaged, TypeInv, RunReal
  <2> QED BY <1>5, <2>1 DEF HandlerDies, Answer, Engaged, WorkEngaged, Continues
<1>6. CASE OrphanReceipt
  <2>1. Continues
    BY <1>6 DEF OrphanReceipt, Engaged, TypeInv, RunReal
  <2> QED BY <1>6, <2>1 DEF OrphanReceipt, Answer, Engaged, WorkEngaged, Continues
<1>7. ASSUME NEW t \in Tokens, CheckReplay(t) PROVE WorkEngaged
  <2>1. call[t] # "none"
    BY <1>7 DEF CheckReplay
  <2> QED BY <2>1 DEF Engaged, WorkEngaged
<1>8. ASSUME NEW t \in Tokens, Accept(t) PROVE WorkEngaged
  <2>1. call[t] # "none"
    BY <1>8 DEF Accept
  <2> QED BY <2>1 DEF Engaged, WorkEngaged
<1>9. ASSUME NEW s \in Schedulers, ListOpen(s) PROVE WorkEngaged
  BY <1>9 DEF ListOpen, WorkEngaged, Engaged, Continues, TypeInv, TypeOK, SchTyped, Work
<1>10. ASSUME NEW s \in Schedulers, ClaimReadyHead(s) PROVE WorkEngaged
  BY <1>10 DEF ClaimReadyHead, WorkEngaged, Engaged, Continues, TypeInv, TypeOK,
        SchTyped, Work
<1>11. ASSUME NEW s \in Schedulers, ReconcileExpired(s) PROVE WorkEngaged
  BY <1>11 DEF ReconcileExpired, WorkEngaged, Engaged, Continues, TypeInv, TypeOK,
        SchTyped, Work
<1>12. ASSUME NEW s \in Schedulers, RecordListed(s) PROVE WorkEngaged
  BY <1>12 DEF RecordListed, WorkEngaged, Engaged, Continues, TypeInv, TypeOK, SchTyped,
        Work
<1>13. ASSUME NEW s \in Schedulers, Validate(s) PROVE WorkEngaged
  BY <1>13 DEF Validate, WorkEngaged, Engaged, Continues, TypeInv, TypeOK, SchTyped,
        Work
<1>14. ASSUME NEW s \in Schedulers, Gate(s) PROVE WorkEngaged
  BY <1>14 DEF Gate, WorkEngaged, Engaged, Continues, TypeInv, TypeOK, SchTyped, Work
<1>15. ASSUME NEW s \in Schedulers, Call(s) PROVE WorkEngaged
  BY <1>15 DEF Call, WorkEngaged, Engaged, Continues, TypeInv, TypeOK, SchTyped, Work
<1>16. ASSUME NEW s \in Schedulers, Release(s) PROVE WorkEngaged
  BY <1>16 DEF Release, WorkEngaged, Engaged, Continues, TypeInv, TypeOK, SchTyped, Work
<1>17. ASSUME NEW s \in Schedulers, Inspect(s) PROVE WorkEngaged
  BY <1>17 DEF Inspect, WorkEngaged, Engaged, Continues, TypeInv, TypeOK, SchTyped, Work
<1>18. ASSUME NEW s \in Schedulers, MarkDispatched(s) PROVE WorkEngaged
  BY <1>18 DEF MarkDispatched, WorkEngaged, Engaged, Continues, TypeInv, TypeOK,
        SchTyped, Work
<1>19. ASSUME NEW s \in Schedulers, Publish(s) PROVE WorkEngaged
  BY <1>19 DEF Publish, WorkEngaged, Engaged, Continues, TypeInv, TypeOK, SchTyped, Work
<1>20. ASSUME NEW s \in Schedulers, Pin(s) PROVE WorkEngaged
  BY <1>20 DEF Pin, WorkEngaged, Engaged, Continues, TypeInv, TypeOK, SchTyped, Work
<1>21. ASSUME NEW s \in Schedulers, Stamp(s) PROVE WorkEngaged
  BY <1>21 DEF Stamp, WorkEngaged, Engaged, Continues, TypeInv, TypeOK, SchTyped, Work
<1>22. ASSUME NEW s \in Schedulers, Attach(s) PROVE WorkEngaged
  BY <1>22 DEF Attach, WorkEngaged, Engaged, Continues, TypeInv, TypeOK, SchTyped, Work
<1>23. ASSUME NEW s \in Schedulers, Outcome(s) PROVE WorkEngaged
  BY <1>23 DEF Outcome, WorkEngaged, Engaged, Continues, TypeInv, TypeOK, SchTyped, Work
<1>24. ASSUME NEW s \in Schedulers, PersistOutput(s) PROVE WorkEngaged
  BY <1>24 DEF PersistOutput, WorkEngaged, Engaged, Continues, TypeInv, TypeOK,
        SchTyped, Work
<1>25. ASSUME NEW s \in Schedulers, ClaimAttempt(s) PROVE WorkEngaged
  BY <1>25 DEF ClaimAttempt, WorkEngaged, Engaged, Continues, TypeInv, TypeOK, SchTyped,
        Work
<1>26. ASSUME NEW s \in Schedulers, Send(s) PROVE WorkEngaged
  BY <1>26 DEF Send, WorkEngaged, Engaged, Continues, TypeInv, TypeOK, SchTyped, Work
<1>27. ASSUME NEW s \in Schedulers, SettleAttempt(s) PROVE WorkEngaged
  BY <1>27 DEF SettleAttempt, WorkEngaged, Engaged, Continues, TypeInv, TypeOK,
        SchTyped, Work
<1>28. ASSUME NEW s \in Schedulers, CheckAttempts(s) PROVE WorkEngaged
  BY <1>28 DEF CheckAttempts, WorkEngaged, Engaged, Continues, TypeInv, TypeOK,
        SchTyped, Work
<1>29. ASSUME NEW s \in Schedulers, CompleteClaim(s) PROVE WorkEngaged
  BY <1>29 DEF CompleteClaim, WorkEngaged, Engaged, Continues, TypeInv, TypeOK,
        SchTyped, Work
<1>30. ASSUME NEW s \in Schedulers, FailClaim(s) PROVE WorkEngaged
  BY <1>30 DEF FailClaim, WorkEngaged, Engaged, Continues, TypeInv, TypeOK, SchTyped,
        Work
<1>31. ASSUME NEW s \in Schedulers, ClaimNotice(s) PROVE WorkEngaged
  BY <1>31 DEF ClaimNotice, WorkEngaged, Engaged, Continues, TypeInv, TypeOK, SchTyped,
        Work
<1>32. ASSUME NEW s \in Schedulers, SendNotice(s) PROVE WorkEngaged
  BY <1>32 DEF SendNotice, WorkEngaged, Engaged, Continues, TypeInv, TypeOK, SchTyped,
        Work
<1>33. ASSUME NEW s \in Schedulers, SettleNotice(s) PROVE WorkEngaged
  BY <1>33 DEF SettleNotice, WorkEngaged, Engaged, Continues, TypeInv, TypeOK, SchTyped,
        Work
<1>34. ASSUME NEW s \in Schedulers, Requeue(s) PROVE WorkEngaged
  BY <1>34 DEF Requeue, RequeueClaim, WorkEngaged, Engaged, Continues, TypeInv, TypeOK,
        SchTyped, Work
<1>35. ASSUME NEW s \in Schedulers, GiveUpAttempts(s) PROVE WorkEngaged
  BY <1>35 DEF GiveUpAttempts, WorkEngaged, Engaged, Continues, TypeInv, TypeOK,
        SchTyped, Work
<1>36. ASSUME NEW s \in Schedulers, LookUpReceipt(s) PROVE WorkEngaged
  BY <1>36 DEF LookUpReceipt, WorkEngaged, Engaged, Continues, TypeInv, TypeOK,
        SchTyped, Work
<1>37. ASSUME NEW s \in Schedulers, ProveAbsent(s) PROVE WorkEngaged
  BY <1>37 DEF ProveAbsent, RequeueClaim, WorkEngaged, Engaged, Continues, TypeInv,
        TypeOK, SchTyped, Work
<1>38. ASSUME NEW s \in Schedulers, Crash(s) PROVE WorkEngaged
  BY <1>38 DEF Crash, WorkEngaged, Engaged, Continues, TypeInv, TypeOK, SchTyped, Work
<1>39. ASSUME NEW s \in Schedulers, LoseLock(s) PROVE WorkEngaged
  BY <1>39 DEF LoseLock, WorkEngaged, Engaged, Continues, TypeInv, TypeOK, SchTyped,
        Work
<1>40. ASSUME NEW s \in Schedulers, Throws(s) PROVE WorkEngaged
  BY <1>40 DEF Throws, WorkEngaged, Engaged, Continues, TypeInv, TypeOK, SchTyped, Work
<1>41. ASSUME NEW s \in Schedulers, PublishThrows(s) PROVE WorkEngaged
  BY <1>41 DEF PublishThrows, WorkEngaged, Engaged, Continues, TypeInv, TypeOK,
        SchTyped, Work
<1>42. ASSUME NEW s \in Schedulers, GiveUpCall(s) PROVE WorkEngaged
  BY <1>42 DEF GiveUpCall, WorkEngaged, Engaged, Continues, TypeInv, TypeOK, SchTyped,
        Work
<1>43. CASE UNCHANGED vars
  BY <1>43 DEF vars, WorkEngaged, Engaged, Continues, TypeInv, TypeOK, SchTyped, Work
<1> QED BY <1>1, <1>2, <1>3, <1>4, <1>5, <1>6, <1>7, <1>8, <1>9, <1>10, <1>11, <1>12,
       <1>13, <1>14, <1>15, <1>16, <1>17, <1>18, <1>19, <1>20, <1>21, <1>22, <1>23,
       <1>24, <1>25, <1>26, <1>27, <1>28, <1>29, <1>30, <1>31, <1>32, <1>33, <1>34,
       <1>35, <1>36, <1>37, <1>38, <1>39, <1>40, <1>41, <1>42, <1>43 DEF Next, Chat,
       Runtime, Poll, Step, Disturb

\* Nobody marks a claim as dispatched before the runtime has the turn.
MarkAccepted ==
    /\ run.status # "absent" => run'.status # "absent"
    /\ \A s \in Schedulers : sch'[s].pc = "mark" => sch[s].pc = "mark" \/ run'.status # "absent"

\* An answer sends a scheduler to markDispatched only for a turn that was accepted.
LEMMA AnswerAccepted ==
  ASSUME TypeInv, NEW t, NEW pc, NEW got, Answer(t, pc, got),
         run.status # "absent" => run'.status # "absent",
         pc = "mark" => run'.status # "absent"
  PROVE  MarkAccepted
BY DEF Answer, MarkAccepted, TypeInv, SchTyped, Work

\* An accepted turn stays accepted, and only it is marked as dispatched.
LEMMA MarkStep ==
  ASSUME TypeInv, [Next]_vars
  PROVE  MarkAccepted
<1>1. CASE JobEnds \/ WorkerRecords \/ Observe \/ SubscribePending \/ ApiDies \/
          EarlyMessage \/ SourceTurnEnds \/ SaveReply \/ FinalizePersisted \/
          FinalizeFailed \/ SweepSourceTurn \/ ClaimExpires
  BY <1>1 DEF JobEnds, WorkerRecords, Observe, SubscribePending, ApiDies, EarlyMessage,
        SourceTurnEnds, SaveReply, FinalizePersisted, FinalizeFailed, SweepSourceTurn,
        ClaimExpires, MarkAccepted, TypeInv, SchTyped, Work
<1>2. CASE PersistResult
  <2>1. run'.status # "absent"
    BY <1>2 DEF PersistResult, TypeInv, TypeOK, RunReal, Runs, Lost
  <2> QED BY <2>1 DEF MarkAccepted
<1>3. CASE PersistFailure
  <2>1. run'.status # "absent"
    BY <1>3 DEF PersistFailure, TypeInv, TypeOK, RunReal, Runs, Lost
  <2> QED BY <2>1 DEF MarkAccepted
<1>4. CASE Return
  <2>1. run'.status # "absent"
    BY <1>4 DEF Return, TypeInv, TypeOK, RunReal, Runs, Lost
  <2> QED BY <2>1 DEF MarkAccepted
<1>5. CASE HandlerDies
  <2>1. run'.status # "absent"
    BY <1>5 DEF HandlerDies, TypeInv, TypeOK, RunReal, Runs, Lost
  <2> QED BY <2>1 DEF MarkAccepted
<1>6. CASE OrphanReceipt
  <2>1. run'.status # "absent"
    BY <1>6 DEF OrphanReceipt, TypeInv, TypeOK, RunReal, Runs, Lost
  <2> QED BY <2>1 DEF MarkAccepted
<1>7. ASSUME NEW t \in Tokens, CheckReplay(t) PROVE MarkAccepted
  <2>1. UNCHANGED run /\ (UNCHANGED sch \/ Replay(t))
    BY <1>7 DEF CheckReplay
  <2>2. CASE UNCHANGED sch
    BY <2>1, <2>2 DEF MarkAccepted
  <2>3. CASE Replay(t)
    <3>1. \/ run.status = "completed" /\ Answer(t, "mark", "completed")
          \/ Answer(t, "inspect", "conflict")
      BY <2>3 DEF Replay
    <3> QED BY <2>1, <3>1, AnswerAccepted
  <2> QED BY <2>1, <2>2, <2>3
<1>8. ASSUME NEW t \in Tokens, Accept(t) PROVE MarkAccepted
  <2>1. CASE run'.status = "running" /\ UNCHANGED sch
    BY <2>1 DEF MarkAccepted
  <2>2. CASE UNCHANGED run /\ Replay(t)
    <3>1. \/ run.status = "completed" /\ Answer(t, "mark", "completed")
          \/ Answer(t, "inspect", "conflict")
      BY <2>2 DEF Replay
    <3> QED BY <2>2, <3>1, AnswerAccepted
  <2>3. CASE UNCHANGED run /\ (Answer(t, "inspect", "duplicate") \/ Answer(t, "release", "busy"))
    BY <2>3, AnswerAccepted
  <2> QED BY <1>8, <2>1, <2>2, <2>3 DEF Accept
<1>9. ASSUME NEW s \in Schedulers, ListOpen(s) PROVE MarkAccepted
  BY <1>9 DEF ListOpen, MarkAccepted, TypeInv, SchTyped, Work
<1>10. ASSUME NEW s \in Schedulers, ClaimReadyHead(s) PROVE MarkAccepted
  BY <1>10 DEF ClaimReadyHead, MarkAccepted, TypeInv, SchTyped, Work
<1>11. ASSUME NEW s \in Schedulers, ReconcileExpired(s) PROVE MarkAccepted
  BY <1>11 DEF ReconcileExpired, MarkAccepted, TypeInv, SchTyped, Work
<1>12. ASSUME NEW s \in Schedulers, RecordListed(s) PROVE MarkAccepted
  BY <1>12 DEF RecordListed, MarkAccepted, TypeInv, SchTyped, Work
<1>13. ASSUME NEW s \in Schedulers, Validate(s) PROVE MarkAccepted
  BY <1>13 DEF Validate, MarkAccepted, TypeInv, SchTyped, Work
<1>14. ASSUME NEW s \in Schedulers, Gate(s) PROVE MarkAccepted
  BY <1>14 DEF Gate, MarkAccepted, TypeInv, SchTyped, Work
<1>15. ASSUME NEW s \in Schedulers, Call(s) PROVE MarkAccepted
  BY <1>15 DEF Call, MarkAccepted, TypeInv, SchTyped, Work
<1>16. ASSUME NEW s \in Schedulers, Release(s) PROVE MarkAccepted
  BY <1>16 DEF Release, MarkAccepted, TypeInv, SchTyped, Work
<1>17. ASSUME NEW s \in Schedulers, Inspect(s) PROVE MarkAccepted
  BY <1>17 DEF Inspect, MarkAccepted, TypeInv, SchTyped, Work
<1>18. ASSUME NEW s \in Schedulers, MarkDispatched(s) PROVE MarkAccepted
  BY <1>18 DEF MarkDispatched, MarkAccepted, TypeInv, SchTyped, Work
<1>19. ASSUME NEW s \in Schedulers, Publish(s) PROVE MarkAccepted
  BY <1>19 DEF Publish, MarkAccepted, TypeInv, SchTyped, Work
<1>20. ASSUME NEW s \in Schedulers, Pin(s) PROVE MarkAccepted
  BY <1>20 DEF Pin, MarkAccepted, TypeInv, SchTyped, Work
<1>21. ASSUME NEW s \in Schedulers, Stamp(s) PROVE MarkAccepted
  BY <1>21 DEF Stamp, MarkAccepted, TypeInv, SchTyped, Work
<1>22. ASSUME NEW s \in Schedulers, Attach(s) PROVE MarkAccepted
  BY <1>22 DEF Attach, MarkAccepted, TypeInv, SchTyped, Work
<1>23. ASSUME NEW s \in Schedulers, Outcome(s) PROVE MarkAccepted
  BY <1>23 DEF Outcome, MarkAccepted, TypeInv, SchTyped, Work
<1>24. ASSUME NEW s \in Schedulers, PersistOutput(s) PROVE MarkAccepted
  BY <1>24 DEF PersistOutput, MarkAccepted, TypeInv, SchTyped, Work
<1>25. ASSUME NEW s \in Schedulers, ClaimAttempt(s) PROVE MarkAccepted
  BY <1>25 DEF ClaimAttempt, AfterAttempt, MarkAccepted, TypeInv, SchTyped, Work
<1>26. ASSUME NEW s \in Schedulers, Send(s) PROVE MarkAccepted
  BY <1>26 DEF Send, MarkAccepted, TypeInv, SchTyped, Work
<1>27. ASSUME NEW s \in Schedulers, SettleAttempt(s) PROVE MarkAccepted
  BY <1>27 DEF SettleAttempt, AfterAttempt, MarkAccepted, TypeInv, SchTyped, Work
<1>28. ASSUME NEW s \in Schedulers, CheckAttempts(s) PROVE MarkAccepted
  BY <1>28 DEF CheckAttempts, MarkAccepted, TypeInv, SchTyped, Work
<1>29. ASSUME NEW s \in Schedulers, CompleteClaim(s) PROVE MarkAccepted
  BY <1>29 DEF CompleteClaim, MarkAccepted, TypeInv, SchTyped, Work
<1>30. ASSUME NEW s \in Schedulers, FailClaim(s) PROVE MarkAccepted
  BY <1>30 DEF FailClaim, MarkAccepted, TypeInv, SchTyped, Work
<1>31. ASSUME NEW s \in Schedulers, ClaimNotice(s) PROVE MarkAccepted
  BY <1>31 DEF ClaimNotice, MarkAccepted, TypeInv, SchTyped, Work
<1>32. ASSUME NEW s \in Schedulers, SendNotice(s) PROVE MarkAccepted
  BY <1>32 DEF SendNotice, MarkAccepted, TypeInv, SchTyped, Work
<1>33. ASSUME NEW s \in Schedulers, SettleNotice(s) PROVE MarkAccepted
  BY <1>33 DEF SettleNotice, MarkAccepted, TypeInv, SchTyped, Work
<1>34. ASSUME NEW s \in Schedulers, Requeue(s) PROVE MarkAccepted
  BY <1>34 DEF Requeue, RequeueClaim, MarkAccepted, TypeInv, SchTyped, Work
<1>35. ASSUME NEW s \in Schedulers, GiveUpAttempts(s) PROVE MarkAccepted
  BY <1>35 DEF GiveUpAttempts, MarkAccepted, TypeInv, SchTyped, Work
<1>36. ASSUME NEW s \in Schedulers, LookUpReceipt(s) PROVE MarkAccepted
  BY <1>36 DEF LookUpReceipt, MarkAccepted, TypeInv, SchTyped, Work
<1>37. ASSUME NEW s \in Schedulers, ProveAbsent(s) PROVE MarkAccepted
  BY <1>37 DEF ProveAbsent, RequeueClaim, MarkAccepted, TypeInv, SchTyped, Work
<1>38. ASSUME NEW s \in Schedulers, Crash(s) PROVE MarkAccepted
  BY <1>38 DEF Crash, MarkAccepted, TypeInv, SchTyped, Work
<1>39. ASSUME NEW s \in Schedulers, LoseLock(s) PROVE MarkAccepted
  BY <1>39 DEF LoseLock, MarkAccepted, TypeInv, SchTyped, Work
<1>40. ASSUME NEW s \in Schedulers, Throws(s) PROVE MarkAccepted
  BY <1>40 DEF Throws, MarkAccepted, TypeInv, SchTyped, Work
<1>41. ASSUME NEW s \in Schedulers, PublishThrows(s) PROVE MarkAccepted
  BY <1>41 DEF PublishThrows, MarkAccepted, TypeInv, SchTyped, Work
<1>42. ASSUME NEW s \in Schedulers, GiveUpCall(s) PROVE MarkAccepted
  BY <1>42 DEF GiveUpCall, MarkAccepted, TypeInv, SchTyped, Work
<1>43. CASE UNCHANGED vars
  BY <1>43 DEF vars, MarkAccepted, TypeInv, SchTyped, Work
<1> QED BY <1>1, <1>2, <1>3, <1>4, <1>5, <1>6, <1>7, <1>8, <1>9, <1>10, <1>11, <1>12,
       <1>13, <1>14, <1>15, <1>16, <1>17, <1>18, <1>19, <1>20, <1>21, <1>22, <1>23,
       <1>24, <1>25, <1>26, <1>27, <1>28, <1>29, <1>30, <1>31, <1>32, <1>33, <1>34,
       <1>35, <1>36, <1>37, <1>38, <1>39, <1>40, <1>41, <1>42, <1>43 DEF Next, Chat,
       Runtime, Poll, Step, Disturb

\* subscribePending, observeForCurrentTurn, finalizeSourceTurn, markDispatched: the owner
\* is decided once, and the dispatch is recorded after the runtime took the turn.
LEMMA NarratorStep ==
  ASSUME TypeInv, NarratorInv, [Next]_vars
  PROVE  NarratorInv'
<1>1. Continues => Continues'
  BY RowStep DEF NarratorInv, RowEngaged
<1>2. Engaged'
  BY <1>1, RowStep, WorkStep DEF NarratorInv, Engaged, RowEngaged, WorkEngaged
<1>3. Accepted'
  <2>1. MarkAccepted
    BY MarkStep
  <2>2. RowEngaged
    BY RowStep DEF NarratorInv
  <2>3. DispatchedIsAccepted'
    BY <2>1, <2>2 DEF NarratorInv, Accepted, DispatchedIsAccepted, MarkAccepted, RowEngaged
  <2>4. \A s \in Schedulers : At(s, "mark")' => run'.status # "absent"
    BY <2>1 DEF NarratorInv, Accepted, MarkAccepted
  <2> QED BY <2>3, <2>4 DEF Accepted
<1> QED BY <1>2, <1>3 DEF NarratorInv

-----------------------------------------------------------------------------
(* One message for a sandbox job, the pinned one for a media job.           *)

\* The message that persistPermanentFailureMessage leaves to a row.
FailMessage ==
    /\ handle'.state = "failed" /\ handle'.owner = handle.owner
    /\ IF handle.msg # 0 THEN handle'.msg = handle.msg
       ELSE \/ handle'.msg = 0
            \/ handle'.msg = bubble.made + 1 /\ (Kind = "sandbox" \/ job # "completed")
    /\ bubble' = [bubble EXCEPT !.made = IF handle'.msg > @ THEN handle'.msg ELSE @]

\* persistPermanentFailureMessage reuses the message of the row, else it adds one.
LEMMA FailTells ==
  ASSUME TypeInv, NEW x \in Handles, x.msg = handle.msg, x.owner = handle.owner, FailWith(x)
  PROVE  FailMessage
<1>1. PICK msg \in IF x.msg # 0 THEN {x.msg}
                   ELSE {0} \cup (IF Kind # "sandbox" /\ job = "completed" THEN {} ELSE {bubble.made + 1}) :
        /\ msg <= MaxMessages
        /\ handle' = [x EXCEPT !.state = "failed", !.token = None, !.expired = FALSE, !.msg = msg]
        /\ bubble' = [bubble EXCEPT !.made = IF msg > @ THEN msg ELSE @]
  BY DEF FailWith
<1>2. handle'.msg = msg /\ handle'.state = "failed" /\ handle'.owner = x.owner
  BY <1>1 DEF Handles
<1> QED BY <1>1, <1>2 DEF FailMessage

\* requeueClaim makes the row ready, or fails it so.
LEMMA RequeueTells ==
  ASSUME TypeInv, NEW s, handle.state \in {"claimed", "dispatched"}, RequeueClaim(s)
  PROVE  \/ FailMessage
         \/ handle'.msg = handle.msg /\ handle'.state = "ready" /\ UNCHANGED bubble
<1> DEFINE tried == [handle EXCEPT !.retries = @ + 1]
<1>1. tried \in Handles /\ tried.msg = handle.msg /\ tried.owner = handle.owner
  BY DEF TypeInv, Budget, TypeOK, Handles
<1>2. CASE FailWith(tried)
  BY <1>1, <1>2, FailTells
<1>3. CASE /\ handle' = [tried EXCEPT !.state = "ready", !.token = None, !.expired = FALSE]
           /\ UNCHANGED bubble
  <2> HIDE DEF tried
  <2> QED BY <1>1, <1>3 DEF Handles
<1> QED BY <1>2, <1>3 DEF RequeueClaim

\* persistOutputOnce, persistPermanentFailureMessage: they use the message there is.
LEMMA SandboxRowStep ==
  ASSUME Kind = "sandbox", TypeInv, SandboxInv, [Next]_vars
  PROVE  SandboxRow'
<1> USE DEF SandboxInv
<1>1. CASE JobEnds
  BY <1>1 DEF JobEnds, SandboxRow, TypeInv, TypeOK, Handles
<1>2. CASE WorkerRecords
  BY <1>2 DEF WorkerRecords, RecordCompletion, SandboxRow, TypeInv, TypeOK, Handles
<1>3. CASE Observe
  BY <1>3 DEF Observe, NarrateInline, SandboxRow, TypeInv, TypeOK, Handles
<1>4. CASE SubscribePending
  BY <1>4 DEF SubscribePending, NarrateInline, SandboxRow, TypeInv, TypeOK, Handles
<1>5. CASE FinalizePersisted
  <2>1. \E outcome : FinalizeSourceTurn(outcome)
    BY <1>5 DEF FinalizePersisted
  <2> QED BY <1>5, <2>1, FinalizeTyped DEF FinalizePersisted, SandboxRow
<1>6. CASE FinalizeFailed
  <2>1. \E outcome : FinalizeSourceTurn(outcome)
    BY <1>6 DEF FinalizeFailed
  <2> QED BY <1>6, <2>1, FinalizeTyped DEF FinalizeFailed, SandboxRow
<1>7. CASE SweepSourceTurn
  <2>1. \E outcome : FinalizeSourceTurn(outcome)
    BY <1>7 DEF SweepSourceTurn
  <2> QED BY <1>7, <2>1, FinalizeTyped DEF SweepSourceTurn, SandboxRow
<1>8. CASE ClaimExpires
  BY <1>8 DEF ClaimExpires, SandboxRow, TypeInv, TypeOK, Handles
<1>9. ASSUME NEW s \in Schedulers, ClaimReadyHead(s) PROVE SandboxRow'
  BY <1>9 DEF ClaimReadyHead, SandboxRow, TypeInv, TypeOK, Handles
<1>10. ASSUME NEW s \in Schedulers, RecordListed(s) PROVE SandboxRow'
  BY <1>10 DEF RecordListed, RecordCompletion, SandboxRow, TypeInv, TypeOK, Handles
<1>11. ASSUME NEW s \in Schedulers, Release(s) PROVE SandboxRow'
  BY <1>11 DEF Release, Mine, SandboxRow, TypeInv, TypeOK, Handles
<1>12. ASSUME NEW s \in Schedulers, MarkDispatched(s) PROVE SandboxRow'
  BY <1>12 DEF MarkDispatched, Mine, SandboxRow, TypeInv, TypeOK, Handles
<1>13. ASSUME NEW s \in Schedulers, Publish(s) PROVE SandboxRow'
  BY <1>13 DEF Publish, SandboxWork, Publishing
<1>14. ASSUME NEW s \in Schedulers, Pin(s) PROVE SandboxRow'
  BY <1>14 DEF Pin, SandboxWork, Publishing
<1>15. ASSUME NEW s \in Schedulers, Stamp(s) PROVE SandboxRow'
  BY <1>15 DEF Stamp, SandboxWork, Publishing
<1>16. ASSUME NEW s \in Schedulers, Attach(s) PROVE SandboxRow'
  BY <1>16 DEF Attach, SandboxWork, Publishing
<1>17. ASSUME NEW s \in Schedulers, PersistOutput(s) PROVE SandboxRow'
  <2>1. CASE UNCHANGED <<handle, bubble>>
    BY <2>1 DEF SandboxRow
  <2>2. CASE ~ UNCHANGED <<handle, bubble>>
    <3>1. PICK msg : /\ handle' = [handle EXCEPT !.msg = msg]
                     /\ bubble' = [bubble EXCEPT !.made = IF msg > @ THEN msg ELSE @, !.narrated = TRUE]
                     /\ msg = IF handle.msg # 0 THEN handle.msg ELSE bubble.made + 1
      BY <1>17, <2>2 DEF PersistOutput, SandboxRow
    <3>2. handle'.msg = msg /\ bubble'.pin = bubble.pin
          /\ bubble'.made = IF msg > bubble.made THEN msg ELSE bubble.made
      BY <3>1 DEF TypeInv, TypeOK, Handles, Bubbles
    <3>3. bubble.made \in Nat
      BY DEF TypeInv, TypeOK, Bubbles
    <3> QED BY <3>1, <3>2, <3>3 DEF SandboxRow
  <2> QED BY <2>1, <2>2
<1>18. ASSUME NEW s \in Schedulers, ClaimAttempt(s) PROVE SandboxRow'
  BY <1>18 DEF ClaimAttempt, Mine, AfterAttempt, SandboxRow, TypeInv, TypeOK, Handles
<1>19. ASSUME NEW s \in Schedulers, SettleAttempt(s) PROVE SandboxRow'
  BY <1>19 DEF SettleAttempt, Mine, AfterAttempt, SandboxRow, TypeInv, TypeOK, Handles
<1>20. ASSUME NEW s \in Schedulers, CompleteClaim(s) PROVE SandboxRow'
  BY <1>20 DEF CompleteClaim, Mine, SandboxRow, TypeInv, TypeOK, Handles
<1>21. ASSUME NEW s \in Schedulers, FailClaim(s) PROVE SandboxRow'
  <2>1. CASE FailWith(handle)
    <3>1. FailMessage
      BY <2>1, FailTells DEF TypeInv, TypeOK
    <3> QED BY <3>1 DEF FailMessage, SandboxRow, TypeInv, TypeOK, Bubbles, Handles
  <2> QED BY <1>21, <2>1 DEF FailClaim, Delivered, SandboxRow
<1>22. ASSUME NEW s \in Schedulers, ClaimNotice(s) PROVE SandboxRow'
  BY <1>22 DEF ClaimNotice, SandboxRow, TypeInv, TypeOK, Handles
<1>23. ASSUME NEW s \in Schedulers, SettleNotice(s) PROVE SandboxRow'
  BY <1>23 DEF SettleNotice, SandboxRow, TypeInv, TypeOK, Handles
<1>24. ASSUME NEW s \in Schedulers, Requeue(s) PROVE SandboxRow'
  <2>1. CASE RequeueClaim(s) /\ handle.state \in {"claimed", "dispatched"}
    <3>1. CASE FailMessage
      BY <3>1 DEF FailMessage, SandboxRow, TypeInv, TypeOK, Bubbles, Handles
    <3>2. CASE handle'.msg = handle.msg /\ UNCHANGED bubble
      BY <3>2 DEF SandboxRow
    <3> QED BY <2>1, <3>1, <3>2, RequeueTells
  <2> QED BY <1>24, <2>1 DEF Requeue, Mine, SandboxRow
<1>25. ASSUME NEW s \in Schedulers, GiveUpAttempts(s) PROVE SandboxRow'
  BY <1>25 DEF GiveUpAttempts, Mine, SandboxRow, TypeInv, TypeOK, Handles
<1>26. ASSUME NEW s \in Schedulers, ProveAbsent(s) PROVE SandboxRow'
  <2>1. CASE RequeueClaim(s) /\ handle.state \in {"claimed", "dispatched"}
    <3>1. CASE FailMessage
      BY <3>1 DEF FailMessage, SandboxRow, TypeInv, TypeOK, Bubbles, Handles
    <3>2. CASE handle'.msg = handle.msg /\ UNCHANGED bubble
      BY <3>2 DEF SandboxRow
    <3> QED BY <2>1, <3>1, <3>2, RequeueTells
  <2> QED BY <1>26, <2>1 DEF ProveAbsent, Mine, SandboxRow
<1>27. CASE UNCHANGED <<handle, job, owed, bubble>>
  BY <1>27 DEF SandboxRow
<1> QED BY <1>1, <1>2, <1>3, <1>4, <1>5, <1>6, <1>7, <1>8, <1>9, <1>10, <1>11, <1>12,
       <1>13, <1>14, <1>15, <1>16, <1>17, <1>18, <1>19, <1>20, <1>21, <1>22, <1>23,
       <1>24, <1>25, <1>26, <1>27, HandleChanges, BubbleChanges

\* Nobody publishes.
LEMMA SandboxWorkStep ==
  ASSUME Kind = "sandbox", TypeInv, SandboxInv, [Next]_vars
  PROVE  SandboxWork'
<1>1. CASE JobEnds \/ WorkerRecords \/ Observe \/ SubscribePending \/ ApiDies \/
          EarlyMessage \/ SourceTurnEnds \/ SaveReply \/ FinalizePersisted \/
          FinalizeFailed \/ SweepSourceTurn \/ ClaimExpires \/ PersistResult \/
          PersistFailure \/ OrphanReceipt
  BY <1>1 DEF JobEnds, WorkerRecords, Observe, SubscribePending, ApiDies, EarlyMessage,
        SourceTurnEnds, SaveReply, FinalizePersisted, FinalizeFailed, SweepSourceTurn,
        ClaimExpires, PersistResult, PersistFailure, OrphanReceipt, SandboxInv,
        SandboxWork, Publishing, TypeInv, SchTyped, Work
<1>2. CASE Return
  <2>1. UNCHANGED sch \/ \E x, got : \E pc \in {"mark", "inspect", "release"} : Answer(x, pc, got)
    BY <1>2 DEF Return
  <2>2. ASSUME NEW x, NEW pc \in {"mark", "inspect", "release"}, NEW got, Answer(x, pc, got)
        PROVE  SandboxWork'
    BY <2>2 DEF Answer, SandboxInv, SandboxWork, Publishing, TypeInv, SchTyped, Work
  <2> QED BY <2>1, <2>2 DEF SandboxInv, SandboxWork
<1>3. CASE HandlerDies
  <2>1. UNCHANGED sch \/ \E x, got : \E pc \in {"mark", "inspect", "release"} : Answer(x, pc, got)
    BY <1>3 DEF HandlerDies
  <2>2. ASSUME NEW x, NEW pc \in {"mark", "inspect", "release"}, NEW got, Answer(x, pc, got)
        PROVE  SandboxWork'
    BY <2>2 DEF Answer, SandboxInv, SandboxWork, Publishing, TypeInv, SchTyped, Work
  <2> QED BY <2>1, <2>2 DEF SandboxInv, SandboxWork
<1>4. ASSUME NEW t \in Tokens, CheckReplay(t) PROVE SandboxWork'
  <2>1. UNCHANGED sch \/ \E x, got : \E pc \in {"mark", "inspect", "release"} : Answer(x, pc, got)
    BY <1>4 DEF CheckReplay, Replay
  <2>2. ASSUME NEW x, NEW pc \in {"mark", "inspect", "release"}, NEW got, Answer(x, pc, got)
        PROVE  SandboxWork'
    BY <2>2 DEF Answer, SandboxInv, SandboxWork, Publishing, TypeInv, SchTyped, Work
  <2> QED BY <2>1, <2>2 DEF SandboxInv, SandboxWork
<1>5. ASSUME NEW t \in Tokens, Accept(t) PROVE SandboxWork'
  <2>1. UNCHANGED sch \/ \E x, got : \E pc \in {"mark", "inspect", "release"} : Answer(x, pc, got)
    BY <1>5 DEF Accept, Replay
  <2>2. ASSUME NEW x, NEW pc \in {"mark", "inspect", "release"}, NEW got, Answer(x, pc, got)
        PROVE  SandboxWork'
    BY <2>2 DEF Answer, SandboxInv, SandboxWork, Publishing, TypeInv, SchTyped, Work
  <2> QED BY <2>1, <2>2 DEF SandboxInv, SandboxWork
<1>6. ASSUME NEW s \in Schedulers, ListOpen(s) PROVE SandboxWork'
  BY <1>6 DEF ListOpen, SandboxInv, SandboxWork, Publishing, TypeInv, SchTyped, Work
<1>7. ASSUME NEW s \in Schedulers, ClaimReadyHead(s) PROVE SandboxWork'
  BY <1>7 DEF ClaimReadyHead, SandboxInv, SandboxWork, Publishing, TypeInv, SchTyped,
        Work
<1>8. ASSUME NEW s \in Schedulers, ReconcileExpired(s) PROVE SandboxWork'
  BY <1>8 DEF ReconcileExpired, SandboxInv, SandboxWork, Publishing, TypeInv, SchTyped,
        Work
<1>9. ASSUME NEW s \in Schedulers, RecordListed(s) PROVE SandboxWork'
  BY <1>9 DEF RecordListed, SandboxInv, SandboxWork, Publishing, TypeInv, SchTyped, Work
<1>10. ASSUME NEW s \in Schedulers, Validate(s) PROVE SandboxWork'
  BY <1>10 DEF Validate, SandboxInv, SandboxWork, Publishing, TypeInv, SchTyped, Work
<1>11. ASSUME NEW s \in Schedulers, Gate(s) PROVE SandboxWork'
  BY <1>11 DEF Gate, SandboxInv, SandboxWork, Publishing, TypeInv, SchTyped, Work
<1>12. ASSUME NEW s \in Schedulers, Call(s) PROVE SandboxWork'
  BY <1>12 DEF Call, SandboxInv, SandboxWork, Publishing, TypeInv, SchTyped, Work
<1>13. ASSUME NEW s \in Schedulers, Release(s) PROVE SandboxWork'
  BY <1>13 DEF Release, SandboxInv, SandboxWork, Publishing, TypeInv, SchTyped, Work
<1>14. ASSUME NEW s \in Schedulers, Inspect(s) PROVE SandboxWork'
  BY <1>14 DEF Inspect, SandboxInv, SandboxWork, Publishing, TypeInv, SchTyped, Work
<1>15. ASSUME NEW s \in Schedulers, MarkDispatched(s) PROVE SandboxWork'
  BY <1>15 DEF MarkDispatched, SandboxInv, SandboxWork, Publishing, TypeInv, SchTyped,
        Work
<1>16. ASSUME NEW s \in Schedulers, Publish(s) PROVE SandboxWork'
  BY <1>16 DEF Publish, SandboxInv, SandboxWork, Publishing, TypeInv, SchTyped, Work
<1>17. ASSUME NEW s \in Schedulers, Pin(s) PROVE SandboxWork'
  BY <1>17 DEF Pin, SandboxInv, SandboxWork, Publishing, TypeInv, SchTyped, Work
<1>18. ASSUME NEW s \in Schedulers, Stamp(s) PROVE SandboxWork'
  BY <1>18 DEF Stamp, SandboxInv, SandboxWork, Publishing, TypeInv, SchTyped, Work
<1>19. ASSUME NEW s \in Schedulers, Attach(s) PROVE SandboxWork'
  BY <1>19 DEF Attach, SandboxInv, SandboxWork, Publishing, TypeInv, SchTyped, Work
<1>20. ASSUME NEW s \in Schedulers, Outcome(s) PROVE SandboxWork'
  BY <1>20 DEF Outcome, SandboxInv, SandboxWork, Publishing, TypeInv, SchTyped, Work
<1>21. ASSUME NEW s \in Schedulers, PersistOutput(s) PROVE SandboxWork'
  BY <1>21 DEF PersistOutput, SandboxInv, SandboxWork, Publishing, TypeInv, SchTyped,
        Work
<1>22. ASSUME NEW s \in Schedulers, ClaimAttempt(s) PROVE SandboxWork'
  BY <1>22 DEF ClaimAttempt, AfterAttempt, SandboxInv, SandboxWork, Publishing, TypeInv,
        SchTyped, Work
<1>23. ASSUME NEW s \in Schedulers, Send(s) PROVE SandboxWork'
  BY <1>23 DEF Send, SandboxInv, SandboxWork, Publishing, TypeInv, SchTyped, Work
<1>24. ASSUME NEW s \in Schedulers, SettleAttempt(s) PROVE SandboxWork'
  BY <1>24 DEF SettleAttempt, AfterAttempt, SandboxInv, SandboxWork, Publishing,
        TypeInv, SchTyped, Work
<1>25. ASSUME NEW s \in Schedulers, CheckAttempts(s) PROVE SandboxWork'
  BY <1>25 DEF CheckAttempts, SandboxInv, SandboxWork, Publishing, TypeInv, SchTyped,
        Work
<1>26. ASSUME NEW s \in Schedulers, CompleteClaim(s) PROVE SandboxWork'
  BY <1>26 DEF CompleteClaim, SandboxInv, SandboxWork, Publishing, TypeInv, SchTyped,
        Work
<1>27. ASSUME NEW s \in Schedulers, FailClaim(s) PROVE SandboxWork'
  BY <1>27 DEF FailClaim, SandboxInv, SandboxWork, Publishing, TypeInv, SchTyped, Work
<1>28. ASSUME NEW s \in Schedulers, ClaimNotice(s) PROVE SandboxWork'
  BY <1>28 DEF ClaimNotice, SandboxInv, SandboxWork, Publishing, TypeInv, SchTyped, Work
<1>29. ASSUME NEW s \in Schedulers, SendNotice(s) PROVE SandboxWork'
  BY <1>29 DEF SendNotice, SandboxInv, SandboxWork, Publishing, TypeInv, SchTyped, Work
<1>30. ASSUME NEW s \in Schedulers, SettleNotice(s) PROVE SandboxWork'
  BY <1>30 DEF SettleNotice, SandboxInv, SandboxWork, Publishing, TypeInv, SchTyped,
        Work
<1>31. ASSUME NEW s \in Schedulers, Requeue(s) PROVE SandboxWork'
  BY <1>31 DEF Requeue, RequeueClaim, SandboxInv, SandboxWork, Publishing, TypeInv,
        SchTyped, Work
<1>32. ASSUME NEW s \in Schedulers, GiveUpAttempts(s) PROVE SandboxWork'
  BY <1>32 DEF GiveUpAttempts, SandboxInv, SandboxWork, Publishing, TypeInv, SchTyped,
        Work
<1>33. ASSUME NEW s \in Schedulers, LookUpReceipt(s) PROVE SandboxWork'
  BY <1>33 DEF LookUpReceipt, SandboxInv, SandboxWork, Publishing, TypeInv, SchTyped,
        Work
<1>34. ASSUME NEW s \in Schedulers, ProveAbsent(s) PROVE SandboxWork'
  BY <1>34 DEF ProveAbsent, RequeueClaim, SandboxInv, SandboxWork, Publishing, TypeInv,
        SchTyped, Work
<1>35. ASSUME NEW s \in Schedulers, Crash(s) PROVE SandboxWork'
  BY <1>35 DEF Crash, SandboxInv, SandboxWork, Publishing, TypeInv, SchTyped, Work
<1>36. ASSUME NEW s \in Schedulers, LoseLock(s) PROVE SandboxWork'
  BY <1>36 DEF LoseLock, SandboxInv, SandboxWork, Publishing, TypeInv, SchTyped, Work
<1>37. ASSUME NEW s \in Schedulers, Throws(s) PROVE SandboxWork'
  BY <1>37 DEF Throws, SandboxInv, SandboxWork, Publishing, TypeInv, SchTyped, Work
<1>38. ASSUME NEW s \in Schedulers, PublishThrows(s) PROVE SandboxWork'
  BY <1>38 DEF PublishThrows, SandboxInv, SandboxWork, Publishing, TypeInv, SchTyped,
        Work
<1>39. ASSUME NEW s \in Schedulers, GiveUpCall(s) PROVE SandboxWork'
  BY <1>39 DEF GiveUpCall, SandboxInv, SandboxWork, Publishing, TypeInv, SchTyped, Work
<1>40. CASE UNCHANGED vars
  BY <1>40 DEF vars, SandboxInv, SandboxWork, Publishing, TypeInv, SchTyped, Work
<1> QED BY <1>1, <1>2, <1>3, <1>4, <1>5, <1>6, <1>7, <1>8, <1>9, <1>10, <1>11, <1>12,
       <1>13, <1>14, <1>15, <1>16, <1>17, <1>18, <1>19, <1>20, <1>21, <1>22, <1>23,
       <1>24, <1>25, <1>26, <1>27, <1>28, <1>29, <1>30, <1>31, <1>32, <1>33, <1>34,
       <1>35, <1>36, <1>37, <1>38, <1>39, <1>40 DEF Next, Chat, Runtime, Poll, Step,
       Disturb

\* The handle of a media job never loses the pinned message while it may be narrated.
LEMMA FailPinned ==
  ASSUME Kind = "media", TypeInv, Engaged, PinInv, handle.state \in {"claimed", "dispatched"},
         FailMessage, UNCHANGED <<job, owed>>
  PROVE  PinRow'
<1>1. /\ Continues /\ job \in {"completed", "failed", "cancelled"}
      /\ handle.msg \in {0, bubble.pin}
  BY DEF TypeInv, TypeOK, JobOver, Engaged, PinInv, PinRow, Misplaced, Terminal
<1>2. bubble'.pin = bubble.pin /\ bubble'.narrated = bubble.narrated
  BY DEF FailMessage, TypeInv, TypeOK, Bubbles
<1>3. handle'.state = "failed" /\ handle'.owner = handle.owner
  BY DEF FailMessage
<1>4. handle.msg # 0 => handle'.msg = handle.msg
  BY DEF FailMessage
<1>5. handle.msg = 0 => handle'.msg = 0 \/ job # "completed"
  BY DEF FailMessage
<1>6. bubble.narrated => handle.msg = bubble.pin /\ bubble.pin # 0
  BY DEF PinInv, PinRow
<1>7. bubble'.narrated => handle'.msg = bubble'.pin /\ bubble'.pin # 0
  BY <1>2, <1>4, <1>6
<1>8. handle'.msg \notin {0, bubble'.pin} => job' \in {"failed", "cancelled"}
  BY <1>1, <1>2, <1>4, <1>5
<1> QED BY <1>1, <1>3, <1>7, <1>8 DEF PinRow, Misplaced, Continues, Terminal

\* recordCanonicalCompletion does not wake a handle whose failure was told elsewhere.
LEMMA RecordPinned ==
  ASSUME TypeInv, PinInv, RecordCompletion, UNCHANGED <<job, bubble>>, ~ owed', job # "running",
         Misplaced => handle.state = "failed"
  PROVE  PinRow'
<1>1. job \in Terminal /\ handle \in Handles
  BY DEF TypeInv, TypeOK
<1>2. /\ handle'.msg = handle.msg
      /\ handle.state = "failed" => handle'.state = job
      /\ Continues => handle'.owner = handle.owner
  BY <1>1 DEF RecordCompletion, Continues, Handles
<1> QED BY <1>1, <1>2 DEF PinInv, PinRow, Misplaced, Continues

\* ConversationalPublish, persistOutputOnce, failClaim: what is said, and where.
LEMMA PinRowStep ==
  ASSUME Kind = "media", TypeInv, NarratorInv, PinInv, [Next]_vars
  PROVE  PinRow'
<1>1. CASE JobEnds
  BY <1>1 DEF JobEnds, TypeInv, TypeOK, Handles, PinInv, PinRow, Misplaced, Continues,
        Terminal
<1>2. CASE WorkerRecords
  <2>1. CASE RecordCompletion /\ UNCHANGED bubble
    <3>1. UNCHANGED job /\ owed /\ ~ owed'
      BY <1>2 DEF WorkerRecords
    <3>2. job # "running"
      BY <3>1 DEF TypeInv, JobOver
    <3>3. Misplaced => handle.state = "failed"
      BY <3>1 DEF PinInv, PinRow
    <3> QED BY <2>1, <3>1, <3>2, <3>3, RecordPinned
  <2> QED BY <1>2, <2>1 DEF WorkerRecords, PinInv, PinRow, Misplaced, Continues
<1>3. CASE Observe
  <2>1. ~ Misplaced /\ UNCHANGED bubble
    BY <1>3 DEF Observe, PinInv, PinRow, Continues, Terminal
  <2>2. PICK st : handle' = [handle EXCEPT !.snap = TRUE, !.state = st]
                  \/ handle' = [handle EXCEPT !.owner = "current", !.snap = TRUE, !.state = st]
    BY <1>3 DEF Observe, NarrateInline
  <2>3. handle'.msg = handle.msg
    BY <2>2 DEF TypeInv, TypeOK, Handles
  <2> QED BY <2>1, <2>3 DEF PinInv, PinRow, Misplaced
<1>4. CASE SubscribePending
  <2>1. ~ Misplaced /\ UNCHANGED bubble
    BY <1>4 DEF SubscribePending, PinInv, PinRow, Continues
  <2>2. handle'.msg = handle.msg
    BY <1>4 DEF SubscribePending, NarrateInline, TypeInv, TypeOK, Handles
  <2> QED BY <2>1, <2>2 DEF PinInv, PinRow, Misplaced
<1>5. CASE FinalizePersisted
  <2>1. (\E outcome : FinalizeSourceTurn(outcome)) /\ UNCHANGED <<job, owed, bubble>>
    BY <1>5 DEF FinalizePersisted
  <2>2. handle'.msg = handle.msg /\ (Continues => handle'.owner = handle.owner /\ handle'.state = handle.state)
    BY <2>1, FinalizeTyped
  <2> QED BY <2>1, <2>2 DEF PinInv, PinRow, Misplaced, Continues
<1>6. CASE FinalizeFailed
  <2>1. (\E outcome : FinalizeSourceTurn(outcome)) /\ UNCHANGED <<job, owed, bubble>>
    BY <1>6 DEF FinalizeFailed
  <2>2. handle'.msg = handle.msg /\ (Continues => handle'.owner = handle.owner /\ handle'.state = handle.state)
    BY <2>1, FinalizeTyped
  <2> QED BY <2>1, <2>2 DEF PinInv, PinRow, Misplaced, Continues
<1>7. CASE SweepSourceTurn
  <2>1. (\E outcome : FinalizeSourceTurn(outcome)) /\ UNCHANGED <<job, owed, bubble>>
    BY <1>7 DEF SweepSourceTurn
  <2>2. handle'.msg = handle.msg /\ (Continues => handle'.owner = handle.owner /\ handle'.state = handle.state)
    BY <2>1, FinalizeTyped
  <2> QED BY <2>1, <2>2 DEF PinInv, PinRow, Misplaced, Continues
<1>8. CASE ClaimExpires
  BY <1>8 DEF ClaimExpires, TypeInv, TypeOK, Handles, PinInv, PinRow, Misplaced,
        Continues, Terminal
<1>9. ASSUME NEW s \in Schedulers, ClaimReadyHead(s) PROVE PinRow'
  BY <1>9 DEF ClaimReadyHead, TypeInv, TypeOK, Handles, PinInv, PinRow, Misplaced,
        Continues, Terminal
<1>10. ASSUME NEW s \in Schedulers, RecordListed(s) PROVE PinRow'
  <2>1. ~ Misplaced /\ UNCHANGED <<bubble, job>>
    BY <1>10 DEF RecordListed, PinInv, PinWork
  <2>2. handle'.msg = handle.msg
    BY <1>10 DEF RecordListed, RecordCompletion, TypeInv, TypeOK, Handles
  <2> QED BY <2>1, <2>2 DEF PinInv, PinRow, Misplaced
<1>11. ASSUME NEW s \in Schedulers, Release(s) PROVE PinRow'
  <2>1. (handle.state = "claimed" /\ handle'.msg = handle.msg) \/ UNCHANGED handle
    BY <1>11 DEF Release, Mine, TypeInv, TypeOK, Handles
  <2>2. UNCHANGED <<bubble, job, owed>>
    BY <1>11 DEF Release
  <2> QED BY <2>1, <2>2 DEF PinInv, PinRow, Misplaced, Continues, Terminal
<1>12. ASSUME NEW s \in Schedulers, MarkDispatched(s) PROVE PinRow'
  <2>1. (handle.state = "claimed" /\ handle'.msg = handle.msg) \/ UNCHANGED handle
    BY <1>12 DEF MarkDispatched, Mine, TypeInv, TypeOK, Handles
  <2>2. UNCHANGED <<bubble, job, owed>>
    BY <1>12 DEF MarkDispatched
  <2> QED BY <2>1, <2>2 DEF PinInv, PinRow, Misplaced, Continues, Terminal
<1>13. ASSUME NEW s \in Schedulers, Publish(s) PROVE PinRow'
  BY <1>13 DEF Publish, Unattached, Bubbles, TypeInv, TypeOK, Handles, PinInv, PinRow,
        Misplaced, Continues, Terminal
<1>14. ASSUME NEW s \in Schedulers, Pin(s) PROVE PinRow'
  <2>1. bubble.pin = 0 /\ UNCHANGED <<handle, job, owed>> /\ bubble'.narrated = bubble.narrated
    BY <1>14 DEF Pin, PinInv, PinWork, TypeInv, TypeOK, Bubbles
  <2> QED BY <2>1 DEF PinInv, PinRow, Misplaced, Continues
<1>15. ASSUME NEW s \in Schedulers, Stamp(s) PROVE PinRow'
  <2>1. UNCHANGED bubble /\ bubble.pin # 0
    BY <1>15 DEF Stamp, PinInv, PinWork
  <2>2. handle'.msg = bubble.pin
    BY <1>15 DEF Stamp, PinInv, PinWork, TypeInv, TypeOK, Handles
  <2> QED BY <2>1, <2>2 DEF PinRow, Misplaced
<1>16. ASSUME NEW s \in Schedulers, Attach(s) PROVE PinRow'
  BY <1>16 DEF Attach, Bubbles, TypeInv, TypeOK, Handles, PinInv, PinRow, Misplaced,
        Continues, Terminal
<1>17. ASSUME NEW s \in Schedulers, PersistOutput(s) PROVE PinRow'
  <2>1. UNCHANGED <<job, owed>>
    BY <1>17 DEF PersistOutput
  <2>2. CASE UNCHANGED <<handle, bubble>>
    BY <2>1, <2>2 DEF PinInv, PinRow, Misplaced, Continues
  <2>3. CASE ~ UNCHANGED <<handle, bubble>>
    <3> DEFINE known == IF handle.msg # 0 THEN handle.msg ELSE bubble.pin
    <3>1. /\ handle.state = "dispatched" /\ known # 0
          /\ handle' = [handle EXCEPT !.msg = known]
          /\ bubble' = [bubble EXCEPT !.made = IF known > @ THEN known ELSE @, !.narrated = TRUE]
      BY <1>17, <2>3 DEF PersistOutput, Mine
    <3>2. handle.msg \in {0, bubble.pin}
      BY <3>1 DEF PinInv, PinRow, Misplaced, Terminal
    <3>3. handle'.msg = bubble.pin /\ bubble.pin # 0
      BY <3>1, <3>2 DEF TypeInv, TypeOK, Handles
    <3>4. bubble'.pin = bubble.pin
      BY <3>1 DEF TypeInv, TypeOK, Bubbles
    <3> QED BY <3>3, <3>4 DEF PinRow, Misplaced
  <2> QED BY <2>2, <2>3
<1>18. ASSUME NEW s \in Schedulers, ClaimAttempt(s) PROVE PinRow'
  BY <1>18 DEF ClaimAttempt, Mine, AfterAttempt, TypeInv, TypeOK, Handles, PinInv,
        PinRow, Misplaced, Continues, Terminal
<1>19. ASSUME NEW s \in Schedulers, SettleAttempt(s) PROVE PinRow'
  BY <1>19 DEF SettleAttempt, Mine, AfterAttempt, TypeInv, TypeOK, Handles, PinInv,
        PinRow, Misplaced, Continues, Terminal
<1>20. ASSUME NEW s \in Schedulers, CompleteClaim(s) PROVE PinRow'
  BY <1>20 DEF CompleteClaim, Mine, TypeInv, TypeOK, Handles, PinInv, PinRow, Misplaced,
        Continues, Terminal
<1>21. ASSUME NEW s \in Schedulers, FailClaim(s) PROVE PinRow'
  <2>1. UNCHANGED <<job, owed>>
    BY <1>21 DEF FailClaim
  <2>2. CASE FailWith(handle) /\ handle.state \in {"claimed", "dispatched"}
    BY <2>1, <2>2, FailTells, FailPinned DEF NarratorInv, TypeInv, TypeOK
  <2>3. CASE /\ Delivered /\ UNCHANGED bubble
             /\ handle' = [handle EXCEPT !.state = "completed", !.token = None, !.expired = FALSE,
                                         !.msg = IF bubble.pin # 0 THEN bubble.pin ELSE @]
    <3>1. /\ job = "completed" /\ (bubble.pin # 0 \/ handle.msg # 0)
          /\ handle'.msg = IF bubble.pin # 0 THEN bubble.pin ELSE handle.msg
      BY <2>3 DEF Delivered, TypeInv, TypeOK, Handles
    <3> QED BY <2>1, <2>3, <3>1 DEF PinInv, PinRow, Misplaced
  <2>4. CASE UNCHANGED <<handle, bubble>>
    BY <2>1, <2>4 DEF PinInv, PinRow, Misplaced, Continues
  <2> QED BY <1>21, <2>2, <2>3, <2>4 DEF FailClaim, Mine
<1>22. ASSUME NEW s \in Schedulers, ClaimNotice(s) PROVE PinRow'
  BY <1>22 DEF ClaimNotice, TypeInv, TypeOK, Handles, PinInv, PinRow, Misplaced,
        Continues, Terminal
<1>23. ASSUME NEW s \in Schedulers, SettleNotice(s) PROVE PinRow'
  BY <1>23 DEF SettleNotice, TypeInv, TypeOK, Handles, PinInv, PinRow, Misplaced,
        Continues, Terminal
<1>24. ASSUME NEW s \in Schedulers, Requeue(s) PROVE PinRow'
  <2>1. CASE RequeueClaim(s) /\ handle.state \in {"claimed", "dispatched"}
    <3>1. UNCHANGED <<job, owed>>
      BY <1>24 DEF Requeue
    <3>2. CASE handle'.msg = handle.msg /\ UNCHANGED bubble
      BY <2>1, <3>1, <3>2 DEF PinInv, PinRow, Misplaced, Terminal
    <3> QED BY <2>1, <3>1, <3>2, FailPinned, RequeueTells DEF NarratorInv
  <2>2. CASE UNCHANGED <<handle, bubble, job, owed>>
    BY <2>2 DEF PinInv, PinRow, Misplaced, Continues
  <2> QED BY <1>24, <2>1, <2>2 DEF Requeue, Mine
<1>25. ASSUME NEW s \in Schedulers, GiveUpAttempts(s) PROVE PinRow'
  BY <1>25 DEF GiveUpAttempts, Mine, TypeInv, TypeOK, Handles, PinInv, PinRow,
        Misplaced, Continues, Terminal
<1>26. ASSUME NEW s \in Schedulers, ProveAbsent(s) PROVE PinRow'
  <2>1. CASE RequeueClaim(s) /\ handle.state \in {"claimed", "dispatched"}
    <3>1. UNCHANGED <<job, owed>>
      BY <1>26 DEF ProveAbsent
    <3>2. CASE handle'.msg = handle.msg /\ UNCHANGED bubble
      BY <2>1, <3>1, <3>2 DEF PinInv, PinRow, Misplaced, Terminal
    <3> QED BY <2>1, <3>1, <3>2, FailPinned, RequeueTells DEF NarratorInv
  <2>2. CASE UNCHANGED <<handle, bubble, job, owed>>
    BY <2>2 DEF PinInv, PinRow, Misplaced, Continues
  <2> QED BY <1>26, <2>1, <2>2 DEF ProveAbsent, Mine
<1>27. CASE UNCHANGED <<handle, job, owed, bubble>>
  BY <1>27 DEF PinInv, PinRow, Misplaced, Continues
<1> QED BY <1>1, <1>2, <1>3, <1>4, <1>5, <1>6, <1>7, <1>8, <1>9, <1>10, <1>11, <1>12,
       <1>13, <1>14, <1>15, <1>16, <1>17, <1>18, <1>19, <1>20, <1>21, <1>22, <1>23,
       <1>24, <1>25, <1>26, <1>27, HandleChanges, BubbleChanges

\* A single scheduler that neither publishes nor records has nothing to keep.
LEMMA Elsewhere ==
  ASSUME Alone, NEW s \in Schedulers, sch'[s].pc \notin {"pin", "stamp", "attach", "record"}
  PROVE  PinWork'
<1>1. \A u \in Schedulers : u = s
  BY DEF Alone
<1> QED BY <1>1 DEF PinWork

\* ConversationalPublish: what is stamped is the pin.
LEMMA PinWorkStep ==
  ASSUME Kind = "media", Alone, TypeInv, PinInv, [Next]_vars
  PROVE  PinWork'
<1>1. CASE EarlyMessage \/ SourceTurnEnds \/ SaveReply \/ ApiDies \/ JobEnds
  BY <1>1 DEF EarlyMessage, SourceTurnEnds, SaveReply, ApiDies, JobEnds, PinInv,
        PinWork, Misplaced, Alone, TypeInv, TypeOK, SchTyped, Work, Handles, Bubbles
<1>2. CASE WorkerRecords
  <2>1. handle'.msg = handle.msg /\ UNCHANGED <<bubble, sch>>
    BY <1>2 DEF WorkerRecords, RecordCompletion, TypeInv, TypeOK, Handles
  <2> QED BY <2>1 DEF PinInv, PinWork, Misplaced
<1>3. CASE Observe
  <2>1. handle'.msg = handle.msg /\ UNCHANGED <<bubble, sch>>
    BY <1>3 DEF Observe, NarrateInline, TypeInv, TypeOK, Handles
  <2> QED BY <2>1 DEF PinInv, PinWork, Misplaced
<1>4. CASE SubscribePending
  <2>1. handle'.msg = handle.msg /\ UNCHANGED <<bubble, sch>>
    BY <1>4 DEF SubscribePending, NarrateInline, TypeInv, TypeOK, Handles
  <2> QED BY <2>1 DEF PinInv, PinWork, Misplaced
<1>5. CASE FinalizePersisted
  <2>1. (\E outcome : FinalizeSourceTurn(outcome)) /\ UNCHANGED <<bubble, sch>>
    BY <1>5 DEF FinalizePersisted
  <2> QED BY <2>1, FinalizeTyped DEF PinInv, PinWork, Misplaced
<1>6. CASE FinalizeFailed
  <2>1. (\E outcome : FinalizeSourceTurn(outcome)) /\ UNCHANGED <<bubble, sch>>
    BY <1>6 DEF FinalizeFailed
  <2> QED BY <2>1, FinalizeTyped DEF PinInv, PinWork, Misplaced
<1>7. CASE SweepSourceTurn
  <2>1. (\E outcome : FinalizeSourceTurn(outcome)) /\ UNCHANGED <<bubble, sch>>
    BY <1>7 DEF SweepSourceTurn
  <2> QED BY <2>1, FinalizeTyped DEF PinInv, PinWork, Misplaced
<1>8. CASE ClaimExpires
  <2>1. handle'.msg = handle.msg /\ UNCHANGED <<bubble, sch>>
    BY <1>8 DEF ClaimExpires, TypeInv, TypeOK, Handles
  <2> QED BY <2>1 DEF PinInv, PinWork, Misplaced
<1>9. CASE PersistResult
  BY <1>9 DEF PersistResult, PinInv, PinWork, Misplaced, Alone, TypeInv, TypeOK,
        SchTyped, Work, Handles, Bubbles
<1>10. CASE PersistFailure
  BY <1>10 DEF PersistFailure, PinInv, PinWork, Misplaced, Alone, TypeInv, TypeOK,
        SchTyped, Work, Handles, Bubbles
<1>11. CASE Return
  <2>1. UNCHANGED <<handle, bubble>>
    BY <1>11 DEF Return
  <2>2. CASE UNCHANGED sch
    BY <2>1, <2>2 DEF PinInv, PinWork, Misplaced
  <2>3. CASE ~ UNCHANGED sch
    <3>1. PICK x, pc, got : pc \in {"mark", "inspect", "release"} /\ Answer(x, pc, got)
      BY <1>11, <2>3 DEF Return
    <3>2. \A s \in Schedulers : sch'[s] = sch[s] \/ sch'[s].pc \notin {"pin", "stamp", "attach", "record"}
      BY <3>1 DEF Answer, TypeInv, SchTyped, Work
    <3> QED BY <2>1, <3>2 DEF PinInv, PinWork, Misplaced
  <2> QED BY <2>2, <2>3
<1>12. CASE HandlerDies
  <2>1. UNCHANGED <<handle, bubble>>
    BY <1>12 DEF HandlerDies
  <2>2. CASE UNCHANGED sch
    BY <2>1, <2>2 DEF PinInv, PinWork, Misplaced
  <2>3. CASE ~ UNCHANGED sch
    <3>1. PICK x, pc, got : pc \in {"mark", "inspect", "release"} /\ Answer(x, pc, got)
      BY <1>12, <2>3 DEF HandlerDies
    <3>2. \A s \in Schedulers : sch'[s] = sch[s] \/ sch'[s].pc \notin {"pin", "stamp", "attach", "record"}
      BY <3>1 DEF Answer, TypeInv, SchTyped, Work
    <3> QED BY <2>1, <3>2 DEF PinInv, PinWork, Misplaced
  <2> QED BY <2>2, <2>3
<1>13. CASE OrphanReceipt
  BY <1>13 DEF OrphanReceipt, PinInv, PinWork, Misplaced, Alone, TypeInv, TypeOK,
        SchTyped, Work, Handles, Bubbles
<1>14. ASSUME NEW t \in Tokens, CheckReplay(t) PROVE PinWork'
  <2>1. UNCHANGED <<handle, bubble>>
    BY <1>14 DEF CheckReplay
  <2>2. CASE UNCHANGED sch
    BY <2>1, <2>2 DEF PinInv, PinWork, Misplaced
  <2>3. CASE ~ UNCHANGED sch
    <3>1. PICK x, pc, got : pc \in {"mark", "inspect", "release"} /\ Answer(x, pc, got)
      BY <1>14, <2>3 DEF CheckReplay, Replay
    <3>2. \A s \in Schedulers : sch'[s] = sch[s] \/ sch'[s].pc \notin {"pin", "stamp", "attach", "record"}
      BY <3>1 DEF Answer, TypeInv, SchTyped, Work
    <3> QED BY <2>1, <3>2 DEF PinInv, PinWork, Misplaced
  <2> QED BY <2>2, <2>3
<1>15. ASSUME NEW t \in Tokens, Accept(t) PROVE PinWork'
  <2>1. UNCHANGED <<handle, bubble>>
    BY <1>15 DEF Accept
  <2>2. CASE UNCHANGED sch
    BY <2>1, <2>2 DEF PinInv, PinWork, Misplaced
  <2>3. CASE ~ UNCHANGED sch
    <3>1. PICK x, pc, got : pc \in {"mark", "inspect", "release"} /\ Answer(x, pc, got)
      BY <1>15, <2>3 DEF Accept, Replay
    <3>2. \A s \in Schedulers : sch'[s] = sch[s] \/ sch'[s].pc \notin {"pin", "stamp", "attach", "record"}
      BY <3>1 DEF Answer, TypeInv, SchTyped, Work
    <3> QED BY <2>1, <3>2 DEF PinInv, PinWork, Misplaced
  <2> QED BY <2>2, <2>3
<1>16. ASSUME NEW s \in Schedulers, ListOpen(s) PROVE PinWork'
  BY <1>16 DEF ListOpen, PinRow, Terminal, PinInv, PinWork, Misplaced, Alone, TypeInv,
        TypeOK, SchTyped, Work, Handles, Bubbles
<1>17. ASSUME NEW s \in Schedulers, ClaimReadyHead(s) PROVE PinWork'
  <2>1. sch'[s].pc \notin {"pin", "stamp", "attach", "record"}
    BY <1>17 DEF ClaimReadyHead, TypeInv, SchTyped, Work
  <2> QED BY <2>1, Elsewhere
<1>18. ASSUME NEW s \in Schedulers, ReconcileExpired(s) PROVE PinWork'
  <2>1. sch'[s].pc \notin {"pin", "stamp", "attach", "record"}
    BY <1>18 DEF ReconcileExpired, TypeInv, SchTyped, Work
  <2> QED BY <2>1, Elsewhere
<1>19. ASSUME NEW s \in Schedulers, RecordListed(s) PROVE PinWork'
  <2>1. sch'[s].pc \notin {"pin", "stamp", "attach", "record"}
    BY <1>19 DEF RecordListed, TypeInv, SchTyped, Work
  <2> QED BY <2>1, Elsewhere
<1>20. ASSUME NEW s \in Schedulers, Validate(s) PROVE PinWork'
  <2>1. sch'[s].pc \notin {"pin", "stamp", "attach", "record"}
    BY <1>20 DEF Validate, TypeInv, SchTyped, Work
  <2> QED BY <2>1, Elsewhere
<1>21. ASSUME NEW s \in Schedulers, Gate(s) PROVE PinWork'
  <2>1. sch'[s].pc \notin {"pin", "stamp", "attach", "record"}
    BY <1>21 DEF Gate, TypeInv, SchTyped, Work
  <2> QED BY <2>1, Elsewhere
<1>22. ASSUME NEW s \in Schedulers, Call(s) PROVE PinWork'
  <2>1. sch'[s].pc \notin {"pin", "stamp", "attach", "record"}
    BY <1>22 DEF Call, TypeInv, SchTyped, Work
  <2> QED BY <2>1, Elsewhere
<1>23. ASSUME NEW s \in Schedulers, Release(s) PROVE PinWork'
  <2>1. sch'[s].pc \notin {"pin", "stamp", "attach", "record"}
    BY <1>23 DEF Release, TypeInv, SchTyped, Work
  <2> QED BY <2>1, Elsewhere
<1>24. ASSUME NEW s \in Schedulers, Inspect(s) PROVE PinWork'
  <2>1. sch'[s].pc \notin {"pin", "stamp", "attach", "record"}
    BY <1>24 DEF Inspect, TypeInv, SchTyped, Work
  <2> QED BY <2>1, Elsewhere
<1>25. ASSUME NEW s \in Schedulers, MarkDispatched(s) PROVE PinWork'
  <2>1. sch'[s].pc \notin {"pin", "stamp", "attach", "record"}
    BY <1>25 DEF MarkDispatched, TypeInv, SchTyped, Work
  <2> QED BY <2>1, Elsewhere
<1>26. ASSUME NEW s \in Schedulers, Publish(s) PROVE PinWork'
  BY <1>26 DEF Publish, Unattached, PinInv, PinWork, Misplaced, Alone, TypeInv, TypeOK,
        SchTyped, Work, Handles, Bubbles
<1>27. ASSUME NEW s \in Schedulers, Pin(s) PROVE PinWork'
  BY <1>27 DEF Pin, PinInv, PinWork, Misplaced, Alone, TypeInv, TypeOK, SchTyped, Work,
        Handles, Bubbles
<1>28. ASSUME NEW s \in Schedulers, Stamp(s) PROVE PinWork'
  BY <1>28 DEF Stamp, Unattached, PinInv, PinWork, Misplaced, Alone, TypeInv, TypeOK,
        SchTyped, Work, Handles, Bubbles
<1>29. ASSUME NEW s \in Schedulers, Attach(s) PROVE PinWork'
  BY <1>29 DEF Attach, PinInv, PinWork, Misplaced, Alone, TypeInv, TypeOK, SchTyped,
        Work, Handles, Bubbles
<1>30. ASSUME NEW s \in Schedulers, Outcome(s) PROVE PinWork'
  <2>1. sch'[s].pc \notin {"pin", "stamp", "attach", "record"}
    BY <1>30 DEF Outcome, TypeInv, SchTyped, Work
  <2> QED BY <2>1, Elsewhere
<1>31. ASSUME NEW s \in Schedulers, PersistOutput(s) PROVE PinWork'
  <2>1. sch'[s].pc \notin {"pin", "stamp", "attach", "record"}
    BY <1>31 DEF PersistOutput, TypeInv, SchTyped, Work
  <2> QED BY <2>1, Elsewhere
<1>32. ASSUME NEW s \in Schedulers, ClaimAttempt(s) PROVE PinWork'
  <2>1. sch'[s].pc \notin {"pin", "stamp", "attach", "record"}
    BY <1>32 DEF ClaimAttempt, AfterAttempt, TypeInv, SchTyped, Work
  <2> QED BY <2>1, Elsewhere
<1>33. ASSUME NEW s \in Schedulers, Send(s) PROVE PinWork'
  <2>1. sch'[s].pc \notin {"pin", "stamp", "attach", "record"}
    BY <1>33 DEF Send, TypeInv, SchTyped, Work
  <2> QED BY <2>1, Elsewhere
<1>34. ASSUME NEW s \in Schedulers, SettleAttempt(s) PROVE PinWork'
  <2>1. sch'[s].pc \notin {"pin", "stamp", "attach", "record"}
    BY <1>34 DEF SettleAttempt, AfterAttempt, TypeInv, SchTyped, Work
  <2> QED BY <2>1, Elsewhere
<1>35. ASSUME NEW s \in Schedulers, CheckAttempts(s) PROVE PinWork'
  <2>1. sch'[s].pc \notin {"pin", "stamp", "attach", "record"}
    BY <1>35 DEF CheckAttempts, TypeInv, SchTyped, Work
  <2> QED BY <2>1, Elsewhere
<1>36. ASSUME NEW s \in Schedulers, CompleteClaim(s) PROVE PinWork'
  <2>1. sch'[s].pc \notin {"pin", "stamp", "attach", "record"}
    BY <1>36 DEF CompleteClaim, TypeInv, SchTyped, Work
  <2> QED BY <2>1, Elsewhere
<1>37. ASSUME NEW s \in Schedulers, FailClaim(s) PROVE PinWork'
  <2>1. sch'[s].pc \notin {"pin", "stamp", "attach", "record"}
    BY <1>37 DEF FailClaim, TypeInv, SchTyped, Work
  <2> QED BY <2>1, Elsewhere
<1>38. ASSUME NEW s \in Schedulers, ClaimNotice(s) PROVE PinWork'
  <2>1. sch'[s].pc \notin {"pin", "stamp", "attach", "record"}
    BY <1>38 DEF ClaimNotice, TypeInv, SchTyped, Work
  <2> QED BY <2>1, Elsewhere
<1>39. ASSUME NEW s \in Schedulers, SendNotice(s) PROVE PinWork'
  <2>1. sch'[s].pc \notin {"pin", "stamp", "attach", "record"}
    BY <1>39 DEF SendNotice, TypeInv, SchTyped, Work
  <2> QED BY <2>1, Elsewhere
<1>40. ASSUME NEW s \in Schedulers, SettleNotice(s) PROVE PinWork'
  <2>1. sch'[s].pc \notin {"pin", "stamp", "attach", "record"}
    BY <1>40 DEF SettleNotice, TypeInv, SchTyped, Work
  <2> QED BY <2>1, Elsewhere
<1>41. ASSUME NEW s \in Schedulers, Requeue(s) PROVE PinWork'
  <2>1. sch'[s].pc \notin {"pin", "stamp", "attach", "record"}
    BY <1>41 DEF Requeue, RequeueClaim, TypeInv, SchTyped, Work
  <2> QED BY <2>1, Elsewhere
<1>42. ASSUME NEW s \in Schedulers, GiveUpAttempts(s) PROVE PinWork'
  <2>1. sch'[s].pc \notin {"pin", "stamp", "attach", "record"}
    BY <1>42 DEF GiveUpAttempts, TypeInv, SchTyped, Work
  <2> QED BY <2>1, Elsewhere
<1>43. ASSUME NEW s \in Schedulers, LookUpReceipt(s) PROVE PinWork'
  <2>1. sch'[s].pc \notin {"pin", "stamp", "attach", "record"}
    BY <1>43 DEF LookUpReceipt, TypeInv, SchTyped, Work, TypeOK
  <2> QED BY <2>1, Elsewhere
<1>44. ASSUME NEW s \in Schedulers, ProveAbsent(s) PROVE PinWork'
  <2>1. sch'[s].pc \notin {"pin", "stamp", "attach", "record"}
    BY <1>44 DEF ProveAbsent, RequeueClaim, TypeInv, SchTyped, Work
  <2> QED BY <2>1, Elsewhere
<1>45. ASSUME NEW s \in Schedulers, Crash(s) PROVE PinWork'
  <2>1. sch'[s].pc \notin {"pin", "stamp", "attach", "record"}
    BY <1>45 DEF Crash, TypeInv, SchTyped, Work
  <2> QED BY <2>1, Elsewhere
<1>46. ASSUME NEW s \in Schedulers, LoseLock(s) PROVE PinWork'
  <2>1. sch'[s].pc \notin {"pin", "stamp", "attach", "record"}
    BY <1>46 DEF LoseLock, TypeInv, SchTyped, Work
  <2> QED BY <2>1, Elsewhere
<1>47. ASSUME NEW s \in Schedulers, Throws(s) PROVE PinWork'
  <2>1. sch'[s].pc \notin {"pin", "stamp", "attach", "record"}
    BY <1>47 DEF Throws, TypeInv, SchTyped, Work
  <2> QED BY <2>1, Elsewhere
<1>48. ASSUME NEW s \in Schedulers, PublishThrows(s) PROVE PinWork'
  <2>1. sch'[s].pc \notin {"pin", "stamp", "attach", "record"}
    BY <1>48 DEF PublishThrows, TypeInv, SchTyped, Work
  <2> QED BY <2>1, Elsewhere
<1>49. ASSUME NEW s \in Schedulers, GiveUpCall(s) PROVE PinWork'
  <2>1. sch'[s].pc \notin {"pin", "stamp", "attach", "record"}
    BY <1>49 DEF GiveUpCall, TypeInv, SchTyped, Work
  <2> QED BY <2>1, Elsewhere
<1>50. CASE UNCHANGED vars
  BY <1>50 DEF vars, PinInv, PinWork, Misplaced, Alone, TypeInv, TypeOK, SchTyped, Work,
        Handles, Bubbles
<1> QED BY <1>1, <1>2, <1>3, <1>4, <1>5, <1>6, <1>7, <1>8, <1>9, <1>10, <1>11, <1>12,
       <1>13, <1>14, <1>15, <1>16, <1>17, <1>18, <1>19, <1>20, <1>21, <1>22, <1>23,
       <1>24, <1>25, <1>26, <1>27, <1>28, <1>29, <1>30, <1>31, <1>32, <1>33, <1>34,
       <1>35, <1>36, <1>37, <1>38, <1>39, <1>40, <1>41, <1>42, <1>43, <1>44, <1>45,
       <1>46, <1>47, <1>48, <1>49, <1>50 DEF Next, Chat, Runtime, Poll, Step, Disturb

-----------------------------------------------------------------------------
(* The theorems.                                                            *)

\* The invariant of every kind of job and any number of schedulers.
LEMMA BaseInvariant == Spec => [](TypeInv /\ NarratorInv /\ SendInv)
<1>1. Init => TypeInv /\ NarratorInv /\ SendInv
  <2> SUFFICES ASSUME Init PROVE NarratorInv /\ SendInv
    BY TypeInit
  <2>1. NarratorInv
    BY DEF Init, NarratorInv, Engaged, Accepted, DispatchedIsAccepted, Continues
  <2>2. SendInv
    BY DEF Init, SendInv, SentOnce, Sends
  <2> QED BY <2>1, <2>2
<1>2. TypeInv /\ NarratorInv /\ SendInv /\ [Next]_vars => (TypeInv /\ NarratorInv /\ SendInv)'
  BY TypeStep, NarratorStep, SendStep
<1> QED BY <1>1, <1>2, PTL DEF Spec

\* Every variable keeps its type; requeueClaim never overdraws ASYNC_CONTINUATION_MAX_RETRIES.
THEOREM TypeCorrect == Spec => []TypeOK
<1>1. TypeInv => TypeOK
  BY DEF TypeInv
<1> QED BY <1>1, BaseInvariant, PTL

\* claimDeliveryAttempt and claimFailedHandleExternalNotice: the files and the text reach
\* Telegram at most once, with any number of schedulers, crashes and expired claims.
THEOREM OneSend == Spec => []OneTelegramSend
<1>1. SendInv => OneTelegramSend
  BY DEF SendInv, SentOnce, OneTelegramSend
<1> QED BY <1>1, BaseInvariant, PTL

\* observeForCurrentTurn, subscribePending, finalizeSourceTurn: a result that a turn narrates
\* itself, or a handle at the depth limit, is never run nor sent by a continuation.
THEOREM NarratedByOne == Spec => []OneNarrator
<1>1. NarratorInv /\ TypeInv => OneNarrator
  BY DEF NarratorInv, Engaged, Continues, OneNarrator
<1> QED BY <1>1, BaseInvariant, PTL

\* markDispatched: a dispatched handle has a turn that the runtime accepted.
THEOREM DispatchAccepted == Spec => []DispatchedIsAccepted
<1>1. NarratorInv => DispatchedIsAccepted
  BY DEF NarratorInv, Accepted
<1> QED BY <1>1, BaseInvariant, PTL

\* persistOutputOnce and persistPermanentFailureMessage: a sandbox job adds one message,
\* however many schedulers narrate it or report its failure.
THEOREM OneMessage ==
  ASSUME Kind = "sandbox"
  PROVE  Spec => []OneBubble
<1>1. Init => SandboxInv
  BY DEF Init, SandboxInv, SandboxRow, SandboxWork, Publishing
<1>2. TypeInv /\ SandboxInv /\ [Next]_vars => SandboxInv'
  BY SandboxRowStep, SandboxWorkStep DEF SandboxInv
<1>3. SandboxInv => OneBubble
  BY DEF SandboxInv, SandboxRow, OneBubble
<1> QED BY <1>1, <1>2, <1>3, BaseInvariant, PTL DEF Spec

\* ConversationalPublish and persistOutputOnce: while one scheduler works, a media or document
\* job is narrated in the message that holds its files, whatever fails in between.
THEOREM InPinned ==
  ASSUME Kind = "media", Alone
  PROVE  Spec => []NarratedInPinned
<1>1. Init => PinInv
  BY DEF Init, PinInv, PinRow, PinWork, Misplaced
<1>2. TypeInv /\ NarratorInv /\ PinInv /\ [Next]_vars => PinInv'
  BY PinRowStep, PinWorkStep DEF PinInv
<1>3. PinInv => NarratedInPinned
  BY DEF PinInv, PinRow, NarratedInPinned
<1> QED BY <1>1, <1>2, <1>3, BaseInvariant, PTL DEF Spec

=============================================================================
