---------------------------- MODULE AsyncCatchUp ----------------------------
(***************************************************************************)
(* The life of one asynchronous job handle of a Telegram chat in apps/api: *)
(* a turn starts a job, observes it or subscribes to it, ends; the job     *)
(* ends; AssistantAsyncJobContinuationSchedulerService claims the handle,  *)
(* has the runtime narrate the result under the idempotency key            *)
(* "async-cont:<handle>", publishes, persists and sends the narration, or  *)
(* tells the user that it failed.                                          *)
(*                                                                         *)
(* Every action is one transaction on the handle row or one round trip to  *)
(* the runtime or to Telegram.  Several schedulers run at once, as they do *)
(* when a scheduler lease or a chat lock lapses: the row alone arbitrates. *)
(* The runtime accepts a key once (RuntimeTurn, AsyncRunsOnce).            *)
(***************************************************************************)
EXTENDS Naturals, FiniteSets

CONSTANTS
    Schedulers,   \* replicas of the continuation scheduler
    Tokens,       \* claim tokens; the request of a claim is named by its token
    Kind,         \* "sandbox", or "media" for media and document jobs
    JobOutcomes,  \* how the job may end
    MaxRetries,   \* ASYNC_CONTINUATION_MAX_RETRIES
    MaxMessages,  \* bound: messages the handle may add to the chat
    MaxFaults,    \* bound: crashes, lost requests, lost locks, errors, refusals
    None          \* no token

Terminal == {"completed", "failed", "cancelled"}
Attempts == {"artifacts", "external"}

\* Receipts of status failed; "orphaned" is errorCode orphan_reconciled.
Lost == {"failed", "orphaned"}

ASSUME CatchUpAssumption ==
    /\ Kind \in {"sandbox", "media"}
    /\ JobOutcomes \subseteq Terminal
    /\ MaxRetries \in Nat \ {0} /\ MaxMessages \in Nat \ {0} /\ MaxFaults \in Nat
    /\ None \notin Tokens

VARIABLES
    handle,  \* the assistant_async_job_handles row; deep: it is at the depth limit
    job,     \* status of the canonical job
    owed,    \* a media or document worker still has to record the end of its job
    source,  \* the turn that started the job: runtime receipt, API handler, message
    run,     \* the runtime's turn under the continuation key: its receipt, its handler
    call,    \* call[t]: where the dispatch request of token t stands
    bubble,  \* messages added to the chat; pin and attachments of the job's own one
    sent,    \* sent[k]: how often the narration's files, its text, went to Telegram (2: or more)
    sch,     \* sch[s]: what scheduler s is doing
    faults   \* faults left

userVars == <<job, owed, source>>
vars == <<handle, userVars, run, call, bubble, sent, sch, faults>>

Idle == [pc |-> "idle", role |-> "none", tok |-> None, got |-> "none", doing |-> "none", msg |-> 0]

Init ==
    /\ \E deep \in BOOLEAN :
          handle = [state |-> "none", owner |-> "none", final |-> FALSE, snap |-> FALSE,
                    deep |-> deep, token |-> None, expired |-> FALSE, retries |-> 0, msg |-> 0,
                    attempt |-> [k \in Attempts |-> "none"]]
    /\ job = "running"
    /\ owed = FALSE
    /\ source = [turn |-> "running", api |-> "turn", saved |-> FALSE]
    /\ run = [status |-> "absent", req |-> None, pc |-> "gone", replied |-> FALSE]
    /\ call = [t \in Tokens |-> "none"]
    /\ bubble = [made |-> 0, pin |-> 0, attached |-> "none", narrated |-> FALSE]
    /\ sent = [k \in Attempts |-> 0]
    /\ sch = [s \in Schedulers |-> Idle]
    /\ faults = MaxFaults

Fault == faults > 0 /\ faults' = faults - 1

-----------------------------------------------------------------------------
(* The job, the turns of the chat and the handle row.                       *)

\* recordCanonicalCompletion.  owner "exhausted" is owner continuation with
\* decision continuation_depth_exhausted.
RecordCompletion ==
    LET heal == handle.owner = "none" /\ handle.final
        wake == handle.state # "failed" /\ (handle.owner = "continuation" \/ heal)
    IN  handle' = [handle EXCEPT !.snap = TRUE,
                                 !.owner = IF heal THEN "continuation" ELSE @,
                                 !.state = IF wake THEN "ready" ELSE job]

JobEnds ==
    /\ job = "running"
    /\ job' \in JobOutcomes
    /\ owed' = (Kind # "sandbox")
    /\ UNCHANGED <<handle, source, run, call, bubble, sent, sch, faults>>

\* The worker records the end of its job in a second transaction, or dies
\* before it.
WorkerRecords ==
    /\ owed
    /\ owed' = FALSE
    /\ \/ RecordCompletion /\ UNCHANGED faults
       \/ Fault /\ UNCHANGED handle
    /\ UNCHANGED <<job, source, run, call, bubble, sent, sch>>

\* The turn that looks narrates the result itself.
NarrateInline ==
    handle' = [handle EXCEPT !.owner = "current", !.snap = TRUE, !.state = job]

\* mutant: the owner is not looked at.
ObserveAnyOwner ==
    /\ job # "running" /\ NarrateInline
    /\ UNCHANGED <<userVars, run, call, bubble, sent, sch, faults>>

\* observeForCurrentTurn: await.wait or status of a turn in the chat.
Observe ==
    /\ job # "running"
    /\ \/ handle.owner = "none" /\ NarrateInline
       \/ /\ handle.owner = "continuation" /\ handle.state = "subscribed"
          /\ handle' = [handle EXCEPT !.snap = TRUE, !.state = "ready"]
    /\ UNCHANGED <<userVars, run, call, bubble, sent, sch, faults>>

\* subscribePending: await.notify.
SubscribePending ==
    /\ handle.owner = "none"
    /\ \/ job # "running" /\ NarrateInline
       \/ /\ job = "running"
          /\ handle' = IF handle.deep
                       THEN [handle EXCEPT !.owner = "exhausted", !.state = "failed"]
                       ELSE [handle EXCEPT !.owner = "continuation", !.state = "subscribed"]
    /\ UNCHANGED <<userVars, run, call, bubble, sent, sch, faults>>

\* mutant: handles that nobody claimed get the historical owner.
FinalizeAsLegacy(outcome) ==
    handle' = [handle EXCEPT !.final = TRUE, !.owner = IF @ = "none" THEN "legacy" ELSE @]

\* finalizeSourceTurn: an unclaimed handle becomes a continuation; one that the
\* turn narrated inline is left alone.
FinalizeSourceTurn(outcome) ==
    LET ended == handle.snap /\ handle.state \in Terminal
        released == \/ handle.owner = "none"
                    \/ handle.owner = "current" /\ outcome # "persisted" /\ ~ ended
        final == [handle EXCEPT !.final = TRUE]
    IN  handle' = IF ~ released THEN final
                  ELSE IF handle.deep
                  THEN [final EXCEPT !.owner = "exhausted", !.state = "failed"]
                  ELSE [final EXCEPT
                          !.owner = "continuation",
                          !.state = IF ended THEN "ready"
                                    ELSE IF @ = "none" THEN "subscribed" ELSE @]

\* The first event of the turn creates its assistant message.
EarlyMessage ==
    /\ source.api = "turn" /\ source.turn = "running" /\ ~ source.saved
    /\ source' = [source EXCEPT !.saved = TRUE]
    /\ UNCHANGED <<handle, job, owed, run, call, bubble, sent, sch, faults>>

SourceTurnEnds ==
    /\ source.turn = "running"
    /\ \E status \in {"completed", "failed"} : source' = [source EXCEPT !.turn = status]
    /\ UNCHANGED <<handle, job, owed, run, call, bubble, sent, sch, faults>>

\* The API handler of the turn saves the reply and then finalizes the turn.
SaveReply ==
    /\ source.api = "turn" /\ source.turn = "completed"
    /\ source' = [source EXCEPT !.saved = TRUE, !.api = "finalize"]
    /\ UNCHANGED <<handle, job, owed, run, call, bubble, sent, sch, faults>>

FinalizePersisted ==
    /\ source.api = "finalize"
    /\ source' = [source EXCEPT !.api = "gone"]
    /\ FinalizeSourceTurn("persisted")
    /\ UNCHANGED <<job, owed, run, call, bubble, sent, sch, faults>>

\* Its catch, also when it gave up on a turn that still runs.
FinalizeFailed ==
    /\ source.api \in {"turn", "finalize"}
    /\ source' = [source EXCEPT !.api = "gone"]
    /\ FinalizeSourceTurn("failed")
    /\ UNCHANGED <<job, owed, run, call, bubble, sent, sch, faults>>

ApiDies ==
    /\ Fault
    /\ source.api # "gone"
    /\ source' = [source EXCEPT !.api = "gone"]
    /\ UNCHANGED <<handle, job, owed, run, call, bubble, sent, sch>>

\* reconcileUnfinalizedSourceTurns, two minutes after the last update of the
\* row.  The sandbox sweep touches pending rows every poll.
SweepSourceTurn ==
    /\ ~ handle.final
    /\ Kind = "sandbox" => handle.state \notin {"none", "subscribed"}
    /\ \/ source.saved /\ FinalizeSourceTurn("persisted")
       \/ ~ source.saved /\ source.turn = "failed" /\ FinalizeSourceTurn("failed")
    /\ UNCHANGED <<userVars, run, call, bubble, sent, sch, faults>>

-----------------------------------------------------------------------------
(* Schedulers.  role "claim" processes its own claim; role "recon" settles   *)
(* an expired claim under the token of the row.                             *)

At(s, pc) == sch[s].pc = pc
GoesTo(s, pc) == sch' = [sch EXCEPT ![s].pc = pc]
Quits(s) == sch' = [sch EXCEPT ![s] = Idle]

\* The row still carries the token of s, in one of the states given.
Mine(s, states) == handle.token = sch[s].tok /\ handle.state \in states

InUse(t) ==
    \/ handle.token = t /\ handle.state \in {"claimed", "dispatched"}
    \/ run.req = t \/ call[t] # "none"
    \/ \E s \in Schedulers : sch[s].tok = t

\* reconcileSubscribed...Handles: open rows are listed, the job is read, then
\* the completion is recorded.
ListOpen(s) ==
    /\ At(s, "idle") /\ handle.state \in {"none", "subscribed"}
    /\ GoesTo(s, "record")
    /\ UNCHANGED <<handle, userVars, run, call, bubble, sent, faults>>

RecordListed(s) ==
    /\ At(s, "record") /\ Quits(s)
    /\ IF job = "running" THEN UNCHANGED handle ELSE RecordCompletion
    /\ UNCHANGED <<userVars, run, call, bubble, sent, faults>>

\* claimReadyHeadForChat.
ClaimReadyHead(s) ==
    LET fresh == {t \in Tokens : ~ InUse(t)}
        t == CHOOSE x \in fresh : TRUE
    IN
    /\ At(s, "idle") /\ fresh # {}
    /\ handle.state = "ready" /\ handle.final /\ handle.retries < MaxRetries
    /\ handle' = [handle EXCEPT !.state = "claimed", !.token = t, !.expired = FALSE]
    /\ sch' = [sch EXCEPT ![s] = [Idle EXCEPT !.pc = "held", !.role = "claim", !.tok = t]]
    /\ UNCHANGED <<userVars, run, call, bubble, sent, faults>>

\* loadAndValidateContext: null fails the claim.
Validate(s) ==
    /\ At(s, "held")
    /\ \/ /\ handle.state \in {"claimed", "dispatched"}
          /\ GoesTo(s, IF sch[s].role = "claim" THEN "gate"
                       ELSE IF sch[s].got = "completed" THEN "output" ELSE "proof")
       \/ GoesTo(s, "fail")
    /\ UNCHANGED <<handle, userVars, run, call, bubble, sent, faults>>

\* admitCatchUpAtBoundary: refused while a user turn is open or just ended.
Gate(s) ==
    /\ At(s, "gate")
    /\ \/ GoesTo(s, "call") /\ UNCHANGED faults
       \/ GoesTo(s, "release") /\ Fault
    /\ UNCHANGED <<handle, userVars, run, call, bubble, sent>>

Call(s) ==
    /\ At(s, "call") /\ GoesTo(s, "await")
    /\ call' = [call EXCEPT ![sch[s].tok] = "sent"]
    /\ UNCHANGED <<handle, userVars, run, bubble, sent, faults>>

\* releaseClaimToReady.
Release(s) ==
    /\ At(s, "release") /\ Quits(s)
    /\ handle' = IF Mine(s, {"claimed"})
                 THEN [handle EXCEPT !.state = "ready", !.token = None, !.expired = FALSE]
                 ELSE handle
    /\ UNCHANGED <<userVars, run, call, bubble, sent, faults>>

\* mutant: an unclear answer counts as acceptance.
InspectOptimistically(s) ==
    /\ At(s, "inspect") /\ GoesTo(s, "mark")
    /\ UNCHANGED <<handle, userVars, run, call, bubble, sent, faults>>

\* inspect, in reconcileLockLostClaim and after an ambiguous dispatch: released
\* if the runtime proves that the key was never accepted, otherwise failed.
Inspect(s) ==
    /\ At(s, "inspect")
    /\ \/ GoesTo(s, IF run.status = "absent" THEN "release" ELSE "fail") /\ UNCHANGED faults
       \/ GoesTo(s, "fail") /\ Fault
    /\ UNCHANGED <<handle, userVars, run, call, bubble, sent>>

\* markDispatched.
MarkDispatched(s) ==
    /\ At(s, "mark")
    /\ IF Mine(s, {"claimed"})
       THEN /\ handle' = [handle EXCEPT !.state = "dispatched", !.expired = FALSE]
            /\ GoesTo(s, IF Kind = "sandbox" THEN "outcome" ELSE "publish")
       ELSE Quits(s) /\ UNCHANGED handle
    /\ UNCHANGED <<userVars, run, call, bubble, sent, faults>>

-----------------------------------------------------------------------------
(* ConversationalPublish: create the message, pin it on the job, stamp it on *)
(* the handle, attach the artifacts.                                        *)

\* A job that ended well has artifacts; they are not attached yet.
Unattached == job = "completed" /\ bubble.attached = "none"

Publish(s) ==
    /\ At(s, "publish")
    /\ \/ /\ bubble.pin = 0 /\ bubble.made < MaxMessages
          /\ bubble' = [bubble EXCEPT !.made = @ + 1]
          /\ sch' = [sch EXCEPT ![s].pc = "pin", ![s].msg = bubble.made + 1]
       \/ /\ bubble.pin # 0
          /\ sch' = [sch EXCEPT ![s].pc = IF Unattached THEN "attach" ELSE "stamp",
                                ![s].msg = bubble.pin]
          /\ UNCHANGED bubble
    /\ UNCHANGED <<handle, userVars, run, call, sent, faults>>

\* mutant: the message is not pinned on the job.
LeaveUnpinned(s) ==
    /\ At(s, "pin") /\ GoesTo(s, "stamp")
    /\ UNCHANGED <<handle, userVars, run, call, bubble, sent, faults>>

Pin(s) ==
    /\ At(s, "pin") /\ GoesTo(s, "stamp")
    /\ bubble' = [bubble EXCEPT !.pin = sch[s].msg]
    /\ UNCHANGED <<handle, userVars, run, call, sent, faults>>

\* stampHandleMessageIds does not look at the claim.
Stamp(s) ==
    /\ At(s, "stamp") /\ GoesTo(s, IF Unattached THEN "attach" ELSE "outcome")
    /\ handle' = [handle EXCEPT !.msg = sch[s].msg]
    /\ UNCHANGED <<userVars, run, call, bubble, sent, faults>>

\* deliver, or settlePinnedAttachFailure.
Attach(s) ==
    /\ At(s, "attach") /\ GoesTo(s, "stamp")
    /\ \E result \in {"attached", "failed"} : bubble' = [bubble EXCEPT !.attached = result]
    /\ UNCHANGED <<handle, userVars, run, call, sent, faults>>

PublishThrows(s) ==
    /\ Fault
    /\ sch[s].pc \in {"publish", "pin", "stamp", "attach"}
    /\ GoesTo(s, "fail")
    /\ UNCHANGED <<handle, userVars, run, call, bubble, sent>>

-----------------------------------------------------------------------------
(* Narration: persist it, send artifacts and text, complete the claim.      *)

\* mutant: every answer is taken for a result.
OutcomeUnchecked(s) ==
    /\ At(s, "outcome") /\ GoesTo(s, "output")
    /\ UNCHANGED <<handle, userVars, run, call, bubble, sent, faults>>

Outcome(s) ==
    /\ At(s, "outcome")
    /\ GoesTo(s, IF sch[s].got = "failed" THEN "fail" ELSE "output")
    /\ UNCHANGED <<handle, userVars, run, call, bubble, sent, faults>>

\* mutant: the message of an earlier attempt is not looked for.
PersistAnew(s) ==
    /\ At(s, "output") /\ bubble.made < MaxMessages + 1
    /\ handle' = [handle EXCEPT !.msg = bubble.made + 1]
    /\ bubble' = [bubble EXCEPT !.made = @ + 1, !.narrated = TRUE]
    /\ sch' = [sch EXCEPT ![s].pc = "attempt", ![s].doing = "artifacts"]
    /\ UNCHANGED <<userVars, run, call, sent, faults>>

\* persistOutputOnce: into the message of the handle, else of the job; a
\* sandbox job gets one of its own, any other kind throws.
PersistOutput(s) ==
    LET known == IF handle.msg # 0 THEN handle.msg ELSE bubble.pin IN
    /\ At(s, "output")
    /\ IF ~ Mine(s, {"dispatched"}) THEN Quits(s) /\ UNCHANGED <<handle, bubble>>
       ELSE IF known = 0 /\ Kind # "sandbox"
       THEN /\ IF sch[s].role = "claim" THEN GoesTo(s, "requeue") ELSE Quits(s)
            /\ UNCHANGED <<handle, bubble>>
       ELSE LET msg == IF known # 0 THEN known ELSE bubble.made + 1 IN
            /\ msg <= MaxMessages
            /\ handle' = [handle EXCEPT !.msg = msg]
            /\ bubble' = [bubble EXCEPT !.made = IF msg > @ THEN msg ELSE @, !.narrated = TRUE]
            /\ sch' = [sch EXCEPT ![s].pc = "attempt", ![s].doing = "artifacts"]
    /\ UNCHANGED <<userVars, run, call, sent, faults>>

AfterAttempt(s) ==
    sch' = IF sch[s].doing = "artifacts"
           THEN [sch EXCEPT ![s].pc = "attempt", ![s].doing = "external"]
           ELSE [sch EXCEPT ![s].pc = "complete", ![s].doing = "none"]

\* mutant: an attempt without a result is made again.
AttemptAgain(s) ==
    LET k == sch[s].doing IN
    /\ At(s, "attempt")
    /\ IF Mine(s, {"dispatched"}) /\ handle.attempt[k] # "settled"
       THEN handle' = [handle EXCEPT !.attempt[k] = "attempting"] /\ GoesTo(s, "send")
       ELSE AfterAttempt(s) /\ UNCHANGED handle
    /\ UNCHANGED <<userVars, run, call, bubble, sent, faults>>

\* claimDeliveryAttempt: at most one attempt of each kind, ever.
ClaimAttempt(s) ==
    LET k == sch[s].doing IN
    /\ At(s, "attempt")
    /\ IF Mine(s, {"dispatched"}) /\ handle.attempt[k] = "none"
       THEN handle' = [handle EXCEPT !.attempt[k] = "attempting"] /\ GoesTo(s, "send")
       ELSE AfterAttempt(s) /\ UNCHANGED handle
    /\ UNCHANGED <<userVars, run, call, bubble, sent, faults>>

OnceMore(k) == [sent EXCEPT ![k] = IF @ = 2 THEN 2 ELSE @ + 1]

\* Artifacts may not be needed; the text always is.
Send(s) ==
    LET k == sch[s].doing IN
    /\ At(s, "send") /\ GoesTo(s, "settle")
    /\ \/ sent' = OnceMore(k)
       \/ k = "artifacts" /\ UNCHANGED sent
    /\ UNCHANGED <<handle, userVars, run, call, bubble, faults>>

\* recordDeliveryAttemptResult: delivered, failed, ambiguous or not needed.
SettleAttempt(s) ==
    /\ At(s, "settle") /\ AfterAttempt(s)
    /\ handle' = IF Mine(s, {"dispatched"})
                 THEN [handle EXCEPT !.attempt[sch[s].doing] = "settled"] ELSE handle
    /\ UNCHANGED <<userVars, run, call, bubble, sent, faults>>

AllSettled == \A k \in Attempts : handle.attempt[k] = "settled"

\* mutant: an attempt of another scheduler is not waited for.
CheckToken(s) ==
    /\ At(s, "complete")
    /\ IF Mine(s, {"dispatched"}) THEN GoesTo(s, "finish") ELSE Quits(s)
    /\ UNCHANGED <<handle, userVars, run, call, bubble, sent, faults>>

\* deliveryAttemptsSettled.
CheckAttempts(s) ==
    /\ At(s, "complete")
    /\ IF Mine(s, {"dispatched"}) /\ AllSettled THEN GoesTo(s, "finish") ELSE Quits(s)
    /\ UNCHANGED <<handle, userVars, run, call, bubble, sent, faults>>

CompleteClaim(s) ==
    /\ At(s, "finish") /\ Quits(s)
    /\ handle' = IF Mine(s, {"claimed", "dispatched"})
                 THEN [handle EXCEPT !.state = "completed", !.token = None, !.expired = FALSE]
                 ELSE handle
    /\ UNCHANGED <<userVars, run, call, bubble, sent, faults>>

-----------------------------------------------------------------------------
(* Failure and retry.                                                       *)

\* persistPermanentFailureMessage: the known message, a new one, or none if the
\* artifacts were delivered or a sibling of the wave is still open.
FailWith(x) ==
    \E msg \in IF x.msg # 0 THEN {x.msg}
               ELSE {0} \cup (IF Kind # "sandbox" /\ job = "completed" THEN {} ELSE {bubble.made + 1}) :
        /\ msg <= MaxMessages
        /\ handle' = [x EXCEPT !.state = "failed", !.token = None, !.expired = FALSE, !.msg = msg]
        /\ bubble' = [bubble EXCEPT !.made = IF msg > @ THEN msg ELSE @]

\* settleDeliveredLocked applies: the artifacts are visible in a message.
Delivered == Kind # "sandbox" /\ job = "completed" /\ (bubble.pin # 0 \/ handle.msg # 0)

\* failClaim.
FailClaim(s) ==
    /\ At(s, "fail") /\ GoesTo(s, "notice")
    /\ LET mine == Mine(s, {"claimed", "dispatched"}) IN
       \/ /\ Delivered /\ (mine \/ handle.state = "failed")
          /\ handle' = [handle EXCEPT !.state = "completed", !.token = None, !.expired = FALSE,
                                      !.msg = IF bubble.pin # 0 THEN bubble.pin ELSE @]
          /\ UNCHANGED bubble
       \/ ~ Delivered /\ mine /\ FailWith(handle)
       \/ ~ mine /\ ~ (Delivered /\ handle.state = "failed") /\ UNCHANGED <<handle, bubble>>
    /\ UNCHANGED <<userVars, run, call, sent, faults>>

\* claimFailedHandleExternalNotice.
ClaimNotice(s) ==
    /\ At(s, "notice")
    /\ IF handle.state = "failed" /\ handle.msg # 0 /\ handle.attempt["external"] = "none"
       THEN handle' = [handle EXCEPT !.attempt["external"] = "attempting"] /\ GoesTo(s, "sendNotice")
       ELSE Quits(s) /\ UNCHANGED handle
    /\ UNCHANGED <<userVars, run, call, bubble, sent, faults>>

SendNotice(s) ==
    /\ At(s, "sendNotice") /\ GoesTo(s, "settleNotice")
    /\ sent' = OnceMore("external")
    /\ UNCHANGED <<handle, userVars, run, call, bubble, faults>>

SettleNotice(s) ==
    /\ At(s, "settleNotice") /\ Quits(s)
    /\ handle' = IF handle.state = "failed" /\ handle.attempt["external"] = "attempting"
                 THEN [handle EXCEPT !.attempt["external"] = "settled"] ELSE handle
    /\ UNCHANGED <<userVars, run, call, bubble, sent, faults>>

\* mutant: the budget is compared before this retry is counted.
RequeueOnceMore(s) ==
    LET tried == [handle EXCEPT !.retries = @ + 1] IN
    IF handle.retries >= MaxRetries THEN FailWith(tried) /\ GoesTo(s, "notice")
    ELSE /\ handle' = [tried EXCEPT !.state = "ready", !.token = None, !.expired = FALSE]
         /\ Quits(s) /\ UNCHANGED bubble

\* requeueClaim of a row that s may requeue.
RequeueClaim(s) ==
    LET tried == [handle EXCEPT !.retries = @ + 1] IN
    IF tried.retries >= MaxRetries THEN FailWith(tried) /\ GoesTo(s, "notice")
    ELSE /\ handle' = [tried EXCEPT !.state = "ready", !.token = None, !.expired = FALSE]
         /\ Quits(s) /\ UNCHANGED bubble

\* requeue: a dispatched row is left alone, its dispatch is ambiguous.
Requeue(s) ==
    /\ At(s, "requeue")
    /\ IF Mine(s, {"claimed"}) THEN RequeueClaim(s) ELSE Quits(s) /\ UNCHANGED <<handle, bubble>>
    /\ UNCHANGED <<userVars, run, call, sent, faults>>

-----------------------------------------------------------------------------
(* reconcileExpiredClaims.                                                  *)

ReconcileExpired(s) ==
    LET attempting == \E k \in Attempts : handle.attempt[k] = "attempting"
        pc == IF handle.state = "claimed" THEN "requeue"
              ELSE IF attempting THEN "giveUp"
              ELSE IF handle.msg # 0 /\ AllSettled THEN "finish" ELSE "lookup"
    IN
    /\ At(s, "idle") /\ handle.state \in {"claimed", "dispatched"} /\ handle.expired
    /\ sch' = [sch EXCEPT ![s] = [Idle EXCEPT !.pc = pc, !.role = "recon", !.tok = handle.token]]
    /\ UNCHANGED <<handle, userVars, run, call, bubble, sent, faults>>

\* settleExpiredDeliveryAttempts: ambiguous, never retried.
GiveUpAttempts(s) ==
    LET open == {k \in Attempts : handle.attempt[k] = "attempting"} IN
    /\ At(s, "giveUp")
    /\ IF Mine(s, {"dispatched"}) /\ open # {}
       THEN /\ handle' = [handle EXCEPT !.attempt =
                             [k \in Attempts |-> IF k \in open THEN "settled" ELSE @[k]]]
            /\ Quits(s)
       ELSE GoesTo(s, "lookup") /\ UNCHANGED handle
    /\ UNCHANGED <<userVars, run, call, bubble, sent, faults>>

\* The receipt of the dispatch request.
LookUpReceipt(s) ==
    LET status == IF run.req = sch[s].tok THEN run.status ELSE "absent" IN
    /\ At(s, "lookup")
    /\ CASE status = "running" -> Quits(s)
         [] status \in Lost -> GoesTo(s, "fail")
         [] OTHER -> sch' = [sch EXCEPT ![s].pc = "held", ![s].got = status]
    /\ UNCHANGED <<handle, userVars, run, call, bubble, sent, faults>>

\* requeueClaim with a dispatchedProof: no receipt of that request, and it is
\* not in flight.
ProveAbsent(s) ==
    LET absent == run.req # sch[s].tok
        inFlight == call[sch[s].tok] # "none"
    IN
    /\ At(s, "proof")
    /\ \/ absent /\ Mine(s, {"claimed", "dispatched"}) /\ RequeueClaim(s) /\ UNCHANGED faults
       \/ /\ ~ absent \/ inFlight \/ ~ Mine(s, {"claimed", "dispatched"})
          /\ Quits(s) /\ UNCHANGED <<handle, bubble, faults>>
       \/ Quits(s) /\ Fault /\ UNCHANGED <<handle, bubble>>
    /\ UNCHANGED <<userVars, run, call, sent>>

-----------------------------------------------------------------------------
(* What may go wrong for a scheduler.                                       *)

ClaimExpires ==
    /\ handle.state \in {"claimed", "dispatched"} /\ ~ handle.expired
    /\ handle' = [handle EXCEPT !.expired = TRUE]
    /\ UNCHANGED <<userVars, run, call, bubble, sent, sch, faults>>

Crash(s) ==
    /\ Fault
    /\ ~ At(s, "idle") /\ Quits(s)
    /\ UNCHANGED <<handle, userVars, run, call, bubble, sent>>

\* The chat lock is found lost at one of the checks.
LoseLock(s) ==
    /\ Fault
    /\ sch[s].role = "claim"
    /\ \/ sch[s].pc \in {"held", "call"} /\ GoesTo(s, "release")
       \/ sch[s].pc \in {"await", "mark", "outcome"} /\ GoesTo(s, "inspect")
       \/ At(s, "attempt") /\ sch[s].doing = "artifacts" /\ GoesTo(s, "inspect")
       \/ At(s, "finish") /\ Quits(s)
    /\ UNCHANGED <<handle, userVars, run, call, bubble, sent>>

\* The catch of processClaim.
Throws(s) ==
    /\ Fault
    /\ sch[s].role = "claim"
    /\ sch[s].pc \in {"held", "gate", "release", "inspect", "mark", "output", "attempt",
                      "settle", "complete", "finish", "fail", "notice", "settleNotice"}
    /\ GoesTo(s, "requeue")
    /\ UNCHANGED <<handle, userVars, run, call, bubble, sent>>

\* Timeout or connection error of execute: the request may have been lost on
\* its way, or go on without its caller.
GiveUpCall(s) ==
    /\ Fault
    /\ At(s, "await") /\ GoesTo(s, "inspect")
    /\ call' \in {call, [call EXCEPT ![sch[s].tok] = IF @ = "sent" THEN "none" ELSE @]}
    /\ UNCHANGED <<handle, userVars, run, bubble, sent>>

-----------------------------------------------------------------------------
(* The runtime: createAsyncContinuation.                                    *)

\* The answer reaches the scheduler that still waits for it.
Answer(t, pc, got) ==
    /\ call' = [call EXCEPT ![t] = "none"]
    /\ sch' = [s \in Schedulers |->
                 IF At(s, "await") /\ sch[s].tok = t
                 THEN [sch[s] EXCEPT !.pc = pc, !.got = got] ELSE sch[s]]

\* A settled key: its result, or a conflict.
Replay(t) ==
    IF run.status = "completed" THEN Answer(t, "mark", "completed") ELSE Answer(t, "inspect", "conflict")

\* findReplayAcceptedTurn.
CheckReplay(t) ==
    /\ call[t] = "sent"
    /\ IF run.status = "absent"
       THEN call' = [call EXCEPT ![t] = "checked"] /\ UNCHANGED sch
       ELSE Replay(t)
    /\ UNCHANGED <<handle, userVars, run, bubble, sent, faults>>

\* mutant: an orphaned continuation may be reclaimed, as other turns may.
AcceptOrphaned(t) ==
    /\ call[t] = "checked"
    /\ \/ /\ run.status \in {"absent", "orphaned"}
          /\ run' = [status |-> "running", req |-> t, pc |-> "working", replied |-> FALSE]
          /\ call' = [call EXCEPT ![t] = "accepted"]
          /\ UNCHANGED sch
       \/ run.status # "absent" /\ Replay(t) /\ UNCHANGED run
    /\ UNCHANGED <<handle, userVars, bubble, sent, faults>>

\* claimLeaseForAcceptedTurn and createAcceptedTurn: accepted, replayed, busy
\* (the session's lease is held, by this turn or by another one), or duplicate
\* (the key is in flight: its marker is looked at first).
Accept(t) ==
    /\ call[t] = "checked"
    /\ \/ /\ run.status = "absent"
          /\ run' = [status |-> "running", req |-> t, pc |-> "working", replied |-> FALSE]
          /\ call' = [call EXCEPT ![t] = "accepted"]
          /\ UNCHANGED <<sch, faults>>
       \/ run.status # "absent" /\ Replay(t) /\ UNCHANGED <<run, faults>>
       \/ run.status = "running" /\ Answer(t, "inspect", "duplicate") /\ UNCHANGED <<run, faults>>
       \/ /\ Answer(t, "release", "busy") /\ UNCHANGED run
          /\ IF run.status = "running" THEN UNCHANGED faults ELSE Fault
    /\ UNCHANGED <<handle, userVars, bubble, sent>>

\* The handler of the accepted request settles the receipt, whatever became of
\* it meanwhile, and answers.  completeAcceptedTurn persists the result first.
PersistResult ==
    /\ run.pc = "working"
    /\ run' = [run EXCEPT !.status = "completed", !.pc = "succeeded", !.replied = TRUE]
    /\ UNCHANGED <<handle, userVars, call, bubble, sent, sch, faults>>

\* failAcceptedTurnQuietly: the execution threw, or what completeAcceptedTurn
\* does after the result was persisted.  It may not get at the row either.
PersistFailure ==
    /\ \/ run.pc = "working" /\ run' = [run EXCEPT !.status = "failed", !.pc = "failed"] /\ UNCHANGED faults
       \/ run.pc = "succeeded" /\ run' = [run EXCEPT !.status = "failed", !.pc = "failed"] /\ Fault
       \/ run.pc = "working" /\ run' = [run EXCEPT !.pc = "failed"] /\ Fault
    /\ UNCHANGED <<handle, userVars, call, bubble, sent, sch>>

Return ==
    /\ run.pc \in {"succeeded", "failed"}
    /\ run' = [run EXCEPT !.pc = "gone"]
    /\ Answer(run.req, "mark", IF run.pc = "succeeded" THEN "completed" ELSE "failed")
    /\ UNCHANGED <<handle, userVars, bubble, sent, faults>>

\* The replica that runs the turn dies, and the connection of its caller with it.
HandlerDies ==
    /\ Fault
    /\ run.pc # "gone"
    /\ run' = [run EXCEPT !.pc = "gone"]
    /\ Answer(run.req, "inspect", "none")
    /\ UNCHANGED <<handle, userVars, bubble, sent>>

\* ReconcileOrphanTurnReceiptsService: a stale receipt without lease and marker.
\* A handler that still works has let its lease expire.
OrphanReceipt ==
    /\ run.status = "running"
    /\ run' = [run EXCEPT !.status = "orphaned"]
    /\ IF run.pc = "gone" THEN UNCHANGED faults ELSE Fault
    /\ UNCHANGED <<handle, userVars, call, bubble, sent, sch>>

-----------------------------------------------------------------------------
Chat ==
    \/ Observe \/ SubscribePending \/ ApiDies
    \/ EarlyMessage \/ SourceTurnEnds \/ SaveReply \/ FinalizePersisted \/ FinalizeFailed

\* One step of what s is in the middle of.
Step(s) ==
    \/ RecordListed(s) \/ Validate(s) \/ Gate(s) \/ Call(s) \/ Release(s) \/ Inspect(s)
    \/ MarkDispatched(s) \/ Publish(s) \/ Pin(s) \/ Stamp(s) \/ Attach(s)
    \/ Outcome(s) \/ PersistOutput(s) \/ ClaimAttempt(s) \/ Send(s) \/ SettleAttempt(s)
    \/ CheckAttempts(s) \/ CompleteClaim(s) \/ FailClaim(s) \/ ClaimNotice(s) \/ SendNotice(s)
    \/ SettleNotice(s) \/ Requeue(s) \/ GiveUpAttempts(s) \/ LookUpReceipt(s) \/ ProveAbsent(s)

Poll(s) == ListOpen(s) \/ ClaimReadyHead(s) \/ ReconcileExpired(s)

Disturb(s) ==
    Crash(s) \/ LoseLock(s) \/ Throws(s) \/ PublishThrows(s) \/ GiveUpCall(s)

Runtime ==
    \/ PersistResult \/ PersistFailure \/ Return \/ HandlerDies \/ OrphanReceipt
    \/ \E t \in Tokens : CheckReplay(t) \/ Accept(t)

Next ==
    \/ JobEnds \/ WorkerRecords \/ Chat \/ SweepSourceTurn \/ ClaimExpires \/ Runtime
    \/ \E s \in Schedulers : Poll(s) \/ Step(s) \/ Disturb(s)

Spec == Init /\ [][Next]_vars

\* Schedulers poll and go on with what they began, the runtime answers and
\* settles its turns, claims expire, unfinalized turns are swept.
Fairness ==
    /\ \A s \in Schedulers :
          /\ WF_vars(Step(s))
          /\ SF_vars(ListOpen(s)) /\ SF_vars(ClaimReadyHead(s)) /\ SF_vars(ReconcileExpired(s))
    /\ WF_vars(PersistResult \/ PersistFailure) /\ WF_vars(Return) /\ WF_vars(OrphanReceipt)
    /\ \A t \in Tokens : WF_vars(CheckReplay(t)) /\ WF_vars(Accept(t))
    /\ WF_vars(ClaimExpires) /\ WF_vars(SweepSourceTurn) /\ WF_vars(WorkerRecords)

FairSpec == Spec /\ Fairness

-----------------------------------------------------------------------------
(* Properties.                                                              *)

\* The values of a handle row, and what the chat may have got from it.
Handles ==
    [state : {"none", "subscribed", "ready", "claimed", "dispatched"} \cup Terminal,
     owner : {"none", "current", "continuation", "exhausted"},
     final : BOOLEAN, snap : BOOLEAN, deep : BOOLEAN, token : Tokens \cup {None},
     expired : BOOLEAN, retries : 0 .. MaxRetries, msg : 0 .. MaxMessages,
     attempt : [Attempts -> {"none", "attempting", "settled"}]]

Bubbles ==
    [made : 0 .. MaxMessages, pin : 0 .. MaxMessages,
     attached : {"none", "attached", "failed"}, narrated : BOOLEAN]

\* replied: the receipt has held a result.
Runs ==
    [status : {"absent", "running", "completed"} \cup Lost, req : Tokens \cup {None},
     pc : {"gone", "working", "succeeded", "failed"}, replied : BOOLEAN]

\* Every variable keeps its type; in particular requeueClaim never takes a row
\* past its retry budget, and every message is one the bound allows.
TypeOK ==
    /\ handle \in Handles
    /\ job \in {"running"} \cup Terminal
    /\ owed \in BOOLEAN
    /\ source \in [turn : {"running", "completed", "failed"},
                   api : {"turn", "finalize", "gone"}, saved : BOOLEAN]
    /\ run \in Runs
    /\ call \in [Tokens -> {"none", "sent", "checked", "accepted"}]
    /\ bubble \in Bubbles
    /\ sent \in [Attempts -> 0 .. 2]
    /\ faults \in 0 .. MaxFaults

\* claimDeliveryAttempt and claimFailedHandleExternalNotice: whatever crashes,
\* expires and is reclaimed, the files and the text of the narration go to Telegram
\* at most once, and never the narration and the failure notice both.
OneTelegramSend == \A k \in Attempts : sent[k] <= 1

\* persistOutputOnce and persistPermanentFailureMessage: all attempts to narrate
\* a sandbox job, and to say that narrating it failed, use one chat message.
OneBubble == bubble.made <= 1

\* observeForCurrentTurn and MAX_ASYNC_CONTINUATION_DEPTH: no continuation ever
\* runs or sends for a result that a turn of the chat narrates itself, nor for a
\* handle at the depth limit.
OneNarrator ==
    handle.owner \in {"current", "exhausted"} =>
        run.status = "absent" /\ \A k \in Attempts : sent[k] = 0

\* markDispatched comes after the runtime accepted the turn (ADR-159).
DispatchedIsAccepted == handle.state = "dispatched" => run.status # "absent"

\* persistOutputOnce: while one scheduler works at a time, the narration of a
\* media or document job goes into the message that ConversationalPublish pinned
\* on the job.
NarratedInPinned == bubble.narrated => handle.msg = bubble.pin

\* completeClaim and settleDeliveredLocked: a claim ends as completed only when its
\* message is in the chat, and then either shows the artifacts of the job or is the
\* narration, of which no part is on its way or was never tried.
CompletedIsTold ==
    [][handle.state \in {"claimed", "dispatched"} /\ handle'.state = "completed" =>
          /\ handle'.msg # 0
          /\ Delivered \/ (bubble.narrated /\ AllSettled)]_vars

\* The narration of the handle as NarrationLedger tells it.
Teller ==
    CASE handle.owner = "none" -> "open"
      [] handle.owner = "current" -> "turn"
      [] handle.owner = "exhausted" -> "nobody"
      [] OTHER -> "continuation"

TurnState ==
    IF run.status = "absent" THEN "none" ELSE IF run.replied THEN "replied" ELSE "begun"

Tale ==
    INSTANCE NarrationLedger WITH
        Parts <- Attempts, Files <- {"artifacts"},
        teller <- Teller, turn <- TurnState, narrated <- bubble.narrated,
        right <- handle.attempt, told <- sent

\* finalizeSourceTurn, persistOutputOnce and claimDeliveryAttempt together: whoever dies,
\* is late or is reclaimed, the result has one teller, the chat gets what the
\* continuation really replied, and each part goes out by a right given once.
NarrationKept == Tale!TellSpec

\* The key of the continuation, in the ledger that RuntimeTurn keeps.
ContinuationKey == "async-cont"

LedgerState(status) ==
    CASE status = "absent" -> "absent"
      [] status = "running" -> "running"
      [] status = "orphaned" -> "lost"
      [] OTHER -> "settled"

Ledger ==
    INSTANCE TurnLedger WITH
        Requests <- Tokens, Keys <- {ContinuationKey}, AsyncKeys <- {ContinuationKey},
        KeyOf <- [t \in Tokens |-> ContinuationKey], IdOf <- [t \in Tokens |-> t],
        state <- [k \in {ContinuationKey} |-> LedgerState(run.status)],
        owner <- [k \in {ContinuationKey} |-> run.req],
        replied <- IF run.replied THEN {run.req} ELSE {}

\* createAsyncContinuation, as a scheduler meets it, is the runtime of RuntimeTurn: it
\* runs the key for one request, declares it lost, and lets only its owner settle it.
KeepsTurnLedger == Ledger!LedgerSpec

\* reconcileExpiredClaims, requeueClaim and failClaimVisibly: once the source
\* turn is finalized and the job of a continuation has ended, its handle ends.
\* A restart between any two steps does not leave it open (ADR-152: "notify
\* survives restart").
Narrated ==
    (handle.final /\ handle.owner = "continuation" /\ job # "running")
        ~> handle.state \in Terminal
=============================================================================
