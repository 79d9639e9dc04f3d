---------------------------- MODULE RuntimeTurn ----------------------------
(***************************************************************************)
(* How apps/runtime accepts, executes and settles the turns of one         *)
(* session: TurnAcceptanceService, IdempotencyService, SessionLeaseService,*)
(* TurnFinalizationService, the callers in TurnExecutionService, the       *)
(* compaction runs that borrow the same lease, and the reconciler of       *)
(* orphaned receipts.                                                      *)
(*                                                                         *)
(* Redis holds the session lease, the in-flight markers and the receipt    *)
(* markers; Postgres holds the receipts.  Every action is one round trip   *)
(* to one of them, so the steps of concurrent requests interleave exactly  *)
(* where the code awaits.                                                  *)
(*                                                                         *)
(* A call is known by its requestId.  Most calls draw a fresh one; a media *)
(* or document job and a background task run under their idempotency key,  *)
(* so their retries share a requestId.                                     *)
(*                                                                         *)
(* Sessions share nothing: a requestId is never used in two of them, so    *)
(* one session is modelled.  A conversation has one session row            *)
(* (ensureSession upserts it by conversationKey).                          *)
(***************************************************************************)
EXTENDS Naturals, FiniteSets

CONSTANTS
    Requests,    \* runtime calls; each draws an owner token of its own for the lease
    Compactors,  \* compaction and idle-extraction runs that take the lease
    Reconcilers, \* one orphan-receipt scheduler per runtime replica
    Keys,        \* idempotency keys: the logical turns of the session
    AsyncKeys,   \* the keys that start with "async-cont:"
    KeyOf,       \* the idempotency key each request carries
    IdOf,        \* the requestId each request carries
    SurfaceOf,   \* which entry point serves each request
    Sheltered,   \* workers that finish, or renew, before their lease times out
    None         \* no owner, no marker, no candidate

Workers == Requests \cup Compactors
RequestIds == {IdOf[r] : r \in Requests}

\* No other call carries the requestId of r.
OwnId(r) == \A s \in Requests : IdOf[s] = IdOf[r] => s = r

\* "stream": streamTurn, streamAsyncContinuation; "sync": createTurn,
\* createBackgroundTaskToolRun; "continuation": createAsyncContinuation;
\* "job": the media and document job runs.
Surfaces == {"stream", "sync", "continuation", "job"}

ASSUME ConstantsAssumption ==
    /\ AsyncKeys \subseteq Keys
    /\ KeyOf \in [Requests -> Keys]
    /\ DOMAIN IdOf = Requests
    /\ \A r, s \in Requests : IdOf[r] = IdOf[s] => KeyOf[r] = KeyOf[s]
    /\ SurfaceOf \in [Requests -> Surfaces]
    /\ Sheltered \subseteq Workers
    /\ Requests \cap Compactors = {}
    /\ None \notin Workers \cup Keys \cup RequestIds

VARIABLES
    pc,        \* pc[w]: where the handler of worker w stands
    after,     \* after[w]: where it goes once its lease is released
    hint,      \* hint[r]: the requestId last read from a marker or a receipt
    outcome,   \* outcome[r]: what acceptTurn decided for r
    replied,   \* the requests whose completed result was persisted
    lease,     \* Redis: the worker whose owner token the session lease holds, or None
    inFlight,  \* Redis: inFlight[k], the requestId in the turn-in-flight marker of k
    marker,    \* Redis: marker[k], the requestId in the turn-receipt marker of k
    receipt,   \* Postgres: receipt[k], the runtime_turn_receipts row of k
    rpc, cand, batch  \* the reconcilers: position, candidate, rest of the batch

workerVars == <<pc, after, hint, outcome, replied>>
redisVars  == <<lease, inFlight, marker>>
reconVars  == <<rpc, cand, batch>>
vars == <<workerVars, redisVars, receipt, reconVars>>

-----------------------------------------------------------------------------
(* Receipts.  "orphaned" is status failed with errorCode orphan_reconciled, *)
(* "failed" is any other failure.  stale: updatedAt is older than           *)
(* ORPHAN_RECEIPT_GRACE_MS; every update of the row makes it fresh again.   *)

ReceiptStatus ==
    {"absent", "accepted", "completed", "interrupted", "failed", "orphaned"}

Receipts == [status : ReceiptStatus, req : RequestIds \cup {None}, stale : BOOLEAN]

Settled == {"completed", "interrupted", "failed"}

Row(status, id) == [status |-> status, req |-> id, stale |-> FALSE]

\* The row carries the requestId of r.
Owns(r) == receipt[KeyOf[r]].req = IdOf[r]

ReclaimableAsync(k) == receipt[k].status = "orphaned"  \* mutant: async-cont keys too

Reclaimable(k) == receipt[k].status = "orphaned" /\ k \notin AsyncKeys

\* mutant: update by the idempotency key instead of the requestId.
PersistByKey(r, status) ==
    receipt' = [receipt EXCEPT ![KeyOf[r]] = [@ EXCEPT !.status = status]]

\* update where requestId = r: throws when no row carries that requestId.
Persist(r, status) ==
    /\ Owns(r)
    /\ receipt' = [receipt EXCEPT ![KeyOf[r]] = Row(status, IdOf[r])]

Goto(w, from, to) == pc[w] = from /\ pc' = [pc EXCEPT ![w] = to]

\* Enter the release of the lease, to continue at "to" afterwards.
GotoRelease(w, from, to) ==
    Goto(w, from, "relRead") /\ after' = [after EXCEPT ![w] = to]

Init ==
    /\ pc = [w \in Workers |-> "idle"]
    /\ after = [w \in Workers |-> "ended"]
    /\ hint = [r \in Requests |-> None]
    /\ outcome = [r \in Requests |-> "none"]
    /\ replied = {}
    /\ lease = None
    /\ inFlight = [k \in Keys |-> None]
    /\ marker = [k \in Keys |-> None]
    /\ receipt = [k \in Keys |-> Row("absent", None)]
    /\ rpc = [q \in Reconcilers |-> "idle"]
    /\ cand = [q \in Reconcilers |-> None]
    /\ batch = [q \in Reconcilers |-> {}]

-----------------------------------------------------------------------------
(* acceptTurn, first half: findReplayAcceptedTurn.                          *)

\* tryReadReceiptMarker; a Redis error reads as no marker.
ReadMarker(r) ==
    /\ \E m \in {marker[KeyOf[r]], None} :
          /\ hint' = [hint EXCEPT ![r] = m]
          /\ Goto(r, "idle", IF m = None THEN "readKey" ELSE "readHinted")
    /\ UNCHANGED <<after, outcome, replied, redisVars, receipt, reconVars>>

\* resolveFromMarker: the row of the hinted request, unless it was orphaned.
ReadHinted(r) ==
    LET row == receipt[KeyOf[r]]
        replay == row.req = hint[r] /\ row.status # "orphaned"
    IN
    /\ Goto(r, "readHinted", IF replay THEN "ended" ELSE "readKey")
    /\ outcome' = [outcome EXCEPT ![r] = IF replay THEN "replayed" ELSE @]
    /\ hint' = [hint EXCEPT ![r] = None]
    /\ UNCHANGED <<after, replied, redisVars, receipt, reconVars>>

\* The row of the key: replayed unless it is absent or may be reclaimed.
ReadKey(r) ==
    LET k == KeyOf[r]
        replay == receipt[k].status # "absent" /\ ~ Reclaimable(k)
    IN
    /\ Goto(r, "readKey", IF replay THEN "publishReplay" ELSE "claim")
    /\ hint' = [hint EXCEPT ![r] = IF replay THEN receipt[k].req ELSE None]
    /\ outcome' = [outcome EXCEPT ![r] = IF replay THEN "replayed" ELSE @]
    /\ UNCHANGED <<after, replied, redisVars, receipt, reconVars>>

\* mutant: the key is written where the requestId belongs.
WriteMarkerKey(r) ==
    /\ \/ Goto(r, "publishReplay", "ended")
       \/ Goto(r, "publish", "clearClaim")
    /\ marker' = [marker EXCEPT ![KeyOf[r]] = KeyOf[r]]
    /\ hint' = [hint EXCEPT ![r] = None]
    /\ UNCHANGED <<after, outcome, replied, lease, inFlight, receipt, reconVars>>

\* tryWriteReceiptMarker: best effort, in either half of acceptTurn.
WriteMarker(r) ==
    /\ \/ Goto(r, "publishReplay", "ended")
       \/ Goto(r, "publish", "clearClaim")
    /\ marker' \in {marker, [marker EXCEPT ![KeyOf[r]] = hint[r]]}
    /\ hint' = [hint EXCEPT ![r] = None]
    /\ UNCHANGED <<after, outcome, replied, lease, inFlight, receipt, reconVars>>

(* acceptTurn, second half: claimLeaseForAcceptedTurn, createAcceptedTurn.  *)

\* One Lua script: in_flight if the marker of a matching turn is set, busy if
\* the lease is held, otherwise both are taken.
ClaimLease(r) ==
    LET k == KeyOf[r] IN
    /\ \/ /\ inFlight[k] # None
          /\ Goto(r, "claim", "ended")
          /\ outcome' = [outcome EXCEPT ![r] = "refused"]
          /\ UNCHANGED <<lease, inFlight>>
       \/ /\ inFlight[k] = None /\ lease # None
          /\ Goto(r, "claim", "ended")
          /\ outcome' = [outcome EXCEPT ![r] = "refused"]
          /\ UNCHANGED <<lease, inFlight>>
       \/ /\ inFlight[k] = None /\ lease = None
          /\ Goto(r, "claim", "insert")
          /\ lease' = r
          /\ inFlight' = [inFlight EXCEPT ![k] = IdOf[r]]
          /\ UNCHANGED outcome
    /\ UNCHANGED <<after, hint, replied, marker, receipt, reconVars>>

\* INSERT with status accepted; unique (conversationKey, idempotencyKey).
InsertReceipt(r) ==
    LET k == KeyOf[r] IN
    /\ \/ /\ receipt[k].status = "absent"
          /\ Goto(r, "insert", "publish")
          /\ receipt' = [receipt EXCEPT ![k] = Row("accepted", IdOf[r])]
          /\ hint' = [hint EXCEPT ![r] = IdOf[r]]
          /\ outcome' = [outcome EXCEPT ![r] = "accepted"]
       \/ /\ receipt[k].status # "absent"
          /\ Goto(r, "insert", "reread")
          /\ UNCHANGED <<receipt, hint, outcome>>
    /\ UNCHANGED <<after, replied, redisVars, reconVars>>

\* After P2002: the row that won, to be reclaimed or replayed.
RereadKey(r) ==
    LET k == KeyOf[r] IN
    /\ Goto(r, "reread", IF Reclaimable(k) THEN "reclaim" ELSE "publish")
    /\ hint' = [hint EXCEPT ![r] = IF Reclaimable(k) THEN None ELSE receipt[k].req]
    /\ outcome' = [outcome EXCEPT ![r] = IF Reclaimable(k) THEN @ ELSE "replayed"]
    /\ UNCHANGED <<after, replied, redisVars, receipt, reconVars>>

\* mutant: the reclaim does not check the errorCode again.
ReclaimBlindly(r) ==
    /\ Goto(r, "reclaim", "confirm")
    /\ receipt' = [receipt EXCEPT ![KeyOf[r]] = Row("accepted", IdOf[r])]
    /\ UNCHANGED <<after, hint, outcome, replied, redisVars, reconVars>>

\* UPDATE ... WHERE errorCode = 'orphan_reconciled'; count 0 rethrows.
ReclaimReceipt(r) ==
    LET k == KeyOf[r] IN
    /\ \/ /\ receipt[k].status = "orphaned"
          /\ Goto(r, "reclaim", "confirm")
          /\ receipt' = [receipt EXCEPT ![k] = Row("accepted", IdOf[r])]
       \/ /\ receipt[k].status # "orphaned"
          /\ Goto(r, "reclaim", "abort")
          /\ UNCHANGED receipt
    /\ UNCHANGED <<after, hint, outcome, replied, redisVars, reconVars>>

\* findTurnReceiptByRequestId after the reclaim; null rethrows.
ConfirmReclaim(r) ==
    /\ Goto(r, "confirm", IF Owns(r) THEN "publish" ELSE "abort")
    /\ hint' = [hint EXCEPT ![r] = IF Owns(r) THEN IdOf[r] ELSE None]
    /\ outcome' = [outcome EXCEPT ![r] = IF Owns(r) THEN "accepted" ELSE @]
    /\ UNCHANGED <<after, replied, redisVars, receipt, reconVars>>

\* A database error in createAcceptedTurn.
CreateThrows(r) ==
    /\ \E at \in {"insert", "reread", "reclaim", "confirm"} : Goto(r, at, "abort")
    /\ UNCHANGED <<after, hint, outcome, replied, redisVars, receipt, reconVars>>

\* The catch of acceptTurn: DEL of the marker, whoever wrote it, then the
\* release of the lease; allSettled swallows the failure of either.
AbortClaim(r) ==
    /\ GotoRelease(r, "abort", "ended")
    /\ inFlight' \in {inFlight, [inFlight EXCEPT ![KeyOf[r]] = None]}
    /\ outcome' = [outcome EXCEPT ![r] = "refused"]
    /\ UNCHANGED <<hint, replied, lease, marker, receipt, reconVars>>

\* clearAcceptedTurnInFlightQuietly, then return: a replayed turn releases
\* the lease, an accepted one goes on with it.
ClearClaim(r) ==
    /\ \/ /\ outcome[r] = "replayed"
          /\ GotoRelease(r, "clearClaim", "ended")
       \/ /\ outcome[r] = "accepted"
          /\ Goto(r, "clearClaim", "prepare")
          /\ UNCHANGED after
    /\ inFlight' \in {inFlight, [inFlight EXCEPT ![KeyOf[r]] = None]}
    /\ UNCHANGED <<hint, outcome, replied, lease, marker, receipt, reconVars>>

-----------------------------------------------------------------------------
(* The execution of an accepted turn.                                       *)

\* prepareTurnExecution, initializeTurnDeliveryContext and admission succeed;
\* a stream arms its heartbeat.
StartRun(r) ==
    /\ Goto(r, "prepare", "running")
    /\ UNCHANGED <<after, hint, outcome, replied, redisVars, receipt, reconVars>>

\* They throw.  Only createAsyncContinuation wraps them in its try: from the
\* other entry points the receipt stays accepted and the lease stays held.
PrepareThrows(r) ==
    /\ SurfaceOf[r] # "job"
    /\ Goto(r, "prepare", IF SurfaceOf[r] = "continuation" THEN "fail" ELSE "ended")
    /\ UNCHANGED <<after, hint, outcome, replied, redisVars, receipt, reconVars>>

\* The provider and tool loop ends with a result, or throws.  For a
\* continuation executeAcceptedTurn fails the turn and rethrows, and
\* createAsyncContinuation catches that and fails it once more.
FinishRun(r) ==
    /\ \/ Goto(r, "running", "complete")
       \/ Goto(r, "running", IF SurfaceOf[r] = "continuation" THEN "failInner" ELSE "fail")
    /\ UNCHANGED <<after, hint, outcome, replied, redisVars, receipt, reconVars>>

\* A stream stopped by the user or by its provider.
StopRun(r) ==
    /\ SurfaceOf[r] = "stream"
    /\ Goto(r, "running", "interrupt")
    /\ UNCHANGED <<after, hint, outcome, replied, redisVars, receipt, reconVars>>

\* heartbeatAcceptedTurn finds another owner or none: the stream aborts.
HeartbeatLost(r) ==
    /\ SurfaceOf[r] = "stream"
    /\ lease # r
    /\ Goto(r, "running", "interrupt")
    /\ UNCHANGED <<after, hint, outcome, replied, redisVars, receipt, reconVars>>

-----------------------------------------------------------------------------
(* Finalization.  Persisting the terminal receipt comes first; the session  *)
(* summary update that follows may throw; the finally block releases the    *)
(* lease only if the receipt was persisted.                                 *)

\* mutant: createTurn, too, fails a turn whose completion threw.
AlwaysFail(r) == "fail"

\* Where the caller goes when completeAcceptedTurn throws.
CompletionThrew(r) == IF SurfaceOf[r] = "sync" THEN "ended" ELSE "fail"

\* markTurnReceiptCompleted, then updateSessionSummary.
CompleteTurn(r) ==
    /\ Persist(r, "completed")
    /\ replied' = replied \cup {r}
    /\ \E to \in {"ended", CompletionThrew(r)} : GotoRelease(r, "complete", to)
    /\ UNCHANGED <<hint, outcome, redisVars, reconVars>>

\* markTurnReceiptCompleted throws: no such row, or a database error.
CompleteThrows(r) ==
    /\ Goto(r, "complete", CompletionThrew(r))
    /\ UNCHANGED <<after, hint, outcome, replied, redisVars, receipt, reconVars>>

\* Where failAcceptedTurnQuietly goes when failAcceptedTurn throws; a job
\* calls failAcceptedTurn itself and passes the error on.
FailureThrew(r, at) ==
    IF SurfaceOf[r] = "job" THEN "ended"
    ELSE IF at = "failInner" THEN "failInnerMinimal" ELSE "failMinimal"

\* Where it returns to.
FailureDone(at) == IF at \in {"failInner", "failInnerMinimal"} THEN "fail" ELSE "ended"

\* failAcceptedTurn.
FailTurn(r) ==
    /\ Persist(r, "failed")
    /\ \E at \in {"failInner", "fail"} : \E to \in {FailureDone(at), FailureThrew(r, at)} :
          GotoRelease(r, at, to)
    /\ UNCHANGED <<hint, outcome, replied, redisVars, reconVars>>

FailThrows(r) ==
    /\ \E at \in {"failInner", "fail"} : Goto(r, at, FailureThrew(r, at))
    /\ UNCHANGED <<after, hint, outcome, replied, redisVars, receipt, reconVars>>

\* failAcceptedTurnMinimal, whose errors are logged and dropped.
FailTurnMinimal(r) ==
    /\ Persist(r, "failed")
    /\ \E at \in {"failInnerMinimal", "failMinimal"} : GotoRelease(r, at, FailureDone(at))
    /\ UNCHANGED <<hint, outcome, replied, redisVars, reconVars>>

\* mutant: a stream that was interrupted runs on into the failure branch.
InterruptAndFail(r) ==
    /\ Persist(r, "interrupted")
    /\ GotoRelease(r, "interrupt", "fail")
    /\ UNCHANGED <<hint, outcome, replied, redisVars, reconVars>>

\* interruptAcceptedTurnQuietly: an error is swallowed either way.
InterruptTurn(r) ==
    /\ Persist(r, "interrupted")
    /\ GotoRelease(r, "interrupt", "ended")
    /\ UNCHANGED <<hint, outcome, replied, redisVars, reconVars>>

\* An error that is swallowed leaves the receipt as it is.
SettleThrows(r) ==
    /\ \E at \in {"failInnerMinimal", "failMinimal", "interrupt"} : Goto(r, at, FailureDone(at))
    /\ UNCHANGED <<after, hint, outcome, replied, redisVars, receipt, reconVars>>

-----------------------------------------------------------------------------
(* releaseSessionLease is a GET and then a DEL, not one atomic step.        *)

\* The release is over: on to what called it.
Released(w, from) ==
    Goto(w, from, after[w]) /\ after' = [after EXCEPT ![w] = "ended"]

\* mutant: release without comparing the owner.
ReadLeaseBlindly(w) ==
    /\ Goto(w, "relRead", "relDelete")
    /\ UNCHANGED <<after, hint, outcome, replied, redisVars, receipt, reconVars>>

ReadLease(w) ==
    /\ \/ lease = w /\ Goto(w, "relRead", "relDelete") /\ UNCHANGED after
       \/ lease # w /\ Released(w, "relRead")
    /\ UNCHANGED <<hint, outcome, replied, redisVars, receipt, reconVars>>

DeleteLease(w) ==
    /\ Released(w, "relDelete")
    /\ lease' = None
    /\ UNCHANGED <<hint, outcome, replied, inFlight, marker, receipt, reconVars>>

\* A Redis error: the lease is left to its TTL.
ReleaseThrows(w) ==
    /\ Released(w, "relRead") \/ Released(w, "relDelete")
    /\ UNCHANGED <<hint, outcome, replied, redisVars, receipt, reconVars>>

\* Compaction and idle extraction: acquireLease (SET NX) or session_busy.
AcquireForCompaction(c) ==
    /\ \/ lease = None /\ Goto(c, "idle", "compacting") /\ lease' = c
       \/ lease # None /\ Goto(c, "idle", "ended") /\ UNCHANGED lease
    /\ UNCHANGED <<after, hint, outcome, replied, inFlight, marker, receipt, reconVars>>

FinishCompaction(c) ==
    /\ GotoRelease(c, "compacting", "ended")
    /\ UNCHANGED <<hint, outcome, replied, redisVars, receipt, reconVars>>

-----------------------------------------------------------------------------
(* The environment: a pod dies or a stream's consumer goes away (the locals *)
(* of its handler with it), Redis keys time out, an accepted row outlives   *)
(* the grace period.  A receipt marker that timed out reads as none, which  *)
(* ReadMarker allows at any time.                                           *)

Crash(w) ==
    /\ pc[w] \notin {"idle", "ended"}
    /\ pc' = [pc EXCEPT ![w] = "ended"]
    /\ after' = [after EXCEPT ![w] = "ended"]
    /\ hint' = [r \in Requests |-> IF r = w THEN None ELSE hint[r]]
    /\ UNCHANGED <<outcome, replied, redisVars, receipt, reconVars>>

LeaseExpires ==
    /\ lease # None
    /\ lease \in Sheltered => pc[lease] = "ended"
    /\ lease' = None
    /\ UNCHANGED <<workerVars, inFlight, marker, receipt, reconVars>>

InFlightExpires(k) ==
    /\ inFlight[k] # None
    /\ inFlight' = [inFlight EXCEPT ![k] = None]
    /\ UNCHANGED <<workerVars, lease, marker, receipt, reconVars>>

GraceElapses(k) ==
    /\ receipt[k].status = "accepted" /\ ~ receipt[k].stale
    /\ receipt' = [receipt EXCEPT ![k] =
          [status |-> "accepted", req |-> receipt[k].req, stale |-> TRUE]]
    /\ UNCHANGED <<workerVars, redisVars, reconVars>>

-----------------------------------------------------------------------------
(* ReconcileOrphanTurnReceiptsService.executeBatch: the candidates are read *)
(* once, then each is checked in Redis and updated in Postgres.  The batch  *)
(* limit (32) is above the number of keys of any instance.                  *)

\* A candidate is a row: its idempotency key and its requestId.
Candidates == [key : Keys, req : RequestIds]
CandidatesAt(ks) == {[key |-> k, req |-> receipt[k].req] : k \in ks}

\* mutant: the comparison with the grace period is reversed.
FreshAccepted ==
    CandidatesAt({k \in Keys : receipt[k].status = "accepted" /\ ~ receipt[k].stale})

StaleAccepted ==
    CandidatesAt({k \in Keys : receipt[k].status = "accepted" /\ receipt[k].stale})

FindCandidates(q) ==
    /\ rpc[q] = "idle" /\ batch[q] = {} /\ StaleAccepted # {}
    /\ batch' = [batch EXCEPT ![q] = StaleAccepted]
    /\ UNCHANGED <<rpc, cand, workerVars, redisVars, receipt>>

\* readTurnInFlightMarker of the next candidate; a marker skips it.
CheckInFlight(q) ==
    /\ rpc[q] = "idle"
    /\ \E c \in batch[q] :
          /\ batch' = [batch EXCEPT ![q] = @ \ {c}]
          /\ IF inFlight[c.key] = None
             THEN cand' = [cand EXCEPT ![q] = c] /\ rpc' = [rpc EXCEPT ![q] = "lease"]
             ELSE UNCHANGED <<cand, rpc>>
    /\ UNCHANGED <<workerVars, redisVars, receipt>>

\* The candidate is done with.
GiveUp(q) == rpc' = [rpc EXCEPT ![q] = "idle"] /\ cand' = [cand EXCEPT ![q] = None]

\* mutant: the session lease is not looked at.
CheckNoLease(q) ==
    /\ rpc[q] = "lease"
    /\ rpc' = [rpc EXCEPT ![q] = "update"]
    /\ UNCHANGED <<cand, batch, workerVars, redisVars, receipt>>

\* hasSessionLease: any owner skips the candidate.
CheckLease(q) ==
    /\ rpc[q] = "lease"
    /\ IF lease = None
       THEN rpc' = [rpc EXCEPT ![q] = "update"] /\ UNCHANGED cand
       ELSE GiveUp(q)
    /\ UNCHANGED <<batch, workerVars, redisVars, receipt>>

\* mutant: the update looks at the requestId only.
MarkAnyOrphaned(q) ==
    LET c == cand[q]
        match == receipt[c.key].req = c.req
    IN
    /\ rpc[q] = "update"
    /\ receipt' = IF match THEN [receipt EXCEPT ![c.key] = Row("orphaned", c.req)] ELSE receipt
    /\ IF match THEN rpc' = [rpc EXCEPT ![q] = "clear"] /\ UNCHANGED cand ELSE GiveUp(q)
    /\ UNCHANGED <<batch, workerVars, redisVars>>

\* UPDATE ... WHERE requestId = candidate AND status = 'accepted': a row that
\* was reclaimed under the same requestId matches, too.
MarkOrphaned(q) ==
    LET c == cand[q]
        match == receipt[c.key].req = c.req /\ receipt[c.key].status = "accepted"
    IN
    /\ rpc[q] = "update"
    /\ receipt' = IF match THEN [receipt EXCEPT ![c.key] = Row("orphaned", c.req)] ELSE receipt
    /\ IF match THEN rpc' = [rpc EXCEPT ![q] = "clear"] /\ UNCHANGED cand ELSE GiveUp(q)
    /\ UNCHANGED <<batch, workerVars, redisVars>>

ClearOrphanMarker(q) ==
    /\ rpc[q] = "clear"
    /\ GiveUp(q)
    /\ inFlight' = [inFlight EXCEPT ![cand[q].key] = None]
    /\ UNCHANGED <<batch, workerVars, lease, marker, receipt>>

-----------------------------------------------------------------------------
Arrive(w) ==
    \/ w \in Requests /\ ReadMarker(w)
    \/ w \in Compactors /\ AcquireForCompaction(w)

Accept(r) ==
    \/ ReadHinted(r) \/ ReadKey(r) \/ WriteMarker(r) \/ ClaimLease(r)
    \/ InsertReceipt(r) \/ RereadKey(r) \/ ReclaimReceipt(r) \/ ConfirmReclaim(r)
    \/ CreateThrows(r) \/ AbortClaim(r) \/ ClearClaim(r)

Execute(r) ==
    \/ StartRun(r) \/ PrepareThrows(r) \/ FinishRun(r) \/ StopRun(r) \/ HeartbeatLost(r)

Finalize(r) ==
    \/ CompleteTurn(r) \/ CompleteThrows(r) \/ FailTurn(r) \/ FailThrows(r)
    \/ FailTurnMinimal(r) \/ InterruptTurn(r) \/ SettleThrows(r)

Release(w) == ReadLease(w) \/ DeleteLease(w) \/ ReleaseThrows(w)

\* Every step of a worker that has arrived, short of its crash.
Proceed(w) ==
    \/ w \in Requests /\ (Accept(w) \/ Execute(w) \/ Finalize(w))
    \/ w \in Compactors /\ FinishCompaction(w)
    \/ Release(w)

Reconcile(q) ==
    \/ FindCandidates(q) \/ CheckInFlight(q) \/ CheckLease(q)
    \/ MarkOrphaned(q) \/ ClearOrphanMarker(q)

Expire ==
    \/ LeaseExpires
    \/ \E k \in Keys : InFlightExpires(k) \/ GraceElapses(k)

Next ==
    \/ \E w \in Workers : Arrive(w) \/ Proceed(w) \/ Crash(w)
    \/ \E q \in Reconcilers : Reconcile(q)
    \/ Expire

Spec == Init /\ [][Next]_vars

\* A handler that has arrived runs on, Redis keys with a TTL time out, time
\* passes and the reconcilers poll.  Nothing makes a request arrive.
Fairness ==
    /\ \A w \in Workers : WF_vars(Proceed(w))
    /\ \A q \in Reconcilers : WF_vars(Reconcile(q))
    /\ WF_vars(LeaseExpires)
    /\ \A k \in Keys : WF_vars(InFlightExpires(k)) /\ WF_vars(GraceElapses(k))

FairSpec == Spec /\ Fairness
-----------------------------------------------------------------------------
(* Properties.                                                              *)

RequestStates ==
    {"idle", "readHinted", "readKey", "publishReplay", "claim", "insert", "reread", "reclaim",
     "confirm", "publish", "abort", "clearClaim", "prepare", "running", "complete", "failInner",
     "failInnerMinimal", "fail", "failMinimal", "interrupt", "relRead", "relDelete", "ended"}
CompactorStates == {"idle", "compacting", "relRead", "relDelete", "ended"}
Outcomes == {"none", "accepted", "replayed", "refused"}

\* Type correctness of the handlers, of Redis, of the receipts and of the
\* reconcilers.
TypeOK ==
    /\ pc \in [Workers -> RequestStates \cup CompactorStates]
    /\ after \in [Workers -> {"ended", "fail", "failMinimal", "failInnerMinimal"}]
    /\ hint \in [Requests -> RequestIds \cup {None}]
    /\ outcome \in [Requests -> Outcomes]
    /\ replied \subseteq Requests
    /\ lease \in Workers \cup {None}
    /\ inFlight \in [Keys -> RequestIds \cup {None}]
    /\ marker \in [Keys -> RequestIds \cup {None}]
    /\ receipt \in [Keys -> Receipts]
    /\ rpc \in [Reconcilers -> {"idle", "lease", "update", "clear"}]
    /\ cand \in [Reconcilers -> Candidates \cup {None}]
    /\ batch \in [Reconcilers -> SUBSET Candidates]

\* A turn (or compaction) is at work in the session: it reads and writes the
\* transcript and the session row.
AtWork(w) == pc[w] \in {"prepare", "running", "complete", "compacting"}

\* At most one turn or compaction works in a session.  It is what the lease is
\* for; it needs every holder to outpace its TTL (Sheltered = Workers), since
\* neither the receipt nor the finalization checks the lease again.
OneTurnPerSession == \A v, w \in Workers : AtWork(v) /\ AtWork(w) => v = w

\* One logical turn, one reply: of the requestIds a key is retried under, however
\* they were orphaned and reclaimed, at most one ever persists a completed result.
\* Calls with a requestId of their own thus reply once; the retries of a job, which
\* share one, may each persist theirs.  Leases may expire at any time.
OneReplyPerKey == \A r, s \in replied : KeyOf[r] = KeyOf[s] => IdOf[r] = IdOf[s]

\* An async continuation is never executed again: at most one request of an
\* "async-cont:" key is ever accepted, even when the first one was orphaned.
AsyncRunsOnce ==
    \A r, s \in Requests :
        /\ KeyOf[r] = KeyOf[s] /\ KeyOf[r] \in AsyncKeys
        /\ outcome[r] = "accepted" /\ outcome[s] = "accepted"
        => r = s

\* The reconciler checks the lease in one step and updates the row in another;
\* even so it never gives up a turn whose request still holds the lease, if that
\* request has a requestId of its own.  A reconciler that stalls between the two
\* steps may give up the retry of a job.
ReconcileSparesHolder ==
    [][\A k \in Keys :
        receipt[k].status = "accepted" /\ receipt'[k].status = "orphaned"
            => \A r \in Requests : OwnId(r) /\ IdOf[r] = receipt[k].req => lease # r]_vars

\* A settled row stays settled, whatever retries, reconcilers and late handlers do.
\* If the request it names has a requestId of its own, what it says stays, too: the
\* error paths that run after a terminal update never change it, except that a
\* completed turn may still be turned into a failed one, when the session update
\* after markTurnReceiptCompleted throws.  A synchronous turn is spared even that:
\* only createTurn lets the error pass.
ResultKept ==
    [][\A k \in Keys :
        receipt[k].status \in Settled /\ receipt'[k].status # receipt[k].status
            => /\ receipt'[k].status \in Settled
               /\ \A r \in Requests : OwnId(r) /\ IdOf[r] = receipt[k].req =>
                     /\ receipt[k].status = "completed" /\ receipt'[k].status = "failed"
                     /\ SurfaceOf[r] # "sync"]_vars

\* The rows as the ledger of logical turns sees them.
LedgerState(status) ==
    CASE status \in Settled -> "settled"
      [] status = "accepted" -> "running"
      [] status = "orphaned" -> "lost"
      [] OTHER -> "absent"

Ledger == INSTANCE TurnLedger WITH
    state <- [k \in Keys |-> LedgerState(receipt[k].status)],
    owner <- [k \in Keys |-> receipt[k].req]

\* The receipts implement the ledger of logical turns: a row changes hands only
\* while it is orphaned, only a request with the requestId it names settles it, and
\* a settled row is never reopened, with leases expiring and requests retried
\* anywhere.
ImplementsLedger == Ledger!LedgerSpec

\* An accepted turn is settled in the end, by its handler or by a reconciler,
\* whatever crashed or threw on the way.
AcceptedIsSettled ==
    \A k \in Keys : receipt[k].status = "accepted" ~> receipt[k].status # "accepted"
=============================================================================
