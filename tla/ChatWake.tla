------------------------------ MODULE ChatWake ------------------------------
(***************************************************************************)
(* Who may speak in a chat: the user's turns and the catch-ups of finished *)
(* jobs (ChatWakeCoordinator).  A user turn opens a window on the chat row *)
(* and its end closes it; a catch-up is admitted by one conditional UPDATE *)
(* of that row, after a gate that also reads web attempts and Telegram     *)
(* receipts.  A chat's catch-ups are serialised by the lease               *)
(* "async-catchup:<chat>" of SchedulerLeaseService, and chats are scanned  *)
(* least recently scanned first.                                           *)
(*                                                                         *)
(* A lease token is random: the model names it by its holder, and a holder *)
(* that restarted leaves "dead" behind.                                    *)
(***************************************************************************)
EXTENDS Naturals, FiniteSets

CONSTANTS
    Chats,
    Turns,        \* user turns
    KindOf,       \* KindOf[t]: "web", "sync" (web without clientTurnId) or "telegram"
    Handles,      \* async job handles whose source turn is finalized
    ChatOf,       \* the chat of a turn or of a handle
    Schedulers,   \* replicas of the continuation scheduler
    ScanCap,      \* chats looked at in one call of claimReadyCatchUps
    MaxFaults,    \* bound: crashes, stalls and failed writes
    None

ASSUME WakeAssumption ==
    /\ KindOf \in [Turns -> {"web", "sync", "telegram"}]
    /\ ChatOf \in [Turns \cup Handles -> Chats]
    /\ IsFiniteSet(Chats) /\ Cardinality(Chats) \in Nat
    /\ ScanCap \in Nat \ {0} /\ MaxFaults \in Nat
    /\ None \notin Chats \cup Handles \cup Schedulers /\ {"free", "dead"} \cap Schedulers = {}

VARIABLES
    turn,      \* turn[t]: where the handler of the turn stands
    attempt,   \* attempt[t]: the AssistantWebChatTurnAttempt of a web turn
    receipt,   \* receipt[t]: the runtime's receipt of a Telegram turn is accepted
    row,       \* row[c]: started after the last terminal stamp; that stamp is younger than 2 s
    handle,    \* handle[h]: state of the row; backoff: next_retry_at lies ahead; who claimed it
    scanned,   \* scanned[c]: place of the chat in the order of catch_up_last_scanned_at
    lock,      \* lock[c]: holder of the lease of the chat; it has expired
    sch,       \* sch[s]: what the scheduler is doing
    shadowed,  \* history: the stamp of another turn came while this one was open
    faults     \* faults left

turnVars == <<turn, attempt, receipt, row, shadowed>>
vars == <<turnVars, handle, scanned, lock, sch, faults>>

\* The orders of all chats.
Places == 1 .. Cardinality(Chats)
Orders == {place \in [Chats -> Places] : \A c, d \in Chats : place[c] = place[d] => c = d}

Idle == [pc |-> "idle", todo |-> [c \in {} |-> 0], chat |-> None, h |-> None,
         lost |-> FALSE, late |-> FALSE, seen |-> {}]

Init ==
    /\ turn = [t \in Turns |-> "idle"]
    /\ attempt = [t \in Turns |-> "none"]
    /\ receipt = [t \in Turns |-> FALSE]
    /\ row = [c \in Chats |-> [open |-> FALSE, paused |-> FALSE]]
    /\ handle = [h \in Handles |-> [state |-> "ready", backoff |-> FALSE, owner |-> None]]
    /\ scanned \in Orders
    /\ lock = [c \in Chats |-> [holder |-> "free", expired |-> FALSE]]
    /\ sch = [s \in Schedulers |-> Idle]
    /\ shadowed = [t \in Turns |-> FALSE]
    /\ faults = MaxFaults

Fault == faults > 0 /\ faults' = faults - 1

-----------------------------------------------------------------------------
(* User turns.                                                              *)

\* Between admitUserTurn and the terminal stamp of the turn.
InWindow(t) == turn[t] \in {"preparing", "running", "stamping"}

\* recordUserTurnTerminal and abandonUserTurnAdmission write the same column.
StampTerminal(t) ==
    /\ row' = [row EXCEPT ![ChatOf[t]] = [open |-> FALSE, paused |-> TRUE]]
    /\ shadowed' = [u \in Turns |->
                      shadowed[u] \/ (u # t /\ ChatOf[u] = ChatOf[t] /\ InWindow(u))]

\* claim: a web turn first claims its attempt.
ClaimAttempt(t) ==
    /\ KindOf[t] = "web" /\ turn[t] = "idle"
    /\ turn' = [turn EXCEPT ![t] = "claimed"]
    /\ attempt' = [attempt EXCEPT ![t] = "accepted"]
    /\ UNCHANGED <<receipt, row, shadowed, handle, scanned, lock, sch, faults>>

\* admitUserTurn.
AdmitUserTurn(t) ==
    /\ turn[t] = IF KindOf[t] = "web" THEN "claimed" ELSE "idle"
    /\ turn' = [turn EXCEPT ![t] = "preparing"]
    /\ row' = [row EXCEPT ![ChatOf[t]].open = TRUE]
    /\ UNCHANGED <<attempt, receipt, shadowed, handle, scanned, lock, sch, faults>>

\* A preparation that throws.  Before the admission nothing closes; after it the
\* window is closed.  The attempt of a web turn stays accepted either way.
PreparationFails(t) ==
    /\ \/ turn[t] = "claimed" /\ UNCHANGED <<row, shadowed>>
       \/ turn[t] = "preparing" /\ StampTerminal(t)
    /\ turn' = [turn EXCEPT ![t] = "done"]
    /\ UNCHANGED <<attempt, receipt, handle, scanned, lock, sch, faults>>

\* markRunning of a web turn, acceptance by the runtime of a Telegram turn.
StartTurn(t) ==
    /\ turn[t] = "preparing"
    /\ turn' = [turn EXCEPT ![t] = "running"]
    /\ attempt' = IF KindOf[t] = "web" THEN [attempt EXCEPT ![t] = "running"] ELSE attempt
    /\ receipt' = IF KindOf[t] = "telegram" THEN [receipt EXCEPT ![t] = TRUE] ELSE receipt
    /\ UNCHANGED <<row, shadowed, handle, scanned, lock, sch, faults>>

\* The runtime settles the receipt, whether the handler still waits or not.
ReceiptSettles(t) ==
    /\ receipt[t]
    /\ receipt' = [receipt EXCEPT ![t] = FALSE]
    /\ UNCHANGED <<turn, attempt, row, shadowed, handle, scanned, lock, sch, faults>>

\* mark{Completed,Failed,Interrupted} ends the attempt, then stamps the chat.
EndTurn(t) ==
    /\ turn[t] = "running"
    /\ turn' = [turn EXCEPT ![t] = "stamping"]
    /\ attempt' = IF KindOf[t] = "web" THEN [attempt EXCEPT ![t] = "ended"] ELSE attempt
    /\ UNCHANGED <<receipt, row, shadowed, handle, scanned, lock, sch, faults>>

StampTurn(t) ==
    /\ turn[t] = "stamping"
    /\ turn' = [turn EXCEPT ![t] = "done"]
    /\ StampTerminal(t)
    /\ UNCHANGED <<attempt, receipt, handle, scanned, lock, sch, faults>>

\* recordUserTurnTerminal swallows a failed update.
StampIsLost(t) ==
    /\ Fault
    /\ turn[t] = "stamping" /\ KindOf[t] # "sync"
    /\ turn' = [turn EXCEPT ![t] = "done"]
    /\ UNCHANGED <<attempt, receipt, row, shadowed, handle, scanned, lock, sch>>

HandlerDies(t) ==
    /\ Fault
    /\ turn[t] \notin {"idle", "done", "dead"}
    /\ turn' = [turn EXCEPT ![t] = "dead"]
    /\ UNCHANGED <<attempt, receipt, row, shadowed, handle, scanned, lock, sch>>

\* ReconcileOrphanWebChatTurnAttemptsService: the attempt has no owner any more.
\* The chat is not stamped.
ReconcileOrphan(t) ==
    /\ turn[t] \in {"done", "dead"} /\ attempt[t] \in {"accepted", "running"}
    /\ attempt' = [attempt EXCEPT ![t] = "ended"]
    /\ UNCHANGED <<turn, receipt, row, shadowed, handle, scanned, lock, sch, faults>>

IdlePauseEnds(c) ==
    /\ row[c].paused
    /\ row' = [row EXCEPT ![c].paused = FALSE]
    /\ UNCHANGED <<turn, attempt, receipt, shadowed, handle, scanned, lock, sch, faults>>

-----------------------------------------------------------------------------
(* The gate.                                                                *)

\* isWebUserTurnActive and isTelegramUserTurnActive.
WebRunning(t) == attempt[t] = "running"  \* mutant: an accepted attempt is not looked for.
WebActive(t) == attempt[t] \in {"accepted", "running"}
TelegramActive(t) == receipt[t]

TurnsOf(c) == {t \in Turns : ChatOf[t] = c}

\* The turns of the chat that left a trace besides its window.
Standing(c) == {t \in TurnsOf(c) : attempt[t] \in {"accepted", "running"} \/ receipt[t]}

GateAllows(c) ==
    /\ ~ row[c].open /\ ~ row[c].paused
    /\ \A t \in TurnsOf(c) : ~ WebActive(t) /\ ~ TelegramActive(t)

-----------------------------------------------------------------------------
(* The continuation scheduler: processDueBatch, one claim at a time.        *)

At(s, pc) == sch[s].pc = pc
Goto(s, pc) == sch' = [sch EXCEPT ![s].pc = pc]

\* What claimReadyHeadForChat and listCatchUpEligibleChats may take.
Claimable(h) == handle[h].state = "ready" /\ ~ handle[h].backoff
HandlesOf(c) == {h \in Handles : ChatOf[h] = c}
Eligible(c) == \E h \in HandlesOf(c) : Claimable(h)

\* listCatchUpEligibleChats: the eligible chats that were scanned least recently.
Page == {c \in Chats : Eligible(c) /\
            Cardinality({d \in Chats : Eligible(d) /\ scanned[d] < scanned[c]}) < ScanCap}

List(s) ==
    /\ At(s, "idle") /\ Page # {}
    /\ sch' = [sch EXCEPT ![s].pc = "scan", ![s].todo = [c \in Page |-> scanned[c]]]
    /\ UNCHANGED <<turnVars, handle, scanned, lock, faults>>

\* The loop of claimReadyCatchUps ends without a claim.
ScanEnds(s) ==
    /\ At(s, "scan") /\ DOMAIN sch[s].todo = {}
    /\ sch' = [sch EXCEPT ![s] = Idle]
    /\ UNCHANGED <<turnVars, handle, scanned, lock, faults>>

\* mutants: c goes to the front of the order; the scan is not recorded.
RecordScanFirst(c) == [scanned EXCEPT ![c] = 1]
RecordNoScan(c) == scanned

\* recordCatchUpScan: c moves to the end of the order.
RecordScan(c) ==
    [d \in Chats |-> IF d = c THEN Cardinality(Chats)
                     ELSE IF scanned[d] > scanned[c] THEN scanned[d] - 1 ELSE scanned[d]]

\* The next candidate: its scan is recorded whatever the gate says then.
Consider(s) ==
    LET todo == sch[s].todo
    IN  \E c \in DOMAIN todo :
          /\ At(s, "scan") /\ \A d \in DOMAIN todo : todo[c] <= todo[d]
          /\ scanned' = RecordScan(c)
          /\ sch' = [sch EXCEPT ![s].pc = IF GateAllows(c) THEN "lock" ELSE "scan",
                                ![s].todo = [d \in DOMAIN todo \ {c} |-> todo[d]], ![s].chat = c]
          /\ UNCHANGED <<turnVars, handle, lock, faults>>

\* acquireOrCreate.
Acquire(s) ==
    /\ At(s, "lock")
    /\ LET c == sch[s].chat
       IN  IF lock[c].holder = "free" \/ lock[c].expired
           THEN /\ lock' = [lock EXCEPT ![c] = [holder |-> s, expired |-> FALSE]]
                /\ Goto(s, "recheck")
           ELSE Goto(s, "scan") /\ UNCHANGED lock
    /\ UNCHANGED <<turnVars, handle, scanned, faults>>

\* The gate once more under the lock.
Recheck(s) ==
    /\ At(s, "recheck")
    /\ Goto(s, IF GateAllows(sch[s].chat) THEN "claim" ELSE "abandon")
    /\ UNCHANGED <<turnVars, handle, scanned, lock, faults>>

\* claimReadyHeadForChat.
Claim(s) ==
    /\ At(s, "claim")
    /\ \/ ~ Eligible(sch[s].chat) /\ Goto(s, "abandon") /\ UNCHANGED handle
       \/ \E h \in HandlesOf(sch[s].chat) :
             /\ Claimable(h)
             /\ handle' = [handle EXCEPT ![h].state = "claimed", ![h].owner = s]
             /\ sch' = [sch EXCEPT ![s].pc = "process", ![s].h = h, ![s].todo = Idle.todo]
    /\ UNCHANGED <<turnVars, scanned, lock, faults>>

\* mutant: release by key.
UnlockedByKey(s) == [lock EXCEPT ![sch[s].chat] = [holder |-> "free", expired |-> FALSE]]

\* releaseKey compares the token: the lease of another holder stays.
Unlocked(s) ==
    LET c == sch[s].chat
    IN  IF lock[c].holder = s
        THEN [lock EXCEPT ![c] = [holder |-> "free", expired |-> FALSE]] ELSE lock

Abandon(s) ==
    /\ At(s, "abandon")
    /\ lock' = Unlocked(s)
    /\ sch' = [sch EXCEPT ![s].pc = "scan", ![s].late = FALSE]
    /\ UNCHANGED <<turnVars, handle, scanned, faults>>

\* processClaim starts; evaluateCatchUpGate begins with what stands here.
Process(s) ==
    /\ At(s, "process")
    /\ sch' = [sch EXCEPT ![s].pc = IF sch[s].lost THEN "release" ELSE "window",
                          ![s].seen = Standing(sch[s].chat)]
    /\ UNCHANGED <<turnVars, handle, scanned, lock, faults>>

\* One read of the gate: denied, or on to the next.
Read(s, pc, denied, next) ==
    /\ At(s, pc)
    /\ Goto(s, IF denied THEN "release" ELSE next)
    /\ UNCHANGED <<turnVars, handle, scanned, lock, faults>>

Gate(s) ==
    LET c == sch[s].chat
    IN  \/ Read(s, "window", row[c].open, "attempts")
        \/ Read(s, "attempts", \E t \in TurnsOf(c) : WebActive(t), "receipts")
        \/ Read(s, "receipts", \E t \in TurnsOf(c) : TelegramActive(t), "pause")
        \/ Read(s, "pause", row[c].paused, "fence")

\* admitCatchUpAtBoundary: the conditional UPDATE of the chat row.
FenceAtPause(c) == ~ row[c].paused  \* mutant: the window is not compared again.
Fence(c) == ~ row[c].open /\ ~ row[c].paused

Admit(s) ==
    /\ At(s, "fence")
    /\ sch' = [sch EXCEPT ![s].pc = IF Fence(sch[s].chat) THEN "admitted" ELSE "release",
                          ![s].seen = {}]
    /\ UNCHANGED <<turnVars, handle, scanned, lock, faults>>

\* Some other turn holds the session of the chat.
SessionBusy(s) ==
    \/ \E t \in TurnsOf(sch[s].chat) : turn[t] = "running" \/ receipt[t]
    \/ \E r \in Schedulers \ {s} : At(r, "turn") /\ sch[r].chat = sch[s].chat

\* execute, if the lock is still held: the runtime accepts the turn or is busy.
Execute(s) ==
    /\ At(s, "admitted")
    /\ Goto(s, IF sch[s].lost \/ SessionBusy(s) THEN "release" ELSE "turn")
    /\ UNCHANGED <<turnVars, handle, scanned, lock, faults>>

Owns(s) == handle[sch[s].h].owner = s

\* completeClaim, or failClaimVisibly when the lock was lost meanwhile.
CatchUpEnds(s) ==
    /\ At(s, "turn")
    /\ handle' = IF Owns(s)
                 THEN [handle EXCEPT ![sch[s].h].state = "done", ![sch[s].h].owner = None]
                 ELSE handle
    /\ Goto(s, "unlock")
    /\ UNCHANGED <<turnVars, scanned, lock, faults>>

\* releaseClaimToReady, with a retry in the future.
ReleaseClaim(s) ==
    /\ At(s, "release")
    /\ handle' = IF Owns(s)
                 THEN [handle EXCEPT ![sch[s].h] = [state |-> "ready", backoff |-> TRUE, owner |-> None]]
                 ELSE handle
    /\ Goto(s, "unlock")
    /\ UNCHANGED <<turnVars, scanned, lock, faults>>

\* releaseCatchUp in the finally of processDueBatch.
Unlock(s) ==
    /\ At(s, "unlock")
    /\ lock' = Unlocked(s)
    /\ sch' = [sch EXCEPT ![s] = Idle]
    /\ UNCHANGED <<turnVars, handle, scanned, faults>>

BackoffEnds(h) ==
    /\ handle[h].backoff
    /\ handle' = [handle EXCEPT ![h].backoff = FALSE]
    /\ UNCHANGED <<turnVars, scanned, lock, sch, faults>>

-----------------------------------------------------------------------------
(* Time and crashes.                                                        *)

Holding == {"recheck", "claim", "abandon", "process", "window", "attempts", "receipts",
            "pause", "fence", "admitted", "turn", "release", "unlock"}
Heartbeating == Holding \ {"recheck", "claim", "abandon"}

\* heartbeatKey renews by token alone, also after the expiry.
Heartbeat(s) ==
    /\ sch[s].pc \in Heartbeating /\ ~ sch[s].lost
    /\ LET c == sch[s].chat
       IN  IF lock[c].holder = s
           THEN lock[c].expired /\ lock' = [lock EXCEPT ![c].expired = FALSE] /\ UNCHANGED sch
           ELSE sch' = [sch EXCEPT ![s].lost = TRUE] /\ UNCHANGED lock
    /\ UNCHANGED <<turnVars, handle, scanned, faults>>

\* The lease of a holder that died, or that was stalled for longer than its TTL.
LeaseExpires(c) ==
    /\ lock[c].holder # "free" /\ ~ lock[c].expired
    /\ lock' = [lock EXCEPT ![c].expired = TRUE]
    /\ IF lock[c].holder = "dead"
       THEN UNCHANGED <<sch, faults>>
       ELSE Fault /\ sch' = [sch EXCEPT ![lock[c].holder].late = TRUE]
    /\ UNCHANGED <<turnVars, handle, scanned>>

Crash(s) ==
    /\ Fault
    /\ ~ At(s, "idle")
    /\ sch' = [sch EXCEPT ![s] = Idle]
    /\ lock' = [c \in Chats |-> IF lock[c].holder = s THEN [lock[c] EXCEPT !.holder = "dead"] ELSE lock[c]]
    /\ handle' = [h \in Handles |-> IF handle[h].owner = s THEN [handle[h] EXCEPT !.owner = "dead"] ELSE handle[h]]
    /\ UNCHANGED <<turnVars, scanned>>

\* reconcileExpiredClaims: the claim of a dead or stalled owner is requeued, or
\* settled from the receipt of its turn.
ClaimExpires(h) ==
    /\ handle[h].state = "claimed"
    /\ handle[h].owner \in {"dead"} \cup {s \in Schedulers : sch[s].late}
    /\ \E state \in {"ready", "done"} :
          handle' = [handle EXCEPT ![h] = [state |-> state, backoff |-> state = "ready", owner |-> None]]
    /\ UNCHANGED <<turnVars, scanned, lock, sch, faults>>

-----------------------------------------------------------------------------
TurnStep(t) ==
    AdmitUserTurn(t) \/ StartTurn(t) \/ EndTurn(t) \/ StampTurn(t)

UserTurn(t) ==
    \/ ClaimAttempt(t) \/ TurnStep(t) \/ PreparationFails(t) \/ ReceiptSettles(t)
    \/ StampIsLost(t) \/ HandlerDies(t) \/ ReconcileOrphan(t)

Step(s) ==
    \/ ScanEnds(s) \/ Consider(s) \/ Acquire(s) \/ Recheck(s) \/ Claim(s) \/ Abandon(s)
    \/ Process(s) \/ Gate(s) \/ Admit(s) \/ Execute(s) \/ CatchUpEnds(s) \/ ReleaseClaim(s)
    \/ Unlock(s)

Next ==
    \/ \E t \in Turns : UserTurn(t)
    \/ \E s \in Schedulers : List(s) \/ Step(s) \/ Heartbeat(s) \/ Crash(s)
    \/ \E c \in Chats : IdlePauseEnds(c) \/ LeaseExpires(c)
    \/ \E h \in Handles : BackoffEnds(h) \/ ClaimExpires(h)

Spec == Init /\ [][Next]_vars

\* Requests run to their end, attempts without an owner are reconciled, timers
\* fire; each scheduler polls and goes on; leases of the dead run out.
Fairness ==
    /\ \A t \in Turns : WF_vars(TurnStep(t)) /\ WF_vars(ReceiptSettles(t)) /\ WF_vars(ReconcileOrphan(t))
    /\ \A s \in Schedulers : WF_vars(List(s)) /\ WF_vars(Step(s))
    /\ \A c \in Chats : WF_vars(IdlePauseEnds(c)) /\ WF_vars(LeaseExpires(c) /\ lock[c].holder = "dead")
    /\ \A h \in Handles : WF_vars(BackoffEnds(h)) /\ WF_vars(ClaimExpires(h))

FairSpec == Spec /\ Fairness

-----------------------------------------------------------------------------
(* Properties.                                                              *)

\* Some chats, each with the place it had when it was listed.
Todos == UNION {[S -> Places] : S \in SUBSET Chats}

SchedulerStates ==
    [pc : {"idle", "scan", "lock"} \cup Holding, todo : Todos, chat : Chats \cup {None},
     h : Handles \cup {None}, lost : BOOLEAN, late : BOOLEAN, seen : SUBSET Turns]

TurnsTyped ==
    /\ turn \in [Turns -> {"idle", "claimed", "preparing", "running", "stamping", "done", "dead"}]
    /\ attempt \in [Turns -> {"none", "accepted", "running", "ended"}]
    /\ receipt \in [Turns -> BOOLEAN]
    /\ row \in [Chats -> [open : BOOLEAN, paused : BOOLEAN]]
    /\ shadowed \in [Turns -> BOOLEAN]

HandlesTyped ==
    handle \in [Handles -> [state : {"ready", "claimed", "done"}, backoff : BOOLEAN,
                           owner : Schedulers \cup {None, "dead"}]]

LeasesTyped ==
    lock \in [Chats -> [holder : Schedulers \cup {"free", "dead"}, expired : BOOLEAN]]

SchedulersTyped == sch \in [Schedulers -> SchedulerStates]

\* Every variable keeps its type; recordCatchUpScan keeps scanned an order of all
\* chats.
TypeOK ==
    /\ TurnsTyped /\ HandlesTyped /\ LeasesTyped /\ SchedulersTyped
    /\ scanned \in Orders /\ faults \in 0 .. MaxFaults

Admits(s) == At(s, "fence") /\ sch'[s].pc = "admitted"

\* admitCatchUpAtBoundary: "USER_TURNs whose preparing stamp commits first make
\* its predicate fail", unless the stamp of another turn of the chat closed the
\* window in between.
UserTurnFirst ==
    [][\A s \in Schedulers : Admits(s) =>
          \A t \in TurnsOf(sch[s].chat) : InWindow(t) => shadowed[t]]_vars

\* evaluateCatchUpGate is four reads: a turn that has an attempt or a receipt
\* when they begin, and still has it at the UPDATE, keeps the catch-up out, also
\* after its window was closed by another turn.
StandingTurnBlocks ==
    [][\A s \in Schedulers : Admits(s) => sch[s].seen \cap Standing(sch[s].chat) = {}]_vars

\* "async-catchup:<chat>": two schedulers are past the lock of one chat only if
\* one of them was stalled past the TTL of its lease.
SerialCatchUps ==
    \A s, r \in Schedulers :
        s # r /\ sch[s].pc \in Holding /\ sch[r].pc \in Holding /\ sch[s].chat = sch[r].chat
            => sch[s].late \/ sch[r].late

\* The window of the chat was left open by a turn that is over.
Stranded(c) == row[c].open /\ \A t \in TurnsOf(c) : ~ InWindow(t)

\* A ready handle is narrated or given up, however busy its chat and the other
\* chats are, unless its chat is stranded (ADR-159, fairness between chats).
ReadyServed ==
    \A h \in Handles :
        handle[h].state = "ready" ~> handle[h].state = "done" \/ Stranded(ChatOf[h])
=============================================================================
