------------------------- MODULE RuntimeTurnProofs -------------------------
(***************************************************************************)
(* Proofs about RuntimeTurn, for any number of requests, compaction runs,  *)
(* reconcilers and keys.                                                   *)
(***************************************************************************)
EXTENDS RuntimeTurn, TLAPS

-----------------------------------------------------------------------------
(* Type correctness.                                                        *)

\* Every row that exists carries the requestId of a request of its own key.
RowsNamed ==
    \A k \in Keys :
        IF receipt[k].status = "absent"
        THEN receipt[k].req = None
        ELSE \E r \in Requests : IdOf[r] = receipt[k].req /\ KeyOf[r] = k

\* A reconciler between two steps has a candidate.
CandidateNamed == \A q \in Reconcilers : rpc[q] # "idle" => cand[q] \in Candidates

TypeInv == TypeOK /\ RowsNamed /\ CandidateNamed

\* The initial state is well typed: nobody has arrived, nothing is stored.
LEMMA TypeInvInit == Init => TypeInv
BY ConstantsAssumption DEF Init, TypeInv, TypeOK, RowsNamed, CandidateNamed, Row, RequestStates,
   CompactorStates, Outcomes, ReceiptStatus, Receipts, Workers

\* A request carries a requestId.
LEMMA IdTyped == \A r \in Requests : IdOf[r] \in RequestIds
BY DEF RequestIds

\* The rows that a step writes are receipts.
LEMMA RowTyped ==
    ASSUME NEW s \in ReceiptStatus, NEW id \in RequestIds \cup {None}
    PROVE  Row(s, id) \in Receipts
BY DEF Row, Receipts

\* The steps of acceptTurn keep every variable in its type.
LEMMA TypeOKAccept ==
    ASSUME TypeOK, NEW r \in Requests, ReadMarker(r) \/ Accept(r)
    PROVE  TypeOK'
<1> USE ConstantsAssumption, IdTyped
    DEF TypeOK, Goto, GotoRelease, workerVars, redisVars, reconVars, RequestStates,
        CompactorStates, Outcomes, Workers
<1>0. "accepted" \in ReceiptStatus /\ \A k \in Keys : receipt[k].req \in RequestIds \cup {None}
  BY DEF ReceiptStatus, Receipts
<1>1. CASE ReadMarker(r)
  BY <1>1 DEF ReadMarker
<1>2. CASE ReadHinted(r)
  BY <1>2, <1>0 DEF ReadHinted
<1>3. CASE ReadKey(r)
  BY <1>3, <1>0 DEF ReadKey
<1>4. CASE WriteMarker(r)
  <2>1. marker' \in [Keys -> RequestIds \cup {None}]
    <3>1. CASE marker' = marker
      BY <3>1
    <3>2. CASE marker' = [marker EXCEPT ![KeyOf[r]] = hint[r]]
      BY <3>2
    <3> QED
      BY <1>4, <3>1, <3>2 DEF WriteMarker
  <2>2. CASE Goto(r, "publishReplay", "ended")
    BY <1>4, <2>1, <2>2 DEF WriteMarker
  <2>3. CASE Goto(r, "publish", "clearClaim")
    BY <1>4, <2>1, <2>3 DEF WriteMarker
  <2> QED
    BY <1>4, <2>2, <2>3 DEF WriteMarker
<1>5. CASE ClaimLease(r)
  <2>1. CASE inFlight[KeyOf[r]] # None \/ lease # None
    <3>1. /\ Goto(r, "claim", "ended")
          /\ outcome' = [outcome EXCEPT ![r] = "refused"]
          /\ UNCHANGED <<lease, inFlight>>
      BY <1>5, <2>1 DEF ClaimLease
    <3> QED
      BY <1>5, <3>1 DEF ClaimLease
  <2>2. CASE inFlight[KeyOf[r]] = None /\ lease = None
    <3>1. /\ Goto(r, "claim", "insert")
          /\ lease' = r /\ inFlight' = [inFlight EXCEPT ![KeyOf[r]] = IdOf[r]]
          /\ UNCHANGED outcome
      BY <1>5, <2>2 DEF ClaimLease
    <3> QED
      BY <1>5, <3>1 DEF ClaimLease
  <2> QED
    BY <2>1, <2>2
<1>6. CASE InsertReceipt(r)
  <2>1. CASE receipt[KeyOf[r]].status = "absent"
    <3>1. /\ Goto(r, "insert", "publish")
          /\ receipt' = [receipt EXCEPT ![KeyOf[r]] = Row("accepted", IdOf[r])]
          /\ hint' = [hint EXCEPT ![r] = IdOf[r]]
          /\ outcome' = [outcome EXCEPT ![r] = "accepted"]
      BY <1>6, <2>1 DEF InsertReceipt
    <3>2. receipt' \in [Keys -> Receipts]
      BY <3>1, <1>0, RowTyped
    <3> QED
      BY <1>6, <3>1, <3>2 DEF InsertReceipt
  <2>2. CASE receipt[KeyOf[r]].status # "absent"
    BY <1>6, <2>2 DEF InsertReceipt
  <2> QED
    BY <2>1, <2>2
<1>7. CASE RereadKey(r)
  BY <1>7, <1>0 DEF RereadKey
<1>8. CASE ReclaimReceipt(r)
  <2>1. CASE receipt[KeyOf[r]].status = "orphaned"
    <3>1. receipt' \in [Keys -> Receipts]
      BY <1>8, <2>1, <1>0, RowTyped DEF ReclaimReceipt
    <3> QED
      BY <1>8, <2>1, <3>1 DEF ReclaimReceipt
  <2>2. CASE receipt[KeyOf[r]].status # "orphaned"
    BY <1>8, <2>2 DEF ReclaimReceipt
  <2> QED
    BY <2>1, <2>2
<1>9. CASE ConfirmReclaim(r)
  BY <1>9, <1>0 DEF ConfirmReclaim
<1>10. CASE CreateThrows(r)
  BY <1>10 DEF CreateThrows
<1>11. CASE AbortClaim(r)
  <2>1. CASE inFlight' = inFlight
    BY <1>11, <2>1 DEF AbortClaim
  <2>2. CASE inFlight' = [inFlight EXCEPT ![KeyOf[r]] = None]
    BY <1>11, <2>2 DEF AbortClaim
  <2> QED
    BY <1>11, <2>1, <2>2 DEF AbortClaim
<1>12. CASE ClearClaim(r)
  <2>1. inFlight' \in [Keys -> RequestIds \cup {None}]
    <3>1. CASE inFlight' = inFlight
      BY <3>1
    <3>2. CASE inFlight' = [inFlight EXCEPT ![KeyOf[r]] = None]
      BY <3>2
    <3> QED
      BY <1>12, <3>1, <3>2 DEF ClearClaim
  <2>2. CASE GotoRelease(r, "clearClaim", "ended")
    BY <1>12, <2>1, <2>2 DEF ClearClaim
  <2>3. CASE Goto(r, "clearClaim", "prepare") /\ UNCHANGED after
    BY <1>12, <2>1, <2>3 DEF ClearClaim
  <2> QED
    BY <1>12, <2>2, <2>3 DEF ClearClaim
<1> QED
  BY <1>1, <1>2, <1>3, <1>4, <1>5, <1>6, <1>7, <1>8, <1>9, <1>10, <1>11, <1>12 DEF Accept

\* The steps of the execution and of the finalization keep every variable in its
\* type; Persist writes a row of the request itself.
LEMMA TypeOKRun ==
    ASSUME TypeOK, NEW r \in Requests, Execute(r) \/ Finalize(r)
    PROVE  TypeOK'
<1> USE ConstantsAssumption, IdTyped
    DEF TypeOK, Goto, GotoRelease, workerVars, redisVars, reconVars, RequestStates,
        CompactorStates, Outcomes, Workers
<1>0. \A s \in {"completed", "failed", "interrupted"} :
          Persist(r, s) => receipt' \in [Keys -> Receipts]
  <2>1. \A s \in {"completed", "failed", "interrupted"} : s \in ReceiptStatus
    BY DEF ReceiptStatus
  <2> QED
    BY <2>1, RowTyped DEF Persist
<1>1. CASE StartRun(r)
  BY <1>1 DEF StartRun
<1>2. CASE PrepareThrows(r)
  BY <1>2 DEF PrepareThrows
<1>3. CASE FinishRun(r)
  BY <1>3 DEF FinishRun
<1>4. CASE StopRun(r)
  BY <1>4 DEF StopRun
<1>5. CASE HeartbeatLost(r)
  BY <1>5 DEF HeartbeatLost
<1>6. CASE CompleteTurn(r)
  <2>1. receipt' \in [Keys -> Receipts]
    BY <1>6, <1>0 DEF CompleteTurn
  <2>2. PICK to \in {"ended", CompletionThrew(r)} : GotoRelease(r, "complete", to)
    BY <1>6 DEF CompleteTurn
  <2>3. to \in {"ended", "fail"}
    BY <2>2 DEF CompletionThrew
  <2> QED
    BY <1>6, <2>1, <2>2, <2>3 DEF CompleteTurn
<1>7. CASE CompleteThrows(r)
  BY <1>7 DEF CompleteThrows, CompletionThrew
<1>8. CASE FailTurn(r)
  <2>1. receipt' \in [Keys -> Receipts]
    BY <1>8, <1>0 DEF FailTurn
  <2>2. PICK at \in {"failInner", "fail"} :
            \E to \in {FailureDone(at), FailureThrew(r, at)} : GotoRelease(r, at, to)
    BY <1>8 DEF FailTurn
  <2>3. PICK to \in {FailureDone(at), FailureThrew(r, at)} : GotoRelease(r, at, to)
    BY <2>2
  <2>4. to \in {"ended", "fail", "failMinimal", "failInnerMinimal"}
    BY <2>2, <2>3 DEF FailureDone, FailureThrew
  <2> QED
    BY <1>8, <2>1, <2>3, <2>4 DEF FailTurn
<1>9. CASE FailThrows(r)
  BY <1>9 DEF FailThrows, FailureThrew
<1>10. CASE FailTurnMinimal(r)
  <2>1. receipt' \in [Keys -> Receipts]
    BY <1>10, <1>0 DEF FailTurnMinimal
  <2>2. PICK at \in {"failInnerMinimal", "failMinimal"} : GotoRelease(r, at, FailureDone(at))
    BY <1>10 DEF FailTurnMinimal
  <2>3. FailureDone(at) \in {"ended", "fail"}
    BY DEF FailureDone
  <2> QED
    BY <1>10, <2>1, <2>2, <2>3 DEF FailTurnMinimal
<1>11. CASE InterruptTurn(r)
  <2>1. receipt' \in [Keys -> Receipts]
    BY <1>11, <1>0 DEF InterruptTurn
  <2> QED
    BY <1>11, <2>1 DEF InterruptTurn
<1>12. CASE SettleThrows(r)
  BY <1>12 DEF SettleThrows, FailureDone
<1> QED
  BY <1>1, <1>2, <1>3, <1>4, <1>5, <1>6, <1>7, <1>8, <1>9, <1>10, <1>11, <1>12
     DEF Execute, Finalize

\* So do the release of the lease, compaction, crashes and timeouts.
LEMMA TypeOKLease ==
    ASSUME TypeOK,
           \/ \E w \in Workers : Release(w) \/ Crash(w)
           \/ \E c \in Compactors : AcquireForCompaction(c) \/ FinishCompaction(c)
           \/ Expire
    PROVE  TypeOK'
<1> USE ConstantsAssumption
    DEF TypeOK, Goto, GotoRelease, workerVars, redisVars, reconVars, RequestStates,
        CompactorStates, Outcomes
<1>1. ASSUME NEW w \in Workers, Release(w)
      PROVE  TypeOK'
  <2>1. after[w] \in {"ended", "fail", "failMinimal", "failInnerMinimal"}
    OBVIOUS
  <2>2. CASE ReadLease(w)
    BY <2>1, <2>2 DEF ReadLease, Released
  <2>3. CASE DeleteLease(w)
    BY <2>1, <2>3 DEF DeleteLease, Released
  <2>4. CASE ReleaseThrows(w)
    BY <2>1, <2>4 DEF ReleaseThrows, Released
  <2> QED
    BY <1>1, <2>2, <2>3, <2>4 DEF Release
<1>2. ASSUME NEW w \in Workers, Crash(w)
      PROVE  TypeOK'
  BY <1>2 DEF Crash
<1>3. ASSUME NEW c \in Compactors, AcquireForCompaction(c) \/ FinishCompaction(c)
      PROVE  TypeOK'
  <2>1. c \in Workers
    BY DEF Workers
  <2>2. CASE AcquireForCompaction(c)
    BY <2>1, <2>2 DEF AcquireForCompaction
  <2>3. CASE FinishCompaction(c)
    BY <2>1, <2>3 DEF FinishCompaction
  <2> QED
    BY <1>3, <2>2, <2>3
<1>4. CASE Expire
  <2>1. CASE LeaseExpires
    BY <2>1 DEF LeaseExpires
  <2>2. ASSUME NEW k \in Keys, InFlightExpires(k)
        PROVE  TypeOK'
    BY <2>2 DEF InFlightExpires
  <2>3. ASSUME NEW k \in Keys, GraceElapses(k)
        PROVE  TypeOK'
    <3>1. [status |-> "accepted", req |-> receipt[k].req, stale |-> TRUE] \in Receipts
      BY DEF Receipts, ReceiptStatus
    <3>2. receipt' \in [Keys -> Receipts]
      BY <2>3, <3>1 DEF GraceElapses
    <3> QED
      BY <2>3, <3>2 DEF GraceElapses
  <2> QED
    BY <1>4, <2>1, <2>2, <2>3 DEF Expire
<1> QED
  BY <1>1, <1>2, <1>3, <1>4

\* So does the reconciler, whose candidates carry requestIds because the rows do.
LEMMA TypeOKReconcile ==
    ASSUME TypeInv, NEW q \in Reconcilers, Reconcile(q)
    PROVE  TypeOK'
<1> USE ConstantsAssumption
    DEF TypeOK, workerVars, redisVars, reconVars
<1>0. TypeOK /\ RowsNamed /\ CandidateNamed
  BY DEF TypeInv
<1>1. CASE FindCandidates(q)
  <2>1. ASSUME NEW k \in Keys, receipt[k].status = "accepted"
        PROVE  [key |-> k, req |-> receipt[k].req] \in Candidates
    BY <1>0, <2>1, IdTyped DEF Candidates, RowsNamed
  <2>2. StaleAccepted \in SUBSET Candidates
    BY <2>1 DEF StaleAccepted, CandidatesAt
  <2> QED
    BY <1>0, <1>1, <2>2 DEF FindCandidates
<1>2. CASE CheckInFlight(q)
  <2>1. PICK c \in batch[q] :
          /\ batch' = [batch EXCEPT ![q] = @ \ {c}]
          /\ cand' \in {cand, [cand EXCEPT ![q] = c]}
          /\ rpc' \in {rpc, [rpc EXCEPT ![q] = "lease"]}
    BY <1>2 DEF CheckInFlight
  <2>2. c \in Candidates
    BY <1>0
  <2>3. batch' \in [Reconcilers -> SUBSET Candidates]
    BY <1>0, <2>1
  <2> QED
    BY <1>0, <1>2, <2>1, <2>2, <2>3 DEF CheckInFlight
<1>3. CASE CheckLease(q)
  BY <1>0, <1>3 DEF CheckLease, GiveUp
<1>4. CASE MarkOrphaned(q)
  <2>1. cand[q].key \in Keys /\ cand[q].req \in RequestIds
    BY <1>0, <1>4 DEF CandidateNamed, Candidates, MarkOrphaned
  <2>2. receipt' \in [Keys -> Receipts]
    <3>1. "orphaned" \in ReceiptStatus
      BY DEF ReceiptStatus
    <3> QED
      BY <1>0, <1>4, <2>1, <3>1, RowTyped DEF MarkOrphaned
  <2> QED
    BY <1>0, <1>4, <2>2 DEF MarkOrphaned, GiveUp
<1>5. CASE ClearOrphanMarker(q)
  BY <1>0, <1>5 DEF ClearOrphanMarker, GiveUp
<1> QED
  BY <1>1, <1>2, <1>3, <1>4, <1>5 DEF Reconcile

-----------------------------------------------------------------------------
(* What one step can do to a row, to the lease and to the handlers: the     *)
(* facts every invariant below is preserved by.                             *)

\* Where a handler has not claimed the lease yet.
Early == {"idle", "readHinted", "readKey", "claim"}

\* Where a handler counts on the lease.
Holding ==
    {"insert", "reread", "reclaim", "confirm", "publish", "abort", "clearClaim",
     "prepare", "running", "complete", "compacting", "relDelete"}

Inserts(r) ==
    /\ pc[r] = "insert" /\ receipt[KeyOf[r]].status = "absent"
    /\ receipt' = [receipt EXCEPT ![KeyOf[r]] = Row("accepted", IdOf[r])]
    /\ replied' = replied

Reclaims(r) ==
    /\ pc[r] = "reclaim" /\ receipt[KeyOf[r]].status = "orphaned"
    /\ receipt' = [receipt EXCEPT ![KeyOf[r]] = Row("accepted", IdOf[r])]
    /\ replied' = replied

Settles(r) ==
    /\ pc[r] \notin Early /\ Owns(r)
    /\ \E s \in Settled : receipt' = [receipt EXCEPT ![KeyOf[r]] = Row(s, IdOf[r])]
    /\ replied' \in {replied, replied \cup {r}}

Orphans(q) ==
    LET c == cand[q] IN
    /\ rpc[q] = "update" /\ receipt[c.key].req = c.req /\ receipt[c.key].status = "accepted"
    /\ receipt' = [receipt EXCEPT ![c.key] = Row("orphaned", c.req)]
    /\ replied' = replied

Ages(k) ==
    /\ receipt[k].status = "accepted"
    /\ receipt' = [receipt EXCEPT ![k] =
          [status |-> "accepted", req |-> receipt[k].req, stale |-> TRUE]]
    /\ replied' = replied

\* Every step changes at most one row, in one of these ways.
RowStep ==
    \/ receipt' = receipt /\ replied' = replied
    \/ \E r \in Requests : Inserts(r) \/ Reclaims(r) \/ Settles(r)
    \/ \E q \in Reconcilers : Orphans(q)
    \/ \E k \in Keys : Ages(k)

\* The lease is taken by a request at its claim or by a compactor, only while it
\* is free, and given up by a release or by its TTL.
LeaseStep ==
    \/ lease' = lease
    \/ lease = None /\ lease' \in Compactors
    \/ lease = None /\ lease' \in Requests /\ pc[lease'] = "claim"
    \/ lease' = None /\ \E w \in Workers : pc[w] = "relDelete" /\ pc'[w] \notin Holding
    \/ lease' = None /\ pc' = pc /\ (lease \in Sheltered => pc[lease] = "ended")

\* A handler never returns to its arrival, takes up work only with the lease,
\* reclaims only what may be reclaimed, and is accepted by an insert or a reclaim.
HandlerStep ==
    /\ \A w \in Workers :
          /\ pc[w] \notin Early => pc'[w] \notin Early
          /\ pc'[w] \in Holding => pc[w] \in Holding \/ lease' = w
    /\ \A r \in Requests :
          /\ pc'[r] \in {"reclaim", "confirm"} =>
                pc[r] \in {"reclaim", "confirm"} \/ KeyOf[r] \notin AsyncKeys
          /\ outcome'[r] = "accepted" =>
                \/ outcome[r] = "accepted"
                \/ /\ Inserts(r) \/ pc[r] = "confirm"
                   /\ \A s \in Requests : s # r => outcome'[s] = outcome[s]

\* A reconciler works on a candidate of its batch, which it filled with stale
\* accepted rows, and goes on to the update only when it saw the lease free.
ReconcilerStep ==
    \A q \in Reconcilers :
        /\ batch'[q] \subseteq batch[q] \cup StaleAccepted
        /\ rpc'[q] # "idle" =>
              \/ rpc[q] # "idle" /\ cand'[q] = cand[q]
              \/ rpc'[q] = "lease" /\ cand'[q] \in batch[q]
        /\ rpc'[q] = "update" => rpc[q] = "update" \/ (lease = None /\ lease' = None)

Step == RowStep /\ LeaseStep /\ HandlerStep /\ ReconcilerStep

\* No step of a handler or of the environment touches the reconcilers.
LEMMA ReconcilersUnchanged == UNCHANGED reconVars => ReconcilerStep
BY DEF reconVars, ReconcilerStep

\* The steps of acceptTurn have this shape.
LEMMA StepAccept ==
    ASSUME TypeOK, NEW r \in Requests, ReadMarker(r) \/ Accept(r)
    PROVE  Step
<1> USE ConstantsAssumption
    DEF Goto, GotoRelease, redisVars, Early, Holding
<1>0. /\ r \in Workers /\ Requests \subseteq Workers
      /\ pc \in [Workers -> RequestStates \cup CompactorStates]
      /\ outcome \in [Requests -> Outcomes]
      /\ receipt \in [Keys -> Receipts]
      /\ KeyOf \in [Requests -> Keys]
      /\ UNCHANGED reconVars => ReconcilerStep
  BY ReconcilersUnchanged DEF TypeOK, Workers
<1>1. CASE ReadMarker(r)
  BY <1>0, <1>1 DEF ReadMarker, Step, RowStep, LeaseStep, HandlerStep
<1>2. CASE ReadHinted(r)
  BY <1>0, <1>2 DEF ReadHinted, Step, RowStep, LeaseStep, HandlerStep
<1>3. CASE ReadKey(r)
  BY <1>0, <1>3 DEF ReadKey, Step, RowStep, LeaseStep, HandlerStep
<1>4. CASE WriteMarker(r)
  <2>1. CASE Goto(r, "publishReplay", "ended")
    BY <1>0, <1>4, <2>1 DEF WriteMarker, Step, RowStep, LeaseStep, HandlerStep
  <2>2. CASE Goto(r, "publish", "clearClaim")
    BY <1>0, <1>4, <2>2 DEF WriteMarker, Step, RowStep, LeaseStep, HandlerStep
  <2> QED
    BY <1>4, <2>1, <2>2 DEF WriteMarker
<1>5. CASE ClaimLease(r)
  <2>1. CASE lease' = lease /\ Goto(r, "claim", "ended")
             /\ outcome' = [outcome EXCEPT ![r] = "refused"]
    BY <1>0, <1>5, <2>1 DEF ClaimLease, Step, RowStep, LeaseStep, HandlerStep
  <2>2. CASE lease = None /\ lease' = r /\ Goto(r, "claim", "insert") /\ outcome' = outcome
    BY <1>0, <1>5, <2>2 DEF ClaimLease, Step, RowStep, LeaseStep, HandlerStep
  <2> QED
    BY <1>5, <2>1, <2>2 DEF ClaimLease
<1>6. CASE InsertReceipt(r)
  <2>1. CASE receipt[KeyOf[r]].status = "absent"
    <3>1. Inserts(r)
      BY <1>6, <2>1 DEF InsertReceipt, Inserts
    <3>2. RowStep
      BY <3>1 DEF RowStep
    <3> QED
      BY <1>0, <1>6, <2>1, <3>1, <3>2 DEF InsertReceipt, Step, LeaseStep, HandlerStep
  <2>2. CASE receipt[KeyOf[r]].status # "absent"
    BY <1>0, <1>6, <2>2 DEF InsertReceipt, Step, RowStep, LeaseStep, HandlerStep
  <2> QED
    BY <2>1, <2>2
<1>7. CASE RereadKey(r)
  BY <1>0, <1>7 DEF RereadKey, Reclaimable, Step, RowStep, LeaseStep, HandlerStep
<1>8. CASE ReclaimReceipt(r)
  <2>1. CASE receipt[KeyOf[r]].status = "orphaned"
    <3>1. Reclaims(r)
      BY <1>8, <2>1 DEF ReclaimReceipt, Reclaims
    <3>2. RowStep
      BY <3>1 DEF RowStep
    <3> QED
      BY <1>0, <1>8, <2>1, <3>2 DEF ReclaimReceipt, Step, LeaseStep, HandlerStep
  <2>2. CASE receipt[KeyOf[r]].status # "orphaned"
    BY <1>0, <1>8, <2>2 DEF ReclaimReceipt, Step, RowStep, LeaseStep, HandlerStep
  <2> QED
    BY <2>1, <2>2
<1>9. CASE ConfirmReclaim(r)
  BY <1>0, <1>9 DEF ConfirmReclaim, Owns, Step, RowStep, LeaseStep, HandlerStep
<1>10. CASE CreateThrows(r)
  BY <1>0, <1>10 DEF CreateThrows, Step, RowStep, LeaseStep, HandlerStep
<1>11. CASE AbortClaim(r)
  BY <1>0, <1>11 DEF AbortClaim, Step, RowStep, LeaseStep, HandlerStep
<1>12. CASE ClearClaim(r)
  BY <1>0, <1>12 DEF ClearClaim, Step, RowStep, LeaseStep, HandlerStep
<1> QED
  BY <1>1, <1>2, <1>3, <1>4, <1>5, <1>6, <1>7, <1>8, <1>9, <1>10, <1>11, <1>12 DEF Accept

\* So do those of the execution and of the finalization.
LEMMA StepRun ==
    ASSUME TypeOK, NEW r \in Requests, Execute(r) \/ Finalize(r)
    PROVE  Step
<1> USE ConstantsAssumption
    DEF Goto, GotoRelease, redisVars, Early, Holding
<1>0. /\ r \in Workers /\ Requests \subseteq Workers
      /\ pc \in [Workers -> RequestStates \cup CompactorStates]
      /\ outcome \in [Requests -> Outcomes]
      /\ UNCHANGED reconVars => ReconcilerStep
  BY ReconcilersUnchanged DEF TypeOK, Workers
<1>r. ASSUME Persist(r, "completed") \/ Persist(r, "failed") \/ Persist(r, "interrupted"),
             pc[r] \notin Early, replied' \in {replied, replied \cup {r}}
      PROVE  RowStep
  <2>1. Settles(r)
    BY <1>r DEF Persist, Settles, Settled
  <2> QED
    BY <2>1 DEF RowStep
<1>1. CASE StartRun(r)
  BY <1>0, <1>1 DEF StartRun, Step, RowStep, LeaseStep, HandlerStep
<1>2. CASE PrepareThrows(r)
  BY <1>0, <1>2 DEF PrepareThrows, Step, RowStep, LeaseStep, HandlerStep
<1>3. CASE FinishRun(r)
  BY <1>0, <1>3 DEF FinishRun, Step, RowStep, LeaseStep, HandlerStep
<1>4. CASE StopRun(r)
  BY <1>0, <1>4 DEF StopRun, Step, RowStep, LeaseStep, HandlerStep
<1>5. CASE HeartbeatLost(r)
  BY <1>0, <1>5 DEF HeartbeatLost, Step, RowStep, LeaseStep, HandlerStep
<1>6. CASE CompleteTurn(r)
  <2>1. RowStep
    BY <1>0, <1>6, <1>r DEF CompleteTurn
  <2> QED
    BY <1>0, <1>6, <2>1 DEF CompleteTurn, Step, LeaseStep, HandlerStep
<1>7. CASE CompleteThrows(r)
  BY <1>0, <1>7 DEF CompleteThrows, CompletionThrew, Step, RowStep, LeaseStep, HandlerStep
<1>8. CASE FailTurn(r)
  <2>1. RowStep
    BY <1>0, <1>8, <1>r DEF FailTurn
  <2> QED
    BY <1>0, <1>8, <2>1 DEF FailTurn, Step, LeaseStep, HandlerStep
<1>9. CASE FailThrows(r)
  BY <1>0, <1>9 DEF FailThrows, FailureThrew, Step, RowStep, LeaseStep, HandlerStep
<1>10. CASE FailTurnMinimal(r)
  <2>1. RowStep
    BY <1>0, <1>10, <1>r DEF FailTurnMinimal
  <2> QED
    BY <1>0, <1>10, <2>1 DEF FailTurnMinimal, Step, LeaseStep, HandlerStep
<1>11. CASE InterruptTurn(r)
  <2>1. RowStep
    BY <1>0, <1>11, <1>r DEF InterruptTurn
  <2> QED
    BY <1>0, <1>11, <2>1 DEF InterruptTurn, Step, LeaseStep, HandlerStep
<1>12. CASE SettleThrows(r)
  BY <1>0, <1>12 DEF SettleThrows, FailureDone, Step, RowStep, LeaseStep, HandlerStep
<1> QED
  BY <1>1, <1>2, <1>3, <1>4, <1>5, <1>6, <1>7, <1>8, <1>9, <1>10, <1>11, <1>12
     DEF Execute, Finalize

\* So do releases, compaction, crashes and timeouts.
LEMMA StepLease ==
    ASSUME TypeOK,
           \/ \E w \in Workers : Release(w) \/ Crash(w)
           \/ \E c \in Compactors : AcquireForCompaction(c) \/ FinishCompaction(c)
           \/ Expire
    PROVE  Step
<1> USE ConstantsAssumption
    DEF Goto, GotoRelease, redisVars, Early, Holding
<1>0. /\ Requests \subseteq Workers /\ Compactors \subseteq Workers
      /\ pc \in [Workers -> RequestStates \cup CompactorStates]
      /\ after \in [Workers -> {"ended", "fail", "failMinimal", "failInnerMinimal"}]
      /\ UNCHANGED reconVars => ReconcilerStep
  BY ReconcilersUnchanged DEF TypeOK, Workers
<1>1. ASSUME NEW w \in Workers, Release(w)
      PROVE  Step
  <2>1. after[w] \in {"ended", "fail", "failMinimal", "failInnerMinimal"}
    BY <1>0
  <2>2. CASE ReadLease(w)
    <3>1. CASE Goto(w, "relRead", "relDelete") /\ lease = w
      BY <1>0, <2>2, <3>1 DEF ReadLease, Step, RowStep, LeaseStep, HandlerStep
    <3>2. CASE Released(w, "relRead")
      BY <1>0, <2>1, <2>2, <3>2 DEF ReadLease, Released, Step, RowStep, LeaseStep, HandlerStep
    <3> QED
      BY <2>2, <3>1, <3>2 DEF ReadLease
  <2>3. CASE DeleteLease(w)
    BY <1>0, <2>1, <2>3 DEF DeleteLease, Released, Step, RowStep, LeaseStep, HandlerStep
  <2>4. CASE ReleaseThrows(w)
    BY <1>0, <2>1, <2>4 DEF ReleaseThrows, Released, Step, RowStep, LeaseStep, HandlerStep
  <2> QED
    BY <1>1, <2>2, <2>3, <2>4 DEF Release
<1>2. ASSUME NEW w \in Workers, Crash(w)
      PROVE  Step
  BY <1>0, <1>2 DEF Crash, Step, RowStep, LeaseStep, HandlerStep
<1>3. ASSUME NEW c \in Compactors, AcquireForCompaction(c) \/ FinishCompaction(c)
      PROVE  Step
  <2>1. CASE AcquireForCompaction(c)
    BY <1>0, <2>1 DEF AcquireForCompaction, Step, RowStep, LeaseStep, HandlerStep
  <2>2. CASE FinishCompaction(c)
    BY <1>0, <2>2 DEF FinishCompaction, Step, RowStep, LeaseStep, HandlerStep
  <2> QED
    BY <1>3, <2>1, <2>2
<1>4. CASE Expire
  <2>1. CASE LeaseExpires
    BY <1>0, <2>1 DEF LeaseExpires, workerVars, Step, RowStep, LeaseStep, HandlerStep
  <2>2. ASSUME NEW k \in Keys, InFlightExpires(k)
        PROVE  Step
    BY <1>0, <2>2 DEF InFlightExpires, workerVars, Step, RowStep, LeaseStep, HandlerStep
  <2>3. ASSUME NEW k \in Keys, GraceElapses(k)
        PROVE  Step
    <3>1. RowStep
      BY <2>3 DEF GraceElapses, workerVars, Ages, RowStep
    <3> QED
      BY <1>0, <2>3, <3>1 DEF GraceElapses, workerVars, Step, LeaseStep, HandlerStep
  <2> QED
    BY <1>4, <2>1, <2>2, <2>3 DEF Expire
<1> QED
  BY <1>1, <1>2, <1>3, <1>4

\* So do those of the reconcilers, which touch no handler and no lease.
LEMMA StepReconcile ==
    ASSUME TypeOK, NEW q \in Reconcilers, Reconcile(q)
    PROVE  Step
<1>0. /\ rpc \in [Reconcilers -> {"idle", "lease", "update", "clear"}]
      /\ cand \in [Reconcilers -> Candidates \cup {None}]
      /\ batch \in [Reconcilers -> SUBSET Candidates]
  BY DEF TypeOK
<1>1. HandlerStep /\ lease' = lease
  BY DEF Reconcile, FindCandidates, CheckInFlight, CheckLease, MarkOrphaned,
         ClearOrphanMarker, workerVars, redisVars, HandlerStep
<1>2. RowStep
  <2>1. CASE MarkOrphaned(q)
    <3>1. CASE receipt[cand[q].key].req = cand[q].req
               /\ receipt[cand[q].key].status = "accepted"
      <4>1. Orphans(q)
        BY <2>1, <3>1 DEF MarkOrphaned, Orphans, workerVars
      <4> QED
        BY <4>1 DEF RowStep
    <3>2. CASE ~ (/\ receipt[cand[q].key].req = cand[q].req
                 /\ receipt[cand[q].key].status = "accepted")
      BY <2>1, <3>2 DEF MarkOrphaned, RowStep, workerVars
    <3> QED
      BY <3>1, <3>2
  <2>2. CASE ~ MarkOrphaned(q)
    BY <2>2 DEF Reconcile, FindCandidates, CheckInFlight, CheckLease, ClearOrphanMarker,
                RowStep, workerVars
  <2> QED
    BY <2>1, <2>2
<1>3. ReconcilerStep
  <2> USE <1>0, <1>1 DEF ReconcilerStep
  <2>1. CASE FindCandidates(q)
    BY <2>1 DEF FindCandidates
  <2>2. CASE CheckInFlight(q)
    BY <2>2 DEF CheckInFlight
  <2>3. CASE CheckLease(q)
    BY <2>3 DEF CheckLease, GiveUp
  <2>4. CASE MarkOrphaned(q)
    BY <2>4 DEF MarkOrphaned, GiveUp
  <2>5. CASE ClearOrphanMarker(q)
    BY <2>5 DEF ClearOrphanMarker, GiveUp
  <2> QED
    BY <2>1, <2>2, <2>3, <2>4, <2>5 DEF Reconcile
<1> QED
  BY <1>1, <1>2, <1>3 DEF Step, LeaseStep

\* Every step has this shape, and keeps the type invariant.
LEMMA NextStep ==
    ASSUME TypeInv, Next
    PROVE  Step /\ TypeOK'
<1>0. TypeOK
  BY DEF TypeInv
<1>1. ASSUME NEW w \in Workers, Arrive(w) \/ Proceed(w) \/ Crash(w)
      PROVE  Step /\ TypeOK'
  <2>1. CASE w \in Requests /\ (ReadMarker(w) \/ Accept(w))
    BY <1>0, <2>1, StepAccept, TypeOKAccept
  <2>2. CASE w \in Requests /\ (Execute(w) \/ Finalize(w))
    BY <1>0, <2>2, StepRun, TypeOKRun
  <2>3. CASE Release(w) \/ Crash(w)
    BY <1>0, <2>3, StepLease, TypeOKLease
  <2>4. CASE w \in Compactors /\ (AcquireForCompaction(w) \/ FinishCompaction(w))
    BY <1>0, <2>4, StepLease, TypeOKLease
  <2> QED
    BY <1>1, <2>1, <2>2, <2>3, <2>4 DEF Arrive, Proceed
<1>2. ASSUME NEW q \in Reconcilers, Reconcile(q)
      PROVE  Step /\ TypeOK'
  BY <1>0, <1>2, StepReconcile, TypeOKReconcile
<1>3. CASE Expire
  BY <1>0, <1>3, StepLease, TypeOKLease
<1> QED
  BY <1>1, <1>2, <1>3 DEF Next

\* A step that changes nothing has this shape too.
LEMMA StutterStep ==
    ASSUME UNCHANGED vars
    PROVE  Step
<1>1. UNCHANGED reconVars /\ RowStep /\ LeaseStep /\ HandlerStep
  BY DEF vars, workerVars, redisVars, RowStep, LeaseStep, HandlerStep
<1> QED
  BY <1>1, ReconcilersUnchanged DEF Step

\* TypeInv is preserved: a row that is written carries the requestId of a request of
\* its key.
LEMMA TypeInvNext ==
    ASSUME TypeInv, [Next]_vars
    PROVE  TypeInv' /\ Step
<1>0. TypeOK /\ RowsNamed /\ CandidateNamed
  BY DEF TypeInv
<1>1. Step /\ TypeOK'
  <2>1. CASE Next
    BY <2>1, NextStep
  <2>2. CASE UNCHANGED vars
    <3>1. TypeOK'
      BY <1>0, <2>2 DEF TypeOK, vars, workerVars, redisVars, reconVars
    <3> QED
      BY <2>2, <3>1, StutterStep
  <2> QED
    BY <2>1, <2>2
<1>2. RowsNamed'
  <2> USE ConstantsAssumption
  <2>0. receipt \in [Keys -> Receipts]
    BY <1>0 DEF TypeOK
  <2>1. CASE receipt' = receipt
    BY <1>0, <2>1 DEF RowsNamed
  <2>2. ASSUME NEW r \in Requests, Inserts(r) \/ Reclaims(r) \/ Settles(r)
        PROVE  RowsNamed'
    BY <1>0, <2>0, <2>2 DEF RowsNamed, Inserts, Reclaims, Settles, Settled, Row
  <2>3. ASSUME NEW q \in Reconcilers, Orphans(q)
        PROVE  RowsNamed'
    BY <1>0, <2>0, <2>3 DEF RowsNamed, Orphans, Row
  <2>4. ASSUME NEW k \in Keys, Ages(k)
        PROVE  RowsNamed'
    BY <1>0, <2>0, <2>4 DEF RowsNamed, Ages
  <2> QED
    BY <1>1, <2>1, <2>2, <2>3, <2>4 DEF Step, RowStep
<1>3. CandidateNamed'
  BY <1>0, <1>1 DEF CandidateNamed, Step, ReconcilerStep, TypeOK
<1> QED
  BY <1>1, <1>2, <1>3 DEF TypeInv

\* Every reachable state is well typed, and its receipts carry requestIds of requests
\* of their own key.
THEOREM TypeInvariant == Spec => []TypeInv
<1>1. TypeInv /\ [Next]_vars => TypeInv'
  BY TypeInvNext
<1> QED
  BY <1>1, TypeInvInit, PTL DEF Spec

\* Handlers, Redis, receipts and reconcilers stay in their types.
THEOREM TypeCorrect == Spec => []TypeOK
<1>1. TypeInv => TypeOK
  BY DEF TypeInv
<1> QED
  BY <1>1, TypeInvariant, PTL

-----------------------------------------------------------------------------
(* At most one reply for a logical turn.                                    *)

\* The row of a request whose reply was persisted is settled and still carries its
\* requestId: rows change hands only while they are orphaned.
RepliedOwns ==
    \A r \in replied : Owns(r) /\ receipt[KeyOf[r]].status \in Settled

LEMMA RepliedOwnsNext ==
    ASSUME TypeInv, RepliedOwns, [Next]_vars
    PROVE  RepliedOwns'
<1> USE ConstantsAssumption
<1>0. RowStep /\ RowsNamed /\ CandidateNamed /\ replied \subseteq Requests
      /\ receipt \in [Keys -> Receipts]
  BY TypeInvNext DEF Step, TypeInv, TypeOK
<1>1. CASE receipt' = receipt /\ replied' = replied
  BY <1>1 DEF RepliedOwns, Owns
<1>2. ASSUME NEW r \in Requests, Inserts(r) \/ Reclaims(r)
      PROVE  RepliedOwns'
  BY <1>0, <1>2 DEF RepliedOwns, Inserts, Reclaims, Settled, Owns, Row
<1>3. ASSUME NEW r \in Requests, Settles(r)
      PROVE  RepliedOwns'
  BY <1>0, <1>3 DEF RepliedOwns, Settles, Settled, Owns, Row
<1>4. ASSUME NEW q \in Reconcilers, Orphans(q)
      PROVE  RepliedOwns'
  BY <1>0, <1>4 DEF RepliedOwns, Orphans, Settled, Owns, Row
<1>5. ASSUME NEW k \in Keys, Ages(k)
      PROVE  RepliedOwns'
  BY <1>0, <1>5 DEF RepliedOwns, Ages, Settled, Owns
<1> QED
  BY <1>0, <1>1, <1>2, <1>3, <1>4, <1>5 DEF RowStep

\* Of the requestIds one idempotency key is retried under, however they were orphaned
\* and reclaimed, at most one persists a completed result.
THEOREM OneReply == Spec => []OneReplyPerKey
<1>1. Init => RepliedOwns
  BY DEF Init, RepliedOwns
<1>2. TypeInv /\ RepliedOwns /\ [Next]_vars => RepliedOwns'
  BY RepliedOwnsNext
<1>3. RepliedOwns => OneReplyPerKey
  BY DEF RepliedOwns, OneReplyPerKey, Owns
<1> QED
  BY <1>1, <1>2, <1>3, TypeInvariant, PTL DEF Spec

-----------------------------------------------------------------------------
(* An async continuation is run at most once.                               *)

\* No more than one request was accepted for an async continuation, one that was left a
\* row, and none of that key is on its way to reclaim it.
AsyncKept ==
    /\ AsyncRunsOnce
    /\ \A r \in Requests : KeyOf[r] \in AsyncKeys =>
          /\ outcome[r] = "accepted" => receipt[KeyOf[r]].status # "absent"
          /\ pc[r] \notin {"reclaim", "confirm"}

\* A row is never deleted.
LEMMA RowStays ==
    ASSUME TypeInv, RowStep, NEW k \in Keys, receipt[k].status # "absent"
    PROVE  receipt'[k].status # "absent"
<1>0. receipt \in [Keys -> Receipts]
  BY DEF TypeInv, TypeOK
<1>1. ASSUME NEW r \in Requests, Inserts(r) \/ Reclaims(r) \/ Settles(r)
      PROVE  receipt'[k].status # "absent"
  BY <1>0, <1>1 DEF Inserts, Reclaims, Settles, Settled, Row
<1>2. ASSUME NEW q \in Reconcilers, Orphans(q)
      PROVE  receipt'[k].status # "absent"
  BY <1>0, <1>2 DEF Orphans, Row
<1>3. ASSUME NEW j \in Keys, Ages(j)
      PROVE  receipt'[k].status # "absent"
  BY <1>0, <1>3 DEF Ages
<1> QED
  BY <1>1, <1>2, <1>3 DEF RowStep

LEMMA AsyncKeptNext ==
    ASSUME TypeInv, AsyncKept, [Next]_vars
    PROVE  AsyncKept'
<1> USE ConstantsAssumption
<1>0. /\ RowStep /\ HandlerStep
      /\ receipt \in [Keys -> Receipts]
      /\ KeyOf \in [Requests -> Keys]
  BY TypeInvNext DEF Step, TypeInv, TypeOK
<1>1. ASSUME NEW r \in Requests, KeyOf[r] \in AsyncKeys
      PROVE  pc'[r] \notin {"reclaim", "confirm"}
  BY <1>0, <1>1 DEF AsyncKept, HandlerStep
<1>2. ASSUME NEW r \in Requests, KeyOf[r] \in AsyncKeys,
             outcome'[r] = "accepted", outcome[r] # "accepted"
      PROVE  Inserts(r) /\ \A s \in Requests : s # r => outcome'[s] = outcome[s]
  BY <1>0, <1>2 DEF AsyncKept, HandlerStep
<1>3. ASSUME NEW r \in Requests, KeyOf[r] \in AsyncKeys, outcome'[r] = "accepted"
      PROVE  receipt'[KeyOf[r]].status # "absent"
  <2>1. CASE outcome[r] = "accepted"
    BY <1>0, <1>3, <2>1, RowStays DEF AsyncKept
  <2>2. CASE outcome[r] # "accepted"
    <3>1. Inserts(r)
      BY <1>2, <1>3, <2>2
    <3> QED
      BY <1>0, <3>1 DEF Inserts, Row
  <2> QED
    BY <2>1, <2>2
<1>4. ASSUME NEW r \in Requests, NEW s \in Requests, KeyOf[r] = KeyOf[s], KeyOf[r] \in AsyncKeys,
             outcome'[r] = "accepted", outcome'[s] = "accepted", outcome[r] # "accepted"
      PROVE  r = s
  <2>1. /\ receipt[KeyOf[s]].status = "absent"
        /\ s # r => outcome'[s] = outcome[s]
    BY <1>2, <1>4 DEF Inserts
  <2> QED
    BY <1>4, <2>1 DEF AsyncKept
<1>5. AsyncRunsOnce'
  <2> SUFFICES ASSUME NEW r \in Requests, NEW s \in Requests,
                      KeyOf[r] = KeyOf[s], KeyOf[r] \in AsyncKeys,
                      outcome'[r] = "accepted", outcome'[s] = "accepted"
               PROVE  r = s
    BY DEF AsyncRunsOnce
  <2>1. CASE outcome[r] = "accepted" /\ outcome[s] = "accepted"
    BY <2>1 DEF AsyncKept, AsyncRunsOnce
  <2> QED
    BY <1>4, <2>1
<1> QED
  BY <1>1, <1>3, <1>5 DEF AsyncKept

\* The invariant holds in every reachable state: an orphaned continuation keeps its
\* row, which shuts out whoever comes later.
THEOREM AsyncAlwaysKept == Spec => []AsyncKept
<1>1. Init => AsyncKept
  BY ConstantsAssumption DEF Init, AsyncKept, AsyncRunsOnce, Workers
<1>2. TypeInv /\ AsyncKept /\ [Next]_vars => AsyncKept'
  BY AsyncKeptNext
<1> QED
  BY <1>1, <1>2, TypeInvariant, PTL DEF Spec

\* At most one request of an "async-cont:" key is ever accepted.
THEOREM AsyncOnce == Spec => []AsyncRunsOnce
<1>1. AsyncKept => AsyncRunsOnce
  BY DEF AsyncKept
<1> QED
  BY <1>1, AsyncAlwaysKept, PTL

-----------------------------------------------------------------------------
(* One turn at a time, when nobody outlives its lease.                      *)

\* A handler that counts on the lease has it.
HoldersLease == \A w \in Workers : pc[w] \in Holding => lease = w

LEMMA HoldersLeaseNext ==
    ASSUME Sheltered = Workers, TypeInv, HoldersLease, [Next]_vars
    PROVE  HoldersLease'
<1> USE ConstantsAssumption
<1>0. LeaseStep /\ HandlerStep
  BY TypeInvNext DEF Step
<1> SUFFICES ASSUME NEW w \in Workers, pc'[w] \in Holding
             PROVE  lease' = w
  BY DEF HoldersLease
<1>1. CASE lease' = w
  BY <1>1
<1>2. CASE pc[w] \in Holding /\ lease = w
  <2>1. lease # None
    BY <1>2
  <2>2. CASE lease' = lease
    BY <1>2, <2>2
  <2>3. ASSUME NEW v \in Workers, pc[v] = "relDelete", pc'[v] \notin Holding
        PROVE  FALSE
    <3>1. pc[v] \in Holding
      BY <2>3 DEF Holding
    <3>2. v = w
      BY <1>2, <3>1 DEF HoldersLease
    <3> QED
      BY <2>3, <3>2
  <2>4. CASE lease \in Sheltered => pc[lease] = "ended"
    <3>1. pc[w] = "ended"
      BY <1>2, <2>4
    <3> QED
      BY <1>2, <3>1 DEF Holding
  <2> QED
    BY <1>0, <2>1, <2>2, <2>3, <2>4 DEF LeaseStep
<1> QED
  BY <1>0, <1>1, <1>2 DEF HandlerStep, HoldersLease

\* When every worker finishes, or renews, before its lease times out, at most one
\* turn or compaction is at work in the session.
THEOREM OneTurn ==
    ASSUME Sheltered = Workers
    PROVE  Spec => []OneTurnPerSession
<1>1. Init => HoldersLease
  BY DEF Init, HoldersLease, Holding
<1>2. TypeInv /\ HoldersLease /\ [Next]_vars => HoldersLease'
  BY HoldersLeaseNext
<1>3. HoldersLease => OneTurnPerSession
  BY DEF HoldersLease, OneTurnPerSession, AtWork, Holding
<1> QED
  BY <1>1, <1>2, <1>3, TypeInvariant, PTL DEF Spec

-----------------------------------------------------------------------------
(* The reconciler spares the holder of the lease.                           *)

Past(r) == pc[r] \notin Early

\* A request with a requestId of its own is past its claim once a row, a batch or a
\* candidate carries that id, so a reconciler that saw the lease free will not see the
\* request take it.
Spared ==
    \A r \in Requests : OwnId(r) =>
        /\ \A k \in Keys :
              receipt[k].status # "absent" /\ receipt[k].req = IdOf[r] => Past(r)
        /\ \A q \in Reconcilers :
              /\ \A c \in batch[q] : c.req = IdOf[r] => Past(r)
              /\ rpc[q] # "idle" /\ cand[q].req = IdOf[r] => Past(r)
              /\ rpc[q] = "update" /\ cand[q].req = IdOf[r] => lease # r

LEMMA SparedNext ==
    ASSUME TypeInv, Spared, [Next]_vars
    PROVE  Spared'
<1> USE ConstantsAssumption
<1>0. /\ RowStep /\ LeaseStep /\ HandlerStep /\ ReconcilerStep
      /\ receipt \in [Keys -> Receipts]
      /\ KeyOf \in [Requests -> Keys]
  BY TypeInvNext DEF Step, TypeInv, TypeOK
<1> SUFFICES ASSUME NEW r \in Requests, OwnId(r)
             PROVE  /\ \A k \in Keys :
                          receipt'[k].status # "absent" /\ receipt'[k].req = IdOf[r] => Past(r)'
                    /\ \A q \in Reconcilers :
                          /\ \A c \in batch'[q] : c.req = IdOf[r] => Past(r)'
                          /\ rpc'[q] # "idle" /\ cand'[q].req = IdOf[r] => Past(r)'
                          /\ rpc'[q] = "update" /\ cand'[q].req = IdOf[r] => lease' # r
  BY DEF Spared
<1>1. Past(r) => Past(r)'
  BY <1>0 DEF HandlerStep, Past, Workers
<1>2. ASSUME NEW k \in Keys, receipt'[k].status # "absent", receipt'[k].req = IdOf[r]
      PROVE  Past(r)
  <2>1. ASSUME receipt[k].status # "absent", receipt'[k].req = receipt[k].req
        PROVE  Past(r)
    BY <1>2, <2>1 DEF Spared
  <2>2. CASE receipt' = receipt
    BY <1>2, <2>1, <2>2
  <2>3. ASSUME NEW s \in Requests, Inserts(s) \/ Reclaims(s) \/ Settles(s)
        PROVE  Past(r)
    <3>1. Past(s)
      BY <2>3 DEF Inserts, Reclaims, Settles, Past, Early
    <3>2. receipt'[k] = receipt[k] \/ receipt'[k].req = IdOf[s]
      BY <1>0, <2>3 DEF Inserts, Reclaims, Settles, Row
    <3>3. IdOf[s] = IdOf[r] => s = r
      BY DEF OwnId
    <3> QED
      BY <1>2, <2>1, <3>1, <3>2, <3>3
  <2>4. ASSUME NEW q \in Reconcilers, Orphans(q)
        PROVE  Past(r)
    <3>1. \/ receipt'[k] = receipt[k]
          \/ receipt'[k].req = receipt[k].req /\ receipt[k].status = "accepted"
      BY <1>0, <2>4 DEF Orphans, Row
    <3> QED
      BY <1>2, <2>1, <3>1
  <2>5. ASSUME NEW j \in Keys, Ages(j)
        PROVE  Past(r)
    <3>1. \/ receipt'[k] = receipt[k]
          \/ receipt'[k].req = receipt[k].req /\ receipt[k].status = "accepted"
      BY <1>0, <2>5 DEF Ages
    <3> QED
      BY <1>2, <2>1, <3>1
  <2> QED
    BY <1>0, <2>2, <2>3, <2>4, <2>5 DEF RowStep
<1>3. ASSUME NEW q \in Reconcilers, NEW c \in batch'[q], c.req = IdOf[r]
      PROVE  Past(r)
  <2>1. CASE c \in batch[q]
    BY <1>3, <2>1 DEF Spared
  <2>2. CASE c \in StaleAccepted
    <3>1. PICK k \in Keys : receipt[k].status = "accepted" /\ c.req = receipt[k].req
      BY <2>2 DEF StaleAccepted, CandidatesAt
    <3> QED
      BY <1>3, <3>1 DEF Spared
  <2> QED
    BY <1>0, <2>1, <2>2 DEF ReconcilerStep
<1>4. ASSUME NEW q \in Reconcilers, rpc'[q] # "idle", cand'[q].req = IdOf[r]
      PROVE  Past(r) /\ (rpc'[q] = "update" => rpc[q] # "idle" /\ cand'[q] = cand[q])
  <2>1. \/ rpc[q] # "idle" /\ cand'[q] = cand[q]
        \/ rpc'[q] = "lease" /\ cand'[q] \in batch[q]
    BY <1>0, <1>4 DEF ReconcilerStep
  <2> QED
    BY <1>4, <2>1 DEF Spared
<1>5. ASSUME NEW q \in Reconcilers, rpc'[q] = "update", cand'[q].req = IdOf[r]
      PROVE  lease' # r
  <2>1. Past(r) /\ cand[q].req = IdOf[r]
    BY <1>4, <1>5
  <2>2. lease # r \/ lease' = None
    BY <1>0, <1>5, <2>1 DEF Spared, ReconcilerStep
  <2>3. None \notin Requests /\ Requests \cap Compactors = {}
    BY DEF Workers
  <2> QED
    BY <1>0, <2>1, <2>2, <2>3 DEF LeaseStep, Past, Early
<1> QED
  BY <1>1, <1>2, <1>3, <1>4, <1>5

\* Between its look at the lease and its update the reconciler gives a request with a
\* requestId of its own no chance to lose a turn whose lease it holds.
THEOREM HolderSpared == Spec => ReconcileSparesHolder
<1> DEFINE Spares ==
        \A k \in Keys :
            receipt[k].status = "accepted" /\ receipt'[k].status = "orphaned"
                => \A r \in Requests : OwnId(r) /\ IdOf[r] = receipt[k].req => lease # r
<1>1. Init => Spared
  BY DEF Init, Spared, Row
<1>2. TypeInv /\ Spared /\ [Next]_vars => Spared'
  BY SparedNext
<1>3. TypeInv /\ Spared /\ [Next]_vars => Spares
  <2> SUFFICES ASSUME TypeInv, Spared, [Next]_vars, NEW k \in Keys,
                      receipt[k].status = "accepted", receipt'[k].status = "orphaned",
                      NEW r \in Requests, OwnId(r), IdOf[r] = receipt[k].req
               PROVE  lease # r
    OBVIOUS
  <2>0. RowStep /\ receipt \in [Keys -> Receipts]
        /\ KeyOf \in [Requests -> Keys]
    BY TypeInvNext, ConstantsAssumption DEF Step, TypeInv, TypeOK
  <2>1. PICK q \in Reconcilers : Orphans(q)
    <3>1. \A s \in Requests : ~ Inserts(s) /\ ~ Reclaims(s) /\ ~ Settles(s)
      BY <2>0 DEF Inserts, Reclaims, Settles, Settled, Row
    <3>2. \A j \in Keys : ~ Ages(j)
      BY <2>0 DEF Ages
    <3> QED
      BY <2>0, <3>1, <3>2 DEF RowStep
  <2>2. rpc[q] = "update" /\ cand[q].req = IdOf[r]
    BY <2>0, <2>1 DEF Orphans
  <2> QED
    BY <2>2 DEF Spared
<1>4. TypeInv /\ Spared /\ [Next]_vars => [Spares]_vars
  BY <1>3
<1> QED
  BY <1>1, <1>2, <1>4, TypeInvariant, PTL DEF Spec, ReconcileSparesHolder

-----------------------------------------------------------------------------
(* What a settled row says stays.                                           *)

\* A handler on the error paths, and one that has no part of the turn left to run.
Failing == {"failInner", "failInnerMinimal", "fail", "failMinimal"}
Over == Failing \cup {"relRead", "relDelete", "ended"}

\* The handler of r has nothing left but the release of its lease.
Out(r) == pc[r] = "ended" \/ (pc[r] \in {"relRead", "relDelete"} /\ after[r] = "ended")

\* The row of r is never written again, if r has a requestId of its own: a completed
\* row may be, unless its request is synchronous.
Final(r) ==
    \/ receipt[KeyOf[r]].status = "interrupted"
    \/ receipt[KeyOf[r]].status = "completed" /\ SurfaceOf[r] = "sync"

\* The one request a settled row names is on an error path or gone, and gone for good
\* if the row is final.
SettledOut ==
    \A r \in Requests : OwnId(r) /\ Owns(r) /\ receipt[KeyOf[r]].status \in Settled =>
        /\ pc[r] \in Over
        /\ Final(r) => Out(r)

\* A step writes an outcome to the row of r, or writes it anew.
Writes(r) ==
    /\ OwnId(r)
    /\ receipt'[KeyOf[r]] # receipt[KeyOf[r]]
    /\ receipt'[KeyOf[r]].req = IdOf[r]
    /\ receipt'[KeyOf[r]].status \in Settled

\* From where each outcome is written, and where the handler goes then.
Outcome(r) ==
    LET status == receipt'[KeyOf[r]].status IN
    \/ /\ pc[r] = "complete" /\ status = "completed"
       /\ pc'[r] \in Over /\ (SurfaceOf[r] = "sync" => Out(r)')
    \/ pc[r] \in Failing /\ status = "failed" /\ pc'[r] \in Over
    \/ pc[r] = "interrupt" /\ status = "interrupted" /\ Out(r)'

\* What any step means for the end of a turn: nobody comes back from it.
EndStep ==
    \A r \in Requests :
        /\ pc[r] \in Over => pc'[r] \in Over
        /\ Out(r) => Out(r)'
        /\ Writes(r) => Outcome(r)

\* The steps of acceptTurn write rows that are accepted.
LEMMA EndAccept ==
    ASSUME TypeOK, NEW w \in Requests, ReadMarker(w) \/ Accept(w)
    PROVE  EndStep
<1> USE ConstantsAssumption
<1>0. /\ w \in Workers /\ Requests \subseteq Workers
      /\ pc \in [Workers -> RequestStates \cup CompactorStates]
      /\ after \in [Workers -> {"ended", "fail", "failMinimal", "failInnerMinimal"}]
      /\ receipt \in [Keys -> Receipts]
      /\ KeyOf \in [Requests -> Keys]
  BY DEF TypeOK, Workers
<1>1. \/ receipt' = receipt
      \/ receipt' = [receipt EXCEPT ![KeyOf[w]] = Row("accepted", IdOf[w])]
  BY DEF Accept, ReadMarker, ReadHinted, ReadKey, WriteMarker, ClaimLease, InsertReceipt,
         RereadKey, ReclaimReceipt, ConfirmReclaim, CreateThrows, AbortClaim, ClearClaim
<1>2. \A r \in Requests : ~ Writes(r)
  BY <1>0, <1>1 DEF Writes, Row, Settled
<1>3. /\ pc[w] \notin Over
      /\ \E to \in RequestStates : pc' = [pc EXCEPT ![w] = to]
      /\ \A r \in Requests : r # w => after'[r] = after[r]
  BY <1>0 DEF Accept, ReadMarker, ReadHinted, ReadKey, WriteMarker, ClaimLease, InsertReceipt,
         RereadKey, ReclaimReceipt, ConfirmReclaim, CreateThrows, AbortClaim, ClearClaim,
         Goto, GotoRelease, Over, Failing, RequestStates
<1>4. ASSUME NEW r \in Requests
      PROVE  (pc[r] \in Over => pc'[r] \in Over) /\ (Out(r) => Out(r)')
  <2>1. CASE r = w
    BY <1>3, <2>1 DEF Out, Over
  <2>2. CASE r # w
    BY <1>0, <1>3, <2>2 DEF Out
  <2> QED
    BY <2>1, <2>2
<1> QED
  BY <1>2, <1>4 DEF EndStep

\* The steps of the execution and of the finalization write outcomes, each from
\* the place it belongs to.
LEMMA EndRun ==
    ASSUME TypeOK, NEW w \in Requests, Execute(w) \/ Finalize(w)
    PROVE  EndStep
<1> USE ConstantsAssumption DEF Goto, GotoRelease
<1>0. /\ w \in Workers /\ Requests \subseteq Workers
      /\ pc \in [Workers -> RequestStates \cup CompactorStates]
      /\ after \in [Workers -> {"ended", "fail", "failMinimal", "failInnerMinimal"}]
      /\ receipt \in [Keys -> Receipts]
      /\ KeyOf \in [Requests -> Keys]
  BY DEF TypeOK, Workers
<1>1. ASSUME NEW r \in Requests, r # w
      PROVE  /\ pc'[r] = pc[r] /\ after'[r] = after[r]
             /\ ~ Writes(r)
  <2>1. pc'[r] = pc[r] /\ after'[r] = after[r]
    BY <1>0, <1>1 DEF Execute, StartRun, PrepareThrows, FinishRun, StopRun, HeartbeatLost,
       Finalize, CompleteTurn, CompleteThrows, FailTurn, FailThrows, FailTurnMinimal,
       InterruptTurn, SettleThrows
  <2>2. receipt' = receipt \/ \E s \in Settled : Persist(w, s)
    BY DEF Execute, StartRun, PrepareThrows, FinishRun, StopRun, HeartbeatLost,
       Finalize, CompleteTurn, CompleteThrows, FailTurn, FailThrows, FailTurnMinimal,
       InterruptTurn, SettleThrows, Settled
  <2>3. ~ Writes(r)
    BY <1>0, <1>1, <2>2 DEF Writes, Persist, OwnId, Row
  <2> QED
    BY <2>1, <2>3
<1>2. ASSUME receipt' = receipt
      PROVE  ~ Writes(w)
  BY <1>2 DEF Writes
<1>3. ASSUME NEW s \in Settled, Persist(w, s)
      PROVE  receipt'[KeyOf[w]].status = s
  BY <1>0, <1>3 DEF Persist, Row
<1>4. (pc[w] \in Over => pc'[w] \in Over) /\ ~ Out(w) /\ (Writes(w) => Outcome(w))
  <2> USE DEF Over, Failing, Out
  <2>1. CASE Execute(w)
    <3>1. receipt' = receipt /\ pc[w] \in {"prepare", "running"}
      BY <2>1 DEF Execute, StartRun, PrepareThrows, FinishRun, StopRun, HeartbeatLost
    <3> QED
      BY <1>2, <3>1
  <2>2. CASE CompleteTurn(w)
    <3>1. PICK to \in {"ended", CompletionThrew(w)} : GotoRelease(w, "complete", to)
      BY <2>2 DEF CompleteTurn
    <3>2. receipt'[KeyOf[w]].status = "completed"
      BY <1>3, <2>2 DEF CompleteTurn, Settled
    <3>3. SurfaceOf[w] = "sync" => to = "ended"
      BY <3>1 DEF CompletionThrew
    <3> QED
      BY <1>0, <3>1, <3>2, <3>3 DEF Outcome
  <2>3. CASE CompleteThrows(w)
    BY <1>2, <2>3 DEF CompleteThrows
  <2>4. CASE FailTurn(w)
    <3>1. PICK at \in {"failInner", "fail"} :
              \E to \in {FailureDone(at), FailureThrew(w, at)} : GotoRelease(w, at, to)
      BY <2>4 DEF FailTurn
    <3>2. receipt'[KeyOf[w]].status = "failed"
      BY <1>3, <2>4 DEF FailTurn, Settled
    <3> QED
      BY <1>0, <3>1, <3>2 DEF Outcome
  <2>5. CASE FailThrows(w)
    <3>1. PICK at \in {"failInner", "fail"} : Goto(w, at, FailureThrew(w, at))
      BY <2>5 DEF FailThrows
    <3>2. FailureThrew(w, at) \in Over
      BY DEF FailureThrew
    <3> QED
      BY <1>0, <1>2, <2>5, <3>1, <3>2 DEF FailThrows
  <2>6. CASE FailTurnMinimal(w)
    <3>1. PICK at \in {"failInnerMinimal", "failMinimal"} : GotoRelease(w, at, FailureDone(at))
      BY <2>6 DEF FailTurnMinimal
    <3>2. receipt'[KeyOf[w]].status = "failed"
      BY <1>3, <2>6 DEF FailTurnMinimal, Settled
    <3> QED
      BY <1>0, <3>1, <3>2 DEF Outcome
  <2>7. CASE InterruptTurn(w)
    <3>1. receipt'[KeyOf[w]].status = "interrupted"
      BY <1>3, <2>7 DEF InterruptTurn, Settled
    <3> QED
      BY <1>0, <2>7, <3>1 DEF InterruptTurn, Outcome
  <2>8. CASE SettleThrows(w)
    <3>1. PICK at \in {"failInnerMinimal", "failMinimal", "interrupt"} :
              Goto(w, at, FailureDone(at))
      BY <2>8 DEF SettleThrows
    <3>2. FailureDone(at) \in Over
      BY DEF FailureDone
    <3> QED
      BY <1>0, <1>2, <2>8, <3>1, <3>2 DEF SettleThrows
  <2> QED
    BY <2>1, <2>2, <2>3, <2>4, <2>5, <2>6, <2>7, <2>8 DEF Finalize
<1>5. ASSUME NEW r \in Requests
      PROVE  (pc[r] \in Over => pc'[r] \in Over) /\ (Out(r) => Out(r)') /\ (Writes(r) => Outcome(r))
  <2>1. CASE r = w
    BY <1>4, <2>1
  <2>2. CASE r # w
    BY <1>1, <2>2 DEF Out
  <2> QED
    BY <2>1, <2>2
<1> QED
  BY <1>5 DEF EndStep

\* A release goes on to an error path or to the end; crashes end a handler; and no
\* timeout writes an outcome.
LEMMA EndLease ==
    ASSUME TypeOK,
           \/ \E w \in Workers : Release(w) \/ Crash(w)
           \/ \E c \in Compactors : AcquireForCompaction(c) \/ FinishCompaction(c)
           \/ Expire
    PROVE  EndStep
<1> USE ConstantsAssumption DEF Goto, GotoRelease
<1>0. /\ Requests \subseteq Workers /\ Compactors \subseteq Workers
      /\ pc \in [Workers -> RequestStates \cup CompactorStates]
      /\ after \in [Workers -> {"ended", "fail", "failMinimal", "failInnerMinimal"}]
      /\ receipt \in [Keys -> Receipts]
      /\ KeyOf \in [Requests -> Keys]
  BY DEF TypeOK, Workers
<1>1. ASSUME NEW w \in Workers, Release(w) \/ Crash(w)
      PROVE  EndStep
  <2>1. receipt' = receipt
    BY <1>1 DEF Release, ReadLease, DeleteLease, ReleaseThrows, Crash
  <2>2. \/ pc[w] = "relRead" /\ pc' = [pc EXCEPT ![w] = "relDelete"] /\ after' = after
        \/ /\ pc[w] \in {"relRead", "relDelete"} /\ pc' = [pc EXCEPT ![w] = after[w]]
           /\ after' = [after EXCEPT ![w] = "ended"]
        \/ /\ pc[w] # "ended" /\ pc' = [pc EXCEPT ![w] = "ended"]
           /\ after' = [after EXCEPT ![w] = "ended"]
    BY <1>1 DEF Release, ReadLease, DeleteLease, ReleaseThrows, Released, Crash
  <2>3. after[w] \in {"ended", "fail", "failMinimal", "failInnerMinimal"}
    BY <1>0
  <2>4. ASSUME NEW r \in Requests
        PROVE  (pc[r] \in Over => pc'[r] \in Over) /\ (Out(r) => Out(r)')
    BY <1>0, <2>2, <2>3 DEF Over, Failing, Out
  <2> QED
    BY <2>1, <2>4 DEF EndStep, Writes
<1>2. ASSUME NEW c \in Compactors, AcquireForCompaction(c) \/ FinishCompaction(c)
      PROVE  EndStep
  <2>1. receipt' = receipt
    BY <1>2 DEF AcquireForCompaction, FinishCompaction
  <2>2. \A r \in Requests : pc'[r] = pc[r] /\ after'[r] = after[r]
    BY <1>0, <1>2 DEF AcquireForCompaction, FinishCompaction
  <2> QED
    BY <2>1, <2>2 DEF EndStep, Writes, Out
<1>3. CASE Expire
  <2>1. pc' = pc /\ after' = after
    BY <1>3 DEF Expire, LeaseExpires, InFlightExpires, GraceElapses, workerVars
  <2>2. ASSUME NEW r \in Requests
        PROVE  ~ Writes(r)
    BY <1>0, <1>3 DEF Expire, LeaseExpires, InFlightExpires, GraceElapses, Writes, Settled
  <2> QED
    BY <2>1, <2>2 DEF EndStep, Out
<1> QED
  BY <1>1, <1>2, <1>3

\* The reconciler writes no outcome: an orphaned row is not settled.
LEMMA EndReconcile ==
    ASSUME TypeOK, NEW q \in Reconcilers, Reconcile(q)
    PROVE  EndStep
<1> USE ConstantsAssumption
<1>0. receipt \in [Keys -> Receipts] /\ KeyOf \in [Requests -> Keys]
  BY DEF TypeOK
<1>1. pc' = pc /\ after' = after
  BY DEF Reconcile, FindCandidates, CheckInFlight, CheckLease, MarkOrphaned,
         ClearOrphanMarker, workerVars
<1>2. ASSUME NEW r \in Requests
      PROVE  ~ Writes(r)
  <2>1. receipt' = receipt
        \/ receipt' = [receipt EXCEPT ![cand[q].key] = Row("orphaned", cand[q].req)]
    BY DEF Reconcile, FindCandidates, CheckInFlight, CheckLease, MarkOrphaned, ClearOrphanMarker
  <2> QED
    BY <1>0, <2>1 DEF Writes, Row, Settled
<1> QED
  BY <1>1, <1>2 DEF EndStep, Out

\* Every step, and none at all, is such a step.
LEMMA EveryEndStep ==
    ASSUME TypeOK, [Next]_vars
    PROVE  EndStep
<1>1. ASSUME NEW w \in Workers, Arrive(w) \/ Proceed(w) \/ Crash(w)
      PROVE  EndStep
  <2>1. CASE w \in Requests /\ (ReadMarker(w) \/ Accept(w))
    BY <2>1, EndAccept
  <2>2. CASE w \in Requests /\ (Execute(w) \/ Finalize(w))
    BY <2>2, EndRun
  <2>3. CASE Release(w) \/ Crash(w)
    BY <2>3, EndLease
  <2>4. CASE w \in Compactors /\ (AcquireForCompaction(w) \/ FinishCompaction(w))
    BY <2>4, EndLease
  <2> QED
    BY <1>1, <2>1, <2>2, <2>3, <2>4 DEF Arrive, Proceed
<1>2. ASSUME NEW q \in Reconcilers, Reconcile(q)
      PROVE  EndStep
  BY <1>2, EndReconcile
<1>3. CASE Expire
  BY <1>3, EndLease
<1>4. CASE UNCHANGED vars
  BY <1>4 DEF EndStep, Writes, Out, vars, workerVars
<1> QED
  BY <1>1, <1>2, <1>3, <1>4 DEF Next

LEMMA SettledOutNext ==
    ASSUME TypeInv, SettledOut, [Next]_vars
    PROVE  SettledOut'
<1> USE ConstantsAssumption
<1>0. EndStep
  BY EveryEndStep DEF TypeInv
<1> SUFFICES ASSUME NEW r \in Requests,
                    OwnId(r), receipt'[KeyOf[r]].req = IdOf[r],
                    receipt'[KeyOf[r]].status \in Settled
             PROVE  pc'[r] \in Over /\ (Final(r)' => Out(r)')
  BY DEF SettledOut, Owns
<1>1. CASE receipt'[KeyOf[r]] = receipt[KeyOf[r]]
  <2>1. pc[r] \in Over /\ (Final(r) => Out(r))
    BY <1>1 DEF SettledOut, Owns
  <2> QED
    BY <1>0, <1>1, <2>1 DEF EndStep, Final
<1>2. CASE receipt'[KeyOf[r]] # receipt[KeyOf[r]]
  <2>1. Outcome(r)
    BY <1>0, <1>2 DEF EndStep, Writes
  <2> QED
    BY <2>1 DEF Outcome, Final, Out, Over, Failing
<1> QED
  BY <1>1, <1>2

\* The invariant holds in every reachable state.
THEOREM SettledStaysOut == Spec => []SettledOut
<1>1. Init => SettledOut
  BY ConstantsAssumption DEF Init, SettledOut, Settled, Row
<1>2. TypeInv /\ SettledOut /\ [Next]_vars => SettledOut'
  BY SettledOutNext
<1> QED
  BY <1>1, <1>2, TypeInvariant, PTL DEF Spec

\* A settled row stays settled.  One that names a request with a requestId of its own
\* keeps what it says, but for a completed one that the error path of its own turn,
\* never a synchronous one, turns into a failed one.
THEOREM ResultStays == Spec => ResultKept
<1> DEFINE Kept(k, r) ==
        /\ receipt[k].status = "completed" /\ receipt'[k].status = "failed"
        /\ SurfaceOf[r] # "sync"
<1> DEFINE Keeps ==
        \A k \in Keys :
            receipt[k].status \in Settled /\ receipt'[k].status # receipt[k].status
                => /\ receipt'[k].status \in Settled
                   /\ \A r \in Requests : OwnId(r) /\ IdOf[r] = receipt[k].req => Kept(k, r)
<1>1. TypeInv /\ SettledOut /\ [Next]_vars => Keeps
  <2> SUFFICES ASSUME TypeInv, SettledOut, [Next]_vars, NEW k \in Keys,
                      receipt[k].status \in Settled, receipt'[k].status # receipt[k].status
               PROVE  /\ receipt'[k].status \in Settled
                      /\ \A r \in Requests : OwnId(r) /\ IdOf[r] = receipt[k].req => Kept(k, r)
    OBVIOUS
  <2>0. /\ RowStep /\ RowsNamed /\ receipt \in [Keys -> Receipts]
        /\ KeyOf \in [Requests -> Keys]
        /\ \A r, s \in Requests : IdOf[r] = IdOf[s] => KeyOf[r] = KeyOf[s]
    BY TypeInvNext, ConstantsAssumption DEF Step, TypeInv, TypeOK
  <2>1. receipt'[k].req = receipt[k].req /\ receipt'[k].status \in Settled
    <3>1. PICK s \in Requests : Inserts(s) \/ Reclaims(s) \/ Settles(s)
      <4>1. \A q \in Reconcilers : ~ Orphans(q)
        BY <2>0 DEF Orphans, Row, Settled
      <4>2. \A j \in Keys : ~ Ages(j)
        BY <2>0 DEF Ages, Settled
      <4> QED
        BY <2>0, <4>1, <4>2 DEF RowStep
    <3>2. Settles(s) /\ KeyOf[s] = k
      BY <2>0, <3>1 DEF Inserts, Reclaims, Settles, Settled
    <3> QED
      BY <2>0, <3>2 DEF Settles, Owns, Row
  <2>2. ASSUME NEW r \in Requests, OwnId(r), IdOf[r] = receipt[k].req
        PROVE  Kept(k, r)
    <3>1. KeyOf[r] = k /\ Owns(r)
      BY <2>0, <2>2 DEF RowsNamed, Owns, Settled
    <3>2. Outcome(r)
      BY <2>1, <2>2, <3>1, EveryEndStep DEF EndStep, Writes, TypeInv
    <3>3. pc[r] \in Over /\ (Final(r) => Out(r))
      BY <2>2, <3>1 DEF SettledOut
    <3>4. pc[r] \in Failing /\ receipt'[k].status = "failed"
      BY <3>1, <3>2, <3>3 DEF Outcome, Over, Failing
    <3>5. ~ Final(r)
      BY <3>3, <3>4 DEF Out, Failing
    <3> QED
      BY <3>1, <3>4, <3>5 DEF Final, Settled
  <2> QED
    BY <2>1, <2>2
<1>2. TypeInv /\ SettledOut /\ [Next]_vars => [Keeps]_vars
  BY <1>1
<1> QED
  BY <1>2, SettledStaysOut, TypeInvariant, PTL DEF Spec, ResultKept
=============================================================================
