--------------------------- MODULE ChatWakeProofs ---------------------------
(***************************************************************************)
(* Proofs about ChatWake, for any chats, user turns, handles, schedulers   *)
(* and bounds.                                                             *)
(***************************************************************************)
EXTENDS ChatWake, FiniteSetTheorems, TLAPS

-----------------------------------------------------------------------------
(* Type correctness.                                                        *)

\* recordCatchUpScan keeps an order of all chats.
LEMMA RecordScanOrders ==
    ASSUME scanned \in Orders, NEW c \in Chats
    PROVE  RecordScan(c) \in Orders
<1> DEFINE n == Cardinality(Chats)
           place == RecordScan(c)
<1>1. n \in Nat
  BY WakeAssumption
<1>2. scanned \in [Chats -> 1 .. n] /\ \A d, e \in Chats : scanned[d] = scanned[e] => d = e
  BY DEF Orders, Places
<1>3. \A d \in Chats : place[d] = IF d = c THEN n
                                 ELSE IF scanned[d] > scanned[c] THEN scanned[d] - 1 ELSE scanned[d]
  BY DEF RecordScan
<1>4. place \in [Chats -> 1 .. n]
  <2>1. \A d \in Chats : place[d] \in 1 .. n
    BY <1>1, <1>2, <1>3
  <2> QED
    BY <2>1 DEF RecordScan
<1>5. ASSUME NEW d \in Chats, NEW e \in Chats, place[d] = place[e]
      PROVE  d = e
  <2>1. scanned[c] \in 1 .. n /\ scanned[d] \in 1 .. n /\ scanned[e] \in 1 .. n
    BY <1>2
  <2>2. \A x \in Chats \ {c} : scanned[x] # scanned[c] /\ place[x] < n
    <3> TAKE x \in Chats \ {c}
    <3>1. scanned[x] # scanned[c] /\ scanned[x] \in 1 .. n
      BY <1>2
    <3>2. place[x] = IF scanned[x] > scanned[c] THEN scanned[x] - 1 ELSE scanned[x]
      BY <1>3
    <3> QED
      BY <1>1, <2>1, <3>1, <3>2
  <2>3. CASE d = c \/ e = c
    <3>1. place[c] = n
      BY <1>3
    <3> QED
      BY <1>1, <1>5, <2>2, <2>3, <3>1
  <2>4. CASE d # c /\ e # c
    <3>1. scanned[d] # scanned[c] /\ scanned[e] # scanned[c]
      BY <2>2, <2>4
    <3>2. place[d] = (IF scanned[d] > scanned[c] THEN scanned[d] - 1 ELSE scanned[d])
          /\ place[e] = (IF scanned[e] > scanned[c] THEN scanned[e] - 1 ELSE scanned[e])
      BY <1>3, <2>4
    <3>3. scanned[c] \in Int /\ scanned[d] \in Int /\ scanned[e] \in Int
      BY <1>1, <2>1
    <3>4. (IF scanned[d] > scanned[c] THEN scanned[d] - 1 ELSE scanned[d])
            = (IF scanned[e] > scanned[c] THEN scanned[e] - 1 ELSE scanned[e])
      BY <1>5, <3>2
    <3>5. scanned[d] = scanned[e]
      BY <3>1, <3>3, <3>4
    <3> QED
      BY <1>2, <3>5
  <2> QED
    BY <2>3, <2>4
<1> QED
  BY <1>4, <1>5 DEF Orders, Places

\* What is listed, and what is left of it, are candidates.
LEMMA TodoTyped ==
    /\ Idle.todo \in Todos
    /\ \A todo \in Todos : DOMAIN todo \subseteq Chats
    /\ \A todo \in Todos : \A c : [d \in DOMAIN todo \ {c} |-> todo[d]] \in Todos
    /\ scanned \in Orders => [c \in Page |-> scanned[c]] \in Todos
<1>1. Idle.todo \in Todos
  <2>1. Idle.todo \in [{} -> Places]
    BY DEF Idle
  <2> QED
    BY <2>1 DEF Todos
<1>2. ASSUME NEW todo \in Todos
      PROVE  DOMAIN todo \subseteq Chats /\ \A c : [d \in DOMAIN todo \ {c} |-> todo[d]] \in Todos
  <2>1. PICK S \in SUBSET Chats : todo \in [S -> Places]
    BY DEF Todos
  <2>2. DOMAIN todo = S
    BY <2>1
  <2>3. ASSUME NEW c PROVE [d \in DOMAIN todo \ {c} |-> todo[d]] \in Todos
    <3>1. [d \in DOMAIN todo \ {c} |-> todo[d]] \in [S \ {c} -> Places]
      BY <2>1, <2>2
    <3>2. S \ {c} \in SUBSET Chats
      OBVIOUS
    <3> QED
      BY <3>1, <3>2 DEF Todos
  <2> QED
    BY <2>2, <2>3
<1>3. ASSUME scanned \in Orders
      PROVE  [c \in Page |-> scanned[c]] \in Todos
  <2>1. Page \in SUBSET Chats
    BY DEF Page
  <2>2. [c \in Page |-> scanned[c]] \in [Page -> Places]
    BY <1>3, <2>1 DEF Orders
  <2> QED
    BY <2>1, <2>2 DEF Todos
<1> QED
  BY <1>1, <1>2, <1>3

\* A variable that is left alone keeps its type, and a fault spends one.
LEMMA Kept ==
    /\ TurnsTyped /\ UNCHANGED turnVars => TurnsTyped'
    /\ HandlesTyped /\ UNCHANGED handle => HandlesTyped'
    /\ LeasesTyped /\ UNCHANGED lock => LeasesTyped'
    /\ SchedulersTyped /\ UNCHANGED sch => SchedulersTyped'
    /\ faults \in 0 .. MaxFaults /\ Fault => faults' \in 0 .. MaxFaults
<1>1. TurnsTyped /\ UNCHANGED turnVars => TurnsTyped'
  BY DEF TurnsTyped, turnVars
<1>2. HandlesTyped /\ UNCHANGED handle => HandlesTyped'
  BY DEF HandlesTyped
<1>3. LeasesTyped /\ UNCHANGED lock => LeasesTyped'
  BY DEF LeasesTyped
<1>4. SchedulersTyped /\ UNCHANGED sch => SchedulersTyped'
  BY DEF SchedulersTyped
<1>5. faults \in 0 .. MaxFaults /\ Fault => faults' \in 0 .. MaxFaults
  BY WakeAssumption DEF Fault
<1> QED
  BY <1>1, <1>2, <1>3, <1>4, <1>5

\* The steps of user turns keep the variables of the turns in their types.
LEMMA TurnsTypedStep ==
    ASSUME TurnsTyped, NEW t \in Turns, UserTurn(t)
    PROVE  TurnsTyped'
<1> USE DEF TurnsTyped
<1>0. ChatOf[t] \in Chats
  BY WakeAssumption
<1>1. CASE ClaimAttempt(t)
  BY <1>1 DEF ClaimAttempt
<1>2. CASE AdmitUserTurn(t)
  BY <1>0, <1>2 DEF AdmitUserTurn
<1>3. ASSUME StampTerminal(t)
      PROVE  row' \in [Chats -> [open : BOOLEAN, paused : BOOLEAN]] /\ shadowed' \in [Turns -> BOOLEAN]
  <2>1. row' \in [Chats -> [open : BOOLEAN, paused : BOOLEAN]]
    BY <1>0, <1>3 DEF StampTerminal
  <2>2. shadowed' = [u \in Turns |-> shadowed[u] \/ (u # t /\ ChatOf[u] = ChatOf[t] /\ InWindow(u))]
    BY <1>3 DEF StampTerminal
  <2>3. \A u \in Turns : (shadowed[u] \/ (u # t /\ ChatOf[u] = ChatOf[t] /\ InWindow(u))) \in BOOLEAN
    OBVIOUS
  <2> HIDE DEF TurnsTyped
  <2>4. shadowed' \in [Turns -> BOOLEAN]
    BY <2>2, <2>3, Zenon
  <2> QED
    BY <2>1, <2>4
<1>4. CASE PreparationFails(t)
  <2>1. /\ turn' = [turn EXCEPT ![t] = "done"]
        /\ UNCHANGED <<attempt, receipt>>
        /\ UNCHANGED <<row, shadowed>> \/ StampTerminal(t)
    BY <1>4 DEF PreparationFails
  <2> QED
    BY <1>3, <2>1
<1>5. CASE StartTurn(t)
  BY <1>5 DEF StartTurn
<1>6. CASE ReceiptSettles(t)
  BY <1>6 DEF ReceiptSettles
<1>7. CASE EndTurn(t)
  BY <1>7 DEF EndTurn
<1>8. CASE StampTurn(t)
  <2>1. /\ turn' = [turn EXCEPT ![t] = "done"]
        /\ UNCHANGED <<attempt, receipt>>
        /\ StampTerminal(t)
    BY <1>8 DEF StampTurn
  <2> QED
    BY <1>3, <2>1
<1>9. CASE StampIsLost(t)
  BY <1>9 DEF StampIsLost
<1>10. CASE HandlerDies(t)
  BY <1>10 DEF HandlerDies
<1>11. CASE ReconcileOrphan(t)
  BY <1>11 DEF ReconcileOrphan
<1> QED
  BY <1>1, <1>2, <1>4, <1>5, <1>6, <1>7, <1>8, <1>9, <1>10, <1>11 DEF UserTurn, TurnStep

\* They leave the rest alone, faults aside.
LEMMA TurnsFrame ==
    ASSUME NEW t \in Turns, UserTurn(t)
    PROVE  UNCHANGED <<handle, scanned, lock, sch>> /\ (UNCHANGED faults \/ Fault)
BY DEF UserTurn, TurnStep, ClaimAttempt, AdmitUserTurn, PreparationFails, StartTurn,
   ReceiptSettles, EndTurn, StampTurn, StampIsLost, HandlerDies, ReconcileOrphan

LEMMA IdleTyped == Idle \in SchedulerStates
<1> DEFINE todo == [c \in {} |-> 0]
<1>1. Idle = [pc |-> "idle", todo |-> todo, chat |-> None, h |-> None,
              lost |-> FALSE, late |-> FALSE, seen |-> {}]
  BY DEF Idle
<1>2. Idle.todo = todo
  BY <1>1
<1>3. todo \in Todos
  BY <1>2, TodoTyped
<1> HIDE DEF todo
<1> QED
  BY <1>1, <1>3 DEF SchedulerStates

\* Replacing the state of one scheduler by another state keeps the type.
LEMMA OneSchedulerTyped ==
    ASSUME SchedulersTyped, NEW s \in Schedulers, NEW r \in SchedulerStates,
           sch' = [sch EXCEPT ![s] = r]
    PROVE  SchedulersTyped'
<1>1. sch \in [Schedulers -> SchedulerStates]
  BY DEF SchedulersTyped
<1> QED
  BY <1>1 DEF SchedulersTyped

\* Schedulers keep their type under their own steps.
LEMMA SchedulersTypedStep ==
    ASSUME SchedulersTyped, scanned \in Orders, NEW s \in Schedulers, List(s) \/ Step(s)
    PROVE  SchedulersTyped'
<1> USE DEF SchedulersTyped, At, Goto
<1>0. sch[s] \in SchedulerStates /\ sch \in [Schedulers -> SchedulerStates]
  OBVIOUS
<1>a. ASSUME NEW p \in {"idle", "scan", "lock"} \cup Holding, Goto(s, p)
      PROVE  SchedulersTyped'
  <2>1. [sch[s] EXCEPT !.pc = p] \in SchedulerStates
    BY <1>0 DEF SchedulerStates
  <2>2. sch' = [sch EXCEPT ![s] = [sch[s] EXCEPT !.pc = p]]
    BY <1>a
  <2> QED
    BY <2>1, <2>2, OneSchedulerTyped
<1>1. CASE List(s)
  <2>1. [c \in Page |-> scanned[c]] \in Todos
    BY TodoTyped
  <2>2. sch' = [sch EXCEPT ![s].pc = "scan", ![s].todo = [c \in Page |-> scanned[c]]]
    BY <1>1 DEF List
  <2>3. [sch[s] EXCEPT !.pc = "scan", !.todo = [c \in Page |-> scanned[c]]] \in SchedulerStates
    BY <1>0, <2>1 DEF SchedulerStates
  <2> QED
    BY <2>2, <2>3, OneSchedulerTyped
<1>2. CASE ScanEnds(s)
  BY <1>2, IdleTyped DEF ScanEnds
<1>3. CASE Consider(s)
  <2> DEFINE todo == sch[s].todo
             left(c) == [d \in DOMAIN todo \ {c} |-> todo[d]]
             pc(c) == IF GateAllows(c) THEN "lock" ELSE "scan"
  <2>1. PICK c \in DOMAIN todo :
          sch' = [sch EXCEPT ![s].pc = pc(c), ![s].todo = left(c), ![s].chat = c]
    BY <1>3 DEF Consider
  <2>2. todo \in Todos
    BY <1>0 DEF SchedulerStates
  <2>3. c \in Chats /\ left(c) \in Todos
    BY <2>2, TodoTyped
  <2>4. pc(c) \in {"idle", "scan", "lock"}
    OBVIOUS
  <2> HIDE DEF todo, left, pc
  <2>5. [sch[s] EXCEPT !.pc = pc(c), !.todo = left(c), !.chat = c] \in SchedulerStates
    BY <1>0, <2>3, <2>4 DEF SchedulerStates
  <2>6. \A x \in Schedulers : sch'[x] = IF x = s
                                 THEN [sch[s] EXCEPT !.pc = pc(c), !.todo = left(c), !.chat = c]
                                 ELSE sch[x]
    BY <1>0, <2>1 DEF SchedulerStates
  <2>7. sch' = [x \in Schedulers |-> sch'[x]]
    BY <2>1
  <2> QED
    BY <2>5, <2>6, <2>7
<1>4. CASE Acquire(s)
  BY <1>4, <1>a DEF Acquire, Holding
<1>5. CASE Recheck(s)
  BY <1>5, <1>a DEF Recheck, Holding
<1>6. CASE Claim(s)
  <2>1. CASE Goto(s, "abandon")
    BY <2>1, <1>a DEF Holding
  <2>2. CASE \E h \in Handles :
               sch' = [sch EXCEPT ![s].pc = "process", ![s].h = h, ![s].todo = Idle.todo]
    <3>1. PICK h \in Handles :
               sch' = [sch EXCEPT ![s].pc = "process", ![s].h = h, ![s].todo = Idle.todo]
      BY <2>2
    <3>2. Idle.todo \in Todos /\ "process" \in Holding
      BY TodoTyped DEF Holding
    <3>3. [sch[s] EXCEPT !.pc = "process", !.h = h, !.todo = Idle.todo] \in SchedulerStates
      BY <1>0, <3>2 DEF SchedulerStates
    <3>4. \A x \in Schedulers : sch'[x] = IF x = s
                                   THEN [sch[s] EXCEPT !.pc = "process", !.h = h, !.todo = Idle.todo]
                                   ELSE sch[x]
      BY <1>0, <3>1 DEF SchedulerStates
    <3>5. sch' = [x \in Schedulers |-> sch'[x]]
      BY <3>1
    <3> QED
      BY <3>3, <3>4, <3>5
  <2> QED
    BY <1>6, <2>1, <2>2 DEF Claim, HandlesOf
<1>7. CASE Abandon(s)
  <2>1. [sch[s] EXCEPT !.pc = "scan", !.late = FALSE] \in SchedulerStates
    BY <1>0 DEF SchedulerStates
  <2>2. sch' = [sch EXCEPT ![s] = [sch[s] EXCEPT !.pc = "scan", !.late = FALSE]]
    BY <1>7 DEF Abandon
  <2> QED
    BY <2>1, <2>2, OneSchedulerTyped
<1>8. CASE Process(s)
  <2> DEFINE pc == IF sch[s].lost THEN "release" ELSE "window"
             seen == Standing(sch[s].chat)
  <2>1. sch' = [sch EXCEPT ![s].pc = pc, ![s].seen = seen]
    BY <1>8 DEF Process
  <2>2. pc \in Holding /\ seen \in SUBSET Turns
    BY DEF Standing, TurnsOf, Holding
  <2> HIDE DEF pc, seen
  <2>3. [sch[s] EXCEPT !.pc = pc, !.seen = seen] \in SchedulerStates
    BY <1>0, <2>2 DEF SchedulerStates
  <2>4. sch' = [sch EXCEPT ![s] = [sch[s] EXCEPT !.pc = pc, !.seen = seen]]
    BY <2>1
  <2> QED
    BY <2>3, <2>4, OneSchedulerTyped
<1>9. CASE Gate(s)
  BY <1>9, <1>a DEF Gate, Read, Holding
<1>10. CASE Admit(s)
  <2> DEFINE pc == IF Fence(sch[s].chat) THEN "admitted" ELSE "release"
  <2>1. sch' = [sch EXCEPT ![s].pc = pc, ![s].seen = {}]
    BY <1>10 DEF Admit
  <2>2. pc \in Holding
    BY DEF Holding
  <2> HIDE DEF pc
  <2>3. [sch[s] EXCEPT !.pc = pc, !.seen = {}] \in SchedulerStates
    BY <1>0, <2>2 DEF SchedulerStates
  <2>4. sch' = [sch EXCEPT ![s] = [sch[s] EXCEPT !.pc = pc, !.seen = {}]]
    BY <2>1
  <2> QED
    BY <2>3, <2>4, OneSchedulerTyped
<1>11. CASE Execute(s)
  BY <1>11, <1>a DEF Execute, Holding
<1>12. CASE CatchUpEnds(s)
  BY <1>12, <1>a DEF CatchUpEnds, Holding
<1>13. CASE ReleaseClaim(s)
  BY <1>13, <1>a DEF ReleaseClaim, Holding
<1>14. CASE Unlock(s)
  BY <1>14, IdleTyped DEF Unlock
<1> QED
  BY <1>1, <1>2, <1>3, <1>4, <1>5, <1>6, <1>7, <1>8, <1>9, <1>10, <1>11, <1>12, <1>13, <1>14 DEF Step

\* Handles, leases and the order of the chats keep their types under the steps of a
\* scheduler.
LEMMA RowsTypedStep ==
    ASSUME HandlesTyped, LeasesTyped, SchedulersTyped, scanned \in Orders,
           NEW s \in Schedulers, List(s) \/ Step(s)
    PROVE  HandlesTyped' /\ LeasesTyped' /\ scanned' \in Orders
<1>1. CASE handle' = handle /\ lock' = lock /\ scanned' = scanned
  BY <1>1, Kept
<1>2. CASE Consider(s)
  <2>1. PICK c \in DOMAIN sch[s].todo : scanned' = RecordScan(c) /\ UNCHANGED <<handle, lock>>
    BY <1>2 DEF Consider
  <2>2. sch[s].todo \in Todos
    BY DEF SchedulersTyped, SchedulerStates
  <2>3. c \in Chats
    BY <2>1, <2>2, TodoTyped
  <2> QED
    BY <2>1, <2>3, RecordScanOrders, Kept
<1>3. CASE Acquire(s)
  <2>1. /\ scanned' = scanned /\ handle' = handle
        /\ lock' \in {lock, [lock EXCEPT ![sch[s].chat] = [holder |-> s, expired |-> FALSE]]}
    BY <1>3 DEF Acquire
  <2>2. LeasesTyped'
    <3>1. [holder |-> s, expired |-> FALSE]
            \in [holder : Schedulers \cup {"free", "dead"}, expired : BOOLEAN]
      OBVIOUS
    <3> QED
      BY <2>1, <3>1 DEF LeasesTyped
  <2> QED
    BY <2>1, <2>2, Kept
<1>4. CASE Claim(s)
  <2>1. /\ scanned' = scanned /\ lock' = lock
        /\ \/ handle' = handle
           \/ \E h \in Handles : handle' = [handle EXCEPT ![h].state = "claimed", ![h].owner = s]
    BY <1>4 DEF Claim, HandlesOf
  <2>2. HandlesTyped'
    <3>1. CASE handle' = handle
      BY <3>1 DEF HandlesTyped
    <3>2. ASSUME NEW h \in Handles,
                 handle' = [handle EXCEPT ![h].state = "claimed", ![h].owner = s]
          PROVE  HandlesTyped'
      <4>1. [handle[h] EXCEPT !.state = "claimed", !.owner = s]
              \in [state : {"ready", "claimed", "done"}, backoff : BOOLEAN,
                  owner : Schedulers \cup {None, "dead"}]
        BY DEF HandlesTyped
      <4>2. handle' = [handle EXCEPT ![h] = [handle[h] EXCEPT !.state = "claimed", !.owner = s]]
        BY <3>2
      <4> QED
        BY <4>1, <4>2 DEF HandlesTyped
    <3> QED
      BY <2>1, <3>1, <3>2
  <2> QED
    BY <2>1, <2>2, Kept
<1>5. CASE Abandon(s) \/ Unlock(s)
  <2>1. scanned' = scanned /\ handle' = handle /\ lock' = Unlocked(s)
    BY <1>5 DEF Abandon, Unlock
  <2>2. LeasesTyped'
    BY <2>1 DEF LeasesTyped, Unlocked
  <2> QED
    BY <2>1, <2>2, Kept
<1>6. CASE CatchUpEnds(s)
  <2> DEFINE h == sch[s].h
             ended == [handle[h] EXCEPT !.state = "done", !.owner = None]
  <2>1. /\ scanned' = scanned /\ lock' = lock
        /\ handle' \in {handle, [handle EXCEPT ![h] = ended]}
    BY <1>6 DEF CatchUpEnds
  <2>2. ASSUME h \in Handles
        PROVE  ended \in [state : {"ready", "claimed", "done"}, backoff : BOOLEAN,
                           owner : Schedulers \cup {None, "dead"}]
    BY <2>2 DEF HandlesTyped
  <2> HIDE DEF ended, h
  <2>3. HandlesTyped'
    <3>1. CASE h \in Handles
      BY <2>1, <2>2, <3>1 DEF HandlesTyped
    <3>2. CASE h \notin Handles
      BY <2>1, <3>2 DEF HandlesTyped
    <3> QED
      BY <3>1, <3>2
  <2> QED
    BY <2>1, <2>3, Kept
<1>7. CASE ReleaseClaim(s)
  <2>1. /\ scanned' = scanned /\ lock' = lock
        /\ handle' \in {handle, [handle EXCEPT ![sch[s].h] =
                                  [state |-> "ready", backoff |-> TRUE, owner |-> None]]}
    BY <1>7 DEF ReleaseClaim
  <2>2. HandlesTyped'
    <3>1. [state |-> "ready", backoff |-> TRUE, owner |-> None]
            \in [state : {"ready", "claimed", "done"}, backoff : BOOLEAN,
                owner : Schedulers \cup {None, "dead"}]
      OBVIOUS
    <3> QED
      BY <2>1, <3>1 DEF HandlesTyped
  <2> QED
    BY <2>1, <2>2, Kept
<1> QED
  BY <1>1, <1>2, <1>3, <1>4, <1>5, <1>6, <1>7
  DEF Step, List, ScanEnds, Recheck, Process, Gate, Read, Admit, Execute

\* The flag of a lease changes whatever its index is.
LEMMA LeaseFlagTyped ==
    ASSUME LeasesTyped, NEW c, NEW b \in BOOLEAN, lock' = [lock EXCEPT ![c].expired = b]
    PROVE  LeasesTyped'
<1>1. CASE c \in Chats
  <2>1. [lock[c] EXCEPT !.expired = b]
          \in [holder : Schedulers \cup {"free", "dead"}, expired : BOOLEAN]
    BY <1>1 DEF LeasesTyped
  <2>2. lock' = [lock EXCEPT ![c] = [lock[c] EXCEPT !.expired = b]]
    OBVIOUS
  <2> QED
    BY <2>1, <2>2 DEF LeasesTyped
<1>2. CASE c \notin Chats
  BY <1>2 DEF LeasesTyped
<1> QED
  BY <1>1, <1>2

\* A scheduler leaves the user turns alone, and faults too but for a crash.
LEMMA StepFrame ==
    ASSUME NEW s \in Schedulers, List(s) \/ Step(s)
    PROVE  UNCHANGED <<turnVars, faults>>
BY DEF Step, List, ScanEnds, Consider, Acquire, Recheck, Claim, Abandon, Process, Gate, Read,
   Admit, Execute, CatchUpEnds, ReleaseClaim, Unlock

\* Every variable keeps its type under every step.
LEMMA TypeOKNext ==
    ASSUME TypeOK, [Next]_vars
    PROVE  TypeOK'
<1>0. /\ TurnsTyped /\ HandlesTyped /\ LeasesTyped /\ SchedulersTyped
      /\ scanned \in Orders /\ faults \in 0 .. MaxFaults
  BY DEF TypeOK
<1> USE DEF TypeOK
<1>1. CASE \E t \in Turns : UserTurn(t)
  BY <1>0, <1>1, TurnsTypedStep, TurnsFrame, Kept
<1>2. ASSUME NEW s \in Schedulers, List(s) \/ Step(s)
      PROVE  TypeOK'
  BY <1>0, <1>2, SchedulersTypedStep, RowsTypedStep, StepFrame, Kept
<1>3. ASSUME NEW s \in Schedulers, Heartbeat(s)
      PROVE  TypeOK'
  <2>1. /\ UNCHANGED <<turnVars, handle, scanned, faults>>
        /\ \/ lock' = [lock EXCEPT ![sch[s].chat].expired = FALSE] /\ UNCHANGED sch
           \/ sch' = [sch EXCEPT ![s].lost = TRUE] /\ UNCHANGED lock
    BY <1>3 DEF Heartbeat
  <2>2. SchedulersTyped'
    <3>1. CASE sch' = sch
      BY <1>0, <3>1 DEF SchedulersTyped
    <3>2. CASE sch' = [sch EXCEPT ![s].lost = TRUE]
      <4>1. [sch[s] EXCEPT !.lost = TRUE] \in SchedulerStates
        BY <1>0 DEF SchedulersTyped, SchedulerStates
      <4> QED
        BY <1>0, <3>2, <4>1, OneSchedulerTyped
    <3> QED
      BY <2>1, <3>1, <3>2
  <2>3. LeasesTyped'
    BY <1>0, <2>1, LeaseFlagTyped DEF LeasesTyped
  <2> QED
    BY <1>0, <2>1, <2>2, <2>3, Kept
<1>4. ASSUME NEW s \in Schedulers, Crash(s)
      PROVE  TypeOK'
  <2>1. SchedulersTyped'
    BY <1>0, <1>4, IdleTyped DEF Crash, SchedulersTyped
  <2>2. LeasesTyped'
    BY <1>0, <1>4 DEF Crash, LeasesTyped
  <2>3. HandlesTyped'
    BY <1>0, <1>4 DEF Crash, HandlesTyped
  <2> QED
    BY <1>0, <1>4, <2>1, <2>2, <2>3, Kept DEF Crash
<1>5. ASSUME NEW c \in Chats, IdlePauseEnds(c)
      PROVE  TypeOK'
  <2>1. TurnsTyped'
    BY <1>0, <1>5 DEF IdlePauseEnds, TurnsTyped
  <2> QED
    BY <1>0, <1>5, <2>1, Kept DEF IdlePauseEnds
<1>6. ASSUME NEW c \in Chats, LeaseExpires(c)
      PROVE  TypeOK'
  <2>1. LeasesTyped'
    BY <1>0, <1>6, LeaseFlagTyped DEF LeaseExpires
  <2>2. SchedulersTyped'
    <3> DEFINE x == lock[c].holder
    <3>1. CASE sch' = sch
      BY <1>0, <3>1 DEF SchedulersTyped
    <3>2. ASSUME NEW y \in Schedulers, sch' = [sch EXCEPT ![y].late = TRUE]
          PROVE  SchedulersTyped'
      <4>1. [sch[y] EXCEPT !.late = TRUE] \in SchedulerStates
        BY <1>0 DEF SchedulersTyped, SchedulerStates
      <4>2. sch' = [sch EXCEPT ![y] = [sch[y] EXCEPT !.late = TRUE]]
        BY <3>2
      <4> QED
        BY <1>0, <4>1, <4>2, OneSchedulerTyped
    <3>3. x \in Schedulers \cup {"free", "dead"}
      BY <1>0, <1>6 DEF LeasesTyped
    <3>4. x # "free"
      BY <1>6 DEF LeaseExpires
    <3>5. \/ x = "dead" /\ sch' = sch
          \/ x # "dead" /\ sch' = [sch EXCEPT ![x].late = TRUE]
      BY <1>6 DEF LeaseExpires
    <3> HIDE DEF x
    <3> QED
      BY <3>1, <3>2, <3>3, <3>4, <3>5
  <2> QED
    BY <1>0, <1>6, <2>1, <2>2, Kept DEF LeaseExpires
<1>7. ASSUME NEW h \in Handles, BackoffEnds(h)
      PROVE  TypeOK'
  <2>1. HandlesTyped'
    BY <1>0, <1>7 DEF BackoffEnds, HandlesTyped
  <2> QED
    BY <1>0, <1>7, <2>1, Kept DEF BackoffEnds
<1>8. ASSUME NEW h \in Handles, ClaimExpires(h)
      PROVE  TypeOK'
  <2>1. HandlesTyped'
    BY <1>0, <1>8 DEF ClaimExpires, HandlesTyped
  <2> QED
    BY <1>0, <1>8, <2>1, Kept DEF ClaimExpires
<1>9. CASE UNCHANGED vars
  BY <1>0, <1>9, Kept DEF vars
<1> QED
  BY <1>1, <1>2, <1>3, <1>4, <1>5, <1>6, <1>7, <1>8, <1>9 DEF Next

\* Type correctness of the coordinator, whatever the chats, turns and schedulers.
THEOREM TypeCorrect == Spec => []TypeOK
<1>1. Init => TypeOK
  <2> SUFFICES ASSUME Init PROVE TypeOK
    OBVIOUS
  <2>1. TurnsTyped
    BY DEF Init, TurnsTyped
  <2>2. HandlesTyped /\ LeasesTyped
    BY DEF Init, HandlesTyped, LeasesTyped
  <2>3. SchedulersTyped
    BY IdleTyped DEF Init, SchedulersTyped
  <2>4. scanned \in Orders /\ faults \in 0 .. MaxFaults
    BY WakeAssumption DEF Init
  <2> QED
    BY <2>1, <2>2, <2>3, <2>4 DEF TypeOK
<1> QED
  BY <1>1, TypeOKNext, PTL DEF Spec

-----------------------------------------------------------------------------
(* The catch-ups of a chat, one after the other.                            *)

\* A scheduler past the lock of a chat that was never stalled holds its lease.
LeaseHeld ==
    \A s \in Schedulers :
        /\ At(s, "lock") \/ sch[s].pc \in Holding => sch[s].chat \in Chats
        /\ sch[s].pc \in Holding /\ ~ sch[s].late =>
              lock[sch[s].chat].holder = s /\ ~ lock[sch[s].chat].expired

\* A step that takes no lock and changes no lease keeps the claims to them.
LEMMA LeaseFrame ==
    ASSUME LeaseHeld, UNCHANGED lock,
           \A r \in Schedulers :
              \/ sch'[r].pc \in {"idle", "scan"}
              \/ sch'[r].pc = "lock" /\ sch'[r].chat \in Chats
              \/ /\ sch[r].pc \in Holding /\ sch'[r].chat = sch[r].chat
                 /\ sch[r].late => sch'[r].late
    PROVE  LeaseHeld'
<1>1. "idle" \notin Holding /\ "scan" \notin Holding /\ "lock" \notin Holding
  BY DEF Holding
<1> QED
  BY <1>1 DEF LeaseHeld, At

\* A step of s that stays past the lock keeps the claims to the leases.
LEMMA LeaseKept ==
    ASSUME TypeOK, LeaseHeld, UNCHANGED lock, NEW s \in Schedulers, sch[s].pc \in Holding,
           \A r \in Schedulers \ {s} : sch'[r] = sch[r],
           sch'[s].chat = sch[s].chat, sch[s].late => sch'[s].late
    PROVE  LeaseHeld'
<1>1. ASSUME NEW r \in Schedulers
      PROVE  /\ sch'[r].pc = "lock" \/ sch'[r].pc \in Holding => sch'[r].chat \in Chats
             /\ sch'[r].pc \in Holding /\ ~ sch'[r].late =>
                   lock[sch'[r].chat].holder = r /\ ~ lock[sch'[r].chat].expired
  <2>1. CASE r = s
    BY <2>1 DEF LeaseHeld
  <2>2. CASE r # s
    <3>1. sch'[r] = sch[r]
      BY <2>2
    <3> QED
      BY <3>1 DEF LeaseHeld, At
  <2> QED
    BY <2>1, <2>2
<1> QED
  BY <1>1 DEF LeaseHeld, At

\* A lease that s gives up is its own: nobody else loses one.
LEMMA LeaseGivenUp ==
    ASSUME TypeOK, LeaseHeld, NEW s \in Schedulers, sch[s].pc \in Holding, lock' = Unlocked(s),
           \A r \in Schedulers \ {s} : sch'[r] = sch[r], sch'[s].pc \in {"idle", "scan"}
    PROVE  LeaseHeld'
<1>0. "idle" \notin Holding /\ "scan" \notin Holding
  BY DEF Holding
<1>1. ASSUME NEW r \in Schedulers
      PROVE  /\ sch'[r].pc = "lock" \/ sch'[r].pc \in Holding => sch'[r].chat \in Chats
             /\ sch'[r].pc \in Holding /\ ~ sch'[r].late =>
                   lock'[sch'[r].chat].holder = r /\ ~ lock'[sch'[r].chat].expired
  <2>1. CASE r = s
    BY <1>0, <2>1
  <2>2. CASE r # s
    <3>1. sch'[r] = sch[r]
      BY <2>2
    <3>2. sch[r].pc = "lock" \/ sch[r].pc \in Holding => sch[r].chat \in Chats
      BY DEF LeaseHeld, At
    <3>3. ASSUME sch[r].pc \in Holding, ~ sch[r].late
          PROVE  lock'[sch[r].chat] = lock[sch[r].chat]
      <4>1. lock[sch[r].chat].holder = r
        BY <3>3 DEF LeaseHeld
      <4> QED
        BY <2>2, <4>1 DEF Unlocked
    <3>4. sch[r].pc \in Holding /\ ~ sch[r].late =>
             lock[sch[r].chat].holder = r /\ ~ lock[sch[r].chat].expired
      BY DEF LeaseHeld
    <3> QED
      BY <3>1, <3>2, <3>3, <3>4
  <2> QED
    BY <2>1, <2>2
<1> QED
  BY <1>1 DEF LeaseHeld, At

\* LeaseHeld is kept by the steps of a scheduler.
LEMMA LeaseHeldStep ==
    ASSUME TypeOK, LeaseHeld, NEW s \in Schedulers, List(s) \/ Step(s)
    PROVE  LeaseHeld'
<1>0. sch \in [Schedulers -> SchedulerStates] /\ sch[s] \in SchedulerStates
  BY DEF TypeOK, SchedulersTyped
<1>a. ASSUME NEW p, sch[s].pc \in Holding, Goto(s, p), UNCHANGED lock
      PROVE  LeaseHeld'
  <2>1. /\ \A r \in Schedulers \ {s} : sch'[r] = sch[r]
        /\ sch'[s].chat = sch[s].chat /\ sch'[s].late = sch[s].late
    BY <1>0, <1>a DEF Goto, SchedulerStates
  <2> QED
    BY <1>a, <2>1, LeaseKept
<1>b. \A r \in Schedulers : sch[r].pc \in {"idle", "scan", "lock"} \cup Holding
  BY <1>0 DEF SchedulerStates
<1>c. ASSUME UNCHANGED lock, \A r \in Schedulers \ {s} : sch'[r] = sch[r],
             \/ sch'[s].pc \in {"idle", "scan"}
             \/ sch'[s].pc = "lock" /\ sch'[s].chat \in Chats
      PROVE  LeaseHeld'
  <2>1. ASSUME NEW r \in Schedulers \ {s}
        PROVE  \/ sch'[r].pc \in {"idle", "scan"}
               \/ sch'[r].pc = "lock" /\ sch'[r].chat \in Chats
               \/ /\ sch[r].pc \in Holding /\ sch'[r].chat = sch[r].chat
                  /\ sch[r].late => sch'[r].late
    <3>1. sch'[r] = sch[r]
      BY <1>c
    <3>2. sch[r].pc = "lock" => sch[r].chat \in Chats
      BY DEF LeaseHeld, At
    <3> QED
      BY <1>b, <3>1, <3>2
  <2> QED
    BY <1>c, <2>1, LeaseFrame
<1>1. CASE List(s) \/ ScanEnds(s)
  <2>1. UNCHANGED lock /\ (\A r \in Schedulers \ {s} : sch'[r] = sch[r])
    BY <1>0, <1>1 DEF List, ScanEnds
  <2>2. sch'[s].pc \in {"idle", "scan"}
    BY <1>0, <1>1 DEF List, ScanEnds, SchedulerStates, Idle
  <2> QED
    BY <1>c, <2>1, <2>2
<1>2. CASE Consider(s)
  <2> DEFINE todo == sch[s].todo
             left(c) == [d \in DOMAIN todo \ {c} |-> todo[d]]
             pc(c) == IF GateAllows(c) THEN "lock" ELSE "scan"
  <2>1. PICK c \in DOMAIN todo :
          /\ UNCHANGED lock
          /\ sch' = [sch EXCEPT ![s].pc = pc(c), ![s].todo = left(c), ![s].chat = c]
    BY <1>2 DEF Consider
  <2>2. todo \in Todos
    BY <1>0 DEF SchedulerStates
  <2>3. c \in Chats
    BY <2>2, TodoTyped
  <2>4. pc(c) \in {"lock", "scan"}
    OBVIOUS
  <2> HIDE DEF todo, left, pc
  <2>5. /\ \A r \in Schedulers \ {s} : sch'[r] = sch[r]
        /\ sch'[s].pc = pc(c) /\ sch'[s].chat = c
    BY <1>0, <2>1 DEF SchedulerStates
  <2> QED
    BY <1>c, <2>1, <2>3, <2>4, <2>5
<1>3. CASE Acquire(s)
  <2> DEFINE c == sch[s].chat
  <2>0. c \in Chats
    BY <1>3 DEF Acquire, LeaseHeld
  <2>1. CASE ~ (lock[c].holder = "free" \/ lock[c].expired)
    <3>1. sch' = [sch EXCEPT ![s].pc = "scan"] /\ UNCHANGED lock
      BY <1>3, <2>1 DEF Acquire, Goto
    <3>2. (\A r \in Schedulers \ {s} : sch'[r] = sch[r]) /\ sch'[s].pc = "scan"
      BY <1>0, <3>1 DEF SchedulerStates
    <3> QED
      BY <1>c, <3>1, <3>2
  <2>2. CASE lock[c].holder = "free" \/ lock[c].expired
    <3>1. /\ lock' = [lock EXCEPT ![c] = [holder |-> s, expired |-> FALSE]]
          /\ sch' = [sch EXCEPT ![s].pc = "recheck"]
      BY <1>3, <2>2 DEF Acquire, Goto
    <3>2. /\ \A r \in Schedulers \ {s} : sch'[r] = sch[r]
          /\ sch'[s].pc = "recheck" /\ sch'[s].chat = c
      BY <1>0, <3>1 DEF SchedulerStates
    <3>3. lock'[c].holder = s /\ ~ lock'[c].expired /\ \A d \in Chats \ {c} : lock'[d] = lock[d]
      BY <2>0, <3>1 DEF TypeOK, LeasesTyped
    <3>4. ASSUME NEW r \in Schedulers
          PROVE  /\ sch'[r].pc = "lock" \/ sch'[r].pc \in Holding => sch'[r].chat \in Chats
                 /\ sch'[r].pc \in Holding /\ ~ sch'[r].late =>
                       lock'[sch'[r].chat].holder = r /\ ~ lock'[sch'[r].chat].expired
      <4>1. CASE r = s
        BY <2>0, <3>2, <3>3, <4>1
      <4>2. CASE r # s
        <5>1. sch'[r] = sch[r]
          BY <3>2, <4>2
        <5>2. /\ sch[r].pc = "lock" \/ sch[r].pc \in Holding => sch[r].chat \in Chats
              /\ sch[r].pc \in Holding /\ ~ sch[r].late =>
                    lock[sch[r].chat].holder = r /\ ~ lock[sch[r].chat].expired
          BY DEF LeaseHeld, At
        <5>3. r # "free"
          BY WakeAssumption
        <5>4. sch[r].pc \in Holding /\ ~ sch[r].late => sch[r].chat # c
          BY <2>2, <5>2, <5>3
        <5> QED
          BY <3>3, <5>1, <5>2, <5>4
      <4> QED
        BY <4>1, <4>2
    <3> QED
      BY <3>4 DEF LeaseHeld, At
  <2> QED
    BY <2>1, <2>2
<1>4. CASE Recheck(s)
  BY <1>4, <1>a DEF Recheck, At, Holding
<1>5. CASE Claim(s)
  <2>1. CASE Goto(s, "abandon")
    BY <1>5, <1>a, <2>1 DEF Claim, At, Holding
  <2>2. CASE \E h \in Handles :
               sch' = [sch EXCEPT ![s].pc = "process", ![s].h = h, ![s].todo = Idle.todo]
    <3>1. PICK h \in Handles :
               sch' = [sch EXCEPT ![s].pc = "process", ![s].h = h, ![s].todo = Idle.todo]
      BY <2>2
    <3>2. /\ \A r \in Schedulers \ {s} : sch'[r] = sch[r]
          /\ sch'[s].chat = sch[s].chat /\ sch'[s].late = sch[s].late
      BY <1>0, <3>1 DEF SchedulerStates
    <3>3. sch[s].pc \in Holding /\ UNCHANGED lock
      BY <1>5 DEF Claim, At, Holding
    <3> QED
      BY <3>2, <3>3, LeaseKept
  <2> QED
    BY <1>5, <2>1, <2>2 DEF Claim, HandlesOf
<1>6. CASE Abandon(s)
  <2>1. /\ sch' = [sch EXCEPT ![s].pc = "scan", ![s].late = FALSE]
        /\ lock' = Unlocked(s) /\ sch[s].pc \in Holding
    BY <1>6 DEF Abandon, At, Holding
  <2>2. (\A r \in Schedulers \ {s} : sch'[r] = sch[r]) /\ sch'[s].pc = "scan"
    BY <1>0, <2>1 DEF SchedulerStates
  <2> QED
    BY <2>1, <2>2, LeaseGivenUp
<1>7. CASE Process(s)
  <2> DEFINE pc == IF sch[s].lost THEN "release" ELSE "window"
             seen == Standing(sch[s].chat)
  <2>1. sch' = [sch EXCEPT ![s].pc = pc, ![s].seen = seen] /\ UNCHANGED lock
    BY <1>7 DEF Process
  <2>2. sch[s].pc \in Holding
    BY <1>7 DEF Process, At, Holding
  <2> HIDE DEF pc, seen
  <2>3. /\ \A r \in Schedulers \ {s} : sch'[r] = sch[r]
        /\ sch'[s].chat = sch[s].chat /\ sch'[s].late = sch[s].late
    BY <1>0, <2>1 DEF SchedulerStates
  <2> QED
    BY <2>1, <2>2, <2>3, LeaseKept
<1>8. CASE Gate(s)
  BY <1>8, <1>a DEF Gate, Read, At, Holding
<1>9. CASE Admit(s)
  <2> DEFINE pc == IF Fence(sch[s].chat) THEN "admitted" ELSE "release"
  <2>1. sch' = [sch EXCEPT ![s].pc = pc, ![s].seen = {}] /\ UNCHANGED lock
    BY <1>9 DEF Admit
  <2>2. sch[s].pc \in Holding
    BY <1>9 DEF Admit, At, Holding
  <2> HIDE DEF pc
  <2>3. /\ \A r \in Schedulers \ {s} : sch'[r] = sch[r]
        /\ sch'[s].chat = sch[s].chat /\ sch'[s].late = sch[s].late
    BY <1>0, <2>1 DEF SchedulerStates
  <2> QED
    BY <2>1, <2>2, <2>3, LeaseKept
<1>10. CASE Execute(s)
  BY <1>10, <1>a DEF Execute, At, Holding
<1>11. CASE CatchUpEnds(s)
  BY <1>11, <1>a DEF CatchUpEnds, At, Holding
<1>12. CASE ReleaseClaim(s)
  BY <1>12, <1>a DEF ReleaseClaim, At, Holding
<1>13. CASE Unlock(s)
  <2>1. sch' = [sch EXCEPT ![s] = Idle] /\ lock' = Unlocked(s) /\ sch[s].pc \in Holding
    BY <1>13 DEF Unlock, At, Holding
  <2>2. (\A r \in Schedulers \ {s} : sch'[r] = sch[r]) /\ sch'[s].pc = "idle"
    BY <1>0, <2>1 DEF Idle
  <2> QED
    BY <2>1, <2>2, LeaseGivenUp
<1> QED
  BY <1>1, <1>2, <1>3, <1>4, <1>5, <1>6, <1>7, <1>8, <1>9, <1>10, <1>11, <1>12, <1>13 DEF Step

\* LeaseHeld is kept by every step.
LEMMA LeaseHeldNext ==
    ASSUME TypeOK, LeaseHeld, [Next]_vars
    PROVE  LeaseHeld'
<1>0. sch \in [Schedulers -> SchedulerStates] /\ LeasesTyped
  BY DEF TypeOK, SchedulersTyped
<1>a. ASSUME UNCHANGED <<lock, sch>> PROVE LeaseHeld'
  BY <1>a DEF LeaseHeld, At
<1>1. CASE \E t \in Turns : UserTurn(t)
  BY <1>1, <1>a, TurnsFrame
<1>2. ASSUME NEW s \in Schedulers, List(s) \/ Step(s)
      PROVE  LeaseHeld'
  BY <1>2, LeaseHeldStep
<1>3. ASSUME NEW s \in Schedulers, Heartbeat(s)
      PROVE  LeaseHeld'
  <2>0. sch[s].pc \in Holding
    BY <1>3 DEF Heartbeat, Heartbeating
  <2>1. CASE lock[sch[s].chat].holder = s
    <3>1. lock' = [lock EXCEPT ![sch[s].chat].expired = FALSE] /\ UNCHANGED sch
      BY <1>3, <2>1 DEF Heartbeat
    <3>2. \A c \in Chats : lock'[c].holder = lock[c].holder /\ (~ lock[c].expired => ~ lock'[c].expired)
      BY <1>0, <3>1 DEF LeasesTyped
    <3> QED
      BY <3>1, <3>2 DEF LeaseHeld, At
  <2>2. CASE lock[sch[s].chat].holder # s
    <3>1. sch' = [sch EXCEPT ![s].lost = TRUE] /\ UNCHANGED lock
      BY <1>3, <2>2 DEF Heartbeat
    <3>2. /\ \A r \in Schedulers \ {s} : sch'[r] = sch[r]
          /\ sch'[s].chat = sch[s].chat /\ sch'[s].late = sch[s].late
      BY <1>0, <3>1 DEF SchedulerStates
    <3> QED
      BY <2>0, <3>1, <3>2, LeaseKept
  <2> QED
    BY <2>1, <2>2
<1>4. ASSUME NEW s \in Schedulers, Crash(s)
      PROVE  LeaseHeld'
  <2>1. /\ sch' = [sch EXCEPT ![s] = Idle]
        /\ lock' = [c \in Chats |-> IF lock[c].holder = s THEN [lock[c] EXCEPT !.holder = "dead"] ELSE lock[c]]
    BY <1>4 DEF Crash
  <2>2. (\A r \in Schedulers \ {s} : sch'[r] = sch[r]) /\ sch'[s].pc = "idle"
    BY <1>0, <2>1 DEF Idle
  <2>3. \A c \in Chats : lock[c].holder # s => lock'[c] = lock[c]
    BY <2>1
  <2>4. ASSUME NEW r \in Schedulers
        PROVE  /\ sch'[r].pc = "lock" \/ sch'[r].pc \in Holding => sch'[r].chat \in Chats
               /\ sch'[r].pc \in Holding /\ ~ sch'[r].late =>
                     lock'[sch'[r].chat].holder = r /\ ~ lock'[sch'[r].chat].expired
    <3>1. CASE r = s
      BY <2>2, <3>1 DEF Holding
    <3>2. CASE r # s
      <4>1. sch'[r] = sch[r]
        BY <2>2, <3>2
      <4>2. /\ sch[r].pc = "lock" \/ sch[r].pc \in Holding => sch[r].chat \in Chats
            /\ sch[r].pc \in Holding /\ ~ sch[r].late =>
                  lock[sch[r].chat].holder = r /\ ~ lock[sch[r].chat].expired
        BY DEF LeaseHeld, At
      <4> QED
        BY <2>3, <3>2, <4>1, <4>2
    <3> QED
      BY <3>1, <3>2
  <2> QED
    BY <2>4 DEF LeaseHeld, At
<1>5. ASSUME NEW c \in Chats, IdlePauseEnds(c)
      PROVE  LeaseHeld'
  BY <1>5, <1>a DEF IdlePauseEnds
<1>6. ASSUME NEW c \in Chats, LeaseExpires(c)
      PROVE  LeaseHeld'
  <2> DEFINE holder == lock[c].holder
  <2>1. /\ lock' = [lock EXCEPT ![c].expired = TRUE]
        /\ \/ holder = "dead" /\ UNCHANGED sch
           \/ sch' = [sch EXCEPT ![holder].late = TRUE]
    BY <1>6 DEF LeaseExpires
  <2>2. \A d \in Chats \ {c} : lock'[d] = lock[d]
    BY <1>0, <2>1 DEF LeasesTyped
  <2>3. ASSUME NEW r \in Schedulers
        PROVE  /\ sch'[r].pc = "lock" \/ sch'[r].pc \in Holding => sch'[r].chat \in Chats
               /\ sch'[r].pc \in Holding /\ ~ sch'[r].late =>
                     lock'[sch'[r].chat].holder = r /\ ~ lock'[sch'[r].chat].expired
    <3>1. /\ sch[r].pc = "lock" \/ sch[r].pc \in Holding => sch[r].chat \in Chats
          /\ sch[r].pc \in Holding /\ ~ sch[r].late =>
                lock[sch[r].chat].holder = r /\ ~ lock[sch[r].chat].expired
      BY DEF LeaseHeld, At
    <3>2. CASE r # holder
      <4>1. sch'[r] = sch[r]
        BY <1>0, <2>1, <3>2
      <4>2. sch[r].pc \in Holding /\ ~ sch[r].late => sch[r].chat # c
        BY <3>1, <3>2
      <4> QED
        BY <2>2, <3>1, <4>1, <4>2
    <3>3. CASE r = holder
      <4>1. holder # "dead"
        BY <3>3, WakeAssumption
      <4>2. sch' = [sch EXCEPT ![r].late = TRUE]
        BY <2>1, <3>3, <4>1
      <4>3. sch'[r].late /\ sch'[r].pc = sch[r].pc /\ sch'[r].chat = sch[r].chat
        BY <1>0, <4>2 DEF SchedulerStates
      <4> QED
        BY <3>1, <4>3
    <3> QED
      BY <3>2, <3>3
  <2> QED
    BY <2>3 DEF LeaseHeld, At
<1>7. ASSUME NEW h \in Handles, BackoffEnds(h) \/ ClaimExpires(h)
      PROVE  LeaseHeld'
  BY <1>7, <1>a DEF BackoffEnds, ClaimExpires
<1>8. CASE UNCHANGED vars
  BY <1>8, <1>a DEF vars
<1> QED
  BY <1>1, <1>2, <1>3, <1>4, <1>5, <1>6, <1>7, <1>8 DEF Next

\* Of two schedulers past the lock of one chat, one was stalled past its TTL.
THEOREM OneAtATime == Spec => []SerialCatchUps
<1>1. Init => LeaseHeld
  BY DEF Init, LeaseHeld, At, Idle, Holding
<1>2. LeaseHeld => SerialCatchUps
  BY DEF LeaseHeld, SerialCatchUps
<1> QED
  BY <1>1, <1>2, LeaseHeldNext, TypeCorrect, PTL DEF Spec

-----------------------------------------------------------------------------
(* A catch-up is admitted behind the user's turns.                          *)

\* The window of a turn is open on the row, or another turn closed it.
WindowOpen ==
    \A t \in Turns : InWindow(t) /\ ~ shadowed[t] => row[ChatOf[t]].open

LEMMA WindowOpenTurns ==
    ASSUME TurnsTyped, WindowOpen, NEW t \in Turns, UserTurn(t)
    PROVE  WindowOpen'
<1> USE DEF TurnsTyped
<1>0. ChatOf \in [Turns -> Chats] \/ ChatOf[t] \in Chats
  BY WakeAssumption
<1>a. ASSUME StampTerminal(t), turn' = [turn EXCEPT ![t] = "done"]
      PROVE  WindowOpen'
  <2>1. ASSUME NEW u \in Turns, InWindow(u)', ~ shadowed'[u]
        PROVE  row'[ChatOf[u]].open
    <3>1. u # t /\ InWindow(u)
      BY <1>a, <2>1 DEF InWindow
    <3>2. ~ shadowed[u] /\ ChatOf[u] # ChatOf[t]
      BY <1>a, <2>1, <3>1 DEF StampTerminal
    <3>3. ChatOf[u] \in Chats
      BY WakeAssumption
    <3>4. row'[ChatOf[u]] = row[ChatOf[u]]
      BY <1>a, <3>2, <3>3 DEF StampTerminal
    <3> QED
      BY <3>1, <3>2, <3>4 DEF WindowOpen
  <2> QED
    BY <2>1 DEF WindowOpen, InWindow
<1>b. ASSUME UNCHANGED <<row, shadowed>>, \A u \in Turns : InWindow(u)' => InWindow(u)
      PROVE  WindowOpen'
  BY <1>b DEF WindowOpen, InWindow
<1>1. CASE AdmitUserTurn(t)
  <2>1. ASSUME NEW u \in Turns, InWindow(u)', ~ shadowed'[u]
        PROVE  row'[ChatOf[u]].open
    <3>1. ChatOf[u] \in Chats
      BY WakeAssumption
    <3>2. u # t => InWindow(u) /\ ~ shadowed[u]
      BY <1>1, <2>1 DEF AdmitUserTurn, InWindow
    <3> QED
      BY <1>1, <3>1, <3>2 DEF AdmitUserTurn, WindowOpen
  <2> QED
    BY <2>1 DEF WindowOpen, InWindow
<1>2. CASE PreparationFails(t)
  <2>1. turn' = [turn EXCEPT ![t] = "done"] /\ (UNCHANGED <<row, shadowed>> \/ StampTerminal(t))
    BY <1>2 DEF PreparationFails
  <2>2. \A u \in Turns : InWindow(u)' => InWindow(u)
    BY <2>1 DEF InWindow
  <2> QED
    BY <1>a, <1>b, <2>1, <2>2
<1>3. CASE StampTurn(t)
  BY <1>3, <1>a DEF StampTurn
<1>4. CASE ClaimAttempt(t) \/ StartTurn(t) \/ ReceiptSettles(t) \/ EndTurn(t) \/ StampIsLost(t)
           \/ HandlerDies(t) \/ ReconcileOrphan(t)
  <2>1. UNCHANGED <<row, shadowed>> /\ (\A u \in Turns : InWindow(u)' => InWindow(u))
    BY <1>4 DEF ClaimAttempt, StartTurn, ReceiptSettles, EndTurn, StampIsLost, HandlerDies,
                ReconcileOrphan, InWindow
  <2> QED
    BY <1>b, <2>1
<1> QED
  BY <1>1, <1>2, <1>3, <1>4 DEF UserTurn, TurnStep

LEMMA WindowOpenNext ==
    ASSUME TypeOK, WindowOpen, [Next]_vars
    PROVE  WindowOpen'
<1>a. ASSUME UNCHANGED turnVars PROVE WindowOpen'
  BY <1>a DEF WindowOpen, InWindow, turnVars
<1>1. CASE \E t \in Turns : UserTurn(t)
  BY <1>1, WindowOpenTurns DEF TypeOK
<1>2. ASSUME NEW s \in Schedulers, List(s) \/ Step(s) \/ Heartbeat(s) \/ Crash(s)
      PROVE  WindowOpen'
  <2>1. UNCHANGED turnVars
    BY <1>2, StepFrame DEF Heartbeat, Crash
  <2> QED
    BY <1>a, <2>1
<1>3. ASSUME NEW c \in Chats, IdlePauseEnds(c)
      PROVE  WindowOpen'
  <2>1. \A d \in Chats : row'[d].open = row[d].open
    BY <1>3 DEF IdlePauseEnds, TypeOK, TurnsTyped
  <2>2. \A t \in Turns : ChatOf[t] \in Chats
    BY WakeAssumption
  <2> QED
    BY <1>3, <2>1, <2>2 DEF IdlePauseEnds, WindowOpen, InWindow
<1>4. ASSUME NEW c \in Chats, LeaseExpires(c)
      PROVE  WindowOpen'
  BY <1>4, <1>a DEF LeaseExpires
<1>5. ASSUME NEW h \in Handles, BackoffEnds(h) \/ ClaimExpires(h)
      PROVE  WindowOpen'
  BY <1>5, <1>a DEF BackoffEnds, ClaimExpires
<1>6. CASE UNCHANGED vars
  BY <1>6, <1>a DEF vars
<1> QED
  BY <1>1, <1>2, <1>3, <1>4, <1>5, <1>6 DEF Next

\* What a step that admits a catch-up does: it is the conditional UPDATE.
LEMMA AdmissionStep ==
    ASSUME TypeOK, Next, NEW s \in Schedulers, Admits(s)
    PROVE  Fence(sch[s].chat)
<1>0. sch \in [Schedulers -> SchedulerStates] /\ sch[s] \in SchedulerStates
  BY DEF TypeOK, SchedulersTyped
<1>1. sch'[s].pc # sch[s].pc
  BY DEF Admits, At
<1>2. ASSUME NEW r \in Schedulers, List(r) \/ Step(r)
      PROVE  r = s
  BY <1>0, <1>1, <1>2
  DEF Step, List, ScanEnds, Consider, Acquire, Recheck, Claim, Abandon, Process, Gate, Read,
      Admit, Execute, CatchUpEnds, ReleaseClaim, Unlock, Goto
<1>3. CASE Step(s) \/ List(s)
  <2>1. Admit(s)
    BY <1>3 DEF Admits, At, Step, List, ScanEnds, Consider, Acquire, Recheck, Claim, Abandon,
                Process, Gate, Read, Execute, CatchUpEnds, ReleaseClaim, Unlock
  <2>2. sch'[s].pc = IF Fence(sch[s].chat) THEN "admitted" ELSE "release"
    BY <1>0, <2>1 DEF Admit, SchedulerStates
  <2> QED
    BY <2>2 DEF Admits
<1>4. ASSUME NEW r \in Schedulers, Heartbeat(r) \/ Crash(r)
      PROVE  FALSE
  <2>1. CASE Heartbeat(r)
    BY <1>0, <1>1, <2>1 DEF Heartbeat, SchedulerStates
  <2>2. CASE Crash(r)
    BY <1>0, <1>1, <2>2 DEF Crash, Admits, At, Idle
  <2> QED
    BY <1>4, <2>1, <2>2
<1>5. ASSUME NEW c \in Chats, LeaseExpires(c)
      PROVE  FALSE
  BY <1>0, <1>1, <1>5 DEF LeaseExpires, SchedulerStates
<1>6. UNCHANGED sch => FALSE
  BY <1>1
<1> QED
  BY <1>2, <1>3, <1>4, <1>5, <1>6, TurnsFrame DEF Next, IdlePauseEnds, BackoffEnds, ClaimExpires

\* A turn whose admission committed first keeps the catch-up out, unless the stamp
\* of another turn closed its window.
THEOREM UserFirst == Spec => UserTurnFirst
<1>1. Init => WindowOpen
  BY DEF Init, WindowOpen, InWindow
<1>2. TypeOK /\ WindowOpen /\ [Next]_vars =>
        [\A s \in Schedulers : Admits(s) =>
            \A t \in TurnsOf(sch[s].chat) : InWindow(t) => shadowed[t]]_vars
  <2> SUFFICES ASSUME TypeOK, WindowOpen, Next, NEW s \in Schedulers, Admits(s),
                      NEW t \in TurnsOf(sch[s].chat), InWindow(t), ~ shadowed[t]
               PROVE  FALSE
    OBVIOUS
  <2>1. ~ row[sch[s].chat].open
    BY AdmissionStep DEF Fence
  <2> QED
    BY <2>1 DEF TurnsOf, WindowOpen
<1> QED
  BY <1>1, <1>2, WindowOpenNext, TypeCorrect, PTL DEF Spec, UserTurnFirst

-----------------------------------------------------------------------------
(* What the reads of the gate have seen stays true until the UPDATE.        *)

\* The traces of a turn follow where its handler stands.
TurnFacts ==
    \A t \in Turns :
        /\ attempt[t] # "none" => KindOf[t] = "web" /\ turn[t] # "idle"
        /\ KindOf[t] = "web" /\ turn[t] \in {"claimed", "preparing"} => attempt[t] = "accepted"
        /\ KindOf[t] = "web" /\ turn[t] = "running" => attempt[t] = "running"
        /\ receipt[t] => KindOf[t] = "telegram" /\ turn[t] \notin {"idle", "claimed", "preparing"}

Active(t) == attempt[t] \in {"accepted", "running"}

\* A turn that has left a trace once: it never begins anew.
Known(t) ==
    \/ KindOf[t] = "web" /\ turn[t] # "idle"
    \/ KindOf[t] = "telegram" /\ turn[t] \notin {"idle", "claimed", "preparing"}

\* What the gate has read of the turns that stood when it began.
SeenOut ==
    \A s \in Schedulers : \A t \in sch[s].seen :
        /\ Known(t)
        /\ sch[s].pc \in {"receipts", "pause", "fence"} =>
              ~ (ChatOf[t] = sch[s].chat /\ Active(t))
        /\ sch[s].pc \in {"pause", "fence"} => ~ (ChatOf[t] = sch[s].chat /\ receipt[t])

\* TurnFacts is kept by the steps of the turns.
LEMMA TurnFactsTurns ==
    ASSUME TurnsTyped, TurnFacts, NEW t \in Turns, UserTurn(t)
    PROVE  TurnFacts'
<1> USE WakeAssumption DEF TurnsTyped, TurnFacts
<1>1. CASE ClaimAttempt(t)
  BY <1>1 DEF ClaimAttempt
<1>2. CASE AdmitUserTurn(t)
  BY <1>2 DEF AdmitUserTurn
<1>3. CASE PreparationFails(t)
  BY <1>3 DEF PreparationFails
<1>4. CASE StartTurn(t)
  BY <1>4 DEF StartTurn
<1>5. CASE ReceiptSettles(t)
  BY <1>5 DEF ReceiptSettles
<1>6. CASE EndTurn(t)
  BY <1>6 DEF EndTurn
<1>7. CASE StampTurn(t)
  BY <1>7 DEF StampTurn
<1>8. CASE StampIsLost(t)
  BY <1>8 DEF StampIsLost
<1>9. CASE HandlerDies(t)
  BY <1>9 DEF HandlerDies
<1>10. CASE ReconcileOrphan(t)
  BY <1>10 DEF ReconcileOrphan
<1> QED
  BY <1>1, <1>2, <1>3, <1>4, <1>5, <1>6, <1>7, <1>8, <1>9, <1>10 DEF UserTurn, TurnStep

\* A known turn stays known, and gets neither a live attempt nor a receipt again.
LEMMA KnownTurns ==
    ASSUME TurnsTyped, TurnFacts, NEW t \in Turns, UserTurn(t), NEW u \in Turns, Known(u)
    PROVE  Known(u)' /\ (Active(u)' => Active(u)) /\ (receipt'[u] => receipt[u])
<1> USE DEF TurnsTyped, TurnFacts, Known, Active
<1>1. CASE ClaimAttempt(t)
  BY <1>1 DEF ClaimAttempt
<1>2. CASE AdmitUserTurn(t)
  BY <1>2 DEF AdmitUserTurn
<1>3. CASE PreparationFails(t)
  BY <1>3 DEF PreparationFails
<1>4. CASE StartTurn(t)
  BY <1>4 DEF StartTurn
<1>5. CASE ReceiptSettles(t)
  BY <1>5 DEF ReceiptSettles
<1>6. CASE EndTurn(t)
  BY <1>6 DEF EndTurn
<1>7. CASE StampTurn(t)
  BY <1>7 DEF StampTurn
<1>8. CASE StampIsLost(t)
  BY <1>8 DEF StampIsLost
<1>9. CASE HandlerDies(t)
  BY <1>9 DEF HandlerDies
<1>10. CASE ReconcileOrphan(t)
  BY <1>10 DEF ReconcileOrphan
<1> QED
  BY <1>1, <1>2, <1>3, <1>4, <1>5, <1>6, <1>7, <1>8, <1>9, <1>10 DEF UserTurn, TurnStep

\* SeenOut is kept when the turns stay and s goes on, or begins its gate anew.
LEMMA SeenKept ==
    ASSUME SeenOut, UNCHANGED <<turn, attempt, receipt>>, NEW s \in Schedulers,
           \A r \in Schedulers \ {s} : sch'[r] = sch[r],
           \/ sch'[s].seen = {}
           \/ /\ \A t \in sch'[s].seen : Known(t)
              /\ sch'[s].pc \notin {"receipts", "pause", "fence"}
           \/ /\ sch'[s].seen = sch[s].seen /\ sch'[s].chat = sch[s].chat
              /\ sch'[s].pc = sch[s].pc
    PROVE  SeenOut'
<1>1. ASSUME NEW r \in Schedulers, NEW t \in sch'[r].seen
      PROVE  /\ Known(t)
             /\ sch'[r].pc \in {"receipts", "pause", "fence"} =>
                   ~ (ChatOf[t] = sch'[r].chat /\ Active(t))
             /\ sch'[r].pc \in {"pause", "fence"} => ~ (ChatOf[t] = sch'[r].chat /\ receipt[t])
  <2>1. CASE r = s
    BY <1>1, <2>1 DEF SeenOut
  <2>2. CASE r # s
    <3>1. sch'[r] = sch[r]
      BY <2>2
    <3> QED
      BY <1>1, <3>1 DEF SeenOut
  <2> QED
    BY <2>1, <2>2
<1> QED
  BY <1>1 DEF SeenOut, Known, Active

\* SeenOut is kept by the steps of a scheduler.
LEMMA SeenOutStep ==
    ASSUME TypeOK, TurnFacts, SeenOut, NEW s \in Schedulers, List(s) \/ Step(s)
    PROVE  SeenOut'
<1>0. /\ sch \in [Schedulers -> SchedulerStates] /\ sch[s] \in SchedulerStates
      /\ UNCHANGED <<turn, attempt, receipt>>
  BY StepFrame DEF TypeOK, SchedulersTyped, turnVars
<1>a. ASSUME NEW p, Goto(s, p), p \notin {"receipts", "pause", "fence"}
      PROVE  SeenOut'
  <2>1. /\ \A r \in Schedulers \ {s} : sch'[r] = sch[r]
        /\ sch'[s].seen = sch[s].seen /\ sch'[s].pc = p
    BY <1>0, <1>a DEF Goto, SchedulerStates
  <2>2. \A t \in sch'[s].seen : Known(t)
    BY <2>1 DEF SeenOut
  <2> QED
    BY <1>0, <1>a, <2>1, <2>2, SeenKept
<1>b. ASSUME \A r \in Schedulers \ {s} : sch'[r] = sch[r], sch'[s].seen = sch[s].seen,
             sch'[s].pc \notin {"receipts", "pause", "fence"}
      PROVE  SeenOut'
  <2>1. \A t \in sch'[s].seen : Known(t)
    BY <1>b DEF SeenOut
  <2> QED
    BY <1>0, <1>b, <2>1, SeenKept
<1>1. CASE List(s)
  <2> DEFINE todo == [c \in Page |-> scanned[c]]
  <2>1. sch' = [sch EXCEPT ![s].pc = "scan", ![s].todo = todo]
    BY <1>1 DEF List
  <2> HIDE DEF todo
  <2>2. /\ \A r \in Schedulers \ {s} : sch'[r] = sch[r]
        /\ sch'[s].seen = sch[s].seen /\ sch'[s].pc = "scan"
    BY <1>0, <2>1 DEF SchedulerStates
  <2> QED
    BY <1>b, <2>2
<1>2. CASE ScanEnds(s) \/ Unlock(s)
  <2>1. sch' = [sch EXCEPT ![s] = Idle]
    BY <1>2 DEF ScanEnds, Unlock
  <2>2. (\A r \in Schedulers \ {s} : sch'[r] = sch[r]) /\ sch'[s].seen = {}
    BY <1>0, <2>1 DEF Idle
  <2> QED
    BY <1>0, <2>2, SeenKept
<1>3. CASE Consider(s)
  <2> DEFINE todo == sch[s].todo
             left(c) == [d \in DOMAIN todo \ {c} |-> todo[d]]
             pc(c) == IF GateAllows(c) THEN "lock" ELSE "scan"
  <2>1. PICK c \in DOMAIN todo :
          sch' = [sch EXCEPT ![s].pc = pc(c), ![s].todo = left(c), ![s].chat = c]
    BY <1>3 DEF Consider
  <2>2. pc(c) \in {"lock", "scan"}
    OBVIOUS
  <2> HIDE DEF todo, left, pc
  <2>3. /\ \A r \in Schedulers \ {s} : sch'[r] = sch[r]
        /\ sch'[s].seen = sch[s].seen /\ sch'[s].pc = pc(c)
    BY <1>0, <2>1 DEF SchedulerStates
  <2> QED
    BY <1>b, <2>2, <2>3
<1>4. CASE Acquire(s)
  BY <1>4, <1>a DEF Acquire
<1>5. CASE Recheck(s)
  BY <1>5, <1>a DEF Recheck
<1>6. CASE Claim(s)
  <2>1. CASE Goto(s, "abandon")
    BY <1>a, <2>1
  <2>2. CASE \E h \in Handles :
               sch' = [sch EXCEPT ![s].pc = "process", ![s].h = h, ![s].todo = Idle.todo]
    <3>1. PICK h \in Handles :
               sch' = [sch EXCEPT ![s].pc = "process", ![s].h = h, ![s].todo = Idle.todo]
      BY <2>2
    <3>2. /\ \A r \in Schedulers \ {s} : sch'[r] = sch[r]
          /\ sch'[s].seen = sch[s].seen /\ sch'[s].pc = "process"
      BY <1>0, <3>1 DEF SchedulerStates
    <3> QED
      BY <1>b, <3>2
  <2> QED
    BY <1>6, <2>1, <2>2 DEF Claim, HandlesOf
<1>7. CASE Abandon(s)
  <2>1. sch' = [sch EXCEPT ![s].pc = "scan", ![s].late = FALSE]
    BY <1>7 DEF Abandon
  <2>2. /\ \A r \in Schedulers \ {s} : sch'[r] = sch[r]
        /\ sch'[s].seen = sch[s].seen /\ sch'[s].pc = "scan"
    BY <1>0, <2>1 DEF SchedulerStates
  <2> QED
    BY <1>b, <2>2
<1>8. CASE Process(s)
  <2> DEFINE pc == IF sch[s].lost THEN "release" ELSE "window"
             seen == Standing(sch[s].chat)
  <2>1. sch' = [sch EXCEPT ![s].pc = pc, ![s].seen = seen]
    BY <1>8 DEF Process
  <2>2. pc \in {"release", "window"}
    OBVIOUS
  <2>3. \A t \in seen : Known(t)
    BY DEF Standing, TurnsOf, TurnFacts, Known
  <2> HIDE DEF pc, seen
  <2>4. /\ \A r \in Schedulers \ {s} : sch'[r] = sch[r]
        /\ sch'[s].seen = seen /\ sch'[s].pc = pc
    BY <1>0, <2>1 DEF SchedulerStates
  <2> QED
    BY <1>0, <2>2, <2>3, <2>4, SeenKept
<1>9. CASE Gate(s)
  <2> DEFINE c == sch[s].chat
  <2>0. ASSUME NEW p, Goto(s, p)
        PROVE  /\ \A r \in Schedulers \ {s} : sch'[r] = sch[r]
               /\ sch'[s].seen = sch[s].seen /\ sch'[s].chat = c /\ sch'[s].pc = p
    BY <1>0, <2>0 DEF Goto, SchedulerStates
  <2>1. CASE Goto(s, "release") \/ Goto(s, "attempts")
    BY <1>a, <2>1
  <2>2. ASSUME NEW p \in {"receipts", "pause", "fence"}, Goto(s, p),
               \A t \in sch[s].seen :
                  /\ ~ (ChatOf[t] = c /\ Active(t))
                  /\ p # "receipts" => ~ (ChatOf[t] = c /\ receipt[t])
        PROVE  SeenOut'
    <3>1. /\ \A r \in Schedulers \ {s} : sch'[r] = sch[r]
          /\ sch'[s].seen = sch[s].seen /\ sch'[s].chat = c /\ sch'[s].pc = p
      BY <2>0, <2>2
    <3>2. ASSUME NEW r \in Schedulers, NEW t \in sch'[r].seen
          PROVE  /\ Known(t)
                 /\ sch'[r].pc \in {"receipts", "pause", "fence"} =>
                       ~ (ChatOf[t] = sch'[r].chat /\ Active(t))
                 /\ sch'[r].pc \in {"pause", "fence"} =>
                       ~ (ChatOf[t] = sch'[r].chat /\ receipt[t])
      <4>1. CASE r = s
        BY <2>2, <3>1, <3>2, <4>1 DEF SeenOut
      <4>2. CASE r # s
        <5>1. sch'[r] = sch[r]
          BY <3>1, <4>2
        <5> QED
          BY <3>2, <5>1 DEF SeenOut
      <4> QED
        BY <4>1, <4>2
    <3> QED
      BY <1>0, <3>2 DEF SeenOut, Known, Active
  <2>3. \A t \in sch[s].seen : t \in Turns
    BY <1>0 DEF SchedulerStates
  <2>4. CASE Read(s, "window", row[c].open, "attempts")
    BY <2>1, <2>4 DEF Read
  <2>5. CASE Read(s, "attempts", \E t \in TurnsOf(c) : WebActive(t), "receipts")
    <3>1. CASE Goto(s, "receipts") /\ ~ \E t \in TurnsOf(c) : WebActive(t)
      <4>1. \A t \in sch[s].seen : ~ (ChatOf[t] = c /\ Active(t))
        BY <2>3, <3>1 DEF TurnsOf, WebActive, Active
      <4> QED
        BY <2>2, <3>1, <4>1
    <3> QED
      BY <2>1, <2>5, <3>1 DEF Read
  <2>6. CASE Read(s, "receipts", \E t \in TurnsOf(c) : TelegramActive(t), "pause")
    <3>1. CASE Goto(s, "pause") /\ ~ \E t \in TurnsOf(c) : TelegramActive(t)
      <4>1. \A t \in sch[s].seen : ~ (ChatOf[t] = c /\ Active(t))
        BY <2>6 DEF SeenOut, Read, At
      <4>2. \A t \in sch[s].seen : ~ (ChatOf[t] = c /\ receipt[t])
        BY <2>3, <3>1 DEF TurnsOf, TelegramActive
      <4> QED
        BY <2>2, <3>1, <4>1, <4>2
    <3> QED
      BY <2>1, <2>6, <3>1 DEF Read
  <2>7. CASE Read(s, "pause", row[c].paused, "fence")
    <3>1. CASE Goto(s, "fence")
      <4>1. \A t \in sch[s].seen : ~ (ChatOf[t] = c /\ Active(t)) /\ ~ (ChatOf[t] = c /\ receipt[t])
        BY <2>7 DEF SeenOut, Read, At
      <4> QED
        BY <2>2, <3>1, <4>1
    <3> QED
      BY <2>1, <2>7, <3>1 DEF Read
  <2> QED
    BY <1>9, <2>4, <2>5, <2>6, <2>7 DEF Gate
<1>10. CASE Admit(s)
  <2> DEFINE pc == IF Fence(sch[s].chat) THEN "admitted" ELSE "release"
  <2>1. sch' = [sch EXCEPT ![s].pc = pc, ![s].seen = {}]
    BY <1>10 DEF Admit
  <2> HIDE DEF pc
  <2>2. (\A r \in Schedulers \ {s} : sch'[r] = sch[r]) /\ sch'[s].seen = {}
    BY <1>0, <2>1 DEF SchedulerStates
  <2> QED
    BY <1>0, <2>2, SeenKept
<1>11. CASE Execute(s)
  BY <1>11, <1>a DEF Execute
<1>12. CASE CatchUpEnds(s) \/ ReleaseClaim(s)
  BY <1>12, <1>a DEF CatchUpEnds, ReleaseClaim
<1> QED
  BY <1>1, <1>2, <1>3, <1>4, <1>5, <1>6, <1>7, <1>8, <1>9, <1>10, <1>11, <1>12 DEF Step

\* Both are kept by every step.
LEMMA SeenOutNext ==
    ASSUME TypeOK, TurnFacts, SeenOut, [Next]_vars
    PROVE  TurnFacts' /\ SeenOut'
<1>0. /\ sch \in [Schedulers -> SchedulerStates] /\ TurnsTyped
      /\ \A s \in Schedulers : sch[s].seen \subseteq Turns
  BY DEF TypeOK, SchedulersTyped, SchedulerStates
<1>a. ASSUME UNCHANGED <<turn, attempt, receipt>> PROVE TurnFacts'
  BY <1>a DEF TurnFacts
<1>b. ASSUME UNCHANGED <<turn, attempt, receipt, sch>> PROVE TurnFacts' /\ SeenOut'
  BY <1>a, <1>b DEF SeenOut, Known, Active
<1>1. ASSUME NEW t \in Turns, UserTurn(t)
      PROVE  TurnFacts' /\ SeenOut'
  <2>1. UNCHANGED sch
    BY <1>1, TurnsFrame
  <2>2. \A u \in Turns : Known(u) => Known(u)' /\ (Active(u)' => Active(u)) /\ (receipt'[u] => receipt[u])
    BY <1>0, <1>1, KnownTurns
  <2>3. SeenOut'
    BY <1>0, <2>1, <2>2 DEF SeenOut
  <2> QED
    BY <1>0, <1>1, <2>3, TurnFactsTurns
<1>2. ASSUME NEW s \in Schedulers, List(s) \/ Step(s)
      PROVE  TurnFacts' /\ SeenOut'
  BY <1>2, <1>a, StepFrame, SeenOutStep DEF turnVars
<1>3. ASSUME NEW s \in Schedulers, Heartbeat(s)
      PROVE  TurnFacts' /\ SeenOut'
  <2>1. UNCHANGED <<turn, attempt, receipt>> /\ (UNCHANGED sch \/ sch' = [sch EXCEPT ![s].lost = TRUE])
    BY <1>3 DEF Heartbeat, turnVars
  <2>2. CASE sch' = [sch EXCEPT ![s].lost = TRUE]
    <3>1. /\ \A r \in Schedulers \ {s} : sch'[r] = sch[r]
          /\ sch'[s].seen = sch[s].seen /\ sch'[s].chat = sch[s].chat /\ sch'[s].pc = sch[s].pc
      BY <1>0, <2>2 DEF SchedulerStates
    <3> QED
      BY <1>a, <2>1, <3>1, SeenKept
  <2> QED
    BY <1>b, <2>1, <2>2
<1>4. ASSUME NEW s \in Schedulers, Crash(s)
      PROVE  TurnFacts' /\ SeenOut'
  <2>1. UNCHANGED <<turn, attempt, receipt>> /\ sch' = [sch EXCEPT ![s] = Idle]
    BY <1>4 DEF Crash, turnVars
  <2>2. (\A r \in Schedulers \ {s} : sch'[r] = sch[r]) /\ sch'[s].seen = {}
    BY <1>0, <2>1 DEF Idle
  <2> QED
    BY <1>a, <2>1, <2>2, SeenKept
<1>5. ASSUME NEW c \in Chats, LeaseExpires(c)
      PROVE  TurnFacts' /\ SeenOut'
  <2> DEFINE s == lock[c].holder
  <2>1. UNCHANGED <<turn, attempt, receipt>> /\ (UNCHANGED sch \/ sch' = [sch EXCEPT ![s].late = TRUE])
    BY <1>5 DEF LeaseExpires, turnVars
  <2>2. CASE sch' = [sch EXCEPT ![s].late = TRUE] /\ s \in Schedulers
    <3>1. /\ \A r \in Schedulers \ {s} : sch'[r] = sch[r]
          /\ sch'[s].seen = sch[s].seen /\ sch'[s].chat = sch[s].chat /\ sch'[s].pc = sch[s].pc
      BY <1>0, <2>2 DEF SchedulerStates
    <3> QED
      BY <1>a, <2>1, <2>2, <3>1, SeenKept
  <2>3. CASE s \notin Schedulers /\ sch' = [sch EXCEPT ![s].late = TRUE]
    <3>1. UNCHANGED sch
      BY <1>0, <2>3
    <3> QED
      BY <1>b, <2>1, <3>1
  <2> QED
    BY <1>b, <2>1, <2>2, <2>3
<1>6. ASSUME NEW c \in Chats, IdlePauseEnds(c)
      PROVE  TurnFacts' /\ SeenOut'
  BY <1>6, <1>b DEF IdlePauseEnds
<1>7. ASSUME NEW h \in Handles, BackoffEnds(h) \/ ClaimExpires(h)
      PROVE  TurnFacts' /\ SeenOut'
  BY <1>7, <1>b DEF BackoffEnds, ClaimExpires, turnVars
<1>8. CASE UNCHANGED vars
  BY <1>8, <1>b DEF vars, turnVars
<1> QED
  BY <1>1, <1>2, <1>3, <1>4, <1>5, <1>6, <1>7, <1>8 DEF Next

\* A turn that stood when the gate began, and still stands, keeps the catch-up out,
\* though its attempt and its receipt are not part of the UPDATE.
THEOREM StandingFirst == Spec => StandingTurnBlocks
<1>1. Init => TurnFacts /\ SeenOut
  BY DEF Init, TurnFacts, SeenOut, Idle
<1>2. TypeOK /\ SeenOut /\ [Next]_vars =>
        [\A s \in Schedulers : Admits(s) => sch[s].seen \cap Standing(sch[s].chat) = {}]_vars
  <2> SUFFICES ASSUME SeenOut, NEW s \in Schedulers, Admits(s),
                      NEW t \in sch[s].seen, t \in Standing(sch[s].chat)
               PROVE  FALSE
    OBVIOUS
  <2>1. sch[s].pc = "fence"
    BY DEF Admits, At
  <2>2. ~ (ChatOf[t] = sch[s].chat /\ Active(t)) /\ ~ (ChatOf[t] = sch[s].chat /\ receipt[t])
    BY <2>1 DEF SeenOut
  <2> QED
    BY <2>2 DEF Standing, TurnsOf, Active
<1> QED
  BY <1>1, <1>2, SeenOutNext, TypeCorrect, PTL DEF Spec, StandingTurnBlocks
=============================================================================
