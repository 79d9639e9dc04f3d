----------------------- MODULE RuntimeTurnRefinement -----------------------
(***************************************************************************)
(* RuntimeTurn implements TurnLedger: its initial states map to the empty  *)
(* ledger, and each of its steps begins, loses, takes over or settles one  *)
(* logical turn, or leaves the ledger as it is.                            *)
(***************************************************************************)
EXTENDS RuntimeTurnProofs

\* The rows and the replies, as the ledger sees them.
State == [k \in Keys |-> LedgerState(receipt[k].status)]
Owner == [k \in Keys |-> receipt[k].req]

\* How the ledger sees the status of a row.
LEMMA LedgerStates ==
    /\ \A s \in Settled : LedgerState(s) = "settled"
    /\ LedgerState("accepted") = "running"
    /\ LedgerState("orphaned") = "lost"
    /\ LedgerState("absent") = "absent"
BY DEF LedgerState, Settled

\* A step that writes one row changes the ledger at its key only.
LEMMA RowWritten ==
    ASSUME receipt \in [Keys -> Receipts], NEW k \in Keys, NEW row,
           receipt' = [receipt EXCEPT ![k] = row]
    PROVE  /\ State' = [State EXCEPT ![k] = LedgerState(row.status)]
           /\ Owner' = [Owner EXCEPT ![k] = row.req]
<1>1. \A j \in Keys : receipt'[j] = IF j = k THEN row ELSE receipt[j]
  OBVIOUS
<1>2. State' = [j \in Keys |-> LedgerState(receipt'[j].status)]
  BY DEF State, LedgerState, Settled
<1>3. Owner' = [j \in Keys |-> receipt'[j].req]
  BY DEF Owner
<1> QED
  BY <1>1, <1>2, <1>3 DEF State, Owner

\* The initial states map to the empty ledger.
LEMMA RefinesInit == Init => Ledger!LedgerInit
BY LedgerStates DEF Init, Row, Ledger!LedgerInit

\* Every step maps to a step of the ledger or to a stutter.
LEMMA RefinesNext ==
    ASSUME TypeInv, AsyncKept, [Next]_vars
    PROVE  [Ledger!LedgerNext]_(Ledger!ledgerVars)
<1> USE ConstantsAssumption
<1>0. /\ RowStep /\ CandidateNamed
      /\ receipt \in [Keys -> Receipts]
      /\ KeyOf \in [Requests -> Keys]
  BY TypeInvNext DEF Step, TypeInv, TypeOK
<1>w. ASSUME NEW k \in Keys, NEW id, NEW s \in ReceiptStatus,
             receipt' = [receipt EXCEPT ![k] = Row(s, id)]
      PROVE  /\ State' = [State EXCEPT ![k] = LedgerState(s)]
             /\ Owner' = [Owner EXCEPT ![k] = id]
  <2>1. /\ State' = [State EXCEPT ![k] = LedgerState(Row(s, id).status)]
        /\ Owner' = [Owner EXCEPT ![k] = Row(s, id).req]
    BY <1>0, <1>w, RowWritten
  <2>2. Row(s, id).status = s /\ Row(s, id).req = id
    BY DEF Row
  <2> QED
    BY <2>1, <2>2
<1>e. \A k \in Keys : State[k] = LedgerState(receipt[k].status) /\ Owner[k] = receipt[k].req
  BY DEF State, Owner
<1>1. ASSUME State' = State, Owner' = Owner, replied' = replied
      PROVE  UNCHANGED Ledger!ledgerVars
  BY <1>1 DEF Ledger!ledgerVars, State, Owner
<1>2. CASE receipt' = receipt /\ replied' = replied
  <2>1. State' = State /\ Owner' = Owner
    BY <1>2 DEF State, Owner
  <2> QED
    BY <1>1, <1>2, <2>1
<1>3. ASSUME NEW r \in Requests, Inserts(r)
      PROVE  Ledger!Begin(r)
  <2>1. "accepted" \in ReceiptStatus
    BY DEF ReceiptStatus
  <2>2. /\ State' = [State EXCEPT ![KeyOf[r]] = "running"]
        /\ Owner' = [Owner EXCEPT ![KeyOf[r]] = IdOf[r]]
    <3>1. KeyOf[r] \in Keys /\ LedgerState("accepted") = "running"
      BY <1>0, LedgerStates
    <3>2. receipt' = [receipt EXCEPT ![KeyOf[r]] = Row("accepted", IdOf[r])]
      BY <1>3 DEF Inserts
    <3> QED
      BY <1>w, <2>1, <3>1, <3>2
  <2>3. State[KeyOf[r]] = "absent" /\ replied' = replied
    BY <1>0, <1>3, <1>e, LedgerStates DEF Inserts
  <2> QED
    BY <2>2, <2>3 DEF State, Owner, Ledger!Begin
<1>4. ASSUME NEW r \in Requests, Reclaims(r)
      PROVE  Ledger!TakeOver(r)
  <2>1. "accepted" \in ReceiptStatus
    BY DEF ReceiptStatus
  <2>2. /\ State' = [State EXCEPT ![KeyOf[r]] = "running"]
        /\ Owner' = [Owner EXCEPT ![KeyOf[r]] = IdOf[r]]
    <3>1. KeyOf[r] \in Keys /\ LedgerState("accepted") = "running"
      BY <1>0, LedgerStates
    <3>2. receipt' = [receipt EXCEPT ![KeyOf[r]] = Row("accepted", IdOf[r])]
      BY <1>4 DEF Reclaims
    <3> QED
      BY <1>w, <2>1, <3>1, <3>2
  <2>3. State[KeyOf[r]] = "lost" /\ replied' = replied
    BY <1>0, <1>4, <1>e, LedgerStates DEF Reclaims
  <2>4. KeyOf[r] \notin AsyncKeys
    BY <1>4 DEF AsyncKept, Reclaims
  <2> QED
    BY <2>2, <2>3, <2>4 DEF State, Owner, Ledger!TakeOver
<1>5. ASSUME NEW r \in Requests, Settles(r)
      PROVE  Ledger!Settle(r)
  <2>1. PICK s \in Settled : receipt' = [receipt EXCEPT ![KeyOf[r]] = Row(s, IdOf[r])]
    BY <1>5 DEF Settles
  <2>2. s \in ReceiptStatus /\ LedgerState(s) = "settled"
    BY LedgerStates DEF ReceiptStatus, Settled
  <2>3. /\ State' = [State EXCEPT ![KeyOf[r]] = "settled"]
        /\ Owner' = [Owner EXCEPT ![KeyOf[r]] = IdOf[r]]
    BY <1>0, <1>w, <2>1, <2>2
  <2>4. Owner[KeyOf[r]] = IdOf[r]
    BY <1>0, <1>5, <1>e DEF Settles, Owns
  <2>5. Owner' = Owner
    BY <2>3, <2>4 DEF Owner
  <2>6. replied' \in {replied, replied \cup {r}}
    BY <1>5 DEF Settles
  <2> QED
    BY <2>3, <2>4, <2>5, <2>6 DEF State, Owner, Ledger!Settle
<1>6. ASSUME NEW q \in Reconcilers, Orphans(q)
      PROVE  \E k \in Keys : Ledger!Lose(k)
  <2> DEFINE k == cand[q].key
  <2>1. k \in Keys
    BY <1>0, <1>6 DEF CandidateNamed, Candidates, Orphans
  <2>2. receipt' = [receipt EXCEPT ![k] = Row("orphaned", cand[q].req)]
    BY <1>6 DEF Orphans
  <2>3. State[k] = "running" /\ Owner[k] = cand[q].req /\ replied' = replied
    BY <1>6, <1>e, <2>1, LedgerStates DEF Orphans
  <2> HIDE DEF k
  <2>4. /\ State' = [State EXCEPT ![k] = "lost"]
        /\ Owner' = [Owner EXCEPT ![k] = cand[q].req]
    <3>1. "orphaned" \in ReceiptStatus /\ LedgerState("orphaned") = "lost"
      BY LedgerStates DEF ReceiptStatus
    <3> QED
      BY <1>w, <2>1, <2>2, <3>1
  <2>5. Owner' = Owner
    BY <2>3, <2>4 DEF Owner
  <2>6. Ledger!Lose(k)
    BY <2>3, <2>4, <2>5 DEF State, Owner, Ledger!Lose
  <2> QED
    BY <2>1, <2>6
<1>7. ASSUME NEW k \in Keys, Ages(k)
      PROVE  UNCHANGED Ledger!ledgerVars
  <2> DEFINE row == [status |-> "accepted", req |-> receipt[k].req, stale |-> TRUE]
  <2>1. /\ State' = [State EXCEPT ![k] = LedgerState(row.status)]
        /\ Owner' = [Owner EXCEPT ![k] = row.req]
    BY <1>0, <1>7, RowWritten DEF Ages
  <2>2. State[k] = LedgerState(row.status) /\ Owner[k] = row.req /\ replied' = replied
    BY <1>7, <1>e DEF Ages
  <2>3. State = [State EXCEPT ![k] = State[k]] /\ Owner = [Owner EXCEPT ![k] = Owner[k]]
    <3>1. DOMAIN State = Keys /\ State = [j \in Keys |-> State[j]]
      BY DEF State
    <3>2. DOMAIN Owner = Keys /\ Owner = [j \in Keys |-> Owner[j]]
      BY DEF Owner
    <3> QED
      BY ONLY <3>1, <3>2
  <2>4. Owner[k] = row.req
    BY <1>e
  <2> HIDE DEF row
  <2>5. State' = State /\ Owner' = Owner
    BY ONLY <2>1, <2>2, <2>3, <2>4
  <2> QED
    BY <1>1, <2>2, <2>5
<1> QED
  BY <1>0, <1>2, <1>3, <1>4, <1>5, <1>6, <1>7 DEF RowStep, Ledger!LedgerNext

\* The runtime keeps the ledger of logical turns, for any number of requests,
\* retries, reconcilers and expiries.
THEOREM RuntimeImplementsLedger == Spec => ImplementsLedger
<1>1. TypeInv /\ AsyncKept /\ [Next]_vars => [Ledger!LedgerNext]_(Ledger!ledgerVars)
  BY RefinesNext
<1> QED
  BY <1>1, RefinesInit, TypeInvariant, AsyncAlwaysKept, PTL
     DEF Spec, ImplementsLedger, Ledger!LedgerSpec
=============================================================================
