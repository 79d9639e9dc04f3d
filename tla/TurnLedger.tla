----------------------------- MODULE TurnLedger -----------------------------
(***************************************************************************)
(* What the runtime promises about the logical turns of a session, told    *)
(* without leases, markers or handlers.  A logical turn is named by its    *)
(* idempotency key and is run under one requestId at a time, its owner.    *)
(* It can be declared lost while it runs; only then, and never for an      *)
(* async continuation, may another request take it over.  Only a request   *)
(* with the requestId of the owner settles it, even after it was declared  *)
(* lost, and a settled turn is never run again.  RuntimeTurn implements    *)
(* this ledger.                                                            *)
(***************************************************************************)
CONSTANTS Requests, Keys, AsyncKeys, KeyOf, IdOf, None

VARIABLES
    state,   \* state[k]: where the logical turn k stands
    owner,   \* owner[k]: the requestId it runs, or ran, under
    replied  \* the requests that produced the reply of their logical turn

ledgerVars == <<state, owner, replied>>

States == {"absent", "running", "lost", "settled"}

LedgerInit ==
    /\ state = [k \in Keys |-> "absent"]
    /\ owner = [k \in Keys |-> None]
    /\ replied = {}

Begin(r) ==
    /\ state[KeyOf[r]] = "absent"
    /\ state' = [state EXCEPT ![KeyOf[r]] = "running"]
    /\ owner' = [owner EXCEPT ![KeyOf[r]] = IdOf[r]]
    /\ UNCHANGED replied

Lose(k) ==
    /\ state[k] = "running"
    /\ state' = [state EXCEPT ![k] = "lost"]
    /\ UNCHANGED <<owner, replied>>

TakeOver(r) ==
    /\ state[KeyOf[r]] = "lost" /\ KeyOf[r] \notin AsyncKeys
    /\ state' = [state EXCEPT ![KeyOf[r]] = "running"]
    /\ owner' = [owner EXCEPT ![KeyOf[r]] = IdOf[r]]
    /\ UNCHANGED replied

\* With a reply or without one.
Settle(r) ==
    /\ owner[KeyOf[r]] = IdOf[r]
    /\ state' = [state EXCEPT ![KeyOf[r]] = "settled"]
    /\ replied' \in {replied, replied \cup {r}}
    /\ UNCHANGED owner

LedgerNext ==
    \/ \E r \in Requests : Begin(r) \/ TakeOver(r) \/ Settle(r)
    \/ \E k \in Keys : Lose(k)

LedgerSpec == LedgerInit /\ [][LedgerNext]_ledgerVars
=============================================================================
