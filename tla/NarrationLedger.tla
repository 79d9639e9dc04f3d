-------------------------- MODULE NarrationLedger --------------------------
(***************************************************************************)
(* What a chat is promised about the result of one asynchronous job, told  *)
(* without handles, claims, tokens or schedulers.  Who tells the result is *)
(* decided: the turn that started the job, a continuation, or nobody; only *)
(* a turn that saved no reply hands it on.  A continuation is one turn of  *)
(* the runtime, and the chat gets as its narration what that turn replied. *)
(* Every part goes out to the user once, by a right that is given once and *)
(* is spent even when nobody knows whether the part arrived; files go out  *)
(* with a narration only, a text also to say that there is none.           *)
(* AsyncCatchUp implements this ledger.                                    *)
(***************************************************************************)
EXTENDS Naturals

CONSTANTS Parts, Files  \* what goes out apart; the parts a narration alone has

VARIABLES
    teller,    \* "open", "turn", "continuation" or "nobody"
    turn,      \* the turn of the continuation: "none", "begun" or "replied"
    narrated,  \* its reply is in the chat
    right,     \* right[p]: "none", "attempting" or "settled"
    told       \* told[p]: how often p went out

tellVars == <<teller, turn, narrated, right, told>>

TellInit ==
    /\ teller = "open" /\ turn = "none" /\ narrated = FALSE
    /\ right = [p \in Parts |-> "none"]
    /\ told = [p \in Parts |-> 0]

Decide ==
    /\ \/ teller = "open" /\ teller' \in {"turn", "continuation", "nobody"}
       \/ teller = "turn" /\ teller' \in {"continuation", "nobody"}
    /\ UNCHANGED <<turn, narrated, right, told>>

BeginTurn ==
    /\ teller = "continuation" /\ turn = "none"
    /\ turn' = "begun"
    /\ UNCHANGED <<teller, narrated, right, told>>

Reply ==
    /\ turn = "begun"
    /\ turn' = "replied"
    /\ UNCHANGED <<teller, narrated, right, told>>

Narrate ==
    /\ turn = "replied"
    /\ narrated' = TRUE
    /\ UNCHANGED <<teller, turn, right, told>>

Take(p) ==
    /\ teller = "continuation" /\ right[p] = "none"
    /\ p \in Files => narrated
    /\ right' = [right EXCEPT ![p] = "attempting"]
    /\ UNCHANGED <<teller, turn, narrated, told>>

\* Also after the right was spent: the sender may be late.
Tell(p) ==
    /\ right[p] # "none" /\ told[p] = 0
    /\ told' = [told EXCEPT ![p] = 1]
    /\ UNCHANGED <<teller, turn, narrated, right>>

\* Sent, refused or unknown: one right, or all that are open.
Spend(S) ==
    /\ \A p \in S : right[p] = "attempting"
    /\ right' = [p \in Parts |-> IF p \in S THEN "settled" ELSE right[p]]
    /\ UNCHANGED <<teller, turn, narrated, told>>

TellNext ==
    \/ Decide \/ BeginTurn \/ Reply \/ Narrate
    \/ \E p \in Parts : Take(p) \/ Tell(p)
    \/ \E S \in SUBSET Parts : Spend(S)

TellSpec == TellInit /\ [][TellNext]_tellVars
=============================================================================
