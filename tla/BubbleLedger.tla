---------------------------- MODULE BubbleLedger ----------------------------
(***************************************************************************)
(* What a user is promised about the bubble of one turn of the web chat,   *)
(* told without requests, replicas, candidates or workers.  The turn gets  *)
(* one message for good.  While the turn is not completed it may end and   *)
(* be tried again, and its words may be written anew; it completes only    *)
(* when its message has words, and from then on both stay as they are:     *)
(* whoever asks again is shown the same.  Files of the jobs of the turn    *)
(* hang on that message, also after the turn.  The promise about a         *)
(* completed turn ends with a clash: two requests at work on one turn.     *)
(* WebTurnAttempt implements this ledger.                                  *)
(***************************************************************************)
CONSTANT None

VARIABLES
    state,   \* "none", "open", "ended" or "completed"
    bubble,  \* the message of the turn
    words,   \* what it says
    filed,   \* files of jobs hang on it
    clash    \* a request took the turn from another one at work

bubbleVars == <<state, bubble, words, filed, clash>>

BubbleInit ==
    /\ state = "none" /\ bubble = None /\ words = None
    /\ filed = FALSE /\ clash = FALSE

Settled == state = "completed" /\ ~ clash

Open ==
    /\ state = "none" /\ state' = "open"
    /\ UNCHANGED <<bubble, words, filed, clash>>

Retry ==
    /\ state # "none" /\ ~ Settled
    /\ state' = "open"
    /\ UNCHANGED <<bubble, words, filed, clash>>

\* A new message is empty.
Bind ==
    /\ state = "open" /\ bubble = None
    /\ bubble' # None
    /\ UNCHANGED <<state, words, filed, clash>>

Write ==
    /\ bubble # None /\ ~ Settled
    /\ words' # None
    /\ UNCHANGED <<state, bubble, filed, clash>>

File ==
    /\ bubble # None /\ filed' = TRUE
    /\ UNCHANGED <<state, bubble, words, clash>>

Complete ==
    /\ state = "open" /\ bubble # None
    /\ words # None \/ clash
    /\ state' = "completed"
    /\ UNCHANGED <<bubble, words, filed, clash>>

\* Failed, stopped or given up.  What a stopped turn had to say becomes its
\* message if it has none.
End ==
    /\ state = "open" /\ state' = "ended"
    /\ \/ UNCHANGED <<bubble, words>>
       \/ bubble = None /\ bubble' # None /\ words' # None
    /\ UNCHANGED <<filed, clash>>

Clash == clash' = TRUE /\ UNCHANGED <<state, bubble, words, filed>>

BubbleNext ==
    Open \/ Retry \/ Bind \/ Write \/ File \/ Complete \/ End \/ Clash

BubbleSpec == BubbleInit /\ [][BubbleNext]_bubbleVars
=============================================================================
