------------------------ MODULE WebTurnAttemptProofs ------------------------
(***************************************************************************)
(* Proofs about WebTurnAttempt: the bubble of a turn (one message for good, *)
(* which holds the files), and who runs the turn (one claimant, a completed *)
(* turn stays completed and its replay is real, the reconciler gives up     *)
(* orphans only).                                                           *)
(***************************************************************************)
EXTENDS WebTurnAttempt, TLAPS

Candidate(x) == Message(x, "candidate")
Over == {"done", "dead"}

\* The bubble.  Whoever settled on a message settled on the bound one, except a post
\* that saved partial words for itself; a candidate is bound by its maker alone.
BubbleExists ==
    /\ row.msg # None => row.msg \in made
    /\ row.msg = None => files = {}
    /\ files \subseteq {row.msg}

Unsettled == {"idle", "creating", "claiming", "preparing", "registering", "refused",
              "starting", "bind"}

SettledOn(x) ==
    /\ early[x] \in {None, row.msg, Message(x, "partial")}
    /\ early[x] # None => early[x] \in made
    /\ pc[x] \in Unsettled => early[x] = None
    /\ pc[x] = "bind" => Candidate(x) \in made
    /\ pc[x] \in {"attach", "discard", "persist", "complete"} =>
           early[x] # None /\ early[x] = row.msg
    /\ pc[x] \in {"streaming", "reply"} => early[x] \in {None, row.msg}
    /\ pc[x] \notin Over /\ early[x] = None => row.msg # Candidate(x)
    /\ pc[x] = "discard" => row.msg # Candidate(x)

BubbleInv == BubbleExists /\ \A x \in Posts \cup Workers : SettledOn(x)

\* The turn.  Steps of a post that has claimed the row, before and after it is
\* registered.
Entering == {"preparing", "registering", "refused"}
Serving == {"starting", "streaming", "bind", "discard", "reply", "persist", "complete",
            "fail", "stop", "interrupt"}
Claiming == {"claiming"} \cup Entering \cup Serving

UnclaimedRow ==
    row.status = "none" =>
        /\ row.age = "fresh"
        /\ \A p \in Posts : pc[p] \in {"idle", "creating", "done", "dead"}
        /\ \A r \in Reconcilers : pc[r] = "idle"

OneClaimant ==
    ~ overtaken => \A p, q \in Posts : pc[p] \in Claiming /\ pc[q] \in Claiming => p = q

ClaimantKnown ==
    ~ overtaken => \A p \in Posts :
        /\ pc[p] \in Serving \cup {"registering", "refused"} => row.post = p
        /\ pc[p] = "complete" => text[early[p]] = p

CompletedLeft ==
    ~ overtaken /\ row.status = "completed" => \A p \in Posts : pc[p] \notin Claiming

StaleStarted ==
    row.age = "stale" => \A p \in Posts : pc[p] \notin Entering \cup {"starting"}

Orphaned(r) ==
    ~ cand[r].again =>
        /\ pc[r] = "owner" => \A p \in Posts : pc[p] \notin Entering \cup {"starting"}
        /\ pc[r] \in {"receipt", "update"} /\ ~ overtaken =>
               \A p \in Posts : pc[p] \notin Entering \cup Serving

TurnInv ==
    /\ UnclaimedRow /\ OneClaimant /\ ClaimantKnown /\ CompletedLeft /\ StaleStarted
    /\ \A r \in Reconcilers : Orphaned(r)

\* How a step may change the row.
RowKept ==
    /\ row.msg # None => row'.msg = row.msg
    /\ row.status = "completed" /\ ~ overtaken => row'.status = "completed"

-----------------------------------------------------------------------------
USE AttemptAssumption DEF At, Goto, Quiet, Active, rowVars, messageVars

\* markCompleted and markTerminalFailure end an active row or change nothing.
LEMMA EndFacts ==
  ASSUME row \in Rows, NEW s \in Ended, NEW m \in Messages \cup {None}, EndAttempt(s, m)
  PROVE  /\ row' \in Rows
         /\ row'.msg = row.msg \/ (row.msg = None /\ row'.msg = m)
         /\ row' = row \/ (/\ row.status \in {"accepted", "running"}
                           /\ row'.status = s /\ row'.age = "fresh")
         /\ row'.post = row.post
BY DEF EndAttempt, Rows, Ended

\* No step of a request, worker or reconciler leaves the types.
LEMMA TypeStep ==
  ASSUME TypeOK, BubbleInv, [Next]_vars
  PROVE  TypeOK'
<1>1. ASSUME NEW p \in Posts, Look(p) PROVE TypeOK'
  BY <1>1 DEF Look, Verdict, Live, TypeOK, Rows, Places, Working, Ended, Actors,
        Messages, Message
<1>2. ASSUME NEW p \in Posts, TakeOver(p) PROVE TypeOK'
  <2>1. row' \in Rows /\ pc' \in [Actors -> Places]
    BY <1>2 DEF TakeOver, TypeOK, Rows, Places, Working, Actors
  <2>2. cand' \in [Reconcilers -> [post : Posts \cup {None}, again : BOOLEAN]]
    BY <1>2 DEF TakeOver, ClaimedAgain, TypeOK
  <2> QED BY <1>2, <2>1, <2>2 DEF TakeOver, TypeOK
<1>3. ASSUME NEW p \in Posts, Create(p) PROVE TypeOK'
  BY <1>3 DEF Create, TypeOK, Rows, Places, Working, Ended, Actors, Messages, Message
<1>4. ASSUME NEW p \in Posts, PreparationFails(p) PROVE TypeOK'
  BY <1>4 DEF PreparationFails, TypeOK, Rows, Places, Working, Ended, Actors, Messages,
        Message
<1>5. ASSUME NEW p \in Posts, MarkRunning(p) PROVE TypeOK'
  BY <1>5 DEF MarkRunning, TypeOK, Rows, Places, Working, Ended, Actors, Messages,
        Message
<1>6. ASSUME NEW p \in Posts, Register(p) PROVE TypeOK'
  BY <1>6 DEF Register, TypeOK, Rows, Places, Working, Ended, Actors, Messages, Message
<1>7. ASSUME NEW p \in Posts, StartStream(p) PROVE TypeOK'
  BY <1>7 DEF StartStream, TypeOK, Rows, Places, Working, Ended, Actors, Messages,
        Message
<1>8. ASSUME NEW p \in Posts, EndStream(p) PROVE TypeOK'
  BY <1>8 DEF EndStream, TypeOK, Rows, Places, Working, Ended, Actors, Messages, Message
<1>9. ASSUME NEW p \in Posts, Settle(p) PROVE TypeOK'
  BY <1>9 DEF Settle, NewCandidate, TypeOK, Rows, Places, Working, Ended, Actors,
        Messages, Message
<1>10. ASSUME NEW p \in Posts, AlreadySettled(p) PROVE TypeOK'
  BY <1>10 DEF AlreadySettled, TypeOK, Rows, Places, Working, Ended, Actors, Messages,
        Message
<1>11. ASSUME NEW p \in Posts, Bind(p) PROVE TypeOK'
  BY <1>11 DEF Bind, Bound, AfterBind, TypeOK, Rows, Places, Working, Ended, Actors,
        Messages, Message
<1>12. ASSUME NEW p \in Posts, Persist(p) PROVE TypeOK'
  BY <1>12 DEF Persist, TypeOK, Rows, Places, Working, Ended, Actors, Messages, Message
<1>13. ASSUME NEW p \in Posts, Complete(p) PROVE TypeOK'
  <2>1. row' \in Rows
    BY <1>13, EndFacts DEF Complete, TypeOK, Ended
  <2> QED BY <1>13, <2>1 DEF Complete, TypeOK, Places, Working, Actors
<1>14. ASSUME NEW p \in Posts, Fail(p) PROVE TypeOK'
  BY <1>14 DEF Fail, EndAttempt, TypeOK, Rows, Places, Working, Ended, Actors, Messages,
        Message
<1>15. ASSUME NEW p \in Posts, SavePartial(p) PROVE TypeOK'
  <2> DEFINE m == IF early[p] = None THEN Message(p, "partial") ELSE early[p]
  <2>1. m \in Messages
    BY DEF TypeOK, Messages, Message
  <2>2. CASE UNCHANGED <<early, made, text>>
    BY <1>15, <2>2 DEF SavePartial, TypeOK, Places, Working, Actors
  <2>3. CASE made' = made \cup {m} /\ text' = [text EXCEPT ![m] = p]
             /\ early' = [early EXCEPT ![p] = m]
    <3> HIDE DEF m
    <3> QED BY <1>15, <2>1, <2>3 DEF SavePartial, TypeOK, Places, Working, Actors
  <2> QED BY <1>15, <2>2, <2>3 DEF SavePartial
<1>16. ASSUME NEW p \in Posts, Interrupt(p) PROVE TypeOK'
  <2>1. row' \in Rows
    BY <1>16, EndFacts DEF Interrupt, TypeOK, Ended
  <2> QED BY <1>16, <2>1 DEF Interrupt, TypeOK, Places, Working, Actors
<1>17. ASSUME NEW p \in Posts, Release(p) PROVE TypeOK'
  BY <1>17 DEF Release, TypeOK, Rows, Places, Working, Ended, Actors, Messages, Message
<1>18. ASSUME NEW p \in Posts, Touch(p) PROVE TypeOK'
  BY <1>18 DEF Touch, TypeOK, Rows, Places, Working, Ended, Actors, Messages, Message
<1>19. ASSUME NEW p \in Posts, EndIsLost(p) PROVE TypeOK'
  BY <1>19 DEF EndIsLost, Fault, TypeOK, Rows, Places, Working, Ended, Actors, Messages,
        Message
<1>20. ASSUME NEW p \in Posts, Discard(p, AfterBind(p)) PROVE TypeOK'
  BY <1>20 DEF Discard, AfterBind, TypeOK, Rows, Places, Working, Ended, Actors,
        Messages, Message
<1>21. ASSUME NEW w \in Workers, FindOpenTurn(w) PROVE TypeOK'
  <2>1. Message(w, "candidate") \in Messages
    BY DEF Messages, Message
  <2>2. early' \in [Posts \cup Workers -> Messages \cup {None}]
    BY <1>21 DEF FindOpenTurn, TypeOK, Rows
  <2>3. made' \subseteq Messages /\ text' \in [Messages -> Posts \cup {None}]
    BY <1>21, <2>1 DEF FindOpenTurn, NewCandidate, TypeOK
  <2>4. pc' \in [Actors -> Places]
    BY <1>21 DEF FindOpenTurn, TypeOK, Places, Working, Actors
  <2> QED BY <1>21, <2>2, <2>3, <2>4 DEF FindOpenTurn, NewCandidate, TypeOK
<1>22. ASSUME NEW w \in Workers, BindForWorker(w) PROVE TypeOK'
  BY <1>22 DEF BindForWorker, Bound, TypeOK, Rows, Places, Working, Ended, Actors,
        Messages, Message
<1>23. ASSUME NEW w \in Workers, Attach(w) PROVE TypeOK'
  <2>1. early[w] \in Messages
    BY <1>23 DEF Attach, BubbleInv, SettledOn, TypeOK
  <2> QED BY <1>23, <2>1 DEF Attach, TypeOK, Places, Working, Actors
<1>24. ASSUME NEW w \in Workers, Discard(w, "attach") PROVE TypeOK'
  BY <1>24 DEF Discard, TypeOK, Rows, Places, Working, Ended, Actors, Messages, Message
<1>25. ASSUME NEW r \in Reconcilers, FindCandidate(r) PROVE TypeOK'
  BY <1>25 DEF FindCandidate, TypeOK, Rows, Places, Working, Ended, Actors, Messages,
        Message
<1>26. ASSUME NEW r \in Reconcilers, Check(r) PROVE TypeOK'
  <2>1. pc' \in [Actors -> Places]
    BY <1>26 DEF Check, CheckOwner, CheckReceipt, Skip, Pass, TypeOK, Places, Actors
  <2>2. cand' = cand \/ cand' = [cand EXCEPT ![r] = Nothing]
    BY <1>26 DEF Check, CheckOwner, CheckReceipt, Skip, Pass
  <2>3. cand' \in [Reconcilers -> [post : Posts \cup {None}, again : BOOLEAN]]
    <3>1. Nothing \in [post : Posts \cup {None}, again : BOOLEAN]
      BY DEF Nothing
    <3> QED BY <2>2, <3>1 DEF TypeOK
  <2> QED BY <1>26, <2>1, <2>3 DEF Check, TypeOK
<1>27. ASSUME NEW r \in Reconcilers, MarkOrphaned(r) PROVE TypeOK'
  <2>1. row' \in Rows
    BY <1>27 DEF MarkOrphaned, TypeOK, Rows, Ended
  <2>2. pc' \in [Actors -> Places]
    BY <1>27 DEF MarkOrphaned, Skip, TypeOK, Places, Actors
  <2>3. cand' \in [Reconcilers -> [post : Posts \cup {None}, again : BOOLEAN]]
    BY <1>27 DEF MarkOrphaned, Skip, Nothing, TypeOK
  <2> QED BY <1>27, <2>1, <2>2, <2>3 DEF MarkOrphaned, TypeOK
<1>28. ASSUME NEW d \in Pods, Crash(d) PROVE TypeOK'
  BY <1>28 DEF Crash, Fault, Live, TypeOK, Rows, Places, Working, Ended, Actors,
        Messages, Message
<1>29. CASE Age
  BY <1>29 DEF Age, Starting, TypeOK, Rows, Places, Working, Ended, Actors, Messages,
        Message
<1>30. CASE AgentEnds
  BY <1>30 DEF AgentEnds, TypeOK, Rows, Places, Working, Ended, Actors, Messages,
        Message
<1>31. CASE OwnerExpires
  BY <1>31 DEF OwnerExpires, TypeOK, Rows, Places, Working, Ended, Actors, Messages,
        Message
<1>32. CASE UNCHANGED vars
  BY <1>32 DEF vars, actorVars, TypeOK, Rows, Places, Working, Ended, Actors, Messages,
        Message
<1>33. ASSUME NEW p \in Posts, SignalStop(p) PROVE TypeOK'
  BY <1>33 DEF SignalStop, TypeOK, Rows, Places, Working, Ended, Actors, Messages,
        Message
<1> QED BY <1>1, <1>2, <1>3, <1>4, <1>5, <1>6, <1>7, <1>8, <1>9, <1>10, <1>11, <1>12,
       <1>13, <1>14, <1>15, <1>16, <1>17, <1>18, <1>19, <1>20, <1>21, <1>22, <1>23,
       <1>24, <1>25, <1>26, <1>27, <1>28, <1>29, <1>30, <1>31, <1>32, <1>33 DEF Next, Proceed,
       Deliver, Reconcile

\* Ending the attempt binds the message a post settled on, or its own partial words.
LEMMA EndKeepsBubble ==
  ASSUME TypeOK, BubbleInv, NEW p \in Posts, pc[p] \notin Over,
         row'.msg = row.msg \/ (row.msg = None /\ row'.msg = early[p]),
         early' = early, made' = made, files' = files, pc' = [pc EXCEPT ![p] = "release"],
         early[p] \in {None, row.msg, Message(p, "partial")},
         early[p] # None => early[p] \in made
  PROVE  BubbleInv'
<1>1. BubbleExists'
  BY DEF BubbleInv, BubbleExists
<1>2. ASSUME NEW x \in Posts \cup Workers PROVE SettledOn(x)'
  <2>1. Message(p, "partial") # Candidate(x)
    BY DEF Message, Candidate
  <2>2. /\ x # p => pc'[x] = pc[x]
        /\ pc'[p] = "release" /\ x \in Actors
    BY DEF TypeOK, Actors
  <2>3. SettledOn(x) /\ (pc[p] \notin Over /\ early[p] = None => row.msg # Candidate(p))
    BY DEF BubbleInv, SettledOn
  <2>4. CASE row'.msg = row.msg
    BY <2>2, <2>3, <2>4 DEF SettledOn, Unsettled, Over, Candidate, Message
  <2>5. CASE row.msg = None /\ row'.msg = early[p]
    BY <2>1, <2>2, <2>3, <2>5 DEF SettledOn, Unsettled, Over, Candidate, Message
  <2> QED BY <2>4, <2>5
<1> QED BY <1>1, <1>2 DEF BubbleInv


\* Candidates come and go, the bound message stays.
LEMMA BubbleStep ==
  ASSUME TypeOK, BubbleInv, [Next]_vars
  PROVE  BubbleInv'
<1>1. ASSUME NEW p \in Posts, Look(p) PROVE BubbleInv'
  BY <1>1 DEF Look, Verdict, Live, BubbleInv, BubbleExists, SettledOn, Unsettled,
        Candidate, Over, TypeOK, Rows, Actors, Messages, Message
<1>2. ASSUME NEW p \in Posts, TakeOver(p) PROVE BubbleInv'
  BY <1>2 DEF TakeOver, ClaimedAgain, BubbleInv, BubbleExists, SettledOn, Unsettled,
        Candidate, Over, TypeOK, Rows, Actors, Messages, Message
<1>3. ASSUME NEW p \in Posts, Create(p) PROVE BubbleInv'
  BY <1>3 DEF Create, BubbleInv, BubbleExists, SettledOn, Unsettled, Candidate, Over,
        TypeOK, Rows, Actors, Messages, Message
<1>4. ASSUME NEW p \in Posts, PreparationFails(p) PROVE BubbleInv'
  BY <1>4 DEF PreparationFails, BubbleInv, BubbleExists, SettledOn, Unsettled,
        Candidate, Over, TypeOK, Rows, Actors, Messages, Message
<1>5. ASSUME NEW p \in Posts, MarkRunning(p) PROVE BubbleInv'
  BY <1>5 DEF MarkRunning, BubbleInv, BubbleExists, SettledOn, Unsettled, Candidate,
        Over, TypeOK, Rows, Actors, Messages, Message
<1>6. ASSUME NEW p \in Posts, Register(p) PROVE BubbleInv'
  BY <1>6 DEF Register, BubbleInv, BubbleExists, SettledOn, Unsettled, Candidate, Over,
        TypeOK, Rows, Actors, Messages, Message
<1>7. ASSUME NEW p \in Posts, StartStream(p) PROVE BubbleInv'
  BY <1>7 DEF StartStream, BubbleInv, BubbleExists, SettledOn, Unsettled, Candidate,
        Over, TypeOK, Rows, Actors, Messages, Message
<1>8. ASSUME NEW p \in Posts, EndStream(p) PROVE BubbleInv'
  BY <1>8 DEF EndStream, BubbleInv, BubbleExists, SettledOn, Unsettled, Candidate, Over,
        TypeOK, Rows, Actors, Messages, Message
<1>9. ASSUME NEW p \in Posts, Settle(p) PROVE BubbleInv'
  BY <1>9 DEF Settle, NewCandidate, BubbleInv, BubbleExists, SettledOn, Unsettled,
        Candidate, Over, TypeOK, Rows, Actors, Messages, Message
<1>10. ASSUME NEW p \in Posts, AlreadySettled(p) PROVE BubbleInv'
  BY <1>10 DEF AlreadySettled, BubbleInv, BubbleExists, SettledOn, Unsettled, Candidate,
        Over, TypeOK, Rows, Actors, Messages, Message
<1>11. ASSUME NEW p \in Posts, Bind(p) PROVE BubbleInv'
  BY <1>11 DEF Bind, Bound, AfterBind, BubbleInv, BubbleExists, SettledOn, Unsettled,
        Candidate, Over, TypeOK, Rows, Actors, Messages, Message
<1>12. ASSUME NEW p \in Posts, Persist(p) PROVE BubbleInv'
  BY <1>12 DEF Persist, BubbleInv, BubbleExists, SettledOn, Unsettled, Candidate, Over,
        TypeOK, Rows, Actors, Messages, Message
<1>13. ASSUME NEW p \in Posts, Complete(p) PROVE BubbleInv'
  <2>1. early[p] \in Messages \cup {None}
    BY DEF TypeOK
  <2>2. row'.msg = row.msg \/ (row.msg = None /\ row'.msg = early[p])
    BY <1>13, <2>1, EndFacts DEF Complete, TypeOK, Ended
  <2>3. /\ early' = early /\ made' = made /\ files' = files
        /\ pc' = [pc EXCEPT ![p] = "release"] /\ pc[p] \notin Over
    BY <1>13 DEF Complete, Over
  <2>4. /\ early[p] \in {None, row.msg, Message(p, "partial")}
        /\ early[p] # None => early[p] \in made
    BY DEF BubbleInv, SettledOn
  <2> QED BY <2>2, <2>3, <2>4, EndKeepsBubble
<1>14. ASSUME NEW p \in Posts, Fail(p) PROVE BubbleInv'
  BY <1>14 DEF Fail, EndAttempt, BubbleInv, BubbleExists, SettledOn, Unsettled,
        Candidate, Over, TypeOK, Rows, Actors, Messages, Message
<1>15. ASSUME NEW p \in Posts, SavePartial(p) PROVE BubbleInv'
  BY <1>15 DEF SavePartial, BubbleInv, BubbleExists, SettledOn, Unsettled, Candidate,
        Over, TypeOK, Rows, Actors, Messages, Message
<1>16. ASSUME NEW p \in Posts, Interrupt(p) PROVE BubbleInv'
  <2>1. early[p] \in Messages \cup {None}
    BY DEF TypeOK
  <2>2. row'.msg = row.msg \/ (row.msg = None /\ row'.msg = early[p])
    BY <1>16, <2>1, EndFacts DEF Interrupt, TypeOK, Ended
  <2>3. /\ early' = early /\ made' = made /\ files' = files
        /\ pc' = [pc EXCEPT ![p] = "release"] /\ pc[p] \notin Over
    BY <1>16 DEF Interrupt, Over
  <2>4. /\ early[p] \in {None, row.msg, Message(p, "partial")}
        /\ early[p] # None => early[p] \in made
    BY DEF BubbleInv, SettledOn
  <2> QED BY <2>2, <2>3, <2>4, EndKeepsBubble
<1>17. ASSUME NEW p \in Posts, Release(p) PROVE BubbleInv'
  BY <1>17 DEF Release, BubbleInv, BubbleExists, SettledOn, Unsettled, Candidate, Over,
        TypeOK, Rows, Actors, Messages, Message
<1>18. ASSUME NEW p \in Posts, Touch(p) PROVE BubbleInv'
  BY <1>18 DEF Touch, BubbleInv, BubbleExists, SettledOn, Unsettled, Candidate, Over,
        TypeOK, Rows, Actors, Messages, Message
<1>19. ASSUME NEW p \in Posts, EndIsLost(p) PROVE BubbleInv'
  BY <1>19 DEF EndIsLost, Fault, BubbleInv, BubbleExists, SettledOn, Unsettled,
        Candidate, Over, TypeOK, Rows, Actors, Messages, Message
<1>20. ASSUME NEW p \in Posts, Discard(p, AfterBind(p)) PROVE BubbleInv'
  BY <1>20 DEF Discard, AfterBind, BubbleInv, BubbleExists, SettledOn, Unsettled,
        Candidate, Over, TypeOK, Rows, Actors, Messages, Message
<1>21. ASSUME NEW w \in Workers, FindOpenTurn(w) PROVE BubbleInv'
  BY <1>21 DEF FindOpenTurn, NewCandidate, BubbleInv, BubbleExists, SettledOn,
        Unsettled, Candidate, Over, TypeOK, Rows, Actors, Messages, Message
<1>22. ASSUME NEW w \in Workers, BindForWorker(w) PROVE BubbleInv'
  BY <1>22 DEF BindForWorker, Bound, BubbleInv, BubbleExists, SettledOn, Unsettled,
        Candidate, Over, TypeOK, Rows, Actors, Messages, Message
<1>23. ASSUME NEW w \in Workers, Attach(w) PROVE BubbleInv'
  BY <1>23 DEF Attach, BubbleInv, BubbleExists, SettledOn, Unsettled, Candidate, Over,
        TypeOK, Rows, Actors, Messages, Message
<1>24. ASSUME NEW w \in Workers, Discard(w, "attach") PROVE BubbleInv'
  BY <1>24 DEF Discard, BubbleInv, BubbleExists, SettledOn, Unsettled, Candidate, Over,
        TypeOK, Rows, Actors, Messages, Message
<1>25. ASSUME NEW r \in Reconcilers, FindCandidate(r) PROVE BubbleInv'
  BY <1>25 DEF FindCandidate, BubbleInv, BubbleExists, SettledOn, Unsettled, Candidate,
        Over, TypeOK, Rows, Actors, Messages, Message
<1>26. ASSUME NEW r \in Reconcilers, Check(r) PROVE BubbleInv'
  BY <1>26 DEF Check, CheckOwner, CheckReceipt, Skip, Pass, BubbleInv, BubbleExists,
        SettledOn, Unsettled, Candidate, Over, TypeOK, Rows, Actors, Messages, Message
<1>27. ASSUME NEW r \in Reconcilers, MarkOrphaned(r) PROVE BubbleInv'
  BY <1>27 DEF MarkOrphaned, Skip, BubbleInv, BubbleExists, SettledOn, Unsettled,
        Candidate, Over, TypeOK, Rows, Actors, Messages, Message
<1>28. ASSUME NEW d \in Pods, Crash(d) PROVE BubbleInv'
  BY <1>28 DEF Crash, Fault, Live, BubbleInv, BubbleExists, SettledOn, Unsettled,
        Candidate, Over, TypeOK, Rows, Actors, Messages, Message
<1>29. CASE Age
  BY <1>29 DEF Age, Starting, BubbleInv, BubbleExists, SettledOn, Unsettled, Candidate,
        Over, TypeOK, Rows, Actors, Messages, Message
<1>30. CASE AgentEnds
  BY <1>30 DEF AgentEnds, BubbleInv, BubbleExists, SettledOn, Unsettled, Candidate,
        Over, TypeOK, Rows, Actors, Messages, Message
<1>31. CASE OwnerExpires
  BY <1>31 DEF OwnerExpires, BubbleInv, BubbleExists, SettledOn, Unsettled, Candidate,
        Over, TypeOK, Rows, Actors, Messages, Message
<1>32. CASE UNCHANGED vars
  BY <1>32 DEF vars, actorVars, BubbleInv, BubbleExists, SettledOn, Unsettled,
        Candidate, Over, TypeOK, Rows, Actors, Messages, Message
<1>33. ASSUME NEW p \in Posts, SignalStop(p) PROVE BubbleInv'
  BY <1>33 DEF SignalStop, BubbleInv, BubbleExists, SettledOn, Unsettled, Candidate,
        Over, TypeOK, Rows, Actors, Messages, Message
<1> QED BY <1>1, <1>2, <1>3, <1>4, <1>5, <1>6, <1>7, <1>8, <1>9, <1>10, <1>11, <1>12,
       <1>13, <1>14, <1>15, <1>16, <1>17, <1>18, <1>19, <1>20, <1>21, <1>22, <1>23,
       <1>24, <1>25, <1>26, <1>27, <1>28, <1>29, <1>30, <1>31, <1>32, <1>33 DEF Next, Proceed,
       Deliver, Reconcile

\* One post at a time runs the turn, the reconciler knows orphans.
LEMMA TurnStep ==
  ASSUME TypeOK, BubbleInv, TurnInv, [Next]_vars
  PROVE  TurnInv'
<1>1. ASSUME NEW p \in Posts, Look(p) PROVE TurnInv'
  <2>1. /\ pc' = [pc EXCEPT ![p] = Verdict(row)] /\ pc[p] = "idle"
        /\ Verdict(row) \in {"creating", "claiming", "done"}
        /\ Verdict(row) = "claiming" => row.status \in {"accepted", "running"}
        /\ Verdict(row) = "creating" <=> row.status = "none"
    BY <1>1 DEF Look, Verdict
  <2>2. UNCHANGED <<row, owner, text, early, cand>>
    BY <1>1 DEF Look
  <2>3. ~ overtaken' => ~ overtaken /\ (Verdict(row) = "claiming" => Live = {})
    BY <1>1 DEF Look
  <2> HIDE DEF Verdict
  <2>4. OneClaimant'
    BY <2>1, <2>3 DEF TurnInv, OneClaimant, Claiming, Entering, Serving, Live,
                       Working, TypeOK, Actors
  <2>5. ClaimantKnown' /\ CompletedLeft'
    BY <2>1, <2>2, <2>3 DEF TurnInv, ClaimantKnown, CompletedLeft, Claiming,
                            Entering, Serving, TypeOK, Actors
  <2>6. UnclaimedRow' /\ StaleStarted' /\ \A r \in Reconcilers : Orphaned(r)'
    BY <2>1, <2>2, <2>3 DEF TurnInv, UnclaimedRow, StaleStarted, Orphaned, Entering,
                            Serving, TypeOK, Actors
  <2> QED BY <2>4, <2>5, <2>6 DEF TurnInv
<1>2. ASSUME NEW p \in Posts, TakeOver(p) PROVE TurnInv'
  <2>1. /\ pc' = [pc EXCEPT ![p] = "preparing"] /\ pc[p] = "claiming"
        /\ row' = [row EXCEPT !.status = "accepted", !.age = "fresh"]
        /\ UNCHANGED <<owner, text, early, overtaken>>
    BY <1>2 DEF TakeOver
  <2>2. ASSUME NEW r \in Reconcilers PROVE Orphaned(r)'
    BY <1>2, <2>2 DEF TakeOver, ClaimedAgain, Orphaned, TypeOK, Actors
  <2>3. UnclaimedRow' /\ OneClaimant' /\ CompletedLeft' /\ StaleStarted'
    BY <2>1 DEF TurnInv, UnclaimedRow, OneClaimant, CompletedLeft, StaleStarted,
                 Claiming, Entering, Serving, TypeOK, Rows, Actors
  <2>4. ClaimantKnown'
    BY <2>1 DEF TurnInv, ClaimantKnown, Serving, TypeOK, Rows, Actors
  <2> QED BY <2>2, <2>3, <2>4 DEF TurnInv
<1>3. ASSUME NEW p \in Posts, Create(p) PROVE TurnInv'
  BY <1>3 DEF Create, TurnInv, UnclaimedRow, OneClaimant, ClaimantKnown, CompletedLeft,
        StaleStarted, Orphaned, Claiming, Entering, Serving, Working, TypeOK, Rows,
        Actors, Message
<1>4. ASSUME NEW p \in Posts, PreparationFails(p) PROVE TurnInv'
  BY <1>4 DEF PreparationFails, TurnInv, UnclaimedRow, OneClaimant, ClaimantKnown,
        CompletedLeft, StaleStarted, Orphaned, Claiming, Entering, Serving, Working,
        TypeOK, Rows, Actors, Message
<1>5. ASSUME NEW p \in Posts, MarkRunning(p) PROVE TurnInv'
  BY <1>5 DEF MarkRunning, TurnInv, UnclaimedRow, OneClaimant, ClaimantKnown,
        CompletedLeft, StaleStarted, Orphaned, Claiming, Entering, Serving, Working,
        TypeOK, Rows, Actors, Message
<1>6. ASSUME NEW p \in Posts, Register(p) PROVE TurnInv'
  BY <1>6 DEF Register, TurnInv, UnclaimedRow, OneClaimant, ClaimantKnown,
        CompletedLeft, StaleStarted, Orphaned, Claiming, Entering, Serving, Working,
        TypeOK, Rows, Actors, Message
<1>7. ASSUME NEW p \in Posts, StartStream(p) PROVE TurnInv'
  BY <1>7 DEF StartStream, TurnInv, UnclaimedRow, OneClaimant, ClaimantKnown,
        CompletedLeft, StaleStarted, Orphaned, Claiming, Entering, Serving, Working,
        TypeOK, Rows, Actors, Message
<1>8. ASSUME NEW p \in Posts, EndStream(p) PROVE TurnInv'
  BY <1>8 DEF EndStream, TurnInv, UnclaimedRow, OneClaimant, ClaimantKnown,
        CompletedLeft, StaleStarted, Orphaned, Claiming, Entering, Serving, Working,
        TypeOK, Rows, Actors, Message
<1>9. ASSUME NEW p \in Posts, Settle(p) PROVE TurnInv'
  BY <1>9 DEF Settle, NewCandidate, TurnInv, UnclaimedRow, OneClaimant, ClaimantKnown,
        CompletedLeft, StaleStarted, Orphaned, Claiming, Entering, Serving, Working,
        TypeOK, Rows, Actors, Message
<1>10. ASSUME NEW p \in Posts, AlreadySettled(p) PROVE TurnInv'
  BY <1>10 DEF AlreadySettled, TurnInv, UnclaimedRow, OneClaimant, ClaimantKnown,
        CompletedLeft, StaleStarted, Orphaned, Claiming, Entering, Serving, Working,
        TypeOK, Rows, Actors, Message
<1>11. ASSUME NEW p \in Posts, Bind(p) PROVE TurnInv'
  BY <1>11 DEF Bind, Bound, AfterBind, TurnInv, UnclaimedRow, OneClaimant,
        ClaimantKnown, CompletedLeft, StaleStarted, Orphaned, Claiming, Entering,
        Serving, Working, TypeOK, Rows, Actors, Message
<1>12. ASSUME NEW p \in Posts, Persist(p) PROVE TurnInv'
  <2>1. /\ pc' = [pc EXCEPT ![p] = "complete"] /\ pc[p] = "persist"
        /\ UNCHANGED <<row, owner, cand, overtaken>>
    BY <1>12 DEF Persist
  <2>2. early[p] \in Messages /\ early' = early /\ text' = [text EXCEPT ![early[p]] = p]
    BY <1>12 DEF Persist, BubbleInv, SettledOn, TypeOK
  <2>3. ClaimantKnown'
    BY <2>1, <2>2 DEF TurnInv, OneClaimant, ClaimantKnown, Claiming, Entering,
                       Serving, TypeOK, Actors
  <2>4. UnclaimedRow' /\ OneClaimant' /\ CompletedLeft' /\ StaleStarted'
    BY <2>1 DEF TurnInv, UnclaimedRow, OneClaimant, CompletedLeft, StaleStarted,
                 Claiming, Entering, Serving, TypeOK, Actors
  <2>5. \A r \in Reconcilers : Orphaned(r)'
    BY <2>1 DEF TurnInv, Orphaned, Entering, Serving, TypeOK, Actors
  <2> QED BY <2>3, <2>4, <2>5 DEF TurnInv
<1>13. ASSUME NEW p \in Posts, Complete(p) PROVE TurnInv'
  <2>1. /\ pc' = [pc EXCEPT ![p] = "release"] /\ pc[p] = "complete"
        /\ UNCHANGED <<owner, cand, overtaken, text, early>>
    BY <1>13 DEF Complete
  <2>2. /\ row'.post = row.post
        /\ row' = row \/ (row.status # "none" /\ row'.status # "none" /\ row'.age = "fresh")
    BY <1>13, EndFacts DEF Complete, TypeOK, Ended
  <2>3. UnclaimedRow' /\ StaleStarted'
    BY <2>1, <2>2 DEF TurnInv, UnclaimedRow, StaleStarted, Entering, TypeOK, Actors
  <2>4. OneClaimant' /\ CompletedLeft'
    BY <2>1, <2>2 DEF TurnInv, OneClaimant, CompletedLeft, Claiming, Entering, Serving,
                      TypeOK, Actors
  <2>5. ClaimantKnown' /\ \A r \in Reconcilers : Orphaned(r)'
    BY <2>1, <2>2 DEF TurnInv, ClaimantKnown, Orphaned, Entering, Serving, TypeOK, Actors
  <2> QED BY <2>3, <2>4, <2>5 DEF TurnInv
<1>14. ASSUME NEW p \in Posts, Fail(p) PROVE TurnInv'
  BY <1>14 DEF Fail, EndAttempt, TurnInv, UnclaimedRow, OneClaimant, ClaimantKnown,
        CompletedLeft, StaleStarted, Orphaned, Claiming, Entering, Serving, Working,
        TypeOK, Rows, Actors, Message
<1>15. ASSUME NEW p \in Posts, SavePartial(p) PROVE TurnInv'
  BY <1>15 DEF SavePartial, TurnInv, UnclaimedRow, OneClaimant, ClaimantKnown,
        CompletedLeft, StaleStarted, Orphaned, Claiming, Entering, Serving, Working,
        TypeOK, Rows, Actors, Message
<1>16. ASSUME NEW p \in Posts, Interrupt(p) PROVE TurnInv'
  BY <1>16 DEF Interrupt, EndAttempt, TurnInv, UnclaimedRow, OneClaimant, ClaimantKnown,
        CompletedLeft, StaleStarted, Orphaned, Claiming, Entering, Serving, Working,
        TypeOK, Rows, Actors, Message
<1>17. ASSUME NEW p \in Posts, Release(p) PROVE TurnInv'
  BY <1>17 DEF Release, TurnInv, UnclaimedRow, OneClaimant, ClaimantKnown,
        CompletedLeft, StaleStarted, Orphaned, Claiming, Entering, Serving, Working,
        TypeOK, Rows, Actors, Message
<1>18. ASSUME NEW p \in Posts, Touch(p) PROVE TurnInv'
  BY <1>18 DEF Touch, TurnInv, UnclaimedRow, OneClaimant, ClaimantKnown, CompletedLeft,
        StaleStarted, Orphaned, Claiming, Entering, Serving, Working, TypeOK, Rows,
        Actors, Message
<1>19. ASSUME NEW p \in Posts, EndIsLost(p) PROVE TurnInv'
  BY <1>19 DEF EndIsLost, Fault, TurnInv, UnclaimedRow, OneClaimant, ClaimantKnown,
        CompletedLeft, StaleStarted, Orphaned, Claiming, Entering, Serving, Working,
        TypeOK, Rows, Actors, Message
<1>20. ASSUME NEW p \in Posts, Discard(p, AfterBind(p)) PROVE TurnInv'
  BY <1>20 DEF Discard, AfterBind, TurnInv, UnclaimedRow, OneClaimant, ClaimantKnown,
        CompletedLeft, StaleStarted, Orphaned, Claiming, Entering, Serving, Working,
        TypeOK, Rows, Actors, Message
<1>21. ASSUME NEW w \in Workers, FindOpenTurn(w) PROVE TurnInv'
  <2>1. /\ \A x \in Actors : x # w => pc'[x] = pc[x]
        /\ UNCHANGED <<row, owner, cand, overtaken>>
    BY <1>21 DEF FindOpenTurn, TypeOK, Actors
  <2>2. \A x \in Posts \cup Reconcilers : pc'[x] = pc[x]
    BY <2>1 DEF Actors
  <2>3. ASSUME NEW p \in Posts, pc[p] = "complete" PROVE text'[early'[p]] = text[early[p]]
    <3>1. early'[p] = early[p] /\ early[p] = row.msg /\ early[p] \in Messages
      BY <1>21, <2>3 DEF FindOpenTurn, BubbleInv, SettledOn, TypeOK
    <3>2. row.msg # Candidate(w)
      BY <1>21 DEF FindOpenTurn, BubbleInv, SettledOn, Unsettled, Over
    <3>3. text' = text \/ text' = [text EXCEPT ![Candidate(w)] = None]
      BY <1>21 DEF FindOpenTurn, NewCandidate, Candidate
    <3> QED BY <3>1, <3>2, <3>3 DEF TypeOK
  <2>4. ClaimantKnown'
    BY <2>1, <2>2, <2>3 DEF TurnInv, ClaimantKnown
  <2>5. UnclaimedRow' /\ OneClaimant' /\ CompletedLeft' /\ StaleStarted'
    BY <2>1, <2>2 DEF TurnInv, UnclaimedRow, OneClaimant, CompletedLeft, StaleStarted
  <2>6. \A r \in Reconcilers : Orphaned(r)'
    BY <2>1, <2>2 DEF TurnInv, Orphaned
  <2> QED BY <2>4, <2>5, <2>6 DEF TurnInv
<1>22. ASSUME NEW w \in Workers, BindForWorker(w) PROVE TurnInv'
  BY <1>22 DEF BindForWorker, Bound, TurnInv, UnclaimedRow, OneClaimant, ClaimantKnown,
        CompletedLeft, StaleStarted, Orphaned, Claiming, Entering, Serving, Working,
        TypeOK, Rows, Actors, Message
<1>23. ASSUME NEW w \in Workers, Attach(w) PROVE TurnInv'
  BY <1>23 DEF Attach, TurnInv, UnclaimedRow, OneClaimant, ClaimantKnown, CompletedLeft,
        StaleStarted, Orphaned, Claiming, Entering, Serving, Working, TypeOK, Rows,
        Actors, Message
<1>24. ASSUME NEW w \in Workers, Discard(w, "attach") PROVE TurnInv'
  BY <1>24 DEF Discard, TurnInv, UnclaimedRow, OneClaimant, ClaimantKnown,
        CompletedLeft, StaleStarted, Orphaned, Claiming, Entering, Serving, Working,
        TypeOK, Rows, Actors, Message
<1>25. ASSUME NEW r \in Reconcilers, FindCandidate(r) PROVE TurnInv'
  BY <1>25 DEF FindCandidate, TurnInv, UnclaimedRow, OneClaimant, ClaimantKnown,
        CompletedLeft, StaleStarted, Orphaned, Claiming, Entering, Serving, Working,
        TypeOK, Rows, Actors, Message
<1>26. ASSUME NEW r \in Reconcilers, Check(r) PROVE TurnInv'
  BY <1>26 DEF Check, CheckOwner, Streaming, CheckReceipt, Skip, Pass, TurnInv, UnclaimedRow,
        OneClaimant, ClaimantKnown, CompletedLeft, StaleStarted, Orphaned, Claiming,
        Entering, Serving, Working, TypeOK, Rows, Actors, Message
<1>27. ASSUME NEW r \in Reconcilers, MarkOrphaned(r) PROVE TurnInv'
  BY <1>27 DEF MarkOrphaned, Skip, TurnInv, UnclaimedRow, OneClaimant, ClaimantKnown,
        CompletedLeft, StaleStarted, Orphaned, Claiming, Entering, Serving, Working,
        TypeOK, Rows, Actors, Message
<1>28. ASSUME NEW d \in Pods, Crash(d) PROVE TurnInv'
  BY <1>28 DEF Crash, Fault, Live, TurnInv, UnclaimedRow, OneClaimant, ClaimantKnown,
        CompletedLeft, StaleStarted, Orphaned, Claiming, Entering, Serving, Working,
        TypeOK, Rows, Actors, Message
<1>29. CASE Age
  BY <1>29 DEF Age, Starting, TurnInv, UnclaimedRow, OneClaimant, ClaimantKnown,
        CompletedLeft, StaleStarted, Orphaned, Claiming, Entering, Serving, Working,
        TypeOK, Rows, Actors, Message
<1>30. CASE AgentEnds
  BY <1>30 DEF AgentEnds, TurnInv, UnclaimedRow, OneClaimant, ClaimantKnown,
        CompletedLeft, StaleStarted, Orphaned, Claiming, Entering, Serving, Working,
        TypeOK, Rows, Actors, Message
<1>31. CASE OwnerExpires
  BY <1>31 DEF OwnerExpires, TurnInv, UnclaimedRow, OneClaimant, ClaimantKnown,
        CompletedLeft, StaleStarted, Orphaned, Claiming, Entering, Serving, Working,
        TypeOK, Rows, Actors, Message
<1>32. CASE UNCHANGED vars
  BY <1>32 DEF vars, actorVars, TurnInv, UnclaimedRow, OneClaimant, ClaimantKnown,
        CompletedLeft, StaleStarted, Orphaned, Claiming, Entering, Serving, Working,
        TypeOK, Rows, Actors, Message
<1>33. ASSUME NEW p \in Posts, SignalStop(p) PROVE TurnInv'
  BY <1>33 DEF SignalStop, TurnInv, UnclaimedRow, OneClaimant, ClaimantKnown,
        CompletedLeft, StaleStarted, Orphaned, Claiming, Entering, Serving, Working,
        TypeOK, Rows, Actors, Message
<1> QED BY <1>1, <1>2, <1>3, <1>4, <1>5, <1>6, <1>7, <1>8, <1>9, <1>10, <1>11, <1>12,
       <1>13, <1>14, <1>15, <1>16, <1>17, <1>18, <1>19, <1>20, <1>21, <1>22, <1>23,
       <1>24, <1>25, <1>26, <1>27, <1>28, <1>29, <1>30, <1>31, <1>32, <1>33 DEF Next, Proceed,
       Deliver, Reconcile

\* A bound row stays bound; a completed one stays completed.
LEMMA RowStep ==
  ASSUME TypeOK, TurnInv, [Next]_vars
  PROVE  RowKept
<1>1. ASSUME NEW p \in Posts, Look(p) PROVE RowKept
  BY <1>1 DEF Look, Verdict, Live, RowKept, TurnInv, CompletedLeft, UnclaimedRow,
        Claiming, Entering, TypeOK, Rows
<1>2. ASSUME NEW p \in Posts, TakeOver(p) PROVE RowKept
  BY <1>2 DEF TakeOver, ClaimedAgain, RowKept, TurnInv, CompletedLeft, UnclaimedRow,
        Claiming, Entering, TypeOK, Rows
<1>3. ASSUME NEW p \in Posts, Create(p) PROVE RowKept
  BY <1>3 DEF Create, RowKept, TurnInv, CompletedLeft, UnclaimedRow, Claiming, Entering,
        TypeOK, Rows
<1>4. ASSUME NEW p \in Posts, PreparationFails(p) PROVE RowKept
  BY <1>4 DEF PreparationFails, RowKept, TurnInv, CompletedLeft, UnclaimedRow, Claiming,
        Entering, TypeOK, Rows
<1>5. ASSUME NEW p \in Posts, MarkRunning(p) PROVE RowKept
  BY <1>5 DEF MarkRunning, RowKept, TurnInv, CompletedLeft, UnclaimedRow, Claiming,
        Entering, TypeOK, Rows
<1>6. ASSUME NEW p \in Posts, Register(p) PROVE RowKept
  BY <1>6 DEF Register, RowKept, TurnInv, CompletedLeft, UnclaimedRow, Claiming,
        Entering, TypeOK, Rows
<1>7. ASSUME NEW p \in Posts, StartStream(p) PROVE RowKept
  BY <1>7 DEF StartStream, RowKept, TurnInv, CompletedLeft, UnclaimedRow, Claiming,
        Entering, TypeOK, Rows
<1>8. ASSUME NEW p \in Posts, EndStream(p) PROVE RowKept
  BY <1>8 DEF EndStream, RowKept, TurnInv, CompletedLeft, UnclaimedRow, Claiming,
        Entering, TypeOK, Rows
<1>9. ASSUME NEW p \in Posts, Settle(p) PROVE RowKept
  BY <1>9 DEF Settle, NewCandidate, RowKept, TurnInv, CompletedLeft, UnclaimedRow,
        Claiming, Entering, TypeOK, Rows
<1>10. ASSUME NEW p \in Posts, AlreadySettled(p) PROVE RowKept
  BY <1>10 DEF AlreadySettled, RowKept, TurnInv, CompletedLeft, UnclaimedRow, Claiming,
        Entering, TypeOK, Rows
<1>11. ASSUME NEW p \in Posts, Bind(p) PROVE RowKept
  BY <1>11 DEF Bind, Bound, AfterBind, RowKept, TurnInv, CompletedLeft, UnclaimedRow,
        Claiming, Entering, TypeOK, Rows
<1>12. ASSUME NEW p \in Posts, Persist(p) PROVE RowKept
  BY <1>12 DEF Persist, RowKept, TurnInv, CompletedLeft, UnclaimedRow, Claiming,
        Entering, TypeOK, Rows
<1>13. ASSUME NEW p \in Posts, Complete(p) PROVE RowKept
  BY <1>13, EndFacts DEF Complete, RowKept, TypeOK, Rows, Ended
<1>14. ASSUME NEW p \in Posts, Fail(p) PROVE RowKept
  BY <1>14, EndFacts DEF Fail, RowKept, TypeOK, Rows, Ended
<1>15. ASSUME NEW p \in Posts, SavePartial(p) PROVE RowKept
  BY <1>15 DEF SavePartial, RowKept, TurnInv, CompletedLeft, UnclaimedRow, Claiming,
        Entering, TypeOK, Rows
<1>16. ASSUME NEW p \in Posts, Interrupt(p) PROVE RowKept
  BY <1>16, EndFacts DEF Interrupt, RowKept, TypeOK, Rows, Ended
<1>17. ASSUME NEW p \in Posts, Release(p) PROVE RowKept
  BY <1>17 DEF Release, RowKept, TurnInv, CompletedLeft, UnclaimedRow, Claiming,
        Entering, TypeOK, Rows
<1>18. ASSUME NEW p \in Posts, Touch(p) PROVE RowKept
  BY <1>18 DEF Touch, RowKept, TurnInv, CompletedLeft, UnclaimedRow, Claiming, Entering,
        TypeOK, Rows
<1>19. ASSUME NEW p \in Posts, EndIsLost(p) PROVE RowKept
  BY <1>19 DEF EndIsLost, Fault, RowKept, TurnInv, CompletedLeft, UnclaimedRow,
        Claiming, Entering, TypeOK, Rows
<1>20. ASSUME NEW p \in Posts, Discard(p, AfterBind(p)) PROVE RowKept
  BY <1>20 DEF Discard, AfterBind, RowKept, TurnInv, CompletedLeft, UnclaimedRow,
        Claiming, Entering, TypeOK, Rows
<1>21. ASSUME NEW w \in Workers, FindOpenTurn(w) PROVE RowKept
  BY <1>21 DEF FindOpenTurn, NewCandidate, RowKept, TurnInv, CompletedLeft,
        UnclaimedRow, Claiming, Entering, TypeOK, Rows
<1>22. ASSUME NEW w \in Workers, BindForWorker(w) PROVE RowKept
  BY <1>22 DEF BindForWorker, Bound, RowKept, TurnInv, CompletedLeft, UnclaimedRow,
        Claiming, Entering, TypeOK, Rows
<1>23. ASSUME NEW w \in Workers, Attach(w) PROVE RowKept
  BY <1>23 DEF Attach, RowKept, TurnInv, CompletedLeft, UnclaimedRow, Claiming,
        Entering, TypeOK, Rows
<1>24. ASSUME NEW w \in Workers, Discard(w, "attach") PROVE RowKept
  BY <1>24 DEF Discard, RowKept, TurnInv, CompletedLeft, UnclaimedRow, Claiming,
        Entering, TypeOK, Rows
<1>25. ASSUME NEW r \in Reconcilers, FindCandidate(r) PROVE RowKept
  BY <1>25 DEF FindCandidate, RowKept, TurnInv, CompletedLeft, UnclaimedRow, Claiming,
        Entering, TypeOK, Rows
<1>26. ASSUME NEW r \in Reconcilers, Check(r) PROVE RowKept
  BY <1>26 DEF Check, CheckOwner, CheckReceipt, Skip, Pass, RowKept, TurnInv,
        CompletedLeft, UnclaimedRow, Claiming, Entering, TypeOK, Rows
<1>27. ASSUME NEW r \in Reconcilers, MarkOrphaned(r) PROVE RowKept
  BY <1>27 DEF MarkOrphaned, Skip, RowKept, TurnInv, CompletedLeft, UnclaimedRow,
        Claiming, Entering, TypeOK, Rows
<1>28. ASSUME NEW d \in Pods, Crash(d) PROVE RowKept
  BY <1>28 DEF Crash, Fault, Live, RowKept, TurnInv, CompletedLeft, UnclaimedRow,
        Claiming, Entering, TypeOK, Rows
<1>29. CASE Age
  BY <1>29 DEF Age, Starting, RowKept, TurnInv, CompletedLeft, UnclaimedRow, Claiming,
        Entering, TypeOK, Rows
<1>30. CASE AgentEnds
  BY <1>30 DEF AgentEnds, RowKept, TurnInv, CompletedLeft, UnclaimedRow, Claiming,
        Entering, TypeOK, Rows
<1>31. CASE OwnerExpires
  BY <1>31 DEF OwnerExpires, RowKept, TurnInv, CompletedLeft, UnclaimedRow, Claiming,
        Entering, TypeOK, Rows
<1>32. CASE UNCHANGED vars
  BY <1>32 DEF vars, actorVars, RowKept, TurnInv, CompletedLeft, UnclaimedRow, Claiming,
        Entering, TypeOK, Rows
<1>33. ASSUME NEW p \in Posts, SignalStop(p) PROVE RowKept
  BY <1>33 DEF SignalStop, RowKept, TurnInv, CompletedLeft, UnclaimedRow, Claiming,
        Entering, TypeOK, Rows
<1> QED BY <1>1, <1>2, <1>3, <1>4, <1>5, <1>6, <1>7, <1>8, <1>9, <1>10, <1>11, <1>12,
       <1>13, <1>14, <1>15, <1>16, <1>17, <1>18, <1>19, <1>20, <1>21, <1>22, <1>23,
       <1>24, <1>25, <1>26, <1>27, <1>28, <1>29, <1>30, <1>31, <1>32, <1>33 DEF Next, Proceed,
       Deliver, Reconcile

\* The message of a completed turn is left alone by everybody.
LEMMA ReplayStep ==
  ASSUME TypeOK, BubbleInv, TurnInv, ReplayIsReal, [Next]_vars
  PROVE  ReplayIsReal'
<1>1. ASSUME NEW p \in Posts, Look(p) PROVE ReplayIsReal'
  BY <1>1 DEF Look, Verdict, Live, ReplayIsReal, BubbleInv, SettledOn, Unsettled, Over,
        Candidate, TurnInv, CompletedLeft, Claiming, Entering, Serving, TypeOK, Rows,
        Actors, Message
<1>2. ASSUME NEW p \in Posts, TakeOver(p) PROVE ReplayIsReal'
  BY <1>2 DEF TakeOver, ClaimedAgain, ReplayIsReal, BubbleInv, SettledOn, Unsettled,
        Over, Candidate, TurnInv, CompletedLeft, Claiming, Entering, Serving, TypeOK,
        Rows, Actors, Message
<1>3. ASSUME NEW p \in Posts, Create(p) PROVE ReplayIsReal'
  BY <1>3 DEF Create, ReplayIsReal, BubbleInv, SettledOn, Unsettled, Over, Candidate,
        TurnInv, CompletedLeft, Claiming, Entering, Serving, TypeOK, Rows, Actors,
        Message
<1>4. ASSUME NEW p \in Posts, PreparationFails(p) PROVE ReplayIsReal'
  BY <1>4 DEF PreparationFails, ReplayIsReal, BubbleInv, SettledOn, Unsettled, Over,
        Candidate, TurnInv, CompletedLeft, Claiming, Entering, Serving, TypeOK, Rows,
        Actors, Message
<1>5. ASSUME NEW p \in Posts, MarkRunning(p) PROVE ReplayIsReal'
  BY <1>5 DEF MarkRunning, ReplayIsReal, BubbleInv, SettledOn, Unsettled, Over,
        Candidate, TurnInv, CompletedLeft, Claiming, Entering, Serving, TypeOK, Rows,
        Actors, Message
<1>6. ASSUME NEW p \in Posts, Register(p) PROVE ReplayIsReal'
  BY <1>6 DEF Register, ReplayIsReal, BubbleInv, SettledOn, Unsettled, Over, Candidate,
        TurnInv, CompletedLeft, Claiming, Entering, Serving, TypeOK, Rows, Actors,
        Message
<1>7. ASSUME NEW p \in Posts, StartStream(p) PROVE ReplayIsReal'
  BY <1>7 DEF StartStream, ReplayIsReal, BubbleInv, SettledOn, Unsettled, Over,
        Candidate, TurnInv, CompletedLeft, Claiming, Entering, Serving, TypeOK, Rows,
        Actors, Message
<1>8. ASSUME NEW p \in Posts, EndStream(p) PROVE ReplayIsReal'
  BY <1>8 DEF EndStream, ReplayIsReal, BubbleInv, SettledOn, Unsettled, Over, Candidate,
        TurnInv, CompletedLeft, Claiming, Entering, Serving, TypeOK, Rows, Actors,
        Message
<1>9. ASSUME NEW p \in Posts, Settle(p) PROVE ReplayIsReal'
  BY <1>9 DEF Settle, NewCandidate, ReplayIsReal, BubbleInv, SettledOn, Unsettled, Over,
        Candidate, TurnInv, CompletedLeft, Claiming, Entering, Serving, TypeOK, Rows,
        Actors, Message
<1>10. ASSUME NEW p \in Posts, AlreadySettled(p) PROVE ReplayIsReal'
  BY <1>10 DEF AlreadySettled, ReplayIsReal, BubbleInv, SettledOn, Unsettled, Over,
        Candidate, TurnInv, CompletedLeft, Claiming, Entering, Serving, TypeOK, Rows,
        Actors, Message
<1>11. ASSUME NEW p \in Posts, Bind(p) PROVE ReplayIsReal'
  BY <1>11 DEF Bind, Bound, AfterBind, ReplayIsReal, BubbleInv, SettledOn, Unsettled,
        Over, Candidate, TurnInv, CompletedLeft, Claiming, Entering, Serving, TypeOK,
        Rows, Actors, Message
<1>12. ASSUME NEW p \in Posts, Persist(p) PROVE ReplayIsReal'
  BY <1>12 DEF Persist, ReplayIsReal, BubbleInv, SettledOn, Unsettled, Over, Candidate,
        TurnInv, CompletedLeft, Claiming, Entering, Serving, TypeOK, Rows, Actors,
        Message
<1>13. ASSUME NEW p \in Posts, Complete(p) PROVE ReplayIsReal'
  <2>1. early[p] \in Messages /\ early[p] = row.msg
    BY <1>13 DEF Complete, BubbleInv, SettledOn, TypeOK
  <2>2. /\ row'.msg = row.msg /\ row'.post = row.post
        /\ row' = row \/ row.status # "completed"
    BY <1>13, <2>1, EndFacts DEF Complete, TypeOK, Ended
  <2>3. made' = made /\ text' = text /\ overtaken' = overtaken
    BY <1>13 DEF Complete
  <2>4. row.msg \in made /\ (~ overtaken => text[row.msg] = row.post)
    BY <1>13, <2>1 DEF Complete, BubbleInv, SettledOn, TurnInv, ClaimantKnown, Serving
  <2> QED BY <2>2, <2>3, <2>4 DEF ReplayIsReal
<1>14. ASSUME NEW p \in Posts, Fail(p) PROVE ReplayIsReal'
  BY <1>14 DEF Fail, EndAttempt, ReplayIsReal, BubbleInv, SettledOn, Unsettled, Over,
        Candidate, TurnInv, CompletedLeft, Claiming, Entering, Serving, TypeOK, Rows,
        Actors, Message
<1>15. ASSUME NEW p \in Posts, SavePartial(p) PROVE ReplayIsReal'
  BY <1>15 DEF SavePartial, ReplayIsReal, BubbleInv, SettledOn, Unsettled, Over,
        Candidate, TurnInv, CompletedLeft, Claiming, Entering, Serving, TypeOK, Rows,
        Actors, Message
<1>16. ASSUME NEW p \in Posts, Interrupt(p) PROVE ReplayIsReal'
  BY <1>16 DEF Interrupt, EndAttempt, ReplayIsReal, BubbleInv, SettledOn, Unsettled,
        Over, Candidate, TurnInv, CompletedLeft, Claiming, Entering, Serving, TypeOK,
        Rows, Actors, Message
<1>17. ASSUME NEW p \in Posts, Release(p) PROVE ReplayIsReal'
  BY <1>17 DEF Release, ReplayIsReal, BubbleInv, SettledOn, Unsettled, Over, Candidate,
        TurnInv, CompletedLeft, Claiming, Entering, Serving, TypeOK, Rows, Actors,
        Message
<1>18. ASSUME NEW p \in Posts, Touch(p) PROVE ReplayIsReal'
  BY <1>18 DEF Touch, ReplayIsReal, BubbleInv, SettledOn, Unsettled, Over, Candidate,
        TurnInv, CompletedLeft, Claiming, Entering, Serving, TypeOK, Rows, Actors,
        Message
<1>19. ASSUME NEW p \in Posts, EndIsLost(p) PROVE ReplayIsReal'
  BY <1>19 DEF EndIsLost, Fault, ReplayIsReal, BubbleInv, SettledOn, Unsettled, Over,
        Candidate, TurnInv, CompletedLeft, Claiming, Entering, Serving, TypeOK, Rows,
        Actors, Message
<1>20. ASSUME NEW p \in Posts, Discard(p, AfterBind(p)) PROVE ReplayIsReal'
  BY <1>20 DEF Discard, AfterBind, ReplayIsReal, BubbleInv, SettledOn, Unsettled, Over,
        Candidate, TurnInv, CompletedLeft, Claiming, Entering, Serving, TypeOK, Rows,
        Actors, Message
<1>21. ASSUME NEW w \in Workers, FindOpenTurn(w) PROVE ReplayIsReal'
  BY <1>21 DEF FindOpenTurn, NewCandidate, ReplayIsReal, BubbleInv, SettledOn,
        Unsettled, Over, Candidate, TurnInv, CompletedLeft, Claiming, Entering, Serving,
        TypeOK, Rows, Actors, Message
<1>22. ASSUME NEW w \in Workers, BindForWorker(w) PROVE ReplayIsReal'
  BY <1>22 DEF BindForWorker, Bound, ReplayIsReal, BubbleInv, SettledOn, Unsettled,
        Over, Candidate, TurnInv, CompletedLeft, Claiming, Entering, Serving, TypeOK,
        Rows, Actors, Message
<1>23. ASSUME NEW w \in Workers, Attach(w) PROVE ReplayIsReal'
  BY <1>23 DEF Attach, ReplayIsReal, BubbleInv, SettledOn, Unsettled, Over, Candidate,
        TurnInv, CompletedLeft, Claiming, Entering, Serving, TypeOK, Rows, Actors,
        Message
<1>24. ASSUME NEW w \in Workers, Discard(w, "attach") PROVE ReplayIsReal'
  BY <1>24 DEF Discard, ReplayIsReal, BubbleInv, SettledOn, Unsettled, Over, Candidate,
        TurnInv, CompletedLeft, Claiming, Entering, Serving, TypeOK, Rows, Actors,
        Message
<1>25. ASSUME NEW r \in Reconcilers, FindCandidate(r) PROVE ReplayIsReal'
  BY <1>25 DEF FindCandidate, ReplayIsReal, BubbleInv, SettledOn, Unsettled, Over,
        Candidate, TurnInv, CompletedLeft, Claiming, Entering, Serving, TypeOK, Rows,
        Actors, Message
<1>26. ASSUME NEW r \in Reconcilers, Check(r) PROVE ReplayIsReal'
  BY <1>26 DEF Check, CheckOwner, CheckReceipt, Skip, Pass, ReplayIsReal, BubbleInv,
        SettledOn, Unsettled, Over, Candidate, TurnInv, CompletedLeft, Claiming,
        Entering, Serving, TypeOK, Rows, Actors, Message
<1>27. ASSUME NEW r \in Reconcilers, MarkOrphaned(r) PROVE ReplayIsReal'
  BY <1>27 DEF MarkOrphaned, Skip, ReplayIsReal, BubbleInv, SettledOn, Unsettled, Over,
        Candidate, TurnInv, CompletedLeft, Claiming, Entering, Serving, TypeOK, Rows,
        Actors, Message
<1>28. ASSUME NEW d \in Pods, Crash(d) PROVE ReplayIsReal'
  BY <1>28 DEF Crash, Fault, Live, ReplayIsReal, BubbleInv, SettledOn, Unsettled, Over,
        Candidate, TurnInv, CompletedLeft, Claiming, Entering, Serving, TypeOK, Rows,
        Actors, Message
<1>29. CASE Age
  BY <1>29 DEF Age, Starting, ReplayIsReal, BubbleInv, SettledOn, Unsettled, Over,
        Candidate, TurnInv, CompletedLeft, Claiming, Entering, Serving, TypeOK, Rows,
        Actors, Message
<1>30. CASE AgentEnds
  BY <1>30 DEF AgentEnds, ReplayIsReal, BubbleInv, SettledOn, Unsettled, Over,
        Candidate, TurnInv, CompletedLeft, Claiming, Entering, Serving, TypeOK, Rows,
        Actors, Message
<1>31. CASE OwnerExpires
  BY <1>31 DEF OwnerExpires, ReplayIsReal, BubbleInv, SettledOn, Unsettled, Over,
        Candidate, TurnInv, CompletedLeft, Claiming, Entering, Serving, TypeOK, Rows,
        Actors, Message
<1>32. CASE UNCHANGED vars
  BY <1>32 DEF vars, actorVars, ReplayIsReal, BubbleInv, SettledOn, Unsettled, Over,
        Candidate, TurnInv, CompletedLeft, Claiming, Entering, Serving, TypeOK, Rows,
        Actors, Message
<1>33. ASSUME NEW p \in Posts, SignalStop(p) PROVE ReplayIsReal'
  BY <1>33 DEF SignalStop, ReplayIsReal, BubbleInv, SettledOn, Unsettled, Over,
        Candidate, TurnInv, CompletedLeft, Claiming, Entering, Serving, TypeOK, Rows,
        Actors, Message
<1> QED BY <1>1, <1>2, <1>3, <1>4, <1>5, <1>6, <1>7, <1>8, <1>9, <1>10, <1>11, <1>12,
       <1>13, <1>14, <1>15, <1>16, <1>17, <1>18, <1>19, <1>20, <1>21, <1>22, <1>23,
       <1>24, <1>25, <1>26, <1>27, <1>28, <1>29, <1>30, <1>31, <1>32, <1>33 DEF Next, Proceed,
       Deliver, Reconcile

-----------------------------------------------------------------------------
\* The parts hold together: the types need the bubble, the turn and the replay need both.
LEMMA Invariant == Spec => [](TypeOK /\ BubbleInv /\ TurnInv /\ ReplayIsReal)
<1>1. Init => TypeOK
  <2>1. Nothing \in [post : Posts \cup {None}, again : BOOLEAN]
    BY DEF Nothing
  <2>2. Init => row \in Rows
    BY DEF Init, Rows
  <2>3. Init => pc \in [Actors -> Places] /\ faults \in 0 .. MaxFaults
    BY DEF Init, Places
  <2>4. Init => cand \in [Reconcilers -> [post : Posts \cup {None}, again : BOOLEAN]]
    BY <2>1 DEF Init
  <2>5. Init => /\ early \in [Posts \cup Workers -> Messages \cup {None}]
                /\ text \in [Messages -> Posts \cup {None}]
    BY DEF Init
  <2>6. Init => /\ pod \in [Posts -> Pods] /\ made \subseteq Messages
                /\ files \subseteq Messages /\ owner \in Posts \cup {None}
                /\ agent \in Posts \cup {None} /\ overtaken \in BOOLEAN
    BY DEF Init
  <2> QED BY <2>2, <2>3, <2>4, <2>5, <2>6 DEF TypeOK
<1>2. Init => BubbleInv
  BY DEF Init, BubbleInv, BubbleExists, SettledOn, Unsettled, Over, Candidate, Message,
         Actors, Messages
<1>3. Init => TurnInv
  BY DEF Init, TurnInv, UnclaimedRow, OneClaimant, ClaimantKnown, CompletedLeft,
         StaleStarted, Orphaned, Claiming, Entering, Serving, Actors
<1>4. Init => ReplayIsReal
  BY DEF Init, ReplayIsReal
<1>5. TypeOK /\ BubbleInv /\ TurnInv /\ ReplayIsReal /\ [Next]_vars
          => (TypeOK /\ BubbleInv /\ TurnInv /\ ReplayIsReal)'
  BY TypeStep, BubbleStep, TurnStep, ReplayStep
<1> QED BY <1>1, <1>2, <1>3, <1>4, <1>5, PTL DEF Spec

\* Every variable keeps its type, for any number of posts, replicas, workers and
\* reconcilers.
THEOREM TypeCorrect == Spec => []TypeOK
BY Invariant, PTL

\* The files of jobs are attached to the bound message alone, and it exists
\* (bindOrDiscardAssistantMessageCandidate).
THEOREM FilesBound == Spec => []FilesInBound
<1>1. BubbleInv => FilesInBound
  BY DEF BubbleInv, BubbleExists, FilesInBound
<1> QED BY <1>1, Invariant, PTL

\* bindAssistantMessageId: a bound message is never replaced.
THEOREM OneBubbleForGood == Spec => BoundForGood
<1>1. TypeOK /\ TurnInv /\ [Next]_vars => [row.msg # None => row'.msg = row.msg]_vars
  BY RowStep DEF RowKept
<1> QED BY <1>1, Invariant, PTL DEF Spec, BoundForGood

\* claim, markRunning: a completed turn is not run again, as long as no retry took
\* over a turn that still ran.
THEOREM CompletedStays == Spec => CompletedForGood
<1>1. TypeOK /\ TurnInv /\ [Next]_vars
          => [row.status = "completed" /\ ~ overtaken => row'.status = "completed"]_vars
  BY RowStep DEF RowKept
<1> QED BY <1>1, Invariant, PTL DEF Spec, CompletedForGood

\* completeWebTurnReplay: the replay of a completed turn shows the words of the turn
\* it names, with the same exception.
THEOREM ReplayReal == Spec => []ReplayIsReal
BY Invariant, PTL

\* The reconciler gives up an attempt only when no request works on it, unless it was
\* claimed again after it was read or taken over while it ran.
THEOREM OrphansOnly == Spec => OrphansAreOrphans
<1> DEFINE Given == \A r \in Reconcilers :
               At(r, "update") /\ pc'[r] = "idle" /\ row' # row /\ ~ cand[r].again
                   /\ ~ overtaken => Claimers = {}
<1>1. TypeOK /\ TurnInv => Given
  BY DEF TurnInv, Orphaned, Claimers, Live, Working, Entering, Serving
<1>2. TypeOK /\ TurnInv /\ [Next]_vars => [Given]_vars
  BY <1>1
<1> QED BY <1>2, Invariant, PTL DEF Spec, OrphansAreOrphans

-----------------------------------------------------------------------------
(* WebTurnAttempt implements BubbleLedger.                                  *)

\* Partial words are words; a candidate is empty until its maker knows that it is bound.
WordsInv ==
    \A x \in Posts \cup Workers :
        /\ Message(x, "partial") \in made => text[Message(x, "partial")] # None
        /\ pc[x] = "bind" => text[Candidate(x)] = None

\* Creating a candidate writes nothing that anybody shows.
LEMMA CandidateWords ==
  ASSUME TypeOK, BubbleInv, NEW x \in Posts \cup Workers, early[x] = None, pc[x] \notin Over,
         NewCandidate(x)
  PROVE  /\ Words' = Words \/ row'.msg # row.msg
         /\ \A y \in Posts \cup Workers :
               /\ text'[Message(y, "partial")] = text[Message(y, "partial")]
               /\ Message(y, "partial") \in made' => Message(y, "partial") \in made
               /\ y # x => text'[Candidate(y)] = text[Candidate(y)]
         /\ text'[Candidate(x)] = None
<1>1. /\ Candidate(x) \in Messages /\ row.msg # Candidate(x)
      /\ row.msg \in Messages \cup {None} /\ None \notin Messages
  BY DEF BubbleInv, SettledOn, TypeOK, Rows, Candidate, Messages, Message
<1>2. /\ text' = [text EXCEPT ![Candidate(x)] = None]
      /\ made' = made \cup {Candidate(x)}
  BY DEF NewCandidate, Candidate
<1>3. \A y \in Posts \cup Workers :
         /\ Message(y, "partial") # Candidate(x)
         /\ Message(y, "partial") \in Messages /\ Candidate(y) \in Messages
         /\ y # x => Candidate(y) # Candidate(x)
  BY DEF Candidate, Messages, Message
<1>4. \A m \in Messages : m # Candidate(x) => text'[m] = text[m]
  BY <1>1, <1>2 DEF TypeOK
<1>5. text'[Candidate(x)] = None
  BY <1>1, <1>2 DEF TypeOK
<1>6. row.msg \in Messages => text'[row.msg] = text[row.msg]
  BY <1>1, <1>4
<1> QED BY <1>1, <1>2, <1>3, <1>4, <1>5, <1>6 DEF Words

\* What a post writes goes to the message it settled on or to one of its own.
LEMMA WrittenWords ==
  ASSUME TypeOK, BubbleInv, WordsInv, NEW p \in Posts, NEW m \in Messages, pc[p] \in {"persist", "stop"},
         m \in {early[p], Message(p, "partial")}, m # None,
         made' = made \cup {m}, text' = [text EXCEPT ![m] = p],
         NEW to, to # "bind", pc' = [pc EXCEPT ![p] = to]
  PROVE  WordsInv'
<1>1. p # None /\ text'[m] = p /\ \A n \in Messages : n # m => text'[n] = text[n]
  BY DEF TypeOK
<1> SUFFICES ASSUME NEW x \in Posts \cup Workers
             PROVE  /\ Message(x, "partial") \in made' => text'[Message(x, "partial")] # None
                    /\ pc'[x] = "bind" => text'[Candidate(x)] = None
  BY DEF WordsInv
<1>2. Message(x, "partial") \in Messages /\ Candidate(x) \in Messages
  BY DEF Candidate, Messages, Message
<1>3. Message(x, "partial") \in made' => text'[Message(x, "partial")] # None
  BY <1>1, <1>2 DEF WordsInv
<1>4. ASSUME pc'[x] = "bind" PROVE text'[Candidate(x)] = None
  <2>1. x # p /\ pc[x] = "bind"
    BY <1>4 DEF TypeOK, Actors
  <2>2. early[x] = None /\ row.msg # Candidate(x)
    BY <2>1 DEF BubbleInv, SettledOn, Unsettled, Over
  <2>3. m # Candidate(x)
    <3>1. early[p] \in {None, row.msg, Message(p, "partial")}
      BY DEF BubbleInv, SettledOn
    <3>2. Message(p, "partial") # Candidate(x)
      BY DEF Candidate, Message
    <3> QED BY <2>2, <3>1, <3>2
  <2> QED BY <1>1, <1>2, <2>1, <2>3 DEF WordsInv
<1> QED BY <1>3, <1>4

\* Words and candidates stay so.
LEMMA WordsStep ==
  ASSUME TypeOK, BubbleInv, WordsInv, [Next]_vars
  PROVE  WordsInv'
<1>1. ASSUME NEW p \in Posts, Look(p) PROVE WordsInv'
  BY <1>1 DEF Look, Verdict, Live, WordsInv, TypeOK, Actors
<1>2. ASSUME NEW p \in Posts, TakeOver(p) PROVE WordsInv'
  BY <1>2 DEF TakeOver, ClaimedAgain, WordsInv, TypeOK, Actors
<1>3. ASSUME NEW p \in Posts, Create(p) PROVE WordsInv'
  BY <1>3 DEF Create, WordsInv, TypeOK, Actors
<1>4. ASSUME NEW p \in Posts, PreparationFails(p) PROVE WordsInv'
  BY <1>4 DEF PreparationFails, WordsInv, TypeOK, Actors
<1>5. ASSUME NEW p \in Posts, MarkRunning(p) PROVE WordsInv'
  BY <1>5 DEF MarkRunning, WordsInv, TypeOK, Actors
<1>6. ASSUME NEW p \in Posts, Register(p) PROVE WordsInv'
  BY <1>6 DEF Register, WordsInv, TypeOK, Actors
<1>7. ASSUME NEW p \in Posts, StartStream(p) PROVE WordsInv'
  BY <1>7 DEF StartStream, WordsInv, TypeOK, Actors
<1>8. ASSUME NEW p \in Posts, EndStream(p) PROVE WordsInv'
  BY <1>8 DEF EndStream, WordsInv, TypeOK, Actors
<1>9. ASSUME NEW p \in Posts, Settle(p) PROVE WordsInv'
  <2>1. early[p] = None /\ pc[p] \notin Over
    BY <1>9 DEF Settle, Over, BubbleInv, SettledOn, Unsettled
  <2>2. NewCandidate(p) => WordsInv'
    BY <1>9, <2>1, CandidateWords DEF Settle, WordsInv, TypeOK, Actors
  <2> QED BY <1>9, <2>2 DEF Settle
<1>10. ASSUME NEW p \in Posts, AlreadySettled(p) PROVE WordsInv'
  BY <1>10 DEF AlreadySettled, WordsInv, TypeOK, Actors
<1>11. ASSUME NEW p \in Posts, Bind(p) PROVE WordsInv'
  BY <1>11 DEF Bind, Bound, AfterBind, WordsInv, TypeOK, Actors
<1>12. ASSUME NEW p \in Posts, Persist(p) PROVE WordsInv'
  <2>1. early[p] \in Messages /\ early[p] # None
    BY <1>12 DEF Persist, BubbleInv, SettledOn, TypeOK
  <2>2. /\ made' = made \cup {early[p]} /\ text' = [text EXCEPT ![early[p]] = p]
        /\ pc' = [pc EXCEPT ![p] = "complete"] /\ pc[p] = "persist"
    BY <1>12, <2>1 DEF Persist
  <2> QED BY <2>1, <2>2, WrittenWords
<1>13. ASSUME NEW p \in Posts, Complete(p) PROVE WordsInv'
  BY <1>13 DEF Complete, EndAttempt, WordsInv, TypeOK, Actors
<1>14. ASSUME NEW p \in Posts, Fail(p) PROVE WordsInv'
  BY <1>14 DEF Fail, EndAttempt, WordsInv, TypeOK, Actors
<1>15. ASSUME NEW p \in Posts, SavePartial(p) PROVE WordsInv'
  <2> DEFINE m == IF early[p] = None THEN Message(p, "partial") ELSE early[p]
  <2>1. m \in Messages /\ m # None /\ m \in {early[p], Message(p, "partial")}
    BY DEF TypeOK, Messages, Message
  <2>2. pc' = [pc EXCEPT ![p] = "interrupt"] /\ pc[p] = "stop"
    BY <1>15 DEF SavePartial
  <2>3. CASE made' = made \cup {m} /\ text' = [text EXCEPT ![m] = p]
    <3> HIDE DEF m
    <3> QED BY <2>1, <2>2, <2>3, WrittenWords
  <2>4. CASE UNCHANGED <<made, text>>
    BY <2>2, <2>4 DEF WordsInv, TypeOK, Actors
  <2> QED BY <1>15, <2>3, <2>4 DEF SavePartial
<1>16. ASSUME NEW p \in Posts, Interrupt(p) PROVE WordsInv'
  BY <1>16 DEF Interrupt, EndAttempt, WordsInv, TypeOK, Actors
<1>17. ASSUME NEW p \in Posts, Release(p) PROVE WordsInv'
  BY <1>17 DEF Release, WordsInv, TypeOK, Actors
<1>18. ASSUME NEW p \in Posts, Touch(p) PROVE WordsInv'
  BY <1>18 DEF Touch, WordsInv, TypeOK, Actors
<1>19. ASSUME NEW p \in Posts, EndIsLost(p) PROVE WordsInv'
  BY <1>19 DEF EndIsLost, Fault, WordsInv, TypeOK, Actors
<1>20. ASSUME NEW p \in Posts, Discard(p, AfterBind(p)) PROVE WordsInv'
  BY <1>20 DEF Discard, AfterBind, WordsInv, TypeOK, Actors
<1>21. ASSUME NEW w \in Workers, FindOpenTurn(w) PROVE WordsInv'
  <2>1. early[w] = None /\ pc[w] \notin Over
    BY <1>21 DEF FindOpenTurn, Over, BubbleInv, SettledOn, Unsettled
  <2>2. NewCandidate(w) => WordsInv'
    BY <1>21, <2>1, CandidateWords DEF FindOpenTurn, WordsInv, TypeOK, Actors
  <2>3. CASE pc' = [pc EXCEPT ![w] = "attach"] /\ UNCHANGED <<made, text>>
    BY <2>3 DEF WordsInv, TypeOK, Actors
  <2> QED BY <1>21, <2>2, <2>3 DEF FindOpenTurn, messageVars
<1>22. ASSUME NEW w \in Workers, BindForWorker(w) PROVE WordsInv'
  BY <1>22 DEF BindForWorker, Bound, WordsInv, TypeOK, Actors
<1>23. ASSUME NEW w \in Workers, Attach(w) PROVE WordsInv'
  BY <1>23 DEF Attach, WordsInv, TypeOK, Actors
<1>24. ASSUME NEW w \in Workers, Discard(w, "attach") PROVE WordsInv'
  BY <1>24 DEF Discard, WordsInv, TypeOK, Actors
<1>25. ASSUME NEW r \in Reconcilers, FindCandidate(r) PROVE WordsInv'
  BY <1>25 DEF FindCandidate, WordsInv, TypeOK, Actors
<1>26. ASSUME NEW r \in Reconcilers, Check(r) PROVE WordsInv'
  BY <1>26 DEF Check, CheckOwner, CheckReceipt, Skip, Pass, WordsInv, TypeOK, Actors
<1>27. ASSUME NEW r \in Reconcilers, MarkOrphaned(r) PROVE WordsInv'
  BY <1>27 DEF MarkOrphaned, Skip, WordsInv, TypeOK, Actors
<1>28. ASSUME NEW d \in Pods, Crash(d) PROVE WordsInv'
  BY <1>28 DEF Crash, Fault, Live, WordsInv, TypeOK, Actors
<1>29. CASE Age
  BY <1>29 DEF Age, Starting, WordsInv, TypeOK, Actors
<1>30. CASE AgentEnds
  BY <1>30 DEF AgentEnds, WordsInv, TypeOK, Actors
<1>31. CASE OwnerExpires
  BY <1>31 DEF OwnerExpires, WordsInv, TypeOK, Actors
<1>32. CASE UNCHANGED vars
  BY <1>32 DEF vars, actorVars, WordsInv, TypeOK, Actors
<1>33. ASSUME NEW p \in Posts, SignalStop(p) PROVE WordsInv'
  BY <1>33 DEF SignalStop, WordsInv, TypeOK, Actors
<1> QED BY <1>1, <1>2, <1>3, <1>4, <1>5, <1>6, <1>7, <1>8, <1>9, <1>10, <1>11, <1>12,
       <1>13, <1>14, <1>15, <1>16, <1>17, <1>18, <1>19, <1>20, <1>21, <1>22, <1>23,
       <1>24, <1>25, <1>26, <1>27, <1>28, <1>29, <1>30, <1>31, <1>32, <1>33 DEF Next, Proceed,
       Deliver, Reconcile

LEMMA WordsInvariant == Spec => []WordsInv
<1>1. Init => WordsInv
  BY DEF Init, WordsInv, Actors
<1>2. TypeOK /\ BubbleInv /\ WordsInv /\ [Next]_vars => WordsInv'
  BY WordsStep
<1> QED BY <1>1, <1>2, Invariant, PTL DEF Spec

\* A step as the ledger sees it.
Told == [Ledger!BubbleNext]_(Ledger!bubbleVars)

\* What the ledger sees of the row.
Still == UNCHANGED <<row.status, row.msg, Words, files, overtaken>>

LEMMA StillTold == ASSUME Still PROVE Told
BY DEF Still, Told, TurnState, Ledger!bubbleVars

\* Most steps of requests, workers and reconcilers leave the bubble alone.
LEMMA StillRow ==
  ASSUME row'.status = row.status, row'.msg = row.msg, UNCHANGED <<text, files, overtaken>>
  PROVE  Told
BY StillTold DEF Still, Words

\* A post that works on a turn can still write to it: it has not completed.
LEMMA NotSettled ==
  ASSUME TurnInv, NEW p \in Posts, pc[p] \in Claiming
  PROVE  ~ Ledger!Settled /\ TurnState # "none"
BY DEF TurnInv, CompletedLeft, UnclaimedRow, Ledger!Settled, TurnState, Claiming, Entering, Serving

\* A claim or a start of a request opens the turn again.
LEMMA RetryTold ==
  ASSUME TurnInv, NEW p \in Posts, pc[p] \in Claiming, row'.status \in {"accepted", "running"},
         row'.msg = row.msg, UNCHANGED <<text, files, overtaken>>
  PROVE  Told
<1>1. TurnState' = "open"
  BY DEF TurnState
<1>2. UNCHANGED <<Words, files # {}, overtaken, row.msg>>
  BY DEF Words
<1> QED BY <1>1, <1>2, NotSettled DEF Told, Ledger!Retry, Ledger!BubbleNext

\* bindAssistantMessageId binds an empty message to an open turn.
LEMMA BindTold ==
  ASSUME TypeOK, WordsInv, NEW x \in Posts \cup Workers, pc[x] = "bind",
         row' = [row EXCEPT !.msg = Bound(Candidate(x))], UNCHANGED <<text, files, overtaken>>
  PROVE  Told
<1>1. row'.msg = Bound(Candidate(x)) /\ row'.status = row.status
  BY DEF TypeOK, Rows
<1>2. CASE Bound(Candidate(x)) = row.msg
  BY <1>1, <1>2, StillRow
<1>3. CASE Bound(Candidate(x)) # row.msg
  <2>1. row.msg = None /\ Bound(Candidate(x)) = Candidate(x) /\ TurnState = "open"
    BY <1>3 DEF Bound, TurnState
  <2>2. Words = None /\ Words' = None
    BY <1>1, <2>1 DEF Words, WordsInv
  <2>3. Candidate(x) # None /\ TurnState' = TurnState
    BY <1>1, <2>1 DEF TurnState, Candidate, Messages, Message
  <2> QED BY <1>1, <2>1, <2>2, <2>3 DEF Told, Ledger!Bind, Ledger!BubbleNext
<1> QED BY <1>2, <1>3

\* The end of an attempt leaves the message or makes it one with words.
LEMMA EndTold ==
  ASSUME TypeOK, NEW s \in {"failed", "interrupted"}, NEW m \in Messages \cup {None},
         EndAttempt(s, m), row.msg = None /\ m # None => text[m] # None,
         UNCHANGED <<text, files, overtaken>>
  PROVE  Told
<1>1. CASE row' = row
  BY <1>1, StillRow
<1>2. CASE row' # row
  <2>1. /\ row.status \in {"accepted", "running"} /\ row'.status = s
        /\ row'.msg = IF row.msg = None THEN m ELSE row.msg
    BY <1>2 DEF EndAttempt, TypeOK, Rows
  <2>2. TurnState = "open" /\ TurnState' = "ended"
    BY <2>1 DEF TurnState
  <2>3. CASE row'.msg = row.msg
    BY <2>2, <2>3 DEF Words, Told, Ledger!End, Ledger!BubbleNext
  <2>4. CASE row'.msg # row.msg
    <3>1. row.msg = None /\ row'.msg = m /\ m # None /\ Words' # None
      BY <2>1, <2>4 DEF Words
    <3> QED BY <2>2, <3>1 DEF Told, Ledger!End, Ledger!BubbleNext
  <2> QED BY <2>3, <2>4
<1> QED BY <1>1, <1>2

\* Writing to the message of the turn, or to one that nobody shows.
LEMMA WriteTold ==
  ASSUME TypeOK, TurnInv, NEW p \in Posts, pc[p] \in Serving, NEW m \in Messages,
         text' = [text EXCEPT ![m] = p], UNCHANGED <<row, files, overtaken>>
  PROVE  Told
<1>1. CASE row.msg # m
  <2>1. Words' = Words
    BY <1>1 DEF Words, TypeOK, Rows
  <2> QED BY <2>1, StillTold DEF Still
<1>2. CASE row.msg = m
  <2>1. row.msg # None /\ Words' # None
    BY <1>2 DEF Words, TypeOK
  <2>2. ~ Ledger!Settled
    BY NotSettled DEF Claiming
  <2>3. TurnState' = TurnState
    BY DEF TurnState
  <2> QED BY <2>1, <2>2, <2>3 DEF Told, Ledger!Write, Ledger!BubbleNext
<1> QED BY <1>1, <1>2

\* Every step of requests, workers and reconcilers is one of the ledger or none.
LEMMA LedgerStep ==
  ASSUME TypeOK, BubbleInv, TurnInv, WordsInv, [Next]_vars
  PROVE  Told
<1>1. ASSUME NEW p \in Posts, Look(p) PROVE Told
  <2>1. CASE overtaken' = overtaken
    BY <1>1, <2>1, StillRow DEF Look
  <2>2. CASE overtaken' # overtaken
    <3>1. overtaken' = TRUE /\ UNCHANGED <<row, text, files>>
      BY <1>1, <2>2 DEF Look, TypeOK
    <3> QED BY <3>1 DEF Told, Ledger!Clash, Ledger!BubbleNext, TurnState, Words
  <2> QED BY <2>1, <2>2
<1>2. ASSUME NEW p \in Posts, TakeOver(p) PROVE Told
  BY <1>2, RetryTold DEF TakeOver, Claiming, TypeOK, Rows
<1>3. ASSUME NEW p \in Posts, Create(p) PROVE Told
  <2>1. CASE row' = row
    BY <1>3, <2>1, StillRow DEF Create
  <2>2. CASE row.status = "none" /\ row' = [row EXCEPT !.status = "accepted"]
    <3>1. TurnState = "none" /\ TurnState' = "open" /\ row'.msg = row.msg
      BY <2>2 DEF TurnState, TypeOK, Rows
    <3>2. UNCHANGED <<Words, files, overtaken>>
      BY <1>3, <3>1 DEF Create, Words
    <3> QED BY <3>1, <3>2 DEF Told, Ledger!Open, Ledger!BubbleNext
  <2> QED BY <1>3, <2>1, <2>2 DEF Create
<1>4. ASSUME NEW p \in Posts, PreparationFails(p) PROVE Told
  BY <1>4, StillRow DEF PreparationFails
<1>5. ASSUME NEW p \in Posts, MarkRunning(p) PROVE Told
  BY <1>5, RetryTold DEF MarkRunning, Claiming, Entering, TypeOK, Rows
<1>6. ASSUME NEW p \in Posts, Register(p) PROVE Told
  BY <1>6, StillRow DEF Register
<1>7. ASSUME NEW p \in Posts, StartStream(p) PROVE Told
  BY <1>7, StillRow DEF StartStream
<1>8. ASSUME NEW p \in Posts, EndStream(p) PROVE Told
  BY <1>8, StillRow DEF EndStream
<1>9. ASSUME NEW p \in Posts, Settle(p) PROVE Told
  <2>1. early[p] = None /\ pc[p] \notin Over
    BY <1>9 DEF Settle, Over, BubbleInv, SettledOn, Unsettled
  <2>2. NewCandidate(p) => Told
    BY <1>9, <2>1, CandidateWords, StillTold DEF Settle, NewCandidate, Still
  <2> QED BY <1>9, <2>2 DEF Settle
<1>10. ASSUME NEW p \in Posts, AlreadySettled(p) PROVE Told
  BY <1>10, StillRow DEF AlreadySettled
<1>11. ASSUME NEW p \in Posts, Bind(p) PROVE Told
  BY <1>11, BindTold DEF Bind, Candidate
<1>12. ASSUME NEW p \in Posts, Persist(p) PROVE Told
  <2>1. early[p] \in Messages /\ early[p] # None
    BY <1>12 DEF Persist, BubbleInv, SettledOn, TypeOK
  <2>2. text' = [text EXCEPT ![early[p]] = p] /\ pc[p] \in Serving
    BY <1>12, <2>1 DEF Persist, Serving
  <2> QED BY <1>12, <2>1, <2>2, WriteTold DEF Persist
<1>13. ASSUME NEW p \in Posts, Complete(p) PROVE Told
  <2>1. UNCHANGED <<text, files, overtaken>> /\ pc[p] = "complete"
    BY <1>13 DEF Complete
  <2>2. early[p] # None /\ early[p] = row.msg
    BY <2>1 DEF BubbleInv, SettledOn
  <2>3. CASE EndAttempt("interrupted", None)
    BY <2>1, <2>3, EndTold
  <2>4. CASE EndAttempt("completed", early[p]) /\ row' = row
    BY <2>1, <2>4, StillRow
  <2>5. CASE EndAttempt("completed", early[p]) /\ row' # row
    <3>1. /\ row.status \in {"accepted", "running"} /\ row'.status = "completed"
          /\ row'.msg = row.msg
      BY <2>2, <2>5 DEF EndAttempt, TypeOK, Rows
    <3>2. TurnState = "open" /\ TurnState' = "completed" /\ Words' = Words
      BY <2>1, <3>1 DEF TurnState, Words
    <3>3. Words # None \/ overtaken
      BY <2>1, <2>2 DEF Words, TurnInv, ClaimantKnown
    <3> QED BY <2>1, <2>2, <3>1, <3>2, <3>3 DEF Told, Ledger!Complete, Ledger!BubbleNext
  <2> QED BY <1>13, <2>3, <2>4, <2>5 DEF Complete
<1>14. ASSUME NEW p \in Posts, Fail(p) PROVE Told
  <2>1. UNCHANGED <<text, files, overtaken>> /\ EndAttempt("failed", None)
    BY <1>14 DEF Fail
  <2> QED BY <2>1, EndTold
<1>15. ASSUME NEW p \in Posts, SavePartial(p) PROVE Told
  <2> DEFINE m == IF early[p] = None THEN Message(p, "partial") ELSE early[p]
  <2>1. m \in Messages
    BY DEF TypeOK, Messages, Message
  <2>2. UNCHANGED <<row, files, overtaken>> /\ pc[p] \in Serving
    BY <1>15 DEF SavePartial, Serving
  <2>3. CASE text' = [text EXCEPT ![m] = p]
    <3> HIDE DEF m
    <3> QED BY <2>1, <2>2, <2>3, WriteTold
  <2>4. CASE text' = text
    BY <2>2, <2>4, StillRow
  <2> QED BY <1>15, <2>3, <2>4 DEF SavePartial
<1>16. ASSUME NEW p \in Posts, Interrupt(p) PROVE Told
  <2>1. UNCHANGED <<text, files, overtaken>> /\ EndAttempt("interrupted", early[p])
    BY <1>16 DEF Interrupt
  <2>2. early[p] \in Messages \cup {None}
    BY DEF TypeOK
  <2>3. row.msg = None /\ early[p] # None => text[early[p]] # None
    BY DEF BubbleInv, SettledOn, WordsInv
  <2> QED BY <2>1, <2>2, <2>3, EndTold
<1>17. ASSUME NEW p \in Posts, Release(p) PROVE Told
  BY <1>17, StillRow DEF Release
<1>18. ASSUME NEW p \in Posts, Touch(p) PROVE Told
  BY <1>18, StillRow DEF Touch, TypeOK, Rows
<1>19. ASSUME NEW p \in Posts, EndIsLost(p) PROVE Told
  BY <1>19, StillRow DEF EndIsLost
<1>20. ASSUME NEW p \in Posts, Discard(p, AfterBind(p)) PROVE Told
  BY <1>20, StillRow DEF Discard
<1>21. ASSUME NEW w \in Workers, FindOpenTurn(w) PROVE Told
  <2>1. early[w] = None /\ pc[w] \notin Over
    BY <1>21 DEF FindOpenTurn, Over, BubbleInv, SettledOn, Unsettled
  <2>2. NewCandidate(w) => Told
    BY <1>21, <2>1, CandidateWords, StillTold DEF FindOpenTurn, NewCandidate, Still
  <2> QED BY <1>21, <2>2, StillRow DEF FindOpenTurn
<1>22. ASSUME NEW w \in Workers, BindForWorker(w) PROVE Told
  BY <1>22, BindTold DEF BindForWorker, Candidate
<1>23. ASSUME NEW w \in Workers, Attach(w) PROVE Told
  <2>1. UNCHANGED <<row, text, overtaken>> /\ files' # {} /\ row.msg # None
    BY <1>23 DEF Attach, BubbleInv, SettledOn
  <2>2. UNCHANGED <<TurnState, row.msg, Words, overtaken>>
    BY <2>1 DEF TurnState, Words
  <2> QED BY <2>1, <2>2 DEF Told, Ledger!File, Ledger!BubbleNext
<1>24. ASSUME NEW w \in Workers, Discard(w, "attach") PROVE Told
  BY <1>24, StillRow DEF Discard
<1>25. ASSUME NEW r \in Reconcilers, FindCandidate(r) PROVE Told
  BY <1>25, StillRow DEF FindCandidate
<1>26. ASSUME NEW r \in Reconcilers, Check(r) PROVE Told
  BY <1>26, StillRow DEF Check
<1>27. ASSUME NEW r \in Reconcilers, MarkOrphaned(r) PROVE Told
  <2>1. UNCHANGED <<text, files, overtaken>>
    BY <1>27 DEF MarkOrphaned
  <2>2. row' = row \/ row.status \in {"accepted", "running"}
    BY <1>27 DEF MarkOrphaned
  <2>3. row' # row => row'.status = "interrupted" /\ row'.msg = row.msg
    BY <1>27 DEF MarkOrphaned, TypeOK, Rows
  <2>4. CASE row' # row
    <3>1. TurnState = "open" /\ TurnState' = "ended" /\ Words' = Words
      BY <2>1, <2>2, <2>3, <2>4 DEF TurnState, Words
    <3> QED BY <2>1, <2>3, <2>4, <3>1 DEF Told, Ledger!End, Ledger!BubbleNext
  <2> QED BY <2>1, <2>4, StillRow
<1>28. ASSUME NEW d \in Pods, Crash(d) PROVE Told
  BY <1>28, StillRow DEF Crash
<1>29. CASE Age
  BY <1>29, StillRow DEF Age, TypeOK, Rows
<1>30. CASE AgentEnds
  BY <1>30, StillRow DEF AgentEnds
<1>31. CASE OwnerExpires
  BY <1>31, StillRow DEF OwnerExpires
<1>32. CASE UNCHANGED vars
  BY <1>32, StillRow DEF vars, actorVars
<1>33. ASSUME NEW p \in Posts, SignalStop(p) PROVE Told
  BY <1>33, StillRow DEF SignalStop
<1> QED BY <1>1, <1>2, <1>3, <1>4, <1>5, <1>6, <1>7, <1>8, <1>9, <1>10, <1>11, <1>12,
       <1>13, <1>14, <1>15, <1>16, <1>17, <1>18, <1>19, <1>20, <1>21, <1>22, <1>23,
       <1>24, <1>25, <1>26, <1>27, <1>28, <1>29, <1>30, <1>31, <1>32, <1>33 DEF Next, Proceed,
       Deliver, Reconcile

\* claim, bindAssistantMessageId, persistAssistantMessage, markCompleted, the reconciler and
\* the workers: a turn completes with words in its one message, and what a completed turn
\* shows is not written again, whichever requests and crashes come late; but for turns that
\* a retry took over while they ran.
THEOREM BubbleImplemented == Spec => KeepsBubbleLedger
<1>1. Init => Ledger!BubbleInit
  BY DEF Init, Ledger!BubbleInit, TurnState, Words
<1>2. TypeOK /\ BubbleInv /\ TurnInv /\ WordsInv /\ [Next]_vars
        => [Ledger!BubbleNext]_(Ledger!bubbleVars)
  BY LedgerStep DEF Told
<1> QED BY <1>1, <1>2, Invariant, WordsInvariant, PTL
        DEF Spec, KeepsBubbleLedger, Ledger!BubbleSpec
=============================================================================
