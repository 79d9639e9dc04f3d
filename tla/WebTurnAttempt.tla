--------------------------- MODULE WebTurnAttempt ---------------------------
(***************************************************************************)
(* One user turn of the web chat: the AssistantWebChatTurnAttempt row of a *)
(* clientTurnId, the stream requests (POSTs) that carry it, on one replica *)
(* or on several, the workers that deliver finished jobs into the bubble   *)
(* of the open turn, and the reconciler of orphaned attempts.              *)
(*                                                                         *)
(* The actions are the database and Redis round trips of a request, since  *)
(* other requests run between them.  markCompleted, markTerminalFailure    *)
(* and bindAssistantMessageId are a conditional update, a read and a       *)
(* second update when the first found the row bound or ended; a binding    *)
(* never changes, so each is one step here.                                *)
(***************************************************************************)
EXTENDS Naturals, FiniteSets

CONSTANTS
    Posts,        \* the stream requests that carry the clientTurnId
    Pods,         \* replicas of the API
    Workers,      \* deliveries of media or document jobs of the turn
    Reconcilers,
    MaxFaults,    \* bound: crashes of pods and failed terminal writes
    None

Message(x, kind) == [by |-> x, kind |-> kind]
Messages == [by : Posts \cup Workers, kind : {"candidate", "partial"}]

ASSUME AttemptAssumption ==
    /\ MaxFaults \in Nat
    /\ Posts \cap Workers = {} /\ (Posts \cup Workers) \cap Reconcilers = {}
    /\ None \notin Posts \cup Workers \cup Messages

VARIABLES
    row,       \* the attempt row; post: whose user message; age: of its anchor
    pod,       \* pod[p]: the replica that serves p
    pc,        \* where a post, worker or reconciler stands
    early,     \* early[x]: the message a post or worker settled on
    made,      \* messages that exist
    text,      \* text[m]: the post whose words the message holds
    files,     \* messages with attachments
    owner,     \* Redis: the post registered for stop requests, until one arrives
    agent,     \* the post whose turn holds the runtime session
    cand,      \* what a reconciler read of the row; history: it was claimed again since
    overtaken, \* history: a live turn was judged stale
    faults     \* faults left

actorVars == <<pod, pc, early, cand>>
rowVars == <<row, overtaken>>
messageVars == <<made, text, files>>
vars == <<actorVars, rowVars, messageVars, owner, agent, faults>>

Actors == Posts \cup Workers \cup Reconcilers

Ended == {"completed", "failed", "interrupted"}
Active(r) == r.status \in {"accepted", "running"}

Nothing == [post |-> None, again |-> FALSE]

Init ==
    /\ row = [status |-> "none", post |-> None, msg |-> None, age |-> "fresh"]
    /\ pod \in [Posts -> Pods]
    /\ pc = [x \in Actors |-> "idle"]
    /\ early = [x \in Posts \cup Workers |-> None]
    /\ made = {} /\ files = {}
    /\ text = [m \in Messages |-> None]
    /\ owner = None /\ agent = None
    /\ cand = [r \in Reconcilers |-> Nothing]
    /\ overtaken = FALSE
    /\ faults = MaxFaults

At(x, where) == pc[x] = where
Goto(x, where) == pc' = [pc EXCEPT ![x] = where]
Fault == faults > 0 /\ faults' = faults - 1

\* What most steps leave alone.
Quiet == UNCHANGED <<pod, cand, overtaken, faults>>

\* Between its look at the row and its last write to it.
Working == {"creating", "claiming", "preparing", "registering", "refused", "starting",
            "streaming", "bind", "discard", "reply", "persist", "complete", "fail", "stop",
            "interrupt"}
Live == {p \in Posts : pc[p] \in Working}
Claimers == {p \in Live : pc[p] \notin {"creating", "claiming"}}

\* With a registration on the stream bus: made before the runtime is called, touched
\* by the heartbeat of the request and released where the request ends.
Streaming == {p \in Posts : pc[p] \in
                 {"starting", "streaming", "bind", "discard", "reply", "persist", "complete",
                  "fail", "stop", "interrupt", "release"}}

-----------------------------------------------------------------------------
(* claimOrReplayWebTurn and prepare.                                        *)

\* mutant: an ended turn may be tried again.
VerdictRetry(r) ==
    CASE r.status = "none" -> "creating"
      [] Active(r) /\ r.age = "fresh" -> "done"
      [] OTHER -> "claiming"

\* What claim does with the row it read.  An ended row is answered with its replay
\* or a conflict, a fresh one too after a wait of some seconds.
Verdict(r) ==
    CASE r.status = "none" -> "creating"
      [] Active(r) /\ r.age # "fresh" -> "claiming"
      [] OTHER -> "done"

Look(p) ==
    /\ At(p, "idle")
    /\ Goto(p, Verdict(row))
    /\ overtaken' = (overtaken \/ (Verdict(row) = "claiming" /\ Live # {}))
    /\ UNCHANGED <<pod, early, cand, row, messageVars, owner, agent, faults>>

ClaimedAgain == cand' = [r \in Reconcilers |-> [cand[r] EXCEPT !.again = ~ At(r, "idle")]]

\* The update looks at nothing but the id of the row.
TakeOver(p) ==
    /\ At(p, "claiming") /\ Goto(p, "preparing")
    /\ row' = [row EXCEPT !.status = "accepted", !.age = "fresh"]
    /\ ClaimedAgain
    /\ UNCHANGED <<pod, early, overtaken, messageVars, owner, agent, faults>>

\* Of two posts that create the row the second fails.
Create(p) ==
    /\ At(p, "creating")
    /\ IF row.status = "none"
       THEN /\ Goto(p, "preparing")
            /\ row' = [row EXCEPT !.status = "accepted"]
       ELSE Goto(p, "done") /\ UNCHANGED row
    /\ UNCHANGED <<pod, early, cand, overtaken, messageVars, owner, agent, faults>>

\* Preparation throws: the window of the chat is closed, the row stays accepted.
PreparationFails(p) ==
    /\ At(p, "preparing") /\ Goto(p, "done")
    /\ Quiet /\ UNCHANGED <<early, row, messageVars, owner, agent>>

\* markRunning, after the user message of this post was saved.
MarkRunning(p) ==
    /\ At(p, "preparing") /\ Goto(p, "registering")
    /\ row' = [row EXCEPT !.status = "running", !.post = p, !.age = "fresh"]
    /\ Quiet /\ UNCHANGED <<early, messageVars, owner, agent>>

\* mutant: the record names the replica.
RegisterPod(p) ==
    /\ At(p, "registering") /\ owner = None
    /\ owner' = pod[p] /\ Goto(p, "starting")
    /\ Quiet /\ UNCHANGED <<early, row, messageVars, agent>>

\* register: a replica takes the owner record unless another one has it.
Register(p) ==
    /\ At(p, "registering")
    /\ IF owner = None \/ pod[owner] = pod[p]
       THEN owner' = p /\ Goto(p, "starting")
       ELSE Goto(p, "refused") /\ UNCHANGED owner
    /\ Quiet /\ UNCHANGED <<early, row, messageVars, agent>>

-----------------------------------------------------------------------------
(* streamToCompletion.                                                      *)

\* The runtime runs one turn of the session at a time.
StartStream(p) ==
    /\ At(p, "starting")
    /\ IF agent = None THEN agent' = p /\ Goto(p, "streaming")
                       ELSE Goto(p, "stop") /\ UNCHANGED agent
    /\ Quiet /\ UNCHANGED <<early, row, messageVars, owner>>

\* touchRunningAttempt moves updatedAt and not the anchor of the claim.
Touch(p) ==
    /\ At(p, "streaming") /\ Active(row) /\ row.age = "stale"
    /\ row' = [row EXCEPT !.age = "aged"]
    /\ Quiet /\ UNCHANGED <<pc, early, messageVars, owner, agent>>

\* The stream ends: with a reply, with none, by a stop or by an error.
EndStream(p) ==
    /\ At(p, "streaming") /\ agent' = None
    /\ \E end \in {"reply", "fail", "stop"} : Goto(p, end)
    /\ Quiet /\ UNCHANGED <<early, row, messageVars, owner>>

\* ensureStableAssistantMessageForOpenTurn and ensureOpenTurnAssistantMessage
\* create a candidate, bind it or learn the winner, and discard a loser.
NewCandidate(x) ==
    /\ made' = made \cup {Message(x, "candidate")}
    /\ text' = [text EXCEPT ![Message(x, "candidate")] = None]
    /\ UNCHANGED files

\* At the first media or turn event, and again before the reply is persisted.
\* mutant: the reply is persisted without it.
SettleOnlyInStream(p) ==
    /\ \/ At(p, "streaming") /\ NewCandidate(p) /\ Goto(p, "bind")
       \/ At(p, "reply") /\ Goto(p, "persist") /\ UNCHANGED messageVars
    /\ early[p] = None
    /\ Quiet /\ UNCHANGED <<early, row, owner, agent>>

Settle(p) ==
    /\ pc[p] \in {"streaming", "reply"} /\ early[p] = None
    /\ NewCandidate(p) /\ Goto(p, "bind")
    /\ Quiet /\ UNCHANGED <<early, row, owner, agent>>

\* mutant: a message that was settled on is taken for a persisted one.
SettledIsPersisted(p) ==
    /\ At(p, "reply") /\ early[p] # None /\ Goto(p, "complete")
    /\ Quiet /\ UNCHANGED <<early, row, messageVars, owner, agent>>

AlreadySettled(p) ==
    /\ At(p, "reply") /\ early[p] # None /\ Goto(p, "persist")
    /\ Quiet /\ UNCHANGED <<early, row, messageVars, owner, agent>>

\* mutant: a row that is bound is bound again.
BoundAnew(m) == IF Active(row) THEN m ELSE row.msg

\* bindAssistantMessageId: what the row is bound to after the attempt to bind m.
Bound(m) == IF Active(row) /\ row.msg = None THEN m ELSE row.msg

\* A post that still streams has the session of the runtime.
AfterBind(p) == IF agent = p THEN "streaming" ELSE "persist"

\* An ended row that was never bound takes no candidate: a post fails.
Bind(p) ==
    LET m == Message(p, "candidate")
    IN  /\ At(p, "bind")
        /\ row' = [row EXCEPT !.msg = Bound(m)]
        /\ early' = [early EXCEPT ![p] = Bound(m)]
        /\ Goto(p, CASE Bound(m) = None -> "stop" [] Bound(m) = m -> AfterBind(p) [] OTHER -> "discard")
        /\ agent' = IF Bound(m) = None /\ agent = p THEN None ELSE agent
        /\ Quiet /\ UNCHANGED <<messageVars, owner>>

Discard(x, next) ==
    /\ At(x, "discard") /\ Goto(x, next)
    /\ made' = IF Message(x, "candidate") \in files THEN made ELSE made \ {Message(x, "candidate")}
    /\ Quiet /\ UNCHANGED <<early, row, text, files, owner, agent>>

\* persistAssistantMessage: into the message settled on.
Persist(p) ==
    LET m == IF early[p] = None THEN Message(p, "partial") ELSE early[p]
    IN  /\ At(p, "persist")
        /\ made' = made \cup {m} /\ text' = [text EXCEPT ![m] = p]
        /\ early' = [early EXCEPT ![p] = m]
        /\ Goto(p, "complete")
        /\ Quiet /\ UNCHANGED <<row, files, owner, agent>>

\* mutant: the terminal write brings its own message.
EndWith(status, m) ==
    row' = IF Active(row) THEN [row EXCEPT !.status = status, !.age = "fresh", !.msg = m] ELSE row

\* markCompleted and markTerminalFailure: nothing happens to an ended row, and a
\* bound row keeps its message.  Nobody asks for the age of an ended row.
EndAttempt(status, m) ==
    row' = IF Active(row)
           THEN [row EXCEPT !.status = status, !.age = "fresh", !.msg = IF row.msg = None THEN m ELSE row.msg]
           ELSE row

\* completeWebTurnReplay; delivery of media in front of it may throw.
Complete(p) ==
    /\ At(p, "complete") /\ Goto(p, "release")
    /\ \/ EndAttempt("completed", early[p])
       \/ EndAttempt("interrupted", None)
    /\ Quiet /\ UNCHANGED <<early, messageVars, owner, agent>>

\* A stream without any output, and a registration that was refused.
Fail(p) ==
    /\ pc[p] \in {"fail", "refused"} /\ Goto(p, "release")
    /\ EndAttempt("failed", None)
    /\ Quiet /\ UNCHANGED <<early, messageVars, owner, agent>>

\* persistInterruptedOutcome: partial words go into the message settled on, or
\* into a new one; without words and message there is nothing to save.
SavePartial(p) ==
    /\ At(p, "stop") /\ Goto(p, "interrupt")
    /\ \/ early[p] = None /\ UNCHANGED <<early, made, text>>
       \/ LET m == IF early[p] = None THEN Message(p, "partial") ELSE early[p]
          IN  /\ made' = made \cup {m} /\ text' = [text EXCEPT ![m] = p]
              /\ early' = [early EXCEPT ![p] = m]
    /\ Quiet /\ UNCHANGED <<row, files, owner, agent>>

Interrupt(p) ==
    /\ At(p, "interrupt") /\ Goto(p, "release")
    /\ EndAttempt("interrupted", early[p])
    /\ Quiet /\ UNCHANGED <<early, messageVars, owner, agent>>

\* The terminal write fails and is only logged.
EndIsLost(p) ==
    /\ Fault
    /\ pc[p] \in {"complete", "fail", "refused", "interrupt"} /\ Goto(p, "release")
    /\ UNCHANGED <<pod, early, cand, rowVars, messageVars, owner, agent>>

\* dispatchStop, signalLocalStop: a stop takes the owner record away while the request
\* still runs.  The stream that it aborts ends as any stream does.
SignalStop(p) ==
    /\ owner = p /\ p \in Streaming
    /\ owner' = None
    /\ Quiet /\ UNCHANGED <<pc, early, row, messageVars, agent>>

\* release compares the request, then the replica of the owner record.
Release(p) ==
    /\ At(p, "release") /\ Goto(p, "done")
    /\ owner' = IF owner = p THEN None ELSE owner
    /\ early' = [early EXCEPT ![p] = None]
    /\ Quiet /\ UNCHANGED <<row, messageVars, agent>>

-----------------------------------------------------------------------------
(* A worker delivers the files of a job that a turn started.                *)

\* The turns that came as far as the runtime, where jobs are started.
Began(p) == pc[p] \notin {"idle", "creating", "claiming", "preparing", "registering",
                         "refused", "starting"}

\* findOpenOrdinaryUserTurnAttempt.
FindOpenTurn(w) ==
    /\ At(w, "idle") /\ row.status = "running" /\ Began(row.post)
    /\ early' = [early EXCEPT ![w] = row.msg]
    /\ IF row.msg = None THEN NewCandidate(w) /\ Goto(w, "bind")
                         ELSE Goto(w, "attach") /\ UNCHANGED messageVars
    /\ Quiet /\ UNCHANGED <<row, owner, agent>>

BindForWorker(w) ==
    LET m == Message(w, "candidate")
    IN  /\ At(w, "bind")
        /\ row' = [row EXCEPT !.msg = Bound(m)]
        /\ early' = [early EXCEPT ![w] = Bound(m)]
        /\ Goto(w, CASE Bound(m) = None -> "done" [] Bound(m) = m -> "attach" [] OTHER -> "discard")
        /\ Quiet /\ UNCHANGED <<messageVars, owner, agent>>

Attach(w) ==
    /\ At(w, "attach") /\ Goto(w, "done")
    /\ files' = files \cup {early[w]}
    /\ early' = [early EXCEPT ![w] = None]
    /\ Quiet /\ UNCHANGED <<row, made, text, owner, agent>>

-----------------------------------------------------------------------------
(* ReconcileOrphanWebChatTurnAttemptsService.                               *)

\* mutant: accepted attempts are not looked for.
FindRunning(r) ==
    /\ At(r, "idle") /\ row.status = "running" /\ row.age = "stale"
    /\ cand' = [cand EXCEPT ![r] = [post |-> row.post, again |-> FALSE]]
    /\ Goto(r, "owner")
    /\ UNCHANGED <<pod, early, rowVars, messageVars, owner, agent, faults>>

FindCandidate(r) ==
    /\ At(r, "idle") /\ Active(row) /\ row.age = "stale"
    /\ cand' = [cand EXCEPT ![r] = [post |-> row.post, again |-> FALSE]]
    /\ Goto(r, "owner")
    /\ UNCHANGED <<pod, early, rowVars, messageVars, owner, agent, faults>>

\* The candidate is left alone.
Skip(r) == Goto(r, "idle") /\ cand' = [cand EXCEPT ![r] = Nothing]
Pass(r, next) == Goto(r, next) /\ UNCHANGED cand

\* mutant: nobody asks for the owner.
CheckNoOwner(r) == At(r, "owner") /\ Pass(r, "receipt")

\* hasActiveStream and hasActiveOwner.  The registration on the bus is one for all posts
\* of the turn: where a retry runs beside a live post, the end of the one takes it from
\* the other until its next heartbeat.
CheckOwner(r) ==
    /\ At(r, "owner")
    /\ \/ (owner # None \/ Streaming # {}) /\ Skip(r)
       \/ owner = None /\ (Streaming = {} \/ overtaken) /\ Pass(r, "receipt")

\* hasLiveAcceptedReceipt, of the user message that was read; a receipt that was
\* not touched within the grace period does not count.
CheckReceipt(r) ==
    /\ At(r, "receipt")
    /\ \/ agent # None /\ agent = cand[r].post /\ Skip(r)
       \/ Pass(r, "update")

Check(r) ==
    /\ CheckOwner(r) \/ CheckReceipt(r)
    /\ UNCHANGED <<pod, early, rowVars, messageVars, owner, agent, faults>>

\* The update looks at the id and the status of the row.
MarkOrphaned(r) ==
    /\ At(r, "update") /\ Skip(r)
    /\ row' = IF Active(row) THEN [row EXCEPT !.status = "interrupted", !.age = "fresh"] ELSE row
    /\ UNCHANGED <<pod, early, overtaken, messageVars, owner, agent, faults>>

-----------------------------------------------------------------------------
(* Time and crashes.                                                        *)

\* The anchor passes the 120 s of a claim, then the grace of the reconciler.  A
\* request reaches the runtime within that grace.
Starting == {"creating", "claiming", "preparing", "registering", "refused", "starting"}

Age ==
    /\ Active(row)
    /\ \/ row.age = "fresh" /\ row' = [row EXCEPT !.age = "aged"]
       \/ /\ row.age = "aged" /\ \A p \in Posts : pc[p] \notin Starting
          /\ row' = [row EXCEPT !.age = "stale"]
    /\ Quiet /\ UNCHANGED <<pc, early, messageVars, owner, agent>>

\* A replica dies with its requests; its runtime turn may go on for a while.
Crash(d) ==
    /\ Fault
    /\ \E p \in Live : pod[p] = d
    /\ pc' = [x \in Actors |-> IF x \in Live /\ pod[x] = d THEN "dead" ELSE pc[x]]
    /\ early' = [x \in Posts \cup Workers |-> IF x \in Live /\ pod[x] = d THEN None ELSE early[x]]
    /\ UNCHANGED <<pod, cand, rowVars, messageVars, owner, agent>>

\* The runtime settles a turn whose caller is gone.
AgentEnds ==
    /\ agent # None /\ At(agent, "dead")
    /\ agent' = None
    /\ Quiet /\ UNCHANGED <<pc, early, row, messageVars, owner>>

\* The owner record lives longer than any turn.
OwnerExpires ==
    /\ owner # None /\ At(owner, "dead")
    /\ owner' = None
    /\ Quiet /\ UNCHANGED <<pc, early, row, messageVars, agent>>

-----------------------------------------------------------------------------
Proceed(p) ==
    \/ TakeOver(p) \/ Create(p) \/ PreparationFails(p) \/ MarkRunning(p)
    \/ Register(p) \/ StartStream(p) \/ EndStream(p) \/ Settle(p) \/ AlreadySettled(p)
    \/ Bind(p) \/ Discard(p, AfterBind(p)) \/ Persist(p) \/ Complete(p) \/ Fail(p)
    \/ SavePartial(p) \/ Interrupt(p) \/ Release(p)

Deliver(w) == FindOpenTurn(w) \/ BindForWorker(w) \/ Discard(w, "attach") \/ Attach(w)

Reconcile(r) == FindCandidate(r) \/ Check(r) \/ MarkOrphaned(r)

Next ==
    \/ \E p \in Posts : Look(p) \/ Proceed(p) \/ Touch(p) \/ SignalStop(p) \/ EndIsLost(p)
    \/ \E w \in Workers : Deliver(w)
    \/ \E r \in Reconcilers : Reconcile(r)
    \/ \E d \in Pods : Crash(d)
    \/ Age \/ AgentEnds \/ OwnerExpires

Spec == Init /\ [][Next]_vars

\* A request goes on until its answer, which the deadline of a turn enforces; time
\* passes, the reconciler's timer fires, the runtime settles its turns.
Fairness ==
    /\ \A p \in Posts : WF_vars(Proceed(p)) /\ WF_vars(EndStream(p))
    /\ \A r \in Reconcilers : WF_vars(Reconcile(r))
    /\ WF_vars(Age) /\ WF_vars(AgentEnds) /\ WF_vars(OwnerExpires)

FairSpec == Spec /\ Fairness

-----------------------------------------------------------------------------
(* Properties.                                                              *)

Places == {"idle", "release", "done", "dead", "attach", "owner", "receipt", "update"}
             \cup Working

Rows == [status : {"none", "accepted", "running"} \cup Ended, post : Posts \cup {None},
         msg : Messages \cup {None}, age : {"fresh", "aged", "stale"}]

TypeOK ==
    /\ row \in Rows
    /\ pod \in [Posts -> Pods]
    /\ pc \in [Actors -> Places]
    /\ early \in [Posts \cup Workers -> Messages \cup {None}]
    /\ made \subseteq Messages /\ files \subseteq Messages
    /\ text \in [Messages -> Posts \cup {None}]
    /\ owner \in Posts \cup {None} /\ agent \in Posts \cup {None}
    /\ cand \in [Reconcilers -> [post : Posts \cup {None}, again : BOOLEAN]]
    /\ overtaken \in BOOLEAN
    /\ faults \in 0 .. MaxFaults

\* ADR-167: "once a nonterminal ordinary web attempt binds assistantMessageId, that
\* value is immutable", whichever of the posts and workers come and go.
BoundForGood == [][row.msg # None => row'.msg = row.msg]_vars

\* bindOrDiscardAssistantMessageCandidate: losers go and the winner stays, and
\* files of jobs are attached to the winner alone.
FilesInBound ==
    /\ files \subseteq {row.msg}
    /\ row.msg # None => row.msg \in made

\* completeWebTurnReplay: a replay shows the bubble of the turn, and that holds
\* the words of the turn it names, after any crash and retry, unless a retry took
\* over a turn that still ran.
ReplayIsReal ==
    row.status = "completed" /\ ~ overtaken =>
        row.msg \in made /\ text[row.msg] = row.post

\* claim, markRunning: a completed turn is not run again, with the same exception.
CompletedForGood ==
    [][row.status = "completed" /\ ~ overtaken => row'.status = "completed"]_vars

\* ReconcileOrphanWebChatTurnAttempts: an attempt that is given up has no live
\* request, unless it was claimed again after the reconciler read it or a retry took
\* over a turn that still ran.
OrphansAreOrphans ==
    [][\A r \in Reconcilers :
          At(r, "update") /\ pc'[r] = "idle" /\ row' # row /\ ~ cand[r].again /\ ~ overtaken
              => Claimers = {}]_vars

\* The turn as BubbleLedger tells it.
TurnState ==
    CASE row.status = "none" -> "none"
      [] Active(row) -> "open"
      [] row.status = "completed" -> "completed"
      [] OTHER -> "ended"

Words == IF row.msg = None THEN None ELSE text[row.msg]

Ledger ==
    INSTANCE BubbleLedger WITH
        state <- TurnState, bubble <- row.msg, words <- Words,
        filed <- files # {}, clash <- overtaken

\* claim, bindAssistantMessageId, persistAssistantMessage, markCompleted and the delivery
\* of jobs together: a turn completes with words in its one message, and what a completed
\* turn shows is never written again, whichever requests, workers and crashes come late.
KeepsBubbleLedger == Ledger!BubbleSpec

\* Whatever fails or crashes, an attempt is completed, failed or interrupted in
\* the end (ADR-149: orphan attempts do not stay running).
AttemptEnds == Active(row) ~> row.status \in Ended
=============================================================================
