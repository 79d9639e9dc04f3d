------------------------- MODULE ExecutionAdmission -------------------------
(***************************************************************************)
(* RuntimeExecutionAdmissionService: the in-process gate that decides when *)
(* an accepted turn or a job may run.  Each execution class has a queue    *)
(* and some slots of its own; the other slots are shared, and are handed   *)
(* out round robin.                                                        *)
(*                                                                         *)
(* The service runs on one event loop.  acquire and release end with       *)
(* dispatchQueuedRequests, a synchronous loop: while "dispatching" is TRUE *)
(* nothing but the loop takes a step.                                      *)
(***************************************************************************)
EXTENDS Integers, Sequences, FiniteSets

CONSTANTS
    Calls,         \* callers of runWithAdmission and runStreamWithAdmission
    ClassOf,       \* the execution class each of them asks for
    MaxConcurrent, \* policy.maxConcurrent
    Reserved,      \* policy.reservedSlots
    MaxQueue       \* policy.maxQueuePerClass

\* SHARED_EXECUTION_CLASS_ORDER.
ClassOrder == <<"interactive_light", "interactive_heavy", "background">>
Classes == {"interactive_light", "interactive_heavy", "background"}

Total(count) ==
    count["interactive_light"] + count["interactive_heavy"] + count["background"]

\* assertPolicy.
ASSUME PolicyAssumption ==
    /\ ClassOf \in [Calls -> Classes]
    /\ MaxConcurrent \in Nat \ {0}
    /\ MaxQueue \in Nat \ {0}
    /\ Reserved \in [Classes -> Nat]
    /\ Total(Reserved) <= MaxConcurrent

ASSUME CallsFinite == IsFiniteSet(Calls)

VARIABLES
    phase,       \* phase[c]: the progress of call c
    queue,       \* queuedByClass
    inFlight,    \* inFlightByClass
    cursor,      \* roundRobinCursor
    dispatching  \* dispatchQueuedRequests is running

vars == <<phase, queue, inFlight, cursor, dispatching>>

Init ==
    /\ phase = [c \in Calls |-> "idle"]
    /\ queue = [x \in Classes |-> <<>>]
    /\ inFlight = [x \in Classes |-> 0]
    /\ cursor = 0
    /\ dispatching = FALSE
-----------------------------------------------------------------------------
SharedSlotCapacity == MaxConcurrent - Total(Reserved)

InReservedSlots(x) == IF inFlight[x] < Reserved[x] THEN inFlight[x] ELSE Reserved[x]

SharedSlotsInUse == Total(inFlight) - Total([x \in Classes |-> InReservedSlots(x)])

WithQueued == {x \in Classes : queue[x] # <<>>}

ReservedCandidates == {x \in WithQueued : inFlight[x] < Reserved[x]}

\* mutant: off by one at the last shared slot.
CandidatesOneMore ==
    IF ReservedCandidates # {} THEN ReservedCandidates
    ELSE IF SharedSlotsInUse <= SharedSlotCapacity THEN WithQueued
    ELSE {}

\* selectNextDispatchClass, before the round robin: the classes it picks from.
Candidates ==
    IF ReservedCandidates # {} THEN ReservedCandidates
    ELSE IF SharedSlotsInUse < SharedSlotCapacity THEN WithQueued
    ELSE {}

Index(x) == CHOOSE i \in 0..2 : ClassOrder[i + 1] = x

\* mutant: the cursor does not wrap around.
AfterPastEnd(x) == Index(x) + 1

\* The cursor once class x was picked.
After(x) == (Index(x) + 1) % 3

\* pickRoundRobinCandidate: x is the first candidate from the cursor on.
IsNext(x) == \A y \in Candidates : (Index(x) - cursor) % 3 <= (Index(y) - cursor) % 3
-----------------------------------------------------------------------------
\* acquire, when the queue of the class is full.
Reject(c) ==
    /\ ~ dispatching /\ phase[c] = "idle"
    /\ Len(queue[ClassOf[c]]) >= MaxQueue
    /\ phase' = [phase EXCEPT ![c] = "refused"]
    /\ UNCHANGED <<queue, inFlight, cursor, dispatching>>

\* mutant: only a release dispatches.
AcquireSilently(c) ==
    /\ ~ dispatching /\ phase[c] = "idle"
    /\ Len(queue[ClassOf[c]]) < MaxQueue
    /\ phase' = [phase EXCEPT ![c] = "queued"]
    /\ queue' = [queue EXCEPT ![ClassOf[c]] = Append(@, c)]
    /\ UNCHANGED <<inFlight, cursor, dispatching>>

\* acquire: queue the request, then dispatch.
Acquire(c) ==
    /\ ~ dispatching /\ phase[c] = "idle"
    /\ Len(queue[ClassOf[c]]) < MaxQueue
    /\ phase' = [phase EXCEPT ![c] = "queued"]
    /\ queue' = [queue EXCEPT ![ClassOf[c]] = Append(@, c)]
    /\ dispatching' = TRUE
    /\ UNCHANGED <<inFlight, cursor>>

\* mutant: queue.pop() instead of queue.shift().
DispatchLast(x) ==
    /\ dispatching /\ Total(inFlight) < MaxConcurrent
    /\ x \in Candidates /\ IsNext(x)
    /\ phase' = [phase EXCEPT ![queue[x][Len(queue[x])]] = "running"]
    /\ queue' = [queue EXCEPT ![x] = SubSeq(@, 1, Len(@) - 1)]
    /\ inFlight' = [inFlight EXCEPT ![x] = @ + 1]
    /\ cursor' = After(x)
    /\ UNCHANGED dispatching

\* One round of the loop of dispatchQueuedRequests.
Dispatch(x) ==
    /\ dispatching /\ Total(inFlight) < MaxConcurrent
    /\ x \in Candidates /\ IsNext(x)
    /\ phase' = [phase EXCEPT ![Head(queue[x])] = "running"]
    /\ queue' = [queue EXCEPT ![x] = Tail(@)]
    /\ inFlight' = [inFlight EXCEPT ![x] = @ + 1]
    /\ cursor' = After(x)
    /\ UNCHANGED dispatching

\* The loop ends: no slot or no candidate is left.
EndDispatch ==
    /\ dispatching
    /\ Total(inFlight) >= MaxConcurrent \/ Candidates = {}
    /\ dispatching' = FALSE
    /\ UNCHANGED <<phase, queue, inFlight, cursor>>

\* queue.splice(i, 1)
Without(s, i) == [j \in 1..(Len(s) - 1) |-> IF j < i THEN s[j] ELSE s[j + 1]]

\* mutant: the request is rejected but left in its queue.
TimeOutInPlace(c) ==
    /\ ~ dispatching /\ phase[c] = "queued"
    /\ phase' = [phase EXCEPT ![c] = "refused"]
    /\ UNCHANGED <<queue, inFlight, cursor, dispatching>>

\* The queue timeout: removeQueuedRequest, then reject.  When the request was
\* granted first the timer finds nothing to remove.
TimeOut(c) ==
    /\ ~ dispatching
    /\ \E i \in DOMAIN queue[ClassOf[c]] :
          /\ queue[ClassOf[c]][i] = c
          /\ queue' = [queue EXCEPT ![ClassOf[c]] = Without(@, i)]
    /\ phase' = [phase EXCEPT ![c] = "refused"]
    /\ UNCHANGED <<inFlight, cursor, dispatching>>

\* mutant: release does not dispatch.
ReleaseSilently(c) ==
    /\ ~ dispatching /\ phase[c] = "running"
    /\ phase' = [phase EXCEPT ![c] = "done"]
    /\ inFlight' = [inFlight EXCEPT ![ClassOf[c]] = IF @ > 0 THEN @ - 1 ELSE @]
    /\ UNCHANGED <<queue, cursor, dispatching>>

\* mutant: work that throws keeps its slot.
ReleaseOnSuccess(c) ==
    /\ ~ dispatching /\ phase[c] = "running"
    /\ phase' = [phase EXCEPT ![c] = "done"]
    /\ inFlight' \in {inFlight, [inFlight EXCEPT ![ClassOf[c]] = IF @ > 0 THEN @ - 1 ELSE @]}
    /\ dispatching' = TRUE
    /\ UNCHANGED <<queue, cursor>>

\* The work returns or throws: release, then dispatch.
Release(c) ==
    /\ ~ dispatching /\ phase[c] = "running"
    /\ phase' = [phase EXCEPT ![c] = "done"]
    /\ inFlight' = [inFlight EXCEPT ![ClassOf[c]] = IF @ > 0 THEN @ - 1 ELSE @]
    /\ dispatching' = TRUE
    /\ UNCHANGED <<queue, cursor>>

\* The next turn or job of the same client.
ComeAgain(c) ==
    /\ ~ dispatching /\ phase[c] \in {"done", "refused"}
    /\ phase' = [phase EXCEPT ![c] = "idle"]
    /\ UNCHANGED <<queue, inFlight, cursor, dispatching>>

Loop == EndDispatch \/ \E x \in Classes : Dispatch(x)

Next ==
    \/ Loop
    \/ \E c \in Calls :
          Reject(c) \/ Acquire(c) \/ TimeOut(c) \/ Release(c) \/ ComeAgain(c)

Spec == Init /\ [][Next]_vars

\* The loop runs to its end and the work that was admitted ends: strong fairness,
\* because the event loop runs the continuation of finished work in the end,
\* however often a dispatch comes before it.  Neither a timeout nor a new call is
\* ever forced to happen.
FairSpec == Spec /\ WF_vars(Loop) /\ \A c \in Calls : SF_vars(Release(c))
-----------------------------------------------------------------------------
TypeOK ==
    /\ phase \in [Calls -> {"idle", "queued", "running", "done", "refused"}]
    /\ queue \in [Classes -> Seq(Calls)]
    /\ inFlight \in [Classes -> Nat]
    /\ cursor \in 0..2
    /\ dispatching \in BOOLEAN

Running(x) == {c \in Calls : phase[c] = "running" /\ ClassOf[c] = x}

\* No slot leaks and none is handed out twice: whatever returned, threw, timed out
\* or was refused, the counter of a class is the number of its calls at work.
SlotsMatchWork == \A x \in Classes : inFlight[x] = Cardinality(Running(x))

\* The queues hold exactly the calls that still wait, once each and in the queue of
\* their class: a call that timed out is never granted a slot.
QueuesHoldWaiting ==
    /\ \A c \in Calls : phase[c] = "queued" =>
          \E i \in DOMAIN queue[ClassOf[c]] : queue[ClassOf[c]][i] = c
    /\ \A x \in Classes : \A i \in DOMAIN queue[x] :
          /\ phase[queue[x][i]] = "queued" /\ ClassOf[queue[x][i]] = x
          /\ \A j \in DOMAIN queue[x] : queue[x][i] = queue[x][j] => i = j

\* Shared work never takes the slots kept for a class, so that together with the
\* reserved ones the limit of the process holds.
ReservedSlotsKept ==
    /\ SharedSlotsInUse <= SharedSlotCapacity
    /\ Total(inFlight) <= MaxConcurrent

\* Once the loop has ended, a call waits only when the slots of its class and every
\* shared slot are taken.
WorkConserving ==
    ~ dispatching => \A x \in Classes :
        queue[x] # <<>> => inFlight[x] >= Reserved[x] /\ SharedSlotsInUse = SharedSlotCapacity

\* Two waiting calls of one class, the first of which came first.
Before(c, d) ==
    \E i, j \in DOMAIN queue[ClassOf[c]] :
        i < j /\ queue[ClassOf[c]][i] = c /\ queue[ClassOf[c]][j] = d

\* Within a class the first to come is the first to be served: neither the loop nor the
\* removal of a call that timed out lets one start while an earlier one waits on.
FirstComeFirstServed ==
    [][\A c, d \in Calls :
        Before(c, d) => Before(c, d)' \/ phase'[c] # "queued" \/ phase'[d] = "refused"]_vars

\* Every call that waits is granted a slot in the end (or times out first), although
\* others keep coming, when each class has a slot of its own.
EveryWaiterServed == \A c \in Calls : phase[c] = "queued" ~> phase[c] # "queued"
=============================================================================
