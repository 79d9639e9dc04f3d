---------------------- MODULE ExecutionAdmissionProofs ----------------------
(***************************************************************************)
(* Proofs about ExecutionAdmission, for every policy assertPolicy admits   *)
(* and any finite set of callers.                                          *)
(***************************************************************************)
EXTENDS ExecutionAdmission, FiniteSetTheorems, SequenceTheorems, TLAPS

\* Every class has an index, and the cursor stays inside the order.
LEMMA IndexTyped ==
    ASSUME NEW x \in Classes
    PROVE  Index(x) \in 0..2 /\ After(x) \in 0..2
<1>1. \E i \in 0..2 : ClassOrder[i + 1] = x
  <2>1. ClassOrder[1] = "interactive_light" /\ ClassOrder[2] = "interactive_heavy"
        /\ ClassOrder[3] = "background"
    BY DEF ClassOrder
  <2>2. 0 \in 0..2 /\ 1 \in 0..2 /\ 2 \in 0..2 /\ 0 + 1 = 1 /\ 1 + 1 = 2 /\ 2 + 1 = 3
    OBVIOUS
  <2> QED
    BY <2>1, <2>2 DEF Classes
<1>2. Index(x) \in 0..2
  BY <1>1 DEF Index
<1> QED
  BY <1>2 DEF After

\* A sequence without one of its elements.
LEMMA WithoutTyped ==
    ASSUME NEW S, NEW s \in Seq(S), NEW i \in DOMAIN s
    PROVE  /\ Without(s, i) \in Seq(S)
           /\ Len(Without(s, i)) = Len(s) - 1
           /\ DOMAIN Without(s, i) = 1..(Len(s) - 1)
           /\ \A j \in 1..(Len(s) - 1) :
                 Without(s, i)[j] = IF j < i THEN s[j] ELSE s[j + 1]
<1>1. Len(s) \in Nat /\ DOMAIN s = 1..Len(s) /\ i \in 1..Len(s)
  OBVIOUS
<1>2. Len(s) - 1 \in Nat
  BY <1>1
<1>3. \A j \in 1..(Len(s) - 1) : (IF j < i THEN s[j] ELSE s[j + 1]) \in S
  BY <1>1
<1>4. Without(s, i) \in [1..(Len(s) - 1) -> S]
  BY <1>3 DEF Without
<1>5. Without(s, i) \in Seq(S)
  BY <1>2, <1>4, SeqDef
<1>6. Len(Without(s, i)) = Len(s) - 1 /\ DOMAIN Without(s, i) = 1..(Len(s) - 1)
  <2>1. DOMAIN Without(s, i) = 1..(Len(s) - 1)
    BY <1>4
  <2>2. DOMAIN Without(s, i) = 1..Len(Without(s, i)) /\ Len(Without(s, i)) \in Nat
    BY <1>5, LenProperties
  <2> QED
    BY <1>2, <2>1, <2>2
<1>7. \A j \in 1..(Len(s) - 1) : Without(s, i)[j] = IF j < i THEN s[j] ELSE s[j + 1]
  BY DEF Without
<1> QED
  BY <1>5, <1>6, <1>7

\* Type correctness of the gate.
THEOREM TypeCorrect == Spec => []TypeOK
<1> USE PolicyAssumption
<1>1. Init => TypeOK
  <2> SUFFICES ASSUME Init PROVE TypeOK
    OBVIOUS
  <2>1. phase \in [Calls -> {"idle", "queued", "running", "done", "refused"}]
    BY DEF Init
  <2>2. queue \in [Classes -> Seq(Calls)]
    <3> DEFINE empty == <<>>
    <3>1. empty \in Seq(Calls)
      BY EmptySeq
    <3>2. queue = [x \in Classes |-> empty]
      BY DEF Init
    <3> HIDE DEF empty
    <3> QED
      BY <3>1, <3>2
  <2>3. inFlight \in [Classes -> Nat]
    BY DEF Init
  <2>4. cursor \in 0..2
    BY DEF Init
  <2>5. dispatching \in BOOLEAN
    BY DEF Init
  <2> QED
    BY <2>1, <2>2, <2>3, <2>4, <2>5 DEF TypeOK
<1>2. TypeOK /\ [Next]_vars => TypeOK'
  <2> SUFFICES ASSUME TypeOK, [Next]_vars
               PROVE  TypeOK'
    OBVIOUS
  <2> USE DEF TypeOK
  <2>1. CASE EndDispatch
    BY <2>1 DEF EndDispatch
  <2>2. ASSUME NEW x \in Classes, Dispatch(x)
        PROVE  TypeOK'
    <3>1. queue[x] \in Seq(Calls) /\ queue[x] # <<>>
      BY <2>2 DEF Dispatch, Candidates, ReservedCandidates, WithQueued
    <3>2. Head(queue[x]) \in Calls /\ Tail(queue[x]) \in Seq(Calls)
      BY <3>1
    <3>3. After(x) \in 0..2
      BY IndexTyped
    <3>4. inFlight' \in [Classes -> Nat]
      BY <2>2 DEF Dispatch
    <3> QED
      BY <2>2, <3>2, <3>3, <3>4 DEF Dispatch
  <2>3. ASSUME NEW c \in Calls, Reject(c)
        PROVE  TypeOK'
    BY <2>3 DEF Reject
  <2>4. ASSUME NEW c \in Calls, Acquire(c)
        PROVE  TypeOK'
    <3>1. ClassOf[c] \in Classes /\ Append(queue[ClassOf[c]], c) \in Seq(Calls)
      OBVIOUS
    <3> QED
      BY <2>4, <3>1 DEF Acquire
  <2>5. ASSUME NEW c \in Calls, TimeOut(c)
        PROVE  TypeOK'
    <3>1. PICK i \in DOMAIN queue[ClassOf[c]] :
            queue' = [queue EXCEPT ![ClassOf[c]] = Without(@, i)]
      BY <2>5 DEF TimeOut
    <3>2. ClassOf[c] \in Classes /\ queue[ClassOf[c]] \in Seq(Calls)
      OBVIOUS
    <3>3. Without(queue[ClassOf[c]], i) \in Seq(Calls)
      BY <3>1, <3>2, WithoutTyped
    <3> QED
      BY <2>5, <3>1, <3>3 DEF TimeOut
  <2>6. ASSUME NEW c \in Calls, Release(c)
        PROVE  TypeOK'
    <3>1. inFlight' \in [Classes -> Nat]
      BY <2>6 DEF Release
    <3> QED
      BY <2>6, <3>1 DEF Release
  <2>7. ASSUME NEW c \in Calls, ComeAgain(c)
        PROVE  TypeOK'
    BY <2>7 DEF ComeAgain
  <2>8. CASE UNCHANGED vars
    BY <2>8 DEF vars
  <2> QED
    BY <2>1, <2>2, <2>3, <2>4, <2>5, <2>6, <2>7, <2>8 DEF Next, Loop
<1> QED
  BY <1>1, <1>2, PTL DEF Spec

-----------------------------------------------------------------------------
(* Queues and slots.                                                        *)

\* A granted call is the head of the queue of its class.
LEMMA DispatchHead ==
    ASSUME TypeOK, QueuesHoldWaiting, NEW x \in Classes, Dispatch(x)
    PROVE  /\ Head(queue[x]) \in Calls /\ Head(queue[x]) = queue[x][1]
           /\ ClassOf[Head(queue[x])] = x /\ phase[Head(queue[x])] = "queued"
           /\ Len(queue[x]) \in Nat \ {0} /\ DOMAIN queue[x] = 1..Len(queue[x])
           /\ DOMAIN Tail(queue[x]) = 1..(Len(queue[x]) - 1)
           /\ \A i \in 1..(Len(queue[x]) - 1) : Tail(queue[x])[i] = queue[x][i + 1]
<1>1. queue[x] \in Seq(Calls) /\ queue[x] # <<>>
  BY DEF TypeOK, Dispatch, Candidates, ReservedCandidates, WithQueued
<1>2. Len(queue[x]) \in Nat \ {0} /\ DOMAIN queue[x] = 1..Len(queue[x])
  BY <1>1, EmptySeq, LenProperties
<1>3. Head(queue[x]) \in Calls /\ Head(queue[x]) = queue[x][1]
  BY <1>1, <1>2
<1>4. Len(Tail(queue[x])) = Len(queue[x]) - 1 /\ Tail(queue[x]) \in Seq(Calls)
      /\ \A i \in 1..(Len(queue[x]) - 1) : Tail(queue[x])[i] = queue[x][i + 1]
  BY <1>1, HeadTailProperties
<1>5. DOMAIN Tail(queue[x]) = 1..(Len(queue[x]) - 1)
  BY <1>4, LenProperties
<1>6. 1 \in DOMAIN queue[x]
  BY <1>2
<1> QED
  BY <1>2, <1>3, <1>4, <1>5, <1>6 DEF QueuesHoldWaiting

\* The queues hold exactly the calls that wait: preserved by every step.
LEMMA QueuesHoldWaitingNext ==
    ASSUME TypeOK, QueuesHoldWaiting, [Next]_vars
    PROVE  QueuesHoldWaiting'
<1> USE PolicyAssumption
<1>0. /\ queue \in [Classes -> Seq(Calls)]
      /\ phase \in [Calls -> {"idle", "queued", "running", "done", "refused"}]
      /\ \A x \in Classes : DOMAIN queue[x] = 1..Len(queue[x]) /\ Len(queue[x]) \in Nat
      /\ \A x \in Classes : \A i \in DOMAIN queue[x] : queue[x][i] \in Calls
  BY LenProperties, ElementOfSeq DEF TypeOK
<1>1. CASE UNCHANGED <<phase, queue>>
  BY <1>1 DEF QueuesHoldWaiting
<1>2. ASSUME NEW c \in Calls, NEW s \in {"idle", "refused", "done"}, phase[c] # "queued",
             phase' = [phase EXCEPT ![c] = s], queue' = queue
      PROVE  QueuesHoldWaiting'
  BY <1>0, <1>2 DEF QueuesHoldWaiting
<1>3. ASSUME NEW x \in Classes, Dispatch(x)
      PROVE  QueuesHoldWaiting'
  <2> DEFINE h == Head(queue[x])
  <2> DEFINE n == Len(queue[x])
  <2>1. /\ h \in Calls /\ h = queue[x][1] /\ ClassOf[h] = x /\ phase[h] = "queued"
        /\ n \in Nat \ {0} /\ DOMAIN queue[x] = 1..n
        /\ phase' = [phase EXCEPT ![h] = "running"]
        /\ \A y \in Classes : y # x => queue'[y] = queue[y]
        /\ DOMAIN queue'[x] = 1..(n - 1)
        /\ \A i \in 1..(n - 1) : queue'[x][i] = queue[x][i + 1]
    <3> DEFINE t == Tail(queue[x])
    <3>1. phase' = [phase EXCEPT ![h] = "running"] /\ queue' = [queue EXCEPT ![x] = t]
      BY <1>3 DEF Dispatch
    <3>2. /\ h \in Calls /\ h = queue[x][1] /\ ClassOf[h] = x /\ phase[h] = "queued"
          /\ n \in Nat \ {0} /\ DOMAIN queue[x] = 1..n
          /\ DOMAIN t = 1..(n - 1)
          /\ \A i \in 1..(n - 1) : t[i] = queue[x][i + 1]
      BY <1>3, DispatchHead
    <3> HIDE DEF h, n, t
    <3>3. queue'[x] = t /\ \A y \in Classes : y # x => queue'[y] = queue[y]
      BY <1>0, <3>1
    <3> QED
      BY <3>1, <3>2, <3>3
  <2> HIDE DEF h, n
  <2>2. ASSUME NEW c \in Calls, phase'[c] = "queued"
        PROVE  \E i \in DOMAIN queue'[ClassOf[c]] : queue'[ClassOf[c]][i] = c
    <3>1. c # h /\ phase[c] = "queued"
      BY <1>0, <2>1, <2>2
    <3>2. PICK i \in DOMAIN queue[ClassOf[c]] : queue[ClassOf[c]][i] = c
      BY <3>1 DEF QueuesHoldWaiting
    <3>3. CASE ClassOf[c] = x
      <4>1. i \in 1..n /\ i # 1
        BY <2>1, <3>1, <3>2, <3>3
      <4>2. i - 1 \in 1..(n - 1) /\ (i - 1) + 1 = i
        BY <2>1, <4>1
      <4>3. queue'[x][i - 1] = queue[x][(i - 1) + 1]
        BY <2>1, <4>2
      <4>4. queue'[x][i - 1] = c /\ i - 1 \in DOMAIN queue'[x]
        BY ONLY <2>1, <3>2, <3>3, <4>2, <4>3
      <4> QED
        BY ONLY <3>3, <4>4
    <3>4. CASE ClassOf[c] # x
      <4>1. ClassOf[c] \in Classes
        BY DEF PolicyAssumption
      <4>2. queue'[ClassOf[c]] = queue[ClassOf[c]]
        BY ONLY <2>1, <3>4, <4>1
      <4> QED
        BY ONLY <3>2, <4>2
    <3> QED
      BY ONLY <3>3, <3>4
  <2>3. ASSUME NEW y \in Classes, NEW i \in DOMAIN queue'[y]
        PROVE  /\ phase'[queue'[y][i]] = "queued" /\ ClassOf[queue'[y][i]] = y
               /\ \A j \in DOMAIN queue'[y] : queue'[y][i] = queue'[y][j] => i = j
    <3>1. CASE y = x
      <4>1. i \in 1..(n - 1) /\ i + 1 \in 1..n /\ i + 1 # 1 /\ queue'[x][i] = queue[x][i + 1]
        <5>1. DOMAIN queue'[y] = 1..(n - 1)
          BY ONLY <2>1, <3>1
        <5>2. i \in 1..(n - 1)
          BY ONLY <2>3, <5>1
        <5>3. n \in Nat \ {0}
          BY <2>1
        <5>4. i + 1 \in 1..n /\ i + 1 # 1
          BY ONLY <5>2, <5>3, SMT
        <5> QED
          BY ONLY <2>1, <5>2, <5>4
      <4>2. queue[x][i + 1] # h /\ queue[x][i + 1] \in Calls
            /\ phase[queue[x][i + 1]] = "queued" /\ ClassOf[queue[x][i + 1]] = x
        <5>1. 1 \in DOMAIN queue[x] /\ i + 1 \in DOMAIN queue[x]
          BY ONLY <2>1, <4>1, SMT
        <5>2. phase[queue[x][i + 1]] = "queued" /\ ClassOf[queue[x][i + 1]] = x
          BY ONLY <5>1, QueuesHoldWaiting, x \in Classes DEF QueuesHoldWaiting
        <5>3. queue[x][i + 1] = queue[x][1] => i + 1 = 1
          BY ONLY <5>1, QueuesHoldWaiting, x \in Classes DEF QueuesHoldWaiting
        <5>4. queue[x][i + 1] # h
          BY ONLY <5>3, <4>1, <2>1
        <5>5. queue[x][i + 1] \in Calls
          BY ONLY <1>0, <5>1, x \in Classes
        <5> QED
          BY ONLY <5>2, <5>4, <5>5
      <4>3. ASSUME NEW j \in 1..(n - 1), queue[x][i + 1] = queue[x][j + 1]
            PROVE  i = j
        <5>1. j + 1 \in 1..n /\ i + 1 \in 1..n
          BY <2>1, <4>1
        <5>2. i + 1 = j + 1
          BY <2>1, <4>3, <5>1 DEF QueuesHoldWaiting
        <5> QED
          BY <2>1, <4>1, <5>2
      <4> QED
        BY <1>0, <2>1, <3>1, <4>1, <4>2, <4>3
    <3>2. CASE y # x
      <4>1. queue'[y] = queue[y]
        BY <2>1, <3>2
      <4>2. ClassOf[queue[y][i]] = y /\ phase[queue[y][i]] = "queued" /\ queue[y][i] \in Calls
        BY <1>0, <2>3, <4>1 DEF QueuesHoldWaiting
      <4>3. queue[y][i] # h
        BY <2>1, <3>2, <4>2
      <4> QED
        BY <1>0, <2>1, <2>3, <4>1, <4>2, <4>3 DEF QueuesHoldWaiting
    <3> QED
      BY <3>1, <3>2
  <2> QED
    BY <2>2, <2>3 DEF QueuesHoldWaiting
<1>4. ASSUME NEW c \in Calls, Acquire(c)
      PROVE  QueuesHoldWaiting'
  <2> DEFINE x == ClassOf[c]
  <2> DEFINE n == Len(queue[x])
  <2>1. x \in Classes /\ n \in Nat /\ DOMAIN queue[x] = 1..n
    BY <1>0
  <2>2. /\ phase[c] = "idle" /\ phase' = [phase EXCEPT ![c] = "queued"]
        /\ \A y \in Classes : y # x => queue'[y] = queue[y]
        /\ DOMAIN queue'[x] = 1..(n + 1)
        /\ queue'[x][n + 1] = c
        /\ \A i \in 1..n : queue'[x][i] = queue[x][i]
    <3> DEFINE q == Append(queue[x], c)
    <3>1. /\ phase[c] = "idle" /\ phase' = [phase EXCEPT ![c] = "queued"]
          /\ queue' = [queue EXCEPT ![x] = q]
      BY <1>4 DEF Acquire
    <3>2. q \in Seq(Calls) /\ Len(q) = n + 1 /\ q[n + 1] = c /\ \A i \in 1..n : q[i] = queue[x][i]
      BY <1>0, <2>1, AppendProperties
    <3>3. DOMAIN q = 1..(n + 1)
      BY <3>2, LenProperties
    <3> HIDE DEF q, n
    <3> QED
      BY <1>0, <2>1, <3>1, <3>2, <3>3
  <2> HIDE DEF x, n
  <2>3. ASSUME NEW y \in Classes, NEW i \in DOMAIN queue[y]
        PROVE  queue[y][i] # c /\ queue[y][i] \in Calls
    BY <1>0, <2>2 DEF QueuesHoldWaiting
  <2>4. \A d \in Calls : phase'[d] = IF d = c THEN "queued" ELSE phase[d]
    BY <1>0, <2>2
  <2>5. ASSUME NEW d \in Calls, phase'[d] = "queued"
        PROVE  \E i \in DOMAIN queue'[ClassOf[d]] : queue'[ClassOf[d]][i] = d
    <3>1. CASE d = c
      <4>1. n + 1 \in DOMAIN queue'[x] /\ queue'[x][n + 1] = c
        BY <2>1, <2>2
      <4> QED
        BY <3>1, <4>1 DEF x
    <3>2. CASE d # c
      <4>1. PICK i \in DOMAIN queue[ClassOf[d]] : queue[ClassOf[d]][i] = d
        BY <2>4, <2>5, <3>2 DEF QueuesHoldWaiting
      <4>2. CASE ClassOf[d] = x
        <5>1. i \in 1..n /\ i \in 1..(n + 1)
          BY <2>1, <4>1, <4>2
        <5> QED
          BY <2>2, <4>1, <4>2, <5>1
      <4> QED
        BY <2>2, <4>1, <4>2
    <3> QED
      BY <3>1, <3>2
  <2>6. ASSUME NEW y \in Classes, NEW i \in DOMAIN queue'[y]
        PROVE  /\ phase'[queue'[y][i]] = "queued" /\ ClassOf[queue'[y][i]] = y
               /\ \A j \in DOMAIN queue'[y] : queue'[y][i] = queue'[y][j] => i = j
    <3>1. CASE y = x
      <4>1. \A k \in 1..(n + 1) : k \in DOMAIN queue[x] \/ k = n + 1
        BY <2>1
      <4>2. \A k \in DOMAIN queue[x] :
              queue'[x][k] = queue[x][k] /\ queue'[x][k] # c /\ queue'[x][k] \in Calls
        BY <2>1, <2>2, <2>3
      <4>3. phase'[queue'[x][i]] = "queued" /\ ClassOf[queue'[x][i]] = x
        BY <2>1, <2>2, <2>4, <2>6, <3>1, <4>1, <4>2 DEF QueuesHoldWaiting, x
      <4>4. ASSUME NEW j \in 1..(n + 1), queue'[x][i] = queue'[x][j]
            PROVE  i = j
        <5>1. i \in 1..(n + 1)
          BY <2>2, <2>6, <3>1
        <5>2. CASE i = n + 1 \/ j = n + 1
          BY <2>2, <4>1, <4>2, <4>4, <5>1, <5>2
        <5>3. CASE i \in DOMAIN queue[x] /\ j \in DOMAIN queue[x]
          <6>1. queue[x][i] = queue[x][j]
            BY <4>2, <4>4, <5>3
          <6> QED
            BY <2>1, <5>3, <6>1 DEF QueuesHoldWaiting
        <5> QED
          BY <4>1, <5>1, <5>2, <5>3
      <4> QED
        BY <2>2, <3>1, <4>3, <4>4
    <3>2. CASE y # x
      BY <2>2, <2>3, <2>4, <2>6, <3>2 DEF QueuesHoldWaiting
    <3> QED
      BY <3>1, <3>2
  <2> QED
    BY <2>5, <2>6 DEF QueuesHoldWaiting
<1>5. ASSUME NEW c \in Calls, TimeOut(c)
      PROVE  QueuesHoldWaiting'
  <2> DEFINE x == ClassOf[c]
  <2> DEFINE n == Len(queue[x])
  <2>1. x \in Classes /\ n \in Nat /\ DOMAIN queue[x] = 1..n
    BY <1>0
  <2>2. PICK p \in 1..n : queue[x][p] = c /\ queue' = [queue EXCEPT ![x] = Without(@, p)]
    BY <1>5, <2>1 DEF TimeOut
  <2>3. /\ phase' = [phase EXCEPT ![c] = "refused"]
        /\ \A y \in Classes : y # x => queue'[y] = queue[y]
        /\ DOMAIN queue'[x] = 1..(n - 1)
        /\ \A i \in 1..(n - 1) : queue'[x][i] = queue[x][IF i < p THEN i ELSE i + 1]
    <3> DEFINE q == Without(queue[x], p)
    <3>1. phase' = [phase EXCEPT ![c] = "refused"] /\ queue' = [queue EXCEPT ![x] = q]
      BY <1>5, <2>2 DEF TimeOut
    <3>2. DOMAIN q = 1..(n - 1)
          /\ \A i \in 1..(n - 1) : q[i] = IF i < p THEN queue[x][i] ELSE queue[x][i + 1]
      <4>1. queue[x] \in Seq(Calls) /\ p \in DOMAIN queue[x]
        BY <1>0, <2>1, <2>2
      <4> QED
        BY <4>1, WithoutTyped
    <3> HIDE DEF q, n
    <3> QED
      BY <1>0, <2>1, <3>1, <3>2
  <2> HIDE DEF x, n
  <2> DEFINE up(i) == IF i < p THEN i ELSE i + 1
  <2>4. /\ \A i \in 1..(n - 1) : up(i) \in 1..n /\ up(i) # p
        /\ \A i, j \in 1..(n - 1) : up(i) = up(j) => i = j
        /\ \A k \in 1..n : k # p => \E i \in 1..(n - 1) : up(i) = k
    <3>1. n \in Nat /\ p \in 1..n
      BY <2>1
    <3>2. ASSUME NEW k \in 1..n, k # p
          PROVE  \E i \in 1..(n - 1) : up(i) = k
      <4>1. CASE k < p
        BY <3>1, <3>2, <4>1
      <4>2. CASE k > p
        <5>1. k - 1 \in 1..(n - 1) /\ up(k - 1) = k
          BY <3>1, <3>2, <4>2
        <5> QED
          BY <5>1
      <4> QED
        BY <3>1, <3>2, <4>1, <4>2
    <3> QED
      BY <3>1, <3>2
  <2>5. \A i \in 1..(n - 1) : queue'[x][i] = queue[x][up(i)]
    BY <2>3
  <2>6. \A d \in Calls : phase'[d] = IF d = c THEN "refused" ELSE phase[d]
    BY <1>0, <2>3
  <2> HIDE DEF up
  <2>7. ASSUME NEW d \in Calls, phase'[d] = "queued"
        PROVE  \E i \in DOMAIN queue'[ClassOf[d]] : queue'[ClassOf[d]][i] = d
    <3>1. d # c /\ phase[d] = "queued"
      BY <2>6, <2>7
    <3>2. PICK k \in DOMAIN queue[ClassOf[d]] : queue[ClassOf[d]][k] = d
      BY <3>1 DEF QueuesHoldWaiting
    <3>3. CASE ClassOf[d] = x
      <4>1. k \in 1..n /\ k # p
        BY <2>1, <2>2, <3>1, <3>2, <3>3
      <4>2. PICK i \in 1..(n - 1) : up(i) = k
        BY <2>4, <4>1
      <4> QED
        BY <2>3, <2>5, <3>2, <3>3, <4>2
    <3> QED
      BY <2>3, <3>2, <3>3
  <2>8. ASSUME NEW y \in Classes, NEW i \in DOMAIN queue'[y]
        PROVE  /\ phase'[queue'[y][i]] = "queued" /\ ClassOf[queue'[y][i]] = y
               /\ \A j \in DOMAIN queue'[y] : queue'[y][i] = queue'[y][j] => i = j
    <3>1. CASE y = x
      <4>1. i \in 1..(n - 1) /\ up(i) \in DOMAIN queue[x] /\ up(i) # p
        BY <2>1, <2>3, <2>4, <2>8, <3>1
      <4>2. queue[x][up(i)] # c /\ queue[x][up(i)] \in Calls
        BY <1>0, <2>1, <2>2, <4>1 DEF QueuesHoldWaiting
      <4>3. phase'[queue'[x][i]] = "queued" /\ ClassOf[queue'[x][i]] = x
        BY <2>1, <2>5, <2>6, <4>1, <4>2 DEF QueuesHoldWaiting
      <4>4. ASSUME NEW j \in 1..(n - 1), queue'[x][i] = queue'[x][j]
            PROVE  i = j
        <5>1. up(j) \in DOMAIN queue[x] /\ queue[x][up(i)] = queue[x][up(j)]
          BY <2>1, <2>4, <2>5, <4>1, <4>4
        <5>2. up(i) = up(j)
          BY <2>1, <4>1, <5>1 DEF QueuesHoldWaiting
        <5> QED
          BY <2>4, <4>1, <5>2
      <4> QED
        BY <2>3, <3>1, <4>3, <4>4
    <3>2. CASE y # x
      <4>1. queue'[y] = queue[y] /\ queue[y][i] \in Calls /\ ClassOf[queue[y][i]] = y
        BY <1>0, <2>3, <2>8, <3>2 DEF QueuesHoldWaiting
      <4>2. queue[y][i] # c
        BY <3>2, <4>1 DEF x
      <4> QED
        BY <2>6, <2>8, <4>1, <4>2 DEF QueuesHoldWaiting
    <3> QED
      BY <3>1, <3>2
  <2> QED
    BY <2>7, <2>8 DEF QueuesHoldWaiting
<1>6. CASE \E c \in Calls : Reject(c) \/ Release(c) \/ ComeAgain(c)
  <2>1. PICK c \in Calls : Reject(c) \/ Release(c) \/ ComeAgain(c)
    BY <1>6
  <2>2. /\ phase[c] # "queued" /\ queue' = queue
        /\ \E s \in {"idle", "done", "refused"} : phase' = [phase EXCEPT ![c] = s]
    BY <2>1 DEF Reject, Release, ComeAgain
  <2> QED
    BY <1>2, <2>2
<1>7. CASE EndDispatch \/ UNCHANGED vars
  BY <1>1, <1>7 DEF EndDispatch, vars
<1> QED
  BY <1>3, <1>4, <1>5, <1>6, <1>7 DEF Next, Loop

\* The queues hold exactly the calls that wait.
THEOREM QueuesInvariant == Spec => []QueuesHoldWaiting
<1>1. Init => QueuesHoldWaiting
  <2> SUFFICES ASSUME Init PROVE QueuesHoldWaiting
    OBVIOUS
  <2>1. ASSUME NEW c \in Calls PROVE phase[c] # "queued"
    BY DEF Init
  <2>2. ASSUME NEW x \in Classes PROVE DOMAIN queue[x] = {}
    <3>1. queue[x] = <<>>
      BY DEF Init
    <3> QED
      BY <3>1, EmptySeq
  <2> QED
    BY <2>1, <2>2 DEF QueuesHoldWaiting
<1>2. TypeOK /\ QueuesHoldWaiting /\ [Next]_vars => QueuesHoldWaiting'
  BY QueuesHoldWaitingNext
<1> QED
  BY <1>1, <1>2, TypeCorrect, PTL DEF Spec

-----------------------------------------------------------------------------
(* The slots of the process.  f counts the work of each class: Held(f, x)    *)
(* of it is in the slots reserved for x, Excess(f, x) of it in shared ones.  *)

Held(f, x) == IF f[x] < Reserved[x] THEN f[x] ELSE Reserved[x]
Excess(f, x) == IF f[x] < Reserved[x] THEN 0 ELSE f[x] - Reserved[x]
Shared(f) == Excess(f, "interactive_light") + Excess(f, "interactive_heavy")
               + Excess(f, "background")

LEMMA ClassNames ==
    /\ "interactive_light" \in Classes /\ "interactive_heavy" \in Classes
    /\ "background" \in Classes
    /\ \A x \in Classes :
          x = "interactive_light" \/ x = "interactive_heavy" \/ x = "background"
BY DEF Classes

\* The shared slots in use are the sum of what each class holds beyond its own.
LEMMA SharedSum ==
    ASSUME NEW f \in [Classes -> Nat]
    PROVE  /\ Total(f) - Total([x \in Classes |-> Held(f, x)]) = Shared(f)
           /\ \A x \in Classes : f[x] \in Nat /\ Excess(f, x) \in Nat
           /\ Total(f) \in Nat /\ Shared(f) \in Nat
           /\ Total(f) <= Shared(f) + Total(Reserved)
           /\ (Total(f) = Shared(f) + Total(Reserved)
                => \A x \in Classes : f[x] >= Reserved[x])
<1>1. \A x \in Classes : f[x] \in Nat /\ Reserved[x] \in Nat
  BY PolicyAssumption
<1>2. \A x \in Classes : /\ Held(f, x) \in Nat /\ Excess(f, x) \in Nat
                         /\ f[x] = Held(f, x) + Excess(f, x)
                         /\ Held(f, x) <= Reserved[x]
                         /\ (Held(f, x) = Reserved[x] => f[x] >= Reserved[x])
  BY <1>1 DEF Held, Excess
<1>3. Total([x \in Classes |-> Held(f, x)]) =
        Held(f, "interactive_light") + Held(f, "interactive_heavy") + Held(f, "background")
  BY ClassNames DEF Total
<1>4. /\ Total(f) - Total([x \in Classes |-> Held(f, x)]) = Shared(f)
      /\ Total(f) \in Nat /\ Shared(f) \in Nat
      /\ Total(f) <= Shared(f) + Total(Reserved)
  BY <1>1, <1>2, <1>3, ClassNames DEF Total, Shared
<1>5. ASSUME Total(f) = Shared(f) + Total(Reserved), NEW x \in Classes
      PROVE  f[x] >= Reserved[x]
  <2>1. Held(f, x) = Reserved[x]
    BY <1>1, <1>2, <1>5, ClassNames DEF Total, Shared
  <2> QED
    BY <1>2, <2>1
<1> QED
  BY <1>1, <1>2, <1>4, <1>5

\* What one class takes or gives back leaves what the others hold alone.
LEMMA SharedChange ==
    ASSUME NEW f \in [Classes -> Nat], NEW g \in [Classes -> Nat], NEW x \in Classes,
           \A y \in Classes : y # x => g[y] = f[y]
    PROVE  /\ Shared(g) - Shared(f) = Excess(g, x) - Excess(f, x)
           /\ Total(g) - Total(f) = g[x] - f[x]
<1>1. \A y \in Classes : /\ f[y] \in Nat /\ g[y] \in Nat
                         /\ Excess(f, y) \in Nat /\ Excess(g, y) \in Nat
  BY SharedSum
<1>2. \A y \in Classes : y # x => Excess(g, y) = Excess(f, y)
  BY DEF Excess
<1> QED
  BY <1>1, <1>2, ClassNames DEF Total, Shared

LEMMA SharedSlots ==
    ASSUME inFlight \in [Classes -> Nat]
    PROVE  SharedSlotsInUse = Shared(inFlight)
<1>1. [x \in Classes |-> InReservedSlots(x)] = [x \in Classes |-> Held(inFlight, x)]
  BY DEF InReservedSlots, Held
<1> QED
  BY <1>1, SharedSum DEF SharedSlotsInUse

LEMMA SharedSlotsNext ==
    ASSUME inFlight' \in [Classes -> Nat]
    PROVE  SharedSlotsInUse' = Shared(inFlight')
<1>1. [x \in Classes |-> InReservedSlots(x)'] = [x \in Classes |-> Held(inFlight', x)]
  BY DEF InReservedSlots, Held
<1>2. SharedSlotsInUse' = Total(inFlight') - Total([x \in Classes |-> InReservedSlots(x)'])
  BY DEF SharedSlotsInUse, Total
<1> QED
  BY <1>1, <1>2, SharedSum

\* How a step changes the slots in use: a dispatch takes one the policy allows, a
\* release gives one back, and nothing else touches them.
LEMMA SlotStep ==
    ASSUME TypeOK, [Next]_vars
    PROVE  \/ inFlight' = inFlight
           \/ \E x \in Classes :
                /\ Dispatch(x) /\ Total(inFlight) < MaxConcurrent
                /\ inFlight' = [inFlight EXCEPT ![x] = @ + 1]
                /\ inFlight[x] < Reserved[x] \/ SharedSlotsInUse < SharedSlotCapacity
           \/ \E c \in Calls :
                /\ Release(c) /\ dispatching'
                /\ inFlight' = [inFlight EXCEPT ![ClassOf[c]] = IF @ > 0 THEN @ - 1 ELSE @]
<1>1. ASSUME NEW x \in Classes, Dispatch(x)
      PROVE  inFlight[x] < Reserved[x] \/ SharedSlotsInUse < SharedSlotCapacity
  BY <1>1 DEF Dispatch, Candidates, ReservedCandidates
<1>2. CASE Loop
  BY <1>1, <1>2 DEF Loop, EndDispatch, Dispatch
<1>3. ASSUME NEW c \in Calls, Reject(c) \/ Acquire(c) \/ TimeOut(c) \/ Release(c) \/ ComeAgain(c)
      PROVE  inFlight' = inFlight \/ ( /\ Release(c) /\ dispatching'
                /\ inFlight' = [inFlight EXCEPT ![ClassOf[c]] = IF @ > 0 THEN @ - 1 ELSE @])
  BY <1>3 DEF Reject, Acquire, TimeOut, Release, ComeAgain
<1>4. CASE UNCHANGED vars
  BY <1>4 DEF vars
<1> QED
  BY <1>2, <1>3, <1>4 DEF Next

\* Preserved by every step: shared work leaves the reserved slots alone.
LEMMA ReservedSlotsKeptNext ==
    ASSUME TypeOK, TypeOK', ReservedSlotsKept, [Next]_vars
    PROVE  ReservedSlotsKept'
<1> DEFINE f == inFlight
<1> DEFINE g == inFlight'
<1>1. f \in [Classes -> Nat] /\ g \in [Classes -> Nat]
  BY DEF TypeOK
<1>2. /\ SharedSlotsInUse = Shared(f) /\ SharedSlotsInUse' = Shared(g)
      /\ SharedSlotCapacity' = SharedSlotCapacity /\ Total(inFlight)' = Total(g)
  BY <1>1, SharedSlots, SharedSlotsNext DEF SharedSlotCapacity, Total
<1>3. MaxConcurrent \in Nat /\ Total(Reserved) \in Nat /\ \A x \in Classes : Reserved[x] \in Nat
  BY PolicyAssumption, ClassNames DEF Total
<1>4. /\ \A x \in Classes : f[x] \in Nat /\ g[x] \in Nat
      /\ Total(f) \in Nat /\ Total(g) \in Nat /\ Shared(f) \in Nat /\ Shared(g) \in Nat
  BY <1>1, SharedSum
<1>5. Shared(f) <= SharedSlotCapacity /\ Total(f) <= MaxConcurrent
  BY <1>2 DEF ReservedSlotsKept
<1>6. CASE g = f
  BY <1>2, <1>5, <1>6 DEF ReservedSlotsKept
<1>7. ASSUME NEW x \in Classes, Total(f) < MaxConcurrent, g = [f EXCEPT ![x] = @ + 1],
             f[x] < Reserved[x] \/ Shared(f) < SharedSlotCapacity
      PROVE  ReservedSlotsKept'
  <2>1. g[x] = f[x] + 1 /\ \A y \in Classes : y # x => g[y] = f[y]
    BY <1>1, <1>7
  <2>2. Shared(g) - Shared(f) = Excess(g, x) - Excess(f, x) /\ Total(g) - Total(f) = 1
    BY <1>1, <1>4, <2>1, SharedChange
  <2>3. \/ f[x] < Reserved[x] /\ Excess(g, x) = 0 /\ Excess(f, x) = 0
        \/ Shared(f) < SharedSlotCapacity /\ Excess(g, x) - Excess(f, x) \in {0, 1}
    BY <1>3, <1>4, <1>7, <2>1 DEF Excess
  <2>4. Shared(g) <= SharedSlotCapacity /\ Total(g) <= MaxConcurrent
    BY <1>3, <1>4, <1>5, <1>7, <2>2, <2>3 DEF SharedSlotCapacity
  <2> QED
    BY <1>2, <2>4 DEF ReservedSlotsKept
<1>8. ASSUME NEW x \in Classes, g = [f EXCEPT ![x] = IF @ > 0 THEN @ - 1 ELSE @]
      PROVE  ReservedSlotsKept'
  <2>1. g[x] <= f[x] /\ \A y \in Classes : y # x => g[y] = f[y]
    BY <1>1, <1>4, <1>8
  <2>2. /\ Shared(g) - Shared(f) = Excess(g, x) - Excess(f, x)
        /\ Total(g) - Total(f) = g[x] - f[x]
    BY <1>1, <2>1, SharedChange
  <2>3. Excess(g, x) <= Excess(f, x) /\ Excess(g, x) \in Nat /\ Excess(f, x) \in Nat
    BY <1>3, <1>4, <2>1 DEF Excess
  <2>4. Shared(g) <= SharedSlotCapacity /\ Total(g) <= MaxConcurrent
    BY <1>3, <1>4, <1>5, <2>1, <2>2, <2>3 DEF SharedSlotCapacity
  <2> QED
    BY <1>2, <2>4 DEF ReservedSlotsKept
<1> HIDE DEF f, g
<1>9. \A c \in Calls : ClassOf[c] \in Classes
  BY PolicyAssumption
<1> QED
  BY <1>2, <1>6, <1>7, <1>8, <1>9, SlotStep DEF f, g

\* The reserved slots of a class are never given to others, and the process never
\* does more work at once than the policy allows.
THEOREM ReservedSlots == Spec => []ReservedSlotsKept
<1>1. Init => ReservedSlotsKept
  <2> SUFFICES ASSUME Init PROVE ReservedSlotsKept
    OBVIOUS
  <2>1. inFlight \in [Classes -> Nat] /\ \A x \in Classes : inFlight[x] = 0
    BY DEF Init
  <2>2. MaxConcurrent \in Nat /\ Total(Reserved) \in Nat /\ Total(Reserved) <= MaxConcurrent
        /\ \A x \in Classes : Reserved[x] \in Nat
    BY PolicyAssumption, ClassNames DEF Total
  <2>3. Total(inFlight) = 0 /\ Shared(inFlight) = 0
    BY <2>1, <2>2, ClassNames DEF Total, Shared, Excess
  <2> QED
    BY <2>1, <2>2, <2>3, SharedSlots DEF ReservedSlotsKept, SharedSlotCapacity
<1>2. TypeOK /\ TypeOK' /\ ReservedSlotsKept /\ [Next]_vars => ReservedSlotsKept'
  BY ReservedSlotsKeptNext
<1> QED
  BY <1>1, <1>2, TypeCorrect, PTL DEF Spec

\* When the loop ends, nobody waits for a slot he could have.
LEMMA LoopEndsConserving ==
    ASSUME TypeOK, ReservedSlotsKept, EndDispatch, NEW x \in Classes, queue[x] # <<>>
    PROVE  inFlight[x] >= Reserved[x] /\ SharedSlotsInUse = SharedSlotCapacity
<1>1. /\ inFlight[x] \in Nat /\ Reserved[x] \in Nat /\ SharedSlotsInUse = Shared(inFlight)
      /\ Total(inFlight) \in Nat /\ Shared(inFlight) \in Nat
      /\ Total(inFlight) <= Shared(inFlight) + Total(Reserved)
      /\ (Total(inFlight) = Shared(inFlight) + Total(Reserved) => inFlight[x] >= Reserved[x])
  BY SharedSum, SharedSlots, PolicyAssumption DEF TypeOK
<1>2. MaxConcurrent \in Nat /\ Total(Reserved) \in Nat
  BY PolicyAssumption, ClassNames DEF Total
<1>3. Shared(inFlight) <= MaxConcurrent - Total(Reserved) /\ Total(inFlight) <= MaxConcurrent
  BY <1>1 DEF ReservedSlotsKept, SharedSlotCapacity
<1>4. CASE Total(inFlight) >= MaxConcurrent
  BY <1>1, <1>2, <1>3, <1>4 DEF SharedSlotCapacity
<1>5. CASE Candidates = {}
  <2>1. x \in WithQueued
    BY DEF WithQueued
  <2>2. x \notin ReservedCandidates /\ ~ (SharedSlotsInUse < SharedSlotCapacity)
    BY <1>5, <2>1 DEF Candidates
  <2>3. inFlight[x] >= Reserved[x]
    BY <1>1, <2>1, <2>2 DEF ReservedCandidates
  <2> QED
    BY <1>1, <1>2, <1>3, <2>2, <2>3 DEF SharedSlotCapacity
<1> QED
  BY <1>4, <1>5 DEF EndDispatch

\* A timeout only shortens a queue.
LEMMA TimeOutShortens ==
    ASSUME TypeOK, NEW c \in Calls, TimeOut(c), NEW x \in Classes, queue'[x] # <<>>
    PROVE  queue[x] # <<>>
<1>1. PICK i \in DOMAIN queue[ClassOf[c]] :
        queue' = [queue EXCEPT ![ClassOf[c]] = Without(@, i)]
  BY DEF TimeOut
<1>2. CASE x = ClassOf[c]
  BY <1>1, <1>2, EmptySeq
<1>3. CASE x # ClassOf[c]
  BY <1>1, <1>3 DEF TypeOK
<1> QED
  BY <1>2, <1>3

\* Outside the loop a call waits only when the slots of its class and every shared
\* slot are taken: no release, timeout or arrival leaves a usable slot empty.
THEOREM NoIdleSlot == Spec => []WorkConserving
<1>1. Init => WorkConserving
  BY DEF Init, WorkConserving
<1>2. TypeOK /\ ReservedSlotsKept /\ WorkConserving /\ [Next]_vars => WorkConserving'
  <2> SUFFICES ASSUME TypeOK, ReservedSlotsKept, WorkConserving, [Next]_vars, ~ dispatching',
                      NEW x \in Classes, queue'[x] # <<>>
               PROVE  inFlight'[x] >= Reserved[x] /\ SharedSlotsInUse' = SharedSlotCapacity'
    BY DEF WorkConserving
  <2>1. CASE EndDispatch
    <3>1. queue' = queue /\ inFlight' = inFlight
      BY <2>1 DEF EndDispatch
    <3> QED
      BY <2>1, <3>1, LoopEndsConserving
         DEF SharedSlotsInUse, InReservedSlots, SharedSlotCapacity
  <2>2. ASSUME ~ dispatching, inFlight' = inFlight, queue[x] # <<>>
        PROVE  inFlight'[x] >= Reserved[x] /\ SharedSlotsInUse' = SharedSlotCapacity'
    BY <2>2 DEF WorkConserving, SharedSlotsInUse, InReservedSlots, SharedSlotCapacity
  <2>3. ASSUME NEW c \in Calls, Reject(c) \/ ComeAgain(c)
        PROVE  ~ dispatching /\ inFlight' = inFlight /\ queue[x] # <<>>
    BY <2>3 DEF Reject, ComeAgain
  <2>4. ASSUME NEW c \in Calls, TimeOut(c)
        PROVE  ~ dispatching /\ inFlight' = inFlight /\ queue[x] # <<>>
    <3>1. queue[x] # <<>>
      BY <2>4, TimeOutShortens
    <3> QED
      BY <2>4, <3>1 DEF TimeOut
  <2>5. CASE UNCHANGED vars
    BY <2>2, <2>5 DEF vars
  <2>6. ASSUME NEW c \in Calls, Acquire(c) \/ Release(c)
        PROVE  dispatching'
    BY <2>6 DEF Acquire, Release
  <2>7. ASSUME NEW y \in Classes, Dispatch(y)
        PROVE  dispatching'
    BY <2>7 DEF Dispatch
  <2> QED
    BY <2>1, <2>2, <2>3, <2>4, <2>5, <2>6, <2>7 DEF Next, Loop
<1> QED
  BY <1>1, <1>2, TypeCorrect, ReservedSlots, PTL DEF Spec

-----------------------------------------------------------------------------
(* Counters and the work they count.                                        *)

LEMMA RunningFinite ==
    ASSUME NEW x \in Classes
    PROVE  IsFiniteSet(Running(x)) /\ Cardinality(Running(x)) \in Nat
<1>1. Running(x) \subseteq Calls
  BY DEF Running
<1> QED
  BY <1>1, CallsFinite, FS_Subset, FS_CardinalityType

\* The work of a class after one call changed its phase.
LEMMA RunningChange ==
    ASSUME TypeOK, NEW c \in Calls, NEW s, phase' = [phase EXCEPT ![c] = s],
           NEW x \in Classes
    PROVE  Running(x)' = IF x # ClassOf[c] THEN Running(x)
                         ELSE IF s = "running" THEN Running(x) \cup {c}
                         ELSE Running(x) \ {c}
<1>1. \A d \in Calls : phase'[d] = IF d = c THEN s ELSE phase[d]
  BY DEF TypeOK
<1> QED
  BY <1>1 DEF Running

\* Whatever returned, threw, timed out or was refused, each counter is the number of
\* calls of its class at work: no slot leaks and none is granted twice.
THEOREM SlotsExact == Spec => []SlotsMatchWork
<1>1. Init => SlotsMatchWork
  <2> SUFFICES ASSUME Init, NEW x \in Classes PROVE inFlight[x] = Cardinality(Running(x))
    BY DEF SlotsMatchWork
  <2>1. Running(x) = {}
    BY DEF Init, Running
  <2>2. inFlight[x] = 0
    BY DEF Init
  <2> QED
    BY <2>1, <2>2, FS_EmptySet
<1>2. TypeOK /\ QueuesHoldWaiting /\ SlotsMatchWork /\ [Next]_vars => SlotsMatchWork'
  <2> SUFFICES ASSUME TypeOK, QueuesHoldWaiting, SlotsMatchWork, [Next]_vars,
                      NEW x \in Classes
               PROVE  inFlight'[x] = Cardinality(Running(x)')
    BY DEF SlotsMatchWork
  <2>0. /\ inFlight[x] = Cardinality(Running(x)) /\ inFlight[x] \in Nat
        /\ IsFiniteSet(Running(x)) /\ inFlight \in [Classes -> Nat]
    BY RunningFinite DEF SlotsMatchWork, TypeOK
  <2>1. ASSUME phase' = phase, inFlight' = inFlight
        PROVE  inFlight'[x] = Cardinality(Running(x)')
    <3>1. Running(x)' = Running(x)
      BY <2>1 DEF Running
    <3> QED
      BY <2>0, <2>1, <3>1
  <2>2. ASSUME NEW c \in Calls, NEW s, s # "running", phase[c] # "running",
               phase' = [phase EXCEPT ![c] = s], inFlight' = inFlight
        PROVE  inFlight'[x] = Cardinality(Running(x)')
    <3>1. Running(x)' = Running(x)
      BY <2>2, RunningChange DEF Running
    <3> QED
      BY <2>0, <2>2, <3>1
  <2>3. ASSUME NEW y \in Classes, Dispatch(y)
        PROVE  inFlight'[x] = Cardinality(Running(x)')
    <3> DEFINE h == Head(queue[y])
    <3>1. h \in Calls /\ ClassOf[h] = y /\ phase[h] = "queued"
      BY <2>3, DispatchHead
    <3>2. phase' = [phase EXCEPT ![h] = "running"] /\ inFlight' = [inFlight EXCEPT ![y] = @ + 1]
      BY <2>3 DEF Dispatch
    <3> HIDE DEF h
    <3>3. Running(x)' = IF x # y THEN Running(x) ELSE Running(x) \cup {h}
      BY <3>1, <3>2, RunningChange
    <3>4. h \notin Running(x)
      BY <3>1 DEF Running
    <3>5. Cardinality(Running(x) \cup {h}) = Cardinality(Running(x)) + 1
      BY <2>0, <3>4, FS_AddElement
    <3> QED
      BY <2>0, <3>2, <3>3, <3>5
  <2>4. ASSUME NEW c \in Calls, Release(c)
        PROVE  inFlight'[x] = Cardinality(Running(x)')
    <3>1. /\ phase[c] = "running" /\ phase' = [phase EXCEPT ![c] = "done"]
          /\ inFlight' = [inFlight EXCEPT ![ClassOf[c]] = IF @ > 0 THEN @ - 1 ELSE @]
      BY <2>4 DEF Release
    <3>2. Running(x)' = IF x # ClassOf[c] THEN Running(x) ELSE Running(x) \ {c}
      <4>1. PICK s \in {"done"} : phase' = [phase EXCEPT ![c] = s]
        BY <3>1
      <4>2. s # "running"
        OBVIOUS
      <4> QED
        BY <4>1, <4>2, RunningChange
    <3>3. CASE x = ClassOf[c]
      <4>1. c \in Running(x)
        BY <3>1, <3>3 DEF Running
      <4>2. Cardinality(Running(x) \ {c}) = Cardinality(Running(x)) - 1
        BY <2>0, <4>1, FS_RemoveElement
      <4>3. Cardinality(Running(x) \ {c}) \in Nat
        <5>1. IsFiniteSet(Running(x) \ {c})
          BY <2>0, FS_RemoveElement
        <5> QED
          BY <5>1, FS_CardinalityType
      <4>4. inFlight[x] - 1 \in Nat
        BY <2>0, <4>2, <4>3
      <4>5. inFlight'[x] = inFlight[x] - 1
        BY <2>0, <3>1, <3>3, <4>4
      <4> QED
        BY <2>0, <3>2, <3>3, <4>2, <4>5
    <3>4. CASE x # ClassOf[c]
      BY <2>0, <3>1, <3>2, <3>4
    <3> QED
      BY <3>3, <3>4
  <2>5. ASSUME NEW c \in Calls, Reject(c) \/ Acquire(c) \/ TimeOut(c) \/ ComeAgain(c)
        PROVE  inFlight'[x] = Cardinality(Running(x)')
    <3>1. TimeOut(c) => phase[c] = "queued"
      BY PolicyAssumption DEF TimeOut, QueuesHoldWaiting, TypeOK
    <3>2. /\ phase[c] # "running" /\ inFlight' = inFlight
          /\ \E s \in {"refused", "queued", "idle"} : phase' = [phase EXCEPT ![c] = s]
      BY <2>5, <3>1 DEF Reject, Acquire, TimeOut, ComeAgain
    <3> QED
      BY <2>2, <3>2
  <2>6. CASE EndDispatch \/ UNCHANGED vars
    BY <2>1, <2>6 DEF EndDispatch, vars
  <2> QED
    BY <2>3, <2>4, <2>5, <2>6 DEF Next, Loop
<1> QED
  BY <1>1, <1>2, TypeCorrect, QueuesInvariant, PTL DEF Spec
-----------------------------------------------------------------------------
(* First come, first served.                                                *)

\* The waiting calls of a queue keep their order in every step, except that the first
\* may start and that a call may time out.
LEMMA OrderKept ==
    ASSUME TypeOK, QueuesHoldWaiting, [Next]_vars,
           NEW c \in Calls, NEW d \in Calls, Before(c, d)
    PROVE  Before(c, d)' \/ phase'[c] # "queued" \/ phase'[d] = "refused"
<1> DEFINE x == ClassOf[c]
<1> DEFINE s == queue[x]
<1> DEFINE n == Len(s)
<1>0. /\ x \in Classes /\ s \in Seq(Calls) /\ n \in Nat /\ DOMAIN s = 1..n
      /\ queue \in [Classes -> Seq(Calls)]
      /\ phase \in [Calls -> {"idle", "queued", "running", "done", "refused"}]
  BY PolicyAssumption, LenProperties DEF TypeOK
<1>1. PICK i \in 1..n, j \in 1..n : i < j /\ s[i] = c /\ s[j] = d
  BY <1>0 DEF Before
<1>2. ASSUME NEW k \in DOMAIN queue'[x], NEW l \in DOMAIN queue'[x],
             k < l, queue'[x][k] = c, queue'[x][l] = d
      PROVE  Before(c, d)'
  BY <1>2 DEF Before
<1> HIDE DEF n
<1>3. CASE queue'[x] = s
  BY <1>0, <1>1, <1>2, <1>3
<1>4. ASSUME NEW y \in Classes, Dispatch(y), y = x
      PROVE  Before(c, d)' \/ phase'[c] # "queued"
  <2> DEFINE t == Tail(s)
  <2>1. /\ Head(s) = s[1] /\ DOMAIN t = 1..(n - 1)
        /\ \A k \in 1..(n - 1) : t[k] = s[k + 1]
    BY <1>4, DispatchHead DEF n
  <2>2. queue'[x] = t /\ phase' = [phase EXCEPT ![Head(s)] = "running"]
    BY <1>0, <1>4 DEF Dispatch
  <2> HIDE DEF s, t
  <2>3. CASE i = 1
    BY <1>0, <1>1, <2>1, <2>2, <2>3
  <2>4. CASE i # 1
    <3>1. /\ i - 1 \in 1..(n - 1) /\ j - 1 \in 1..(n - 1) /\ i - 1 < j - 1
          /\ (i - 1) + 1 = i /\ (j - 1) + 1 = j
      BY <1>0, <1>1, <2>4
    <3>2. t[i - 1] = c /\ t[j - 1] = d
      BY <1>1, <2>1, <3>1
    <3> QED
      BY <1>2, <2>1, <2>2, <3>1, <3>2
  <2> QED
    BY <2>3, <2>4
<1>5. ASSUME NEW y \in Classes, Dispatch(y), y # x
      PROVE  queue'[x] = s
  BY <1>0, <1>5 DEF Dispatch
<1>6. ASSUME NEW e \in Calls, Acquire(e)
      PROVE  Before(c, d)'
  <2>1. ClassOf[e] \in Classes /\ queue' = [queue EXCEPT ![ClassOf[e]] = Append(@, e)]
    BY <1>6, PolicyAssumption DEF Acquire
  <2>2. CASE ClassOf[e] = x
    <3> DEFINE q == Append(s, e)
    <3>1. q \in Seq(Calls) /\ Len(q) = n + 1 /\ \A k \in 1..n : q[k] = s[k]
      BY <1>0, AppendProperties DEF n
    <3>2. DOMAIN q = 1..(n + 1)
      BY <3>1, LenProperties
    <3>3. queue'[x] = q
      BY <1>0, <2>1, <2>2
    <3> HIDE DEF q, s
    <3>4. i \in DOMAIN q /\ j \in DOMAIN q
      BY <1>0, <1>1, <3>2
    <3> QED
      BY <1>1, <1>2, <3>1, <3>3, <3>4
  <2>3. CASE ClassOf[e] # x
    <3>1. queue'[x] = s
      BY <1>0, <2>1, <2>3
    <3> QED
      BY <1>0, <1>1, <1>2, <3>1
  <2> QED
    BY <2>2, <2>3
<1>7. ASSUME NEW e \in Calls, TimeOut(e)
      PROVE  Before(c, d)' \/ phase'[c] # "queued" \/ phase'[d] = "refused"
  <2>1. phase' = [phase EXCEPT ![e] = "refused"]
    BY <1>7 DEF TimeOut
  <2>2. PICK p \in DOMAIN queue[ClassOf[e]] :
          /\ queue[ClassOf[e]][p] = e
          /\ queue' = [queue EXCEPT ![ClassOf[e]] = Without(@, p)]
    BY <1>7 DEF TimeOut
  <2>3. CASE e = c \/ e = d
    BY <1>0, <2>1, <2>3
  <2>4. CASE e # c /\ e # d /\ ClassOf[e] = x
    <3> DEFINE q == Without(s, p)
    <3> DEFINE down(k) == IF k < p THEN k ELSE k - 1
    <3>1. p \in 1..n /\ s[p] = e /\ queue'[x] = q
      BY <1>0, <2>2, <2>4
    <3>2. /\ DOMAIN q = 1..(n - 1)
          /\ \A k \in 1..(n - 1) : q[k] = IF k < p THEN s[k] ELSE s[k + 1]
      <4>1. s \in Seq(Calls) /\ p \in DOMAIN s
        BY <1>0, <3>1
      <4> HIDE DEF s
      <4> QED
        BY <4>1, WithoutTyped DEF n
    <3> HIDE DEF q, s
    <3>3. i # p /\ j # p
      BY <1>1, <2>4, <3>1
    <3>4. ASSUME NEW k \in 1..n, k # p
          PROVE  down(k) \in 1..(n - 1) /\ q[down(k)] = s[k]
      <4>1. CASE k < p
        BY <1>0, <3>1, <3>2, <4>1
      <4>2. CASE k > p
        <5>1. k - 1 \in 1..(n - 1) /\ ~ (k - 1 < p) /\ (k - 1) + 1 = k /\ ~ (k < p)
          BY <1>0, <3>1, <4>2
        <5>2. q[k - 1] = s[(k - 1) + 1]
          BY <3>2, <5>1
        <5> QED
          BY <5>1, <5>2
      <4> QED
        BY <1>0, <3>1, <3>4, <4>1, <4>2
    <3>5. down(i) < down(j)
      BY <1>0, <1>1, <3>1, <3>3
    <3> HIDE DEF down
    <3>6. /\ down(i) \in DOMAIN queue'[x] /\ down(j) \in DOMAIN queue'[x]
          /\ queue'[x][down(i)] = c /\ queue'[x][down(j)] = d
      BY <1>1, <3>1, <3>2, <3>3, <3>4
    <3> QED
      BY <1>2, <3>5, <3>6
  <2>5. CASE ClassOf[e] # x
    <3>1. queue'[x] = s
      BY <1>0, <2>2, <2>5, PolicyAssumption
    <3> QED
      BY <1>0, <1>1, <1>2, <3>1
  <2> QED
    BY <2>3, <2>4, <2>5
<1>8. ASSUME NEW e \in Calls, Reject(e) \/ Release(e) \/ ComeAgain(e)
      PROVE  queue'[x] = s
  BY <1>8 DEF Reject, Release, ComeAgain
<1>9. CASE EndDispatch \/ UNCHANGED vars
  BY <1>3, <1>9 DEF EndDispatch, vars
<1> HIDE DEF x, s
<1> QED
  BY <1>3, <1>4, <1>5, <1>6, <1>7, <1>8, <1>9 DEF Next, Loop

\* Within a class no call starts while one that came before it waits on, whichever
\* calls time out, return or are refused in between.
THEOREM ServedInOrder == Spec => FirstComeFirstServed
<1>1. TypeOK /\ QueuesHoldWaiting /\ [Next]_vars =>
        [\A c, d \in Calls :
            Before(c, d) => Before(c, d)' \/ phase'[c] # "queued" \/ phase'[d] = "refused"]_vars
  BY OrderKept
<1> QED
  BY <1>1, TypeCorrect, QueuesInvariant, PTL DEF Spec, FirstComeFirstServed
=============================================================================
