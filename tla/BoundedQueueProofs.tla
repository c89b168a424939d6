------------------------- MODULE BoundedQueueProofs -------------------------
(***************************************************************************)
(* The ring is a FIFO queue for any producers and consumers, any size and  *)
(* any use of it.                                                          *)
(*                                                                         *)
(* The argument is about windows of positions: from after head_ to before  *)
(* commit_ lie the elements that can be taken, from commit_ to before      *)
(* tail_ the positions that producers have claimed, each its own; the two  *)
(* together are shorter than the ring, so no two of them share a slot.     *)
(***************************************************************************)
EXTENDS BoundedQueue, SequenceTheorems, TLAPS

\* A copy of tail_ or head_ is old, and what was found on it still holds: a
\* tail_ that has not moved since the check has room before head_, and what
\* follows a checked head_ was committed.
Copies ==
  /\ \A p \in Producers :
       /\ pc[p] \in {"check", "cas"} => old[p] <= tail
       /\ pc[p] = "cas" /\ old[p] = tail => tail <= head + Size
  /\ \A c \in Consumers :
       /\ pc[c] \in {"check", "copy", "cas"} => old[c] <= head
       /\ pc[c] \in {"copy", "cas"} => old[c] + 1 < commit

\* Producers hold different positions, claimed and not yet committed.
Claims ==
  /\ \A p \in Writing : commit <= old[p] /\ old[p] < tail
  /\ \A p, r \in Writing : old[p] = old[r] => p = r

\* What is written and can be taken is an element, and what a consumer has
\* copied is the oldest one, unless another consumer was faster.
Contents ==
  /\ \A p \in Producers :
       /\ pc[p] # "idle" => elem[p] \in Values
       /\ pc[p] = "commit" => pool[GetIndex(old[p])] = elem[p]
  /\ \A i \in (head + 1)..(commit - 1) : pool[GetIndex(i)] \in Values
  /\ \A c \in Consumers :
       pc[c] = "cas" /\ old[c] = head => elem[c] = pool[GetIndex(head + 1)]

IInv == TypeOK /\ RingBounds /\ Copies /\ Claims /\ Contents

-----------------------------------------------------------------------------
(* Positions and slots *)

LEMMA DivMod ==
  \A a \in Nat, n \in Nat \ {0} :
    a = n * (a \div n) + (a % n) /\ a \div n \in Nat /\ a % n \in 0..(n - 1)
OBVIOUS

\* Two positions less than a ring apart do not share a slot.
LEMMA ModApart ==
  ASSUME NEW n \in Nat \ {0}, NEW a \in Nat, NEW b \in Nat, a < b, b - a < n
  PROVE  a % n # b % n
<1> DEFINE x == a \div n
           y == b \div n
<1>1. a = n * x + (a % n) /\ b = n * y + (b % n) /\ x \in Int /\ y \in Int
  BY DivMod
<1> SUFFICES ASSUME a % n = b % n PROVE FALSE
  OBVIOUS
<1> HIDE DEF x, y
<1>2. b - a = n * y - n * x
  BY <1>1
<1>3. n * y - n * x = n * (y - x)
  BY <1>1
<1>4. n * (y - x) >= n \/ n * (y - x) <= 0
  BY <1>1
<1> QED BY <1>1, <1>2, <1>3, <1>4

\* Positions a whole ring apart do.
LEMMA ModAround ==
  ASSUME NEW a \in Nat, NEW n \in Nat \ {0}
  PROVE  (a + n) % n = a % n
<1> DEFINE x == a \div n
           y == (a + n) \div n
           r == a % n
           s == (a + n) % n
<1>1. a = n * x + r /\ x \in Nat /\ r \in 0..(n - 1)
  BY DivMod
<1>2. a + n = n * y + s /\ y \in Nat /\ s \in 0..(n - 1)
  <2>1. a + n \in Nat
    OBVIOUS
  <2> QED BY <2>1, DivMod
<1> HIDE DEF x, y, r, s
<1>3. r - s = n * (y - x - 1)
  BY <1>1, <1>2
<1>4. n * (y - x - 1) >= n \/ n * (y - x - 1) <= -n \/ n * (y - x - 1) = 0
  BY <1>1, <1>2
<1> QED BY <1>1, <1>2, <1>3, <1>4 DEF r, s

LEMMA PoolSize == pool_size \in Nat \ {0} /\ pool_size = Size + 2
  BY SizeAssumption DEF pool_size

LEMMA IndexIsSlot == \A i \in Nat : GetIndex(i) \in Slots
  BY PoolSize, DivMod DEF GetIndex, Slots

\* Of the positions from after head_ to before tail_, each has its own slot.
LEMMA SlotsApart ==
  ASSUME RingBounds, head \in Nat, tail \in Nat,
         NEW i \in (head + 1)..(tail - 1), NEW j \in (head + 1)..(tail - 1), i # j
  PROVE  GetIndex(i) # GetIndex(j)
<1>1. i \in Nat /\ j \in Nat /\ i - j < pool_size /\ j - i < pool_size
  BY PoolSize, SizeAssumption DEF RingBounds
<1> QED BY <1>1, PoolSize, ModApart DEF GetIndex

\* At a tail_ that has not moved, the test that refuses an element says that
\* head_ is a whole ring behind: the queue is full.
LEMMA InTheWayIsFull ==
  ASSUME TypeOK, RingBounds, NEW p \in Producers, old[p] = tail
  PROVE  HeadInTheWay(p) <=> tail = head + Size + 1
<1>1. head \in Nat /\ tail \in Nat /\ head < tail /\ tail <= head + Size + 1
  BY DEF TypeOK, RingBounds
<1>2. CASE tail = head + Size + 1
  <2>1. tail + 1 = head + pool_size
    BY <1>1, <1>2, PoolSize, SizeAssumption
  <2> QED BY <1>1, <1>2, <2>1, PoolSize, ModAround DEF HeadInTheWay, GetIndex
<1>3. CASE tail < head + Size + 1
  <2>1. head < tail + 1 /\ (tail + 1) - head < pool_size /\ tail + 1 \in Nat
    BY <1>1, <1>3, PoolSize, SizeAssumption
  <2>2. GetIndex(head) # GetIndex(tail + 1)
    BY <1>1, <2>1, PoolSize, ModApart DEF GetIndex
  <2> QED BY <1>3, <2>2, <1>1, SizeAssumption DEF HeadInTheWay
<1> QED BY <1>1, <1>2, <1>3, SizeAssumption

-----------------------------------------------------------------------------
(* Steps *)

LEMMA InitIInv == Init => IInv
<1> SUFFICES ASSUME Init PROVE IInv
  OBVIOUS
<1>1. PICK s \in Scenarios : budget = s.calls /\ waits = s.waits
                             /\ strategy = s.strategy /\ breaker = s.breaker
  BY DEF Init
<1>2. TypeOK
  BY <1>1, ScenariosAssumption DEF Init, TypeOK, PCs
<1>3. RingBounds /\ Copies /\ Claims /\ Contents
  BY SizeAssumption DEF Init, RingBounds, Copies, Claims, Contents, Threads, Writing
<1> QED BY <1>2, <1>3 DEF IInv

\* The element of an enqueue that begins, and the answers of the two calls.
LEMMA Elements ==
  ASSUME IInv
  PROVE  /\ \A p \in Producers : budget[p] > 0 => <<p, budget[p]>> \in Values
         /\ \A p \in Producers : pc[p] # "idle" => elem[p] \in Values
         /\ \A c \in Consumers : pc[c] = "cas" /\ head = old[c] => elem[c] \in Values
<1>1. \A p \in Producers : budget[p] \in 0..MaxCalls
  BY DEF IInv, TypeOK, Threads
<1>2. \A p \in Producers : budget[p] > 0 => budget[p] \in 1..MaxCalls
  BY <1>1, MaxCallsAssumption
<1>3. ASSUME NEW c \in Consumers, pc[c] = "cas", head = old[c]
      PROVE  elem[c] \in Values
  <2>1. elem[c] = pool[GetIndex(head + 1)] /\ head + 1 < commit
    BY <1>3 DEF IInv, Contents, Copies
  <2>2. head + 1 \in (head + 1)..(commit - 1)
    BY <2>1 DEF IInv, TypeOK
  <2> QED BY <2>1, <2>2 DEF IInv, Contents
<1> QED BY <1>2, <1>3 DEF IInv, Contents, Values

LEMMA TypeKept == IInv /\ Next => TypeOK'
<1> SUFFICES ASSUME IInv, Next PROVE TypeOK'
  OBVIOUS
<1> USE Elements, IndexIsSlot DEF IInv, TypeOK, PCs, ring, wait, call, Goto, Return, Threads
<1>1. ASSUME NEW t \in Threads, Begin(t)
      PROVE  /\ budget' \in [Threads -> 0..MaxCalls]
             /\ pc' \in [Threads -> PCs]
             /\ answer' \in [Threads -> Values \cup {None, Empty, Full}]
  <2>1. budget[t] - 1 \in 0..MaxCalls
    BY <1>1, MaxCallsAssumption DEF Begin
  <2> QED BY <1>1, <2>1 DEF Begin
<1>2. ASSUME NEW p \in Producers, EnqueueStart(p) PROVE TypeOK'
  <2>1. elem' \in [Threads -> Values \cup {None, Free, Torn}]
    BY <1>2 DEF EnqueueStart, Begin
  <2> QED BY <1>1, <1>2, <2>1 DEF EnqueueStart
<1>3. ASSUME NEW c \in Consumers, DequeueStart(c) PROVE TypeOK'
  BY <1>1, <1>3 DEF DequeueStart
<1>4. ASSUME NEW p \in Producers, Enqueue(p) PROVE TypeOK'
  <2>1. CASE LoadTail(p) \/ CheckRoom(p) \/ ClaimTailFails(p)
    BY <2>1 DEF LoadTail, CheckRoom, ClaimTailFails
  <2>2. CASE CheckFull(p)
    BY <2>2 DEF CheckFull, Fail
  <2>3. CASE ClaimTail(p) \/ CommitTail(p)
    BY <2>3 DEF ClaimTail, CommitTail
  <2>4. CASE WriteSlot(p)
    BY <2>4 DEF WriteSlot
  <2>5. CASE FillSlot(p)
    BY <2>5 DEF FillSlot
  <2>6. CASE NotifyOne(p)
    BY <2>6 DEF NotifyOne, Blocked
  <2> QED BY <1>4, <2>1, <2>2, <2>3, <2>4, <2>5, <2>6 DEF Enqueue
<1>5. ASSUME NEW c \in Consumers, Dequeue(c) PROVE TypeOK'
  <2>1. CASE LoadHead(c) \/ CheckElement(c) \/ TakeHeadFails(c)
    BY <2>1 DEF LoadHead, CheckElement, TakeHeadFails
  <2>2. CASE CheckEmpty(c)
    BY <2>2 DEF CheckEmpty, Fail
  <2>3. CASE CopySlot(c)
    BY <2>3 DEF CopySlot
  <2>4. CASE TakeHead(c)
    BY <2>4 DEF TakeHead
  <2> QED BY <1>5, <2>1, <2>2, <2>3, <2>4 DEF Dequeue
<1>6. ASSUME NEW t \in Threads, WaitLoop(t) \/ WakeUp(t) PROVE TypeOK'
  BY <1>6 DEF WaitLoop, LoopAgain, LoopBroken, PauseEnds, Block, TimeOut, WakeUp
<1>7. CASE BreakSet \/ BreakNotify
  BY <1>7 DEF BreakSet, BreakNotify
<1> QED BY <1>2, <1>3, <1>4, <1>5, <1>6, <1>7 DEF Next

\* Threads that stand where nothing is claimed of their locals change nothing
\* that the invariant speaks of.
Aside(t) == \/ UNCHANGED <<pc[t], old[t], elem[t]>>
            \/ /\ pc'[t] \in {"idle", "loop", "load", "pause", "blocked"}
               /\ t \in Producers /\ pc'[t] # "idle" => elem'[t] \in Values

LEMMA AsideKeeps ==
  ASSUME IInv, TypeOK', UNCHANGED ring, \A t \in Threads : Aside(t)
  PROVE  IInv'
<1> USE DEF ring, Threads, Aside
<1>1. RingBounds'
  BY DEF IInv, RingBounds
<1>2. Copies'
  BY DEF IInv, Copies
<1>3. Claims'
  BY DEF IInv, Claims, Writing
<1>4. Contents'
  BY DEF IInv, Contents, GetIndex
<1> QED BY <1>1, <1>2, <1>3, <1>4 DEF IInv

\* The steps outside the ring: calls begin, fail, wait, wake up and return.
LEMMA OutsideKeeps ==
  ASSUME IInv, TypeOK', UNCHANGED ring,
         \/ \E p \in Producers : EnqueueStart(p) \/ CheckFull(p) \/ NotifyOne(p)
         \/ \E c \in Consumers : DequeueStart(c) \/ CheckEmpty(c)
         \/ \E t \in Threads : WaitLoop(t) \/ WakeUp(t)
         \/ BreakSet \/ BreakNotify
  PROVE  IInv'
<1> SUFFICES \A t \in Threads : Aside(t)
  BY AsideKeeps
<1> USE Elements DEF IInv, TypeOK, Threads, Aside, Goto, Return, call
<1>1. CASE \E p \in Producers : EnqueueStart(p)
  BY <1>1 DEF EnqueueStart, Begin
<1>2. CASE \E c \in Consumers : DequeueStart(c)
  BY <1>2, ThreadsAssumption DEF DequeueStart, Begin
<1>3. CASE \E p \in Producers : CheckFull(p)
  BY <1>3 DEF CheckFull, Fail
<1>4. CASE \E p \in Producers : NotifyOne(p)
  BY <1>4 DEF NotifyOne, Blocked
<1>5. CASE \E c \in Consumers : CheckEmpty(c)
  BY <1>5 DEF CheckEmpty, Fail
<1>6. CASE \E t \in Threads : WaitLoop(t) \/ WakeUp(t)
  BY <1>6 DEF WaitLoop, LoopAgain, LoopBroken, PauseEnds, Block, TimeOut, WakeUp
<1>7. CASE BreakSet \/ BreakNotify
  BY <1>7 DEF BreakSet, BreakNotify, Blocked
<1> QED BY <1>1, <1>2, <1>3, <1>4, <1>5, <1>6, <1>7

\* The positions read and compared.
LEMMA LookKeeps ==
  ASSUME IInv, TypeOK',
         \/ \E p \in Producers : LoadTail(p) \/ CheckRoom(p) \/ ClaimTailFails(p)
         \/ \E c \in Consumers : \/ LoadHead(c) \/ CheckElement(c) \/ CopySlot(c)
                                 \/ TakeHeadFails(c)
  PROVE  IInv'
<1> USE ThreadsAssumption DEF IInv, TypeOK, Threads, Goto, ring, call
<1>1. ASSUME NEW p \in Producers, LoadTail(p) \/ ClaimTailFails(p) \/ CheckRoom(p) PROVE IInv'
  <2> USE DEF LoadTail, ClaimTailFails, CheckRoom
  <2>1. CheckRoom(p) /\ old[p] = tail => tail <= head + Size
    BY InTheWayIsFull, SizeAssumption DEF RingBounds
  <2>2. RingBounds'
    BY <1>1 DEF RingBounds
  <2>3. Copies'
    BY <1>1, <2>1 DEF Copies
  <2>4. Claims'
    BY <1>1 DEF Claims, Writing
  <2>5. Contents'
    BY <1>1 DEF Contents, GetIndex
  <2> QED BY <2>2, <2>3, <2>4, <2>5
<1>2. ASSUME NEW c \in Consumers,
             LoadHead(c) \/ CheckElement(c) \/ CopySlot(c) \/ TakeHeadFails(c)
      PROVE  IInv'
  <2> USE DEF LoadHead, CheckElement, CopySlot, TakeHeadFails
  <2>1. RingBounds'
    BY <1>2 DEF RingBounds
  <2>2. Copies'
    <3>1. CheckElement(c) => old[c] + 1 < commit
      BY DEF Copies, RingBounds, NothingCommitted
    <3>2. old'[c] <= head
      BY <1>2 DEF Copies
    <3>3. pc'[c] \in {"copy", "cas"} => old'[c] + 1 < commit
      BY <1>2, <3>1 DEF Copies
    <3> QED BY <1>2, <3>2, <3>3 DEF Copies
  <2>3. Claims'
    BY <1>2 DEF Claims, Writing
  <2>4. Contents'
    <3>1. UNCHANGED ring /\ \A t \in Threads \ {c} : UNCHANGED <<pc[t], old[t], elem[t]>>
      BY <1>2
    <3>2. pc'[c] = "cas" /\ old'[c] = head => elem'[c] = pool[GetIndex(head + 1)]
      BY <1>2
    <3> QED BY <3>1, <3>2 DEF Contents, GetIndex
  <2> QED BY <2>1, <2>2, <2>3, <2>4
<1> QED BY <1>1, <1>2

\* A producer claims the position at tail_.
LEMMA ClaimKeeps ==
  ASSUME IInv, TypeOK', NEW p \in Producers, ClaimTail(p)
  PROVE  IInv'
<1> USE ThreadsAssumption, SizeAssumption DEF IInv, TypeOK, Threads, Goto, ring, call, ClaimTail
<1>1. tail <= head + Size /\ tail' = tail + 1 /\ old[p] = tail
  BY DEF Copies
<1>2. RingBounds'
  BY <1>1 DEF RingBounds
<1>3. Copies'
  BY <1>1 DEF Copies
<1>4. Claims'
  BY <1>1 DEF Claims, Writing, RingBounds
<1>5. Contents'
  BY DEF Contents, GetIndex
<1> QED BY <1>2, <1>3, <1>4, <1>5

\* It writes its slot, which is neither one that can be taken nor another
\* producer's.
LEMMA OwnSlot ==
  ASSUME IInv, NEW p \in Writing
  PROVE  /\ \A i \in (head + 1)..(commit - 1) : GetIndex(i) # GetIndex(old[p])
         /\ \A r \in Writing \ {p} : GetIndex(old[r]) # GetIndex(old[p])
<1> USE DEF IInv, TypeOK, RingBounds, Threads
<1>1. \A r \in Writing : old[r] \in (head + 1)..(tail - 1) /\ old[r] >= commit
  BY DEF Claims, Writing
<1>2. \A i \in (head + 1)..(commit - 1) : i \in (head + 1)..(tail - 1) /\ i # old[p]
  BY <1>1
<1>3. \A r \in Writing \ {p} : old[r] # old[p]
  BY DEF Claims
<1> QED BY <1>1, <1>2, <1>3, SlotsApart

LEMMA WriteKeeps ==
  ASSUME IInv, TypeOK', NEW p \in Producers, WriteSlot(p) \/ FillSlot(p)
  PROVE  IInv'
<1> USE ThreadsAssumption
    DEF IInv, TypeOK, Threads, Goto, ring, call, WriteSlot, FillSlot
<1>1. p \in Writing /\ Writing' = Writing
  BY DEF Writing
<1>2. old[p] \in Nat /\ GetIndex(old[p]) \in Slots
  BY IndexIsSlot
<1>3. RingBounds'
  BY DEF RingBounds
<1>4. Copies'
  BY DEF Copies
<1>5. Claims'
  BY <1>1 DEF Claims
<1>6. Contents'
  <2>1. \A s \in Slots \ {GetIndex(old[p])} : pool'[s] = pool[s]
    BY <1>2
  <2>2. \A i \in (head + 1)..(commit - 1) : pool'[GetIndex(i)] = pool[GetIndex(i)]
    BY <1>1, <2>1, OwnSlot, IndexIsSlot
  <2>3. \A r \in Writing \ {p} : pool'[GetIndex(old[r])] = pool[GetIndex(old[r])]
    BY <1>1, <2>1, OwnSlot, IndexIsSlot DEF Writing
  <2>4. pc'[p] = "commit" => pool'[GetIndex(old[p])] = elem[p]
    BY <1>2
  <2>5. \A r \in Producers : pc'[r] = "commit" => pool'[GetIndex(old[r])] = elem[r]
    BY <2>3, <2>4 DEF Contents, Writing
  <2>6. \A c \in Consumers : pc[c] = "cas" /\ old[c] = head
                               => head + 1 \in (head + 1)..(commit - 1)
    BY DEF Copies
  <2>7. \A i \in Nat : GetIndex(i)' = GetIndex(i)
    BY DEF GetIndex
  <2> QED BY <2>2, <2>5, <2>6 DEF Contents, GetIndex
<1> QED BY <1>3, <1>4, <1>5, <1>6

\* It publishes the position at commit_.
LEMMA CommitKeeps ==
  ASSUME IInv, TypeOK', NEW p \in Producers, CommitTail(p)
  PROVE  IInv'
<1> USE ThreadsAssumption DEF IInv, TypeOK, Threads, Goto, ring, call, CommitTail
<1>1. p \in Writing /\ Writing' = Writing \ {p}
  BY DEF Writing
<1>2. commit' = commit + 1 /\ commit < tail /\ old[p] = commit
  BY <1>1 DEF Claims
<1>3. RingBounds'
  BY <1>2 DEF RingBounds
<1>4. Copies'
  BY <1>2 DEF Copies
<1>5. Claims'
  BY <1>1, <1>2 DEF Claims, Writing
<1>6. Contents'
  <2>1. pool[GetIndex(commit)] \in Values
    BY <1>2 DEF Contents
  <2>2. \A i \in (head + 1)..(commit' - 1) : i \in (head + 1)..(commit - 1) \/ i = commit
    BY <1>2
  <2> QED BY <2>1, <2>2 DEF Contents, GetIndex
<1> QED BY <1>3, <1>4, <1>5, <1>6

\* A consumer takes the element after head_.
LEMMA TakeKeeps ==
  ASSUME IInv, TypeOK', NEW c \in Consumers, TakeHead(c)
  PROVE  IInv'
<1> USE ThreadsAssumption DEF IInv, TypeOK, Threads, Goto, Return, ring, call, TakeHead
<1>1. head' = head + 1 /\ head + 1 < commit
  BY DEF Copies
<1>2. RingBounds'
  BY <1>1, SizeAssumption DEF RingBounds
<1>3. Copies'
  BY <1>1, SizeAssumption DEF Copies
<1>4. Claims'
  BY DEF Claims, Writing
<1>5. Contents'
  BY <1>1 DEF Contents, Copies, GetIndex
<1> QED BY <1>2, <1>3, <1>4, <1>5

LEMMA StepKeeps == IInv /\ [Next]_vars => IInv'
<1> SUFFICES ASSUME IInv, [Next]_vars PROVE IInv'
  OBVIOUS
<1>1. CASE UNCHANGED vars
  BY <1>1 DEF vars, IInv, TypeOK, RingBounds, Copies, Claims, Contents, Writing, GetIndex
<1>2. CASE Next
  <2>1. TypeOK'
    BY <1>2, TypeKept
  <2>2. ASSUME NEW p \in Producers, EnqueueStart(p) \/ Enqueue(p) PROVE IInv'
    <3>1. CASE EnqueueStart(p) \/ CheckFull(p) \/ NotifyOne(p)
      BY <2>1, <3>1, OutsideKeeps DEF EnqueueStart, CheckFull, NotifyOne
    <3> QED BY <2>1, <2>2, <3>1, LookKeeps, ClaimKeeps, WriteKeeps, CommitKeeps DEF Enqueue
  <2>3. ASSUME NEW c \in Consumers, DequeueStart(c) \/ Dequeue(c) PROVE IInv'
    <3>1. CASE DequeueStart(c) \/ CheckEmpty(c)
      BY <2>1, <3>1, OutsideKeeps DEF DequeueStart, CheckEmpty
    <3> QED BY <2>1, <2>3, <3>1, LookKeeps, TakeKeeps DEF Dequeue
  <2>4. ASSUME NEW t \in Threads, WaitLoop(t) \/ WakeUp(t) PROVE IInv'
    BY <2>1, <2>4, OutsideKeeps
       DEF WaitLoop, LoopAgain, LoopBroken, PauseEnds, Block, TimeOut, WakeUp
  <2>5. CASE BreakSet \/ BreakNotify
    BY <2>1, <2>5, OutsideKeeps DEF BreakSet, BreakNotify
  <2> QED BY <1>2, <2>2, <2>3, <2>4, <2>5 DEF Next
<1> QED BY <1>1, <1>2

-----------------------------------------------------------------------------
(* Theorems *)

\* What threads remember of the positions, the claims of producers and the
\* contents of the slots, in every step of BoundedQueue and its wait strategies.
THEOREM Inductive == Spec => []IInv
BY InitIInv, StepKeeps, PTL DEF Spec

\* Every variable keeps its type; in particular Dequeue answers with elements,
\* never with a slot that was not written or half written.
THEOREM TypeCorrect == Spec => []TypeOK
<1>1. IInv => TypeOK
  BY DEF IInv
<1> QED BY <1>1, Inductive, PTL

\* head_, commit_ and tail_ never cross, and no more is claimed than the ring
\* has room for (BoundedQueue::Enqueue, Dequeue).
THEOREM BoundsHold == Spec => []RingBounds
<1>1. IInv => RingBounds
  BY DEF IInv
<1> QED BY <1>1, Inductive, PTL

\* A producer between its claim and its commit owns its slot.
THEOREM OneOwner == Spec => []SlotsOwned
<1>1. IInv => SlotsOwned
  BY OwnSlot DEF SlotsOwned
<1> QED BY <1>1, Inductive, PTL

\* Enqueue refuses only when the queue is full, or when tail_ has moved since
\* it was read.
THEOREM RefusalsRight == Spec => RefusalsJustified
<1>1. ASSUME IInv, NEW p \in Producers, CheckFull(p)
      PROVE  tail - head - 1 = Size \/ tail # old[p]
  <2>1. HeadInTheWay(p) /\ tail \in Nat /\ head \in Nat
    BY <1>1 DEF CheckFull, IInv, TypeOK
  <2> QED BY <1>1, <2>1, InTheWayIsFull, SizeAssumption DEF IInv
<1>2. IInv /\ [Next]_vars =>
        [\A p \in Producers : CheckFull(p) => tail - head - 1 = Size \/ tail # old[p]]_vars
  BY <1>1
<1> QED BY <1>2, Inductive, PTL DEF Spec, RefusalsJustified

-----------------------------------------------------------------------------
(* The refinement of FifoQueue *)

Answers == [c \in Consumers |-> answer[c]]

Window(h, k, slots) == [i \in 1..(k - h - 1) |-> slots[GetIndex(h + i)]]

LEMMA WindowTyped ==
  ASSUME NEW h \in Nat, NEW k \in Nat, h < k, NEW slots,
         \A i \in (h + 1)..(k - 1) : slots[GetIndex(i)] \in Values
  PROVE  /\ Window(h, k, slots) \in Seq(Values)
         /\ Len(Window(h, k, slots)) = k - h - 1
         /\ \A i \in 1..(k - h - 1) : Window(h, k, slots)[i] = slots[GetIndex(h + i)]
<1> DEFINE n == k - h - 1
<1>1. n \in Nat
  OBVIOUS
<1>2. ASSUME NEW i \in 1..n PROVE slots[GetIndex(h + i)] \in Values
  <2>1. h + i \in (h + 1)..(k - 1)
    OBVIOUS
  <2> QED BY <2>1
<1>3. Window(h, k, slots) \in [1..n -> Values]
  BY <1>2 DEF Window
<1>4. Window(h, k, slots) \in Seq(Values)
  BY <1>1, <1>3
<1> QED BY <1>1, <1>3, <1>4 DEF Window

\* The elements that can be taken: there are commit_ - head_ - 1 of them.
LEMMA ItemsTyped ==
  ASSUME IInv
  PROVE  /\ Items \in Seq(Values) /\ Len(Items) = commit - head - 1
         /\ \A i \in 1..(commit - head - 1) : Items[i] = pool[GetIndex(head + i)]
<1>1. Items = Window(head, commit, pool)
  BY DEF Items, Window
<1>2. head \in Nat /\ commit \in Nat /\ head < commit
  BY DEF IInv, TypeOK, RingBounds
<1>3. \A i \in (head + 1)..(commit - 1) : pool[GetIndex(i)] \in Values
  BY DEF IInv, Contents
<1>4. /\ Window(head, commit, pool) \in Seq(Values)
      /\ Len(Window(head, commit, pool)) = commit - head - 1
      /\ \A i \in 1..(commit - head - 1) :
           Window(head, commit, pool)[i] = pool[GetIndex(head + i)]
  BY ONLY <1>2, <1>3, WindowTyped
<1> QED BY ONLY <1>1, <1>4

\* A step that neither commits nor takes leaves the queue as it is.
LEMMA ItemsSame ==
  ASSUME IInv, UNCHANGED <<head, commit>>,
         \/ UNCHANGED pool
         \/ \E p \in Producers : WriteSlot(p) \/ FillSlot(p)
  PROVE  Items' = Items
<1>1. \A i \in (head + 1)..(commit - 1) : pool'[GetIndex(i)] = pool[GetIndex(i)]
  <2>1. CASE UNCHANGED pool
    BY <2>1
  <2>2. ASSUME NEW p \in Producers, WriteSlot(p) \/ FillSlot(p), NEW i \in (head + 1)..(commit - 1)
        PROVE  pool'[GetIndex(i)] = pool[GetIndex(i)]
    <3>1. p \in Writing
      BY <2>2 DEF Writing, WriteSlot, FillSlot, Goto
    <3>2. GetIndex(i) # GetIndex(old[p]) /\ GetIndex(i) \in Slots
      BY <3>1, OwnSlot, IndexIsSlot DEF IInv, TypeOK
    <3> QED BY <2>2, <3>2 DEF WriteSlot, FillSlot, IInv, TypeOK
  <2> QED BY <2>1, <2>2
<1>2. \A i \in 1..(commit - head - 1) : head + i \in (head + 1)..(commit - 1)
  BY DEF IInv, TypeOK
<1> QED BY <1>1, <1>2 DEF Items, GetIndex

\* The commit puts the producer's element at the end.
LEMMA CommitPuts ==
  ASSUME IInv, IInv', NEW p \in Producers, CommitTail(p)
  PROVE  \E v \in Values : Fifo!Put(v)
<1> USE DEF IInv
<1>1. /\ commit = old[p] /\ commit' = commit + 1 /\ pc[p] = "commit"
      /\ UNCHANGED <<head, tail, pool, answer>>
  BY DEF CommitTail, Goto, call
<1>2. elem[p] \in Values /\ pool[GetIndex(commit)] = elem[p]
  BY <1>1 DEF Contents
<1>3. head \in Nat /\ commit \in Nat /\ head < commit /\ commit - head - 1 < Size
  <2>1. p \in Writing
    BY <1>1 DEF Writing
  <2> QED BY <1>1, <2>1, SizeAssumption DEF TypeOK, RingBounds, Claims
<1>4. Len(Items) < Size
  BY <1>3, ItemsTyped
<1>5. Items' = Append(Items, elem[p])
  <2>1. Items' \in Seq(Values) /\ Len(Items') = commit - head
        /\ \A i \in 1..(commit - head) : Items'[i] = pool[GetIndex(head + i)]
    <3>1. Items' = Window(head, commit + 1, pool)
      BY <1>1 DEF Items, Window, GetIndex
    <3>2. \A i \in (head + 1)..((commit + 1) - 1) : pool[GetIndex(i)] \in Values
      BY <1>2, <1>3 DEF Contents
    <3>3. commit + 1 \in Nat /\ head < commit + 1 /\ (commit + 1) - head - 1 = commit - head
      BY <1>3
    <3>4. /\ Window(head, commit + 1, pool) \in Seq(Values)
          /\ Len(Window(head, commit + 1, pool)) = (commit + 1) - head - 1
          /\ \A i \in 1..((commit + 1) - head - 1) :
               Window(head, commit + 1, pool)[i] = pool[GetIndex(head + i)]
      BY <1>3, <3>2, <3>3, WindowTyped
    <3> QED BY <3>1, <3>3, <3>4
  <2>2. Append(Items, elem[p]) \in Seq(Values) /\ Len(Append(Items, elem[p])) = commit - head
    BY <1>2, <1>3, ItemsTyped, AppendProperties
  <2>3. \A i \in 1..(commit - head) : Items'[i] = Append(Items, elem[p])[i]
    BY <1>2, <1>3, <2>1, ItemsTyped, AppendProperties
  <2> QED BY <2>1, <2>2, <2>3, SeqEqual
<1> QED BY <1>1, <1>2, <1>4, <1>5 DEF Fifo!Put

\* The compare-exchange of head_ takes the first element, which is the copy.
LEMMA TakeTakes ==
  ASSUME IInv, IInv', NEW c \in Consumers, TakeHead(c)
  PROVE  Fifo!Take(c)
<1> USE DEF IInv
<1>1. /\ head = old[c] /\ head' = head + 1 /\ pc[c] = "cas"
      /\ UNCHANGED <<commit, pool>> /\ answer' = [answer EXCEPT ![c] = elem[c]]
  BY DEF TakeHead, Return, Goto
<1>2. head \in Nat /\ commit \in Nat /\ head + 1 < commit
  BY <1>1 DEF TypeOK, Copies
<1>3. Items # <<>> /\ Head(Items) = elem[c]
  <2>1. elem[c] = pool[GetIndex(head + 1)]
    BY <1>1 DEF Contents
  <2>2. Len(Items) >= 1 /\ Items[1] = pool[GetIndex(head + 1)]
    BY <1>2, ItemsTyped
  <2> QED BY <2>1, <2>2, ItemsTyped
<1>4. Items' = Tail(Items)
  <2> DEFINE n == commit - head - 2
  <2>1. /\ (head + 1) \in Nat /\ head + 1 < commit /\ commit - (head + 1) - 1 = n
        /\ Items' = Window(head + 1, commit, pool)
    BY <1>1, <1>2 DEF Items, Window, GetIndex
  <2>2. \A i \in ((head + 1) + 1)..(commit - 1) : pool[GetIndex(i)] \in Values
    BY <1>2 DEF Contents
  <2>3. /\ Window(head + 1, commit, pool) \in Seq(Values)
        /\ Len(Window(head + 1, commit, pool)) = commit - (head + 1) - 1
        /\ \A i \in 1..(commit - (head + 1) - 1) :
             Window(head + 1, commit, pool)[i] = pool[GetIndex((head + 1) + i)]
    <3> DEFINE h == head + 1
    <3>1. h \in Nat /\ commit \in Nat /\ h < commit
      BY <1>2, <2>1
    <3>2. \A i \in (h + 1)..(commit - 1) : pool[GetIndex(i)] \in Values
      BY <2>2
    <3> HIDE DEF h
    <3>3. /\ Window(h, commit, pool) \in Seq(Values)
          /\ Len(Window(h, commit, pool)) = commit - h - 1
          /\ \A i \in 1..(commit - h - 1) : Window(h, commit, pool)[i] = pool[GetIndex(h + i)]
      BY ONLY <3>1, <3>2, WindowTyped
    <3> QED BY ONLY <3>3 DEF h
  <2>4. Items' \in Seq(Values) /\ Len(Items') = n
    BY <2>1, <2>3
  <2>5. \A i \in 1..n : Items'[i] = Items[i + 1]
    <3> SUFFICES ASSUME NEW i \in 1..n PROVE Items'[i] = Items[i + 1]
      OBVIOUS
    <3>1. Items'[i] = pool[GetIndex((head + 1) + i)]
      BY <2>1, <2>3
    <3>2. i + 1 \in 1..(commit - head - 1) /\ head + (i + 1) = (head + 1) + i
      BY <1>2
    <3>3. Items[i + 1] = pool[GetIndex(head + (i + 1))]
      BY <3>2, ItemsTyped
    <3> QED BY <3>1, <3>2, <3>3
  <2>6. Tail(Items) \in Seq(Values) /\ Len(Tail(Items)) = n
        /\ \A i \in 1..n : Tail(Items)[i] = Items[i + 1]
    BY <1>2, <1>3, ItemsTyped, HeadTailProperties
  <2> HIDE DEF n
  <2>7. \A i \in 1..Len(Items') : Items'[i] = Tail(Items)[i]
    BY <2>4, <2>5, <2>6
  <2> QED BY <2>4, <2>6, <2>7, SeqEqual
<1>5. Answers' = [Answers EXCEPT ![c] = Head(Items)]
  BY <1>1, <1>3 DEF Answers, TypeOK, Threads
<1> QED BY <1>3, <1>4, <1>5 DEF Fifo!Take, Answers

\* A call that begins or ends without an element changes answers only; one
\* that reports an empty queue found it empty: commit_ was right behind head_.
LEMMA AnswersMap ==
  ASSUME IInv, IInv', UNCHANGED ring, NEW t \in Threads,
         \E a : answer' = [answer EXCEPT ![t] = a],
         t \in Consumers =>
           \/ answer' = [answer EXCEPT ![t] = None]
           \/ answer' = [answer EXCEPT ![t] = Empty] /\ NothingCommitted(t) /\ pc[t] = "check"
  PROVE  [Fifo!Next]_<<Items, Answers>>
<1>1. Items' = Items
  BY ItemsSame DEF ring
<1>2. CASE t \notin Consumers
  <2>1. Answers' = Answers
    BY <1>2 DEF Answers, IInv, TypeOK, Threads
  <2> QED BY <1>1, <2>1
<1>3. CASE t \in Consumers /\ answer' = [answer EXCEPT ![t] = None]
  <2>1. Answers' = [Answers EXCEPT ![t] = None]
    BY <1>3 DEF Answers, IInv, TypeOK, Threads
  <2>2. Fifo!Ask(t)
    BY <1>1, <2>1 DEF Fifo!Ask, Answers
  <2> QED BY <1>3, <2>2 DEF Fifo!Next
<1>4. CASE /\ t \in Consumers /\ answer' = [answer EXCEPT ![t] = Empty]
           /\ NothingCommitted(t) /\ pc[t] = "check"
  <2>1. Answers' = [Answers EXCEPT ![t] = Empty]
    BY <1>4 DEF Answers, IInv, TypeOK, Threads
  <2>2. commit - head - 1 = 0
    BY <1>4 DEF IInv, TypeOK, Copies, RingBounds, NothingCommitted, Threads
  <2>3. Items = <<>>
    BY <2>2, ItemsTyped, EmptySeq
  <2>4. Fifo!Miss(t)
    BY <1>1, <2>1, <2>3 DEF Fifo!Miss, Answers
  <2> QED BY <1>4, <2>4 DEF Fifo!Next
<1> QED BY <1>2, <1>3, <1>4

\* Every step of the ring is a step of the queue or leaves it alone.
LEMMA StepMaps == IInv /\ IInv' /\ [Next]_vars => [Fifo!Next]_<<Items, Answers>>
<1> SUFFICES ASSUME IInv, IInv', [Next]_vars PROVE [Fifo!Next]_<<Items, Answers>>
  OBVIOUS
<1>1. ASSUME UNCHANGED <<head, commit, answer>>,
             \/ UNCHANGED pool
             \/ \E p \in Producers : WriteSlot(p) \/ FillSlot(p)
      PROVE  [Fifo!Next]_<<Items, Answers>>
  BY <1>1, ItemsSame DEF Answers
<1>2. ASSUME NEW p \in Producers, EnqueueStart(p) \/ Enqueue(p)
      PROVE  [Fifo!Next]_<<Items, Answers>>
  <2>1. p \in Threads /\ p \notin Consumers
    BY ThreadsAssumption DEF Threads
  <2>2. CASE EnqueueStart(p) \/ NotifyOne(p)
    <3>1. UNCHANGED ring /\ \E a : answer' = [answer EXCEPT ![p] = a]
      BY <2>2 DEF EnqueueStart, Begin, NotifyOne
    <3> QED BY <2>1, <3>1, AnswersMap
  <2>3. CASE CheckFull(p)
    <3>1. UNCHANGED ring /\ (UNCHANGED answer \/ \E a : answer' = [answer EXCEPT ![p] = a])
      BY <2>3 DEF CheckFull, Fail, Return, call
    <3> QED BY <1>1, <2>1, <3>1, AnswersMap DEF ring
  <2>4. CASE LoadTail(p) \/ CheckRoom(p) \/ ClaimTail(p) \/ ClaimTailFails(p)
    BY <1>1, <2>4 DEF LoadTail, CheckRoom, ClaimTail, ClaimTailFails, ring, call
  <2>5. CASE WriteSlot(p) \/ FillSlot(p)
    BY <1>1, <2>5 DEF WriteSlot, FillSlot, call
  <2>6. CASE CommitTail(p)
    BY <2>6, CommitPuts DEF Fifo!Next
  <2> QED BY <1>2, <2>2, <2>3, <2>4, <2>5, <2>6 DEF Enqueue
<1>3. ASSUME NEW c \in Consumers, DequeueStart(c) \/ Dequeue(c)
      PROVE  [Fifo!Next]_<<Items, Answers>>
  <2>1. c \in Threads
    BY DEF Threads
  <2>2. CASE DequeueStart(c)
    <3>1. UNCHANGED ring /\ answer' = [answer EXCEPT ![c] = None]
      BY <2>2 DEF DequeueStart, Begin
    <3> QED BY <2>1, <3>1, AnswersMap
  <2>3. CASE CheckEmpty(c)
    <3>1. /\ UNCHANGED ring /\ NothingCommitted(c) /\ pc[c] = "check"
          /\ UNCHANGED answer \/ answer' = [answer EXCEPT ![c] = Empty]
      BY <2>3 DEF CheckEmpty, Fail, Return, Goto, call
    <3> QED BY <1>1, <2>1, <3>1, AnswersMap DEF ring
  <2>4. CASE LoadHead(c) \/ CheckElement(c) \/ CopySlot(c) \/ TakeHeadFails(c)
    BY <1>1, <2>4 DEF LoadHead, CheckElement, CopySlot, TakeHeadFails, ring, call
  <2>5. CASE TakeHead(c)
    BY <2>5, TakeTakes DEF Fifo!Next
  <2> QED BY <1>3, <2>2, <2>3, <2>4, <2>5 DEF Dequeue
<1>4. ASSUME NEW t \in Threads, WaitLoop(t) \/ WakeUp(t)
      PROVE  [Fifo!Next]_<<Items, Answers>>
  <2>1. UNCHANGED ring /\ (UNCHANGED answer \/ answer' = [answer EXCEPT ![t] = None])
    BY <1>4 DEF WaitLoop, LoopAgain, LoopBroken, PauseEnds, Block, TimeOut, WakeUp, Return, call
  <2> QED BY <1>1, <2>1, AnswersMap DEF ring
<1>5. CASE BreakSet \/ BreakNotify \/ UNCHANGED vars
  BY <1>1, <1>5 DEF BreakSet, BreakNotify, vars, ring, call
<1> QED BY <1>2, <1>3, <1>4, <1>5 DEF Next

\* The lock-free ring implements the queue of module FifoQueue: nothing is
\* lost, repeated, reordered or taken half written, and Dequeue reports an
\* empty queue only when it is (BoundedQueue::Enqueue, Dequeue and their
\* waiting forms).
THEOREM Refinement == Spec => ImplementsFifo
<1>1. Init => Fifo!Init
  <2> SUFFICES ASSUME Init PROVE Fifo!Init
    OBVIOUS
  <2>1. Items = <<>>
    BY EmptySeq DEF Init, Items
  <2>2. [c \in Consumers |-> answer[c]] = [c \in Consumers |-> None]
    BY DEF Init, Threads
  <2> QED BY <2>1, <2>2 DEF Fifo!Init
<1>2. IInv /\ IInv' /\ [Next]_vars => [Fifo!Next]_(Fifo!fifoVars)
  BY StepMaps DEF Fifo!fifoVars, Answers
<1> QED BY <1>1, <1>2, Inductive, PTL DEF Spec, ImplementsFifo, Fifo!Spec
=============================================================================
