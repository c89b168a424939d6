----------------------- MODULE ClassicSchedulerProofs -----------------------
(***************************************************************************)
(* Proofs about the scheduler, for any number of processors, callers,      *)
(* tasks and priorities and whatever the callers do.                       *)
(*                                                                         *)
(* No routine is run by two processors at once.  The lock of a routine is  *)
(* not enough for it, as RemoveCRoutine clears the lock of a routine that  *)
(* may be running.  The argument is about the run queue: a processor only  *)
(* takes what it finds there, each routine is there at most once, what is  *)
(* held and there is locked, and what has left the queue never comes back, *)
(* for a call pushes only a routine of its own that nobody has seen.  This *)
(* is IInv.                                                                *)
(*                                                                         *)
(* TInv, which rests on it, is about the table of the tasks and the        *)
(* notifications: calls under way on one id take turns (Mutexes), table    *)
(* and queues agree except between the two updates of a call (Agreement),  *)
(* what is held and out of its queue was told to stop (Unstopped), and a   *)
(* routine that waits with a message unread is told of it (Kept).          *)
(***************************************************************************)
EXTENDS ClassicScheduler, SequenceTheorems, TLAPS

\* c has created a routine that is not in a queue yet.
Creating(c) == \/ at[c] \in {"insert", "push"}
               \/ at[c] = "lock" /\ Call(c).call = "CreateTask"

\* A call in progress is the head of what its caller has to do.
Busy == \A c \in Callers :
  /\ at[c] # "idle" => todo[c] # <<>>
  /\ at[c] \in {"contexts", "collect", "removing", "stopping", "join"}
       => Call(c).call = "Shutdown"

HoldersKnown == \A p \in Processors :
                  Holds(p) => cur[p] \in Routines /\ state[cur[p]] # "none"

QueuedOnce ==
  \A k, l \in Prios : \A i \in 1..Len(queue[k]), j \in 1..Len(queue[l]) :
    /\ state[queue[k][i]] # "none"
    /\ queue[k][i] = queue[l][j] => k = l /\ i = j

QueuedLocked == \A p \in Processors :
                  Holds(p) /\ InQueue(cur[p]) => lock[cur[p]]

\* The new routine of a call is known to that call alone.
Newcomers == \A c \in Callers : Creating(c) =>
  /\ new[c] \in Routines /\ state[new[c]] # "none" /\ ~InQueue(new[c])
  /\ \A p \in Processors : Holds(p) => cur[p] # new[c]
  /\ \A d \in Callers : d # c /\ Creating(d) => new[d] # new[c]

IInv == /\ TypeOK /\ Busy /\ HoldersKnown /\ QueuedOnce /\ QueuedLocked
        /\ Newcomers /\ OneRunner

USE DEF table, flags, stack, visitor, scan, context, loops, locals, processorIdle,
        callerIdle, callUnread, bodyIdle

-----------------------------------------------------------------------------
(* A sequence less its i-th element. *)
LEMMA Shortened ==
  ASSUME NEW S, NEW q \in Seq(S), NEW i \in 1..Len(q)
  PROVE  /\ RemoveAt(q, i) \in Seq(S)
         /\ Len(RemoveAt(q, i)) = Len(q) - 1
         /\ \A j \in 1..(Len(q) - 1) :
              RemoveAt(q, i)[j] = IF j < i THEN q[j] ELSE q[j + 1]
<1> DEFINE a == SubSeq(q, 1, i - 1)
           b == SubSeq(q, i + 1, Len(q))
<1>0. /\ Len(q) \in Nat /\ i \in Int /\ 1 <= i /\ i <= Len(q)
      /\ \A j \in 1..Len(q) : q[j] \in S
  OBVIOUS
<1>1. a \in Seq(S) /\ Len(a) = i - 1 /\ \A j \in 1..(i - 1) : a[j] = q[j]
  <2> 1 \in Int /\ i - 1 \in Int /\ \A j \in 1..(i - 1) : q[j] \in S
    BY <1>0
  <2> QED
    BY <1>0, SubSeqProperties
<1>2. /\ b \in Seq(S) /\ Len(b) = Len(q) - i
      /\ \A j \in 1..(Len(q) - i) : b[j] = q[i + j]
  <2>1. i + 1 \in Int /\ Len(q) \in Int /\ \A j \in (i + 1)..Len(q) : q[j] \in S
    BY <1>0
  <2>2. /\ b \in Seq(S)
        /\ Len(b) = IF i + 1 <= Len(q) THEN Len(q) - (i + 1) + 1 ELSE 0
        /\ \A j \in 1..(Len(q) - (i + 1) + 1) : b[j] = q[(i + 1) + j - 1]
    BY <2>1, SubSeqProperties
  <2> QED
    BY <1>0, <2>2
<1> HIDE DEF a, b
<1>3. /\ a \o b \in Seq(S) /\ Len(a \o b) = Len(a) + Len(b)
      /\ \A j \in 1..(Len(a) + Len(b)) :
           (a \o b)[j] = IF j <= Len(a) THEN a[j] ELSE b[j - Len(a)]
  BY <1>1, <1>2, ConcatProperties
<1>4. \A j \in 1..(Len(q) - 1) :
        (a \o b)[j] = IF j < i THEN q[j] ELSE q[j + 1]
  <2> TAKE j \in 1..(Len(q) - 1)
  <2>1. (a \o b)[j] = IF j <= i - 1 THEN a[j] ELSE b[j - (i - 1)]
    BY <1>0, <1>1, <1>2, <1>3
  <2>2. CASE j < i
    BY <2>1, <2>2, <1>0, <1>1
  <2>3. CASE ~(j < i)
    <3>1. j - (i - 1) \in 1..(Len(q) - i) /\ i + (j - (i - 1)) = j + 1
      BY <2>3, <1>0
    <3>2. b[j - (i - 1)] = q[j + 1]
      BY <3>1, <1>2
    <3> QED
      BY <2>1, <2>3, <3>2, <1>0
  <2> QED
    BY <2>2, <2>3
<1>5. RemoveAt(q, i) = a \o b
  BY DEF RemoveAt, a, b
<1> QED
  BY <1>0, <1>1, <1>2, <1>3, <1>4, <1>5

\* It holds before any call: no routine is queued, held or being created.
LEMMA InitIInv == Init => IInv
<1> SUFFICES ASSUME Init PROVE IInv
  OBVIOUS
<1>1. TypeOK
  <2>1. todo \in [Callers -> Seq([call : Calls, id : Ids])]
    BY PlansAssumption DEF Init
  <2>2. queue \in [Prios -> Seq(Routines)]
    BY DEF Init
  <2>3. prio \in [Processors -> Prios]
    BY PrioAssumption DEF Init, Prios
  <2>4. TableTyped /\ RoutinesTyped
    BY <2>2 DEF Init, TableTyped, RoutinesTyped, States
  <2>5. ProcessorsTyped
    BY <2>3 DEF Init, ProcessorsTyped
  <2>6. CallersTyped
    <3> (CHOOSE i \in Ids : TRUE) \in Ids
      BY RoutinesAssumption
    <3> QED
      BY <2>1 DEF Init, CallersTyped
  <2> QED
    BY <2>4, <2>5, <2>6 DEF TypeOK
<1>2. \A k \in Prios : Len(queue[k]) = 0
  BY DEF Init
<1>3. QueuedOnce
  BY <1>2 DEF QueuedOnce
<1>4. \A p \in Processors : ~Holds(p)
  BY DEF Init, Holds
<1>5. \A c \in Callers : ~Creating(c)
  BY DEF Init, Creating
<1> QED
  BY <1>1, <1>3, <1>4, <1>5
     DEF Init, IInv, Busy, HoldersKnown, QueuedLocked, Newcomers, OneRunner

-----------------------------------------------------------------------------
(* Steps of the processors. *)

\* The steps that only move a processor which holds nothing.
Moves(p) == \/ LoopTest(p) \/ StartScan(p) \/ EnterQueue(p) \/ AcquireFails(p)
            \/ EndOfQueue(p) \/ Wait(p) \/ WaitReturns(p)

LEMMA MoveStep ==
  ASSUME IInv, NEW p \in Processors, Moves(p)
  PROVE  IInv'
<1> USE DEF IInv
<1>1. TypeOK'
  <2>1. UNCHANGED <<table, queue, flags, stack, visitor, at, todo, locals>>
    BY DEF Moves, LoopTest, StartScan, EnterQueue, AcquireFails, EndOfQueue,
       Wait, WaitReturns, ProcessorGoes
  <2>2. ProcessorsTyped'
    <3> USE PrioAssumption DEF TypeOK, ProcessorsTyped, Prios
    <3>1. CASE LoopTest(p)
      BY <3>1 DEF LoopTest, ProcessorGoes
    <3>2. CASE StartScan(p)
      BY <3>2 DEF StartScan, ProcessorGoes
    <3>3. CASE EnterQueue(p)
      BY <3>3 DEF EnterQueue, ProcessorGoes
    <3>4. CASE AcquireFails(p)
      BY <3>4 DEF AcquireFails, ProcessorGoes
    <3>5. CASE EndOfQueue(p)
      BY <3>5 DEF EndOfQueue, ProcessorGoes
    <3>6. CASE Wait(p)
      BY <3>6 DEF Wait
    <3>7. CASE WaitReturns(p)
      BY <3>7 DEF WaitReturns, Awaken
    <3> QED
      BY <3>1, <3>2, <3>3, <3>4, <3>5, <3>6, <3>7 DEF Moves
  <2> QED
    BY <2>1, <2>2 DEF TypeOK, TableTyped, RoutinesTyped, CallersTyped
<1>2. /\ \A q \in Processors : Holds(q)' => Holds(q) /\ cur'[q] = cur[q]
      /\ UNCHANGED <<queue, lock, state, at, todo, locals>>
  BY DEF TypeOK, ProcessorsTyped, Moves, LoopTest, StartScan, EnterQueue, AcquireFails,
     EndOfQueue, Wait, WaitReturns, ProcessorGoes, Awaken, Holds, Asleep
<1>3. /\ \A c \in Callers : Creating(c)' = Creating(c)
      /\ \A r : InQueue(r)' = InQueue(r)
  BY <1>2 DEF Creating, Call, InQueue
<1> QED
  BY <1>1, <1>2, <1>3 DEF Busy, Call, HoldersKnown, QueuedOnce,
     QueuedLocked, Newcomers, OneRunner

\* The steps of a processor that keeps the routine it holds.
Works(p) == \/ Examine(p) \/ Resume(p) \/ AwaitData(p) \/ TryFetch(p)
            \/ FetchFails(p) \/ CallbackSleeps(p) \/ CallbackReturns(p)

LEMMA WorkStep ==
  ASSUME IInv, NEW p \in Processors, Works(p)
  PROVE  IInv'
<1> USE DEF IInv
<1> DEFINE r == cur[p]
<1>1. /\ Holds(p) /\ Holds(p)'
      /\ \A q \in Processors : q # p => pc'[q] = pc[q]
      /\ UNCHANGED <<table, queue, lock, force_stop, notifier, scan, context,
                     callerIdle>>
  BY DEF TypeOK, ProcessorsTyped, Works, Examine, Resume, AwaitData, TryFetch,
     FetchFails, CallbackSleeps, CallbackReturns, ProcessorGoes, InBody,
     YieldTo, Holds
<1>2. r \in Routines /\ state[r] # "none"
  BY <1>1 DEF HoldersKnown
<1>3. /\ RoutinesTyped' /\ state'[r] # "none"
      /\ \A s \in Routines : s # r => state'[s] = state[s]
  <2> USE <1>2 DEF TypeOK, RoutinesTyped, States
  <2>1. CASE Examine(p)
    BY <2>1 DEF Examine, UpdatedState
  <2>2. CASE Resume(p)
    BY <2>2 DEF Resume, ProcessorGoes
  <2>3. CASE AwaitData(p)
    BY <2>3 DEF AwaitData
  <2>4. CASE TryFetch(p)
    BY <2>4 DEF TryFetch
  <2>5. CASE FetchFails(p)
    BY <2>5 DEF FetchFails
  <2>6. CASE CallbackSleeps(p)
    BY <2>6 DEF CallbackSleeps, YieldTo
  <2>7. CASE CallbackReturns(p)
    BY <2>7 DEF CallbackReturns, YieldTo
  <2> QED
    BY <2>1, <2>2, <2>3, <2>4, <2>5, <2>6, <2>7 DEF Works
<1>4. ProcessorsTyped'
  <2> USE <1>1 DEF TypeOK, ProcessorsTyped
  <2>1. CASE Examine(p)
    BY <2>1 DEF Examine
  <2>2. CASE Resume(p)
    BY <2>2 DEF Resume, ProcessorGoes
  <2>3. CASE AwaitData(p) \/ TryFetch(p)
    BY <2>3 DEF AwaitData, TryFetch
  <2>4. CASE FetchFails(p) \/ CallbackSleeps(p) \/ CallbackReturns(p)
    BY <2>4 DEF FetchFails, CallbackSleeps, CallbackReturns, YieldTo
  <2> QED
    BY <2>1, <2>2, <2>3, <2>4 DEF Works
<1>5. TypeOK'
  BY <1>1, <1>3, <1>4 DEF TypeOK, TableTyped, CallersTyped
<1>6. /\ \A q \in Processors : Holds(q)' = Holds(q) /\ cur'[q] = cur[q]
      /\ \A s \in Routines : state[s] # "none" => state'[s] # "none"
      /\ \A c \in Callers : Creating(c)' = Creating(c)
      /\ \A s : InQueue(s)' = InQueue(s)
  BY <1>1, <1>2, <1>3 DEF Holds, Creating, Call, InQueue
<1>7. QueuedOnce'
  <2>1. \A k \in Prios : \A i \in 1..Len(queue[k]) : queue[k][i] \in Routines
    BY DEF TypeOK, TableTyped
  <2> QED
    BY <1>1, <1>6, <2>1 DEF QueuedOnce
<1> QED
  BY <1>1, <1>5, <1>6, <1>7
     DEF Busy, Call, HoldersKnown, QueuedLocked, Newcomers, OneRunner

\* The end of a hold.
LEMMA ReleaseStep ==
  ASSUME IInv, NEW p \in Processors, LetGo(p) \/ Release(p)
  PROVE  IInv'
<1> USE DEF IInv
<1>1. /\ Holds(p) /\ ~Holds(p)'
      /\ \A q \in Processors : q # p => pc'[q] = pc[q] /\ cur'[q] = cur[q]
      /\ lock' = [lock EXCEPT ![cur[p]] = FALSE]
      /\ UNCHANGED <<table, queue, state, updated, force_stop, stack, visitor,
                     context, need_sleep, callerIdle>>
  BY DEF TypeOK, ProcessorsTyped, LetGo, Release, ProcessorGoes, Holds
<1>2. ProcessorsTyped'
  <2> USE DEF TypeOK, ProcessorsTyped
  <2>1. CASE LetGo(p)
    BY <2>1 DEF LetGo, ProcessorGoes
  <2>2. CASE Release(p)
    BY <2>2 DEF Release, ProcessorGoes
  <2> QED
    BY <2>1, <2>2
<1>3. TypeOK'
  BY <1>1, <1>2 DEF TypeOK, TableTyped, RoutinesTyped, CallersTyped
<1>4. /\ \A q \in Processors : Holds(q)' => q # p /\ Holds(q) /\ cur'[q] = cur[q]
      /\ \A c \in Callers : Creating(c)' = Creating(c)
      /\ \A s : InQueue(s)' = InQueue(s)
  BY <1>1 DEF Holds, Creating, Call, InQueue
<1>5. QueuedLocked'
  <2> SUFFICES ASSUME NEW q \in Processors, Holds(q)', InQueue(cur[q])'
               PROVE  lock'[cur'[q]]
    BY DEF QueuedLocked
  <2>0. InQueue(cur[q])' = InQueue(cur[q])
    BY <1>1, <1>4 DEF InQueue
  <2>1. cur[q] # cur[p] /\ lock[cur[q]] /\ cur[q] \in Routines
    BY <1>1, <1>4, <2>0 DEF OneRunner, QueuedLocked, HoldersKnown
  <2> QED
    BY <1>1, <1>4, <2>1 DEF TypeOK, RoutinesTyped
<1> QED
  BY <1>1, <1>3, <1>4, <1>5
     DEF Busy, Call, HoldersKnown, QueuedOnce, Newcomers, OneRunner

\* A processor takes a routine it finds unlocked in the queue: nobody holds it.
LEMMA AcquireStep ==
  ASSUME IInv, NEW p \in Processors, Acquire(p)
  PROVE  IInv'
<1> USE DEF IInv
<1> DEFINE r == queue[prio[p]][pos[p]]
<1>1. prio[p] \in Prios /\ pos[p] \in 1..Len(queue[prio[p]]) /\ r \in Routines
  BY DEF Acquire, AtRoutine, TypeOK, TableTyped, ProcessorsTyped
<1>2. InQueue(r) /\ ~lock[r] /\ state[r] # "none"
  BY <1>1 DEF InQueue, QueuedOnce, Acquire
<1> HIDE DEF r
<1>3. /\ pc[p] = "scan" /\ pc' = [pc EXCEPT ![p] = "examine"]
      /\ cur' = [cur EXCEPT ![p] = r] /\ lock' = [lock EXCEPT ![r] = TRUE]
      /\ UNCHANGED <<table, queue, state, updated, force_stop, stack, visitor,
                     context, need_sleep, prio, pos, callerIdle>>
  BY DEF Acquire, ProcessorGoes, r
<1>4. TypeOK'
  BY <1>1, <1>3 DEF TypeOK, TableTyped, RoutinesTyped, ProcessorsTyped, CallersTyped
<1>5. \A q \in Processors : Holds(q) => cur[q] # r
  BY <1>2 DEF QueuedLocked
<1>6. /\ cur'[p] = r /\ ~Holds(p)
      /\ \A q \in Processors : q # p => Holds(q)' = Holds(q) /\ cur'[q] = cur[q]
      /\ \A c \in Callers : Creating(c)' = Creating(c)
      /\ \A s : InQueue(s)' = InQueue(s)
  BY <1>3 DEF TypeOK, ProcessorsTyped, Holds, Creating, Call, InQueue
<1>7. OneRunner'
  BY <1>5, <1>6 DEF OneRunner
<1>8. HoldersKnown' /\ QueuedLocked'
  BY <1>1, <1>2, <1>3, <1>6 DEF HoldersKnown, QueuedLocked, TypeOK, RoutinesTyped
<1>9. Newcomers'
  BY <1>2, <1>3, <1>6 DEF Newcomers
<1> QED
  BY <1>3, <1>4, <1>7, <1>8, <1>9 DEF Busy, Call, QueuedOnce

-----------------------------------------------------------------------------
(* Steps of the callers. *)

\* What a call in progress and its end are made of.
LEMMA CallTyped ==
  ASSUME IInv, NEW c \in Callers, todo[c] # <<>>
  PROVE  /\ Call(c) \in [call : Calls, id : Ids]
         /\ [todo EXCEPT ![c] = Tail(@)] \in
              [Callers -> Seq([call : Calls, id : Ids])]
<1>1. todo \in [Callers -> Seq([call : Calls, id : Ids])]
  BY DEF IInv, TypeOK, CallersTyped
<1>2. /\ Head(todo[c]) \in [call : Calls, id : Ids]
      /\ Tail(todo[c]) \in Seq([call : Calls, id : Ids])
  BY <1>1, HeadTailProperties
<1> QED
  BY <1>1, <1>2 DEF Call

\* A step of a call that goes on at another place or returns.
LEMMA GoesTyped ==
  ASSUME IInv, NEW c \in Callers, todo[c] # <<>>,
         \/ Return(c)
         \/ \E place \in {"push", "stopping", "lock", "join", "lookup"} : Goto(c, place),
         arg' \in [Callers -> Ids], UNCHANGED new,
         callbacks' \in [Callers -> SUBSET Routines],
         left' \in [Callers -> SUBSET Processors],
         cr_list' \in [Callers -> SUBSET Ids],
         joining' \in [Callers -> Processors \cup {None}]
  PROVE  CallersTyped'
<1> USE DEF IInv, TypeOK, CallersTyped
<1>1. CASE Return(c)
  BY <1>1, CallTyped DEF Return
<1>2. CASE \E place \in {"push", "stopping", "lock", "join", "lookup"} : Goto(c, place)
  BY <1>2 DEF Goto
<1> QED
  BY <1>1, <1>2

\* Waking processors keeps their variables in range, whoever does it.
LEMMA AwakenTyped ==
  ASSUME TypeOK, NEW S, Awaken(S), UNCHANGED <<scan, running>>,
         ctx_stop' \in [Processors -> BOOLEAN]
  PROVE  ProcessorsTyped'
  BY DEF TypeOK, ProcessorsTyped, Awaken

\* So does notify_one, which may find nobody to wake.
LEMMA NotifyTyped ==
  ASSUME TypeOK, Notify, UNCHANGED <<scan, context>>
  PROVE  ProcessorsTyped'
<1> USE DEF TypeOK, ProcessorsTyped
<1>1. CASE \E p \in Asleep : Awaken({p})
  BY <1>1, AwakenTyped
<1>2. CASE UNCHANGED <<pc, need_sleep>>
  BY <1>2
<1> QED
  BY <1>1, <1>2 DEF Notify

\* The steps that touch no queue, no lock and no routine's state.
Asks(c) ==
  \/ LockId(c) \/ Insert(c) \/ Announce(c) \/ Register(c) \/ NotifyTask(c)
  \/ Fill(c) \/ NotifyVisitors(c) \/ Callback(c) \/ Lookup(c) \/ SetUpdateFlag(c)
  \/ Poke(c) \/ RemoveTask(c) \/ Erase(c) \/ Shutdown(c) \/ ShutdownContexts(c)
  \/ Collect(c) \/ RemoveNext(c) \/ RemovedAll(c) \/ StopProcessor(c) \/ Join(c)

\* They keep every variable in range.
LEMMA AskTypes ==
  ASSUME IInv, NEW c \in Callers, Asks(c)
  PROVE  TypeOK'
<1> USE DEF TypeOK
<1>1. TypeOK /\ Busy /\ Newcomers
  BY DEF IInv
<1>2. todo[c] # <<>>
  BY <1>1 DEF Busy, Begins, Asks, LockId, Insert, Announce, Register, NotifyTask, Fill, NotifyVisitors, Callback, Lookup, SetUpdateFlag, Poke, RemoveTask, Erase, Shutdown, ShutdownContexts, Collect, RemoveNext, RemovedAll, StopProcessor, Join
<1>3. /\ Call(c) \in [call : Calls, id : Ids]
      /\ [todo EXCEPT ![c] = Tail(@)] \in
              [Callers -> Seq([call : Calls, id : Ids])]
  BY <1>2, CallTyped
<1>4. CASE LockId(c)
  BY <1>1, <1>3, <1>4 DEF TableTyped, RoutinesTyped, ProcessorsTyped, CallersTyped, LockId, Goto
<1>5. CASE Insert(c)
  <2>1. at[c] = "insert" => new[c] \in Routines
    BY <1>1 DEF TableTyped, RoutinesTyped, ProcessorsTyped, CallersTyped, Newcomers, Creating
  <2>2. TableTyped' /\ RoutinesTyped' /\ ProcessorsTyped'
    <3>1. TableTyped'
      BY <1>1, <1>5, <2>1 DEF TableTyped, CallersTyped, Insert, Unlocked
    <3>2. RoutinesTyped' /\ ProcessorsTyped'
      BY <1>1, <1>5 DEF RoutinesTyped, ProcessorsTyped, Insert
    <3> QED
      BY <3>1, <3>2
  <2>3. CallersTyped'
    BY <1>1, <1>2, <1>5, GoesTyped DEF CallersTyped, Insert
  <2> QED
    BY <2>2, <2>3
<1>6. CASE Announce(c)
  <2>1. TableTyped' /\ RoutinesTyped'
    BY <1>1, <1>6 DEF TableTyped, RoutinesTyped, Announce, Unlocked
  <2>2. ProcessorsTyped'
    BY <1>1, <1>6, NotifyTyped DEF Announce
  <2>3. CallersTyped'
    BY <1>1, <1>3, <1>6 DEF CallersTyped, Announce, Goto, Unlocked
  <2> QED
    BY <2>1, <2>2, <2>3
<1>7. CASE Register(c)
  <2>1. TableTyped' /\ RoutinesTyped'
    <3>1. (new[c] \in Visitors) \in BOOLEAN
      OBVIOUS
    <3> QED
      BY <1>1, <1>7, <3>1, Zenon DEF TableTyped, RoutinesTyped, Register
  <2>2. ProcessorsTyped'
    BY <1>1, <1>7 DEF ProcessorsTyped, Register
  <2>3. CallersTyped'
    BY <1>1, <1>3, <1>7 DEF CallersTyped, Register, Return
  <2> QED
    BY <2>1, <2>2, <2>3
<1>8. CASE NotifyTask(c)
  <2>1. TableTyped' /\ RoutinesTyped' /\ ProcessorsTyped'
    BY <1>1, <1>8 DEF TableTyped, RoutinesTyped, ProcessorsTyped, NotifyTask
  <2>2. /\ Return(c) \/ Goto(c, "lookup")
        /\ arg' = [arg EXCEPT ![c] = Call(c).id] /\ UNCHANGED <<new, loops>>
    BY <1>8 DEF NotifyTask
  <2>3. CallersTyped'
    BY <1>1, <1>3, <2>2 DEF CallersTyped, Goto, Return
  <2> QED
    BY <2>1, <2>3
<1>9. CASE Fill(c)
  BY <1>1, <1>3, <1>9 DEF TableTyped, RoutinesTyped, ProcessorsTyped, CallersTyped, Fill, Goto, Begins
<1>10. CASE NotifyVisitors(c)
  BY <1>1, <1>3, <1>10 DEF TableTyped, RoutinesTyped, ProcessorsTyped, CallersTyped, NotifyVisitors, Goto
<1>11. CASE Callback(c)
  <2>1. TableTyped' /\ RoutinesTyped'
    BY <1>1, <1>11 DEF TableTyped, RoutinesTyped, Callback
  <2>2. ProcessorsTyped'
    BY <1>1, <1>11 DEF ProcessorsTyped, Callback
  <2>3. CallersTyped'
    <3>1. callbacks' \in [Callers -> SUBSET Routines]
      BY <1>1, <1>11 DEF CallersTyped, Callback
    <3> QED
      BY <1>1, <1>2, <1>11, <3>1, GoesTyped DEF CallersTyped, Callback
  <2> QED
    BY <2>1, <2>2, <2>3
<1>12. CASE Lookup(c)
  <2>1. TableTyped' /\ RoutinesTyped' /\ ProcessorsTyped'
    BY <1>1, <1>12 DEF TableTyped, RoutinesTyped, ProcessorsTyped, Lookup
  <2>2. /\ Return(c) \/ \E to \in {"flag", "poke", "callbacks", "removing"} : Goto(c, to)
        /\ UNCHANGED locals
    BY <1>12 DEF Lookup, Done
  <2>3. CallersTyped'
    BY <1>1, <1>3, <2>2 DEF CallersTyped, Goto, Return
  <2> QED
    BY <2>1, <2>3
<1>13. CASE SetUpdateFlag(c)
  BY <1>1, <1>3, <1>13 DEF TableTyped, RoutinesTyped, ProcessorsTyped, CallersTyped, SetUpdateFlag, Goto
<1>14. CASE Poke(c)
  <2>1. TableTyped' /\ RoutinesTyped'
    BY <1>1, <1>14 DEF TableTyped, RoutinesTyped, Poke
  <2>2. ProcessorsTyped'
    BY <1>1, <1>14, NotifyTyped DEF Poke
  <2>3. CallersTyped'
    BY <1>1, <1>3, <1>14 DEF CallersTyped, Poke, Goto, Return, Done
  <2> QED
    BY <2>1, <2>2, <2>3
<1>15. CASE RemoveTask(c)
  <2>1. TableTyped' /\ RoutinesTyped' /\ ProcessorsTyped'
    BY <1>1, <1>15 DEF TableTyped, RoutinesTyped, ProcessorsTyped, RemoveTask
  <2>2. /\ Return(c) \/ Goto(c, "lock")
        /\ arg' = [arg EXCEPT ![c] = Call(c).id] /\ UNCHANGED <<new, loops>>
    BY <1>15 DEF RemoveTask
  <2>3. CallersTyped'
    BY <1>1, <1>3, <2>2 DEF CallersTyped, Goto, Return
  <2> QED
    BY <2>1, <2>3
<1>16. CASE Erase(c)
  <2>1. TableTyped'
    BY <1>1, <1>16 DEF TableTyped, Erase, Unlocked
  <2>2. RoutinesTyped'
    BY <1>1, <1>16 DEF RoutinesTyped, Erase, Stop
  <2>3. ProcessorsTyped'
    BY <1>1, <1>16 DEF ProcessorsTyped, Erase
  <2>4. Goto(c, "unlink") \/ Done(c)
    BY <1>16 DEF Erase
  <2>5. CallersTyped'
    BY <1>1, <1>3, <1>16, <2>4 DEF CallersTyped, Erase, Goto, Return, Done
  <2> QED
    BY <2>1, <2>2, <2>3, <2>5
<1>17. CASE Shutdown(c)
  <2>1. TableTyped' /\ RoutinesTyped'
    BY <1>1, <1>17 DEF TableTyped, RoutinesTyped, Shutdown
  <2>2. ProcessorsTyped'
    BY <1>1, <1>17 DEF ProcessorsTyped, Shutdown
  <2>3. CallersTyped'
    <3>1. /\ Return(c) \/ Goto(c, "contexts")
          /\ UNCHANGED left \/ left' = [left EXCEPT ![c] = Processors]
          /\ UNCHANGED <<arg, new, callbacks, cr_list, joining>>
      BY <1>17 DEF Shutdown
    <3>2. at' \in [Callers -> {"idle", "lock", "insert", "push", "announce",
                               "register", "notify", "callbacks", "lookup", "flag", "poke",
                               "erase", "unlink", "contexts", "collect", "removing",
                               "stopping", "join"}]
      BY <1>1, <3>1 DEF CallersTyped, Goto, Return
    <3>3. todo' \in [Callers -> Seq([call : Calls, id : Ids])]
      BY <1>1, <1>3, <3>1 DEF CallersTyped, Goto, Return
    <3>4. left' \in [Callers -> SUBSET Processors]
      BY <1>1, <3>1 DEF CallersTyped
    <3> QED
      BY <1>1, <3>1, <3>2, <3>3, <3>4 DEF CallersTyped
  <2> QED
    BY <2>1, <2>2, <2>3
<1>18. CASE ShutdownContexts(c)
  <2>1. TableTyped' /\ RoutinesTyped'
    BY <1>1, <1>18 DEF TableTyped, RoutinesTyped, ShutdownContexts
  <2>2. ProcessorsTyped'
    <3>1. ctx_stop' \in [Processors -> BOOLEAN]
      BY <1>1, <1>18 DEF ShutdownContexts, ShutdownContext, ProcessorsTyped
    <3> QED
      BY <1>1, <1>18, <3>1, AwakenTyped DEF ShutdownContexts, ShutdownContext
  <2>3. CallersTyped'
    BY <1>1, <1>3, <1>18 DEF CallersTyped, ShutdownContexts, Goto
  <2> QED
    BY <2>1, <2>2, <2>3
<1>19. CASE Collect(c)
  BY <1>1, <1>3, <1>19 DEF TableTyped, RoutinesTyped, ProcessorsTyped, CallersTyped, Collect, Goto
<1>20. CASE RemoveNext(c)
  <2>1. TableTyped' /\ RoutinesTyped' /\ ProcessorsTyped'
    BY <1>1, <1>20 DEF TableTyped, RoutinesTyped, ProcessorsTyped, RemoveNext
  <2>2. CallersTyped'
    <3>1. /\ arg' \in [Callers -> Ids]
          /\ cr_list' \in [Callers -> SUBSET Ids]
      BY <1>1, <1>20 DEF CallersTyped, RemoveNext
    <3> QED
      BY <1>1, <1>2, <1>20, <3>1, GoesTyped DEF CallersTyped, RemoveNext
  <2> QED
    BY <2>1, <2>2
<1>21. CASE RemovedAll(c)
  <2>1. TableTyped' /\ RoutinesTyped' /\ ProcessorsTyped'
    BY <1>1, <1>21 DEF TableTyped, RoutinesTyped, ProcessorsTyped, RemovedAll
  <2>2. Processors \in SUBSET Processors
    OBVIOUS
  <2>3. CallersTyped'
    BY <1>1, <1>21, <2>2 DEF CallersTyped, RemovedAll, Goto
  <2> QED
    BY <2>1, <2>3
<1>22. CASE StopProcessor(c)
  <2>1. TableTyped' /\ RoutinesTyped'
    BY <1>1, <1>22 DEF TableTyped, RoutinesTyped, StopProcessor
  <2>2. ProcessorsTyped'
    BY <1>1, <1>22 DEF ProcessorsTyped, StopProcessor, ShutdownContext, Awaken
  <2>3. CallersTyped'
    <3>1. PICK p \in left[c] :
            /\ running' = [running EXCEPT ![p] = FALSE]
            /\ left' = [left EXCEPT ![c] = @ \ {p}]
            /\ joining' = [joining EXCEPT ![c] = p]
      BY <1>22 DEF StopProcessor
    <3>2. p \in Processors
      BY <1>1 DEF CallersTyped
    <3>3. /\ left' \in [Callers -> SUBSET Processors]
          /\ joining' \in [Callers -> Processors \cup {None}]
      BY <1>1, <3>1, <3>2 DEF CallersTyped
    <3> QED
      BY <1>1, <1>2, <1>22, <3>3, GoesTyped DEF CallersTyped, StopProcessor
  <2> QED
    BY <2>1, <2>2, <2>3
<1>23. CASE Join(c)
  <2>1. TableTyped' /\ RoutinesTyped' /\ ProcessorsTyped'
    BY <1>1, <1>23 DEF TableTyped, RoutinesTyped, ProcessorsTyped, Join
  <2>2. CallersTyped'
    BY <1>1, <1>2, <1>23, GoesTyped DEF CallersTyped, Join
  <2> QED
    BY <2>1, <2>2
<1> QED
  BY <1>4, <1>5, <1>6, <1>7, <1>8, <1>9, <1>10, <1>11, <1>12, <1>13, <1>14,
     <1>15, <1>16, <1>17, <1>18, <1>19, <1>20, <1>21, <1>22, <1>23 DEF Asks

\* Nor do they touch what processors hold or what other calls are about.
LEMMA AskStep ==
  ASSUME IInv, NEW c \in Callers, Asks(c)
  PROVE  IInv'
<1>1. TypeOK /\ Busy /\ TypeOK'
  BY AskTypes DEF IInv
<1>2. \A p \in Processors : Holds(p)' = Holds(p)
  <2>1. CASE UNCHANGED pc
    BY <2>1 DEF Holds
  <2>2. CASE \E S \in SUBSET Asleep : Awaken(S)
    BY <2>2, <1>1 DEF Holds, Asleep, Awaken, TypeOK, ProcessorsTyped
  <2> QED
    BY <2>1, <2>2 DEF Asks, LockId, Insert, Announce, Register, NotifyTask,
       Fill, NotifyVisitors, Callback, Lookup, SetUpdateFlag, Poke,
       RemoveTask, Erase, Shutdown, ShutdownContexts, Collect, RemoveNext,
       RemovedAll, StopProcessor, Join, Notify, ShutdownContext
<1>3. UNCHANGED <<queue, lock, state, cur, new>>
  BY DEF Asks, LockId, Insert, Announce, Register, NotifyTask, Fill,
     NotifyVisitors, Callback, Lookup, SetUpdateFlag, Poke, RemoveTask,
     Erase, Shutdown, ShutdownContexts, Collect, RemoveNext, RemovedAll, StopProcessor,
     Join
<1>4. /\ \A d \in Callers \ {c} : /\ at'[d] = at[d] /\ todo'[d] = todo[d]
      /\ Creating(c)' => Creating(c)
      /\ at'[c] # "idle" => todo'[c] = todo[c] /\ todo[c] # <<>>
      /\ at'[c] \in {"contexts", "collect", "removing", "stopping", "join"}
           => Call(c).call = "Shutdown"
  <2> USE <1>1 DEF TypeOK, CallersTyped, Busy, Creating, Call, Goto
  <2>1. CASE LockId(c)
    BY <2>1 DEF LockId
  <2>2. CASE Insert(c)
    BY <2>2 DEF Insert, Return
  <2>3. CASE Announce(c)
    BY <2>3 DEF Announce
  <2>4. CASE Register(c)
    BY <2>4 DEF Register, Return
  <2>5. CASE NotifyTask(c)
    BY <2>5 DEF NotifyTask, Return, Begins
  <2>6. CASE Fill(c)
    BY <2>6 DEF Fill, Begins
  <2>7. CASE NotifyVisitors(c)
    BY <2>7 DEF NotifyVisitors
  <2>8. CASE Callback(c)
    BY <2>8 DEF Callback, Return
  <2>9. CASE Lookup(c)
    BY <2>9 DEF Lookup, Return, Done
  <2>10. CASE SetUpdateFlag(c)
    BY <2>10 DEF SetUpdateFlag
  <2>11. CASE Poke(c)
    BY <2>11 DEF Poke, Return, Done
  <2>12. CASE RemoveTask(c)
    BY <2>12 DEF RemoveTask, Return, Begins
  <2>13. CASE Erase(c)
    BY <2>13 DEF Erase, Return, Done
  <2>14. CASE Shutdown(c)
    BY <2>14 DEF Shutdown, Return, Begins
  <2>15. CASE ShutdownContexts(c)
    BY <2>15 DEF ShutdownContexts
  <2>16. CASE Collect(c)
    BY <2>16 DEF Collect
  <2>17. CASE RemoveNext(c)
    BY <2>17 DEF RemoveNext
  <2>18. CASE StopProcessor(c)
    BY <2>18 DEF StopProcessor
  <2>19. CASE Join(c)
    BY <2>19 DEF Join, Return
  <2>20. CASE RemovedAll(c)
    BY <2>20 DEF RemovedAll
  <2> QED
    BY <2>1, <2>2, <2>3, <2>4, <2>5, <2>6, <2>7, <2>8, <2>9, <2>10, <2>11,
       <2>12, <2>13, <2>14, <2>15, <2>16, <2>17, <2>18, <2>19, <2>20 DEF Asks
<1>5. /\ \A d \in Callers : Creating(d)' => Creating(d)
      /\ \A r : InQueue(r)' = InQueue(r)
  BY <1>3, <1>4 DEF Creating, Call, InQueue
<1>6. Busy'
  BY <1>1, <1>4 DEF Busy, Call
<1> QED
  BY <1>1, <1>2, <1>3, <1>5, <1>6
     DEF IInv, HoldersKnown, QueuedOnce, QueuedLocked, Newcomers, OneRunner

\* CreateTask makes a routine nobody has seen.
LEMMA CreateStep ==
  ASSUME IInv, NEW c \in Callers, CreateTask(c)
  PROVE  IInv'
<1> USE DEF IInv
<1>1. /\ todo[c] # <<>> /\ at[c] = "idle" /\ Call(c).call = "CreateTask"
      /\ UNCHANGED <<table, queue, lock, cur, pc>>
  BY DEF CreateTask, Begins
<1>2. /\ Call(c) \in [call : Calls, id : Ids]
      /\ [todo EXCEPT ![c] = Tail(@)] \in
              [Callers -> Seq([call : Calls, id : Ids])]
  BY <1>1, CallTyped
<1>3. /\ \A p \in Processors : Holds(p)' = Holds(p)
      /\ \A r : InQueue(r)' = InQueue(r)
  BY <1>1 DEF Holds, InQueue
<1>4. CASE stop /\ Return(c) /\ UNCHANGED <<state, arg, new>>
  <2>1. TypeOK'
    BY <1>2, <1>4 DEF CreateTask, Return, TypeOK, TableTyped, RoutinesTyped,
       ProcessorsTyped, CallersTyped
  <2>2. /\ \A d \in Callers : Creating(d)' => Creating(d)
        /\ Busy'
    BY <1>4, <1>1 DEF Return, TypeOK, CallersTyped, Creating, Call, Busy
  <2> QED
    BY <1>1, <1>3, <1>4, <2>1, <2>2
       DEF HoldersKnown, QueuedOnce, QueuedLocked, Newcomers, OneRunner
<1>5. CASE ~(stop /\ Return(c) /\ UNCHANGED <<state, arg, new>>)
  <2>1. PICK r \in Routines :
          /\ state[r] = "none" /\ state' = [state EXCEPT ![r] = "READY"]
          /\ new' = [new EXCEPT ![c] = r]
          /\ arg' = [arg EXCEPT ![c] = Call(c).id] /\ Goto(c, "lock")
    BY <1>5 DEF CreateTask
  <2>2. UNCHANGED <<updated, force_stop, stack, visitor, processorIdle, loops>>
    BY DEF CreateTask
  <2>3. TypeOK'
    <3>1. TableTyped' /\ ProcessorsTyped'
      BY <1>1, <2>2 DEF TypeOK, TableTyped, ProcessorsTyped
    <3>2. RoutinesTyped'
      BY <1>1, <2>1, <2>2 DEF TypeOK, RoutinesTyped, States
    <3>3. CallersTyped'
      BY <1>2, <2>1, <2>2 DEF TypeOK, CallersTyped, Goto
    <3> QED
      BY <3>1, <3>2, <3>3 DEF TypeOK
  <2>4. /\ \A k \in Prios : \A i \in 1..Len(queue[k]) : queue[k][i] \in Routines
        /\ \A s \in Routines : s # r => state'[s] = state[s]
        /\ state'[r] = "READY"
    BY <2>1 DEF TypeOK, TableTyped, RoutinesTyped
  <2>5. /\ ~InQueue(r)
        /\ \A p \in Processors : Holds(p) => cur[p] # r
        /\ \A d \in Callers : Creating(d) => new[d] # r
    BY <2>1 DEF InQueue, QueuedOnce, HoldersKnown, Newcomers
  <2>6. /\ \A d \in Callers : d # c => /\ Creating(d)' = Creating(d)
                                       /\ new'[d] = new[d]
        /\ new'[c] = r /\ ~Creating(c) /\ Busy'
    BY <1>1, <2>1 DEF Goto, TypeOK, CallersTyped, Creating, Call, Busy
  <2>7. HoldersKnown' /\ QueuedOnce' /\ QueuedLocked' /\ OneRunner'
    BY <1>1, <1>3, <2>4 DEF HoldersKnown, QueuedOnce, QueuedLocked, OneRunner
  <2>8. Newcomers'
    BY <1>1, <1>3, <2>4, <2>5, <2>6 DEF Newcomers
  <2> QED
    BY <2>3, <2>6, <2>7, <2>8
<1> QED
  BY <1>4, <1>5

\* DispatchTask pushes the routine its call has created.
LEMMA PushStep ==
  ASSUME IInv, NEW c \in Callers, Push(c)
  PROVE  IInv'
<1> USE DEF IInv
<1> DEFINE r == new[c]
           m == PrioOf[arg[c]]
<1>1. /\ at[c] = "push" /\ queue' = [queue EXCEPT ![m] = Append(@, r)]
      /\ at' = [at EXCEPT ![c] = "announce"]
      /\ UNCHANGED <<table, callUnread, locals, todo>>
  BY DEF Push, Goto
<1>2. /\ r \in Routines /\ state[r] # "none" /\ ~InQueue(r)
      /\ \A p \in Processors : Holds(p) => cur[p] # r
      /\ \A d \in Callers : d # c /\ Creating(d) => new[d] # r
  BY <1>1 DEF Newcomers, Creating
<1> HIDE DEF r, m
<1>3. \A k \in Prios :
        /\ queue[k] \in Seq(Routines)
        /\ k # m => queue'[k] = queue[k]
        /\ k = m => /\ queue'[k] \in Seq(Routines)
                    /\ Len(queue'[k]) = Len(queue[k]) + 1
                    /\ \A i \in 1..Len(queue[k]) : queue'[k][i] = queue[k][i]
                    /\ queue'[k][Len(queue[k]) + 1] = r
  <2> SUFFICES ASSUME NEW k \in Prios, k = m
               PROVE  /\ queue[k] \in Seq(Routines)
                      /\ queue'[k] = Append(queue[k], r)
    BY <1>1, <1>2, AppendProperties DEF TypeOK, TableTyped
  <2> QED
    BY <1>1 DEF TypeOK, TableTyped
<1>4. TypeOK'
  <2>1. queue' \in [Prios -> Seq(Routines)]
    BY <1>1, <1>3 DEF TypeOK, TableTyped
  <2> QED
    BY <1>1, <2>1 DEF TypeOK, TableTyped, RoutinesTyped, ProcessorsTyped, CallersTyped
<1>5. \A k \in Prios : \A i \in 1..Len(queue'[k]) :
        \/ i \in 1..Len(queue[k]) /\ queue'[k][i] = queue[k][i]
        \/ k = m /\ i = Len(queue[k]) + 1 /\ queue'[k][i] = r
  <2> SUFFICES ASSUME NEW k \in Prios, NEW i \in 1..Len(queue'[k])
               PROVE  \/ i \in 1..Len(queue[k]) /\ queue'[k][i] = queue[k][i]
                      \/ k = m /\ i = Len(queue[k]) + 1 /\ queue'[k][i] = r
    OBVIOUS
  <2>1. Len(queue[k]) \in Nat
    BY <1>3
  <2> QED
    BY <1>3, <2>1
<1>6. \A k \in Prios : \A i \in 1..Len(queue[k]) : queue[k][i] # r
  BY <1>2 DEF InQueue
<1>7. QueuedOnce'
  <2> SUFFICES ASSUME NEW k \in Prios, NEW l \in Prios,
                      NEW i \in 1..Len(queue'[k]), NEW j \in 1..Len(queue'[l])
               PROVE  /\ state'[queue'[k][i]] # "none"
                      /\ queue'[k][i] = queue'[l][j] => k = l /\ i = j
    BY DEF QueuedOnce
  <2>1. state' = state /\ state[r] # "none"
    BY <1>1, <1>2
  <2>2. /\ \/ i \in 1..Len(queue[k]) /\ queue'[k][i] = queue[k][i]
           \/ k = m /\ i = Len(queue[k]) + 1 /\ queue'[k][i] = r
        /\ \/ j \in 1..Len(queue[l]) /\ queue'[l][j] = queue[l][j]
           \/ l = m /\ j = Len(queue[l]) + 1 /\ queue'[l][j] = r
    BY <1>5
  <2>3. \A a, b \in Prios : \A e \in 1..Len(queue[a]), f \in 1..Len(queue[b]) :
          /\ state[queue[a][e]] # "none"
          /\ queue[a][e] = queue[b][f] => a = b /\ e = f
    BY DEF QueuedOnce
  <2> QED
    BY ONLY <1>6, <2>1, <2>2, <2>3
<1>8. \A s : InQueue(s)' => InQueue(s) \/ s = r
  BY <1>5 DEF InQueue
<1>9. /\ \A p \in Processors : Holds(p)' = Holds(p)
      /\ \A d \in Callers : Creating(d)' => Creating(d) /\ d # c
      /\ Busy'
  BY <1>1 DEF Holds, TypeOK, CallersTyped, Creating, Call, Busy
<1> QED
  BY <1>1, <1>2, <1>4, <1>7, <1>8, <1>9
     DEF HoldersKnown, QueuedLocked, Newcomers, OneRunner

\* RemoveCRoutine clears the lock of a routine only as it leaves the queue.
LEMMA UnlinkStep ==
  ASSUME IInv, NEW c \in Callers, Unlink(c)
  PROVE  IInv'
<1> USE DEF IInv
<1> DEFINE m == PrioOf[arg[c]]
<1>1. PICK n \in 1..Len(queue[m]) :
        /\ force_stop' = [force_stop EXCEPT ![queue[m][n]] = TRUE]
        /\ queue' = [queue EXCEPT ![m] = RemoveAt(@, n)]
        /\ lock' = [lock EXCEPT ![queue[m][n]] = FALSE]
  BY DEF Unlink, Stop
<1>2. /\ at[c] = "unlink" /\ id_cr_wl' = Unlocked(arg[c]) /\ Done(c)
      /\ UNCHANGED <<stop, id_cr, state, updated, stack, visitor,
                     processorIdle, locals>>
  BY DEF Unlink
<1>3. /\ todo[c] # <<>>
      /\ [todo EXCEPT ![c] = Tail(@)] \in
              [Callers -> Seq([call : Calls, id : Ids])]
  BY <1>2, CallTyped DEF Busy
<1> HIDE DEF m
<1>4. \A k \in Prios :
        /\ queue[k] \in Seq(Routines)
        /\ k # m => queue'[k] = queue[k]
        /\ k = m => /\ queue'[k] \in Seq(Routines)
                    /\ Len(queue'[k]) = Len(queue[k]) - 1
                    /\ \A j \in 1..(Len(queue[k]) - 1) : queue'[k][j] =
                         IF j < n THEN queue[k][j] ELSE queue[k][j + 1]
  <2> TAKE k \in Prios
  <2>1. queue[k] \in Seq(Routines)
    BY DEF TypeOK, TableTyped
  <2>2. k # m => queue'[k] = queue[k]
    BY <1>1 DEF TypeOK, TableTyped
  <2>3. CASE k = m
    <3>1. queue'[k] = RemoveAt(queue[k], n) /\ n \in 1..Len(queue[k])
      BY <1>1, <2>3 DEF TypeOK, TableTyped
    <3>2. /\ RemoveAt(queue[k], n) \in Seq(Routines)
          /\ Len(RemoveAt(queue[k], n)) = Len(queue[k]) - 1
          /\ \A j \in 1..(Len(queue[k]) - 1) : RemoveAt(queue[k], n)[j] =
               IF j < n THEN queue[k][j] ELSE queue[k][j + 1]
      BY <2>1, <3>1, Shortened
    <3> QED
      BY <2>1, <2>3, <3>1, <3>2
  <2> QED
    BY <2>1, <2>2, <2>3
<1>5. m \in Prios /\ queue[m][n] \in Routines
  <2>1. arg[c] \in Ids
    BY DEF TypeOK, CallersTyped
  <2>2. m \in Prios
    BY <2>1, RoutinesAssumption DEF m, Prios
  <2> QED
    BY <1>1, <2>2 DEF TypeOK, TableTyped
<1>a. PICK r \in Routines : r = queue[m][n]
  BY <1>5
<1>6. /\ force_stop' = [force_stop EXCEPT ![r] = TRUE]
      /\ lock' = [lock EXCEPT ![r] = FALSE]
  BY <1>1, <1>a
<1>7. TypeOK'
  <2>1. queue' \in [Prios -> Seq(Routines)]
    BY <1>1, <1>4 DEF TypeOK, TableTyped
  <2>2. TableTyped' /\ ProcessorsTyped'
    BY <1>2, <2>1 DEF TypeOK, TableTyped, ProcessorsTyped, Unlocked
  <2>3. RoutinesTyped'
    BY <1>2, <1>6 DEF TypeOK, RoutinesTyped
  <2>4. CallersTyped'
    BY <1>2, <1>3 DEF TypeOK, CallersTyped, Done, Goto, Return
  <2> QED
    BY <2>2, <2>3, <2>4 DEF TypeOK
<1>8. \A k \in Prios : \A i \in 1..Len(queue'[k]) :
        LET o == IF k # m \/ i < n THEN i ELSE i + 1
        IN  o \in 1..Len(queue[k]) /\ queue'[k][i] = queue[k][o]
  <2> TAKE k \in Prios
  <2> TAKE i \in 1..Len(queue'[k])
  <2>1. Len(queue[k]) \in Nat
    BY <1>4
  <2>2. CASE k # m
    BY <2>1, <2>2, <1>4
  <2>3. CASE k = m
    <3>1. Len(queue'[k]) = Len(queue[k]) - 1 /\ n \in Nat
      BY <2>3, <1>4, <1>1
    <3>2. i \in 1..(Len(queue[k]) - 1)
      BY <3>1
    <3>3. queue'[k][i] = IF i < n THEN queue[k][i] ELSE queue[k][i + 1]
      BY <2>3, <3>2, <1>4
    <3> QED
      BY <2>1, <2>3, <3>1, <3>2, <3>3
  <2> QED
    BY <2>2, <2>3
<1>9. \A k \in Prios : \A i \in 1..Len(queue'[k]) : queue'[k][i] # r
  <2> SUFFICES ASSUME NEW k \in Prios, NEW i \in 1..Len(queue'[k]), queue'[k][i] = r
               PROVE  FALSE
    OBVIOUS
  <2>1. PICK o \in 1..Len(queue[k]) : queue[k][o] = r /\ (k = m => o # n)
    <3>1. n \in Nat /\ i \in Nat
      BY <1>1
    <3> DEFINE o == IF k # m \/ i < n THEN i ELSE i + 1
    <3>2. o \in 1..Len(queue[k]) /\ queue[k][o] = r
      BY <1>8
    <3>3. k = m => o # n
      BY ONLY <3>1
    <3> QED
      BY <3>2, <3>3
  <2> QED
    BY <2>1, <1>1, <1>5, <1>a DEF QueuedOnce
<1>10. QueuedOnce'
  <2> SUFFICES ASSUME NEW k \in Prios, NEW l \in Prios,
                      NEW i \in 1..Len(queue'[k]), NEW j \in 1..Len(queue'[l])
               PROVE  /\ state[queue'[k][i]] # "none"
                      /\ queue'[k][i] = queue'[l][j] => k = l /\ i = j
    BY <1>2 DEF QueuedOnce
  <2> DEFINE oi == IF k # m \/ i < n THEN i ELSE i + 1
             oj == IF l # m \/ j < n THEN j ELSE j + 1
  <2>1. /\ oi \in 1..Len(queue[k]) /\ queue'[k][i] = queue[k][oi]
        /\ oj \in 1..Len(queue[l]) /\ queue'[l][j] = queue[l][oj]
    BY <1>8
  <2>2. k = l /\ oi = oj => i = j
    BY <1>1
  <2> QED
    BY <2>1, <2>2 DEF QueuedOnce
<1>11. /\ ~InQueue(r)'
       /\ \A s : InQueue(s)' => InQueue(s)
  BY <1>8, <1>9 DEF InQueue
<1>12. /\ \A p \in Processors : Holds(p)' = Holds(p) /\ cur'[p] = cur[p]
       /\ \A d \in Callers : Creating(d)' => Creating(d) /\ d # c
       /\ Busy'
  BY <1>2, <1>3 DEF Holds, TypeOK, CallersTyped, Creating, Call, Busy, Done,
     Goto, Return
<1>13. QueuedLocked'
  <2> SUFFICES ASSUME NEW p \in Processors, Holds(p), InQueue(cur[p])'
               PROVE  lock'[cur[p]]
    BY <1>12 DEF QueuedLocked
  <2>1. cur[p] # r /\ InQueue(cur[p])
    BY <1>11, <1>2 DEF InQueue
  <2> QED
    BY <2>1, <1>6 DEF QueuedLocked, HoldersKnown, TypeOK, RoutinesTyped
<1> QED
  BY <1>2, <1>7, <1>10, <1>11, <1>12, <1>13
     DEF HoldersKnown, Newcomers, OneRunner

\* Time and stuttering touch nothing the invariant is about.
LEMMA IdleStep ==
  ASSUME IInv, UNCHANGED vars \/ \E r \in Routines : WakeTimePasses(r)
  PROVE  IInv'
<1> USE DEF IInv
<1>1. UNCHANGED <<table, queue, flags, body, visitor, processorIdle, callerIdle>>
  BY DEF vars, WakeTimePasses
<1>2. due' \in [Routines -> BOOLEAN]
  BY DEF vars, WakeTimePasses, TypeOK, RoutinesTyped
<1>3. TypeOK'
  BY <1>1, <1>2 DEF TypeOK, TableTyped, RoutinesTyped, ProcessorsTyped, CallersTyped
<1>4. /\ \A p \in Processors : Holds(p)' = Holds(p)
      /\ \A c \in Callers : Creating(c)' = Creating(c)
      /\ \A r : InQueue(r)' = InQueue(r)
  BY <1>1 DEF Holds, Creating, Call, InQueue
<1> QED
  BY <1>1, <1>3, <1>4 DEF Busy, Call, HoldersKnown, QueuedOnce, QueuedLocked,
     Newcomers, OneRunner

-----------------------------------------------------------------------------
\* The invariant, in every state the scheduler reaches.
THEOREM Inductive == Spec => []IInv
<1>1. IInv /\ [Next]_vars => IInv'
  <2> SUFFICES ASSUME IInv, [Next]_vars PROVE IInv'
    OBVIOUS
  <2>1. CASE UNCHANGED vars \/ \E r \in Routines : WakeTimePasses(r)
    BY <2>1, IdleStep
  <2>2. CASE \E p \in Processors : ProcessorStep(p) \/ WaitReturns(p)
    <3>1. PICK p \in Processors :
            \/ Moves(p) \/ Works(p) \/ LetGo(p) \/ Release(p) \/ Acquire(p)
      BY <2>2 DEF ProcessorStep, Moves, Works
    <3> QED
      BY <3>1, MoveStep, WorkStep, ReleaseStep, AcquireStep
  <2>3. CASE \E c \in Callers : CallerStep(c)
    <3>1. PICK c \in Callers :
            Asks(c) \/ CreateTask(c) \/ Push(c) \/ Unlink(c)
      BY <2>3 DEF CallerStep, Asks
    <3> QED
      BY <3>1, AskStep, CreateStep, PushStep, UnlinkStep
  <2> QED
    BY <2>1, <2>2, <2>3 DEF Next
<1> QED
  BY <1>1, InitIInv, PTL DEF Spec

\* No routine is held, and so none is run, by two processors at once, though
\* RemoveCRoutine unlocks routines that are running.
THEOREM SingleRunner == Spec => []OneRunner
  BY Inductive, PTL DEF IInv

\* Every variable keeps its range: what a processor holds is a routine, what
\* is counted as unread is never below nothing.
THEOREM TypeCorrect == Spec => []TypeOK
  BY Inductive, PTL DEF IInv

-----------------------------------------------------------------------------
(* The table of the tasks against the run queues, and notifications. *)

\* c has the mutex of the id that its call is about.
InLock(c) == at[c] \in {"insert", "push", "announce", "erase", "unlink"}
Mutexes == \A c \in Callers : InLock(c) => id_cr_wl[arg[c]] = c

\* Routines are listed under their own id; a new one is READY.
Named ==
  /\ \A i \in Ids : id_cr[i] # None => IdOf[id_cr[i]] = i
  /\ \A c \in Callers : Creating(c) => IdOf[new[c]] = arg[c] /\ state[new[c]] = "READY"

\* Table and queues agree on an id, except between the two updates of a call.
Between(c, i) == at[c] \in {"push", "unlink"} /\ arg[c] = i
Agreement ==
  /\ \A i \in Ids : (\A c \in Callers : ~Between(c, i)) =>
       \A r \in Routines : IdOf[r] = i => (InQueue(r) <=> id_cr[i] = r)
  /\ \A c \in Callers :
       /\ at[c] = "push" => /\ id_cr[arg[c]] = new[c]
                            /\ \A r \in Routines : IdOf[r] = arg[c] => ~InQueue(r)
       /\ at[c] = "unlink" => /\ id_cr[arg[c]] = None
                              /\ \E r \in Routines : InQueue(r) /\ IdOf[r] = arg[c]
  /\ \A r, s \in Routines : InQueue(r) /\ InQueue(s) /\ IdOf[r] = IdOf[s] => r = s

\* A routine that is held has left its queue only if it was told to stop.
Unstopped == \A p \in Processors : Holds(p) => InQueue(cur[p]) \/ force_stop[cur[p]]

\* Callbacks are those of the visitors of the channel that a Write is about.
Heralds == \A c \in Callers :
  /\ at[c] \in {"notify", "callbacks"} => Call(c).call = "Write"
  /\ callbacks[c] # {} =>
       /\ at[c] \in {"callbacks", "lookup", "flag", "poke"} /\ Call(c).call = "Write"
       /\ \A r \in callbacks[c] : IdOf[r] = arg[c]

\* NotificationKept, whether or not the callback of r is registered by now.
Waits(r) == ~unheard[r] /\ state[r] = "DATA_WAIT" /\ body[r] = "top" /\ unread[r] > 0
Kept == \A r \in Visitors :
  ~stop /\ id_cr[IdOf[r]] = r /\ Waits(r) =>
    ~updated[r] \/ \E c \in Callers : Announcing(c, IdOf[r])

TInv == /\ Mutexes /\ Named /\ Agreement /\ Unstopped /\ ResumesReady /\ Heralds /\ Kept

LEMMA InitTInv == Init => TInv
<1> SUFFICES ASSUME Init PROVE TInv
  OBVIOUS
<1>1. /\ \A r : ~InQueue(r)
      /\ \A p \in Processors : ~Holds(p) /\ pc[p] = "run"
      /\ \A c \in Callers : at[c] = "idle" /\ callbacks[c] = {}
      /\ \A i \in Ids : id_cr[i] = None
      /\ \A r \in Routines : unread[r] = 0
  BY DEF Init, InQueue, Holds
<1>2. Mutexes /\ Named
  BY <1>1 DEF Mutexes, Named, InLock, Creating
<1>3. Agreement
  BY <1>1, NoneAssumption DEF Agreement
<1>4. Unstopped /\ ResumesReady /\ Heralds
  BY <1>1 DEF Unstopped, ResumesReady, Heralds
<1>5. Kept
  BY <1>1, RoutinesAssumption DEF Kept, Waits
<1> QED BY <1>2, <1>3, <1>4, <1>5 DEF TInv

-----------------------------------------------------------------------------
(* Steps of the processors. *)

Processing(p) == \/ Moves(p) \/ Works(p) \/ LetGo(p) \/ Release(p) \/ Acquire(p)

\* What they leave alone; a wait for data that was there is as it was.
LEMMA ProcessingDoes ==
  ASSUME IInv, TInv, NEW p \in Processors, Processing(p)
  PROVE  /\ UNCHANGED <<table, queue, force_stop, notifier, callerIdle>>
         /\ \A s \in Routines : state'[s] = state[s] \/ (Holds(p) /\ s = cur[p])
         /\ \A q \in Processors \ {p} : pc'[q] = pc[q] /\ cur'[q] = cur[q]
         /\ Holds(p)' => \/ Holds(p) /\ cur'[p] = cur[p]
                         \/ cur'[p] \in Routines /\ InQueue(cur'[p])
         /\ pc'[p] = "resume" => state'[cur'[p]] = "READY"
         /\ \A r \in Routines : Waits(r)' => Waits(r) /\ updated'[r] = updated[r]
<1> USE DEF IInv, TypeOK, ProcessorsTyped
<1>1. CASE Moves(p)
  <2>1. /\ UNCHANGED <<table, queue, flags, stack, visitor, callerIdle, cur>>
        /\ \A q \in Processors \ {p} : pc'[q] = pc[q]
        /\ ~Holds(p)' /\ pc'[p] # "resume"
    BY <1>1 DEF Moves, LoopTest, StartScan, EnterQueue, AcquireFails, EndOfQueue,
         Wait, WaitReturns, ProcessorGoes, Holds, Awaken, Asleep
  <2> QED BY <2>1 DEF Waits
<1>2. CASE LetGo(p) \/ Release(p)
  <2>1. /\ UNCHANGED <<table, queue, state, updated, force_stop, stack, visitor, callerIdle>>
        /\ \A q \in Processors \ {p} : pc'[q] = pc[q] /\ cur'[q] = cur[q]
        /\ ~Holds(p)' /\ pc'[p] # "resume"
    BY <1>2 DEF LetGo, Release, ProcessorGoes, Holds
  <2> QED BY <2>1 DEF Waits
<1>3. CASE Acquire(p)
  <2> DEFINE r == queue[prio[p]][pos[p]]
  <2>1. /\ prio[p] \in Prios /\ pos[p] \in 1..Len(queue[prio[p]]) /\ r \in Routines
        /\ InQueue(r)
    BY <1>3 DEF Acquire, AtRoutine, TableTyped, InQueue
  <2>2. /\ UNCHANGED <<table, queue, state, updated, force_stop, stack, visitor, callerIdle>>
        /\ \A q \in Processors \ {p} : pc'[q] = pc[q] /\ cur'[q] = cur[q]
        /\ cur'[p] = r /\ pc'[p] = "examine"
    BY <1>3 DEF Acquire, ProcessorGoes
  <2> HIDE DEF r
  <2> QED BY <2>1, <2>2 DEF Waits
<1>4. CASE Works(p)
  <2>1. /\ Holds(p) /\ cur[p] \in Routines
        /\ \A q \in Processors \ {p} : pc'[q] = pc[q]
        /\ UNCHANGED <<table, queue, force_stop, notifier, cur, callerIdle>>
    BY <1>4 DEF Works, Examine, Resume, AwaitData, TryFetch, HoldersKnown,
       FetchFails, CallbackSleeps, CallbackReturns, ProcessorGoes, InBody, YieldTo, Holds
  <2>2. PICK r \in Routines : r = cur[p]
    BY <2>1
  <2>3. /\ \A s \in Routines \ {r} :
             /\ state'[s] = state[s] /\ body'[s] = body[s] /\ unread'[s] = unread[s]
             /\ unheard'[s] = unheard[s] /\ updated'[s] = updated[s]
        /\ pc'[p] = "resume" => state'[r] = "READY"
        /\ Waits(r)' => Waits(r) /\ updated'[r] = updated[r]
    <3> USE <2>2 DEF RoutinesTyped, Waits
    <3>1. CASE Examine(p)
      BY <3>1 DEF Examine, UpdatedState
    <3>2. CASE Resume(p)
      BY <3>2 DEF Resume, ProcessorGoes
    <3>3. CASE AwaitData(p)
      BY <3>3 DEF AwaitData, InBody
    <3>4. CASE TryFetch(p)
      BY <3>4 DEF TryFetch, InBody
    <3>5. CASE FetchFails(p)
      BY <3>5 DEF FetchFails, InBody
    <3>6. CASE CallbackSleeps(p)
      BY <3>6 DEF CallbackSleeps, YieldTo, InBody
    <3>7. CASE CallbackReturns(p)
      BY <3>7 DEF CallbackReturns, YieldTo, InBody
    <3> QED BY <1>4, <3>1, <3>2, <3>3, <3>4, <3>5, <3>6, <3>7 DEF Works
  <2>4. \A s \in Routines \ {r} : Waits(s)' <=> Waits(s)
    BY <2>3 DEF Waits
  <2> QED BY <2>1, <2>2, <2>3, <2>4
<1> QED BY <1>1, <1>2, <1>3, <1>4 DEF Processing

LEMMA ProcessingStep ==
  ASSUME IInv, TInv, NEW p \in Processors, Processing(p)
  PROVE  TInv'
<1>1. /\ UNCHANGED <<table, queue, force_stop, notifier, callerIdle>>
      /\ \A s \in Routines : state'[s] = state[s] \/ (Holds(p) /\ s = cur[p])
      /\ \A q \in Processors \ {p} : pc'[q] = pc[q] /\ cur'[q] = cur[q]
      /\ Holds(p)' => \/ Holds(p) /\ cur'[p] = cur[p]
                      \/ cur'[p] \in Routines /\ InQueue(cur'[p])
      /\ pc'[p] = "resume" => state'[cur'[p]] = "READY"
      /\ \A r \in Routines : Waits(r)' => Waits(r) /\ updated'[r] = updated[r]
  BY ProcessingDoes
<1>2. /\ \A s : InQueue(s)' = InQueue(s)
      /\ \A c \in Callers : Creating(c)' = Creating(c) /\ InLock(c)' = InLock(c)
      /\ \A c \in Callers, i \in Ids : /\ Between(c, i)' = Between(c, i)
                                       /\ Announcing(c, i)' = Announcing(c, i)
  BY <1>1 DEF InQueue, Creating, Call, InLock, Between, Announcing
<1>3. Mutexes' /\ Agreement' /\ Heralds'
  <2>1. Mutexes'
    BY <1>1, <1>2 DEF TInv, Mutexes
  <2>2. Agreement'
    BY <1>1, <1>2 DEF TInv, Agreement
  <2>3. Heralds'
    BY <1>1 DEF TInv, Heralds, Call
  <2> QED BY <2>1, <2>2, <2>3
<1>4. Named'
  <2> SUFFICES ASSUME NEW c \in Callers, Creating(c)
               PROVE  IdOf[new[c]] = arg[c] /\ state'[new[c]] = "READY"
    BY <1>1, <1>2 DEF TInv, Named
  <2>1. new[c] \in Routines /\ (Holds(p) => cur[p] # new[c])
    BY DEF IInv, Newcomers
  <2> QED BY <1>1, <2>1 DEF TInv, Named
<1>5. Unstopped'
  <2> SUFFICES ASSUME NEW q \in Processors, Holds(q)'
               PROVE  InQueue(cur'[q]) \/ force_stop[cur'[q]]
    BY <1>1 DEF Unstopped, InQueue
  <2> QED BY <1>1 DEF TInv, Unstopped, Holds
<1>6. ResumesReady'
  <2> SUFFICES ASSUME NEW q \in Processors, q # p, pc'[q] = "resume"
               PROVE  state'[cur'[q]] = "READY"
    BY <1>1 DEF ResumesReady
  <2>1. /\ pc[q] = "resume" /\ cur'[q] = cur[q] /\ cur[q] \in Routines
        /\ Holds(p) => cur[p] # cur[q]
    BY <1>1 DEF IInv, HoldersKnown, Holds, OneRunner
  <2> QED BY <1>1, <2>1 DEF TInv, ResumesReady
<1>7. Kept'
  <2> SUFFICES ASSUME NEW r \in Visitors, ~stop, id_cr[IdOf[r]] = r, Waits(r)', updated'[r]
               PROVE  \E c \in Callers : Announcing(c, IdOf[r])'
    BY <1>1 DEF Kept
  <2>1. r \in Routines /\ IdOf[r] \in Ids
    BY RoutinesAssumption
  <2> QED BY <1>1, <1>2, <2>1 DEF TInv, Kept
<1> QED BY <1>3, <1>4, <1>5, <1>6, <1>7 DEF TInv

LEMMA WaitingStep ==
  ASSUME IInv, TInv, UNCHANGED vars \/ \E r \in Routines : WakeTimePasses(r)
  PROVE  TInv'
<1>1. UNCHANGED <<table, queue, flags, body, visitor, processorIdle, callerIdle>>
  BY DEF vars, WakeTimePasses
<1>2. /\ \A s : InQueue(s)' = InQueue(s)
      /\ \A p \in Processors : Holds(p)' = Holds(p)
      /\ \A c \in Callers : Creating(c)' = Creating(c) /\ InLock(c)' = InLock(c)
      /\ \A c, i : Between(c, i)' = Between(c, i) /\ Announcing(c, i)' = Announcing(c, i)
      /\ \A r : Waits(r)' = Waits(r)
  BY <1>1 DEF InQueue, Creating, Call, InLock, Between, Announcing, Holds, Waits
<1>3. Mutexes' /\ Agreement' /\ Heralds'
  BY <1>1, <1>2 DEF TInv, Mutexes, Agreement, Heralds, Call
<1>4. Named' /\ Unstopped' /\ ResumesReady'
  BY <1>1, <1>2 DEF TInv, Named, Unstopped, ResumesReady
<1>5. Kept'
  BY <1>1, <1>2 DEF TInv, Kept
<1> QED BY <1>3, <1>4, <1>5 DEF TInv

-----------------------------------------------------------------------------
(* Steps of the callers. *)

\* What a call leaves to other calls and to the processors.
LEMMA CallerLeaves ==
  ASSUME IInv, NEW c \in Callers, CallerStep(c)
  PROVE  /\ \A d \in Callers \ {c} :
              /\ at'[d] = at[d] /\ todo'[d] = todo[d] /\ arg'[d] = arg[d]
              /\ new'[d] = new[d] /\ callbacks'[d] = callbacks[d]
         /\ UNCHANGED <<body, cur>>
         /\ \A p \in Processors : Holds(p)' = Holds(p) /\ (pc'[p] = "resume" => pc[p] = "resume")
<1> USE DEF IInv, TypeOK, CallersTyped
<1>1. /\ \A d \in Callers \ {c} : at'[d] = at[d] /\ todo'[d] = todo[d]
      /\ UNCHANGED <<body, cur>>
  BY DEF CallerStep, CreateTask, LockId, Insert, Push, Announce, Register, NotifyTask, Fill,
     NotifyVisitors, Callback, Lookup, SetUpdateFlag, Poke, RemoveTask, Erase, Unlink,
     Shutdown, ShutdownContexts, Collect, RemoveNext, RemovedAll, StopProcessor, Join,
     Goto, Return, Done
<1>2. \A d \in Callers \ {c} :
        arg'[d] = arg[d] /\ new'[d] = new[d] /\ callbacks'[d] = callbacks[d]
  BY DEF CallerStep, CreateTask, LockId, Insert, Push, Announce, Register, NotifyTask, Fill,
     NotifyVisitors, Callback, Lookup, SetUpdateFlag, Poke, RemoveTask, Erase, Unlink,
     Shutdown, ShutdownContexts, Collect, RemoveNext, RemovedAll, StopProcessor, Join
<1>3. UNCHANGED pc \/ \E S \in SUBSET Asleep : Awaken(S)
  BY DEF CallerStep, CreateTask, LockId, Insert, Push, Announce, Register, NotifyTask, Fill,
     NotifyVisitors, Callback, Lookup, SetUpdateFlag, Poke, RemoveTask, Erase, Unlink,
     Shutdown, ShutdownContexts, Collect, RemoveNext, RemovedAll, StopProcessor, Join,
     Notify, ShutdownContext
<1>4. \A p \in Processors : Holds(p)' = Holds(p) /\ (pc'[p] = "resume" => pc[p] = "resume")
  <2>1. CASE UNCHANGED pc
    BY <2>1 DEF Holds
  <2>2. CASE \E S \in SUBSET Asleep : Awaken(S)
    BY <2>2 DEF Holds, Asleep, Awaken, ProcessorsTyped
  <2> QED BY <1>3, <2>1, <2>2
<1> QED BY <1>1, <1>2, <1>4

\* The steps outside the mutex of an id.
Outside(c) ==
  \/ Register(c) \/ NotifyTask(c) \/ Fill(c) \/ NotifyVisitors(c) \/ Callback(c)
  \/ Lookup(c) \/ SetUpdateFlag(c) \/ Poke(c) \/ RemoveTask(c) \/ Shutdown(c)
  \/ ShutdownContexts(c) \/ Collect(c) \/ RemoveNext(c) \/ RemovedAll(c)
  \/ StopProcessor(c) \/ Join(c)

LEMMA OutsideDoes ==
  ASSUME IInv, NEW c \in Callers, Outside(c)
  PROVE  /\ UNCHANGED <<id_cr, id_cr_wl, queue, state, force_stop, new>>
         /\ ~InLock(c) /\ ~InLock(c)' /\ ~Creating(c)'
<1> USE DEF IInv, TypeOK, CallersTyped, Busy
<1>1. UNCHANGED <<id_cr, id_cr_wl, queue, state, force_stop, new>>
  BY DEF Outside, Register, NotifyTask, Fill, NotifyVisitors, Callback, Lookup,
     SetUpdateFlag, Poke, RemoveTask, Shutdown, ShutdownContexts, Collect, RemoveNext,
     RemovedAll, StopProcessor, Join
<1>2. ~InLock(c)
  BY DEF Outside, Register, NotifyTask, Fill, NotifyVisitors, Callback, Lookup,
     SetUpdateFlag, Poke, RemoveTask, Shutdown, ShutdownContexts, Collect, RemoveNext,
     RemovedAll, StopProcessor, Join, Begins, InLock
<1>3. \/ at'[c] \in {"idle", "lookup", "notify", "callbacks", "flag", "poke", "contexts",
                     "collect", "removing", "stopping", "join"}
      \/ at'[c] = "lock" /\ todo' = todo /\ Call(c).call # "CreateTask"
  <2>1. CASE RemoveTask(c) \/ RemoveNext(c)
    BY <2>1 DEF RemoveTask, RemoveNext, Begins, Goto, Return, Call
  <2>2. CASE ~(RemoveTask(c) \/ RemoveNext(c))
    BY <2>2 DEF Outside, Register, NotifyTask, Fill, NotifyVisitors, Callback, Lookup,
       SetUpdateFlag, Poke, Shutdown, ShutdownContexts, Collect,
       RemovedAll, StopProcessor, Join, Goto, Return, Done
  <2> QED BY <2>1, <2>2
<1>4. ~InLock(c)' /\ ~Creating(c)'
  BY <1>3 DEF InLock, Creating, Call
<1> QED BY <1>1, <1>2, <1>4

\* Calls that are under way on one id take turns.
LEMMA Apart ==
  ASSUME IInv, Mutexes, NEW c \in Callers, NEW d \in Callers, c # d, InLock(c), InLock(d)
  PROVE  arg[c] # arg[d]
BY DEF Mutexes

LEMMA MutexStep ==
  ASSUME IInv, TInv, NEW c \in Callers, CallerStep(c)
  PROVE  Mutexes'
<1> USE DEF TInv
<1>1. /\ \A i \in Ids : id_cr_wl'[i] # id_cr_wl[i] =>
                          arg[c] = i /\ (id_cr_wl[i] = None \/ InLock(c))
      /\ InLock(c)' => id_cr_wl'[arg'[c]] = c
  <2> USE DEF IInv, TypeOK, CallersTyped, TableTyped
  <2>1. CASE Outside(c)
    BY <2>1, OutsideDoes
  <2>2. CASE CreateTask(c)
    BY <2>2 DEF CreateTask, Goto, Return, InLock
  <2>3. CASE LockId(c)
    BY <2>3 DEF LockId, Goto
  <2>4. CASE Insert(c)
    BY <2>4 DEF Insert, Goto, Return, InLock, Unlocked, Mutexes
  <2>5. CASE Push(c)
    BY <2>5 DEF Push, Goto, InLock, Mutexes
  <2>6. CASE Announce(c)
    BY <2>6 DEF Announce, Goto, InLock, Unlocked
  <2>7. CASE Erase(c)
    BY <2>7 DEF Erase, Done, Goto, Return, InLock, Unlocked, Mutexes
  <2>8. CASE Unlink(c)
    BY <2>8 DEF Unlink, Done, Goto, Return, InLock, Unlocked
  <2> QED BY <2>1, <2>2, <2>3, <2>4, <2>5, <2>6, <2>7, <2>8 DEF CallerStep, Outside
<1>2. ASSUME NEW d \in Callers, d # c, InLock(d)'
      PROVE  id_cr_wl'[arg'[d]] = d
  <2>1. InLock(d) /\ arg'[d] = arg[d] /\ id_cr_wl[arg[d]] = d /\ arg[d] \in Ids /\ d # None
    <3>1. at'[d] = at[d] /\ arg'[d] = arg[d]
      BY <1>2, CallerLeaves
    <3>2. InLock(d)
      BY <1>2, <3>1 DEF InLock
    <3> QED BY <3>1, <3>2, NoneAssumption DEF Mutexes, IInv, TypeOK, CallersTyped
  <2> QED BY <1>1, <1>2, <2>1, Apart
<1> QED BY <1>1, <1>2 DEF Mutexes

\* What the two updates of a queue make of it.
LEMMA PushQueue ==
  ASSUME IInv, NEW c \in Callers, Push(c)
  PROVE  new[c] \in Routines /\ \A s : InQueue(s)' <=> InQueue(s) \/ s = new[c]
<1> DEFINE m == PrioOf[arg[c]]
<1>0. PICK r \in Routines : r = new[c]
  BY DEF IInv, Newcomers, Creating, Push
<1>1. /\ m \in Prios /\ queue \in [Prios -> Seq(Routines)]
      /\ queue' = [queue EXCEPT ![m] = Append(@, r)]
  BY <1>0, RoutinesAssumption DEF IInv, TypeOK, CallersTyped, TableTyped, Push, Prios
<1> HIDE DEF m
<1>2. /\ Len(queue[m]) \in Nat /\ Len(queue'[m]) = Len(queue[m]) + 1
      /\ \A i \in 1..Len(queue[m]) : queue'[m][i] = queue[m][i]
      /\ queue'[m][Len(queue[m]) + 1] = r
      /\ \A k \in Prios \ {m} : queue'[k] = queue[k]
  <2>1. queue[m] \in Seq(Routines) /\ queue'[m] = Append(queue[m], r)
    BY <1>1
  <2> QED BY <1>1, <2>1, AppendProperties
<1>3. ASSUME NEW s, InQueue(s) PROVE InQueue(s)'
  <2>1. PICK k \in Prios : \E i \in 1..Len(queue[k]) : queue[k][i] = s
    BY <1>3 DEF InQueue
  <2>2. \E i \in 1..Len(queue'[k]) : queue'[k][i] = s
    BY <1>2, <2>1
  <2> QED BY <2>2 DEF InQueue
<1>4. InQueue(r)'
  <2>1. Len(queue[m]) + 1 \in 1..Len(queue'[m])
    BY <1>2
  <2> QED BY <1>1, <1>2, <2>1 DEF InQueue
<1>5. ASSUME NEW s, InQueue(s)' PROVE InQueue(s) \/ s = r
  <2>1. PICK k \in Prios : \E i \in 1..Len(queue'[k]) : queue'[k][i] = s
    BY <1>5 DEF InQueue
  <2>2. s = r \/ \E i \in 1..Len(queue[k]) : queue[k][i] = s
    <3>1. CASE k = m
      <4>1. PICK i \in 1..Len(queue'[m]) : queue'[m][i] = s
        BY <2>1, <3>1
      <4>2. i = Len(queue[m]) + 1 \/ i \in 1..Len(queue[m])
        BY <1>2, <4>1
      <4> QED BY <1>2, <3>1, <4>1, <4>2
    <3>2. CASE k # m
      BY <1>2, <2>1, <3>2
    <3> QED BY <3>1, <3>2
  <2> QED BY <2>2 DEF InQueue
<1> QED BY <1>0, <1>3, <1>4, <1>5

LEMMA UnlinkQueue ==
  ASSUME IInv, NEW c \in Callers, Unlink(c)
  PROVE  \E r \in Routines :
           /\ IdOf[r] = arg[c] /\ InQueue(r)
           /\ force_stop' = [force_stop EXCEPT ![r] = TRUE]
           /\ \A s : InQueue(s)' <=> InQueue(s) /\ s # r
<1> DEFINE m == PrioOf[arg[c]]
<1>1. PICK n \in 1..Len(queue[m]) :
        /\ IdOf[queue[m][n]] = arg[c]
        /\ force_stop' = [force_stop EXCEPT ![queue[m][n]] = TRUE]
        /\ queue' = [queue EXCEPT ![m] = RemoveAt(@, n)]
  BY DEF Unlink, Stop
<1>2. m \in Prios /\ queue \in [Prios -> Seq(Routines)]
  BY RoutinesAssumption DEF IInv, TypeOK, CallersTyped, TableTyped, Prios
<1> HIDE DEF m
<1>3. PICK r \in Routines : r = queue[m][n]
  BY <1>1, <1>2
<1>4. /\ Len(queue[m]) \in Nat /\ Len(queue'[m]) = Len(queue[m]) - 1
      /\ \A j \in 1..(Len(queue[m]) - 1) :
           queue'[m][j] = IF j < n THEN queue[m][j] ELSE queue[m][j + 1]
      /\ \A k \in Prios \ {m} : queue'[k] = queue[k]
  <2>1. queue[m] \in Seq(Routines) /\ queue'[m] = RemoveAt(queue[m], n)
    BY <1>1, <1>2
  <2>2. /\ Len(RemoveAt(queue[m], n)) = Len(queue[m]) - 1
        /\ \A j \in 1..(Len(queue[m]) - 1) : RemoveAt(queue[m], n)[j] =
             IF j < n THEN queue[m][j] ELSE queue[m][j + 1]
    BY <2>1, Shortened
  <2> QED BY <1>1, <1>2, <2>1, <2>2
<1>5. ASSUME NEW s, InQueue(s), s # r PROVE InQueue(s)'
  <2>1. PICK k \in Prios : \E i \in 1..Len(queue[k]) : queue[k][i] = s
    BY <1>5 DEF InQueue
  <2>2. PICK i \in 1..Len(queue[k]) : queue[k][i] = s
    BY <2>1
  <2>3. CASE k # m
    BY <1>4, <2>2, <2>3 DEF InQueue
  <2>4. CASE k = m
    <3>1. i # n /\ n \in 1..Len(queue[m])
      BY <1>3, <1>5, <2>2, <2>4
    <3>2. CASE i < n
      <4>1. i \in 1..(Len(queue[m]) - 1)
        BY <1>4, <2>2, <2>4, <3>1, <3>2
      <4>2. queue'[m][i] = s /\ i \in 1..Len(queue'[m])
        BY <1>4, <2>2, <2>4, <3>2, <4>1
      <4> QED BY <1>2, <4>2 DEF InQueue
    <3>3. CASE ~(i < n)
      <4>1. i - 1 \in 1..(Len(queue[m]) - 1) /\ ~(i - 1 < n) /\ (i - 1) + 1 = i
        BY <1>4, <2>2, <2>4, <3>1, <3>3
      <4>2. queue'[m][i - 1] = s /\ i - 1 \in 1..Len(queue'[m])
        BY <1>4, <2>2, <2>4, <4>1
      <4> QED BY <1>2, <4>2 DEF InQueue
    <3> QED BY <3>2, <3>3
  <2> QED BY <2>3, <2>4
<1>6. ASSUME NEW s, InQueue(s)' PROVE InQueue(s) /\ s # r
  <2>1. PICK k \in Prios : \E i \in 1..Len(queue'[k]) : queue'[k][i] = s
    BY <1>6 DEF InQueue
  <2>2. PICK i \in 1..Len(queue'[k]) : queue'[k][i] = s
    BY <2>1
  <2>3. \E o \in 1..Len(queue[k]) : queue[k][o] = s /\ (k = m => o # n)
    <3>1. CASE k # m
      BY <1>4, <2>2, <3>1
    <3>2. CASE k = m
      BY <1>1, <1>4, <2>2, <3>2
    <3> QED BY <3>1, <3>2
  <2>4. PICK o \in 1..Len(queue[k]) : queue[k][o] = s /\ (k = m => o # n)
    BY <2>3
  <2>5. s # r
    BY <1>1, <1>2, <1>3, <2>4 DEF IInv, QueuedOnce
  <2> QED BY <2>4, <2>5 DEF InQueue
<1>7. InQueue(r)
  BY <1>1, <1>2, <1>3 DEF InQueue
<1> QED BY <1>1, <1>3, <1>5, <1>6, <1>7

\* Outside CreateTask no routine is made, and no call makes it anything but READY.
LEMMA NamedStep ==
  ASSUME IInv, TInv, NEW c \in Callers, CallerStep(c)
  PROVE  Named'
<1> USE DEF TInv
<1>1. /\ \A r \in Routines : state[r] # "none" => state'[r] = state[r]
      /\ \A i \in Ids : id_cr'[i] # None =>
           id_cr'[i] = id_cr[i] \/ (i = arg[c] /\ Creating(c) /\ id_cr'[i] = new[c])
      /\ Creating(c)' => \/ Creating(c) /\ arg'[c] = arg[c] /\ new'[c] = new[c]
                         \/ IdOf[new'[c]] = arg'[c] /\ state'[new'[c]] = "READY"
  <2> USE DEF IInv, TypeOK, CallersTyped, TableTyped, RoutinesTyped
  <2>1. CASE Outside(c)
    BY <2>1, OutsideDoes
  <2>2. CASE CreateTask(c)
    <3>1. CASE UNCHANGED <<state, id_cr>> /\ Return(c)
      BY <3>1 DEF Return, Creating
    <3>2. CASE \E r \in Routines :
             /\ state[r] = "none" /\ IdOf[r] = Call(c).id
             /\ state' = [state EXCEPT ![r] = "READY"]
             /\ new' = [new EXCEPT ![c] = r]
             /\ arg' = [arg EXCEPT ![c] = Call(c).id] /\ UNCHANGED id_cr
      BY <3>2
    <3> QED BY <2>2, <3>1, <3>2 DEF CreateTask
  <2>3. CASE LockId(c)
    BY <2>3 DEF LockId, Goto, Creating, Call
  <2>4. CASE Insert(c)
    BY <2>4 DEF Insert, Goto, Return, Creating
  <2>5. CASE Push(c)
    BY <2>5 DEF Push, Goto, Creating
  <2>6. CASE Announce(c)
    BY <2>6 DEF Announce, Goto, Creating
  <2>7. CASE Erase(c)
    BY <2>7 DEF Erase, Done, Goto, Return, Creating
  <2>8. CASE Unlink(c)
    <3>1. UNCHANGED <<state, id_cr>>
      BY <2>8 DEF Unlink
    <3>2. ~Creating(c)'
      <4>1. Return(c) \/ Goto(c, "callbacks") \/ Goto(c, "removing")
        BY <2>8 DEF Unlink, Done
      <4> QED BY <4>1 DEF Goto, Return, Creating
    <3> QED BY <3>1, <3>2
  <2> QED BY <2>1, <2>2, <2>3, <2>4, <2>5, <2>6, <2>7, <2>8 DEF CallerStep, Outside
<1>2. \A i \in Ids : id_cr'[i] # None => IdOf[id_cr'[i]] = i
  BY <1>1 DEF Named
<1>3. ASSUME NEW d \in Callers, Creating(d)'
      PROVE  IdOf[new'[d]] = arg'[d] /\ state'[new'[d]] = "READY"
  <2>1. CASE Creating(d) /\ arg'[d] = arg[d] /\ new'[d] = new[d]
    <3>1. new[d] \in Routines /\ state[new[d]] = "READY" /\ IdOf[new[d]] = arg[d]
      BY <2>1 DEF IInv, Newcomers, Named
    <3> QED BY <1>1, <2>1, <3>1
  <2>2. CASE d # c
    <3>1. /\ at'[d] = at[d] /\ todo'[d] = todo[d] /\ arg'[d] = arg[d] /\ new'[d] = new[d]
      BY <2>2, CallerLeaves
    <3>2. Creating(d)
      BY <1>3, <3>1 DEF Creating, Call
    <3> QED BY <2>1, <3>1, <3>2
  <2>3. CASE d = c
    BY <1>1, <1>3, <2>1, <2>3
  <2> QED BY <2>2, <2>3
<1> QED BY <1>2, <1>3 DEF Named

\* Nobody is between the two updates of an id whose mutex another call has.
LEMMA NobodyBetween ==
  ASSUME IInv, Mutexes, NEW c \in Callers, InLock(c)
  PROVE  \A d \in Callers \ {c} : ~Between(d, arg[c])
BY Apart DEF Between, InLock

LEMMA AgreementStep ==
  ASSUME IInv, TInv, NEW c \in Callers, CallerStep(c)
  PROVE  Agreement'
<1> USE DEF TInv
<1>0. /\ \A d \in Callers \ {c} : at'[d] = at[d] /\ arg'[d] = arg[d] /\ new'[d] = new[d]
      /\ arg[c] \in Ids
  BY CallerLeaves DEF IInv, TypeOK, CallersTyped
<1>1. \A d \in Callers \ {c}, i \in Ids : Between(d, i)' = Between(d, i)
  BY <1>0 DEF Between
\* A step that updates neither the table nor a queue.
<1>2. ASSUME UNCHANGED <<id_cr, queue>>,
             at[c] \notin {"push", "unlink"}, at'[c] \notin {"push", "unlink"}
      PROVE  Agreement'
  <2>1. /\ \A r : InQueue(r)' = InQueue(r)
        /\ \A d \in Callers, i \in Ids : Between(d, i)' = Between(d, i)
        /\ \A d \in Callers : at'[d] \in {"push", "unlink"} => d # c
    BY <1>1, <1>2 DEF InQueue, Between
  <2> QED BY <1>0, <1>2, <2>1 DEF Agreement
<1>3. CASE Outside(c)
  BY <1>2, <1>3, OutsideDoes DEF InLock
<1>4. CASE CreateTask(c) \/ LockId(c) \/ Announce(c)
  BY <1>2, <1>4 DEF CreateTask, LockId, Announce, Begins, Goto, Return, IInv, TypeOK, CallersTyped
<1>5. CASE Insert(c)
  <2>1. CASE id_cr[arg[c]] # None
    BY <1>2, <1>5, <2>1 DEF Insert, Return, IInv, TypeOK, CallersTyped
  <2>2. CASE id_cr[arg[c]] = None
    <3>1. PICK i \in Ids : i = arg[c]
      BY <1>0
    <3>2. PICK n \in Routines : n = new[c] /\ IdOf[n] = i
      BY <1>5, <3>1 DEF Insert, IInv, Newcomers, Creating, Named
    <3>3. /\ at[c] = "insert" /\ at'[c] = "push" /\ arg'[c] = i /\ new'[c] = n
          /\ id_cr' = [id_cr EXCEPT ![i] = n] /\ UNCHANGED queue
          /\ id_cr \in [Ids -> Routines \cup {None}]
      BY <1>5, <2>2, <3>1, <3>2 DEF Insert, Goto, IInv, TypeOK, CallersTyped, TableTyped
    <3>4. /\ \A r : InQueue(r)' = InQueue(r)
          /\ \A d \in Callers : ~Between(d, i)
          /\ \A d \in Callers, j \in Ids : j # i => Between(d, j)' = Between(d, j)
          /\ Between(c, i)'
      BY <1>1, <3>1, <3>3, NobodyBetween DEF Between, InQueue, InLock
    <3>5. \A r \in Routines : IdOf[r] = i => ~InQueue(r)
      BY <2>2, <3>1, <3>4, NoneAssumption DEF Agreement
    <3>6. \A d \in Callers \ {c} : at[d] \in {"push", "unlink"} => arg[d] # i /\ arg[d] \in Ids
      BY <3>4 DEF Between, IInv, TypeOK, CallersTyped
    <3>7. ASSUME NEW j \in Ids, \A d \in Callers : ~Between(d, j)'
          PROVE  \A r \in Routines : IdOf[r] = j => (InQueue(r)' <=> id_cr'[j] = r)
      <4>1. j # i
        BY <3>4, <3>7
      <4> QED BY <3>3, <3>4, <3>7, <4>1 DEF Agreement
    <3>8. \A d \in Callers :
            /\ at'[d] = "push" => /\ id_cr'[arg'[d]] = new'[d]
                                  /\ \A r \in Routines : IdOf[r] = arg'[d] => ~InQueue(r)'
            /\ at'[d] = "unlink" => /\ id_cr'[arg'[d]] = None
                                    /\ \E r \in Routines : InQueue(r)' /\ IdOf[r] = arg'[d]
      <4> TAKE d \in Callers
      <4>1. CASE d = c
        BY <3>3, <3>4, <3>5, <4>1
      <4>2. CASE d # c
        BY <1>0, <3>3, <3>4, <3>6, <4>2 DEF Agreement
      <4> QED BY <4>1, <4>2
    <3>9. \A r, s \in Routines : InQueue(r)' /\ InQueue(s)' /\ IdOf[r] = IdOf[s] => r = s
      BY <3>4 DEF Agreement
    <3> QED BY <3>7, <3>8, <3>9 DEF Agreement
  <2> QED BY <2>1, <2>2
<1>6. CASE Push(c)
  <2>1. PICK i \in Ids : i = arg[c]
    BY <1>0
  <2>2. PICK n \in Routines : /\ n = new[c] /\ IdOf[n] = i
                              /\ \A s : InQueue(s)' <=> InQueue(s) \/ s = n
    <3>1. new[c] \in Routines /\ \A s : InQueue(s)' <=> InQueue(s) \/ s = new[c]
      BY <1>6, PushQueue
    <3>2. IdOf[new[c]] = i
      BY <1>6, <2>1 DEF Push, Creating, Named
    <3> QED BY <3>1, <3>2
  <2>3. /\ at[c] = "push" /\ at'[c] = "announce" /\ UNCHANGED id_cr
        /\ id_cr[i] = n /\ \A r \in Routines : IdOf[r] = i => ~InQueue(r)
    BY <1>6, <2>1, <2>2 DEF Push, Goto, IInv, TypeOK, CallersTyped, Agreement
  <2>4. /\ \A d \in Callers \ {c} : ~Between(d, i)
        /\ \A d \in Callers, j \in Ids : j # i => Between(d, j)' = Between(d, j)
        /\ ~Between(c, i)'
    BY <1>1, <2>1, <2>3, NobodyBetween DEF Between, InLock
  <2>5. \A d \in Callers \ {c} : at[d] \in {"push", "unlink"} => arg[d] # i /\ arg[d] \in Ids
    BY <2>4 DEF Between, IInv, TypeOK, CallersTyped
  <2>6. ASSUME NEW j \in Ids, \A d \in Callers : ~Between(d, j)'
        PROVE  \A r \in Routines : IdOf[r] = j => (InQueue(r)' <=> id_cr'[j] = r)
    <3>1. CASE j = i
      BY <2>2, <2>3, <3>1
    <3>2. CASE j # i
      BY <2>2, <2>3, <2>4, <2>6, <3>2 DEF Agreement
    <3> QED BY <3>1, <3>2
  <2>7. \A d \in Callers :
          /\ at'[d] = "push" => /\ id_cr'[arg'[d]] = new'[d]
                                /\ \A r \in Routines : IdOf[r] = arg'[d] => ~InQueue(r)'
          /\ at'[d] = "unlink" => /\ id_cr'[arg'[d]] = None
                                  /\ \E r \in Routines : InQueue(r)' /\ IdOf[r] = arg'[d]
    <3> TAKE d \in Callers
    <3>1. CASE d = c
      BY <2>3, <3>1
    <3>2. CASE d # c
      BY <1>0, <2>2, <2>3, <2>5, <3>2 DEF Agreement
    <3> QED BY <3>1, <3>2
  <2>8. \A r, s \in Routines : InQueue(r)' /\ InQueue(s)' /\ IdOf[r] = IdOf[s] => r = s
    BY <2>2, <2>3 DEF Agreement
  <2> QED BY <2>6, <2>7, <2>8 DEF Agreement
<1>7. CASE Erase(c)
  <2>1. CASE id_cr[arg[c]] = None
    BY <1>2, <1>7, <2>1 DEF Erase, Done, Goto, Return, IInv, TypeOK, CallersTyped
  <2>2. CASE id_cr[arg[c]] # None
    <3>1. PICK i \in Ids : i = arg[c]
      BY <1>0
    <3>2. PICK n \in Routines : n = id_cr[i] /\ IdOf[n] = i
      BY <2>2, <3>1 DEF IInv, TypeOK, TableTyped, Named
    <3>3. /\ at[c] = "erase" /\ at'[c] = "unlink" /\ arg'[c] = i
          /\ id_cr' = [id_cr EXCEPT ![i] = None] /\ UNCHANGED queue
          /\ id_cr \in [Ids -> Routines \cup {None}]
      BY <1>7, <2>2, <3>1 DEF Erase, Goto, IInv, TypeOK, CallersTyped, TableTyped
    <3>4. /\ \A r : InQueue(r)' = InQueue(r)
          /\ \A d \in Callers : ~Between(d, i)
          /\ \A d \in Callers, j \in Ids : j # i => Between(d, j)' = Between(d, j)
          /\ Between(c, i)'
      BY <1>1, <3>1, <3>3, NobodyBetween DEF Between, InQueue, InLock
    <3>5. InQueue(n)
      BY <3>2, <3>4 DEF Agreement
    <3>6. \A d \in Callers \ {c} : at[d] \in {"push", "unlink"} => arg[d] # i /\ arg[d] \in Ids
      BY <3>4 DEF Between, IInv, TypeOK, CallersTyped
    <3>7. ASSUME NEW j \in Ids, \A d \in Callers : ~Between(d, j)'
          PROVE  \A r \in Routines : IdOf[r] = j => (InQueue(r)' <=> id_cr'[j] = r)
      <4>1. j # i
        BY <3>4, <3>7
      <4> QED BY <3>3, <3>4, <3>7, <4>1 DEF Agreement
    <3>8. \A d \in Callers :
            /\ at'[d] = "push" => /\ id_cr'[arg'[d]] = new'[d]
                                  /\ \A r \in Routines : IdOf[r] = arg'[d] => ~InQueue(r)'
            /\ at'[d] = "unlink" => /\ id_cr'[arg'[d]] = None
                                    /\ \E r \in Routines : InQueue(r)' /\ IdOf[r] = arg'[d]
      <4> TAKE d \in Callers
      <4>1. CASE d = c
        BY <3>2, <3>3, <3>4, <3>5, <4>1
      <4>2. CASE d # c
        BY <1>0, <3>3, <3>4, <3>6, <4>2 DEF Agreement
      <4> QED BY <4>1, <4>2
    <3>9. \A r, s \in Routines : InQueue(r)' /\ InQueue(s)' /\ IdOf[r] = IdOf[s] => r = s
      BY <3>4 DEF Agreement
    <3> QED BY <3>7, <3>8, <3>9 DEF Agreement
  <2> QED BY <2>1, <2>2
<1>8. CASE Unlink(c)
  <2>1. PICK i \in Ids : i = arg[c]
    BY <1>0
  <2>2. PICK n \in Routines : /\ IdOf[n] = i /\ InQueue(n)
                              /\ \A s : InQueue(s)' <=> InQueue(s) /\ s # n
    BY <1>8, <2>1, UnlinkQueue
  <2>3. /\ at[c] = "unlink" /\ at'[c] \notin {"push", "unlink"} /\ UNCHANGED id_cr
        /\ id_cr[i] = None
    BY <1>8, <2>1 DEF Unlink, Done, Goto, Return, IInv, TypeOK, CallersTyped, Agreement
  <2>4. /\ \A d \in Callers \ {c} : ~Between(d, i)
        /\ \A d \in Callers, j \in Ids : j # i => Between(d, j)' = Between(d, j)
    BY <1>1, <2>1, <2>3, NobodyBetween DEF Between, InLock
  <2>5. \A d \in Callers \ {c} : at[d] \in {"push", "unlink"} => arg[d] # i /\ arg[d] \in Ids
    BY <2>4 DEF Between, IInv, TypeOK, CallersTyped
  <2>6. ASSUME NEW j \in Ids, \A d \in Callers : ~Between(d, j)'
        PROVE  \A r \in Routines : IdOf[r] = j => (InQueue(r)' <=> id_cr'[j] = r)
    <3>1. CASE j = i
      BY <2>2, <2>3, <3>1, NoneAssumption DEF Agreement
    <3>2. CASE j # i
      BY <2>2, <2>3, <2>4, <2>6, <3>2 DEF Agreement
    <3> QED BY <3>1, <3>2
  <2>7. \A d \in Callers :
          /\ at'[d] = "push" => /\ id_cr'[arg'[d]] = new'[d]
                                /\ \A r \in Routines : IdOf[r] = arg'[d] => ~InQueue(r)'
          /\ at'[d] = "unlink" => /\ id_cr'[arg'[d]] = None
                                  /\ \E r \in Routines : InQueue(r)' /\ IdOf[r] = arg'[d]
    <3> TAKE d \in Callers
    <3>1. CASE d = c
      BY <2>3, <3>1
    <3>2. CASE d # c
      <4>1. /\ at'[d] = at[d] /\ arg'[d] = arg[d] /\ new'[d] = new[d] /\ id_cr' = id_cr
            /\ at[d] \in {"push", "unlink"} => arg[d] # i
        BY <1>0, <2>3, <2>5, <3>2
      <4> QED BY <2>2, <4>1 DEF Agreement
    <3> QED BY <3>1, <3>2
  <2>8. \A r, s \in Routines : InQueue(r)' /\ InQueue(s)' /\ IdOf[r] = IdOf[s] => r = s
    BY <2>2 DEF Agreement
  <2> QED BY <2>6, <2>7, <2>8 DEF Agreement
<1> QED BY <1>3, <1>4, <1>5, <1>6, <1>7, <1>8 DEF CallerStep, Outside

LEMMA UnstoppedStep ==
  ASSUME IInv, TInv, NEW c \in Callers, CallerStep(c)
  PROVE  Unstopped' /\ ResumesReady'
<1> USE DEF TInv
<1>1. /\ UNCHANGED cur
      /\ \A p \in Processors : Holds(p)' = Holds(p) /\ (pc'[p] = "resume" => pc[p] = "resume")
  BY CallerLeaves
<1>2. \A r \in Routines : state[r] # "none" => state'[r] = state[r]
  <2>1. CASE CreateTask(c)
    BY <2>1 DEF CreateTask, IInv, TypeOK, RoutinesTyped
  <2>2. CASE ~CreateTask(c)
    BY <2>2, OutsideDoes DEF CallerStep, Outside, LockId, Insert, Push, Announce, Erase, Unlink
  <2> QED BY <2>1, <2>2
<1>3. ResumesReady'
  BY <1>1, <1>2 DEF ResumesReady, IInv, HoldersKnown, Holds
<1>4. \A r \in Routines : /\ force_stop[r] => force_stop'[r]
                          /\ InQueue(r) => InQueue(r)' \/ force_stop'[r]
  <2> USE DEF IInv, TypeOK, RoutinesTyped
  <2>1. CASE Push(c)
    BY <2>1, PushQueue DEF Push
  <2>2. CASE Unlink(c)
    BY <2>2, UnlinkQueue
  <2>3. CASE Erase(c)
    BY <2>3 DEF Erase, Stop, InQueue
  <2>4. CASE ~(Push(c) \/ Unlink(c) \/ Erase(c))
    <3>1. UNCHANGED <<queue, force_stop>>
      BY <2>4, OutsideDoes DEF CallerStep, Outside, CreateTask, LockId, Insert, Announce
    <3> QED BY <3>1 DEF InQueue
  <2> QED BY <2>1, <2>2, <2>3, <2>4
<1>5. Unstopped'
  <2> SUFFICES ASSUME NEW p \in Processors, Holds(p)' PROVE (InQueue(cur[p]) \/ force_stop[cur[p]])'
    BY DEF Unstopped
  <2>1. PICK r \in Routines : r = cur[p] /\ r = cur'[p] /\ (InQueue(r) \/ force_stop[r])
    BY <1>1 DEF Unstopped, IInv, HoldersKnown
  <2>2. InQueue(r)' \/ force_stop'[r]
    BY <1>4, <2>1
  <2>3. InQueue(cur[p])' <=> InQueue(r)'
    BY <2>1 DEF InQueue
  <2> QED BY <2>1, <2>2, <2>3
<1> QED BY <1>3, <1>5

LEMMA HeraldsStep ==
  ASSUME IInv, TInv, NEW c \in Callers, CallerStep(c)
  PROVE  Heralds'
<1> USE DEF TInv
<1>1. ASSUME NEW d \in Callers, d # c
      PROVE  /\ at'[d] \in {"notify", "callbacks"} => Call(d)'.call = "Write"
             /\ callbacks'[d] # {} =>
                  /\ at'[d] \in {"callbacks", "lookup", "flag", "poke"} /\ Call(d)'.call = "Write"
                  /\ \A r \in callbacks'[d] : IdOf[r] = arg'[d]
  BY <1>1, CallerLeaves DEF Heralds, Call
<1>2. /\ at[c] \in {"notify", "callbacks"} => Call(c).call = "Write"
      /\ callbacks[c] # {} =>
           /\ at[c] \in {"callbacks", "lookup", "flag", "poke"} /\ Call(c).call = "Write"
           /\ \A r \in callbacks[c] : IdOf[r] = arg[c]
  BY DEF Heralds
<1>3. /\ at'[c] \in {"notify", "callbacks"} => Call(c)'.call = "Write"
      /\ callbacks'[c] # {} =>
           /\ at'[c] \in {"callbacks", "lookup", "flag", "poke"} /\ Call(c)'.call = "Write"
           /\ \A r \in callbacks'[c] : IdOf[r] = arg'[c]
  <2> USE <1>2 DEF IInv, TypeOK, CallersTyped
  <2>1. CASE Fill(c)
    BY <2>1 DEF Fill, Begins, Goto, Call
  <2>2. CASE NotifyVisitors(c)
    BY <2>2 DEF NotifyVisitors, Goto, Call
  <2>3. CASE Callback(c)
    BY <2>3 DEF Callback, Goto, Return, Call
  <2>4. CASE Lookup(c) \/ SetUpdateFlag(c) \/ Poke(c)
    <3>1. /\ UNCHANGED <<callbacks, arg>> /\ at[c] \in {"lookup", "flag", "poke"}
          /\ Done(c) \/ (at'[c] \in {"flag", "poke"} /\ UNCHANGED todo)
      BY <2>4 DEF Lookup, SetUpdateFlag, Poke, Goto
    <3>2. Done(c) => \/ at'[c] = "callbacks" /\ Call(c).call = "Write" /\ UNCHANGED todo
                     \/ at'[c] \in {"idle", "removing"} /\ Call(c).call # "Write"
      BY DEF Done, Goto, Return
    <3> QED BY <3>1, <3>2 DEF Call
  <2>5. CASE ~(Fill(c) \/ NotifyVisitors(c) \/ Callback(c) \/ Lookup(c) \/ SetUpdateFlag(c) \/ Poke(c))
    <3>1. UNCHANGED callbacks
      BY <2>5 DEF CallerStep, CreateTask, LockId, Insert, Push, Announce, Register, NotifyTask,
         RemoveTask, Erase, Unlink, Shutdown, ShutdownContexts, Collect, RemoveNext,
         RemovedAll, StopProcessor, Join
    <3>2. /\ at[c] \notin {"callbacks", "lookup", "flag", "poke"}
          /\ \/ at'[c] \notin {"notify", "callbacks"}
             \/ at'[c] = "callbacks" /\ Call(c).call = "Write" /\ UNCHANGED todo
      <4>1. CASE \/ CreateTask(c) \/ LockId(c) \/ Insert(c) \/ Push(c) \/ Announce(c)
                \/ Register(c) \/ NotifyTask(c) \/ RemoveTask(c)
        BY <4>1 DEF CreateTask, LockId, Insert, Push, Announce, Register, NotifyTask,
           RemoveTask, Begins, Goto, Return
      <4>2. CASE Erase(c) \/ Unlink(c)
        BY <4>2 DEF Erase, Unlink, Goto, Return, Done
      <4>3. CASE \/ Shutdown(c) \/ ShutdownContexts(c) \/ Collect(c) \/ RemoveNext(c)
                \/ RemovedAll(c) \/ StopProcessor(c) \/ Join(c)
        BY <4>3 DEF Shutdown, ShutdownContexts, Collect, RemoveNext, RemovedAll,
           StopProcessor, Join, Begins, Goto, Return
      <4> QED BY <2>5, <4>1, <4>2, <4>3 DEF CallerStep
    <3> QED BY <3>1, <3>2 DEF Call
  <2> QED BY <2>1, <2>2, <2>3, <2>4, <2>5
<1> QED BY <1>1, <1>3 DEF Heralds

\* A call that was about to tell a waiting routine still is, or has told it.
LEMMA KeptStep ==
  ASSUME IInv, TInv, NEW c \in Callers, CallerStep(c)
  PROVE  Kept'
<1> USE DEF TInv
<1> SUFFICES ASSUME NEW r \in Visitors, ~stop', id_cr'[IdOf[r]] = r, Waits(r)', updated'[r],
                    \A d \in Callers : ~Announcing(d, IdOf[r])'
             PROVE  FALSE
  BY DEF Kept
<1>1. PICK i \in Ids : i = IdOf[r]
  BY RoutinesAssumption
<1>2. r \in Routines /\ id_cr \in [Ids -> Routines \cup {None}]
  BY RoutinesAssumption DEF IInv, TypeOK, TableTyped
<1>3. /\ unheard[r] => unheard'[r]
      /\ state'[r] = state[r] /\ UNCHANGED body
      /\ ~stop
  <2> USE <1>2 DEF IInv, TypeOK, RoutinesTyped
  <2>1. UNCHANGED body
    BY CallerLeaves
  <2>4. stop => stop'
    BY DEF CallerStep, CreateTask, LockId, Insert, Push, Announce,
       Register, NotifyTask, Fill, NotifyVisitors, Callback, Lookup, SetUpdateFlag, Poke,
       RemoveTask, Erase, Unlink, Shutdown, ShutdownContexts, Collect, RemoveNext,
       RemovedAll, StopProcessor, Join
  <2>2. unheard[r] => unheard'[r]
    <3>1. CASE NotifyVisitors(c)
      BY <3>1 DEF NotifyVisitors
    <3>2. CASE ~NotifyVisitors(c)
      BY <3>2 DEF CallerStep, CreateTask, LockId, Insert, Push, Announce,
         Register, NotifyTask, Fill, Callback, Lookup, SetUpdateFlag, Poke,
         RemoveTask, Erase, Unlink, Shutdown, ShutdownContexts, Collect, RemoveNext,
         RemovedAll, StopProcessor, Join
    <3> QED BY <3>1, <3>2
  <2>3. state'[r] = state[r]
    <3>1. CASE CreateTask(c)
      BY <3>1 DEF CreateTask, Waits
    <3>2. CASE ~CreateTask(c)
      BY <3>2, OutsideDoes DEF CallerStep, Outside, LockId, Insert, Push, Announce, Erase, Unlink
    <3> QED BY <3>1, <3>2
  <2> QED BY <2>1, <2>2, <2>3, <2>4
<1>4. id_cr[i] = r
  <2>1. CASE Insert(c)
    <3>1. i = arg[c] /\ id_cr'[i] # id_cr[i] => new[c] = r
      BY <1>1, <1>2, <2>1 DEF Insert
    <3>2. state[r] # "READY"
      BY <1>3 DEF Waits
    <3> QED BY <1>1, <1>2, <2>1, <3>1, <3>2 DEF Insert, Named, Creating
  <2>2. CASE Erase(c)
    BY <1>1, <1>2, <2>2, NoneAssumption DEF Erase
  <2>3. CASE ~(Insert(c) \/ Erase(c))
    BY <1>1, <2>3, OutsideDoes DEF CallerStep, Outside, CreateTask, LockId, Push, Announce, Unlink
  <2> QED BY <2>1, <2>2, <2>3
<1>5. CASE Fill(c)
  <2>1. /\ arg'[c] = Call(c).id /\ at'[c] = "notify"
        /\ unread' = [s \in Routines |-> unread[s] +
             IF s \in Visitors /\ IdOf[s] = Call(c).id /\ state[s] # "none" THEN 1 ELSE 0]
        /\ UNCHANGED <<updated, unheard>>
    BY <1>5 DEF Fill, Goto, IInv, TypeOK, CallersTyped
  <2>2. Call(c).id # i
    BY <1>1, <2>1 DEF Announcing
  <2>3. unread'[r] = unread[r] /\ Waits(r)
    BY <1>1, <1>2, <1>3, <2>1, <2>2 DEF Waits, IInv, TypeOK, RoutinesTyped
  <2>4. PICK d \in Callers : Announcing(d, i)
    BY <1>1, <1>3, <1>4, <2>1, <2>3 DEF Kept
  <2>5. d # c
    BY <1>5, <2>4 DEF Fill, Begins, Announcing
  <2>6. Announcing(d, i)'
    BY <2>4, <2>5, CallerLeaves DEF Announcing
  <2> QED BY <1>1, <2>6
<1>6. CASE ~Fill(c)
  <2>1. UNCHANGED unread
    BY <1>6 DEF CallerStep, CreateTask, LockId, Insert, Push, Announce,
       Register, NotifyTask, NotifyVisitors, Callback, Lookup, SetUpdateFlag, Poke,
       RemoveTask, Erase, Unlink, Shutdown, ShutdownContexts, Collect, RemoveNext,
       RemovedAll, StopProcessor, Join
  <2>2. Waits(r)
    BY <1>3, <2>1 DEF Waits
  <2>3. updated'[r] => updated[r]
    <3>1. CASE SetUpdateFlag(c)
      BY <1>2, <3>1 DEF SetUpdateFlag, IInv, TypeOK, RoutinesTyped
    <3>2. CASE ~SetUpdateFlag(c)
      BY <1>6, <3>2 DEF CallerStep, CreateTask, LockId, Insert, Push, Announce,
         Register, NotifyTask, NotifyVisitors, Callback, Lookup, Poke,
         RemoveTask, Erase, Unlink, Shutdown, ShutdownContexts, Collect, RemoveNext,
         RemovedAll, StopProcessor, Join
    <3> QED BY <3>1, <3>2
  <2>4. PICK d \in Callers : Announcing(d, i)
    BY <1>1, <1>3, <1>4, <2>2, <2>3 DEF Kept
  <2>5. d = c
    <3> SUFFICES ASSUME d # c PROVE FALSE
      OBVIOUS
    <3>1. Announcing(d, i)'
      BY <2>4, CallerLeaves DEF Announcing
    <3> QED BY <1>1, <3>1
  <2>6. Announcing(c, i) /\ ~Announcing(c, i)'
    BY <1>1, <2>4, <2>5
  <2> USE DEF IInv, TypeOK, CallersTyped
  <2>7. CASE NotifyVisitors(c)
    <3>1. /\ arg[c] = i /\ at'[c] = "callbacks"
          /\ callbacks'[c] = {s \in Routines : notifier[s] /\ IdOf[s] = arg[c]}
          /\ unheard'[r] <=> unheard[r] \/ (IdOf[r] = arg[c] /\ ~notifier[r] /\ unread[r] > 0)
      BY <1>2, <2>6, <2>7 DEF NotifyVisitors, Goto, Announcing
    <3>2. notifier[r]
      BY <1>1, <2>2, <3>1 DEF Waits
    <3> QED BY <1>1, <1>2, <2>6, <3>1, <3>2 DEF Announcing
  <2>8. CASE Callback(c)
    <3>1. PICK s \in callbacks[c] : IdOf[s] = i
      BY <2>6, <2>8 DEF Callback, Announcing
    <3>2. arg[c] = i /\ at'[c] = "lookup" /\ arg'[c] = i
      BY <2>8, <3>1 DEF Callback, Goto, Heralds
    <3> QED BY <2>6, <3>2 DEF Announcing
  <2>9. CASE Lookup(c)
    <3>1. arg[c] = i /\ arg'[c] = i
      BY <2>6, <2>9 DEF Lookup, Announcing
    <3>2. at'[c] = "flag"
      BY <1>2, <1>3, <1>4, <2>2, <2>9, <3>1, NoneAssumption DEF Lookup, Goto, Waits
    <3> QED BY <2>6, <3>1, <3>2 DEF Announcing
  <2>10. CASE SetUpdateFlag(c)
    <3>1. arg[c] = i
      BY <2>6, <2>10 DEF SetUpdateFlag, Announcing
    <3> QED BY <1>2, <1>4, <2>10, <3>1 DEF SetUpdateFlag, RoutinesTyped
  <2>11. CASE ~(NotifyVisitors(c) \/ Callback(c) \/ Lookup(c) \/ SetUpdateFlag(c))
    BY <1>6, <2>6, <2>11 DEF CallerStep, CreateTask, LockId, Insert, Push, Announce,
       Register, NotifyTask, Poke, RemoveTask, Erase, Unlink, Shutdown, ShutdownContexts,
       Collect, RemoveNext, RemovedAll, StopProcessor, Join, Begins, Announcing
  <2> QED BY <2>7, <2>8, <2>9, <2>10, <2>11
<1> QED BY <1>5, <1>6

-----------------------------------------------------------------------------
\* The invariant of tables, queues and notifications, in every state.
THEOREM InductiveTables == Spec => []TInv
<1>1. IInv /\ TInv /\ [Next]_vars => TInv'
  <2> SUFFICES ASSUME IInv, TInv, [Next]_vars PROVE TInv'
    OBVIOUS
  <2>1. CASE UNCHANGED vars \/ \E r \in Routines : WakeTimePasses(r)
    BY <2>1, WaitingStep
  <2>2. CASE \E p \in Processors : ProcessorStep(p) \/ WaitReturns(p)
    <3>1. PICK p \in Processors : Processing(p)
      BY <2>2 DEF ProcessorStep, Processing, Moves, Works
    <3> QED BY <3>1, ProcessingStep
  <2>3. CASE \E c \in Callers : CallerStep(c)
    BY <2>3, MutexStep, NamedStep, AgreementStep, UnstoppedStep, HeraldsStep, KeptStep DEF TInv
  <2> QED BY <2>1, <2>2, <2>3 DEF Next
<1> QED BY <1>1, InitTInv, Inductive, PTL DEF Spec

\* What a processor resumes is READY, though notifiers read the state and
\* RemoveCRoutine stops routines without holding them.
THEOREM ResumedReady == Spec => []ResumesReady
BY InductiveTables, PTL DEF TInv

\* The table of the tasks and the run queues agree whenever nobody has the
\* mutex of the id, and RemoveCRoutine finds the routine it has erased.
THEOREM TablesAgree == Spec => []TableMatchesQueue
<1>1. IInv /\ TInv => TableMatchesQueue
  <2> SUFFICES ASSUME IInv, TInv PROVE TableMatchesQueue
    OBVIOUS
  <2>1. ASSUME NEW r \in Routines, id_cr_wl[IdOf[r]] = None
        PROVE  InQueue(r) <=> id_cr[IdOf[r]] = r
    <3>1. IdOf[r] \in Ids
      BY RoutinesAssumption
    <3>2. \A c \in Callers : ~Between(c, IdOf[r])
      BY <2>1, NoneAssumption DEF TInv, Mutexes, InLock, Between
    <3> QED BY <3>1, <3>2 DEF TInv, Agreement
  <2> QED BY <2>1 DEF TableMatchesQueue, TInv, Agreement
<1> QED BY <1>1, Inductive, InductiveTables, PTL

\* Of the routines of one name that are running, at most one has not been told
\* to stop, however often the task was removed and created again.
THEOREM OneOfATask == Spec => []OneLiveRoutinePerTask
<1>1. IInv /\ TInv => OneLiveRoutinePerTask
  <2> SUFFICES ASSUME IInv, TInv, NEW p \in Processors, NEW q \in Processors, p # q,
                      pc[p] = "body", pc[q] = "body", IdOf[cur[p]] = IdOf[cur[q]],
                      ~force_stop[cur[p]], ~force_stop[cur[q]]
               PROVE  FALSE
    BY DEF OneLiveRoutinePerTask
  <2>1. Holds(p) /\ Holds(q)
    BY DEF Holds
  <2>2. /\ cur[p] \in Routines /\ cur[q] \in Routines /\ cur[p] # cur[q]
        /\ InQueue(cur[p]) /\ InQueue(cur[q])
    BY <2>1 DEF IInv, HoldersKnown, OneRunner, TInv, Unstopped
  <2> QED BY <2>2 DEF TInv, Agreement
<1> QED BY <1>1, Inductive, InductiveTables, PTL

\* A routine that waits with a message unread has its update flag cleared, or
\* somebody is on the way to clear it.
THEOREM NothingForgotten == Spec => []NotificationKept
<1>1. TInv => NotificationKept
  BY DEF TInv, Kept, Waits, NotificationKept
<1> QED BY <1>1, InductiveTables, PTL
=============================================================================
