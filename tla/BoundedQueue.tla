---------------------------- MODULE BoundedQueue ----------------------------
(***************************************************************************)
(* base::BoundedQueue, the lock-free ring behind the task manager, the     *)
(* timing wheel, the thread pool and the performance log, together with    *)
(* the wait strategies of base/wait_strategy.h.                            *)
(*                                                                         *)
(* One step is one access to memory that threads share.  The assignment of *)
(* an element to its slot is two steps, for an element is a shared_ptr or  *)
(* a std::function: a reader may meet it half written.                     *)
(***************************************************************************)
EXTENDS Integers, Sequences, FiniteSets

CONSTANTS Producers, Consumers,
          Size,          \* the argument of Init
          MaxCalls,      \* the most calls of one thread (a bound)
          Scenarios,     \* the uses of the queue to look at
          None, Empty, Full,   \* answers of calls
          Free, Torn           \* contents of a slot: never written, half written

ASSUME SizeAssumption == Size \in Nat
ASSUME MaxCallsAssumption == MaxCalls \in Nat
Threads == Producers \cup Consumers
Values == Producers \X (1..MaxCalls)

ASSUME ThreadsAssumption == Producers \cap Consumers = {}

\* A use of the queue: how often each thread calls Enqueue or Dequeue, whether
\* it calls the waiting form, the strategy the queue was initialised with, and
\* whether BreakAllWait is called.
ASSUME ScenariosAssumption ==
  Scenarios \subseteq [calls : [Threads -> 0..MaxCalls],
                       waits : [Threads -> BOOLEAN],
                       strategy : {"spin", "block", "timeout"},
                       breaker : {"before", "never"}]

\* The number of slots: "Head and tail each occupy a space".
pool_size == Size + 2
Slots == 0..(pool_size - 1)

VARIABLES head, tail, commit,   \* head_, tail_, commit_: positions, ever growing
          pool,                 \* pool_
          strategy,             \* wait_strategy_
          break_all_wait,
          breaker,              \* progress of the call of BreakAllWait
          pc,                   \* where each thread stands
          waits,                \* does it call WaitEnqueue or WaitDequeue?
          old,                  \* the local old_tail or old_head
          elem,                 \* the element to enqueue, or the copy dequeued
          budget,               \* how many calls each thread has left
          answer                \* what the last call of each thread returned
vars == <<head, tail, commit, pool, strategy, break_all_wait, breaker, pc,
          waits, old, elem, budget, answer>>
ring == <<head, tail, commit, pool>>
wait == <<strategy, break_all_wait, breaker>>
call == <<waits, old, elem, budget, answer>>

GetIndexOffByOne(num) == num % (pool_size - 1)     \* mutant

GetIndex(num) == num % pool_size

PCs == {"idle", "loop", "load", "check", "cas", "write", "fill", "commit",
        "notify", "copy", "pause", "blocked"}

Init == /\ head = 0
        /\ tail = 1
        /\ commit = 1
        /\ pool = [i \in Slots |-> Free]
        /\ break_all_wait = FALSE
        /\ pc = [t \in Threads |-> "idle"]
        /\ old = [t \in Threads |-> 0]
        /\ elem = [t \in Threads |-> None]
        /\ answer = [t \in Threads |-> None]
        /\ \E s \in Scenarios : /\ budget = s.calls
                               /\ waits = s.waits
                               /\ strategy = s.strategy
                               /\ breaker = s.breaker

Goto(t, from, to) == /\ pc[t] = from
                     /\ pc' = [pc EXCEPT ![t] = to]

\* The call of t ends with answer a, and its locals are gone.
Return(t, from, a) == /\ Goto(t, from, "idle")
                      /\ answer' = [answer EXCEPT ![t] = a]
                      /\ old' = [old EXCEPT ![t] = 0]
                      /\ elem' = [elem EXCEPT ![t] = None]
                      /\ UNCHANGED <<waits, budget>>

-----------------------------------------------------------------------------
(* The four calls begin, and the loop of the waiting ones. *)

Begin(t) == /\ budget[t] > 0
            /\ Goto(t, "idle", IF waits[t] THEN "loop" ELSE "load")
            /\ budget' = [budget EXCEPT ![t] = @ - 1]
            /\ answer' = [answer EXCEPT ![t] = None]

EnqueueStart(p) ==
  /\ Begin(p)
  /\ elem' = [elem EXCEPT ![p] = <<p, budget[p]>>]
  /\ UNCHANGED <<ring, wait, waits, old>>

DequeueStart(c) ==
  /\ Begin(c)
  /\ UNCHANGED <<ring, wait, waits, old, elem>>

\* while (!break_all_wait_)
LoopAgain(t) == /\ ~break_all_wait
                /\ Goto(t, "loop", "load")
                /\ UNCHANGED <<ring, wait, call>>

LoopBroken(t) == /\ break_all_wait
                 /\ Return(t, "loop", None)
                 /\ UNCHANGED <<ring, wait>>

\* The attempt failed: a plain call returns, a waiting one goes to EmptyWait.
Fail(t, a) == \/ /\ ~waits[t]
                 /\ Return(t, "check", a)
              \/ /\ waits[t]
                 /\ Goto(t, "check", "pause")
                 /\ UNCHANGED call

-----------------------------------------------------------------------------
(* Enqueue *)

LoadTail(p) == /\ Goto(p, "load", "check")
               /\ old' = [old EXCEPT ![p] = tail]
               /\ UNCHANGED <<ring, wait, waits, elem, budget, answer>>

\* mutant: forgets that tail_'s own slot stays free
HeadReached(p) == GetIndex(old[p]) = GetIndex(head)

HeadInTheWay(p) == GetIndex(old[p] + 1) = GetIndex(head)

CheckFull(p) == /\ HeadInTheWay(p)
                /\ Fail(p, Full)
                /\ UNCHANGED <<ring, wait>>

CheckRoom(p) == /\ ~HeadInTheWay(p)
                /\ Goto(p, "check", "cas")
                /\ UNCHANGED <<ring, wait, call>>

\* mutant: the position is claimed by a store
ClaimTailBlind(p) == /\ Goto(p, "cas", "write")
                     /\ tail' = old[p] + 1
                     /\ UNCHANGED <<head, commit, pool, wait, call>>

ClaimTail(p) == /\ tail = old[p]
                /\ Goto(p, "cas", "write")
                /\ tail' = old[p] + 1
                /\ UNCHANGED <<head, commit, pool, wait, call>>

\* A failed compare-exchange refreshes old_tail.  One that fails for no reason
\* only repeats the test that led to it, which is the same as a late test.
ClaimTailFails(p) == /\ tail # old[p]
                     /\ Goto(p, "cas", "check")
                     /\ old' = [old EXCEPT ![p] = tail]
                     /\ UNCHANGED <<ring, wait, waits, elem, budget, answer>>

WriteSlot(p) == /\ Goto(p, "write", "fill")
                /\ pool' = [pool EXCEPT ![GetIndex(old[p])] = Torn]
                /\ UNCHANGED <<head, tail, commit, wait, call>>

FillSlot(p) == /\ Goto(p, "fill", "commit")
               /\ pool' = [pool EXCEPT ![GetIndex(old[p])] = elem[p]]
               /\ UNCHANGED <<head, tail, commit, wait, call>>

\* mutant: the position is published by a store, in any order
CommitTailBlind(p) == /\ Goto(p, "commit", "notify")
                      /\ commit' = old[p] + 1
                      /\ UNCHANGED <<head, tail, pool, wait, call>>

\* mutant: waits for a position that is long committed
CommitTailOffByOne(p) == /\ commit = old[p] - 1
                         /\ Goto(p, "commit", "notify")
                         /\ commit' = old[p] + 1
                         /\ UNCHANGED <<head, tail, pool, wait, call>>

\* The compare-exchange spins until the earlier positions are committed.
CommitTail(p) == /\ commit = old[p]
                 /\ Goto(p, "commit", "notify")
                 /\ commit' = old[p] + 1
                 /\ UNCHANGED <<head, tail, pool, wait, call>>

-----------------------------------------------------------------------------
(* Dequeue *)

LoadHead(c) == /\ Goto(c, "load", "check")
               /\ old' = [old EXCEPT ![c] = head]
               /\ UNCHANGED <<ring, wait, waits, elem, budget, answer>>

\* mutant: as if claimed meant written
NothingClaimed(c) == old[c] + 1 = tail

NothingBehindNext(c) == old[c] + 2 >= commit      \* mutant

NothingCommitted(c) == old[c] + 1 = commit

CheckEmpty(c) == /\ NothingCommitted(c)
                 /\ Fail(c, Empty)
                 /\ UNCHANGED <<ring, wait>>

CheckElement(c) == /\ ~NothingCommitted(c)
                   /\ Goto(c, "check", "copy")
                   /\ UNCHANGED <<ring, wait, call>>

CopySlot(c) == /\ Goto(c, "copy", "cas")
               /\ elem' = [elem EXCEPT ![c] = pool[GetIndex(old[c] + 1)]]
               /\ UNCHANGED <<ring, wait, waits, old, budget, answer>>

TakeHead(c) == /\ head = old[c]
               /\ head' = old[c] + 1
               /\ Return(c, "cas", elem[c])
               /\ UNCHANGED <<tail, commit, pool, wait>>

TakeHeadFails(c) == /\ head # old[c]
                    /\ Goto(c, "cas", "check")
                    /\ old' = [old EXCEPT ![c] = head]
                    /\ UNCHANGED <<ring, wait, waits, elem, budget, answer>>

-----------------------------------------------------------------------------
(* The wait strategies.  EmptyWait of the sleeping and spinning ones       *)
(* returns by itself; that of the blocking ones joins the condition        *)
(* variable's waiters, without a predicate and after the check it follows. *)

Blocks == strategy \in {"block", "timeout"}

PauseEnds(t) == /\ ~Blocks
                /\ Goto(t, "pause", "loop")
                /\ UNCHANGED <<ring, wait, call>>

Block(t) == /\ Blocks
            /\ Goto(t, "pause", "blocked")
            /\ UNCHANGED <<ring, wait, call>>

\* A condition variable may wake a waiter for no reason.
WakeUp(t) == /\ Goto(t, "blocked", "loop")
             /\ UNCHANGED <<ring, wait, call>>

TimeOut(t) == /\ strategy = "timeout"
              /\ Return(t, "blocked", None)
              /\ UNCHANGED <<ring, wait>>

Blocked == {t \in Threads : pc[t] = "blocked"}

\* NotifyOne ends an Enqueue, and hence a WaitEnqueue; nobody else calls it.
NotifyOne(p) ==
  /\ pc[p] = "notify"
  /\ \/ /\ Blocked = {}
        /\ pc' = [pc EXCEPT ![p] = "idle"]
     \/ \E t \in Blocked : pc' = [pc EXCEPT ![p] = "idle", ![t] = "loop"]
  /\ answer' = [answer EXCEPT ![p] = elem[p]]
  /\ old' = [old EXCEPT ![p] = 0]
  /\ elem' = [elem EXCEPT ![p] = None]
  /\ UNCHANGED <<ring, wait, waits, budget>>

BreakSetForgets == /\ breaker = "before"               \* mutant
                   /\ breaker' = "set"
                   /\ UNCHANGED <<ring, strategy, break_all_wait, pc, call>>

\* BreakAllWait is called at most once, by the owner of the queue.
BreakSet == /\ breaker = "before"
            /\ breaker' = "set"
            /\ break_all_wait' = TRUE
            /\ UNCHANGED <<ring, strategy, pc, call>>

BreakNotify == /\ breaker = "set"
               /\ breaker' = "after"
               /\ pc' = [t \in Threads |->
                           IF t \in Blocked THEN "loop" ELSE pc[t]]
               /\ UNCHANGED <<ring, strategy, break_all_wait, call>>

-----------------------------------------------------------------------------
Enqueue(p) == \/ LoadTail(p) \/ CheckFull(p) \/ CheckRoom(p)
              \/ ClaimTail(p) \/ ClaimTailFails(p)
              \/ WriteSlot(p) \/ FillSlot(p) \/ CommitTail(p) \/ NotifyOne(p)

Dequeue(c) == \/ LoadHead(c) \/ CheckEmpty(c) \/ CheckElement(c)
              \/ CopySlot(c) \/ TakeHead(c) \/ TakeHeadFails(c)

WaitLoop(t) == \/ LoopAgain(t) \/ LoopBroken(t)
               \/ PauseEnds(t) \/ Block(t) \/ TimeOut(t)

Next == \/ \E p \in Producers : EnqueueStart(p) \/ Enqueue(p)
        \/ \E c \in Consumers : DequeueStart(c) \/ Dequeue(c)
        \/ \E t \in Threads : WaitLoop(t) \/ WakeUp(t)
        \/ BreakSet
        \/ BreakNotify

Spec == Init /\ [][Next]_vars

(***************************************************************************)
(* Every thread inside a call is run, a timeout expires, and BreakAllWait  *)
(* is not abandoned half way.                                              *)
(***************************************************************************)
Fairness == /\ \A p \in Producers : WF_vars(Enqueue(p) \/ WaitLoop(p))
            /\ \A c \in Consumers : WF_vars(Dequeue(c) \/ WaitLoop(c))
            /\ WF_vars(BreakNotify)

FairSpec == Spec /\ Fairness

-----------------------------------------------------------------------------
(* The type of the state.                                                  *)
TypeOK == /\ head \in Nat /\ tail \in Nat /\ commit \in Nat
          /\ pool \in [Slots -> Values \cup {Free, Torn}]
            /\ break_all_wait \in BOOLEAN
          /\ breaker \in {"never", "before", "set", "after"}
          /\ pc \in [Threads -> PCs]
          /\ waits \in [Threads -> BOOLEAN]
          /\ old \in [Threads -> Nat]
          /\ elem \in [Threads -> Values \cup {None, Free, Torn}]
          /\ budget \in [Threads -> 0..MaxCalls]
          /\ answer \in [Threads -> Values \cup {None, Empty, Full}]

(* The three positions never cross: what is committed was claimed, what is *)
(* taken was committed, and no more positions are claimed than there are   *)
(* slots beside head_'s and tail_'s own, whatever stale positions the      *)
(* threads compare.                                                        *)
RingBounds == /\ head < commit
              /\ commit <= tail
              /\ tail <= head + Size + 1

Writing == {p \in Producers : pc[p] \in {"write", "fill", "commit"}}

(* A producer between its claim and its commit owns its slot: no other     *)
(* producer writes it, and it holds no element that can still be taken.    *)
SlotsOwned ==
  \A p \in Writing :
    /\ \A r \in Writing \ {p} : GetIndex(old[r]) # GetIndex(old[p])
    /\ \A i \in (head + 1)..(commit - 1) : GetIndex(i) # GetIndex(old[p])

(* The elements that can be taken, oldest first. *)
Items == [i \in 1..(commit - head - 1) |-> pool[GetIndex(head + i)]]

Fifo == INSTANCE FifoQueue WITH Takers <- Consumers, Capacity <- Size,
                                q <- Items,
                                answer <- [c \in Consumers |-> answer[c]]

(* The ring implements the queue of FifoQueue: nothing is lost, repeated,  *)
(* reordered or taken half written, and Dequeue reports an empty queue     *)
(* only when nothing is committed, although it reads head_, commit_ and    *)
(* the slot one after the other.                                           *)
ImplementsFifo == Fifo!Spec

(* Enqueue refuses an element only when the queue is full, or when another *)
(* producer moved tail_ since it was read (the stale position may then     *)
(* collide with head_ in a queue that has room).                           *)
RefusalsJustified ==
  [][\A p \in Producers :
       CheckFull(p) => tail - head - 1 = Size \/ tail # old[p]]_vars

(* Every Enqueue and Dequeue returns, the commit loop included, which      *)
(* waits for the producers that claimed earlier: the callers that do not   *)
(* wait come to rest, with their finite number of calls behind them.       *)
PlainCallsReturn ==
  []<>(\A t \in Threads : waits[t] \/ pc[t] = "idle")

InCall == {t \in Threads : waits[t] /\ pc[t] # "idle"}

(* A consumer in WaitDequeue does not sleep for ever beside an element     *)
(* that nobody else takes.                                                 *)
NoItemStranded ==
  (Items # <<>> /\ InCall \cap Consumers # {})
    ~> (Items = <<>> \/ InCall \cap Consumers = {})

(* BreakAllWait ends every WaitEnqueue and WaitDequeue, those that begin   *)
(* later included.                                                         *)
WaitersReleased == breaker = "after" ~> InCall = {}
=============================================================================
