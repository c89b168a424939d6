---------------------------- MODULE AtomicRWLock ----------------------------
(***************************************************************************)
(* base::AtomicRWLock, the spinning reader/writer lock behind the run      *)
(* queues and the coroutine table of the scheduler, the listener tables of *)
(* the dispatchers and the segment table of the shared-memory transport.   *)
(*                                                                         *)
(* One step is one access to a shared atomic.  A thread takes the lock     *)
(* through ReadLockGuard or WriteLockGuard only, so that it releases       *)
(* exactly what it took and never takes it twice.                          *)
(***************************************************************************)
EXTENDS Integers, FiniteSets

CONSTANT Threads    \* the threads that use the lock

ASSUME ThreadsAssumption == IsFiniteSet(Threads)

VARIABLES lock_num,             \* -1: write locked; n >= 0: n readers
          write_lock_wait_num,  \* writers inside WriteLock
          write_first,          \* the member the constructor sets
          pc,                   \* where each thread stands
          seen,                 \* the local lock_num of ReadLock
          behind                \* history: the writers that were waiting when
                                \* a reader arrived and still are
vars == <<lock_num, write_lock_wait_num, write_first, pc, seen, behind>>

RW_LOCK_FREE == 0
WRITE_EXCLUSIVE == -1

(***************************************************************************)
(* idle: outside; r_check: at the condition of the inner loop; r_reload:   *)
(* in its body; r_cas: at the compare-exchange; reading: holds a read      *)
(* lock; w_cas: announced, at the compare-exchange; w_leave: took the      *)
(* lock, still announced; writing: holds the write lock.                   *)
(***************************************************************************)
PCs == {"idle", "r_check", "r_reload", "r_cas", "reading",
        "w_cas", "w_leave", "writing"}

Readers == {t \in Threads : pc[t] = "reading"}
Writers == {t \in Threads : pc[t] \in {"w_leave", "writing"}}
Waiting == {t \in Threads : pc[t] = "w_cas"}
Announced == {t \in Threads : pc[t] \in {"w_cas", "w_leave"}}

Init == /\ lock_num = RW_LOCK_FREE
        /\ write_lock_wait_num = 0
        /\ write_first \in BOOLEAN
        /\ pc = [t \in Threads |-> "idle"]
        /\ seen = [t \in Threads |-> 0]
        /\ behind = [t \in Threads |-> {}]

Goto(t, from, to) == /\ pc[t] = from
                     /\ pc' = [pc EXCEPT ![t] = to]

Load(t) == seen' = [seen EXCEPT ![t] = lock_num]

-----------------------------------------------------------------------------
(* ReadLock *)

ReadStart(t) == /\ Goto(t, "idle", "r_check")
                /\ Load(t)
                /\ behind' = [behind EXCEPT ![t] = Waiting]
                /\ UNCHANGED <<lock_num, write_lock_wait_num, write_first>>

MayReadIgnoresWaiters(t) == seen[t] >= RW_LOCK_FREE    \* mutant

\* What the inner loop waits for: no writer in the copy, and none announced.
MayRead(t) == /\ seen[t] >= RW_LOCK_FREE
              /\ write_first => write_lock_wait_num = 0

ReadBlocked(t) == /\ ~MayRead(t)
                  /\ Goto(t, "r_check", "r_reload")
                  /\ UNCHANGED <<lock_num, write_lock_wait_num, write_first, seen, behind>>

ReadReload(t) == /\ Goto(t, "r_reload", "r_check")
                 /\ Load(t)
                 /\ UNCHANGED <<lock_num, write_lock_wait_num, write_first, behind>>

ReadAdmitted(t) == /\ MayRead(t)
                   /\ Goto(t, "r_check", "r_cas")
                   /\ UNCHANGED <<lock_num, write_lock_wait_num, write_first, seen, behind>>

\* mutant: a fetch_add in place of the compare-exchange
ReadCasBlind(t) == /\ Goto(t, "r_cas", "reading")
                   /\ lock_num' = lock_num + 1
                   /\ seen' = [seen EXCEPT ![t] = 0]
                   /\ UNCHANGED <<write_lock_wait_num, write_first, behind>>

ReadCas(t) == /\ lock_num = seen[t]
              /\ Goto(t, "r_cas", "reading")
              /\ lock_num' = seen[t] + 1
              /\ seen' = [seen EXCEPT ![t] = 0]   \* a local, gone on return
              /\ UNCHANGED <<write_lock_wait_num, write_first, behind>>

\* compare_exchange_weak refreshes the copy, and may fail for no reason.
ReadCasFails(t) == /\ Goto(t, "r_cas", "r_check")
                   /\ Load(t)
                   /\ UNCHANGED <<lock_num, write_lock_wait_num, write_first, behind>>

ReadUnlock(t) == /\ Goto(t, "reading", "idle")
                 /\ lock_num' = lock_num - 1
                 /\ UNCHANGED <<write_lock_wait_num, write_first, seen, behind>>

-----------------------------------------------------------------------------
(* WriteLock: a failed compare-exchange changes nothing and is tried again. *)

WriteAnnounce(t) == /\ Goto(t, "idle", "w_cas")
                    /\ write_lock_wait_num' = write_lock_wait_num + 1
                    /\ UNCHANGED <<lock_num, write_first, seen, behind>>

\* mutant: a store in place of the compare-exchange
WriteCasBlind(t) == /\ Goto(t, "w_cas", "w_leave")
                    /\ lock_num' = WRITE_EXCLUSIVE
                    /\ behind' = [r \in Threads |-> behind[r] \ {t}]
                    /\ UNCHANGED <<write_lock_wait_num, write_first, seen>>

WriteCas(t) == /\ lock_num = RW_LOCK_FREE
               /\ Goto(t, "w_cas", "w_leave")
               /\ lock_num' = WRITE_EXCLUSIVE
               /\ behind' = [r \in Threads |-> behind[r] \ {t}]
               /\ UNCHANGED <<write_lock_wait_num, write_first, seen>>

\* mutant: the announcement is never withdrawn
WriteLeaveForgets(t) == /\ Goto(t, "w_leave", "writing")
                        /\ UNCHANGED <<lock_num, write_lock_wait_num,
                                       write_first, seen, behind>>

WriteLeave(t) == /\ Goto(t, "w_leave", "writing")
                 /\ write_lock_wait_num' = write_lock_wait_num - 1
                 /\ UNCHANGED <<lock_num, write_first, seen, behind>>

WriteUnlock(t) == /\ Goto(t, "writing", "idle")
                  /\ lock_num' = lock_num + 1
                  /\ UNCHANGED <<write_lock_wait_num, write_first, seen, behind>>

-----------------------------------------------------------------------------
ReadLoop(t) == \/ ReadBlocked(t)
               \/ ReadReload(t)
               \/ ReadAdmitted(t)
               \/ ReadCas(t)
               \/ ReadCasFails(t)

WriteLoop(t) == WriteCas(t) \/ WriteLeave(t)

Unlock(t) == ReadUnlock(t) \/ WriteUnlock(t)

Next == \E t \in Threads : \/ ReadStart(t)
                           \/ WriteAnnounce(t)
                           \/ ReadLoop(t)
                           \/ WriteLoop(t)
                           \/ Unlock(t)

Spec == Init /\ [][Next]_vars

(***************************************************************************)
(* The operating system runs every thread that spins, and a guard's scope  *)
(* ends.  Nothing makes a thread call ReadLock or WriteLock.               *)
(***************************************************************************)
Fairness == \A t \in Threads : /\ WF_vars(ReadLoop(t))
                               /\ WF_vars(WriteLoop(t))
                               /\ WF_vars(Unlock(t))

FairSpec == Spec /\ Fairness

-----------------------------------------------------------------------------
(* The type of the state: the lock word, the announcements, the threads.  *)
TypeOK == /\ lock_num \in Int /\ lock_num >= WRITE_EXCLUSIVE
          /\ write_lock_wait_num \in Nat
          /\ write_first \in BOOLEAN
          /\ pc \in [Threads -> PCs]
          /\ seen \in [Threads -> Int]
          /\ behind \in [Threads -> SUBSET Threads]

(* Mutual exclusion of the guards: a writer in its critical section is     *)
(* alone there, whatever stale copy of lock_num_ the readers compare with. *)
Exclusion == \A t \in Writers : Readers = {} /\ Writers = {t}

(* lock_num_ counts the holders exactly, so it neither wraps below -1 nor  *)
(* stays locked when the last guard is gone.                               *)
LockWord == lock_num = IF Writers # {} THEN WRITE_EXCLUSIVE
                                       ELSE Cardinality(Readers)

(* write_lock_wait_num_ counts the announced writers, so a quiet lock does *)
(* not turn readers away forever.                                          *)
WaitCount == write_lock_wait_num = Cardinality(Announced)

(* Both at once: the unlocks and the end of WriteLock are blind additions, *)
(* right only if every path undoes what it did.                            *)
ExactCounters == LockWord /\ WaitCount

(* "Write first": no reader gets in ahead of a writer that was already     *)
(* waiting when the reader called ReadLock, although the reader decides on *)
(* a copy of the lock word and two separate loads.                         *)
NoOvertaking ==
  write_first => \A t \in Readers : behind[t] = {}

(* A stream of readers does not starve the writers of a write-first lock:  *)
(* while one waits, some writer gets in (which one, the race of the        *)
(* compare-exchanges decides).                                             *)
SomeWriterGetsIn == (write_first /\ Waiting # {}) ~> Writers # {}
=============================================================================
