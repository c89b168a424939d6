------------------------- MODULE AtomicRWLockProofs -------------------------
(***************************************************************************)
(* What the lock guarantees for any finite set of threads.                 *)
(*                                                                         *)
(* The argument counts.  Every holder is a reader or a writer, lock_num_   *)
(* is the number of readers or -1, and the compare-exchanges move it only  *)
(* from the value they expect: a reader's from a free or read-locked word, *)
(* a writer's from a free one, which says that nobody holds the lock.      *)
(***************************************************************************)
EXTENDS AtomicRWLock, FiniteSetTheorems, TLAPS

(* The strengthening of the invariants that every step preserves: a reader *)
(* at its compare-exchange holds a copy that was not write-locked.         *)
CopyReadable == \A t \in Threads : pc[t] = "r_cas" => seen[t] >= RW_LOCK_FREE

IInv == TypeOK /\ Exclusion /\ LockWord /\ WaitCount /\ CopyReadable

(* The sets of holders and of announced writers are finite, so that their  *)
(* cardinalities are numbers.                                              *)
LEMMA FiniteHolders ==
  /\ IsFiniteSet(Readers) /\ Cardinality(Readers) \in Nat
  /\ IsFiniteSet(Announced) /\ Cardinality(Announced) \in Nat
<1>1. Readers \subseteq Threads /\ Announced \subseteq Threads
  BY DEF Readers, Announced
<1>2. IsFiniteSet(Readers) /\ IsFiniteSet(Announced)
  BY <1>1, ThreadsAssumption, FS_Subset
<1>3. QED
  BY <1>2, FS_CardinalityType

(* An empty set of readers is what a count of zero means.                  *)
LEMMA NoReaders == Cardinality(Readers) = 0 <=> Readers = {}
  BY FiniteHolders, FS_EmptySet

(* A step that moves no thread into or out of a holding or an announced    *)
(* state keeps the counts.                                                 *)
LEMMA CountsKept ==
  ASSUME Exclusion, LockWord, WaitCount,
         Readers' = Readers, Writers' = Writers, Announced' = Announced,
         UNCHANGED <<lock_num, write_lock_wait_num>>
  PROVE  Exclusion' /\ LockWord' /\ WaitCount'
  BY DEF Exclusion, LockWord, WaitCount

(* One step of the lock keeps the strengthened invariant: the reader's     *)
(* half.                                                                   *)
LEMMA ReaderStep ==
  ASSUME IInv, NEW t \in Threads,
         ReadStart(t) \/ ReadLoop(t) \/ ReadUnlock(t)
  PROVE  IInv'
<1> USE DEF IInv
<1>1. CASE ReadStart(t) \/ ReadBlocked(t) \/ ReadReload(t) \/ ReadAdmitted(t)
             \/ ReadCasFails(t)
  <2> USE <1>1 DEF ReadStart, ReadBlocked, ReadReload, ReadAdmitted,
                   ReadCasFails, Goto, Load
  <2>1. TypeOK'
    BY DEF TypeOK, PCs, Waiting
  <2>2. Readers' = Readers /\ Writers' = Writers /\ Announced' = Announced
    BY DEF TypeOK, Readers, Writers, Announced
  <2>3. Exclusion' /\ LockWord' /\ WaitCount'
    BY <2>2, CountsKept
  <2>4. CopyReadable'
    BY DEF TypeOK, CopyReadable, MayRead
  <2>5. QED
    BY <2>1, <2>3, <2>4
<1>2. CASE ReadCas(t)
  <2> USE <1>2 DEF ReadCas, Goto
  <2>1. lock_num >= 0 /\ Writers = {} /\ lock_num = Cardinality(Readers)
    BY DEF LockWord, CopyReadable, RW_LOCK_FREE, WRITE_EXCLUSIVE
  <2>2. Readers' = Readers \cup {t} /\ t \notin Readers
    BY DEF TypeOK, Readers
  <2>3. Writers' = {} /\ Announced' = Announced
    BY <2>1 DEF TypeOK, Writers, Announced
  <2>4. Cardinality(Readers') = Cardinality(Readers) + 1
    BY <2>2, FiniteHolders, FS_AddElement
  <2>5. TypeOK'
    BY <2>1, FiniteHolders DEF TypeOK, PCs, WRITE_EXCLUSIVE
  <2>6. Exclusion'
    BY <2>3 DEF Exclusion
  <2>7. LockWord' /\ WaitCount'
    BY <2>1, <2>3, <2>4 DEF LockWord, WaitCount
  <2>8. CopyReadable'
    BY DEF TypeOK, CopyReadable
  <2>9. QED
    BY <2>5, <2>6, <2>7, <2>8
<1>3. CASE ReadUnlock(t)
  <2> USE <1>3 DEF ReadUnlock, Goto
  <2>1. t \in Readers
    BY DEF Readers
  <2>2. Writers = {} /\ lock_num = Cardinality(Readers)
    BY <2>1 DEF Exclusion, LockWord
  <2>3. Readers' = Readers \ {t}
    BY DEF TypeOK, Readers
  <2>4. Writers' = {} /\ Announced' = Announced
    BY <2>2 DEF TypeOK, Writers, Announced
  <2>5. Cardinality(Readers') = Cardinality(Readers) - 1
    BY <2>1, <2>3, FiniteHolders, FS_RemoveElement
  <2>6. Cardinality(Readers) >= 1
    BY <2>1, NoReaders, FiniteHolders
  <2>7. TypeOK'
    BY <2>2, <2>6, FiniteHolders DEF TypeOK, PCs, WRITE_EXCLUSIVE
  <2>8. Exclusion' /\ LockWord' /\ WaitCount'
    BY <2>2, <2>4, <2>5 DEF Exclusion, LockWord, WaitCount
  <2>9. CopyReadable'
    BY DEF TypeOK, CopyReadable
  <2>10. QED
    BY <2>7, <2>8, <2>9
<1>4. QED
  BY <1>1, <1>2, <1>3 DEF ReadLoop

(* The writer's half.                                                      *)
LEMMA WriterStep ==
  ASSUME IInv, NEW t \in Threads,
         WriteAnnounce(t) \/ WriteLoop(t) \/ WriteUnlock(t)
  PROVE  IInv'
<1> USE DEF IInv
<1>1. CASE WriteAnnounce(t)
  <2> USE <1>1 DEF WriteAnnounce, Goto
  <2>1. Readers' = Readers /\ Writers' = Writers
    BY DEF TypeOK, Readers, Writers
  <2>2. Announced' = Announced \cup {t} /\ t \notin Announced
    BY DEF TypeOK, Announced
  <2>3. Cardinality(Announced') = Cardinality(Announced) + 1
    BY <2>2, FiniteHolders, FS_AddElement
  <2>4. TypeOK' /\ CopyReadable'
    BY DEF TypeOK, PCs, CopyReadable
  <2>5. Exclusion' /\ LockWord' /\ WaitCount'
    BY <2>1, <2>3 DEF Exclusion, LockWord, WaitCount
  <2>6. QED
    BY <2>4, <2>5
<1>2. CASE WriteCas(t)
  <2> USE <1>2 DEF WriteCas, Goto
  <2>1. Writers = {} /\ Readers = {}
    BY NoReaders DEF LockWord, RW_LOCK_FREE, WRITE_EXCLUSIVE
  <2>2. Readers' = {} /\ Writers' = {t} /\ Announced' = Announced
    BY <2>1 DEF TypeOK, Readers, Writers, Announced
  <2>3. TypeOK' /\ CopyReadable'
    BY DEF TypeOK, PCs, CopyReadable, WRITE_EXCLUSIVE
  <2>4. Exclusion' /\ LockWord' /\ WaitCount'
    BY <2>2 DEF Exclusion, LockWord, WaitCount
  <2>5. QED
    BY <2>3, <2>4
<1>3. CASE WriteLeave(t)
  <2> USE <1>3 DEF WriteLeave, Goto
  <2>1. Readers' = Readers /\ Writers' = Writers
    BY DEF TypeOK, Readers, Writers
  <2>2. Announced' = Announced \ {t} /\ t \in Announced
    BY DEF TypeOK, Announced
  <2>3. Cardinality(Announced') = Cardinality(Announced) - 1
    BY <2>2, FiniteHolders, FS_RemoveElement
  <2>4. Cardinality(Announced) >= 1
    BY <2>2, FiniteHolders, FS_EmptySet
  <2>5. TypeOK' /\ CopyReadable'
    BY <2>4, FiniteHolders DEF TypeOK, PCs, CopyReadable, WaitCount
  <2>6. Exclusion' /\ LockWord' /\ WaitCount'
    BY <2>1, <2>3 DEF Exclusion, LockWord, WaitCount
  <2>7. QED
    BY <2>5, <2>6
<1>4. CASE WriteUnlock(t)
  <2> USE <1>4 DEF WriteUnlock, Goto
  <2>1. t \in Writers
    BY DEF Writers
  <2>2. Readers = {} /\ Writers = {t} /\ lock_num = WRITE_EXCLUSIVE
    BY <2>1 DEF Exclusion, LockWord
  <2>3. Readers' = {} /\ Writers' = {} /\ Announced' = Announced
    BY <2>2 DEF TypeOK, Readers, Writers, Announced
  <2>4. TypeOK' /\ CopyReadable'
    BY <2>2 DEF TypeOK, PCs, CopyReadable, WRITE_EXCLUSIVE
  <2>5. Exclusion' /\ LockWord' /\ WaitCount'
    BY <2>2, <2>3, FS_EmptySet
       DEF Exclusion, LockWord, WaitCount, WRITE_EXCLUSIVE
  <2>6. QED
    BY <2>4, <2>5
<1>5. QED
  BY <1>1, <1>2, <1>3, <1>4 DEF WriteLoop

(* The strengthened invariant holds of every behaviour of the lock.        *)
THEOREM Inductive == Spec => []IInv
<1>1. Init => IInv
  <2> SUFFICES ASSUME Init PROVE IInv
    OBVIOUS
  <2>1. Readers = {} /\ Writers = {} /\ Announced = {}
    BY DEF Init, Readers, Writers, Announced
  <2>2. Exclusion /\ LockWord /\ WaitCount
    BY <2>1, FS_EmptySet DEF Init, Exclusion, LockWord, WaitCount, RW_LOCK_FREE
  <2>3. TypeOK /\ CopyReadable
    BY DEF Init, TypeOK, PCs, CopyReadable, RW_LOCK_FREE, WRITE_EXCLUSIVE
  <2>4. QED
    BY <2>2, <2>3 DEF IInv
<1>2. IInv /\ [Next]_vars => IInv'
  <2> SUFFICES ASSUME IInv, [Next]_vars PROVE IInv'
    OBVIOUS
  <2>1. CASE UNCHANGED vars
    BY <2>1 DEF IInv, TypeOK, Exclusion, LockWord, WaitCount, CopyReadable,
                Readers, Writers, Announced, vars
  <2>2. CASE Next
    BY <2>2, ReaderStep, WriterStep DEF Next, Unlock
  <2>3. QED
    BY <2>1, <2>2
<1>3. QED
  BY <1>1, <1>2, PTL DEF Spec

(* The history of arrivals: what a reader is behind is still waiting, and  *)
(* a reader that passed the loop's test of a write-first lock is behind    *)
(* nobody.                                                                 *)
Arrivals == /\ \A t \in Threads : behind[t] \subseteq Waiting
            /\ write_first => \A t \in Threads :
                                pc[t] \in {"r_cas", "reading"} => behind[t] = {}

(* A step keeps the history of arrivals: the test sees no announcement, so *)
(* by WaitCount no writer waits.                                           *)
LEMMA ArrivalsStep ==
  ASSUME IInv, Arrivals, NEW t \in Threads,
         ReadStart(t) \/ WriteAnnounce(t) \/ ReadLoop(t) \/ WriteLoop(t)
           \/ Unlock(t)
  PROVE  Arrivals'
<1> USE DEF IInv, TypeOK, Arrivals, Waiting, Goto
<1>1. CASE ReadStart(t)
  BY <1>1 DEF ReadStart
<1>2. CASE ReadBlocked(t) \/ ReadReload(t) \/ ReadCas(t) \/ ReadCasFails(t)
  BY <1>2 DEF ReadBlocked, ReadReload, ReadCas, ReadCasFails
<1>3. CASE ReadAdmitted(t)
  <2>1. write_first => Announced = {}
    BY <1>3, FiniteHolders, FS_EmptySet DEF ReadAdmitted, MayRead, WaitCount
  <2>2. write_first => behind[t] = {}
    BY <2>1 DEF Announced
  <2>3. QED
    BY <1>3, <2>2 DEF ReadAdmitted
<1>4. CASE ReadUnlock(t) \/ WriteUnlock(t)
  BY <1>4 DEF ReadUnlock, WriteUnlock
<1>5. CASE WriteAnnounce(t) \/ WriteLeave(t)
  BY <1>5 DEF WriteAnnounce, WriteLeave
<1>6. CASE WriteCas(t)
  BY <1>6 DEF WriteCas
<1>7. QED
  BY <1>1, <1>2, <1>3, <1>4, <1>5, <1>6 DEF ReadLoop, WriteLoop, Unlock

(* No reader of a write-first lock gets in ahead of a writer that was      *)
(* waiting when the reader arrived.                                        *)
THEOREM WritersFirst == Spec => []NoOvertaking
<1>1. Init => Arrivals
  BY DEF Init, Arrivals
<1>2. IInv /\ Arrivals /\ [Next]_vars => Arrivals'
  <2> SUFFICES ASSUME IInv, Arrivals, [Next]_vars PROVE Arrivals'
    OBVIOUS
  <2>1. CASE UNCHANGED vars
    BY <2>1 DEF vars, Arrivals, Waiting
  <2>2. CASE Next
    BY <2>2, ArrivalsStep DEF Next
  <2>3. QED
    BY <2>1, <2>2
<1>3. Arrivals => NoOvertaking
  BY DEF Arrivals, NoOvertaking, Readers
<1>4. QED
  BY <1>1, <1>2, <1>3, Inductive, PTL DEF Spec

(* Type correctness: the word and the counters keep their range, -1 is the *)
(* least the word ever is.                                                 *)
THEOREM TypeCorrect == Spec => []TypeOK
  BY Inductive, PTL DEF IInv

(* The guards exclude each other: with a writer inside, nobody else is.    *)
THEOREM MutualExclusion == Spec => []Exclusion
  BY Inductive, PTL DEF IInv

(* The lock word and the announcements count exactly the threads they      *)
(* stand for.                                                              *)
THEOREM ExactCounts == Spec => []ExactCounters
<1>1. IInv => ExactCounters
  BY DEF IInv, ExactCounters
<1> QED BY <1>1, Inductive, PTL
=============================================================================
