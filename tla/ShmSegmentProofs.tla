-------------------------- MODULE ShmSegmentProofs --------------------------
(***************************************************************************)
(* Proofs about ShmSegment: its types, that the lock of every block of a   *)
(* segment that is not spoiled says who is in the block, and that what a   *)
(* dispatcher reads is whole and, with one writer and nobody leaving, not  *)
(* older than what it was told of.                                         *)
(*                                                                         *)
(* What a step does is said twice, so that no proof has to look at the     *)
(* actions again: by a lemma per action, <X>Does, on its effects for the   *)
(* user that takes it, and by Frame(u), on what it leaves to the others.   *)
(* The invariant IInv is a conjunction, and each part has a lemma <X>Next  *)
(* that says which of the other parts it needs:                            *)
(*   Types      TypeOK, with the range of what TypeOK leaves open; Bumps   *)
(*              bounds wrote_num by counting the writers yet to add to it  *)
(*   LockWords  needs Alone: a creator that is about to construct the      *)
(*              blocks shares the segment with nobody, or it is spoiled    *)
(*   Whole      needs LockWords (the writer of a torn block is in it, so   *)
(*              its reader is not), Layout and Clean                       *)
(*   News       needs Solo: with one writer, the newest segment is the one *)
(*              that is not marked; a reader that has looked at need_remap *)
(*              is in it, or was told before it was created                *)
(***************************************************************************)
EXTENDS ShmSegment, FiniteSetTheorems, SequenceTheorems, WellFoundedInduction, TLAPS

-----------------------------------------------------------------------------
(* Largest and smallest elements *)

\* A finite set of integers that is not empty has a largest and a smallest
\* element: a smallest set without one would have one less its own element.
LEMMA Extremes ==
  ASSUME NEW S, S \subseteq Int, IsFiniteSet(S), S # {}
  PROVE  /\ \E x \in S : \A y \in S : x >= y
         /\ \E x \in S : \A y \in S : x <= y
<1> DEFINE Good(T) == /\ \E x \in T : \A y \in T : x >= y
                      /\ \E x \in T : \A y \in T : x <= y
           Bad == {T \in FiniteSubsetsOf(Int) : T # {} /\ ~Good(T)}
<1>1. S \in FiniteSubsetsOf(Int)
  BY DEF FiniteSubsetsOf
<1> SUFFICES Bad = {}
  BY <1>1
<1> SUFFICES ASSUME Bad # {} PROVE FALSE
  OBVIOUS
<1>2. PICK T \in Bad : \A U \in Bad : ~(<<U, T>> \in StrictSubsetOrdering(Int))
  <2>1. Bad \subseteq FiniteSubsetsOf(Int)
    OBVIOUS
  <2> HIDE DEF Bad
  <2> QED BY <2>1, FS_StrictSubsetOrderingWellFounded, WFMin
<1>3. T \subseteq Int /\ IsFiniteSet(T) /\ T # {} /\ ~Good(T)
  BY DEF FiniteSubsetsOf
<1>4. PICK a \in T : TRUE
  BY <1>3
<1> DEFINE U == T \ {a}
<1>5. IsFiniteSet(U) /\ U \subseteq Int
  BY <1>3, FS_RemoveElement
<1>6. CASE U = {}
  <2>1. T = {a}
    BY <1>6
  <2> QED BY <2>1, <1>3
<1>7. CASE U # {}
  <2>1. U \notin Bad
    BY <1>2, <1>3, <1>5 DEF StrictSubsetOrdering, FiniteSubsetsOf
  <2>2. Good(U)
    BY <2>1, <1>5, <1>7 DEF FiniteSubsetsOf
  <2>3. PICK x \in U : \A y \in U : x >= y
    BY <2>2
  <2>4. PICK z \in U : \A y \in U : z <= y
    BY <2>2
  <2>5. \E h \in T : \A y \in T : h >= y
    <3>1. CASE a >= x
      <4>1. \A y \in T : a >= y
        BY <3>1, <2>3, <1>3
      <4> QED BY <4>1
    <3>2. CASE ~(a >= x)
      <4>1. \A y \in T : x >= y
        BY <3>2, <2>3, <1>3
      <4> QED BY <4>1
    <3> QED BY <3>1, <3>2
  <2>6. \E h \in T : \A y \in T : h <= y
    <3>1. CASE a <= z
      <4>1. \A y \in T : a <= y
        BY <3>1, <2>4, <1>3
      <4> QED BY <4>1
    <3>2. CASE ~(a <= z)
      <4>1. \A y \in T : z <= y
        BY <3>2, <2>4, <1>3
      <4> QED BY <4>1
    <3> QED BY <3>1, <3>2
  <2> QED BY <2>5, <2>6, <1>3
<1> QED BY <1>6, <1>7

LEMMA MaxIs ==
  ASSUME NEW S, S \subseteq Int, IsFiniteSet(S), S # {}
  PROVE  Max(S) \in S /\ \A y \in S : Max(S) >= y
BY Extremes DEF Max

LEMMA MinIs ==
  ASSUME NEW S, S \subseteq Int, IsFiniteSet(S), S # {}
  PROVE  Min(S) \in S /\ \A y \in S : Min(S) <= y
BY Extremes DEF Min

\* Every size has a layout, the layout of a layout's size is that layout, and
\* the blocks of a layout have locks.
LEMMA Layouts ==
  /\ \A n \in Nat : GetCeilingMessageSize(n) \in Ceilings
  /\ \A c \in Ceilings : GetCeilingMessageSize(c) = c
  /\ \A c \in Ceilings : BlockNum[c] \in Nat \ {0} /\ 0..(BlockNum[c] - 1) \subseteq Index
  /\ Ceilings \subseteq Nat \ {0} /\ 0 \in Index /\ Index \subseteq Nat
<1>1. Ceilings \subseteq Nat \ {0} /\ Ceilings # {} /\ IsFiniteSet(Ceilings)
  BY SegmentAssumption
<1>0. Ceilings \subseteq Int
  BY <1>1
<1>2. ASSUME NEW n \in Nat PROVE GetCeilingMessageSize(n) \in Ceilings
  <2> DEFINE fits == {c \in Ceilings : n <= c}
  <2>1. fits \subseteq Int /\ IsFiniteSet(fits)
    <3>1. fits \in SUBSET Ceilings
      OBVIOUS
    <3> HIDE DEF fits
    <3> QED BY <3>1, <1>0, <1>1, FS_Subset
  <2>2. fits # {} => Min(fits) \in fits
    <3> HIDE DEF fits
    <3> QED BY <2>1, MinIs
  <2>3. Max(Ceilings) \in Ceilings
    BY <1>0, <1>1, MaxIs
  <2> QED BY <2>2, <2>3 DEF GetCeilingMessageSize
<1>3. ASSUME NEW c \in Ceilings PROVE GetCeilingMessageSize(c) = c
  <2> DEFINE fits == {d \in Ceilings : c <= d}
  <2>1. fits \subseteq Int /\ IsFiniteSet(fits) /\ c \in fits
    <3>1. fits \in SUBSET Ceilings /\ c \in fits
      BY <1>1
    <3> HIDE DEF fits
    <3> QED BY <3>1, <1>0, <1>1, FS_Subset
  <2>2. Min(fits) \in fits /\ Min(fits) <= c
    <3> HIDE DEF fits
    <3> QED BY <2>1, MinIs
  <2>3. Min(fits) = c
    <3>1. Min(fits) \in Ceilings /\ c <= Min(fits)
      BY <2>2
    <3> HIDE DEF fits
    <3>2. c \in Int
      BY <1>0, <1>3
    <3>3. Min(fits) \in Int
      BY <3>1, <1>0
    <3> DEFINE m == Min(fits)
    <3> HIDE DEF m
    <3>4. m = c
      BY <3>1, <3>2, <3>3, <2>2 DEF m
    <3> QED BY <3>4 DEF m
  <2> QED BY <2>1, <2>3 DEF GetCeilingMessageSize
<1> DEFINE nums == {BlockNum[c] : c \in Ceilings}
<1>4. nums \subseteq Int /\ nums \subseteq Nat \ {0} /\ nums # {}
  <2>1. \A c \in Ceilings : BlockNum[c] \in Nat \ {0}
    BY SegmentAssumption
  <2>2. nums \subseteq Nat \ {0}
    BY <2>1
  <2>3. PICK c \in Ceilings : TRUE
    BY <1>1
  <2>4. BlockNum[c] \in nums
    OBVIOUS
  <2> QED BY <2>2, <2>4
<1>5. IsFiniteSet(nums)
  <2>1. BlockNum \in Surjection(Ceilings, nums)
    BY SegmentAssumption DEF Surjection
  <2> HIDE DEF nums
  <2> QED BY <2>1, <1>1, FS_Surjection
<1>6. Max(nums) \in nums /\ \A y \in nums : Max(nums) >= y
  <2> HIDE DEF nums
  <2> QED BY <1>4, <1>5, MaxIs
<1>7. Index = 0 .. Max(nums) - 1
  BY DEF Index
<1>10. Max(nums) \in Nat \ {0}
  BY <1>4, <1>6
<1>8. ASSUME NEW c \in Ceilings
      PROVE  BlockNum[c] \in Nat \ {0} /\ 0..(BlockNum[c] - 1) \subseteq Index
  <2>1. BlockNum[c] \in nums
    BY <1>8
  <2> HIDE DEF nums
  <2>2. BlockNum[c] \in Nat \ {0} /\ BlockNum[c] <= Max(nums)
    BY <2>1, <1>4, <1>6
  <2> QED BY <2>2, <1>7, <1>10
<1>9. 0 \in Index /\ Index \subseteq Nat
  <2> HIDE DEF nums
  <2> QED BY <1>7, <1>10
<1> QED BY <1>1, <1>2, <1>3, <1>8, <1>9
-----------------------------------------------------------------------------
(* The inductive invariant *)

WriterSteps == {"idle", "create", "state", "blocks", "get", "count", "last", "check", "size",
                "remove", "load", "lock", "bump", "fill", "filled", "written", "notify"}
ReaderSteps == {"listen", "get", "count", "range", "peek", "take", "read", "release",
                "last", "shut down"}
Sending == {"bump", "fill", "filled", "written", "notify"}
Reading == {"get", "count", "range", "peek", "take", "read"}

Memory == [need_remap : BOOLEAN, wrote_num : Nat, refs : 0..MaxRefs,
           ceiling : Ceilings \cup {0}, lock : [Index -> Int], data : [Index -> Int]]
Local == [ret : {"none", "check", "size", "load", "range", "peek"}, idx : Index,
          lock_num : Int, try_times : Nat, msg : Nat, got : Int]

\* What TypeOK leaves open.
Shapes ==
  /\ segs \in Seq(Memory) /\ count \in Nat
  /\ pc \in [Users -> WriterSteps \cup ReaderSteps]
  /\ \A w \in Writers : pc[w] \in WriterSteps
  /\ \A r \in Readers : pc[r] \in ReaderSteps
  /\ loc \in [Users -> Local]
  /\ todo \in [Writers -> Seq(Nat)]

\* A writer between two steps of a call has a message to send; an opening knows
\* where it goes on; no block is chosen before the steps that choose one.
Steps ==
  /\ \A w \in Writers :
       /\ pc[w] \notin {"idle", "last"} => todo[w] # <<>>
       /\ pc[w] \in {"create", "state", "blocks"} => loc[w].ret \in {"check", "load"}
       /\ pc[w] \in {"get", "count"} => loc[w].ret \in {"check", "size", "load"}
       /\ pc[w] = "remove" => loc[w].ret = "load"
       /\ pc[w] \notin {"lock", "notify"} \cup Sending => idx(w) = 0
       /\ pc[w] \in Sending => loc[w].msg \in 1..count
  /\ \A r \in Readers :
       /\ pc[r] \in {"get", "count"} => loc[r].ret \in {"range", "peek"}
       /\ pc[r] \in {"listen", "last", "shut down"} => idx(r) = 0
       /\ pc[r] = "take" => loc[r].lock_num >= 0
       /\ loc[r].msg <= count
  /\ ~left => \A u \in Users : pc[u] \notin {"last", "shut down"}

\* wrote_num is behind the number of messages by those who have yet to add theirs.
Bumps == \A s \in 1..Len(segs) :
           segs[s].wrote_num + Cardinality({u \in Users : at[u] = s /\ pc[u] = "bump"}) <= count

\* Nobody shares a segment with a living creator that is not done with it.
Alone == \A u \in Users \ dead, v \in Users :
           pc[u] \in {"state", "blocks"} /\ v # u /\ at[v] = at[u] => at[u] \in spoiled

\* Whoever has a segment mapped knows its layout, and a block that is neither
\* empty nor whole has its writer in it.
Layout == \A u \in Users :
            at[u] \notin spoiled \cup {0} /\ pc[u] # "state" =>
              conf[u] = GetCeilingMessageSize(segs[at[u]].ceiling)
Clean == \A s \in (1..Len(segs)) \ spoiled, i \in Index :
           segs[s].data[i] = Torn => Inside({"filled"}, s, i) # {}
Whole == \A r \in Readers :
           pc[r] = "release" /\ at[r] \notin spoiled => loc[r].got # Torn

\* A writer that has not come has done nothing.
Absent == /\ \A w \in Writers \ came : pc[w] = "idle" /\ at[w] = 0
          /\ came = {} => Len(segs) = 0 /\ key = 0 /\ infos = {}

OnlyWriter(w) == came = {w} /\ ~left

\* With one writer and nobody leaving, all segments but the newest are marked,
\* and the newest is the one the writer works with, until it replaces it.
Solo1(w) ==
  /\ key \in {0, Len(segs)} /\ at[w] \in {0, Len(segs)}
  /\ \A s \in 1..(Len(segs) - 1) : segs[s].need_remap
  /\ pc[w] # "get"
  /\ at[w] # 0 => /\ key = at[w] /\ ~segs[at[w]].need_remap
                  /\ pc[w] \notin {"create", "remove"}
  /\ at[w] = 0 =>
       /\ pc[w] \in {"create", "remove"} \/ (pc[w] = "idle" /\ Len(segs) = 0 /\ key = 0)
       /\ pc[w] = "create" => key = 0
       /\ Len(segs) # 0 => segs[Len(segs)].need_remap
Solo == \A w \in Writers : OnlyWriter(w) => Solo1(w)

\* The block has nothing older than the message.
NotOlder(s, i, msg) == segs[s].data[i] \in {Nothing, Torn} \/ segs[s].data[i] >= msg

\* With one writer and nobody leaving: the message being sent is the newest and
\* is in its block before it is announced ...
Sent(w) ==
  /\ \A info \in infos : pc[w] \in Sending => info.msg < count
  /\ pc[w] \in Sending => loc[w].msg = count
  /\ pc[w] \in {"written", "notify"} /\ at[w] \notin spoiled =>
       segs[at[w]].data[idx(w)] = count
\* ... the newest segment has nothing older than what was announced ...
Told == \A s \in (1..Len(segs)) \ spoiled :
          s = Len(segs) => \A info \in infos : NotOlder(s, info.block_index, info.msg)
\* ... and neither has, for what a reader was told, the segment it will read,
\* nor what it has read.
Finds(r, s) == \/ s = Len(segs) /\ pc[r] \in Reading
               \/ s = at[r] /\ pc[r] \in Reading \ {"get", "range"}
Heard(r) ==
  /\ \A s \in (1..Len(segs)) \ spoiled : Finds(r, s) => NotOlder(s, idx(r), loc[r].msg)
  /\ pc[r] = "release" /\ at[r] \notin spoiled =>
       loc[r].got \in {Nothing, Torn} \/ loc[r].got >= loc[r].msg
News == \A w \in Writers :
          OnlyWriter(w) => Sent(w) /\ Told /\ \A r \in Readers : Heard(r)

IInv == /\ TypeOK /\ Shapes /\ Steps /\ Bumps
        /\ Alone /\ LockWords /\ Layout /\ Clean /\ Whole
        /\ Absent /\ Solo /\ News
-----------------------------------------------------------------------------
(* What a step writes *)

\* The shared memory of the segment that u has mapped becomes what it says.
OnlyMine(u) == /\ segs' \in Seq(Memory) /\ Len(segs') = Len(segs)
               /\ \A s \in 1..Len(segs) : s # at[u] => segs'[s] = segs[s]
MineIs(u, nr, num, refs, ceiling, lock, data) ==
  /\ segs'[at[u]].need_remap = nr /\ segs'[at[u]].wrote_num = num
  /\ segs'[at[u]].refs = refs /\ segs'[at[u]].ceiling = ceiling
  /\ segs'[at[u]].lock = lock /\ segs'[at[u]].data = data
Memory1(u, nr, num, refs, ceiling, lock, data) ==
  OnlyMine(u) /\ MineIs(u, nr, num, refs, ceiling, lock, data)

LEMMA MemoryFields ==
  ASSUME NEW m \in Memory
  PROVE  /\ m.need_remap \in BOOLEAN /\ m.wrote_num \in Nat /\ m.refs \in 0..MaxRefs
         /\ m.ceiling \in Ceilings \cup {0} /\ m.lock \in [Index -> Int]
         /\ m.data \in [Index -> Int]
BY DEF Memory

LEMMA Replace ==
  ASSUME NEW S \in Seq(Memory), NEW s \in 1..Len(S), NEW m \in Memory,
         NEW T, T = [S EXCEPT ![s] = m]
  PROVE  /\ T \in Seq(Memory) /\ Len(T) = Len(S) /\ T[s] = m
         /\ \A x \in 1..Len(S) : x # s => T[x] = S[x]
<1>1. S \in [1..Len(S) -> Memory] /\ Len(S) \in Nat
  BY LenProperties
<1>2. T \in [1..Len(S) -> Memory]
  BY <1>1
<1>3. T \in Seq(Memory)
  BY <1>1, <1>2
<1> QED BY <1>1, <1>2, <1>3

LEMMA WriteRefs ==
  ASSUME segs \in Seq(Memory), NEW u \in Users, at[u] \in 1..Len(segs),
         NEW v \in 0..MaxRefs, Share(u, "refs", v)
  PROVE  Memory1(u, mine(u).need_remap, mine(u).wrote_num, v, mine(u).ceiling,
                 mine(u).lock, mine(u).data)
<1> DEFINE m == [segs[at[u]] EXCEPT !.refs = v]
<1>1. segs[at[u]] \in Memory
  OBVIOUS
<1>2. /\ m \in Memory /\ m.refs = v /\ m.need_remap = mine(u).need_remap
      /\ m.wrote_num = mine(u).wrote_num /\ m.ceiling = mine(u).ceiling
      /\ m.lock = mine(u).lock /\ m.data = mine(u).data
  BY <1>1 DEF Memory, mine
<1>3. segs' = [segs EXCEPT ![at[u]] = m]
  BY DEF Share
<1> HIDE DEF m
<1>4. /\ segs' \in Seq(Memory) /\ Len(segs') = Len(segs) /\ segs'[at[u]] = m
      /\ \A x \in 1..Len(segs) : x # at[u] => segs'[x] = segs[x]
  BY <1>2, <1>3, Replace
<1> QED BY <1>2, <1>4 DEF Memory1, OnlyMine, MineIs

LEMMA WriteMark ==
  ASSUME segs \in Seq(Memory), NEW u \in Users, at[u] \in 1..Len(segs),
         Share(u, "need_remap", TRUE)
  PROVE  Memory1(u, TRUE, mine(u).wrote_num, mine(u).refs,
                 mine(u).ceiling, mine(u).lock, mine(u).data)
<1> DEFINE m == [segs[at[u]] EXCEPT !.need_remap = TRUE]
<1>1. segs[at[u]] \in Memory
  OBVIOUS
<1>2. /\ m \in Memory
      /\ m.need_remap = TRUE
      /\ m.wrote_num = mine(u).wrote_num
      /\ m.refs = mine(u).refs
      /\ m.ceiling = mine(u).ceiling
      /\ m.lock = mine(u).lock
      /\ m.data = mine(u).data
  BY <1>1, MemoryFields DEF Memory, mine
<1>3. segs' = [segs EXCEPT ![at[u]] = m]
  BY DEF Share, ShareBlock, mine
<1> HIDE DEF m
<1>4. /\ segs' \in Seq(Memory) /\ Len(segs') = Len(segs) /\ segs'[at[u]] = m
      /\ \A x \in 1..Len(segs) : x # at[u] => segs'[x] = segs[x]
  BY <1>2, <1>3, Replace
<1> QED BY <1>2, <1>4 DEF Memory1, OnlyMine, MineIs

LEMMA WriteNum ==
  ASSUME segs \in Seq(Memory), NEW u \in Users, at[u] \in 1..Len(segs),
         NEW v \in Nat, Share(u, "wrote_num", v)
  PROVE  Memory1(u, mine(u).need_remap, v, mine(u).refs,
                 mine(u).ceiling, mine(u).lock, mine(u).data)
<1> DEFINE m == [segs[at[u]] EXCEPT !.wrote_num = v]
<1>1. segs[at[u]] \in Memory
  OBVIOUS
<1>2. /\ m \in Memory
      /\ m.need_remap = mine(u).need_remap
      /\ m.wrote_num = v
      /\ m.refs = mine(u).refs
      /\ m.ceiling = mine(u).ceiling
      /\ m.lock = mine(u).lock
      /\ m.data = mine(u).data
  BY <1>1, MemoryFields DEF Memory, mine
<1>3. segs' = [segs EXCEPT ![at[u]] = m]
  BY DEF Share, ShareBlock, mine
<1> HIDE DEF m
<1>4. /\ segs' \in Seq(Memory) /\ Len(segs') = Len(segs) /\ segs'[at[u]] = m
      /\ \A x \in 1..Len(segs) : x # at[u] => segs'[x] = segs[x]
  BY <1>2, <1>3, Replace
<1> QED BY <1>2, <1>4 DEF Memory1, OnlyMine, MineIs

LEMMA WriteLocks ==
  ASSUME segs \in Seq(Memory), NEW u \in Users, at[u] \in 1..Len(segs),
         NEW f \in [Index -> Int], Share(u, "lock", f)
  PROVE  Memory1(u, mine(u).need_remap, mine(u).wrote_num, mine(u).refs,
                 mine(u).ceiling, f, mine(u).data)
<1> DEFINE m == [segs[at[u]] EXCEPT !.lock = f]
<1>1. segs[at[u]] \in Memory
  OBVIOUS
<1>2. /\ m \in Memory
      /\ m.need_remap = mine(u).need_remap
      /\ m.wrote_num = mine(u).wrote_num
      /\ m.refs = mine(u).refs
      /\ m.ceiling = mine(u).ceiling
      /\ m.lock = f
      /\ m.data = mine(u).data
  BY <1>1, MemoryFields DEF Memory, mine
<1>3. segs' = [segs EXCEPT ![at[u]] = m]
  BY DEF Share, ShareBlock, mine
<1> HIDE DEF m
<1>4. /\ segs' \in Seq(Memory) /\ Len(segs') = Len(segs) /\ segs'[at[u]] = m
      /\ \A x \in 1..Len(segs) : x # at[u] => segs'[x] = segs[x]
  BY <1>2, <1>3, Replace
<1> QED BY <1>2, <1>4 DEF Memory1, OnlyMine, MineIs

LEMMA WriteLock ==
  ASSUME segs \in Seq(Memory), NEW u \in Users, at[u] \in 1..Len(segs),
         NEW v \in Int, idx(u) \in Index, ShareBlock(u, "lock", v)
  PROVE  Memory1(u, mine(u).need_remap, mine(u).wrote_num, mine(u).refs,
                 mine(u).ceiling, [mine(u).lock EXCEPT ![idx(u)] = v], mine(u).data)
<1> DEFINE m == [segs[at[u]] EXCEPT !.lock = [mine(u).lock EXCEPT ![idx(u)] = v]]
<1>1. segs[at[u]] \in Memory
  OBVIOUS
<1>2. /\ m \in Memory
      /\ m.need_remap = mine(u).need_remap
      /\ m.wrote_num = mine(u).wrote_num
      /\ m.refs = mine(u).refs
      /\ m.ceiling = mine(u).ceiling
      /\ m.lock = [mine(u).lock EXCEPT ![idx(u)] = v]
      /\ m.data = mine(u).data
  BY <1>1, MemoryFields DEF Memory, mine
<1>3. segs' = [segs EXCEPT ![at[u]] = m]
  BY DEF Share, ShareBlock, mine
<1> HIDE DEF m
<1>4. /\ segs' \in Seq(Memory) /\ Len(segs') = Len(segs) /\ segs'[at[u]] = m
      /\ \A x \in 1..Len(segs) : x # at[u] => segs'[x] = segs[x]
  BY <1>2, <1>3, Replace
<1> QED BY <1>2, <1>4 DEF Memory1, OnlyMine, MineIs

LEMMA WriteData ==
  ASSUME segs \in Seq(Memory), NEW u \in Users, at[u] \in 1..Len(segs),
         NEW f \in [Index -> Int], Share(u, "data", f)
  PROVE  Memory1(u, mine(u).need_remap, mine(u).wrote_num, mine(u).refs,
                 mine(u).ceiling, mine(u).lock, f)
<1> DEFINE m == [segs[at[u]] EXCEPT !.data = f]
<1>1. segs[at[u]] \in Memory
  OBVIOUS
<1>2. /\ m \in Memory
      /\ m.need_remap = mine(u).need_remap
      /\ m.wrote_num = mine(u).wrote_num
      /\ m.refs = mine(u).refs
      /\ m.ceiling = mine(u).ceiling
      /\ m.lock = mine(u).lock
      /\ m.data = f
  BY <1>1, MemoryFields DEF Memory, mine
<1>3. segs' = [segs EXCEPT ![at[u]] = m]
  BY DEF Share, ShareBlock, mine
<1> HIDE DEF m
<1>4. /\ segs' \in Seq(Memory) /\ Len(segs') = Len(segs) /\ segs'[at[u]] = m
      /\ \A x \in 1..Len(segs) : x # at[u] => segs'[x] = segs[x]
  BY <1>2, <1>3, Replace
<1> QED BY <1>2, <1>4 DEF Memory1, OnlyMine, MineIs

LEMMA WriteDatum ==
  ASSUME segs \in Seq(Memory), NEW u \in Users, at[u] \in 1..Len(segs),
         NEW v \in Int, NEW i \in Index, segs' = [segs EXCEPT ![at[u]].data[i] = v]
  PROVE  Memory1(u, mine(u).need_remap, mine(u).wrote_num, mine(u).refs,
                 mine(u).ceiling, mine(u).lock, [mine(u).data EXCEPT ![i] = v])
<1> DEFINE m == [segs[at[u]] EXCEPT !.data = [mine(u).data EXCEPT ![i] = v]]
<1>1. segs[at[u]] \in Memory
  OBVIOUS
<1>2. /\ m \in Memory
      /\ m.need_remap = mine(u).need_remap
      /\ m.wrote_num = mine(u).wrote_num
      /\ m.refs = mine(u).refs
      /\ m.ceiling = mine(u).ceiling
      /\ m.lock = mine(u).lock
      /\ m.data = [mine(u).data EXCEPT ![i] = v]
  BY <1>1, MemoryFields DEF Memory, mine
<1>3. segs' = [segs EXCEPT ![at[u]] = m]
  BY DEF Share, ShareBlock, mine
<1> HIDE DEF m
<1>4. /\ segs' \in Seq(Memory) /\ Len(segs') = Len(segs) /\ segs'[at[u]] = m
      /\ \A x \in 1..Len(segs) : x # at[u] => segs'[x] = segs[x]
  BY <1>2, <1>3, Replace
<1> QED BY <1>2, <1>4 DEF Memory1, OnlyMine, MineIs

LEMMA WriteState ==
  ASSUME segs \in Seq(Memory), NEW u \in Users, at[u] \in 1..Len(segs),
         conf[u] \in Ceilings, MakeState(u)
  PROVE  Memory1(u, FALSE, 0, 0, conf[u], mine(u).lock, mine(u).data)
<1> DEFINE m == [segs[at[u]] EXCEPT !.need_remap = FALSE, !.wrote_num = 0, !.refs = 0,
                                    !.ceiling = conf[u]]
<1>0. 0 \in 0..MaxRefs
  BY SegmentAssumption
<1>1. segs[at[u]] \in Memory
  OBVIOUS
<1>2. /\ m \in Memory
      /\ m.need_remap = FALSE
      /\ m.wrote_num = 0
      /\ m.refs = 0
      /\ m.ceiling = conf[u]
      /\ m.lock = mine(u).lock
      /\ m.data = mine(u).data
  BY <1>0, <1>1, MemoryFields DEF Memory, mine
<1>3. segs' = [segs EXCEPT ![at[u]] = m]
  BY DEF MakeState
<1> HIDE DEF m
<1>4. /\ segs' \in Seq(Memory) /\ Len(segs') = Len(segs) /\ segs'[at[u]] = m
      /\ \A x \in 1..Len(segs) : x # at[u] => segs'[x] = segs[x]
  BY <1>2, <1>3, Replace
<1> QED BY <1>2, <1>4 DEF Memory1, OnlyMine, MineIs

\* The locals of u become what it says.
OnlyMyLocals(u) == /\ loc' \in [Users -> Local]
                   /\ \A v \in Users : v # u => loc'[v] = loc[v]
MyLocals(u, ret, i, lock_num, try_times, msg, got) ==
  /\ loc'[u].ret = ret /\ loc'[u].idx = i /\ loc'[u].lock_num = lock_num
  /\ loc'[u].try_times = try_times /\ loc'[u].msg = msg /\ loc'[u].got = got
Local1(u, ret, i, lock_num, try_times, msg, got) ==
  OnlyMyLocals(u) /\ MyLocals(u, ret, i, lock_num, try_times, msg, got)

LEMMA LocalFields ==
  ASSUME NEW l \in Local
  PROVE  /\ l.ret \in {"none", "check", "size", "load", "range", "peek"} /\ l.idx \in Index
         /\ l.lock_num \in Int /\ l.try_times \in Nat /\ l.msg \in Nat /\ l.got \in Int
BY DEF Local

LEMMA SetRet ==
  ASSUME loc \in [Users -> Local], NEW u \in Users, NEW v \in {"none", "check", "size", "load", "range", "peek"},
         Set(u, "ret", v)
  PROVE  Local1(u, v, loc[u].idx, loc[u].lock_num, loc[u].try_times, loc[u].msg, loc[u].got)
<1> DEFINE l == [loc[u] EXCEPT !.ret = v]
<1>1. loc[u] \in Local
  OBVIOUS
<1>2. /\ l \in Local
      /\ l.ret = v
      /\ l.idx = loc[u].idx
      /\ l.lock_num = loc[u].lock_num
      /\ l.try_times = loc[u].try_times
      /\ l.msg = loc[u].msg
      /\ l.got = loc[u].got
  BY <1>1, LocalFields DEF Local, NoLocals, Nothing
<1>3. loc' = [loc EXCEPT ![u] = l]
  BY DEF Set, Return
<1> HIDE DEF l
<1> QED BY <1>2, <1>3 DEF Local1, OnlyMyLocals, MyLocals

LEMMA SetIdx ==
  ASSUME loc \in [Users -> Local], NEW u \in Users, NEW v \in Index,
         Set(u, "idx", v)
  PROVE  Local1(u, loc[u].ret, v, loc[u].lock_num, loc[u].try_times, loc[u].msg, loc[u].got)
<1> DEFINE l == [loc[u] EXCEPT !.idx = v]
<1>1. loc[u] \in Local
  OBVIOUS
<1>2. /\ l \in Local
      /\ l.ret = loc[u].ret
      /\ l.idx = v
      /\ l.lock_num = loc[u].lock_num
      /\ l.try_times = loc[u].try_times
      /\ l.msg = loc[u].msg
      /\ l.got = loc[u].got
  BY <1>1, LocalFields DEF Local, NoLocals, Nothing
<1>3. loc' = [loc EXCEPT ![u] = l]
  BY DEF Set, Return
<1> HIDE DEF l
<1> QED BY <1>2, <1>3 DEF Local1, OnlyMyLocals, MyLocals

LEMMA SetLockNum ==
  ASSUME loc \in [Users -> Local], NEW u \in Users, NEW v \in Int,
         Set(u, "lock_num", v)
  PROVE  Local1(u, loc[u].ret, loc[u].idx, v, loc[u].try_times, loc[u].msg, loc[u].got)
<1> DEFINE l == [loc[u] EXCEPT !.lock_num = v]
<1>1. loc[u] \in Local
  OBVIOUS
<1>2. /\ l \in Local
      /\ l.ret = loc[u].ret
      /\ l.idx = loc[u].idx
      /\ l.lock_num = v
      /\ l.try_times = loc[u].try_times
      /\ l.msg = loc[u].msg
      /\ l.got = loc[u].got
  BY <1>1, LocalFields DEF Local, NoLocals, Nothing
<1>3. loc' = [loc EXCEPT ![u] = l]
  BY DEF Set, Return
<1> HIDE DEF l
<1> QED BY <1>2, <1>3 DEF Local1, OnlyMyLocals, MyLocals

LEMMA SetTries ==
  ASSUME loc \in [Users -> Local], NEW u \in Users, NEW v \in Nat,
         Set(u, "try_times", v)
  PROVE  Local1(u, loc[u].ret, loc[u].idx, loc[u].lock_num, v, loc[u].msg, loc[u].got)
<1> DEFINE l == [loc[u] EXCEPT !.try_times = v]
<1>1. loc[u] \in Local
  OBVIOUS
<1>2. /\ l \in Local
      /\ l.ret = loc[u].ret
      /\ l.idx = loc[u].idx
      /\ l.lock_num = loc[u].lock_num
      /\ l.try_times = v
      /\ l.msg = loc[u].msg
      /\ l.got = loc[u].got
  BY <1>1, LocalFields DEF Local, NoLocals, Nothing
<1>3. loc' = [loc EXCEPT ![u] = l]
  BY DEF Set, Return
<1> HIDE DEF l
<1> QED BY <1>2, <1>3 DEF Local1, OnlyMyLocals, MyLocals

LEMMA SetMsg ==
  ASSUME loc \in [Users -> Local], NEW u \in Users, NEW v \in Nat,
         Set(u, "msg", v)
  PROVE  Local1(u, loc[u].ret, loc[u].idx, loc[u].lock_num, loc[u].try_times, v, loc[u].got)
<1> DEFINE l == [loc[u] EXCEPT !.msg = v]
<1>1. loc[u] \in Local
  OBVIOUS
<1>2. /\ l \in Local
      /\ l.ret = loc[u].ret
      /\ l.idx = loc[u].idx
      /\ l.lock_num = loc[u].lock_num
      /\ l.try_times = loc[u].try_times
      /\ l.msg = v
      /\ l.got = loc[u].got
  BY <1>1, LocalFields DEF Local, NoLocals, Nothing
<1>3. loc' = [loc EXCEPT ![u] = l]
  BY DEF Set, Return
<1> HIDE DEF l
<1> QED BY <1>2, <1>3 DEF Local1, OnlyMyLocals, MyLocals

LEMMA SetGot ==
  ASSUME loc \in [Users -> Local], NEW u \in Users, NEW v \in Int,
         Set(u, "got", v)
  PROVE  Local1(u, loc[u].ret, loc[u].idx, loc[u].lock_num, loc[u].try_times, loc[u].msg, v)
<1> DEFINE l == [loc[u] EXCEPT !.got = v]
<1>1. loc[u] \in Local
  OBVIOUS
<1>2. /\ l \in Local
      /\ l.ret = loc[u].ret
      /\ l.idx = loc[u].idx
      /\ l.lock_num = loc[u].lock_num
      /\ l.try_times = loc[u].try_times
      /\ l.msg = loc[u].msg
      /\ l.got = v
  BY <1>1, LocalFields DEF Local, NoLocals, Nothing
<1>3. loc' = [loc EXCEPT ![u] = l]
  BY DEF Set, Return
<1> HIDE DEF l
<1> QED BY <1>2, <1>3 DEF Local1, OnlyMyLocals, MyLocals

LEMMA Returned ==
  ASSUME loc \in [Users -> Local], NEW u \in Users, Return(u)
  PROVE  Local1(u, "none", 0, 0, 0, 0, 0)
<1> DEFINE l == NoLocals
<1>1. loc[u] \in Local
  OBVIOUS
<1>2. /\ l \in Local
      /\ l.ret = "none"
      /\ l.idx = 0
      /\ l.lock_num = 0
      /\ l.try_times = 0
      /\ l.msg = 0
      /\ l.got = 0
  BY <1>1, LocalFields, Layouts DEF Local, NoLocals, Nothing
<1>3. loc' = [loc EXCEPT ![u] = l]
  BY DEF Set, Return
<1> HIDE DEF l
<1> QED BY <1>2, <1>3 DEF Local1, OnlyMyLocals, MyLocals

LEMMA SetInfo ==
  ASSUME loc \in [Users -> Local], NEW u \in Users, NEW a \in {"none", "range"}, NEW i \in Index, NEW m \in Nat,
         loc' = [loc EXCEPT ![u] = [@ EXCEPT !.idx = i, !.msg = m, !.ret = a]]
  PROVE  Local1(u, a, i, loc[u].lock_num, loc[u].try_times, m, loc[u].got)
<1> DEFINE l == [loc[u] EXCEPT !.idx = i, !.msg = m, !.ret = a]
<1>1. loc[u] \in Local
  OBVIOUS
<1>2. /\ l \in Local
      /\ l.ret = a
      /\ l.idx = i
      /\ l.lock_num = loc[u].lock_num
      /\ l.try_times = loc[u].try_times
      /\ l.msg = m
      /\ l.got = loc[u].got
  BY <1>1, LocalFields DEF Local, NoLocals, Nothing
<1>3. loc' = [loc EXCEPT ![u] = l]
  BY DEF Set, Return
<1> HIDE DEF l
<1> QED BY <1>2, <1>3 DEF Local1, OnlyMyLocals, MyLocals

LEMMA SameLocals ==
  ASSUME loc \in [Users -> Local], NEW u \in Users, UNCHANGED loc
  PROVE  Local1(u, loc[u].ret, loc[u].idx, loc[u].lock_num, loc[u].try_times, loc[u].msg,
                loc[u].got)
BY DEF Local1, OnlyMyLocals, MyLocals
-----------------------------------------------------------------------------
(* What each step does, for the one who takes it *)

Types == TypeOK /\ Shapes /\ Steps

OnlyI(u) ==
  /\ at' \in [Users -> Nat] /\ conf' \in [Users -> Ceilings]
  /\ pc' \in [Users -> WriterSteps \cup ReaderSteps]
  /\ \A v \in Users : v # u => at'[v] = at[v] /\ conf'[v] = conf[v] /\ pc'[v] = pc[v]
IAm(u, a, c, step) == at'[u] = a /\ conf'[u] = c /\ pc'[u] = step
Moved(u, a, c, step) == OnlyI(u) /\ IAm(u, a, c, step)

LEMMA Who ==
  ASSUME Types
  PROVE  /\ Len(segs) \in Nat /\ key \in 0..Len(segs) /\ 0 \in Index
         /\ at \in [Users -> 0..Len(segs)] /\ conf \in [Users -> Ceilings]
         /\ pc \in [Users -> WriterSteps \cup ReaderSteps] /\ loc \in [Users -> Local]
         /\ \A u \in Users : /\ idx(u) \in Index /\ block_num(u) \in Nat \ {0}
                             /\ pc[u] \in Mapped => at[u] \in 1..Len(segs) /\ mine(u) \in Memory
         /\ \A w \in Writers : w \in Users /\ pc[w] \in WriterSteps
         /\ \A r \in Readers : r \in Users /\ pc[r] \in ReaderSteps
         /\ Users = Writers \cup Readers /\ Writers \cap Readers = {}
<1>1. Len(segs) \in Nat /\ segs \in [1..Len(segs) -> Memory]
  BY LenProperties DEF Types, Shapes
<1>2. \A u \in Users : idx(u) \in Index
  BY LocalFields DEF Types, Shapes, idx
<1>3. \A u \in Users : block_num(u) \in Nat \ {0}
  BY Layouts DEF Types, TypeOK, block_num
<1>4. \A u \in Users : pc[u] \in Mapped => at[u] \in 1..Len(segs) /\ mine(u) \in Memory
  BY <1>1 DEF Types, TypeOK, mine
<1> QED BY <1>1, <1>2, <1>3, <1>4, Layouts, SegmentAssumption
        DEF Types, TypeOK, Shapes, Users

LEMMA Move ==
  ASSUME Types, NEW u \in Users, NEW a \in Nat, NEW c \in Ceilings,
         NEW step \in WriterSteps \cup ReaderSteps,
         at' = [at EXCEPT ![u] = a], conf' = [conf EXCEPT ![u] = c],
         pc' = [pc EXCEPT ![u] = step]
  PROVE  Moved(u, a, c, step)
BY Who DEF Moved, OnlyI, IAm

LEMMA MoveOn ==
  ASSUME Types, NEW u \in Users, NEW step \in WriterSteps \cup ReaderSteps,
         UNCHANGED <<at, conf>>, Goto(u, step)
  PROVE  Moved(u, at[u], conf[u], step)
BY Who DEF Moved, OnlyI, IAm, Goto

LEMMA DetachOn ==
  ASSUME Types, NEW u \in Users, NEW step \in WriterSteps \cup ReaderSteps,
         Detach(u), UNCHANGED conf, Goto(u, step)
  PROVE  Moved(u, 0, conf[u], step)
BY Who DEF Moved, OnlyI, IAm, Goto, Detach

LEMMA HomeWriter ==
  ASSUME Types, NEW w \in Writers, pc[w] \notin {"idle", "last"},
         UNCHANGED <<at, conf>>, Return(w)
  PROVE  /\ Moved(w, at[w], conf[w], "idle") /\ Local1(w, "none", 0, 0, 0, 0, 0)
         /\ todo' \in [Writers -> Seq(Nat)]
         /\ \A x \in Writers : x # w => todo'[x] = todo[x]
<1>1. Local1(w, "none", 0, 0, 0, 0, 0)
  BY Who, Returned
<1>2. Goto(w, "idle") /\ todo' = [todo EXCEPT ![w] = Tail(@)]
  BY DEF Return
<1>3. Moved(w, at[w], conf[w], "idle")
  BY <1>2, Who, MoveOn DEF WriterSteps
<1>4. todo \in [Writers -> Seq(Nat)] /\ todo[w] # <<>>
  BY DEF Types, Shapes, Steps
<1>5. Tail(todo[w]) \in Seq(Nat)
  BY <1>4, HeadTailProperties
<1> QED BY <1>1, <1>2, <1>3, <1>4, <1>5

LEMMA HomeReader ==
  ASSUME Types, NEW r \in Readers, UNCHANGED <<at, conf>>, Return(r)
  PROVE  /\ Moved(r, at[r], conf[r], "listen") /\ Local1(r, "none", 0, 0, 0, 0, 0)
         /\ UNCHANGED todo
<1>1. Local1(r, "none", 0, 0, 0, 0, 0)
  BY Who, Returned
<1>2. Goto(r, "listen") /\ UNCHANGED todo
  BY Who DEF Return
<1>3. Moved(r, at[r], conf[r], "listen")
  BY <1>2, Who, MoveOn DEF ReaderSteps
<1> QED BY <1>1, <1>2, <1>3

LEMMA CreateDoes ==
  ASSUME Types, NEW u \in Users, Create(u)
  PROVE  /\ pc[u] = "create" /\ u \in Writers
         /\ \/ /\ key = 0 /\ key' = Len(segs) + 1
               /\ segs' \in Seq(Memory) /\ Len(segs') = Len(segs) + 1
               /\ segs'[Len(segs) + 1] = NewMemory /\ NewMemory \in Memory
               /\ \A s \in 1..Len(segs) : segs'[s] = segs[s]
               /\ Moved(u, Len(segs) + 1, conf[u], "state")
            \/ key # 0 /\ UNCHANGED memory /\ Moved(u, at[u], conf[u], "get")
         /\ UNCHANGED <<loc, todo, infos, history>>
<1> USE DEF Create, At
<1>1. pc[u] = "create" /\ u \in Writers
  BY Who DEF ReaderSteps
<1>2. CASE key = 0
  <2>1. NewMemory \in Memory
    BY SegmentAssumption DEF NewMemory, Memory, Nothing
  <2>2. /\ segs' \in Seq(Memory) /\ Len(segs') = Len(segs) + 1
        /\ segs'[Len(segs) + 1] = NewMemory
        /\ \A s \in 1..Len(segs) : segs'[s] = segs[s]
    <3>1. segs \in Seq(Memory) /\ segs' = Append(segs, NewMemory)
      BY <1>2 DEF Types, Shapes
    <3> QED BY <3>1, <2>1, AppendProperties
  <2>3. Moved(u, Len(segs) + 1, conf[u], "state")
    <3>1. at' = [at EXCEPT ![u] = Len(segs) + 1] /\ Goto(u, "state") /\ UNCHANGED conf
      BY <1>2, <2>2
    <3> QED BY <3>1, Who DEF Moved, OnlyI, IAm, Goto, WriterSteps
  <2> QED BY <1>1, <1>2, <2>1, <2>2, <2>3
<1>3. CASE key # 0
  <2>1. Moved(u, at[u], conf[u], "get")
    BY <1>3, MoveOn DEF WriterSteps
  <2> QED BY <1>1, <1>3, <2>1
<1> QED BY <1>2, <1>3

LEMMA MakeStateDoes ==
  ASSUME Types, NEW u \in Users, MakeState(u)
  PROVE  /\ pc[u] = "state" /\ u \in Writers /\ at[u] \in 1..Len(segs)
         /\ Memory1(u, FALSE, 0, 0, conf[u], mine(u).lock, mine(u).data)
         /\ Moved(u, at[u], conf[u], "blocks")
         /\ UNCHANGED <<key, loc, todo, infos, history>>
<1>1. pc[u] = "state" /\ u \in Writers /\ at[u] \in 1..Len(segs) /\ conf[u] \in Ceilings
  BY Who DEF MakeState, At, ReaderSteps, Mapped
<1>2. Memory1(u, FALSE, 0, 0, conf[u], mine(u).lock, mine(u).data)
  BY <1>1, WriteState DEF Types, Shapes
<1>3. Moved(u, at[u], conf[u], "blocks")
  BY MoveOn DEF MakeState, WriterSteps
<1> QED BY <1>1, <1>2, <1>3 DEF MakeState

LEMMA MakeBlocksDoes ==
  ASSUME Types, NEW u \in Users, MakeBlocks(u)
  PROVE  /\ pc[u] = "blocks" /\ u \in Writers /\ at[u] \in 1..Len(segs)
         /\ Memory1(u, mine(u).need_remap, mine(u).wrote_num, mine(u).refs, mine(u).ceiling,
                    [i \in Index |-> 0], mine(u).data)
         /\ Moved(u, at[u], conf[u], "count")
         /\ UNCHANGED <<key, loc, todo, infos, history>>
<1>1. pc[u] = "blocks" /\ u \in Writers /\ at[u] \in 1..Len(segs)
  BY Who DEF MakeBlocks, At, ReaderSteps, Mapped
<1>2. Memory1(u, mine(u).need_remap, mine(u).wrote_num, mine(u).refs, mine(u).ceiling,
              [i \in Index |-> 0], mine(u).data)
  <2> DEFINE f == [i \in Index |-> 0]
  <2>1. f \in [Index -> Int] /\ Share(u, "lock", f)
    BY DEF MakeBlocks
  <2>2. Memory1(u, mine(u).need_remap, mine(u).wrote_num, mine(u).refs, mine(u).ceiling,
                f, mine(u).data)
    <3> HIDE DEF f
    <3> QED BY <1>1, <2>1, WriteLocks DEF Types, Shapes
  <2> QED BY <2>2
<1>3. Moved(u, at[u], conf[u], "count")
  BY MoveOn DEF MakeBlocks, WriterSteps
<1> QED BY <1>1, <1>2, <1>3 DEF MakeBlocks

LEMMA GetDoes ==
  ASSUME Types, NEW u \in Users, Get(u)
  PROVE  /\ pc[u] = "get"
         /\ \/ /\ key # 0 /\ Moved(u, key, GetCeilingMessageSize(segs[key].ceiling), "count")
               /\ IF Building(key) THEN spoiled' = spoiled \cup {key} ELSE UNCHANGED spoiled
               /\ UNCHANGED <<loc, todo>>
            \/ /\ key = 0 /\ loc[u].ret = "size" /\ u \in Writers
               /\ Moved(u, at[u], conf[u], "size") /\ UNCHANGED <<loc, todo, spoiled>>
            \/ key = 0 /\ Return(u) /\ UNCHANGED <<at, conf, spoiled>>
         /\ UNCHANGED <<memory, infos, count, came, left>>
<1> USE DEF Get, At
<1>1. CASE key # 0
  <2>1. segs[key] \in Memory
    BY <1>1, Who, LenProperties DEF Types, Shapes
  <2>2. GetCeilingMessageSize(segs[key].ceiling) \in Ceilings
    <3>1. segs[key].ceiling \in Ceilings \cup {0}
      BY <2>1, MemoryFields
    <3> QED BY <3>1, Layouts
  <2>3. Moved(u, key, GetCeilingMessageSize(segs[key].ceiling), "count")
    <3> DEFINE c == GetCeilingMessageSize(segs[key].ceiling)
    <3>1. /\ at' = [at EXCEPT ![u] = key] /\ conf' = [conf EXCEPT ![u] = c]
          /\ pc' = [pc EXCEPT ![u] = "count"]
      BY <1>1 DEF Goto
    <3>2. key \in Nat /\ c \in Ceilings /\ "count" \in WriterSteps
      BY <2>2, Who DEF WriterSteps
    <3> HIDE DEF c
    <3>3. Moved(u, key, c, "count")
      BY <3>1, <3>2, Move
    <3> QED BY <3>3 DEF c
  <2> QED BY <1>1, <2>3 DEF Spoil
<1>2. CASE key = 0 /\ loc[u].ret = "size"
  <2>1. u \in Writers
    BY <1>2, Who DEF Types, Steps
  <2> QED BY <1>2, <2>1, MoveOn DEF WriterSteps
<1>3. CASE key = 0 /\ loc[u].ret # "size"
  BY <1>3
<1> QED BY <1>1, <1>2, <1>3

LEMMA CountDoes ==
  ASSUME Types, NEW u \in Users, IncreaseReferenceCounts(u)
  PROVE  /\ pc[u] = "count" /\ at[u] \in 1..Len(segs) /\ mine(u).refs < MaxRefs
         /\ Memory1(u, mine(u).need_remap, mine(u).wrote_num, mine(u).refs + 1,
                    mine(u).ceiling, mine(u).lock, mine(u).data)
         /\ Moved(u, at[u], conf[u], loc[u].ret)
         /\ u \in Writers => loc[u].ret \in {"check", "size", "load"}
         /\ u \in Readers => loc[u].ret \in {"range", "peek"}
         /\ Local1(u, "none", loc[u].idx, loc[u].lock_num, loc[u].try_times, loc[u].msg,
                   loc[u].got)
         /\ UNCHANGED <<key, todo, infos, history>>
<1> USE DEF IncreaseReferenceCounts, At
<1>1. pc[u] = "count" /\ at[u] \in 1..Len(segs) /\ mine(u) \in Memory
  BY Who DEF Mapped
<1>2. mine(u).refs + 1 \in 0..MaxRefs
  BY <1>1, MemoryFields, SegmentAssumption
<1>3. Memory1(u, mine(u).need_remap, mine(u).wrote_num, mine(u).refs + 1,
              mine(u).ceiling, mine(u).lock, mine(u).data)
  BY <1>1, <1>2, WriteRefs DEF Types, Shapes
<1>4. /\ u \in Writers => loc[u].ret \in {"check", "size", "load"}
      /\ u \in Readers => loc[u].ret \in {"range", "peek"}
  BY <1>1 DEF Types, Steps
<1>5. Moved(u, at[u], conf[u], loc[u].ret)
  BY <1>4, MoveOn DEF Users, WriterSteps, ReaderSteps
<1>6. Local1(u, "none", loc[u].idx, loc[u].lock_num, loc[u].try_times, loc[u].msg, loc[u].got)
  BY Who, SetRet
<1> QED BY <1>1, <1>3, <1>4, <1>5, <1>6

LEMMA DestroyDoes ==
  ASSUME Types, NEW u \in Users, Destroy(u)
  PROVE  /\ pc[u] \in {"idle", "listen"} /\ at[u] \in 1..Len(segs)
         /\ \E x \in 0..MaxRefs :
              Memory1(u, mine(u).need_remap, mine(u).wrote_num, x, mine(u).ceiling,
                      mine(u).lock, mine(u).data)
         /\ Moved(u, at[u], conf[u], "last")
         /\ left' = TRUE
         /\ UNCHANGED <<key, loc, todo, infos, count, spoiled, came>>
<1> USE DEF Destroy
<1>1. at[u] \in 1..Len(segs)
  BY Who
<1>2. mine(u) \in Memory
  BY <1>1, LenProperties DEF mine, Types, Shapes
<1> DEFINE x == IF mine(u).refs = 0 THEN 0 ELSE mine(u).refs - 1
<1>3. x \in 0..MaxRefs
  BY <1>2, MemoryFields, SegmentAssumption
<1>4. Share(u, "refs", x)
  OBVIOUS
<1>5. Memory1(u, mine(u).need_remap, mine(u).wrote_num, x, mine(u).ceiling,
              mine(u).lock, mine(u).data)
  <2> HIDE DEF x
  <2> QED BY <1>1, <1>3, <1>4, WriteRefs DEF Types, Shapes
<1>6. Moved(u, at[u], conf[u], "last")
  BY MoveOn DEF WriterSteps
<1> QED BY <1>1, <1>3, <1>5, <1>6

LEMMA LastDoes ==
  ASSUME Types, NEW u \in Users, Last(u)
  PROVE  /\ pc[u] = "last" /\ key' \in {0, key}
         /\ Moved(u, 0, GetCeilingMessageSize(0),
                  IF u \in Writers THEN "idle" ELSE "shut down")
         /\ UNCHANGED <<segs, loc, todo, infos, history>>
<1> USE DEF Last, At
<1>1. GetCeilingMessageSize(0) \in Ceilings
  BY Layouts
<1>2. CASE u \in Writers
  BY <1>1, <1>2, Who, Move DEF Detach, Goto, WriterSteps
<1>3. CASE u \notin Writers
  BY <1>1, <1>3, Who, Move DEF Detach, Goto, ReaderSteps
<1> QED BY <1>2, <1>3

LEMMA TransmitDoes ==
  ASSUME Types, NEW w \in Writers, Transmit(w)
  PROVE  /\ pc[w] = "idle" /\ todo[w] # <<>>
         /\ \/ /\ at[w] = 0 /\ Moved(w, at[w], conf[w], "create")
               /\ Local1(w, "check", loc[w].idx, loc[w].lock_num, loc[w].try_times,
                         loc[w].msg, loc[w].got)
            \/ at[w] # 0 /\ Moved(w, at[w], conf[w], "check") /\ UNCHANGED loc
         /\ came' = came \cup {w}
         /\ UNCHANGED <<memory, todo, infos, count, spoiled, left>>
<1> USE DEF Transmit, At
<1>1. CASE at[w] = 0
  BY <1>1, Who, MoveOn, SetRet DEF WriterSteps
<1>2. CASE at[w] # 0
  BY <1>2, Who, MoveOn DEF WriterSteps
<1> QED BY <1>1, <1>2

LEMMA CheckDoes ==
  ASSUME Types, NEW w \in Writers, Check(w)
  PROVE  /\ pc[w] = "check" /\ at[w] \in 1..Len(segs)
         /\ \/ /\ mine(w).need_remap /\ Moved(w, 0, conf[w], "get")
               /\ Local1(w, "size", loc[w].idx, loc[w].lock_num, loc[w].try_times,
                         loc[w].msg, loc[w].got)
            \/ /\ ~mine(w).need_remap /\ Moved(w, at[w], conf[w], "size")
               /\ UNCHANGED loc
         /\ UNCHANGED <<memory, todo, infos, history>>
<1> USE DEF Check, At
<1>1. at[w] \in 1..Len(segs)
  BY Who DEF Mapped
<1>2. CASE mine(w).need_remap
  BY <1>1, <1>2, Who, DetachOn, SetRet DEF WriterSteps, Open
<1>3. CASE ~mine(w).need_remap
  BY <1>1, <1>3, Who, MoveOn DEF WriterSteps
<1> QED BY <1>2, <1>3

LEMMA SizeDoes ==
  ASSUME Types, NEW w \in Writers, Size(w)
  PROVE  /\ pc[w] = "size"
         /\ \/ /\ at[w] \in 1..Len(segs)
               /\ Memory1(w, TRUE, mine(w).wrote_num, mine(w).refs, mine(w).ceiling,
                          mine(w).lock, mine(w).data)
               /\ \E c \in Ceilings : Moved(w, 0, c, "remove")
               /\ Local1(w, "load", loc[w].idx, loc[w].lock_num, loc[w].try_times,
                         loc[w].msg, loc[w].got)
               /\ UNCHANGED <<todo, dead>>
            \/ /\ at[w] = 0 /\ dead' = dead \cup {w}
               /\ UNCHANGED <<segs, at, conf, pc, loc, todo>>
            \/ /\ at[w] = 0 /\ Return(w) /\ UNCHANGED <<segs, at, conf, dead>>
            \/ /\ at[w] # 0 /\ Moved(w, at[w], conf[w], "load")
               /\ UNCHANGED <<segs, at, conf, loc, todo, dead>>
         /\ UNCHANGED <<key, infos, history>>
<1> USE DEF Size, At
<1> DEFINE big == size(w) > conf[w]
<1> HIDE DEF big
<1>1. CASE big /\ at[w] # 0
  <2>1. /\ conf' = [conf EXCEPT ![w] = GetCeilingMessageSize(size(w))]
        /\ Share(w, "need_remap", TRUE) /\ Detach(w) /\ Goto(w, "remove")
        /\ Set(w, "ret", "load") /\ UNCHANGED <<todo, dead>>
    BY <1>1 DEF big
  <2>2. at[w] \in 1..Len(segs) /\ w \in Users
    BY <1>1, Who
  <2>3. Memory1(w, TRUE, mine(w).wrote_num, mine(w).refs, mine(w).ceiling,
                mine(w).lock, mine(w).data)
    BY <2>1, <2>2, WriteMark DEF Types, Shapes
  <2>4. Local1(w, "load", loc[w].idx, loc[w].lock_num, loc[w].try_times,
               loc[w].msg, loc[w].got)
    BY <2>1, <2>2, Who, SetRet
  <2>5. GetCeilingMessageSize(size(w)) \in Ceilings
    <3>1. todo[w] # <<>> /\ todo[w] \in Seq(Nat)
      BY Who DEF Types, Steps, Shapes
    <3>2. size(w) \in Nat
      BY <3>1 DEF size
    <3> QED BY <3>2, Layouts
  <2>6. Moved(w, 0, GetCeilingMessageSize(size(w)), "remove")
    BY <2>1, <2>2, <2>5, Move DEF Detach, Goto, WriterSteps
  <2> QED BY <2>1, <2>2, <2>3, <2>4, <2>5, <2>6
<1>2. CASE big /\ at[w] = 0
  BY <1>2 DEF big
<1>3. CASE ~big /\ at[w] = 0
  BY <1>3 DEF big
<1>4. CASE ~big /\ at[w] # 0
  <2>1. UNCHANGED <<segs, at, conf, loc, todo, dead>> /\ Goto(w, "load")
    BY <1>4 DEF big
  <2>2. Moved(w, at[w], conf[w], "load")
    BY <2>1, Who, MoveOn DEF WriterSteps
  <2> QED BY <1>4, <2>1, <2>2
<1> QED BY <1>1, <1>2, <1>3, <1>4

LEMMA RemoveDoes ==
  ASSUME Types, NEW w \in Writers, RemoveSegment(w)
  PROVE  /\ pc[w] = "remove" /\ key' = 0 /\ Moved(w, at[w], conf[w], "create")
         /\ UNCHANGED <<segs, loc, todo, infos, history>>
BY Who, MoveOn DEF RemoveSegment, At, WriterSteps

LEMMA LoadDoes ==
  ASSUME Types, NEW w \in Writers, Load(w)
  PROVE  /\ pc[w] = "load" /\ Moved(w, at[w], conf[w], "lock")
         /\ \E i \in 0..(block_num(w) - 1) :
              Local1(w, loc[w].ret, i, loc[w].lock_num, loc[w].try_times, loc[w].msg,
                     loc[w].got)
         /\ UNCHANGED <<memory, todo, infos, history>>
<1> USE DEF Load, At
<1>1. mine(w) \in Memory /\ block_num(w) \in Nat \ {0} /\ w \in Users
  BY Who DEF Mapped
<1> DEFINE i == mine(w).wrote_num % block_num(w)
<1>2. mine(w).wrote_num \in Nat
  BY <1>1, MemoryFields
<1>3. i \in 0..(block_num(w) - 1)
  <2> DEFINE n == mine(w).wrote_num
             d == block_num(w)
  <2> HIDE DEF n, d
  <2>1. n \in Nat /\ d \in Nat \ {0}
    BY <1>1, <1>2 DEF n, d
  <2>2. n % d \in 0..(d - 1)
    BY <2>1
  <2> QED BY <2>2 DEF n, d
<1>4. i \in Index
  BY <1>1, <1>3, Layouts, Who DEF block_num
<1>5. Set(w, "idx", i)
  OBVIOUS
<1>6. Local1(w, loc[w].ret, i, loc[w].lock_num, loc[w].try_times, loc[w].msg, loc[w].got)
  <2> HIDE DEF i
  <2> QED BY <1>1, <1>4, <1>5, Who, SetIdx
<1>7. Moved(w, at[w], conf[w], "lock")
  BY <1>1, MoveOn DEF WriterSteps
<1> QED BY <1>3, <1>6, <1>7

LEMMA LockDoes ==
  ASSUME Types, NEW w \in Writers, Lock(w)
  PROVE  /\ pc[w] = "lock" /\ at[w] \in 1..Len(segs)
         /\ \/ /\ mine(w).lock[idx(w)] = 0
               /\ Memory1(w, mine(w).need_remap, mine(w).wrote_num, mine(w).refs,
                          mine(w).ceiling, [mine(w).lock EXCEPT ![idx(w)] = kWriteExclusive],
                          mine(w).data)
               /\ Moved(w, at[w], conf[w], "bump")
               /\ count' = count + 1
               /\ Local1(w, loc[w].ret, loc[w].idx, loc[w].lock_num, loc[w].try_times,
                         count + 1, loc[w].got)
            \/ /\ \E i \in 0..(block_num(w) - 1) :
                    Local1(w, loc[w].ret, i, loc[w].lock_num, loc[w].try_times, loc[w].msg,
                           loc[w].got)
               /\ Moved(w, at[w], conf[w], "lock")
               /\ UNCHANGED <<segs, count>>
         /\ UNCHANGED <<key, todo, infos, spoiled, came, left>>
<1> USE DEF Lock, At
<1>1. /\ at[w] \in 1..Len(segs) /\ block_num(w) \in Nat \ {0} /\ idx(w) \in Index
      /\ w \in Users /\ count \in Nat
  BY Who DEF Mapped, Types, Shapes
<1>2. CASE TryLockForWrite(w)
  <2>1. Memory1(w, mine(w).need_remap, mine(w).wrote_num, mine(w).refs,
                mine(w).ceiling, [mine(w).lock EXCEPT ![idx(w)] = kWriteExclusive],
                mine(w).data)
    <3>1. kWriteExclusive \in Int
      BY DEF kWriteExclusive
    <3> QED BY <1>1, <1>2, <3>1, WriteLock DEF Types, Shapes
  <2>2. Local1(w, loc[w].ret, loc[w].idx, loc[w].lock_num, loc[w].try_times,
               count + 1, loc[w].got)
    <3>1. Set(w, "msg", count + 1)
      BY <1>2
    <3> QED BY <1>1, <3>1, Who, SetMsg
  <2>3. Moved(w, at[w], conf[w], "bump")
    BY <1>1, <1>2, MoveOn DEF WriterSteps
  <2> QED BY <1>1, <1>2, <2>1, <2>2, <2>3 DEF TryLockForWrite
<1>3. CASE ~TryLockForWrite(w)
  <2> DEFINE i == (idx(w) + 1) % block_num(w)
  <2>1. i \in 0..(block_num(w) - 1)
    <3> DEFINE n == idx(w) + 1
               d == block_num(w)
    <3> HIDE DEF n, d
    <3>3. idx(w) \in Nat
      BY <1>1, Layouts
    <3>1. n \in Nat /\ d \in Nat \ {0}
      BY <1>1, <3>3 DEF n, d
    <3>2. n % d \in 0..(d - 1)
      BY <3>1
    <3> QED BY <3>2 DEF n, d
  <2>2. i \in Index
    BY <1>1, <2>1, Layouts, Who DEF block_num
  <2>3. Set(w, "idx", i)
    BY <1>3
  <2>4. Local1(w, loc[w].ret, i, loc[w].lock_num, loc[w].try_times, loc[w].msg, loc[w].got)
    <3> HIDE DEF i
    <3> QED BY <1>1, <2>2, <2>3, Who, SetIdx
  <2>5. Moved(w, at[w], conf[w], "lock")
    BY <1>1, <1>3, Who DEF Moved, OnlyI, IAm
  <2> QED BY <1>1, <1>3, <2>1, <2>4, <2>5
<1> QED BY <1>2, <1>3

LEMMA BumpDoes ==
  ASSUME Types, NEW w \in Writers, IncreaseWroteNum(w)
  PROVE  /\ pc[w] = "bump" /\ at[w] \in 1..Len(segs)
         /\ Memory1(w, mine(w).need_remap, mine(w).wrote_num + 1, mine(w).refs,
                    mine(w).ceiling, mine(w).lock, mine(w).data)
         /\ Moved(w, at[w], conf[w], "fill")
         /\ UNCHANGED <<key, loc, todo, infos, history>>
<1> USE DEF IncreaseWroteNum, At
<1>1. at[w] \in 1..Len(segs) /\ mine(w) \in Memory /\ w \in Users
  BY Who DEF Mapped
<1>2. mine(w).wrote_num + 1 \in Nat
  BY <1>1, MemoryFields
<1> QED BY <1>1, <1>2, WriteNum, MoveOn DEF Types, Shapes, WriterSteps

LEMMA FillDoes ==
  ASSUME Types, NEW w \in Writers, Fill(w)
  PROVE  /\ pc[w] = "fill" /\ at[w] \in 1..Len(segs)
         /\ \E f \in [Index -> Int] :
              /\ Memory1(w, mine(w).need_remap, mine(w).wrote_num, mine(w).refs,
                         mine(w).ceiling, mine(w).lock, f)
              /\ \A i \in Index : f[i] \in {Torn, mine(w).data[i]}
              /\ \/ spoiled' = spoiled \cup {at[w]}
                 \/ /\ spoiled' = spoiled
                    /\ \A i \in Index : i # idx(w) => f[i] = mine(w).data[i]
         /\ Moved(w, at[w], conf[w], "filled")
         /\ UNCHANGED <<key, loc, todo, infos, count, came, left>>
<1> USE DEF Fill, At
<1>1. at[w] \in 1..Len(segs) /\ mine(w) \in Memory /\ w \in Users
  BY Who DEF Mapped
<1> DEFINE over == size(w) > mine(w).ceiling
           f == [i \in Index |->
                   IF i = idx(w) \/ (over /\ i > idx(w)) THEN Torn ELSE mine(w).data[i]]
<1>2. f \in [Index -> Int]
  <2>1. mine(w).data \in [Index -> Int]
    BY <1>1, MemoryFields
  <2> HIDE DEF over
  <2> QED BY <2>1 DEF Torn
<1>3. Share(w, "data", f)
  OBVIOUS
<1>4. Memory1(w, mine(w).need_remap, mine(w).wrote_num, mine(w).refs,
              mine(w).ceiling, mine(w).lock, f)
  <2> HIDE DEF f
  <2> QED BY <1>1, <1>2, <1>3, WriteData DEF Types, Shapes
<1>5. IF over THEN spoiled' = spoiled \cup {at[w]} ELSE spoiled' = spoiled
  BY DEF Spoil
<1> HIDE DEF over
<1>6. \A i \in Index : f[i] \in {Torn, mine(w).data[i]}
  OBVIOUS
<1>7. \/ spoiled' = spoiled \cup {at[w]}
      \/ /\ spoiled' = spoiled
         /\ \A i \in Index : i # idx(w) => f[i] = mine(w).data[i]
  BY <1>5
<1>8. Moved(w, at[w], conf[w], "filled")
  BY <1>1, MoveOn DEF WriterSteps
<1> QED
  <2> HIDE DEF f
  <2> QED BY <1>1, <1>2, <1>4, <1>6, <1>7, <1>8

LEMMA RefuseDoes ==
  ASSUME Types, NEW w \in Writers, Refuse(w)
  PROVE  /\ pc[w] = "fill" /\ at[w] \in 1..Len(segs)
         /\ Memory1(w, mine(w).need_remap, mine(w).wrote_num, mine(w).refs, mine(w).ceiling,
                    [mine(w).lock EXCEPT ![idx(w)] = mine(w).lock[idx(w)] + 1], mine(w).data)
         /\ Return(w) /\ UNCHANGED <<key, at, conf, infos, history>>
<1> USE DEF Refuse, At
<1>1. at[w] \in 1..Len(segs) /\ mine(w) \in Memory /\ w \in Users /\ idx(w) \in Index
  BY Who DEF Mapped
<1>2. mine(w).lock[idx(w)] + 1 \in Int
  BY <1>1, MemoryFields
<1> QED BY <1>1, <1>2, WriteLock DEF ReleaseWriteLock, Types, Shapes

LEMMA FilledDoes ==
  ASSUME Types, NEW w \in Writers, Filled(w)
  PROVE  /\ pc[w] = "filled" /\ at[w] \in 1..Len(segs)
         /\ Memory1(w, mine(w).need_remap, mine(w).wrote_num, mine(w).refs, mine(w).ceiling,
                    mine(w).lock, [mine(w).data EXCEPT ![idx(w)] = loc[w].msg])
         /\ Moved(w, at[w], conf[w], "written")
         /\ UNCHANGED <<key, loc, todo, infos, history>>
<1> USE DEF Filled, At
<1>1. /\ at[w] \in 1..Len(segs) /\ mine(w) \in Memory /\ w \in Users /\ idx(w) \in Index
      /\ loc[w].msg \in Int
  BY Who, LocalFields DEF Mapped
<1>2. segs' = [segs EXCEPT ![at[w]].data[idx(w)] = loc[w].msg]
  BY DEF ShareBlock
<1> QED BY <1>1, <1>2, WriteDatum, MoveOn DEF WriterSteps, Types, Shapes

LEMMA WrittenDoes ==
  ASSUME Types, NEW w \in Writers, ReleaseWrittenBlock(w)
  PROVE  /\ pc[w] = "written" /\ at[w] \in 1..Len(segs)
         /\ Memory1(w, mine(w).need_remap, mine(w).wrote_num, mine(w).refs, mine(w).ceiling,
                    [mine(w).lock EXCEPT ![idx(w)] = mine(w).lock[idx(w)] + 1], mine(w).data)
         /\ Moved(w, at[w], conf[w], "notify")
         /\ UNCHANGED <<key, loc, todo, infos, history>>
<1> USE DEF ReleaseWrittenBlock, At
<1>1. at[w] \in 1..Len(segs) /\ mine(w) \in Memory /\ w \in Users /\ idx(w) \in Index
  BY Who DEF Mapped
<1>2. mine(w).lock[idx(w)] + 1 \in Int
  BY <1>1, MemoryFields
<1> QED BY <1>1, <1>2, WriteLock, MoveOn DEF WriterSteps, ReleaseWriteLock, Types, Shapes

LEMMA NotifyDoes ==
  ASSUME Types, NEW w \in Writers, Notify(w)
  PROVE  /\ pc[w] = "notify" /\ at[w] \in 1..Len(segs)
         /\ infos' = infos \cup {[block_index |-> idx(w), msg |-> loc[w].msg]}
         /\ Return(w) /\ UNCHANGED <<memory, at, conf, history>>
BY Who DEF Notify, At, Mapped

LEMMA ListenDoes ==
  ASSUME Types, NEW r \in Readers, Listen(r)
  PROVE  /\ pc[r] = "listen"
         /\ \E info \in infos, a \in {"none", "range"} :
              Local1(r, a, info.block_index, loc[r].lock_num, loc[r].try_times, info.msg,
                     loc[r].got)
         /\ \/ /\ at[r] = 0 /\ Moved(r, at[r], conf[r], "get") /\ loc'[r].ret = "range"
            \/ at[r] # 0 /\ Moved(r, at[r], conf[r], "range")
         /\ UNCHANGED <<memory, todo, infos, history>>
<1> USE DEF Listen, At
<1>1. r \in Users
  BY Who
<1> DEFINE a == IF at[r] = 0 THEN "range" ELSE "none"
<1>2. PICK info \in infos :
        loc' = [loc EXCEPT ![r] = [@ EXCEPT !.idx = info.block_index, !.msg = info.msg,
                                            !.ret = a]]
  OBVIOUS
<1>3. info.block_index \in Index /\ info.msg \in Nat
  <2>1. count \in Nat /\ info \in [block_index : Index, msg : 1..count]
    BY DEF Types, TypeOK, Shapes
  <2> QED BY <2>1
<1>4. Local1(r, a, info.block_index, loc[r].lock_num, loc[r].try_times, info.msg, loc[r].got)
  <2> DEFINE i == info.block_index
             m == info.msg
  <2>1. a \in {"none", "range"}
    OBVIOUS
  <2>2. i \in Index /\ m \in Nat
    BY <1>3
  <2>3. loc' = [loc EXCEPT ![r] = [@ EXCEPT !.idx = i, !.msg = m, !.ret = a]]
    BY <1>2
  <2>4. Local1(r, a, i, loc[r].lock_num, loc[r].try_times, m, loc[r].got)
    <3> HIDE DEF i, m, a, Listen, At
    <3>1. loc \in [Users -> Local]
      BY Who
    <3> QED BY ONLY <1>1, <2>1, <2>2, <2>3, <3>1, SetInfo
  <2> QED BY <2>4
<1>5. \/ at[r] = 0 /\ Moved(r, at[r], conf[r], "get") /\ loc'[r].ret = "range"
      \/ at[r] # 0 /\ Moved(r, at[r], conf[r], "range")
  <2>1. CASE at[r] = 0
    BY <1>1, <1>4, <2>1, MoveOn DEF ReaderSteps, Local1, MyLocals
  <2>2. CASE at[r] # 0
    BY <1>1, <2>2, MoveOn DEF ReaderSteps
  <2> QED BY <2>1, <2>2
<1>6. a \in {"none", "range"}
  OBVIOUS
<1> QED
  <2> HIDE DEF a
  <2> QED BY <1>4, <1>5, <1>6

LEMMA CheckIndexDoes ==
  ASSUME Types, NEW r \in Readers, CheckIndex(r)
  PROVE  /\ pc[r] = "range" /\ at[r] \in 1..Len(segs)
         /\ \/ Return(r) /\ UNCHANGED at
            \/ /\ mine(r).need_remap /\ Moved(r, 0, conf[r], "get") /\ UNCHANGED todo
               /\ Local1(r, "peek", loc[r].idx, loc[r].lock_num, loc[r].try_times,
                         loc[r].msg, loc[r].got)
            \/ /\ ~mine(r).need_remap /\ Moved(r, at[r], conf[r], "peek")
               /\ UNCHANGED <<loc, todo>>
         /\ UNCHANGED <<memory, conf, infos, history>>
<1> USE DEF CheckIndex, At
<1>1. /\ at[r] \in 1..Len(segs) /\ r \in Users
      /\ idx(r) \in Int /\ block_num(r) \in Int
  BY Who, Layouts DEF Mapped
<1> DEFINE beyond == idx(r) >= block_num(r)
<1>0. idx(r) < block_num(r) <=> ~beyond
  BY <1>1
<1> HIDE DEF beyond
<1>2. CASE beyond
  BY <1>0, <1>1, <1>2 DEF beyond
<1>3. CASE ~beyond /\ mine(r).need_remap
  <2>1. Detach(r) /\ Open(r, "peek") /\ UNCHANGED todo
    BY <1>0, <1>3 DEF beyond
  <2> QED BY <1>1, <1>3, <2>1, Who, DetachOn, SetRet DEF ReaderSteps, Open
<1>4. CASE ~beyond /\ ~mine(r).need_remap
  <2>1. Goto(r, "peek") /\ UNCHANGED <<at, loc, todo>>
    BY <1>0, <1>4 DEF beyond
  <2> QED BY <1>1, <1>4, <2>1, MoveOn DEF ReaderSteps
<1> QED BY <1>2, <1>3, <1>4

LEMMA PeekDoes ==
  ASSUME Types, NEW r \in Readers, Peek(r)
  PROVE  /\ pc[r] = "peek" /\ at[r] \in 1..Len(segs) /\ idx(r) < block_num(r)
         /\ \/ Return(r)
            \/ /\ mine(r).lock[idx(r)] >= 0 /\ Moved(r, at[r], conf[r], "take")
               /\ Local1(r, loc[r].ret, loc[r].idx, mine(r).lock[idx(r)], loc[r].try_times,
                         loc[r].msg, loc[r].got)
               /\ UNCHANGED todo
         /\ UNCHANGED <<memory, at, conf, infos, history>>
<1> USE DEF Peek, At
<1>1. /\ at[r] \in 1..Len(segs) /\ r \in Users /\ mine(r) \in Memory /\ idx(r) \in Index
  BY Who DEF Mapped
<1> DEFINE lock == mine(r).lock[idx(r)]
<1>2. lock \in Int
  BY <1>1, MemoryFields
<1>3. IF lock < 0 THEN Return(r)
      ELSE Goto(r, "take") /\ Set(r, "lock_num", lock) /\ UNCHANGED todo
  OBVIOUS
<1>4. CASE lock < 0
  BY <1>1, <1>3, <1>4
<1>5. CASE ~(lock < 0)
  <2>1. Local1(r, loc[r].ret, loc[r].idx, lock, loc[r].try_times, loc[r].msg, loc[r].got)
    <3>1. Set(r, "lock_num", lock)
      BY <1>3, <1>5
    <3> HIDE DEF lock
    <3> QED BY <1>1, <1>2, <3>1, Who, SetLockNum
  <2>2. Moved(r, at[r], conf[r], "take")
    BY <1>1, <1>3, <1>5, MoveOn DEF ReaderSteps
  <2>3. lock >= 0 /\ UNCHANGED todo
    BY <1>2, <1>3, <1>5
  <2> QED BY <1>1, <2>1, <2>2, <2>3
<1> QED BY <1>4, <1>5

LEMMA StrayDoes ==
  ASSUME Types, NEW r \in Readers, Stray(r)
  PROVE  /\ pc[r] = "peek" /\ at[r] \in 1..Len(segs)
         /\ \/ UNCHANGED <<segs, spoiled>>
            \/ /\ \E i \in Index :
                    Memory1(r, mine(r).need_remap, mine(r).wrote_num, mine(r).refs,
                            mine(r).ceiling, mine(r).lock, [mine(r).data EXCEPT ![i] = Torn])
               /\ spoiled' = spoiled \cup {at[r]}
         /\ Return(r) /\ UNCHANGED <<key, at, conf, infos, count, came, left>>
<1> USE DEF Stray, At
<1>1. /\ at[r] \in 1..Len(segs) /\ r \in Users
  BY Who DEF Mapped
<1>2. CASE UNCHANGED <<segs, spoiled>>
  BY <1>1, <1>2
<1>3. CASE Spoil(at[r]) /\ \E i \in Index : segs' = [segs EXCEPT ![at[r]].data[i] = Torn]
  <2>1. PICK i \in Index : segs' = [segs EXCEPT ![at[r]].data[i] = Torn]
    BY <1>3
  <2>2. Memory1(r, mine(r).need_remap, mine(r).wrote_num, mine(r).refs,
                mine(r).ceiling, mine(r).lock, [mine(r).data EXCEPT ![i] = Torn])
    <3>1. Torn \in Int
      BY DEF Torn
    <3> QED BY <1>1, <2>1, <3>1, WriteDatum DEF Types, Shapes
  <2> QED BY <1>1, <1>3, <2>2 DEF Spoil
<1> QED BY <1>2, <1>3

LEMMA TakeDoes ==
  ASSUME Types, NEW r \in Readers, Take(r)
  PROVE  /\ pc[r] = "take" /\ at[r] \in 1..Len(segs)
         /\ \/ /\ mine(r).lock[idx(r)] = loc[r].lock_num
               /\ Memory1(r, mine(r).need_remap, mine(r).wrote_num, mine(r).refs,
                          mine(r).ceiling,
                          [mine(r).lock EXCEPT ![idx(r)] = mine(r).lock[idx(r)] + 1],
                          mine(r).data)
               /\ Moved(r, at[r], conf[r], "read") /\ UNCHANGED <<loc, todo>>
            \/ /\ Moved(r, at[r], conf[r], "peek")
               /\ Local1(r, loc[r].ret, loc[r].idx, loc[r].lock_num, loc[r].try_times + 1,
                         loc[r].msg, loc[r].got)
               /\ UNCHANGED <<segs, todo>>
            \/ Return(r) /\ UNCHANGED segs
         /\ UNCHANGED <<key, infos, history>>
<1> USE DEF Take, At
<1>1. /\ at[r] \in 1..Len(segs) /\ r \in Users /\ idx(r) \in Index /\ loc[r] \in Local
  BY Who DEF Mapped
<1>2. loc[r].lock_num + 1 \in Int /\ loc[r].try_times + 1 \in Nat
  BY <1>1, LocalFields
<1> DEFINE won == mine(r).lock[idx(r)] = loc[r].lock_num
           again == loc[r].try_times + 1 < kMaxTryLockTimes
<1> HIDE DEF won, again
<1>3. CASE won
  <2>1. ShareBlock(r, "lock", loc[r].lock_num + 1) /\ Goto(r, "read") /\ UNCHANGED <<loc, todo>>
    BY <1>3 DEF won
  <2>2. Memory1(r, mine(r).need_remap, mine(r).wrote_num, mine(r).refs, mine(r).ceiling,
                [mine(r).lock EXCEPT ![idx(r)] = loc[r].lock_num + 1], mine(r).data)
    BY <1>1, <1>2, <2>1, WriteLock DEF Types, Shapes
  <2> QED BY <1>1, <1>3, <2>1, <2>2, MoveOn DEF ReaderSteps, won
<1>4. CASE ~won /\ again
  <2>1. Goto(r, "peek") /\ Set(r, "try_times", loc[r].try_times + 1) /\ UNCHANGED <<segs, todo>>
    BY <1>4 DEF won, again
  <2> QED BY <1>1, <1>2, <2>1, Who, MoveOn, SetTries DEF ReaderSteps
<1>5. CASE ~won /\ ~again
  <2>1. Return(r) /\ UNCHANGED segs
    BY <1>5 DEF won, again
  <2> QED BY <1>1, <2>1
<1> QED BY <1>3, <1>4, <1>5

LEMMA ReadDoes ==
  ASSUME Types, NEW r \in Readers, ReadMessage(r)
  PROVE  /\ pc[r] = "read" /\ at[r] \in 1..Len(segs)
         /\ \E x \in Int :
              /\ Local1(r, loc[r].ret, loc[r].idx, loc[r].lock_num, loc[r].try_times,
                        loc[r].msg, x)
              /\ x = IF conf[r] = GetCeilingMessageSize(mine(r).ceiling)
                     THEN mine(r).data[idx(r)] ELSE Torn
         /\ Moved(r, at[r], conf[r], "release")
         /\ UNCHANGED <<memory, todo, infos, history>>
<1> USE DEF ReadMessage, At
<1>1. /\ at[r] \in 1..Len(segs) /\ r \in Users /\ mine(r) \in Memory /\ idx(r) \in Index
  BY Who DEF Mapped
<1> DEFINE x == IF conf[r] = GetCeilingMessageSize(mine(r).ceiling)
                THEN mine(r).data[idx(r)] ELSE Torn
<1>2. x \in Int
  <2>1. mine(r).data[idx(r)] \in Int /\ Torn \in Int
    BY <1>1, MemoryFields DEF Torn
  <2> QED BY <2>1
<1>3. Set(r, "got", x)
  OBVIOUS
<1>4. Local1(r, loc[r].ret, loc[r].idx, loc[r].lock_num, loc[r].try_times, loc[r].msg, x)
  <2> HIDE DEF x
  <2> QED BY <1>1, <1>2, <1>3, Who, SetGot
<1> QED BY <1>1, <1>2, <1>4, MoveOn DEF ReaderSteps

LEMMA ReleaseDoes ==
  ASSUME Types, NEW r \in Readers, ReleaseReadBlock(r)
  PROVE  /\ pc[r] = "release" /\ at[r] \in 1..Len(segs)
         /\ Memory1(r, mine(r).need_remap, mine(r).wrote_num, mine(r).refs, mine(r).ceiling,
                    [mine(r).lock EXCEPT ![idx(r)] = mine(r).lock[idx(r)] - 1], mine(r).data)
         /\ Return(r) /\ UNCHANGED <<key, at, conf, infos, history>>
<1> USE DEF ReleaseReadBlock, At
<1>1. at[r] \in 1..Len(segs) /\ mine(r) \in Memory /\ r \in Users /\ idx(r) \in Index
  BY Who DEF Mapped
<1>2. mine(r).lock[idx(r)] - 1 \in Int
  BY <1>1, MemoryFields
<1> QED BY <1>1, <1>2, WriteLock DEF Types, Shapes

-----------------------------------------------------------------------------
(* What every step leaves alone *)

\* A step of u moves u only, writes in the segment u has mapped only, and takes
\* nothing away from the histories.
UsersFrame(u) ==
  /\ at' \in [Users -> Nat] /\ conf' \in [Users -> Ceilings]
  /\ pc' \in [Users -> WriterSteps \cup ReaderSteps]
  /\ loc' \in [Users -> Local] /\ todo' \in [Writers -> Seq(Nat)]
  /\ \A v \in Users : v # u =>
       at'[v] = at[v] /\ conf'[v] = conf[v] /\ pc'[v] = pc[v] /\ loc'[v] = loc[v]
  /\ \A w \in Writers : w # u => todo'[w] = todo[w]
HistoryGrows ==
  /\ count' \in Nat /\ count <= count'
  /\ (left => left') /\ spoiled \subseteq spoiled' /\ came \subseteq came'
MemoryFrame(u) ==
  /\ segs' \in Seq(Memory) /\ Len(segs') \in Nat /\ Len(segs) <= Len(segs')
  /\ \A s \in 1..Len(segs) : s # at[u] => segs'[s] = segs[s]
Frame(u) == UsersFrame(u) /\ MemoryFrame(u) /\ HistoryGrows

LEMMA Typed ==
  ASSUME Types
  PROVE  /\ at \in [Users -> Nat] /\ conf \in [Users -> Ceilings]
         /\ pc \in [Users -> WriterSteps \cup ReaderSteps]
         /\ loc \in [Users -> Local] /\ todo \in [Writers -> Seq(Nat)]
         /\ segs \in Seq(Memory) /\ Len(segs) \in Nat /\ count \in Nat
BY Who DEF Types, Shapes


LEMMA FrameOpen ==
  ASSUME Types, NEW u \in Users, OpenOrClose(u)
  PROVE  Frame(u)
<1>1. CASE Create(u)
  <2>1. UsersFrame(u)
    BY <1>1, CreateDoes, Typed DEF UsersFrame, Moved, OnlyI, Local1, OnlyMyLocals
  <2>2. MemoryFrame(u)
    BY <1>1, CreateDoes, Typed DEF MemoryFrame, memory
  <2>3. HistoryGrows
    BY <1>1, Typed DEF Create, HistoryGrows, history, Spoil
  <2> QED BY <2>1, <2>2, <2>3 DEF Frame
<1>2. CASE MakeState(u)
  <2>1. UsersFrame(u)
    BY <1>2, MakeStateDoes, Typed DEF UsersFrame, Moved, OnlyI, Local1, OnlyMyLocals
  <2>2. MemoryFrame(u)
    <3>1. OnlyMine(u) \/ UNCHANGED segs
      BY <1>2, MakeStateDoes DEF Memory1, memory
    <3> QED BY <3>1, Typed DEF MemoryFrame, OnlyMine
  <2>3. HistoryGrows
    BY <1>2, Typed DEF MakeState, HistoryGrows, history, Spoil
  <2> QED BY <2>1, <2>2, <2>3 DEF Frame
<1>3. CASE MakeBlocks(u)
  <2>1. UsersFrame(u)
    BY <1>3, MakeBlocksDoes, Typed DEF UsersFrame, Moved, OnlyI, Local1, OnlyMyLocals
  <2>2. MemoryFrame(u)
    <3>1. OnlyMine(u) \/ UNCHANGED segs
      BY <1>3, MakeBlocksDoes DEF Memory1, memory
    <3> QED BY <3>1, Typed DEF MemoryFrame, OnlyMine
  <2>3. HistoryGrows
    BY <1>3, Typed DEF MakeBlocks, HistoryGrows, history, Spoil
  <2> QED BY <2>1, <2>2, <2>3 DEF Frame
<1>4. CASE Get(u)
  <2>1. UsersFrame(u)
    <3>1. CASE OnlyI(u) /\ UNCHANGED <<loc, todo>>
      BY <3>1, Typed DEF UsersFrame, OnlyI
    <3>2. CASE Return(u) /\ UNCHANGED <<at, conf>>
      <4>1. CASE u \in Writers
        BY <1>4, <3>2, <4>1, GetDoes, HomeWriter, Typed DEF UsersFrame, Moved, OnlyI, Local1, OnlyMyLocals
      <4>2. CASE u \in Readers
        BY <1>4, <3>2, <4>2, GetDoes, HomeReader, Typed DEF UsersFrame, Moved, OnlyI, Local1, OnlyMyLocals
      <4> QED BY <4>1, <4>2 DEF Users
    <3> QED BY <1>4, <3>1, <3>2, GetDoes DEF Moved
  <2>2. MemoryFrame(u)
    <3>1. OnlyMine(u) \/ UNCHANGED segs
      BY <1>4, GetDoes DEF Memory1, memory
    <3> QED BY <3>1, Typed DEF MemoryFrame, OnlyMine
  <2>3. HistoryGrows
    BY <1>4, Typed DEF Get, HistoryGrows, history, Spoil
  <2> QED BY <2>1, <2>2, <2>3 DEF Frame
<1>5. CASE IncreaseReferenceCounts(u)
  <2>1. UsersFrame(u)
    BY <1>5, CountDoes, Typed DEF UsersFrame, Moved, OnlyI, Local1, OnlyMyLocals
  <2>2. MemoryFrame(u)
    <3>1. OnlyMine(u) \/ UNCHANGED segs
      BY <1>5, CountDoes DEF Memory1, memory
    <3> QED BY <3>1, Typed DEF MemoryFrame, OnlyMine
  <2>3. HistoryGrows
    BY <1>5, Typed DEF IncreaseReferenceCounts, HistoryGrows, history, Spoil
  <2> QED BY <2>1, <2>2, <2>3 DEF Frame
<1>6. CASE Destroy(u)
  <2>1. UsersFrame(u)
    BY <1>6, DestroyDoes, Typed DEF UsersFrame, Moved, OnlyI, Local1, OnlyMyLocals
  <2>2. MemoryFrame(u)
    <3>1. OnlyMine(u) \/ UNCHANGED segs
      BY <1>6, DestroyDoes DEF Memory1, memory
    <3> QED BY <3>1, Typed DEF MemoryFrame, OnlyMine
  <2>3. HistoryGrows
    BY <1>6, Typed DEF Destroy, HistoryGrows, history, Spoil
  <2> QED BY <2>1, <2>2, <2>3 DEF Frame
<1>7. CASE Last(u)
  <2>1. UsersFrame(u)
    BY <1>7, LastDoes, Typed DEF UsersFrame, Moved, OnlyI, Local1, OnlyMyLocals
  <2>2. MemoryFrame(u)
    <3>1. OnlyMine(u) \/ UNCHANGED segs
      BY <1>7, LastDoes DEF Memory1, memory
    <3> QED BY <3>1, Typed DEF MemoryFrame, OnlyMine
  <2>3. HistoryGrows
    <3>1. UNCHANGED history
      BY <1>7 DEF Last
    <3> QED BY <3>1, Typed DEF HistoryGrows, history
  <2> QED BY <2>1, <2>2, <2>3 DEF Frame
<1> QED BY <1>1, <1>2, <1>3, <1>4, <1>5, <1>6, <1>7 DEF OpenOrClose

LEMMA FrameWrite ==
  ASSUME Types, NEW w \in Writers, Write(w)
  PROVE  Frame(w)
<1>1. CASE Transmit(w)
  <2>1. UsersFrame(w)
    BY <1>1, TransmitDoes, Typed DEF UsersFrame, Moved, OnlyI, Local1, OnlyMyLocals
  <2>2. MemoryFrame(w)
    <3>1. OnlyMine(w) \/ UNCHANGED segs
      BY <1>1, TransmitDoes DEF Memory1, memory
    <3> QED BY <3>1, Typed DEF MemoryFrame, OnlyMine
  <2>3. HistoryGrows
    BY <1>1, Typed DEF Transmit, HistoryGrows, history, Spoil
  <2> QED BY <2>1, <2>2, <2>3 DEF Frame
<1>2. CASE Check(w)
  <2>1. UsersFrame(w)
    BY <1>2, CheckDoes, Typed DEF UsersFrame, Moved, OnlyI, Local1, OnlyMyLocals
  <2>2. MemoryFrame(w)
    <3>1. OnlyMine(w) \/ UNCHANGED segs
      BY <1>2, CheckDoes DEF Memory1, memory
    <3> QED BY <3>1, Typed DEF MemoryFrame, OnlyMine
  <2>3. HistoryGrows
    BY <1>2, Typed DEF Check, HistoryGrows, history, Spoil
  <2> QED BY <2>1, <2>2, <2>3 DEF Frame
<1>3. CASE RemoveSegment(w)
  <2>1. UsersFrame(w)
    BY <1>3, RemoveDoes, Typed DEF UsersFrame, Moved, OnlyI, Local1, OnlyMyLocals
  <2>2. MemoryFrame(w)
    <3>1. OnlyMine(w) \/ UNCHANGED segs
      BY <1>3, RemoveDoes DEF Memory1, memory
    <3> QED BY <3>1, Typed DEF MemoryFrame, OnlyMine
  <2>3. HistoryGrows
    BY <1>3, Typed DEF RemoveSegment, HistoryGrows, history, Spoil
  <2> QED BY <2>1, <2>2, <2>3 DEF Frame
<1>4. CASE Load(w)
  <2>1. UsersFrame(w)
    BY <1>4, LoadDoes, Typed DEF UsersFrame, Moved, OnlyI, Local1, OnlyMyLocals
  <2>2. MemoryFrame(w)
    <3>1. OnlyMine(w) \/ UNCHANGED segs
      BY <1>4, LoadDoes DEF Memory1, memory
    <3> QED BY <3>1, Typed DEF MemoryFrame, OnlyMine
  <2>3. HistoryGrows
    BY <1>4, Typed DEF Load, HistoryGrows, history, Spoil
  <2> QED BY <2>1, <2>2, <2>3 DEF Frame
<1>5. CASE Lock(w)
  <2>1. UsersFrame(w)
    BY <1>5, LockDoes, Typed DEF UsersFrame, Moved, OnlyI, Local1, OnlyMyLocals
  <2>2. MemoryFrame(w)
    <3>1. OnlyMine(w) \/ UNCHANGED segs
      BY <1>5, LockDoes DEF Memory1, memory
    <3> QED BY <3>1, Typed DEF MemoryFrame, OnlyMine
  <2>3. HistoryGrows
    BY <1>5, Typed DEF Lock, HistoryGrows, history, Spoil
  <2> QED BY <2>1, <2>2, <2>3 DEF Frame
<1>6. CASE IncreaseWroteNum(w)
  <2>1. UsersFrame(w)
    BY <1>6, BumpDoes, Typed DEF UsersFrame, Moved, OnlyI, Local1, OnlyMyLocals
  <2>2. MemoryFrame(w)
    <3>1. OnlyMine(w) \/ UNCHANGED segs
      BY <1>6, BumpDoes DEF Memory1, memory
    <3> QED BY <3>1, Typed DEF MemoryFrame, OnlyMine
  <2>3. HistoryGrows
    BY <1>6, Typed DEF IncreaseWroteNum, HistoryGrows, history, Spoil
  <2> QED BY <2>1, <2>2, <2>3 DEF Frame
<1>7. CASE Fill(w)
  <2>1. UsersFrame(w)
    BY <1>7, FillDoes, Typed DEF UsersFrame, Moved, OnlyI, Local1, OnlyMyLocals
  <2>2. MemoryFrame(w)
    <3>1. OnlyMine(w) \/ UNCHANGED segs
      BY <1>7, FillDoes DEF Memory1, memory
    <3> QED BY <3>1, Typed DEF MemoryFrame, OnlyMine
  <2>3. HistoryGrows
    BY <1>7, Typed DEF Fill, HistoryGrows, history, Spoil
  <2> QED BY <2>1, <2>2, <2>3 DEF Frame
<1>8. CASE Refuse(w)
  <2>1. UsersFrame(w)
    BY <1>8, RefuseDoes, HomeWriter, Typed DEF UsersFrame, Moved, OnlyI, Local1, OnlyMyLocals
  <2>2. MemoryFrame(w)
    <3>1. OnlyMine(w) \/ UNCHANGED segs
      BY <1>8, RefuseDoes DEF Memory1, memory
    <3> QED BY <3>1, Typed DEF MemoryFrame, OnlyMine
  <2>3. HistoryGrows
    BY <1>8, Typed DEF Refuse, HistoryGrows, history, Spoil
  <2> QED BY <2>1, <2>2, <2>3 DEF Frame
<1>9. CASE Filled(w)
  <2>1. UsersFrame(w)
    BY <1>9, FilledDoes, Typed DEF UsersFrame, Moved, OnlyI, Local1, OnlyMyLocals
  <2>2. MemoryFrame(w)
    <3>1. OnlyMine(w) \/ UNCHANGED segs
      BY <1>9, FilledDoes DEF Memory1, memory
    <3> QED BY <3>1, Typed DEF MemoryFrame, OnlyMine
  <2>3. HistoryGrows
    BY <1>9, Typed DEF Filled, HistoryGrows, history, Spoil
  <2> QED BY <2>1, <2>2, <2>3 DEF Frame
<1>10. CASE ReleaseWrittenBlock(w)
  <2>1. UsersFrame(w)
    BY <1>10, WrittenDoes, Typed DEF UsersFrame, Moved, OnlyI, Local1, OnlyMyLocals
  <2>2. MemoryFrame(w)
    <3>1. OnlyMine(w) \/ UNCHANGED segs
      BY <1>10, WrittenDoes DEF Memory1, memory
    <3> QED BY <3>1, Typed DEF MemoryFrame, OnlyMine
  <2>3. HistoryGrows
    BY <1>10, Typed DEF ReleaseWrittenBlock, HistoryGrows, history, Spoil
  <2> QED BY <2>1, <2>2, <2>3 DEF Frame
<1>11. CASE Notify(w)
  <2>1. UsersFrame(w)
    BY <1>11, NotifyDoes, HomeWriter, Typed DEF UsersFrame, Moved, OnlyI, Local1, OnlyMyLocals
  <2>2. MemoryFrame(w)
    <3>1. OnlyMine(w) \/ UNCHANGED segs
      BY <1>11, NotifyDoes DEF Memory1, memory
    <3> QED BY <3>1, Typed DEF MemoryFrame, OnlyMine
  <2>3. HistoryGrows
    BY <1>11, Typed DEF Notify, HistoryGrows, history, Spoil
  <2> QED BY <2>1, <2>2, <2>3 DEF Frame
<1> QED BY <1>1, <1>2, <1>3, <1>4, <1>5, <1>6, <1>7, <1>8, <1>9, <1>10, <1>11 DEF Write

LEMMA FrameSize ==
  ASSUME Types, NEW w \in Writers, Size(w)
  PROVE  Frame(w)
<1>1. UsersFrame(w)
  <2>1. CASE Return(w)
    BY <2>1, SizeDoes, HomeWriter, Typed DEF UsersFrame, Moved, OnlyI, Local1, OnlyMyLocals
  <2>2. CASE ~Return(w)
    BY <2>2, SizeDoes, Typed DEF UsersFrame, Moved, OnlyI, Local1, OnlyMyLocals
  <2> QED BY <2>1, <2>2
<1>2. MemoryFrame(w)
  <2>1. OnlyMine(w) \/ UNCHANGED segs
    BY SizeDoes DEF Memory1
  <2> QED BY <2>1, Typed DEF MemoryFrame, OnlyMine
<1>3. HistoryGrows
  BY Typed DEF Size, HistoryGrows, history
<1> QED BY <1>1, <1>2, <1>3 DEF Frame

LEMMA FrameRead ==
  ASSUME Types, NEW r \in Readers, Read(r)
  PROVE  Frame(r)
<1>1. CASE Listen(r)
  <2>1. UsersFrame(r)
    BY <1>1, ListenDoes, Typed DEF UsersFrame, Moved, OnlyI, Local1, OnlyMyLocals
  <2>2. MemoryFrame(r)
    <3>1. OnlyMine(r) \/ UNCHANGED segs
      BY <1>1, ListenDoes DEF Memory1, memory
    <3> QED BY <3>1, Typed DEF MemoryFrame, OnlyMine
  <2>3. HistoryGrows
    BY <1>1, Typed DEF Listen, HistoryGrows, history, Spoil
  <2> QED BY <2>1, <2>2, <2>3 DEF Frame
<1>2. CASE CheckIndex(r)
  <2>1. UsersFrame(r)
    BY <1>2, CheckIndexDoes, HomeReader, Typed DEF UsersFrame, Moved, OnlyI, Local1, OnlyMyLocals
  <2>2. MemoryFrame(r)
    <3>1. OnlyMine(r) \/ UNCHANGED segs
      BY <1>2, CheckIndexDoes DEF Memory1, memory
    <3> QED BY <3>1, Typed DEF MemoryFrame, OnlyMine
  <2>3. HistoryGrows
    BY <1>2, Typed DEF CheckIndex, HistoryGrows, history, Spoil
  <2> QED BY <2>1, <2>2, <2>3 DEF Frame
<1>3. CASE Peek(r)
  <2>1. UsersFrame(r)
    BY <1>3, PeekDoes, HomeReader, Typed DEF UsersFrame, Moved, OnlyI, Local1, OnlyMyLocals
  <2>2. MemoryFrame(r)
    <3>1. OnlyMine(r) \/ UNCHANGED segs
      BY <1>3, PeekDoes DEF Memory1, memory
    <3> QED BY <3>1, Typed DEF MemoryFrame, OnlyMine
  <2>3. HistoryGrows
    BY <1>3, Typed DEF Peek, HistoryGrows, history, Spoil
  <2> QED BY <2>1, <2>2, <2>3 DEF Frame
<1>4. CASE Stray(r)
  <2>1. UsersFrame(r)
    BY <1>4, StrayDoes, HomeReader, Typed DEF UsersFrame, Moved, OnlyI, Local1, OnlyMyLocals
  <2>2. MemoryFrame(r)
    <3>1. OnlyMine(r) \/ UNCHANGED segs
      BY <1>4, StrayDoes DEF Memory1, memory
    <3> QED BY <3>1, Typed DEF MemoryFrame, OnlyMine
  <2>3. HistoryGrows
    BY <1>4, Typed DEF Stray, HistoryGrows, history, Spoil
  <2> QED BY <2>1, <2>2, <2>3 DEF Frame
<1>5. CASE Take(r)
  <2>1. UsersFrame(r)
    <3>1. CASE Return(r)
      <4>1. UNCHANGED <<at, conf>>
        BY <1>5 DEF Take
      <4> QED BY <3>1, <4>1, HomeReader, Typed DEF UsersFrame, Moved, OnlyI, Local1, OnlyMyLocals
    <3>2. CASE ~Return(r)
      <4>1. OnlyI(r) /\ (OnlyMyLocals(r) \/ UNCHANGED loc) /\ UNCHANGED todo
        BY <1>5, <3>2, TakeDoes DEF Moved, Local1
      <4> QED BY <4>1, Typed DEF UsersFrame, Moved, OnlyI, Local1, OnlyMyLocals
    <3> QED BY <3>1, <3>2
  <2>2. MemoryFrame(r)
    <3>1. OnlyMine(r) \/ UNCHANGED segs
      BY <1>5, TakeDoes DEF Memory1, memory
    <3> QED BY <3>1, Typed DEF MemoryFrame, OnlyMine
  <2>3. HistoryGrows
    BY <1>5, Typed DEF Take, HistoryGrows, history, Spoil
  <2> QED BY <2>1, <2>2, <2>3 DEF Frame
<1>6. CASE ReadMessage(r)
  <2>1. UsersFrame(r)
    BY <1>6, ReadDoes, Typed DEF UsersFrame, Moved, OnlyI, Local1, OnlyMyLocals
  <2>2. MemoryFrame(r)
    <3>1. OnlyMine(r) \/ UNCHANGED segs
      BY <1>6, ReadDoes DEF Memory1, memory
    <3> QED BY <3>1, Typed DEF MemoryFrame, OnlyMine
  <2>3. HistoryGrows
    BY <1>6, Typed DEF ReadMessage, HistoryGrows, history, Spoil
  <2> QED BY <2>1, <2>2, <2>3 DEF Frame
<1>7. CASE ReleaseReadBlock(r)
  <2>1. UsersFrame(r)
    BY <1>7, ReleaseDoes, HomeReader, Typed DEF UsersFrame, Moved, OnlyI, Local1, OnlyMyLocals
  <2>2. MemoryFrame(r)
    <3>1. OnlyMine(r) \/ UNCHANGED segs
      BY <1>7, ReleaseDoes DEF Memory1, memory
    <3> QED BY <3>1, Typed DEF MemoryFrame, OnlyMine
  <2>3. HistoryGrows
    BY <1>7, Typed DEF ReleaseReadBlock, HistoryGrows, history, Spoil
  <2> QED BY <2>1, <2>2, <2>3 DEF Frame
<1> QED BY <1>1, <1>2, <1>3, <1>4, <1>5, <1>6, <1>7 DEF Read

LEMMA FrameStutter ==
  ASSUME Types, UNCHANGED <<memory, users, count, spoiled, came, left>>
  PROVE  \A u \in Users : Frame(u)
BY Typed DEF Frame, UsersFrame, MemoryFrame, HistoryGrows, memory, users

-----------------------------------------------------------------------------
(* The types *)

\* What Types says of one user.
WriterIs(w) ==
  /\ pc[w] \in WriterSteps
  /\ pc[w] \notin {"idle", "last"} => todo[w] # <<>>
  /\ pc[w] \in {"create", "state", "blocks"} => loc[w].ret \in {"check", "load"}
  /\ pc[w] \in {"get", "count"} => loc[w].ret \in {"check", "size", "load"}
  /\ pc[w] = "remove" => loc[w].ret = "load"
  /\ pc[w] \notin {"lock", "notify"} \cup Sending => idx(w) = 0
  /\ pc[w] \in Sending => loc[w].msg \in 1..count
ReaderIs(r) ==
  /\ pc[r] \in ReaderSteps
  /\ pc[r] \in {"get", "count"} => loc[r].ret \in {"range", "peek"}
  /\ pc[r] \in {"listen", "last", "shut down"} => idx(r) = 0
  /\ pc[r] = "take" => loc[r].lock_num >= 0
  /\ loc[r].msg <= count
UserIs(u) ==
  /\ at[u] \in 0..Len(segs)
  /\ pc[u] \in Mapped => at[u] # 0
  /\ pc[u] \in Mapped \ {"count", "range", "peek"} => idx(u) < block_num(u)
  /\ ~left => pc[u] \notin {"last", "shut down"}

LEMMA UsersNow ==
  ASSUME Types
  PROVE  /\ \A u \in Users : UserIs(u)
         /\ \A w \in Writers : WriterIs(w)
         /\ \A r \in Readers : ReaderIs(r)
BY DEF Types, TypeOK, Shapes, Steps, UserIs, WriterIs, ReaderIs

LEMMA OthersAre ==
  ASSUME Types, NEW u \in Users, Frame(u)
  PROVE  /\ \A v \in Users : v # u => UserIs(v)'
         /\ \A w \in Writers : w # u => WriterIs(w)'
         /\ \A r \in Readers : r # u => ReaderIs(r)'
<1>1. Len(segs) \in Nat /\ count \in Nat /\ \A v \in Users : loc[v].msg \in Nat
  BY Typed, LocalFields
<1>2. /\ \A v \in Users \ {u} :
           at'[v] = at[v] /\ conf'[v] = conf[v] /\ pc'[v] = pc[v] /\ loc'[v] = loc[v]
      /\ \A w \in Writers \ {u} : todo'[w] = todo[w]
      /\ Len(segs') \in Nat /\ Len(segs) <= Len(segs')
      /\ count' \in Nat /\ count <= count' /\ (left => left')
  BY DEF Frame, UsersFrame, MemoryFrame, HistoryGrows
<1>3. ASSUME NEW v \in Users \ {u} PROVE UserIs(v)'
  <2>1. UserIs(v)
    BY <1>3, UsersNow
  <2>2. /\ at'[v] = at[v] /\ conf'[v] = conf[v] /\ pc'[v] = pc[v] /\ loc'[v] = loc[v]
        /\ Len(segs') \in Nat /\ Len(segs) <= Len(segs') /\ (left => left')
    BY <1>2, <1>3
  <2>3. at'[v] \in 0..Len(segs') /\ (pc'[v] \in Mapped => at'[v] # 0)
    <3>1. at[v] \in 0..Len(segs) /\ (pc[v] \in Mapped => at[v] # 0)
      BY <2>1 DEF UserIs
    <3> QED BY <1>1, <2>2, <3>1
  <2>4. pc'[v] \in Mapped \ {"count", "range", "peek"} => loc'[v].idx < BlockNum[conf'[v]]
    BY <2>1, <2>2 DEF UserIs, idx, block_num
  <2>5. ~left' => pc'[v] \notin {"last", "shut down"}
    BY <2>1, <2>2 DEF UserIs
  <2> QED BY <2>3, <2>4, <2>5 DEF UserIs, idx, block_num
<1>4. ASSUME NEW w \in Writers \ {u} PROVE WriterIs(w)'
  <2>1. WriterIs(w)
    BY <1>4, UsersNow
  <2> QED BY <1>1, <1>2, <1>4, <2>1 DEF WriterIs, idx, Users
<1>5. ASSUME NEW r \in Readers \ {u} PROVE ReaderIs(r)'
  <2>1. ReaderIs(r)
    BY <1>5, UsersNow
  <2>2. pc'[r] = pc[r] /\ loc'[r] = loc[r] /\ count' \in Nat /\ count <= count'
    BY <1>2, <1>5 DEF Users
  <2>3. count \in Nat /\ loc[r].msg \in Nat
    BY <1>1, <1>5 DEF Users
  <2>4. loc'[r].msg <= count'
    <3>1. loc[r].msg <= count
      BY <2>1 DEF ReaderIs
    <3> QED BY <2>2, <2>3, <3>1
  <2>5. /\ pc'[r] \in ReaderSteps
        /\ pc'[r] \in {"get", "count"} => loc'[r].ret \in {"range", "peek"}
        /\ pc'[r] \in {"listen", "last", "shut down"} => loc'[r].idx = 0
        /\ pc'[r] = "take" => loc'[r].lock_num >= 0
    BY <2>1, <2>2 DEF ReaderIs, idx
  <2> QED BY <2>4, <2>5 DEF ReaderIs, idx
<1> QED BY <1>3, <1>4, <1>5

LEMMA Within ==
  /\ \A n, m \in Nat : n <= m => 0..n \subseteq 0..m /\ 1..n \subseteq 1..m
  /\ \A n \in Nat : 0 \in 0..n /\ (n # 0 => 0 < n)
OBVIOUS

LEMMA UserWill ==
  ASSUME Types, NEW u \in Users, Frame(u),
         at'[u] \in {0, at[u]} \cup 0..Len(segs'), pc'[u] \in Mapped => at'[u] # 0,
         pc'[u] \in Mapped \ {"count", "range", "peek"} =>
           loc'[u].idx = 0 \/ loc'[u].idx < BlockNum[conf'[u]],
         pc'[u] \notin {"last", "shut down"}
  PROVE  UserIs(u)'
<1>1. at'[u] \in 0..Len(segs')
  <2>1. at[u] \in 0..Len(segs) /\ Len(segs) \in Nat /\ Len(segs') \in Nat
        /\ Len(segs) <= Len(segs')
    BY Who DEF Frame, MemoryFrame
  <2>2. at[u] \in 0..Len(segs') /\ 0 \in 0..Len(segs')
    <3>1. 0 \in 0..Len(segs)
      BY <2>1, Within
    <3> QED BY <2>1, <3>1, Within
  <2> QED BY <2>2
<1>2. loc'[u].idx = 0 => loc'[u].idx < BlockNum[conf'[u]]
  <2>1. conf'[u] \in Ceilings
    BY DEF Frame, UsersFrame
  <2>2. BlockNum[conf'[u]] \in Nat \ {0}
    BY <2>1, Layouts
  <2> QED BY <2>2, Within
<1> QED BY <1>1, <1>2 DEF UserIs, idx, block_num

LEMMA Sends ==
  ASSUME Types, NEW w \in Writers, Frame(w), pc[w] \in Sending, loc'[w].msg = loc[w].msg
  PROVE  loc'[w].msg \in 1..count'
<1>1. loc[w].msg \in 1..count
  BY UsersNow DEF WriterIs
<1>2. count \in Nat /\ count' \in Nat /\ count <= count'
  BY Typed DEF Frame, HistoryGrows
<1> QED BY <1>1, <1>2

LEMMA Hears ==
  ASSUME Types, NEW r \in Readers, Frame(r), loc'[r].msg = loc[r].msg \/ loc'[r].msg = 0
  PROVE  loc'[r].msg <= count'
<1>1. loc[r].msg <= count
  BY UsersNow DEF ReaderIs
<1>2. count \in Nat /\ count' \in Nat /\ count <= count' /\ loc[r].msg \in Nat
  BY Typed, Who, LocalFields DEF Frame, HistoryGrows
<1> QED BY <1>1, <1>2

LEMMA WriterHome ==
  ASSUME Types, NEW w \in Writers, pc[w] \notin {"idle", "last"}, UNCHANGED <<at, conf>>,
         Return(w), Frame(w)
  PROVE  UserIs(w)' /\ WriterIs(w)'
<1>1. pc'[w] = "idle" /\ at'[w] = at[w] /\ loc'[w].idx = 0
  BY HomeWriter DEF Moved, IAm, Local1, MyLocals
<1>2. w \in Users
  BY Who
<1>3. UserIs(w)'
  BY <1>1, <1>2, UserWill DEF Mapped
<1>4. WriterIs(w)'
  BY <1>1 DEF WriterIs, WriterSteps, Sending, idx
<1> QED BY <1>3, <1>4

LEMMA ReaderHome ==
  ASSUME Types, NEW r \in Readers, UNCHANGED <<at, conf>>, Return(r), Frame(r)
  PROVE  UserIs(r)' /\ ReaderIs(r)'
<1>1. pc'[r] = "listen" /\ at'[r] = at[r] /\ loc'[r].idx = 0 /\ loc'[r].msg = 0
  BY HomeReader DEF Moved, IAm, Local1, MyLocals
<1>2. r \in Users
  BY Who
<1>3. UserIs(r)'
  BY <1>1, <1>2, UserWill DEF Mapped
<1>4. loc'[r].msg <= count'
  BY <1>1, Hears
<1>5. ReaderIs(r)'
  BY <1>1, <1>4 DEF ReaderIs, ReaderSteps, idx
<1> QED BY <1>3, <1>5

\* A writer that takes a step between two of its own, with the message and
\* perhaps the block it has.
LEMMA WriterGoes ==
  ASSUME Types, NEW w \in Writers, Frame(w), todo'[w] # <<>>,
         at'[w] \in {0, at[w]} \cup 0..Len(segs'),
         pc'[w] \in WriterSteps, pc'[w] \notin {"idle", "last"},
         pc'[w] \in Mapped => at'[w] # 0,
         pc'[w] \in {"create", "state", "blocks"} => loc'[w].ret \in {"check", "load"},
         pc'[w] \in {"get", "count"} => loc'[w].ret \in {"check", "size", "load"},
         pc'[w] = "remove" => loc'[w].ret = "load",
         \/ loc'[w].idx = 0
         \/ pc'[w] \in {"lock", "notify"} \cup Sending /\ loc'[w].idx < BlockNum[conf'[w]],
         pc'[w] \in Sending => loc'[w].msg \in 1..count'
  PROVE  UserIs(w)' /\ WriterIs(w)'
<1>1. w \in Users
  BY Who
<1>2. pc'[w] # "shut down"
  BY DEF WriterSteps
<1>3. UserIs(w)'
  BY <1>1, <1>2, UserWill
<1>4. WriterIs(w)'
  <2>1. pc'[w] \notin {"lock", "notify"} \cup Sending => loc'[w].idx = 0
    OBVIOUS
  <2> QED BY <2>1 DEF WriterIs, idx
<1> QED BY <1>3, <1>4

LEMMA ReaderGoes ==
  ASSUME Types, NEW r \in Readers, Frame(r), at'[r] \in {0, at[r]} \cup 0..Len(segs'),
         pc'[r] \in ReaderSteps, pc'[r] \notin {"listen", "last", "shut down"},
         pc'[r] \in Mapped => at'[r] # 0,
         pc'[r] \in {"get", "count"} => loc'[r].ret \in {"range", "peek"},
         pc'[r] \in {"take", "read", "release"} => loc'[r].idx < BlockNum[conf'[r]],
         pc'[r] = "take" => loc'[r].lock_num >= 0,
         loc'[r].msg <= count'
  PROVE  UserIs(r)' /\ ReaderIs(r)'
<1>1. r \in Users
  BY Who
<1>2. pc'[r] \in Mapped \ {"count", "range", "peek"} => pc'[r] \in {"take", "read", "release"}
  BY DEF Mapped, ReaderSteps
<1>3. UserIs(r)'
  BY <1>1, <1>2, UserWill
<1>4. ReaderIs(r)'
  BY DEF ReaderIs, idx
<1> QED BY <1>3, <1>4

MineIs1(u) == /\ UserIs(u)' /\ (u \in Writers => WriterIs(u)') /\ (u \in Readers => ReaderIs(u)')

LEMMA OpenerIs ==
  ASSUME Types, NEW u \in Users, OpenOrClose(u)
  PROVE  MineIs1(u)
<1>0. /\ Frame(u) /\ UserIs(u) /\ (u \in Writers => WriterIs(u)) /\ (u \in Readers => ReaderIs(u))
      /\ u \in Writers <=> u \notin Readers
  BY FrameOpen, UsersNow, Who
<1>1. CASE Create(u)
  <2>1. /\ pc[u] = "create" /\ u \in Writers /\ pc'[u] \in {"state", "get"}
        /\ at'[u] \in {at[u], Len(segs')} /\ loc' = loc /\ todo' = todo
        /\ pc'[u] = "state" => at'[u] = Len(segs) + 1 /\ Len(segs') = Len(segs) + 1
    BY <1>1, CreateDoes DEF Moved, IAm
  <2>2. /\ Len(segs) + 1 # 0 /\ Len(segs') \in 0..Len(segs')
    BY Who, <1>0 DEF Frame, MemoryFrame
  <2>3. todo[u] # <<>> /\ loc[u].ret \in {"check", "load"} /\ loc[u].idx = 0
    BY <1>0, <2>1 DEF WriterIs, Sending, idx
  <2>4. UserIs(u)' /\ WriterIs(u)'
    BY <1>0, <2>1, <2>2, <2>3, WriterGoes DEF WriterSteps, Mapped, Sending
  <2> QED BY <1>0, <2>1, <2>4 DEF MineIs1
<1>2. CASE MakeState(u)
  <2>1. /\ pc[u] = "state" /\ u \in Writers /\ pc'[u] = "blocks"
        /\ at'[u] = at[u] /\ at[u] # 0 /\ loc' = loc /\ todo' = todo
    <3>1. pc[u] = "state" /\ u \in Writers /\ Moved(u, at[u], conf[u], "blocks")
      BY <1>2, MakeStateDoes
    <3>2. at[u] # 0
      BY <1>0, <3>1 DEF UserIs, Mapped
    <3> QED BY <1>2, <3>1, <3>2 DEF MakeState, Moved, IAm
  <2>2. todo[u] # <<>> /\ loc[u].ret \in {"check", "load"} /\ loc[u].idx = 0
    BY <1>0, <2>1 DEF WriterIs, Sending, idx
  <2>3. UserIs(u)' /\ WriterIs(u)'
    BY <1>0, <2>1, <2>2, WriterGoes DEF WriterSteps, Mapped, Sending
  <2> QED BY <1>0, <2>1, <2>3 DEF MineIs1
<1>3. CASE MakeBlocks(u)
  <2>1. /\ pc[u] = "blocks" /\ u \in Writers /\ pc'[u] = "count"
        /\ at'[u] = at[u] /\ at[u] # 0 /\ loc' = loc /\ todo' = todo
    BY <1>3, MakeBlocksDoes DEF Moved, IAm
  <2>2. todo[u] # <<>> /\ loc[u].ret \in {"check", "load"} /\ loc[u].idx = 0
    BY <1>0, <2>1 DEF WriterIs, Sending, idx
  <2>3. UserIs(u)' /\ WriterIs(u)'
    BY <1>0, <2>1, <2>2, WriterGoes DEF WriterSteps, Mapped, Sending
  <2> QED BY <1>0, <2>1, <2>3 DEF MineIs1
<1>4. CASE Get(u)
  <2>1. CASE Return(u) /\ UNCHANGED <<at, conf>>
    BY <1>0, <1>4, <2>1, GetDoes, WriterHome, ReaderHome DEF MineIs1
  <2>2. CASE pc'[u] \in {"count", "size"} /\ UNCHANGED <<loc, todo>> /\ at'[u] \in {key, at[u]}
             /\ (pc'[u] = "count" => at'[u] # 0) /\ (pc'[u] = "size" => u \in Writers)
    <3>1. at'[u] \in {0, at[u]} \cup 0..Len(segs')
      <4>1. UNCHANGED segs
        BY <1>4, GetDoes DEF memory
      <4> QED BY <2>2, <4>1, Who
    <3>2. pc[u] = "get"
      BY <1>4, GetDoes
    <3>3. CASE u \in Writers
      <4>1. todo[u] # <<>> /\ loc[u].ret \in {"check", "size", "load"} /\ loc[u].idx = 0
        BY <1>0, <3>2, <3>3 DEF WriterIs, Sending, idx
      <4>2. UserIs(u)' /\ WriterIs(u)'
        BY <1>0, <2>2, <3>1, <3>3, <4>1, WriterGoes DEF WriterSteps, Mapped, Sending
      <4> QED BY <1>0, <3>3, <4>2 DEF MineIs1
    <3>4. CASE u \in Readers
      <4>1. loc[u].ret \in {"range", "peek"}
        BY <1>0, <3>2, <3>4 DEF ReaderIs
      <4>2. loc'[u].msg <= count' /\ pc'[u] = "count" /\ loc' = loc
        BY <1>0, <2>2, <3>4, Hears
      <4>3. UserIs(u)' /\ ReaderIs(u)'
        BY <1>0, <2>2, <3>1, <3>4, <4>1, <4>2, ReaderGoes DEF ReaderSteps, Mapped
      <4> QED BY <1>0, <3>4, <4>3 DEF MineIs1
    <3> QED BY <3>3, <3>4 DEF Users
  <2>3. \/ Return(u) /\ UNCHANGED <<at, conf>>
        \/ pc'[u] \in {"count", "size"} /\ UNCHANGED <<loc, todo>> /\ at'[u] \in {key, at[u]}
           /\ (pc'[u] = "count" => at'[u] # 0) /\ (pc'[u] = "size" => u \in Writers)
    BY <1>4, GetDoes DEF Moved, IAm
  <2> QED BY <2>1, <2>2, <2>3
<1>5. CASE IncreaseReferenceCounts(u)
  <2>1. /\ pc[u] = "count" /\ pc'[u] = loc[u].ret /\ at'[u] = at[u] /\ at[u] # 0
        /\ loc'[u].idx = loc[u].idx /\ loc'[u].msg = loc[u].msg /\ todo' = todo
        /\ u \in Writers => loc[u].ret \in {"check", "size", "load"}
        /\ u \in Readers => loc[u].ret \in {"range", "peek"}
    BY <1>5, CountDoes DEF Moved, IAm, Local1, MyLocals
  <2>2. CASE u \in Writers
    <3>1. todo[u] # <<>> /\ loc[u].idx = 0
      BY <1>0, <2>1, <2>2 DEF WriterIs, Sending, idx
    <3>2. pc'[u] \in {"check", "size", "load"}
      BY <2>1, <2>2
    <3>3. UserIs(u)' /\ WriterIs(u)'
      BY <1>0, <2>1, <2>2, <3>1, <3>2, WriterGoes DEF WriterSteps, Mapped, Sending
    <3> QED BY <1>0, <2>2, <3>3 DEF MineIs1
  <2>3. CASE u \in Readers
    <3>1. loc'[u].msg <= count' /\ pc'[u] \in {"range", "peek"}
      BY <1>0, <2>1, <2>3, Hears
    <3>2. UserIs(u)' /\ ReaderIs(u)'
      BY <1>0, <2>1, <2>3, <3>1, ReaderGoes DEF ReaderSteps, Mapped
    <3> QED BY <1>0, <2>3, <3>2 DEF MineIs1
  <2> QED BY <2>2, <2>3 DEF Users
<1>6. CASE Destroy(u) \/ Last(u)
  <2>1. /\ pc[u] \in {"idle", "listen", "last"} /\ at'[u] \in {0, at[u]} /\ loc' = loc
        /\ \/ pc'[u] = "last" /\ at'[u] # 0 /\ left' = TRUE
           \/ pc'[u] = "idle" /\ u \in Writers
           \/ pc'[u] = "shut down" /\ pc[u] = "last" /\ left' = left /\ u \notin Writers
    <3>1. CASE Destroy(u)
      <4>1. /\ pc[u] \in {"idle", "listen"} /\ at[u] # 0 /\ loc' = loc /\ left' = TRUE
        BY <3>1 DEF Destroy
      <4>2. Moved(u, at[u], conf[u], "last")
        BY <3>1, DestroyDoes
      <4> QED BY <4>1, <4>2 DEF Moved, IAm
    <3>2. CASE Last(u)
      <4>1. pc[u] = "last" /\ loc' = loc /\ left' = left
        BY <3>2 DEF Last, At, history
      <4>2. Moved(u, 0, GetCeilingMessageSize(0), IF u \in Writers THEN "idle" ELSE "shut down")
        BY <3>2, LastDoes
      <4>3. at'[u] = 0 /\ pc'[u] = IF u \in Writers THEN "idle" ELSE "shut down"
        BY <4>2 DEF Moved, IAm
      <4> QED BY <4>1, <4>3
    <3> QED BY <1>6, <3>1, <3>2
  <2>2. loc[u].idx = 0
    <3>1. CASE u \in Writers
      BY <1>0, <2>1, <3>1 DEF WriterIs, Sending, idx
    <3>2. CASE u \in Readers
      BY <1>0, <2>1, <3>2 DEF ReaderIs, ReaderSteps, idx
    <3> QED BY <3>1, <3>2 DEF Users
  <2>3. ~left' => pc'[u] = "idle"
    <3>1. ~left => pc[u] # "last"
      BY <1>0 DEF UserIs
    <3>2. CASE pc'[u] = "last" /\ left' = TRUE
      BY <3>2
    <3>3. CASE pc[u] = "last" /\ left' = left
      BY <3>1, <3>3
    <3> QED BY <2>1, <3>2, <3>3
  <2>4. at'[u] \in 0..Len(segs') /\ idx(u)' < block_num(u)'
    <3>1. at[u] \in 0..Len(segs) /\ Len(segs) \in Nat /\ Len(segs') \in Nat
          /\ Len(segs) <= Len(segs')
      BY <1>0, Who DEF Frame, MemoryFrame
    <3>2. at[u] \in 0..Len(segs') /\ 0 \in 0..Len(segs')
      BY <3>1, Within
    <3>3. conf'[u] \in Ceilings
      BY <1>0 DEF Frame, UsersFrame
    <3>4. BlockNum[conf'[u]] \in Nat \ {0}
      BY <3>3, Layouts
    <3> QED BY <2>1, <2>2, <3>2, <3>4, Within DEF idx, block_num
  <2>5. UserIs(u)'
    BY <2>1, <2>3, <2>4 DEF UserIs, Mapped
  <2>6. CASE u \in Writers
    <3>1. WriterIs(u)'
      BY <2>1, <2>2, <2>6 DEF WriterIs, WriterSteps, Sending, idx
    <3> QED BY <1>0, <2>5, <2>6, <3>1 DEF MineIs1
  <2>7. CASE u \in Readers
    <3>1. loc'[u].msg <= count'
      BY <1>0, <2>1, <2>7, Hears
    <3>2. pc'[u] \in {"last", "shut down"}
      BY <1>0, <2>1, <2>7
    <3>3. ReaderIs(u)'
      BY <2>1, <2>2, <3>1, <3>2 DEF ReaderIs, ReaderSteps, idx
    <3> QED BY <1>0, <2>5, <2>7, <3>3 DEF MineIs1
  <2> QED BY <2>6, <2>7 DEF Users
<1> QED BY <1>1, <1>2, <1>3, <1>4, <1>5, <1>6 DEF OpenOrClose

LEMMA WriterWrites ==
  ASSUME Types, NEW w \in Writers, Write(w)
  PROVE  UserIs(w)' /\ WriterIs(w)'
<1>0. Frame(w) /\ UserIs(w) /\ WriterIs(w) /\ w \in Users /\ (pc[w] \in Mapped => at[w] # 0)
  BY FrameWrite, UsersNow, Who DEF UserIs
<1>1. CASE Transmit(w)
  <2>1. /\ pc[w] = "idle" /\ todo[w] # <<>> /\ at'[w] = at[w] /\ todo' = todo
        /\ loc'[w].idx = loc[w].idx
        /\ \/ pc'[w] = "create" /\ loc'[w].ret = "check"
           \/ pc'[w] = "check" /\ at[w] # 0
    BY <1>1, TransmitDoes DEF Moved, IAm, Local1, MyLocals
  <2>2. loc[w].idx = 0
    BY <1>0, <2>1 DEF WriterIs, Sending, idx, Mapped
  <2> QED BY <1>0, <2>1, <2>2, WriterGoes DEF WriterSteps, Mapped, Sending
<1>2. CASE Check(w)
  <2>1. /\ pc[w] = "check" /\ at'[w] \in {0, at[w]} /\ todo' = todo
        /\ loc'[w].idx = loc[w].idx
        /\ (pc'[w] = "get" /\ loc'[w].ret = "size") \/ pc'[w] = "size"
    BY <1>2, CheckDoes DEF Moved, IAm, Local1, MyLocals
  <2>2. loc[w].idx = 0 /\ todo[w] # <<>>
    BY <1>0, <2>1 DEF WriterIs, Sending, idx, Mapped
  <2> QED BY <1>0, <2>1, <2>2, WriterGoes DEF WriterSteps, Mapped, Sending
<1>3. CASE RemoveSegment(w)
  <2>1. /\ pc[w] = "remove" /\ at'[w] = at[w] /\ todo' = todo /\ loc' = loc
        /\ pc'[w] = "create"
    BY <1>3, RemoveDoes DEF Moved, IAm, Local1, MyLocals
  <2>2. loc[w].idx = 0 /\ todo[w] # <<>> /\ loc[w].ret = "load"
    BY <1>0, <2>1 DEF WriterIs, Sending, idx, Mapped
  <2> QED BY <1>0, <2>1, <2>2, WriterGoes DEF WriterSteps, Mapped, Sending
<1>4. CASE Load(w)
  <2>1. /\ pc[w] = "load" /\ at'[w] = at[w] /\ conf'[w] = conf[w] /\ todo' = todo
        /\ pc'[w] = "lock"
    BY <1>4, LoadDoes DEF Moved, IAm
  <2>2. todo[w] # <<>> /\ at[w] # 0
    BY <1>0, <2>1 DEF WriterIs, Mapped
  <2>3. loc'[w].idx < BlockNum[conf'[w]]
    <3>1. PICK i \in 0..(block_num(w) - 1) : loc'[w].idx = i
      BY <1>4, LoadDoes DEF Local1, MyLocals
    <3>2. block_num(w) \in Nat \ {0} /\ block_num(w) = BlockNum[conf'[w]]
      BY <1>0, <2>1, Who DEF block_num
    <3> QED BY <3>1, <3>2
  <2> QED BY <1>0, <2>1, <2>2, <2>3, WriterGoes DEF WriterSteps, Mapped, Sending
<1>5. CASE Lock(w)
  <2>1. /\ pc[w] = "lock" /\ at'[w] = at[w] /\ conf'[w] = conf[w] /\ todo' = todo
        /\ \/ /\ pc'[w] = "bump" /\ count' = count + 1
              /\ loc'[w].idx = loc[w].idx /\ loc'[w].msg = count + 1
           \/ pc'[w] = "lock" /\ \E i \in 0..(block_num(w) - 1) : loc'[w].idx = i
    BY <1>5, LockDoes DEF Moved, IAm, Local1, MyLocals
  <2>2. todo[w] # <<>> /\ at[w] # 0 /\ loc[w].idx < BlockNum[conf[w]]
    BY <1>0, <2>1 DEF UserIs, WriterIs, Mapped, idx, block_num
  <2>3. pc'[w] = "bump" => loc'[w].msg \in 1..count'
    <3>1. pc'[w] = "bump" => loc'[w].msg = count + 1 /\ count' = count + 1
      BY <2>1
    <3>2. count \in Nat
      BY Typed
    <3> QED BY <3>1, <3>2
  <2>4. loc'[w].idx < BlockNum[conf'[w]]
    <3>1. block_num(w) \in Nat \ {0} /\ block_num(w) = BlockNum[conf'[w]]
      BY <1>0, <2>1, Who DEF block_num
    <3>2. loc'[w].idx = loc[w].idx \/ loc'[w].idx \in 0..(block_num(w) - 1)
      BY <2>1
    <3>3. loc[w].idx < block_num(w)
      BY <2>2 DEF block_num
    <3> QED BY <3>1, <3>2, <3>3
  <2> QED BY <1>0, <2>1, <2>2, <2>3, <2>4, WriterGoes DEF WriterSteps, Mapped, Sending
<1>6. CASE IncreaseWroteNum(w)
  <2>1. /\ pc[w] = "bump" /\ Moved(w, at[w], conf[w], "fill") /\ todo' = todo /\ loc' = loc
    BY <1>6, BumpDoes
  <2>2. at'[w] = at[w] /\ conf'[w] = conf[w] /\ pc'[w] = "fill"
    BY <2>1 DEF Moved, IAm
  <2>3. todo[w] # <<>> /\ at[w] # 0 /\ loc[w].idx < BlockNum[conf[w]]
    BY <1>0, <2>1 DEF UserIs, WriterIs, Mapped, idx, block_num
  <2>4. loc'[w].msg \in 1..count'
    BY <1>0, <2>1, Sends DEF Sending
  <2> QED BY <1>0, <2>1, <2>2, <2>3, <2>4, WriterGoes DEF WriterSteps, Mapped, Sending
<1>7. CASE Fill(w)
  <2>1. /\ pc[w] = "fill" /\ Moved(w, at[w], conf[w], "filled") /\ todo' = todo /\ loc' = loc
    BY <1>7, FillDoes
  <2>2. at'[w] = at[w] /\ conf'[w] = conf[w] /\ pc'[w] = "filled"
    BY <2>1 DEF Moved, IAm
  <2>3. todo[w] # <<>> /\ at[w] # 0 /\ loc[w].idx < BlockNum[conf[w]]
    BY <1>0, <2>1 DEF UserIs, WriterIs, Mapped, idx, block_num
  <2>4. loc'[w].msg \in 1..count'
    BY <1>0, <2>1, Sends DEF Sending
  <2> QED BY <1>0, <2>1, <2>2, <2>3, <2>4, WriterGoes DEF WriterSteps, Mapped, Sending
<1>8. CASE Filled(w)
  <2>1. /\ pc[w] = "filled" /\ Moved(w, at[w], conf[w], "written") /\ todo' = todo /\ loc' = loc
    BY <1>8, FilledDoes
  <2>2. at'[w] = at[w] /\ conf'[w] = conf[w] /\ pc'[w] = "written"
    BY <2>1 DEF Moved, IAm
  <2>3. todo[w] # <<>> /\ at[w] # 0 /\ loc[w].idx < BlockNum[conf[w]]
    BY <1>0, <2>1 DEF UserIs, WriterIs, Mapped, idx, block_num
  <2>4. loc'[w].msg \in 1..count'
    BY <1>0, <2>1, Sends DEF Sending
  <2> QED BY <1>0, <2>1, <2>2, <2>3, <2>4, WriterGoes DEF WriterSteps, Mapped, Sending
<1>9. CASE ReleaseWrittenBlock(w)
  <2>1. /\ pc[w] = "written" /\ Moved(w, at[w], conf[w], "notify") /\ todo' = todo /\ loc' = loc
    BY <1>9, WrittenDoes
  <2>2. at'[w] = at[w] /\ conf'[w] = conf[w] /\ pc'[w] = "notify"
    BY <2>1 DEF Moved, IAm
  <2>3. todo[w] # <<>> /\ at[w] # 0 /\ loc[w].idx < BlockNum[conf[w]]
    BY <1>0, <2>1 DEF UserIs, WriterIs, Mapped, idx, block_num
  <2>4. loc'[w].msg \in 1..count'
    BY <1>0, <2>1, Sends DEF Sending
  <2> QED BY <1>0, <2>1, <2>2, <2>3, <2>4, WriterGoes DEF WriterSteps, Mapped, Sending
<1>10. CASE Refuse(w)
  BY <1>0, <1>10, RefuseDoes, WriterHome
<1>11. CASE Notify(w)
  BY <1>0, <1>11, NotifyDoes, WriterHome
<1> QED BY <1>1, <1>2, <1>3, <1>4, <1>5, <1>6, <1>7, <1>8, <1>9, <1>10, <1>11 DEF Write

LEMMA WriterSizes ==
  ASSUME Types, NEW w \in Writers, Size(w)
  PROVE  UserIs(w)' /\ WriterIs(w)'
<1>0. Frame(w) /\ WriterIs(w) /\ UserIs(w) /\ w \in Users /\ pc[w] = "size"
  BY FrameSize, UsersNow, Who, SizeDoes
<1>1. todo[w] # <<>> /\ loc[w].idx = 0
  BY <1>0 DEF WriterIs, Sending, idx
<1>2. CASE Return(w) /\ UNCHANGED <<at, conf>>
  BY <1>0, <1>2, WriterHome
<1>3. CASE UNCHANGED <<at, conf, pc, loc, todo>>
  BY <1>0, <1>1, <1>3, WriterGoes DEF WriterSteps, Mapped, Sending
<1>4. CASE /\ todo' = todo /\ loc'[w].idx = loc[w].idx /\ at'[w] \in {0, at[w]}
           /\ (pc'[w] = "remove" /\ loc'[w].ret = "load") \/ (pc'[w] = "load" /\ at'[w] # 0)
  BY <1>0, <1>1, <1>4, WriterGoes DEF WriterSteps, Mapped, Sending
<1> QED BY <1>2, <1>3, <1>4, SizeDoes DEF Moved, IAm, Local1, MyLocals

LEMMA ReaderReads ==
  ASSUME Types, NEW r \in Readers, Read(r)
  PROVE  UserIs(r)' /\ ReaderIs(r)'
<1>0. /\ Frame(r) /\ UserIs(r) /\ ReaderIs(r) /\ r \in Users /\ r \notin Writers
      /\ pc[r] \in Mapped => at[r] # 0
  BY FrameRead, UsersNow, Who DEF UserIs
<1>1. CASE Listen(r)
  <2>1. PICK info \in infos : loc'[r].msg = info.msg
    BY <1>1, ListenDoes DEF Local1, MyLocals
  <2>2. loc'[r].msg <= count'
    <3>1. infos \subseteq [block_index : Index, msg : 1..count] /\ count \in Nat
      BY DEF Types, TypeOK, Shapes
    <3>2. info.msg \in 1..count
      BY <3>1
    <3>3. count' = count
      BY <1>1, ListenDoes DEF history
    <3> QED BY <2>1, <3>1, <3>2, <3>3
  <2>3. /\ at'[r] = at[r]
        /\ \/ at[r] = 0 /\ pc'[r] = "get" /\ loc'[r].ret = "range"
           \/ at[r] # 0 /\ pc'[r] = "range"
    BY <1>1, ListenDoes DEF Moved, IAm
  <2> QED BY <1>0, <2>2, <2>3, ReaderGoes DEF ReaderSteps, Mapped
<1>2. CASE CheckIndex(r)
  <2>1. CASE Return(r) /\ UNCHANGED at
    BY <1>0, <1>2, <2>1, CheckIndexDoes, ReaderHome
  <2>2. CASE /\ at'[r] \in {0, at[r]} /\ loc'[r].msg = loc[r].msg
             /\ \/ pc'[r] = "get" /\ loc'[r].ret = "peek"
                \/ pc'[r] = "peek" /\ at'[r] # 0
    <3>1. loc'[r].msg <= count'
      BY <1>0, <2>2, Hears
    <3> QED BY <1>0, <2>2, <3>1, ReaderGoes DEF ReaderSteps, Mapped
  <2>3. pc[r] = "range" /\ at[r] # 0
    BY <1>0, <1>2, CheckIndexDoes DEF Mapped
  <2> QED BY <1>2, <2>1, <2>2, <2>3, CheckIndexDoes DEF Moved, IAm, Local1, MyLocals
<1>3. CASE Peek(r)
  <2>1. CASE Return(r)
    BY <1>0, <1>3, <2>1, PeekDoes, ReaderHome
  <2>2. CASE ~Return(r)
    <3>1. /\ pc[r] = "peek" /\ loc[r].idx < BlockNum[conf[r]] /\ pc'[r] = "take"
          /\ at'[r] = at[r] /\ conf'[r] = conf[r] /\ loc'[r].lock_num >= 0
          /\ loc'[r].msg = loc[r].msg /\ loc'[r].idx = loc[r].idx
      BY <1>3, <2>2, PeekDoes DEF Moved, IAm, Local1, MyLocals, idx, block_num
    <3>2. loc'[r].msg <= count'
      BY <1>0, <3>1, Hears
    <3> QED BY <1>0, <3>1, <3>2, ReaderGoes DEF ReaderSteps, Mapped
  <2> QED BY <2>1, <2>2
<1>4. CASE Stray(r)
  BY <1>0, <1>4, StrayDoes, ReaderHome
<1>5. CASE Take(r)
  <2>1. CASE Return(r)
    <3>1. UNCHANGED <<at, conf>>
      BY <1>5 DEF Take
    <3> QED BY <1>0, <2>1, <3>1, ReaderHome
  <2>2. CASE ~Return(r)
    <3>1. /\ pc[r] = "take" /\ pc'[r] \in {"read", "peek"} /\ at'[r] = at[r]
          /\ conf'[r] = conf[r] /\ loc'[r].msg = loc[r].msg /\ loc'[r].idx = loc[r].idx
      BY <1>5, <2>2, TakeDoes DEF Moved, IAm, Local1, MyLocals
    <3>2. loc'[r].msg <= count'
      BY <1>0, <3>1, Hears
    <3>3. loc[r].idx < BlockNum[conf[r]]
      BY <1>0, <3>1 DEF UserIs, Mapped, idx, block_num
    <3> QED BY <1>0, <3>1, <3>2, <3>3, ReaderGoes DEF ReaderSteps, Mapped
  <2> QED BY <2>1, <2>2
<1>6. CASE ReadMessage(r)
  <2>1. /\ pc[r] = "read" /\ pc'[r] = "release" /\ at'[r] = at[r]
        /\ conf'[r] = conf[r] /\ loc'[r].msg = loc[r].msg /\ loc'[r].idx = loc[r].idx
    BY <1>6, ReadDoes DEF Moved, IAm, Local1, MyLocals
  <2>2. loc'[r].msg <= count'
    BY <1>0, <2>1, Hears
  <2>3. loc[r].idx < BlockNum[conf[r]]
    BY <1>0, <2>1 DEF UserIs, Mapped, idx, block_num
  <2> QED BY <1>0, <2>1, <2>2, <2>3, ReaderGoes DEF ReaderSteps, Mapped
<1>7. CASE ReleaseReadBlock(r)
  BY <1>0, <1>7, ReleaseDoes, ReaderHome
<1> QED BY <1>1, <1>2, <1>3, <1>4, <1>5, <1>6, <1>7 DEF Read

-----------------------------------------------------------------------------
(* Which step writes which part of the shared memory *)

MarksKept == Len(segs') = Len(segs)
             /\ \A s \in 1..Len(segs) : segs'[s].need_remap = segs[s].need_remap
NumsKept == Len(segs') = Len(segs)
            /\ \A s \in 1..Len(segs) : segs'[s].wrote_num = segs[s].wrote_num
CeilingsKept == Len(segs') = Len(segs)
                /\ \A s \in 1..Len(segs) : segs'[s].ceiling = segs[s].ceiling
LocksKept == Len(segs') = Len(segs)
             /\ \A s \in 1..Len(segs) : segs'[s].lock = segs[s].lock
DataKept == Len(segs') = Len(segs)
            /\ \A s \in 1..Len(segs) : segs'[s].data = segs[s].data

LEMMA Kept ==
  ASSUME NEW u \in Users, OnlyMine(u)
  PROVE  /\ segs'[at[u]].need_remap = mine(u).need_remap => MarksKept
         /\ segs'[at[u]].wrote_num = mine(u).wrote_num => NumsKept
         /\ segs'[at[u]].ceiling = mine(u).ceiling => CeilingsKept
         /\ segs'[at[u]].lock = mine(u).lock => LocksKept
         /\ segs'[at[u]].data = mine(u).data => DataKept
BY DEF OnlyMine, MarksKept, NumsKept, CeilingsKept, LocksKept, DataKept, mine

LEMMA AllKept ==
  ASSUME UNCHANGED segs
  PROVE  MarksKept /\ NumsKept /\ CeilingsKept /\ LocksKept /\ DataKept
BY DEF MarksKept, NumsKept, CeilingsKept, LocksKept, DataKept

LEMMA OpenKeeps ==
  ASSUME Types, NEW u \in Users, OpenOrClose(u)
  PROVE  /\ Create(u) \/ MakeState(u) \/ (MarksKept /\ NumsKept /\ CeilingsKept)
         /\ Create(u) \/ MakeBlocks(u) \/ LocksKept
         /\ Create(u) \/ DataKept
<1>1. CASE Create(u)
  BY <1>1
<1>2. CASE MakeState(u)
  <2>1. /\ OnlyMine(u)
        /\ segs'[at[u]].lock = mine(u).lock
        /\ segs'[at[u]].data = mine(u).data
    BY <1>2, MakeStateDoes DEF Memory1, MineIs
  <2> QED BY <1>2, <2>1, Kept
<1>3. CASE MakeBlocks(u)
  <2>1. /\ OnlyMine(u)
        /\ segs'[at[u]].need_remap = mine(u).need_remap
        /\ segs'[at[u]].wrote_num = mine(u).wrote_num
        /\ segs'[at[u]].ceiling = mine(u).ceiling
        /\ segs'[at[u]].data = mine(u).data
    BY <1>3, MakeBlocksDoes DEF Memory1, MineIs
  <2> QED BY <1>3, <2>1, Kept
<1>4. CASE Get(u)
  BY <1>4, GetDoes, AllKept DEF memory
<1>5. CASE IncreaseReferenceCounts(u)
  <2>1. /\ OnlyMine(u)
        /\ segs'[at[u]].need_remap = mine(u).need_remap
        /\ segs'[at[u]].wrote_num = mine(u).wrote_num
        /\ segs'[at[u]].ceiling = mine(u).ceiling
        /\ segs'[at[u]].lock = mine(u).lock
        /\ segs'[at[u]].data = mine(u).data
    BY <1>5, CountDoes DEF Memory1, MineIs
  <2> QED BY <1>5, <2>1, Kept
<1>6. CASE Destroy(u)
  <2>1. /\ OnlyMine(u)
        /\ segs'[at[u]].need_remap = mine(u).need_remap
        /\ segs'[at[u]].wrote_num = mine(u).wrote_num
        /\ segs'[at[u]].ceiling = mine(u).ceiling
        /\ segs'[at[u]].lock = mine(u).lock
        /\ segs'[at[u]].data = mine(u).data
    BY <1>6, DestroyDoes DEF Memory1, MineIs
  <2> QED BY <1>6, <2>1, Kept
<1>7. CASE Last(u)
  BY <1>7, LastDoes, AllKept DEF memory
<1> QED BY <1>1, <1>2, <1>3, <1>4, <1>5, <1>6, <1>7 DEF OpenOrClose

LEMMA WriteKeeps ==
  ASSUME Types, NEW w \in Writers, Write(w)
  PROVE  /\ MarksKept /\ CeilingsKept
         /\ IncreaseWroteNum(w) \/ NumsKept
         /\ Lock(w) \/ Refuse(w) \/ ReleaseWrittenBlock(w) \/ LocksKept
         /\ Fill(w) \/ Filled(w) \/ DataKept
<1>1. CASE Transmit(w)
  BY <1>1, TransmitDoes, AllKept DEF memory
<1>2. CASE Check(w)
  BY <1>2, CheckDoes, AllKept DEF memory
<1>3. CASE RemoveSegment(w)
  BY <1>3, RemoveDoes, AllKept DEF memory
<1>4. CASE Load(w)
  BY <1>4, LoadDoes, AllKept DEF memory
<1>5. CASE Lock(w)
  <2>1. \/ UNCHANGED segs
        \/ /\ OnlyMine(w)
           /\ segs'[at[w]].need_remap = mine(w).need_remap
           /\ segs'[at[w]].wrote_num = mine(w).wrote_num
           /\ segs'[at[w]].ceiling = mine(w).ceiling
           /\ segs'[at[w]].data = mine(w).data
    BY <1>5, LockDoes DEF Memory1, MineIs
  <2> QED BY <1>5, <2>1, Kept, AllKept, Who
<1>6. CASE IncreaseWroteNum(w)
  <2>1. /\ OnlyMine(w)
        /\ segs'[at[w]].need_remap = mine(w).need_remap
        /\ segs'[at[w]].ceiling = mine(w).ceiling
        /\ segs'[at[w]].lock = mine(w).lock
        /\ segs'[at[w]].data = mine(w).data
    BY <1>6, BumpDoes DEF Memory1, MineIs
  <2> QED BY <1>6, <2>1, Kept, Who
<1>7. CASE Fill(w)
  <2>1. /\ OnlyMine(w)
        /\ segs'[at[w]].need_remap = mine(w).need_remap
        /\ segs'[at[w]].wrote_num = mine(w).wrote_num
        /\ segs'[at[w]].ceiling = mine(w).ceiling
        /\ segs'[at[w]].lock = mine(w).lock
    BY <1>7, FillDoes DEF Memory1, MineIs
  <2> QED BY <1>7, <2>1, Kept, Who
<1>8. CASE Refuse(w)
  <2>1. /\ OnlyMine(w)
        /\ segs'[at[w]].need_remap = mine(w).need_remap
        /\ segs'[at[w]].wrote_num = mine(w).wrote_num
        /\ segs'[at[w]].ceiling = mine(w).ceiling
        /\ segs'[at[w]].data = mine(w).data
    BY <1>8, RefuseDoes DEF Memory1, MineIs
  <2> QED BY <1>8, <2>1, Kept, Who
<1>9. CASE Filled(w)
  <2>1. /\ OnlyMine(w)
        /\ segs'[at[w]].need_remap = mine(w).need_remap
        /\ segs'[at[w]].wrote_num = mine(w).wrote_num
        /\ segs'[at[w]].ceiling = mine(w).ceiling
        /\ segs'[at[w]].lock = mine(w).lock
    BY <1>9, FilledDoes DEF Memory1, MineIs
  <2> QED BY <1>9, <2>1, Kept, Who
<1>10. CASE ReleaseWrittenBlock(w)
  <2>1. /\ OnlyMine(w)
        /\ segs'[at[w]].need_remap = mine(w).need_remap
        /\ segs'[at[w]].wrote_num = mine(w).wrote_num
        /\ segs'[at[w]].ceiling = mine(w).ceiling
        /\ segs'[at[w]].data = mine(w).data
    BY <1>10, WrittenDoes DEF Memory1, MineIs
  <2> QED BY <1>10, <2>1, Kept, Who
<1>11. CASE Notify(w)
  BY <1>11, NotifyDoes, AllKept DEF memory
<1> QED BY <1>1, <1>2, <1>3, <1>4, <1>5, <1>6, <1>7, <1>8, <1>9, <1>10, <1>11 DEF Write

LEMMA SizeKeeps ==
  ASSUME Types, NEW w \in Writers, Size(w)
  PROVE  NumsKept /\ CeilingsKept /\ LocksKept /\ DataKept
<1>1. \/ UNCHANGED segs
      \/ /\ OnlyMine(w)
         /\ segs'[at[w]].wrote_num = mine(w).wrote_num /\ segs'[at[w]].ceiling = mine(w).ceiling
         /\ segs'[at[w]].lock = mine(w).lock /\ segs'[at[w]].data = mine(w).data
  BY SizeDoes DEF Memory1, MineIs
<1> QED BY <1>1, Kept, AllKept, Who

LEMMA ReadKeeps ==
  ASSUME Types, NEW r \in Readers, Read(r)
  PROVE  /\ MarksKept /\ NumsKept /\ CeilingsKept
         /\ Take(r) \/ ReleaseReadBlock(r) \/ LocksKept
         /\ Stray(r) \/ DataKept
<1>1. CASE Listen(r)
  BY <1>1, ListenDoes, AllKept DEF memory
<1>2. CASE CheckIndex(r)
  BY <1>2, CheckIndexDoes, AllKept DEF memory
<1>3. CASE Peek(r)
  BY <1>3, PeekDoes, AllKept DEF memory
<1>4. CASE Stray(r)
  <2>1. \/ UNCHANGED segs
        \/ /\ OnlyMine(r)
           /\ segs'[at[r]].need_remap = mine(r).need_remap
           /\ segs'[at[r]].wrote_num = mine(r).wrote_num
           /\ segs'[at[r]].ceiling = mine(r).ceiling
           /\ segs'[at[r]].lock = mine(r).lock
    BY <1>4, StrayDoes DEF Memory1, MineIs
  <2> QED BY <1>4, <2>1, Kept, AllKept, Who
<1>5. CASE Take(r)
  <2>1. \/ UNCHANGED segs
        \/ /\ OnlyMine(r)
           /\ segs'[at[r]].need_remap = mine(r).need_remap
           /\ segs'[at[r]].wrote_num = mine(r).wrote_num
           /\ segs'[at[r]].ceiling = mine(r).ceiling
           /\ segs'[at[r]].data = mine(r).data
    BY <1>5, TakeDoes DEF Memory1, MineIs
  <2> QED BY <1>5, <2>1, Kept, AllKept, Who
<1>6. CASE ReadMessage(r)
  BY <1>6, ReadDoes, AllKept DEF memory
<1>7. CASE ReleaseReadBlock(r)
  <2>1. /\ OnlyMine(r)
        /\ segs'[at[r]].need_remap = mine(r).need_remap
        /\ segs'[at[r]].wrote_num = mine(r).wrote_num
        /\ segs'[at[r]].ceiling = mine(r).ceiling
        /\ segs'[at[r]].data = mine(r).data
    BY <1>7, ReleaseDoes DEF Memory1, MineIs
  <2> QED BY <1>7, <2>1, Kept, Who
<1> QED BY <1>1, <1>2, <1>3, <1>4, <1>5, <1>6, <1>7 DEF Read

\* A living user takes a step, dies, or nothing happens.
LEMMA Someone ==
  ASSUME Types, [Next]_vars
  PROVE  \/ \E u \in Users \ dead : OpenOrClose(u) /\ UNCHANGED dead
         \/ \E w \in Writers \ dead : Write(w) /\ UNCHANGED dead
         \/ \E w \in Writers \ dead : Size(w)
         \/ \E r \in Readers \ dead : Read(r) /\ UNCHANGED dead
         \/ /\ UNCHANGED <<memory, users, infos, count, spoiled, came, left>>
            /\ dead' = dead \/ \E u \in Users : dead' = dead \cup {u}
BY DEF Next, Die, vars, history

LEMMA Framed ==
  ASSUME Types, [Next]_vars
  PROVE  \/ \E u \in Users : /\ Frame(u)
                             /\ UserIs(u)' /\ (u \in Writers => WriterIs(u)')
                             /\ (u \in Readers => ReaderIs(u)')
         \/ UNCHANGED <<memory, users, infos, count, spoiled, came, left>>
<1>1. CASE \E u \in Users \ dead : OpenOrClose(u) /\ UNCHANGED dead
  BY <1>1, FrameOpen, OpenerIs DEF MineIs1
<1>2. CASE \E w \in Writers \ dead : Write(w) /\ UNCHANGED dead
  BY <1>2, FrameWrite, WriterWrites, Who
<1>3. CASE \E w \in Writers \ dead : Size(w)
  BY <1>3, FrameSize, WriterSizes, Who
<1>4. CASE \E r \in Readers \ dead : Read(r) /\ UNCHANGED dead
  BY <1>4, FrameRead, ReaderReads, Who
<1> QED BY <1>1, <1>2, <1>3, <1>4, Someone

LEMMA UsersNext ==
  ASSUME Types, [Next]_vars
  PROVE  /\ \A u \in Users : UserIs(u)'
         /\ \A w \in Writers : WriterIs(w)'
         /\ \A r \in Readers : ReaderIs(r)'
<1>1. CASE UNCHANGED <<memory, users, infos, count, spoiled, came, left>>
  <2>1. ASSUME NEW u \in Users PROVE UserIs(u)'
    <3>1. UserIs(u)
      BY <2>1, UsersNow
    <3> QED BY <1>1, <3>1 DEF UserIs, idx, block_num, memory, users
  <2>2. ASSUME NEW w \in Writers PROVE WriterIs(w)'
    <3>1. WriterIs(w)
      BY <2>2, UsersNow
    <3> QED BY <1>1, <3>1 DEF WriterIs, idx, memory, users
  <2>3. ASSUME NEW r \in Readers PROVE ReaderIs(r)'
    <3>1. ReaderIs(r)
      BY <2>3, UsersNow
    <3> QED BY <1>1, <3>1 DEF ReaderIs, idx, memory, users
  <2> QED BY <2>1, <2>2, <2>3
<1>2. ASSUME NEW u \in Users, Frame(u), UserIs(u)', u \in Writers => WriterIs(u)',
             u \in Readers => ReaderIs(u)'
      PROVE  /\ \A v \in Users : UserIs(v)'
             /\ \A w \in Writers : WriterIs(w)'
             /\ \A r \in Readers : ReaderIs(r)'
  BY <1>2, OthersAre
<1> QED BY <1>1, <1>2, Framed

-----------------------------------------------------------------------------
(* The number of messages in a segment *)

Bumping(s) == {u \in Users : at[u] = s /\ pc[u] = "bump"}

LEMMA FewerBump ==
  ASSUME Types, NEW u \in Users, Frame(u), pc'[u] # "bump", NEW s
  PROVE  Bumping(s)' \subseteq Bumping(s)
BY DEF Frame, UsersFrame, Bumping

LEMMA Sums ==
  /\ \A s : IsFiniteSet(Bumping(s)) /\ Cardinality(Bumping(s)) \in Nat
  /\ \A s, T : T \subseteq Bumping(s) =>
       Cardinality(T) \in Nat /\ Cardinality(T) <= Cardinality(Bumping(s))
<1>1. \A s : Bumping(s) \in SUBSET Users
  BY DEF Bumping
<1>2. \A s : IsFiniteSet(Bumping(s))
  BY <1>1, SegmentAssumption, FS_Subset
<1> HIDE DEF Bumping
<1>3. ASSUME NEW s, NEW T, T \subseteq Bumping(s)
      PROVE  Cardinality(T) \in Nat /\ Cardinality(T) <= Cardinality(Bumping(s))
  BY <1>2, <1>3, FS_Subset, FS_CardinalityType
<1> QED BY <1>2, <1>3, FS_CardinalityType

LEMMA BumpsIf ==
  ASSUME Types, Bumps, NEW u \in Users, Frame(u), pc'[u] # "bump", Len(segs') = Len(segs),
         \A s \in 1..Len(segs) : segs'[s].wrote_num \in {0, segs[s].wrote_num}
  PROVE  Bumps'
<1> SUFFICES ASSUME NEW s \in 1..Len(segs)
             PROVE  segs'[s].wrote_num + Cardinality(Bumping(s)') <= count'
  BY DEF Bumps, Bumping
<1>1. /\ Cardinality(Bumping(s)') \in Nat /\ Cardinality(Bumping(s)) \in Nat
      /\ Cardinality(Bumping(s)') <= Cardinality(Bumping(s))
  BY FewerBump, Sums
<1>2. segs[s].wrote_num + Cardinality(Bumping(s)) <= count
  BY DEF Bumps, Bumping
<1>3. segs[s].wrote_num \in Nat
  BY Typed, MemoryFields
<1>4. count \in Nat /\ count' \in Nat /\ count <= count'
  BY Typed DEF Frame, HistoryGrows
<1>5. segs'[s].wrote_num = 0 \/ segs'[s].wrote_num = segs[s].wrote_num
  OBVIOUS
<1> DEFINE a == Cardinality(Bumping(s)')
           b == Cardinality(Bumping(s))
           m == segs[s].wrote_num
           n == segs'[s].wrote_num
<1> SUFFICES n + a <= count'
  OBVIOUS
<1>6. a \in Nat /\ b \in Nat /\ a <= b /\ m + b <= count /\ m \in Nat /\ (n = 0 \/ n = m)
  BY <1>1, <1>2, <1>3, <1>5
<1> HIDE DEF a, b, m, n
<1> QED BY <1>4, <1>6

\* The steps inside a block.
Inner == {"bump", "fill", "filled", "written", "read", "release"}

LEMMA OpenOutside ==
  ASSUME Types, NEW u \in Users, OpenOrClose(u)
  PROVE  pc[u] \notin Inner /\ pc'[u] \notin Inner \cup {"notify"}
<1> USE DEF Inner
<1>1. CASE Create(u)
  BY <1>1, CreateDoes DEF Moved, IAm
<1>2. CASE MakeState(u)
  <2>1. pc[u] = "state" /\ Moved(u, at[u], conf[u], "blocks")
    BY <1>2, MakeStateDoes
  <2> QED BY <2>1 DEF Moved, IAm
<1>3. CASE MakeBlocks(u)
  BY <1>3, MakeBlocksDoes DEF Moved, IAm
<1>4. CASE Get(u)
  <2>1. CASE Return(u) /\ UNCHANGED <<at, conf>>
    <3>1. pc[u] = "get"
      BY <1>4, GetDoes
    <3>2. pc'[u] \in {"idle", "listen"}
      BY <2>1, <3>1, HomeWriter, HomeReader DEF Moved, IAm, Users
    <3> QED BY <3>1, <3>2
  <2>2. CASE ~(Return(u) /\ UNCHANGED <<at, conf>>)
    BY <1>4, <2>2, GetDoes DEF Moved, IAm
  <2> QED BY <2>1, <2>2
<1>5. CASE IncreaseReferenceCounts(u)
  <2>1. pc[u] = "count" /\ pc'[u] \in {"check", "size", "load", "range", "peek"}
    BY <1>5, CountDoes DEF Moved, IAm, Users
  <2> QED BY <2>1
<1>6. CASE Destroy(u)
  BY <1>6, DestroyDoes DEF Moved, IAm
<1>7. CASE Last(u)
  <2>1. pc[u] = "last" /\ Moved(u, 0, GetCeilingMessageSize(0), IF u \in Writers THEN "idle" ELSE "shut down")
    BY <1>7, LastDoes
  <2>2. pc'[u] \in {"idle", "shut down"}
    BY <2>1 DEF Moved, IAm
  <2> QED BY <2>1, <2>2
<1> QED BY <1>1, <1>2, <1>3, <1>4, <1>5, <1>6, <1>7 DEF OpenOrClose

LEMMA SizeOutside ==
  ASSUME Types, NEW w \in Writers, Size(w)
  PROVE  pc[w] \notin Inner /\ pc'[w] \notin Inner
<1>1. pc[w] = "size"
  BY SizeDoes
<1>2. pc'[w] \in {"remove", "load", "size", "idle"}
  BY <1>1, SizeDoes, HomeWriter DEF Moved, IAm
<1> QED BY <1>1, <1>2 DEF Inner

LEMMA BumpsNext ==
  ASSUME Types, Bumps, [Next]_vars
  PROVE  Bumps'
<1>1. CASE \E u \in Users \ dead : OpenOrClose(u) /\ UNCHANGED dead
  <2>1. PICK u \in Users : OpenOrClose(u)
    BY <1>1
  <2>2. Frame(u) /\ pc'[u] # "bump"
    BY <2>1, FrameOpen, OpenOutside DEF Inner
  <2>3. CASE Create(u) /\ key = 0
    <3>1. /\ Len(segs) \in Nat /\ Len(segs') = Len(segs) + 1
          /\ segs'[Len(segs) + 1].wrote_num = 0
          /\ \A s \in 1..Len(segs) : segs'[s] = segs[s]
          /\ at'[u] = Len(segs) + 1 /\ count' = count /\ count \in Nat
      BY <2>3, CreateDoes, Typed DEF Moved, IAm, NewMemory, history
    <3> SUFFICES ASSUME NEW s \in 1..Len(segs')
                 PROVE  segs'[s].wrote_num + Cardinality(Bumping(s)') <= count'
      BY DEF Bumps, Bumping
    <3>2. /\ Cardinality(Bumping(s)') \in Nat /\ Cardinality(Bumping(s)) \in Nat
          /\ Cardinality(Bumping(s)') <= Cardinality(Bumping(s))
      BY <2>2, FewerBump, Sums
    <3>3. CASE s \in 1..Len(segs)
      <4>1. segs[s].wrote_num + Cardinality(Bumping(s)) <= count
        BY <3>3 DEF Bumps, Bumping
      <4>2. segs[s].wrote_num \in Nat
        BY <3>3, Typed, MemoryFields
      <4>3. segs'[s].wrote_num = segs[s].wrote_num
        BY <3>1, <3>3
      <4> QED BY <3>1, <3>2, <4>1, <4>2, <4>3
    <3>4. CASE s = Len(segs) + 1
      <4>1. Bumping(s)' = {}
        <5>1. \A v \in Users : v # u => at'[v] # s
          <6>1. \A v \in Users : v # u => at'[v] = at[v] /\ at[v] \in 0..Len(segs)
            BY <2>2, Who DEF Frame, UsersFrame
          <6> QED BY <3>1, <3>4, <6>1
        <5> QED BY <2>2, <5>1 DEF Bumping
      <4>2. Cardinality(Bumping(s)') = 0 /\ segs'[s].wrote_num = 0
        BY <3>1, <3>4, <4>1, FS_EmptySet
      <4> QED BY <3>1, <4>2
    <3> QED BY <3>1, <3>3, <3>4
  <2>4. CASE Create(u) /\ key # 0
    <3>1. UNCHANGED segs
      BY <2>4, CreateDoes DEF memory
    <3> QED BY <2>2, <3>1, BumpsIf
  <2>5. CASE MakeState(u)
    <3>1. OnlyMine(u) /\ segs'[at[u]].wrote_num = 0
      BY <2>5, MakeStateDoes DEF Memory1, MineIs
    <3> QED BY <2>2, <3>1, BumpsIf DEF OnlyMine
  <2>6. CASE NumsKept
    BY <2>2, <2>6, BumpsIf DEF NumsKept
  <2> QED BY <2>1, <2>3, <2>4, <2>5, <2>6, OpenKeeps
<1>2. CASE \E w \in Writers \ dead : Write(w) /\ UNCHANGED dead
  <2>1. PICK w \in Writers : Write(w)
    BY <1>2
  <2>2. Frame(w) /\ w \in Users
    BY <2>1, FrameWrite, Who
  <2>3. CASE IncreaseWroteNum(w)
    <3>1. /\ pc[w] = "bump" /\ at[w] \in 1..Len(segs) /\ OnlyMine(w)
          /\ segs'[at[w]].wrote_num = mine(w).wrote_num + 1
          /\ at'[w] = at[w] /\ pc'[w] = "fill" /\ count' = count /\ count \in Nat
      BY <2>3, BumpDoes, Typed DEF Memory1, MineIs, Moved, IAm, history
    <3> SUFFICES ASSUME NEW s \in 1..Len(segs)
                 PROVE  segs'[s].wrote_num + Cardinality(Bumping(s)') <= count'
      BY <3>1 DEF Bumps, Bumping, OnlyMine
    <3>2. segs[s].wrote_num + Cardinality(Bumping(s)) <= count /\ segs[s].wrote_num \in Nat
      <4>1. segs[s].wrote_num + Cardinality(Bumping(s)) <= count
        BY DEF Bumps, Bumping
      <4>2. segs[s] \in Memory
        BY Typed
      <4> QED BY <4>1, <4>2, MemoryFields
    <3>3. CASE s = at[w]
      <4>1. Bumping(s)' = Bumping(s) \ {w} /\ w \in Bumping(s)
        BY <2>2, <3>1, <3>3 DEF Bumping, Frame, UsersFrame
      <4>2. Cardinality(Bumping(s)') = Cardinality(Bumping(s)) - 1
        BY <4>1, Sums, FS_RemoveElement
      <4>3. segs'[s].wrote_num = segs[s].wrote_num + 1
        BY <3>1, <3>3 DEF mine
      <4>4. Cardinality(Bumping(s)) \in Nat
        BY Sums
      <4> QED BY <3>1, <3>2, <4>2, <4>3, <4>4
    <3>4. CASE s # at[w]
      <4>1. segs'[s].wrote_num = segs[s].wrote_num
        BY <3>1, <3>4 DEF OnlyMine
      <4>2. /\ Cardinality(Bumping(s)') \in Nat /\ Cardinality(Bumping(s)) \in Nat
            /\ Cardinality(Bumping(s)') <= Cardinality(Bumping(s))
        BY <2>2, <3>1, FewerBump, Sums
      <4> QED BY <3>1, <3>2, <4>1, <4>2
    <3> QED BY <3>3, <3>4
  <2>4. CASE Lock(w) /\ pc'[w] = "bump"
    <3>1. /\ at[w] \in 1..Len(segs) /\ pc[w] = "lock" /\ count' = count + 1 /\ count \in Nat
          /\ at'[w] = at[w]
      BY <2>4, LockDoes, Typed DEF Moved, IAm
    <3>2. NumsKept
      BY <2>1, <2>4, <3>1, WriteKeeps DEF IncreaseWroteNum, At
    <3> SUFFICES ASSUME NEW s \in 1..Len(segs)
                 PROVE  segs'[s].wrote_num + Cardinality(Bumping(s)') <= count'
      BY <3>2 DEF Bumps, Bumping, NumsKept
    <3>3. /\ segs[s].wrote_num + Cardinality(Bumping(s)) <= count /\ segs[s].wrote_num \in Nat
          /\ segs'[s].wrote_num = segs[s].wrote_num
      BY <3>2, Typed, MemoryFields DEF Bumps, Bumping, NumsKept
    <3>4. Bumping(s)' \subseteq Bumping(s) \cup {w}
      BY <2>2 DEF Bumping, Frame, UsersFrame
    <3>5. /\ Cardinality(Bumping(s)') \in Nat /\ Cardinality(Bumping(s)) \in Nat
          /\ Cardinality(Bumping(s)') <= Cardinality(Bumping(s)) + 1
      <4>1. IsFiniteSet(Bumping(s)) /\ Cardinality(Bumping(s)) \in Nat
        BY Sums
      <4>0. /\ IsFiniteSet(Bumping(s) \cup {w})
            /\ Cardinality(Bumping(s) \cup {w}) \in {Cardinality(Bumping(s)), Cardinality(Bumping(s)) + 1}
        <5> DEFINE B == Bumping(s)
        <5>1. IsFiniteSet(B)
          BY <4>1
        <5> HIDE DEF B
        <5>2. IsFiniteSet(B \cup {w})
              /\ Cardinality(B \cup {w}) = IF w \in B THEN Cardinality(B) ELSE Cardinality(B) + 1
          BY <5>1, FS_AddElement
        <5>3. /\ IsFiniteSet(B \cup {w})
              /\ Cardinality(B \cup {w}) \in {Cardinality(B), Cardinality(B) + 1}
          BY <5>2
        <5> QED BY <5>3 DEF B
      <4>2. IsFiniteSet(Bumping(s) \cup {w})
            /\ Cardinality(Bumping(s) \cup {w}) <= Cardinality(Bumping(s)) + 1
        <5> DEFINE c == Cardinality(Bumping(s))
                   d == Cardinality(Bumping(s) \cup {w})
        <5>1. c \in Nat /\ d \in {c, c + 1}
          BY <4>0, <4>1
        <5> HIDE DEF c, d
        <5>2. d <= c + 1
          BY <5>1
        <5> QED BY <4>0, <5>2 DEF c, d
      <4>3. Cardinality(Bumping(s)') <= Cardinality(Bumping(s) \cup {w})
            /\ IsFiniteSet(Bumping(s)')
        BY <3>4, <4>2, FS_Subset
      <4>4. Cardinality(Bumping(s)') \in Nat /\ Cardinality(Bumping(s) \cup {w}) \in Nat
        BY <4>2, <4>3, FS_CardinalityType
      <4> QED BY <4>1, <4>2, <4>3, <4>4
    <3> QED BY <3>1, <3>3, <3>5
  <2>5. CASE ~IncreaseWroteNum(w) /\ pc'[w] # "bump"
    <3>1. NumsKept
      BY <2>1, <2>5, WriteKeeps
    <3> QED BY <2>2, <2>5, <3>1, BumpsIf DEF NumsKept
  <2>6. pc'[w] = "bump" => Lock(w)
    <3>1. CASE Transmit(w) \/ Check(w)
      BY <3>1, TransmitDoes, CheckDoes DEF Moved, IAm
    <3>2. CASE RemoveSegment(w) \/ Load(w)
      BY <3>2, RemoveDoes, LoadDoes DEF Moved, IAm
    <3>3. CASE IncreaseWroteNum(w) \/ Fill(w)
      BY <3>3, BumpDoes, FillDoes DEF Moved, IAm
    <3>4. CASE Filled(w) \/ ReleaseWrittenBlock(w)
      <4>1. Moved(w, at[w], conf[w], "written") \/ Moved(w, at[w], conf[w], "notify")
        BY <3>4, FilledDoes, WrittenDoes
      <4> QED BY <4>1 DEF Moved, IAm
    <3>5. CASE Refuse(w) \/ Notify(w)
      <4>1. pc'[w] = "idle"
        BY <3>5, RefuseDoes, NotifyDoes, HomeWriter DEF Moved, IAm
      <4> QED BY <4>1
    <3> QED BY <2>1, <3>1, <3>2, <3>3, <3>4, <3>5 DEF Write
  <2> QED BY <2>3, <2>4, <2>5, <2>6
<1>3. CASE \E w \in Writers \ dead : Size(w)
  <2>1. PICK w \in Writers : Size(w)
    BY <1>3
  <2> QED BY <2>1, FrameSize, SizeOutside, SizeKeeps, BumpsIf, Who DEF NumsKept, Inner
<1>4. CASE \E r \in Readers \ dead : Read(r) /\ UNCHANGED dead
  <2>1. PICK r \in Readers : Read(r)
    BY <1>4
  <2>2. pc'[r] # "bump"
    <3>1. ReaderIs(r)'
      BY <2>1, ReaderReads
    <3> QED BY <3>1 DEF ReaderIs, ReaderSteps
  <2> QED BY <2>1, <2>2, FrameRead, ReadKeeps, BumpsIf, Who DEF NumsKept
<1>5. CASE UNCHANGED <<memory, users, infos, count, spoiled, came, left>>
  BY <1>5 DEF Bumps, memory, users
<1> QED BY <1>1, <1>2, <1>3, <1>4, <1>5, Someone

-----------------------------------------------------------------------------
(* The contents of the blocks *)

DataFits == \A s \in 1..Len(segs) : segs[s].data \in [Index -> Torn..count]

LEMMA DataIf ==
  ASSUME Types, count' \in Nat, count <= count',
         \/ DataKept
         \/ \E u \in Users : OnlyMine(u) /\ segs'[at[u]].data \in [Index -> Torn..count']
  PROVE  DataFits'
<1>1. count \in Nat /\ count' \in Nat /\ count <= count'
  BY Typed
<1>2. Torn..count \subseteq Torn..count'
  BY <1>1 DEF Torn
<1>3. \A s \in 1..Len(segs) : segs[s].data \in [Index -> Torn..count']
  <2>1. \A s \in 1..Len(segs) : segs[s].data \in [Index -> Torn..count]
    BY DEF Types, TypeOK
  <2> HIDE DEF Torn
  <2> QED BY <1>2, <2>1
<1>4. CASE \E u \in Users : OnlyMine(u) /\ segs'[at[u]].data \in [Index -> Torn..count']
  BY <1>3, <1>4 DEF DataFits, OnlyMine
<1>5. CASE DataKept
  BY <1>3, <1>5 DEF DataFits, DataKept
<1> QED BY <1>4, <1>5

LEMMA DataNext ==
  ASSUME Types, [Next]_vars
  PROVE  DataFits'
<1>1. CASE \E u \in Users \ dead : OpenOrClose(u) /\ UNCHANGED dead
  <2>1. PICK u \in Users : OpenOrClose(u)
    BY <1>1
  <2>2. count' \in Nat /\ count <= count'
    BY <2>1, FrameOpen DEF Frame, HistoryGrows
  <2>3. CASE Create(u) /\ key = 0
    <3>1. /\ Len(segs) \in Nat /\ Len(segs') = Len(segs) + 1
          /\ segs'[Len(segs) + 1].data = [i \in Index |-> Nothing]
          /\ \A s \in 1..Len(segs) : segs'[s].data = segs[s].data
          /\ count' = count /\ count \in Nat
      BY <2>3, CreateDoes, Typed DEF NewMemory, history
    <3>2. [i \in Index |-> Nothing] \in [Index -> Torn..count]
      BY <3>1 DEF Torn, Nothing
    <3>3. \A s \in 1..Len(segs) : segs[s].data \in [Index -> Torn..count]
      BY DEF Types, TypeOK
    <3>4. \A s \in 1..Len(segs') : s \in 1..Len(segs) \/ s = Len(segs) + 1
      BY <3>1
    <3> QED BY <3>1, <3>2, <3>3, <3>4 DEF DataFits
  <2>4. CASE Create(u) /\ key # 0
    <3>1. DataKept
      BY <2>4, CreateDoes, AllKept DEF memory
    <3> QED BY <2>2, <3>1, DataIf
  <2> QED BY <2>1, <2>2, <2>3, <2>4, OpenKeeps, DataIf
<1>2. CASE \E w \in Writers \ dead : Write(w) /\ UNCHANGED dead
  <2>1. PICK w \in Writers : Write(w)
    BY <1>2
  <2>2. count' \in Nat /\ count <= count' /\ w \in Users
    BY <2>1, FrameWrite, Who DEF Frame, HistoryGrows
  <2>3. CASE Fill(w)
    <3>1. PICK f \in [Index -> Int] :
            /\ OnlyMine(w) /\ segs'[at[w]].data = f
            /\ \A i \in Index : f[i] \in {Torn, mine(w).data[i]}
      BY <2>3, FillDoes DEF Memory1, MineIs
    <3>2. at[w] \in 1..Len(segs) /\ count' = count /\ count \in Nat
      BY <2>3, FillDoes, Typed
    <3>3. mine(w).data \in [Index -> Torn..count]
      BY <3>2 DEF Types, TypeOK, mine
    <3>4. f \in [Index -> Torn..count]
      <4>1. Torn \in Torn..count
        BY <3>2 DEF Torn
      <4> QED BY <3>1, <3>3, <4>1
    <3> QED BY <2>2, <3>1, <3>2, <3>4, DataIf
  <2>4. CASE Filled(w)
    <3>1. /\ OnlyMine(w) /\ segs'[at[w]].data = [mine(w).data EXCEPT ![idx(w)] = loc[w].msg]
          /\ at[w] \in 1..Len(segs) /\ pc[w] = "filled" /\ count' = count /\ count \in Nat
      BY <2>4, FilledDoes, Typed DEF Memory1, MineIs, history
    <3>2. mine(w).data \in [Index -> Torn..count]
      BY <3>1 DEF Types, TypeOK, mine
    <3>3. loc[w].msg \in 1..count
      BY <3>1 DEF Types, Steps, Sending
    <3>4. loc[w].msg \in Torn..count
      BY <3>1, <3>3 DEF Torn
    <3>5. [mine(w).data EXCEPT ![idx(w)] = loc[w].msg] \in [Index -> Torn..count]
      BY <3>2, <3>4
    <3> QED BY <2>2, <3>1, <3>5, DataIf
  <2> QED BY <2>1, <2>2, <2>3, <2>4, WriteKeeps, DataIf
<1>3. CASE \E w \in Writers \ dead : Size(w)
  BY <1>3, SizeKeeps, FrameSize, DataIf DEF Frame, HistoryGrows
<1>4. CASE \E r \in Readers \ dead : Read(r) /\ UNCHANGED dead
  <2>1. PICK r \in Readers : Read(r)
    BY <1>4
  <2>2. count' \in Nat /\ count <= count' /\ r \in Users
    BY <2>1, FrameRead, Who DEF Frame, HistoryGrows
  <2>3. CASE Stray(r)
    <3>1. CASE UNCHANGED segs
      BY <2>2, <3>1, AllKept, DataIf
    <3>2. CASE segs' # segs
      <4>1. PICK i \in Index : /\ OnlyMine(r)
                               /\ segs'[at[r]].data = [mine(r).data EXCEPT ![i] = Torn]
        BY <2>3, <3>2, StrayDoes DEF Memory1, MineIs
      <4>2. at[r] \in 1..Len(segs) /\ count' = count /\ count \in Nat
        BY <2>3, StrayDoes, Typed
      <4>3. mine(r).data \in [Index -> Torn..count] /\ Torn \in Torn..count
        BY <4>2 DEF Types, TypeOK, mine, Torn
      <4>4. [mine(r).data EXCEPT ![i] = Torn] \in [Index -> Torn..count]
        BY <4>3
      <4> QED BY <2>2, <4>1, <4>2, <4>4, DataIf
    <3> QED BY <3>1, <3>2
  <2> QED BY <2>1, <2>2, <2>3, ReadKeeps, DataIf
<1>5. CASE UNCHANGED <<memory, users, infos, count, spoiled, came, left>>
  BY <1>5 DEF DataFits, Types, TypeOK, memory
<1> QED BY <1>1, <1>2, <1>3, <1>4, <1>5, Someone

-----------------------------------------------------------------------------
(* The rest of the types *)

LEMMA RestOpen ==
  ASSUME Types, NEW u \in Users, OpenOrClose(u)
  PROVE  /\ key' \in 0..Len(segs') /\ spoiled' \subseteq 1..Len(segs')
         /\ infos' = infos /\ came' = came /\ left' \in {TRUE, left}
<1>1. /\ Len(segs) \in Nat /\ Len(segs') \in Nat /\ Len(segs) <= Len(segs')
  BY FrameOpen, Typed DEF Frame, MemoryFrame
<1>2. key \in 0..Len(segs) /\ spoiled \subseteq 1..Len(segs)
  BY DEF Types, TypeOK
<1>3. key \in 0..Len(segs') /\ 0 \in 0..Len(segs') /\ spoiled \subseteq 1..Len(segs')
  BY <1>1, <1>2, Within
<1>4. CASE Create(u)
  <2>1. key' \in 0..Len(segs')
    <3>1. CASE key' = key
      BY <1>3, <3>1
    <3>2. CASE key' # key
      <4>1. key' = Len(segs) + 1 /\ Len(segs') = Len(segs) + 1
        BY <1>4, <3>2, CreateDoes DEF memory
      <4> QED BY <1>1, <4>1
    <3> QED BY <3>1, <3>2
  <2> QED BY <1>3, <1>4, <2>1, CreateDoes DEF history
<1>5. CASE MakeState(u) \/ MakeBlocks(u)
  <2>1. UNCHANGED <<key, infos, history>>
    BY <1>5, MakeStateDoes, MakeBlocksDoes
  <2> QED BY <1>3, <2>1 DEF history
<1>6. CASE Get(u)
  <2>1. UNCHANGED <<memory, infos, came, left>>
    BY <1>6, GetDoes
  <2>2. spoiled' \subseteq 1..Len(segs')
    <3>1. CASE spoiled' = spoiled
      BY <3>1, <1>3
    <3>2. CASE spoiled' # spoiled
      <4>1. key # 0 /\ spoiled' = spoiled \cup {key}
        BY <1>6, <3>2, GetDoes
      <4>2. key \in 1..Len(segs')
        BY <4>1, <1>1, <1>3
      <4> QED BY <4>1, <4>2, <1>3
    <3> QED BY <3>1, <3>2
  <2> QED BY <2>1, <2>2, <1>3 DEF memory
<1>7. CASE IncreaseReferenceCounts(u)
  BY <1>3, <1>7, CountDoes DEF history
<1>8. CASE Destroy(u)
  BY <1>3, <1>8, DestroyDoes
<1>9. CASE Last(u)
  <2>1. key' \in {0, key} /\ UNCHANGED <<infos, history>>
    BY <1>9, LastDoes
  <2> QED BY <1>3, <2>1 DEF history
<1> QED BY <1>4, <1>5, <1>6, <1>7, <1>8, <1>9 DEF OpenOrClose

LEMMA RestWrite ==
  ASSUME Types, NEW w \in Writers, Write(w) \/ Size(w)
  PROVE  /\ key' \in {0, key} /\ Len(segs') = Len(segs) /\ spoiled' \subseteq 1..Len(segs)
         /\ infos' \subseteq [block_index : Index, msg : 1..count']
         /\ came' \subseteq came \cup {w} /\ left' = left
<1>1. count \in Nat /\ count' \in Nat /\ count <= count'
  BY FrameWrite, FrameSize, Typed, Who DEF Frame, HistoryGrows
<1>2. Len(segs') = Len(segs)
  BY WriteKeeps, SizeKeeps DEF CeilingsKept
<1>3. spoiled \subseteq 1..Len(segs) /\ infos \subseteq [block_index : Index, msg : 1..count]
  BY DEF Types, TypeOK
<1>4. 1..count \subseteq 1..count'
  BY <1>1, Within
<1>5. infos \subseteq [block_index : Index, msg : 1..count']
  BY <1>3, <1>4
<1>6. key' \in {0, key}
  <2>1. CASE Transmit(w) \/ Load(w) \/ Notify(w) \/ Check(w)
    BY <2>1, TransmitDoes, LoadDoes, NotifyDoes, CheckDoes DEF memory
  <2>2. CASE RemoveSegment(w) \/ Size(w)
    BY <2>2, RemoveDoes, SizeDoes
  <2>3. CASE Lock(w) \/ IncreaseWroteNum(w) \/ Fill(w) \/ Refuse(w)
    BY <2>3, LockDoes, BumpDoes, FillDoes, RefuseDoes
  <2>4. CASE Filled(w) \/ ReleaseWrittenBlock(w)
    BY <2>4, FilledDoes, WrittenDoes
  <2> QED BY <2>1, <2>2, <2>3, <2>4 DEF Write
<1>7. spoiled' \subseteq 1..Len(segs)
  <2>1. CASE Fill(w)
    <3>1. at[w] \in 1..Len(segs) /\ spoiled' \in {spoiled, spoiled \cup {at[w]}}
      BY <2>1, FillDoes
    <3> QED BY <3>1, <1>3
  <2>2. CASE ~Fill(w)
    <3>1. spoiled' = spoiled
      <4>1. CASE Transmit(w) \/ Check(w) \/ RemoveSegment(w) \/ Load(w) \/ Lock(w)
        BY <4>1, TransmitDoes, CheckDoes, RemoveDoes, LoadDoes, LockDoes DEF history
      <4>2. CASE IncreaseWroteNum(w) \/ Refuse(w) \/ Filled(w) \/ ReleaseWrittenBlock(w)
        BY <4>2, BumpDoes, RefuseDoes, FilledDoes, WrittenDoes DEF history
      <4>3. CASE Notify(w) \/ Size(w)
        BY <4>3, NotifyDoes, SizeDoes DEF history
      <4> QED BY <2>2, <4>1, <4>2, <4>3 DEF Write
    <3> QED BY <3>1, <1>3
  <2> QED BY <2>1, <2>2
<1>8. infos' \subseteq [block_index : Index, msg : 1..count']
  <2>1. CASE Notify(w)
    <3>1. /\ infos' = infos \cup {[block_index |-> idx(w), msg |-> loc[w].msg]}
          /\ pc[w] = "notify"
      BY <2>1, NotifyDoes
    <3>2. loc[w].msg \in 1..count /\ idx(w) \in Index
      BY <3>1, Who DEF Types, Steps, Sending
    <3> QED BY <3>1, <3>2, <1>4, <1>5
  <2>2. CASE ~Notify(w)
    <3>1. infos' = infos
      <4>1. CASE Transmit(w) \/ Check(w) \/ RemoveSegment(w) \/ Load(w) \/ Lock(w)
        BY <4>1, TransmitDoes, CheckDoes, RemoveDoes, LoadDoes, LockDoes
      <4>2. CASE IncreaseWroteNum(w) \/ Refuse(w) \/ Filled(w) \/ ReleaseWrittenBlock(w)
        BY <4>2, BumpDoes, RefuseDoes, FilledDoes, WrittenDoes
      <4>3. CASE Fill(w) \/ Size(w)
        BY <4>3, FillDoes, SizeDoes
      <4> QED BY <2>2, <4>1, <4>2, <4>3 DEF Write
    <3> QED BY <3>1, <1>5
  <2> QED BY <2>1, <2>2
<1>9. came' \subseteq came \cup {w} /\ left' = left
  <2>1. CASE Transmit(w) \/ Check(w) \/ RemoveSegment(w) \/ Load(w) \/ Lock(w)
    BY <2>1, TransmitDoes, CheckDoes, RemoveDoes, LoadDoes, LockDoes DEF history
  <2>2. CASE IncreaseWroteNum(w) \/ Refuse(w) \/ Filled(w) \/ ReleaseWrittenBlock(w)
    BY <2>2, BumpDoes, RefuseDoes, FilledDoes, WrittenDoes DEF history
  <2>3. CASE Notify(w) \/ Fill(w) \/ Size(w)
    BY <2>3, NotifyDoes, FillDoes, SizeDoes DEF history
  <2> QED BY <2>1, <2>2, <2>3 DEF Write
<1> QED BY <1>2, <1>6, <1>7, <1>8, <1>9

LEMMA RestRead ==
  ASSUME Types, NEW r \in Readers, Read(r)
  PROVE  /\ key' = key /\ Len(segs') = Len(segs) /\ spoiled' \subseteq 1..Len(segs)
         /\ infos' = infos /\ came' = came /\ left' = left
<1>1. Len(segs') = Len(segs)
  BY ReadKeeps DEF CeilingsKept
<1>2. spoiled \subseteq 1..Len(segs)
  BY DEF Types, TypeOK
<1>3. CASE Stray(r)
  <2>1. /\ at[r] \in 1..Len(segs) /\ spoiled' \in {spoiled, spoiled \cup {at[r]}}
        /\ UNCHANGED <<key, infos, came, left>>
    BY <1>3, StrayDoes
  <2> QED BY <2>1, <1>1, <1>2
<1>4. CASE Listen(r) \/ CheckIndex(r) \/ Peek(r)
  BY <1>1, <1>2, <1>4, ListenDoes, CheckIndexDoes, PeekDoes DEF memory, history
<1>5. CASE Take(r) \/ ReadMessage(r) \/ ReleaseReadBlock(r)
  BY <1>1, <1>2, <1>5, TakeDoes, ReadDoes, ReleaseDoes DEF memory, history
<1> QED BY <1>3, <1>4, <1>5 DEF Read

Rest == /\ key \in 0..Len(segs) /\ spoiled \subseteq 1..Len(segs)
        /\ infos \subseteq [block_index : Index, msg : 1..count]
        /\ dead \subseteq Users /\ came \subseteq Writers /\ left \in BOOLEAN

LEMMA RestNext ==
  ASSUME Types, [Next]_vars
  PROVE  Rest'
<1>1. /\ key \in 0..Len(segs) /\ spoiled \subseteq 1..Len(segs)
      /\ infos \subseteq [block_index : Index, msg : 1..count]
      /\ dead \subseteq Users /\ came \subseteq Writers /\ left \in BOOLEAN
      /\ Len(segs) \in Nat /\ 0 \in 0..Len(segs)
  BY Typed, Within DEF Types, TypeOK
<1>2. dead' \subseteq Users
  BY <1>1, Who DEF Next, Size, vars, Die
<1>3. CASE \E u \in Users \ dead : OpenOrClose(u) /\ UNCHANGED dead
  <2>1. PICK u \in Users : OpenOrClose(u)
    BY <1>3
  <2>2. count \in Nat /\ count' \in Nat /\ count <= count'
    BY <2>1, FrameOpen, Typed DEF Frame, HistoryGrows
  <2>3. 1..count \subseteq 1..count'
    BY <2>2, Within
  <2>4. infos \subseteq [block_index : Index, msg : 1..count']
    BY <1>1, <2>3
  <2>5. left' \in BOOLEAN
    BY <1>1, <2>1, RestOpen
  <2> QED BY <1>1, <1>2, <2>1, <2>4, <2>5, RestOpen DEF Rest
<1>4. CASE \E w \in Writers \ dead : Write(w) \/ Size(w)
  <2>1. PICK w \in Writers : Write(w) \/ Size(w)
    BY <1>4
  <2>2. left' \in BOOLEAN
    BY <1>1, <2>1, RestWrite
  <2>3. /\ Len(segs') = Len(segs) /\ spoiled' \subseteq 1..Len(segs)
        /\ infos' \subseteq [block_index : Index, msg : 1..count']
        /\ came' \subseteq came \cup {w} /\ key' \in {0, key}
    BY <2>1, RestWrite
  <2> QED BY <1>1, <1>2, <2>2, <2>3 DEF Rest
<1>5. CASE \E r \in Readers \ dead : Read(r)
  <2>1. PICK r \in Readers : Read(r)
    BY <1>5
  <2>2. count \in Nat /\ count' \in Nat /\ count <= count'
    BY <2>1, FrameRead, Typed, Who DEF Frame, HistoryGrows
  <2>3. 1..count \subseteq 1..count'
    BY <2>2, Within
  <2>4. infos \subseteq [block_index : Index, msg : 1..count']
    BY <1>1, <2>3
  <2>5. left' \in BOOLEAN
    BY <1>1, <2>1, RestRead
  <2> QED BY <1>1, <1>2, <2>1, <2>4, <2>5, RestRead DEF Rest
<1>6. CASE UNCHANGED <<memory, users, infos, count, spoiled, came, left>>
  BY <1>1, <1>2, <1>6 DEF Rest, memory
<1> QED BY <1>3, <1>4, <1>5, <1>6, Someone

LEMMA TypesNext ==
  ASSUME Types, Bumps, [Next]_vars
  PROVE  Types'
<1>1. /\ \A u \in Users : UserIs(u)'
      /\ \A w \in Writers : WriterIs(w)'
      /\ \A r \in Readers : ReaderIs(r)'
  BY UsersNext
<1>2. /\ at' \in [Users -> Nat] /\ conf' \in [Users -> Ceilings]
      /\ pc' \in [Users -> WriterSteps \cup ReaderSteps]
      /\ loc' \in [Users -> Local] /\ todo' \in [Writers -> Seq(Nat)]
      /\ segs' \in Seq(Memory) /\ Len(segs') \in Nat /\ count' \in Nat
  <2>1. CASE \E u \in Users : Frame(u)
    BY <2>1 DEF Frame, UsersFrame, MemoryFrame, HistoryGrows
  <2>2. CASE UNCHANGED <<memory, users, infos, count, spoiled, came, left>>
    BY <2>2, Typed DEF memory, users
  <2> QED BY <2>1, <2>2, Framed
<1>3. Bumps' /\ DataFits' /\ Rest'
  BY BumpsNext, DataNext, RestNext
<1>4. \A s \in 1..Len(segs') : segs'[s].wrote_num \in 0..count'
  <2> SUFFICES ASSUME NEW s \in 1..Len(segs')
               PROVE  segs'[s].wrote_num \in 0..count'
    OBVIOUS
  <2>1. segs'[s].wrote_num + Cardinality(Bumping(s)') <= count'
    BY <1>3 DEF Bumps, Bumping
  <2>2. Cardinality(Bumping(s)') \in Nat
    <3>1. IsFiniteSet(Users)
      BY SegmentAssumption
    <3>2. Bumping(s)' \in SUBSET Users
      BY DEF Bumping
    <3> QED BY <3>1, <3>2, FS_Subset, FS_CardinalityType
  <2>3. segs'[s].wrote_num \in Nat
    BY <1>2, MemoryFields
  <2> QED BY <1>2, <2>1, <2>2, <2>3
<1>5. \A s \in 1..Len(segs') :
        /\ segs'[s].refs \in 0..MaxRefs /\ segs'[s].ceiling \in Ceilings \cup {0}
        /\ segs'[s].need_remap \in BOOLEAN /\ segs'[s].lock \in [Index -> Int]
  BY <1>2, MemoryFields
<1>6. \A u \in Users : pc'[u] \in Unmapped \cup Mapped
  <2>1. WriterSteps \cup ReaderSteps \subseteq Unmapped \cup Mapped
    BY DEF WriterSteps, ReaderSteps, Unmapped, Mapped
  <2> QED BY <1>2, <2>1
<1>7. at' \in [Users -> 0..Len(segs')]
  BY <1>1, <1>2 DEF UserIs
<1>8. TypeOK'
  <2>1. \A u \in Users :
          /\ pc'[u] \in Unmapped \cup Mapped
          /\ pc'[u] \in Mapped => at'[u] # 0
          /\ pc'[u] \in Mapped \ {"count", "range", "peek"} => idx(u)' < block_num(u)'
    BY <1>1, <1>6 DEF UserIs
  <2> QED BY <1>2, <1>3, <1>4, <1>5, <1>7, <2>1 DEF TypeOK, DataFits, Rest
<1>9. Shapes'
  BY <1>1, <1>2 DEF Shapes, WriterIs, ReaderIs
<1>10. Steps'
  BY <1>1 DEF Steps, WriterIs, ReaderIs, UserIs
<1> QED BY <1>8, <1>9, <1>10 DEF Types

-----------------------------------------------------------------------------
(* Segments under construction *)

\* Where a step that opens or closes leads.
LEMMA Openings ==
  ASSUME Types, NEW u \in Users, OpenOrClose(u)
  PROVE  \/ /\ at'[u] \in {0, at[u]}
            /\ pc'[u] \in {"state", "blocks"} => pc[u] = "state" /\ at'[u] = at[u]
         \/ /\ pc[u] = "create" /\ key = 0 /\ key' = Len(segs) + 1
            /\ at'[u] = Len(segs) + 1 /\ Len(segs') = Len(segs) + 1
            /\ segs'[Len(segs) + 1] = NewMemory /\ spoiled' = spoiled
            /\ pc'[u] = "state" /\ conf'[u] = conf[u]
         \/ /\ pc[u] = "get" /\ key # 0 /\ at'[u] = key /\ pc'[u] = "count"
            /\ conf'[u] = GetCeilingMessageSize(segs[key].ceiling)
            /\ Building(key) => spoiled' = spoiled \cup {key}
            /\ UNCHANGED <<memory, loc>>
<1>1. CASE Create(u)
  BY <1>1, CreateDoes DEF Moved, IAm, history
<1>2. CASE MakeState(u)
  <2>1. pc[u] = "state" /\ Moved(u, at[u], conf[u], "blocks")
    BY <1>2, MakeStateDoes
  <2> QED BY <2>1 DEF Moved, IAm
<1>3. CASE MakeBlocks(u)
  BY <1>3, MakeBlocksDoes DEF Moved, IAm
<1>4. CASE Get(u)
  <2>1. CASE key = 0 /\ Return(u) /\ UNCHANGED <<at, conf>>
    <3>1. pc[u] = "get"
      BY <1>4, GetDoes
    <3>2. pc'[u] \in {"idle", "listen"}
      BY <2>1, <3>1, HomeWriter, HomeReader DEF Moved, IAm, Users
    <3> QED BY <2>1, <3>2
  <2>2. CASE key = 0 /\ Moved(u, at[u], conf[u], "size")
    BY <2>2 DEF Moved, IAm
  <2>3. CASE key # 0
    BY <1>4, <2>3, GetDoes DEF Moved, IAm
  <2> QED BY <1>4, <2>1, <2>2, <2>3, GetDoes
<1>5. CASE IncreaseReferenceCounts(u)
  <2>1. at'[u] = at[u] /\ pc'[u] \in {"check", "size", "load", "range", "peek"}
    BY <1>5, CountDoes DEF Moved, IAm, Users
  <2> QED BY <2>1
<1>6. CASE Destroy(u)
  BY <1>6, DestroyDoes DEF Moved, IAm
<1>7. CASE Last(u)
  <2>1. Moved(u, 0, GetCeilingMessageSize(0), IF u \in Writers THEN "idle" ELSE "shut down")
    BY <1>7, LastDoes
  <2>2. pc'[u] \in {"idle", "shut down"} /\ at'[u] = 0
    BY <2>1 DEF Moved, IAm
  <2> QED BY <2>2
<1> QED BY <1>1, <1>2, <1>3, <1>4, <1>5, <1>6, <1>7 DEF OpenOrClose

LEMMA Workings ==
  ASSUME Types, NEW u \in Users,
         (u \in Writers /\ (Write(u) \/ Size(u))) \/ (u \in Readers /\ Read(u))
  PROVE  /\ at'[u] \in {0, at[u]} /\ (at'[u] = 0 \/ conf'[u] = conf[u])
         /\ pc'[u] \notin {"state", "blocks", "count", "last"}
         /\ pc[u] \notin {"state", "blocks", "count", "last"}
<1>1. CASE u \in Writers /\ (Transmit(u) \/ Check(u))
  BY <1>1, TransmitDoes, CheckDoes DEF Moved, IAm
<1>2. CASE u \in Writers /\ (RemoveSegment(u) \/ Load(u) \/ Lock(u))
  <2>1. pc[u] \in {"remove", "load", "lock"} /\ at'[u] = at[u] /\ conf'[u] = conf[u]
        /\ pc'[u] \in {"create", "lock", "bump"}
    BY <1>2, RemoveDoes, LoadDoes, LockDoes DEF Moved, IAm
  <2> QED BY <2>1
<1>3. CASE u \in Writers /\ (IncreaseWroteNum(u) \/ Fill(u))
  BY <1>3, BumpDoes, FillDoes DEF Moved, IAm
<1>4. CASE u \in Writers /\ (Filled(u) \/ ReleaseWrittenBlock(u))
  BY <1>4, FilledDoes, WrittenDoes DEF Moved, IAm
<1>5. CASE u \in Writers /\ (Refuse(u) \/ Notify(u))
  BY <1>5, RefuseDoes, NotifyDoes, HomeWriter DEF Moved, IAm
<1>6. CASE u \in Writers /\ Size(u)
  <2>1. pc[u] = "size"
    BY <1>6, SizeDoes
  <2>2. pc'[u] \in {"remove", "load", "size", "idle"} /\ at'[u] \in {0, at[u]}
        /\ (at'[u] = 0 \/ conf'[u] = conf[u])
    BY <1>6, <2>1, SizeDoes, HomeWriter DEF Moved, IAm
  <2> QED BY <2>1, <2>2
<1>7. CASE u \in Readers /\ (Listen(u) \/ CheckIndex(u))
  BY <1>7, ListenDoes, CheckIndexDoes, HomeReader DEF Moved, IAm
<1>8. CASE u \in Readers /\ (Peek(u) \/ Stray(u))
  BY <1>8, PeekDoes, StrayDoes, HomeReader DEF Moved, IAm
<1>9. CASE u \in Readers /\ Take(u)
  <2>1. pc[u] = "take"
    BY <1>9, TakeDoes
  <2>2. CASE Return(u)
    BY <1>9, <2>1, <2>2, HomeReader DEF Take, Moved, IAm
  <2>3. CASE ~Return(u)
    BY <1>9, <2>1, <2>3, TakeDoes DEF Moved, IAm
  <2> QED BY <2>2, <2>3
<1>10. CASE u \in Readers /\ (ReadMessage(u) \/ ReleaseReadBlock(u))
  BY <1>10, ReadDoes, ReleaseDoes, HomeReader DEF Moved, IAm
<1> QED BY <1>1, <1>2, <1>3, <1>4, <1>5, <1>6, <1>7, <1>8, <1>9, <1>10 DEF Write, Read

LEMMA AloneIf ==
  ASSUME Types, Alone, dead \subseteq dead', NEW x \in Users \ dead, Frame(x),
         \/ /\ at'[x] \in {0, at[x]}
            /\ pc'[x] \in {"state", "blocks"} => pc[x] = "state" /\ at'[x] = at[x]
         \/ at'[x] = Len(segs) + 1
         \/ /\ key # 0 /\ at'[x] = key /\ pc'[x] = "count"
            /\ Building(key) => spoiled' = spoiled \cup {key}
  PROVE  Alone'
<1> SUFFICES ASSUME NEW u \in Users \ dead', NEW v \in Users,
                    pc'[u] \in {"state", "blocks"}, v # u, at'[v] = at'[u]
             PROVE  at'[u] \in spoiled'
  BY DEF Alone
<1>1. /\ u \in Users \ dead /\ spoiled \subseteq spoiled'
      /\ \A y \in Users : /\ at[y] \in 0..Len(segs)
                          /\ y # x => at'[y] = at[y] /\ pc'[y] = pc[y]
      /\ Len(segs) \in Nat
  BY Who DEF Frame, UsersFrame, HistoryGrows
<1>2. \A y \in Users : pc[y] \in {"state", "blocks"} => at[y] # 0
  BY DEF Types, TypeOK, Mapped
<1>3. \A y \in Users : at[y] # Len(segs) + 1
  BY <1>1
<1>4. CASE u # x /\ v # x
  BY <1>1, <1>4 DEF Alone
<1>5. CASE u = x
  <2>1. at'[v] = at[v] /\ at[v] # Len(segs) + 1
    BY <1>1, <1>3, <1>5
  <2>2. pc[u] = "state" /\ at'[u] = at[u]
    BY <1>5, <2>1
  <2> QED BY <1>1, <2>1, <2>2 DEF Alone
<1>6. CASE v = x /\ u # x
  <2>1. pc[u] \in {"state", "blocks"} /\ at'[u] = at[u] /\ at[u] # 0
    BY <1>1, <1>2, <1>6
  <2>2. CASE at'[x] = at[x]
    BY <1>1, <1>6, <2>1, <2>2 DEF Alone
  <2>3. CASE key # 0 /\ at'[x] = key /\ (Building(key) => spoiled' = spoiled \cup {key})
    <3>1. Building(key)
      BY <1>1, <1>6, <2>1, <2>3 DEF Building
    <3> QED BY <1>6, <2>3, <3>1
  <2> QED BY <1>3, <1>6, <2>1, <2>2, <2>3
<1> QED BY <1>4, <1>5, <1>6

LEMMA AloneNext ==
  ASSUME Types, Alone, [Next]_vars
  PROVE  Alone'
<1>1. CASE \E u \in Users \ dead : OpenOrClose(u) /\ UNCHANGED dead
  BY <1>1, FrameOpen, Openings, AloneIf
<1>2. CASE \E w \in Writers \ dead : Write(w) /\ UNCHANGED dead
  <2>1. PICK w \in Writers \ dead : Write(w) /\ UNCHANGED dead
    BY <1>2
  <2>2. w \in Users \ dead /\ Frame(w)
    BY <2>1, Who, FrameWrite
  <2>3. at'[w] \in {0, at[w]} /\ pc'[w] \notin {"state", "blocks"}
    BY <2>1, <2>2, Workings
  <2> QED BY <2>1, <2>2, <2>3, AloneIf
<1>3. CASE \E w \in Writers \ dead : Size(w)
  <2>1. PICK w \in Writers \ dead : Size(w)
    BY <1>3
  <2>2. w \in Users \ dead /\ Frame(w) /\ dead \subseteq dead'
    BY <2>1, Who, FrameSize DEF Size
  <2>3. at'[w] \in {0, at[w]} /\ pc'[w] \notin {"state", "blocks"}
    BY <2>1, <2>2, Workings
  <2> QED BY <2>2, <2>3, AloneIf
<1>4. CASE \E r \in Readers \ dead : Read(r) /\ UNCHANGED dead
  <2>1. PICK r \in Readers \ dead : Read(r) /\ UNCHANGED dead
    BY <1>4
  <2>2. r \in Users \ dead /\ Frame(r)
    BY <2>1, Who, FrameRead
  <2>3. at'[r] \in {0, at[r]} /\ pc'[r] \notin {"state", "blocks"}
    BY <2>1, <2>2, Workings
  <2> QED BY <2>1, <2>2, <2>3, AloneIf
<1>5. CASE /\ UNCHANGED <<memory, users, infos, count, spoiled, came, left>>
           /\ dead' = dead \/ \E u \in Users : dead' = dead \cup {u}
  BY <1>5 DEF Alone, users
<1> QED BY <1>1, <1>2, <1>3, <1>4, <1>5, Someone

-----------------------------------------------------------------------------
(* The locks *)

LockSays(s, i) ==
  \/ /\ Cardinality(WritersOf(s, i)) = 1 /\ ReadersOf(s, i) = {}
     /\ segs[s].lock[i] = kWriteExclusive
  \/ /\ WritersOf(s, i) = {}
     /\ segs[s].lock[i] = Cardinality(ReadersOf(s, i))

WritesIn(u) == pc[u] \in {"bump", "fill", "filled", "written"}
ReadsIn(u) == pc[u] \in {"read", "release"}
IsAt(u, s, i) == at[u] = s /\ loc[u].idx = i

LEMMA Sets ==
  /\ \A s, i : WritersOf(s, i) = {u \in Users : IsAt(u, s, i) /\ WritesIn(u)}
  /\ \A s, i : ReadersOf(s, i) = {u \in Users : IsAt(u, s, i) /\ ReadsIn(u)}
  /\ \A s, i : WritersOf(s, i)' = {u \in Users : IsAt(u, s, i)' /\ WritesIn(u)'}
  /\ \A s, i : ReadersOf(s, i)' = {u \in Users : IsAt(u, s, i)' /\ ReadsIn(u)'}
  /\ \A s, i : IsFiniteSet(WritersOf(s, i)) /\ IsFiniteSet(ReadersOf(s, i))
<1>1. /\ \A s, i : WritersOf(s, i) = {u \in Users : IsAt(u, s, i) /\ WritesIn(u)}
      /\ \A s, i : ReadersOf(s, i) = {u \in Users : IsAt(u, s, i) /\ ReadsIn(u)}
  BY DEF WritersOf, ReadersOf, Inside, IsAt, WritesIn, ReadsIn
<1>2. /\ \A s, i : WritersOf(s, i)' = {u \in Users : IsAt(u, s, i)' /\ WritesIn(u)'}
      /\ \A s, i : ReadersOf(s, i)' = {u \in Users : IsAt(u, s, i)' /\ ReadsIn(u)'}
  BY DEF WritersOf, ReadersOf, Inside, IsAt, WritesIn, ReadsIn
<1>3. \A s, i : WritersOf(s, i) \in SUBSET Users /\ ReadersOf(s, i) \in SUBSET Users
  BY DEF WritersOf, ReadersOf, Inside
<1>4. \A s, i : IsFiniteSet(WritersOf(s, i)) /\ IsFiniteSet(ReadersOf(s, i))
  BY <1>3, SegmentAssumption, FS_Subset
<1> QED BY <1>1, <1>2, <1>4

\* A block that the step takes nobody into or out of, and whose lock it leaves.
LEMMA SaysSame ==
  ASSUME NEW x \in Users, Frame(x), NEW s, NEW i, LockSays(s, i),
         segs'[s].lock[i] = segs[s].lock[i],
         \/ ~(IsAt(x, s, i) /\ (WritesIn(x) \/ ReadsIn(x)))
            /\ ~(IsAt(x, s, i)' /\ (WritesIn(x)' \/ ReadsIn(x)'))
         \/ /\ IsAt(x, s, i) /\ IsAt(x, s, i)'
            /\ WritesIn(x)' = WritesIn(x) /\ ReadsIn(x)' = ReadsIn(x)
  PROVE  LockSays(s, i)'
<1>1. \A u \in Users : u # x => /\ IsAt(u, s, i)' = IsAt(u, s, i)
                                /\ WritesIn(u)' = WritesIn(u) /\ ReadsIn(u)' = ReadsIn(u)
  BY DEF Frame, UsersFrame, IsAt, WritesIn, ReadsIn
<1>2. /\ WritersOf(s, i)' = WritersOf(s, i)
      /\ ReadersOf(s, i)' = ReadersOf(s, i)
  BY <1>1, Sets
<1> QED BY <1>2 DEF LockSays

\* A step from outside the blocks to outside them.
LEMMA LocksIf ==
  ASSUME Types, LockWords, NEW x \in Users, Frame(x), LocksKept,
         pc[x] \notin Inner, pc'[x] \notin Inner
  PROVE  LockWords'
<1> SUFFICES ASSUME NEW s \in (1..Len(segs)) \ spoiled, NEW i \in Index
             PROVE  LockSays(s, i)'
  <2>1. Len(segs') = Len(segs) /\ spoiled \subseteq spoiled'
    BY DEF LocksKept, Frame, HistoryGrows
  <2>2. (1..Len(segs')) \ spoiled' \subseteq (1..Len(segs)) \ spoiled
    BY <2>1
  <2> QED BY <2>2 DEF LockWords, LockSays
<1>1. LockSays(s, i) /\ segs'[s].lock[i] = segs[s].lock[i]
  BY DEF LockWords, LockSays, LocksKept
<1>2. ~WritesIn(x) /\ ~ReadsIn(x) /\ ~WritesIn(x)' /\ ~ReadsIn(x)'
  BY DEF Inner, WritesIn, ReadsIn
<1> QED BY <1>1, <1>2, SaysSame

\* A step inside a block that leaves the locks.
LEMMA LocksInside ==
  ASSUME Types, LockWords, NEW x \in Users, Frame(x), LocksKept,
         at'[x] = at[x], loc'[x].idx = loc[x].idx,
         \/ /\ pc[x] \in {"bump", "fill", "filled", "written"}
            /\ pc'[x] \in {"bump", "fill", "filled", "written"}
         \/ pc[x] \in {"read", "release"} /\ pc'[x] \in {"read", "release"}
  PROVE  LockWords'
<1> SUFFICES ASSUME NEW s \in (1..Len(segs)) \ spoiled, NEW i \in Index
             PROVE  LockSays(s, i)'
  <2>1. Len(segs') = Len(segs) /\ spoiled \subseteq spoiled'
    BY DEF LocksKept, Frame, HistoryGrows
  <2>2. (1..Len(segs')) \ spoiled' \subseteq (1..Len(segs)) \ spoiled
    BY <2>1
  <2> QED BY <2>2 DEF LockWords, LockSays
<1>1. LockSays(s, i) /\ segs'[s].lock[i] = segs[s].lock[i]
  BY DEF LockWords, LockSays, LocksKept
<1>2. IsAt(x, s, i)' = IsAt(x, s, i)
  BY DEF IsAt
<1>3. WritesIn(x)' = WritesIn(x) /\ ReadsIn(x)' = ReadsIn(x)
  BY DEF WritesIn, ReadsIn
<1>4. CASE IsAt(x, s, i)
  BY <1>1, <1>2, <1>3, <1>4, SaysSame
<1>5. CASE ~IsAt(x, s, i)
  BY <1>1, <1>2, <1>5, SaysSame
<1> QED BY <1>4, <1>5

\* A step that enters or leaves the block it has chosen, and changes its lock.
LEMMA LocksAt ==
  ASSUME Types, LockWords, NEW x \in Users, Frame(x), OnlyMine(x), at[x] \in 1..Len(segs),
         at'[x] = at[x], NEW v \in Int,
         segs'[at[x]].lock = [mine(x).lock EXCEPT ![idx(x)] = v],
         loc'[x].idx = idx(x) \/ pc'[x] \notin Inner,
         \A s \in 1..Len(segs), i \in Index :
           s = at[x] /\ i = idx(x) /\ s \notin spoiled' => LockSays(s, i)'
  PROVE  LockWords'
<1> SUFFICES ASSUME NEW s \in (1..Len(segs)) \ spoiled', NEW i \in Index
             PROVE  LockSays(s, i)'
  BY DEF LockWords, LockSays, OnlyMine
<1>1. s \notin spoiled
  BY DEF Frame, HistoryGrows
<1>2. LockSays(s, i)
  BY <1>1 DEF LockWords, LockSays
<1>3. CASE s = at[x] /\ i = idx(x)
  <2>1. s \in 1..Len(segs) /\ s \notin spoiled'
    BY DEF OnlyMine
  <2> QED BY <1>3, <2>1
<1>4. CASE ~(s = at[x] /\ i = idx(x))
  <2>1. ~IsAt(x, s, i)
    BY <1>4 DEF IsAt, idx
  <2>2. ~(IsAt(x, s, i)' /\ (WritesIn(x)' \/ ReadsIn(x)'))
    BY <1>4 DEF IsAt, idx, Inner, WritesIn, ReadsIn
  <2>3. segs'[s].lock[i] = segs[s].lock[i]
    <3>1. CASE s # at[x]
      BY <3>1 DEF OnlyMine
    <3>2. CASE s = at[x] /\ i # idx(x)
      <4>1. mine(x).lock \in [Index -> Int]
        BY MemoryFields, Typed DEF mine
      <4> QED BY <3>2, <4>1 DEF mine
    <3> QED BY <1>4, <3>1, <3>2
  <2> QED BY <1>2, <2>1, <2>2, <2>3, SaysSame
<1> QED BY <1>3, <1>4

LEMMA Company ==
  ASSUME NEW x \in Users, Frame(x), NEW s, NEW i
  PROVE  /\ WritersOf(s, i)' \ {x} = WritersOf(s, i) \ {x}
         /\ ReadersOf(s, i)' \ {x} = ReadersOf(s, i) \ {x}
         /\ x \in WritersOf(s, i)' <=> IsAt(x, s, i)' /\ WritesIn(x)'
         /\ x \in ReadersOf(s, i)' <=> IsAt(x, s, i)' /\ ReadsIn(x)'
         /\ x \in WritersOf(s, i) <=> IsAt(x, s, i) /\ WritesIn(x)
         /\ x \in ReadersOf(s, i) <=> IsAt(x, s, i) /\ ReadsIn(x)
<1>1. \A u \in Users : u # x => /\ IsAt(u, s, i)' = IsAt(u, s, i)
                                /\ WritesIn(u)' = WritesIn(u) /\ ReadsIn(u)' = ReadsIn(u)
  BY DEF Frame, UsersFrame, IsAt, WritesIn, ReadsIn
<1> QED BY <1>1, Sets

LEMMA Emptied ==
  ASSUME NEW S, IsFiniteSet(S), NEW x \in S, Cardinality(S) = 1
  PROVE  S = {x}
<1>1. IsFiniteSet(S \ {x}) /\ Cardinality(S \ {x}) = 0
  BY FS_RemoveElement
<1>2. S \ {x} = {}
  BY <1>1, FS_EmptySet
<1> QED BY <1>2

\* The lock of a block somebody is in, of one that is free, and of one that is read.
LEMMA LockTells ==
  ASSUME NEW s, NEW i, LockSays(s, i)
  PROVE  /\ \A x \in WritersOf(s, i) : /\ WritersOf(s, i) = {x} /\ ReadersOf(s, i) = {}
                                       /\ segs[s].lock[i] = -1
         /\ ReadersOf(s, i) # {} \/ segs[s].lock[i] >= 0 =>
              WritersOf(s, i) = {} /\ segs[s].lock[i] = Cardinality(ReadersOf(s, i))
         /\ segs[s].lock[i] = 0 => WritersOf(s, i) = {} /\ ReadersOf(s, i) = {}
<1>1. IsFiniteSet(WritersOf(s, i)) /\ IsFiniteSet(ReadersOf(s, i))
  BY Sets
<1>2. CASE /\ Cardinality(WritersOf(s, i)) = 1 /\ ReadersOf(s, i) = {}
           /\ segs[s].lock[i] = kWriteExclusive
  <2>1. segs[s].lock[i] = -1
    BY <1>2 DEF kWriteExclusive
  <2>2. \A x \in WritersOf(s, i) : WritersOf(s, i) = {x}
    BY <1>1, <1>2, Emptied
  <2> QED BY <1>2, <2>1, <2>2
<1>3. CASE /\ WritersOf(s, i) = {}
           /\ segs[s].lock[i] = Cardinality(ReadersOf(s, i))
  BY <1>1, <1>3, FS_EmptySet
<1> QED BY <1>2, <1>3 DEF LockSays

LEMMA LocksTaken ==
  ASSUME Types, LockWords, NEW w \in Writers, Lock(w), Frame(w)
  PROVE  LockWords'
<1>1. w \in Users /\ pc[w] = "lock" /\ at[w] \in 1..Len(segs) /\ idx(w) \in Index
  BY LockDoes, Who
<1>2. CASE /\ mine(w).lock[idx(w)] = 0 /\ OnlyMine(w)
           /\ segs'[at[w]].lock = [mine(w).lock EXCEPT ![idx(w)] = kWriteExclusive]
           /\ Moved(w, at[w], conf[w], "bump") /\ loc'[w].idx = loc[w].idx
  <2>1. at'[w] = at[w] /\ pc'[w] = "bump" /\ loc'[w].idx = idx(w) /\ kWriteExclusive \in Int
    BY <1>2 DEF Moved, IAm, idx, kWriteExclusive
  <2>2. ASSUME NEW s \in 1..Len(segs), NEW i \in Index,
               s = at[w], i = idx(w), s \notin spoiled'
        PROVE  LockSays(s, i)'
    <3>1. LockSays(s, i) /\ segs[s].lock[i] = 0
      BY <1>2, <2>2 DEF LockWords, LockSays, mine, Frame, HistoryGrows
    <3>2. WritersOf(s, i) = {} /\ ReadersOf(s, i) = {}
      BY <3>1, LockTells
    <3>3. IsAt(w, s, i)' /\ WritesIn(w)' /\ ~ReadsIn(w)'
      BY <2>1, <2>2 DEF IsAt, WritesIn, ReadsIn
    <3>4. WritersOf(s, i)' = {w} /\ ReadersOf(s, i)' = {}
      BY <1>1, <3>2, <3>3, Company
    <3>5. Cardinality(WritersOf(s, i)') = 1
      BY <3>4, FS_Singleton
    <3>6. mine(w).lock \in [Index -> Int]
      BY <1>1, MemoryFields, Typed DEF mine
    <3>7. segs'[s].lock[i] = kWriteExclusive
      BY <1>2, <2>2, <3>6
    <3> QED BY <3>4, <3>5, <3>7 DEF LockSays
  <2> QED BY <1>1, <1>2, <2>1, <2>2, LocksAt
<1>3. CASE UNCHANGED segs /\ Moved(w, at[w], conf[w], "lock")
  BY <1>1, <1>3, AllKept, LocksIf DEF Moved, IAm, Inner
<1> QED BY <1>2, <1>3, LockDoes DEF Memory1, MineIs, Local1, MyLocals

\* A writer leaves its block.
LEMMA LocksLeft ==
  ASSUME Types, LockWords, NEW w \in Writers, Refuse(w) \/ ReleaseWrittenBlock(w), Frame(w)
  PROVE  LockWords'
<1>1. /\ w \in Users /\ pc[w] \in {"fill", "written"} /\ at[w] \in 1..Len(segs)
      /\ idx(w) \in Index /\ OnlyMine(w)
      /\ segs'[at[w]].lock = [mine(w).lock EXCEPT ![idx(w)] = mine(w).lock[idx(w)] + 1]
      /\ mine(w).lock \in [Index -> Int]
  BY RefuseDoes, WrittenDoes, Who, MemoryFields DEF Memory1, MineIs, Mapped
<1>2. at'[w] = at[w] /\ pc'[w] \notin Inner
  <2>1. CASE Refuse(w)
    BY <2>1, RefuseDoes, HomeWriter DEF Moved, IAm, Inner
  <2>2. CASE ReleaseWrittenBlock(w)
    BY <2>2, WrittenDoes DEF Moved, IAm, Inner
  <2> QED BY <2>1, <2>2
<1>3. mine(w).lock[idx(w)] + 1 \in Int
  BY <1>1
<1>4. ASSUME NEW s \in 1..Len(segs), NEW i \in Index,
             s = at[w], i = idx(w), s \notin spoiled'
      PROVE  LockSays(s, i)'
  <2>1. LockSays(s, i)
    BY <1>4 DEF LockWords, LockSays, Frame, HistoryGrows
  <2>2. w \in WritersOf(s, i)
    BY <1>1, <1>4, Sets DEF IsAt, WritesIn, idx
  <2>3. WritersOf(s, i) = {w} /\ ReadersOf(s, i) = {} /\ segs[s].lock[i] = -1
    BY <2>1, <2>2, LockTells
  <2>4. ~WritesIn(w)' /\ ~ReadsIn(w)'
    BY <1>2 DEF Inner, WritesIn, ReadsIn
  <2>5. WritersOf(s, i)' = {} /\ ReadersOf(s, i)' = {}
    BY <1>1, <2>3, <2>4, Company
  <2>6. segs'[s].lock[i] = mine(w).lock[idx(w)] + 1 /\ mine(w).lock[idx(w)] = -1
    BY <1>1, <1>4, <2>3 DEF mine
  <2>7. segs'[s].lock[i] = 0
    BY <2>6
  <2> QED BY <2>5, <2>7, FS_EmptySet DEF LockSays
<1> QED BY <1>1, <1>2, <1>3, <1>4, LocksAt

LEMMA LocksRead ==
  ASSUME Types, LockWords, NEW r \in Readers, Take(r), Frame(r)
  PROVE  LockWords'
<1>1. r \in Users /\ pc[r] = "take" /\ at[r] \in 1..Len(segs) /\ idx(r) \in Index
      /\ loc[r].lock_num \in Int /\ loc[r].lock_num >= 0 /\ mine(r).lock \in [Index -> Int]
  <2>1. r \in Users /\ pc[r] = "take" /\ at[r] \in 1..Len(segs) /\ idx(r) \in Index
        /\ mine(r) \in Memory /\ loc[r] \in Local
    BY TakeDoes, Who DEF Mapped
  <2>2. loc[r].lock_num >= 0
    BY <2>1 DEF Types, Steps
  <2> QED BY <2>1, <2>2, MemoryFields, LocalFields
<1>2. CASE /\ mine(r).lock[idx(r)] = loc[r].lock_num /\ OnlyMine(r)
           /\ segs'[at[r]].lock = [mine(r).lock EXCEPT ![idx(r)] = mine(r).lock[idx(r)] + 1]
           /\ Moved(r, at[r], conf[r], "read") /\ UNCHANGED loc
  <2>1. at'[r] = at[r] /\ pc'[r] = "read" /\ loc'[r].idx = idx(r)
        /\ mine(r).lock[idx(r)] + 1 \in Int
    BY <1>1, <1>2 DEF Moved, IAm, idx
  <2>2. ASSUME NEW s \in 1..Len(segs), NEW i \in Index,
               s = at[r], i = idx(r), s \notin spoiled'
        PROVE  LockSays(s, i)'
    <3>1. LockSays(s, i) /\ segs[s].lock[i] = loc[r].lock_num
      BY <1>2, <2>2 DEF LockWords, LockSays, mine, Frame, HistoryGrows
    <3>2. WritersOf(s, i) = {} /\ segs[s].lock[i] = Cardinality(ReadersOf(s, i))
      BY <1>1, <3>1, LockTells
    <3>3. IsAt(r, s, i)' /\ ~WritesIn(r)' /\ ReadsIn(r)' /\ ~ReadsIn(r)
      BY <1>1, <2>1, <2>2 DEF IsAt, WritesIn, ReadsIn
    <3>4. /\ WritersOf(s, i)' = {} /\ ReadersOf(s, i)' = ReadersOf(s, i) \cup {r}
          /\ r \notin ReadersOf(s, i)
      BY <1>1, <3>2, <3>3, Company
    <3>5. Cardinality(ReadersOf(s, i) \cup {r}) = Cardinality(ReadersOf(s, i)) + 1
      <4> DEFINE R == ReadersOf(s, i)
      <4>1. IsFiniteSet(R) /\ r \notin R
        BY <3>4, Sets
      <4> HIDE DEF R
      <4>2. Cardinality(R \cup {r}) = Cardinality(R) + 1
        BY <4>1, FS_AddElement
      <4> QED BY <4>2 DEF R
    <3>6. segs'[s].lock[i] = mine(r).lock[idx(r)] + 1 /\ mine(r).lock[idx(r)] = segs[s].lock[i]
      BY <1>1, <1>2, <2>2 DEF mine
    <3>7. segs'[s].lock[i] = Cardinality(ReadersOf(s, i)')
      BY <3>2, <3>4, <3>5, <3>6
    <3> QED BY <3>4, <3>7 DEF LockSays
  <2> QED BY <1>1, <1>2, <2>1, <2>2, LocksAt
<1>3. CASE UNCHANGED segs /\ (Moved(r, at[r], conf[r], "peek") \/ Return(r))
  <2>1. pc'[r] \in {"peek", "listen"}
    <3>1. CASE Moved(r, at[r], conf[r], "peek")
      BY <3>1 DEF Moved, IAm
    <3>2. CASE Return(r)
      BY <3>2, HomeReader DEF Moved, IAm, Take
    <3> QED BY <1>3, <3>1, <3>2
  <2> QED BY <1>1, <1>3, <2>1, AllKept, LocksIf DEF Inner
<1> QED BY <1>2, <1>3, TakeDoes DEF Memory1, MineIs

LEMMA LocksReleased ==
  ASSUME Types, LockWords, NEW r \in Readers, ReleaseReadBlock(r), Frame(r)
  PROVE  LockWords'
<1>1. /\ r \in Users /\ pc[r] = "release" /\ at[r] \in 1..Len(segs)
      /\ idx(r) \in Index /\ OnlyMine(r)
      /\ segs'[at[r]].lock = [mine(r).lock EXCEPT ![idx(r)] = mine(r).lock[idx(r)] - 1]
      /\ mine(r).lock \in [Index -> Int]
  BY ReleaseDoes, Who, MemoryFields DEF Memory1, MineIs, Mapped
<1>2. at'[r] = at[r] /\ pc'[r] = "listen"
  BY ReleaseDoes, HomeReader DEF Moved, IAm
<1>3. mine(r).lock[idx(r)] - 1 \in Int
  BY <1>1
<1>4. ASSUME NEW s \in 1..Len(segs), NEW i \in Index,
             s = at[r], i = idx(r), s \notin spoiled'
      PROVE  LockSays(s, i)'
  <2>1. LockSays(s, i)
    BY <1>4 DEF LockWords, LockSays, Frame, HistoryGrows
  <2>2. r \in ReadersOf(s, i)
    BY <1>1, <1>4, Sets DEF IsAt, ReadsIn, idx
  <2>3. WritersOf(s, i) = {} /\ segs[s].lock[i] = Cardinality(ReadersOf(s, i))
    BY <2>1, <2>2, LockTells
  <2>4. ~WritesIn(r)' /\ ~ReadsIn(r)'
    BY <1>2 DEF WritesIn, ReadsIn
  <2>5. WritersOf(s, i)' = {} /\ ReadersOf(s, i)' = ReadersOf(s, i) \ {r}
    BY <1>1, <2>3, <2>4, Company
  <2>6. Cardinality(ReadersOf(s, i) \ {r}) = Cardinality(ReadersOf(s, i)) - 1
    <3> DEFINE R == ReadersOf(s, i)
    <3>1. IsFiniteSet(R) /\ r \in R
      BY <2>2, Sets
    <3> HIDE DEF R
    <3>2. Cardinality(R \ {r}) = Cardinality(R) - 1
      BY <3>1, FS_RemoveElement
    <3> QED BY <3>2 DEF R
  <2>7. segs'[s].lock[i] = mine(r).lock[idx(r)] - 1 /\ mine(r).lock[idx(r)] = segs[s].lock[i]
    BY <1>1, <1>4 DEF mine
  <2>8. segs'[s].lock[i] = Cardinality(ReadersOf(s, i)')
    BY <2>3, <2>5, <2>6, <2>7
  <2> QED BY <2>5, <2>8 DEF LockSays
<1> QED BY <1>1, <1>2, <1>3, <1>4, LocksAt DEF Inner

\* A new segment, and its blocks: Alone keeps everybody else out of it.
LEMMA LocksMade ==
  ASSUME Types, LockWords, Alone, NEW u \in Users \ dead, Create(u) \/ MakeBlocks(u), Frame(u)
  PROVE  LockWords'
<1>1. CASE Create(u) /\ key = 0
  <2>1. /\ Len(segs) \in Nat /\ Len(segs') = Len(segs) + 1
        /\ segs'[Len(segs) + 1].lock = [i \in Index |-> 0]
        /\ \A s \in 1..Len(segs) : segs'[s] = segs[s]
        /\ pc[u] = "create" /\ pc'[u] = "state" /\ at'[u] = Len(segs) + 1
    BY <1>1, CreateDoes, Typed DEF NewMemory, Moved, IAm
  <2>2. ~WritesIn(u) /\ ~ReadsIn(u) /\ ~WritesIn(u)' /\ ~ReadsIn(u)'
    BY <2>1 DEF WritesIn, ReadsIn
  <2> SUFFICES ASSUME NEW s \in (1..Len(segs')) \ spoiled', NEW i \in Index
               PROVE  LockSays(s, i)'
    BY DEF LockWords, LockSays
  <2>3. CASE s \in 1..Len(segs)
    <3>1. LockSays(s, i)
      BY <2>3 DEF LockWords, LockSays, Frame, HistoryGrows
    <3> QED BY <2>1, <2>2, <2>3, <3>1, SaysSame
  <2>4. CASE s = Len(segs) + 1
    <3>1. \A v \in Users : at[v] # s
      BY <2>1, <2>4, Who
    <3>2. WritersOf(s, i) = {} /\ ReadersOf(s, i) = {}
      BY <3>1, Sets DEF IsAt
    <3>3. WritersOf(s, i)' = {} /\ ReadersOf(s, i)' = {}
      BY <2>2, <3>2, Company
    <3>4. segs'[s].lock[i] = 0
      BY <2>1, <2>4
    <3> QED BY <3>3, <3>4, FS_EmptySet DEF LockSays
  <2> QED BY <2>1, <2>3, <2>4
<1>2. CASE Create(u) /\ key # 0
  <2>1. pc[u] = "create" /\ pc'[u] = "get" /\ UNCHANGED segs
    BY <1>2, CreateDoes DEF Moved, IAm, memory
  <2> QED BY <2>1, AllKept, LocksIf DEF Inner
<1>3. CASE MakeBlocks(u)
  <2>1. /\ pc[u] = "blocks" /\ pc'[u] = "count" /\ at'[u] = at[u] /\ at[u] \in 1..Len(segs)
        /\ OnlyMine(u) /\ segs'[at[u]].lock = [i \in Index |-> 0]
    BY <1>3, MakeBlocksDoes DEF Memory1, MineIs, Moved, IAm
  <2>2. ~WritesIn(u) /\ ~ReadsIn(u) /\ ~WritesIn(u)' /\ ~ReadsIn(u)'
    BY <2>1 DEF WritesIn, ReadsIn
  <2> SUFFICES ASSUME NEW s \in (1..Len(segs)) \ spoiled', NEW i \in Index
               PROVE  LockSays(s, i)'
    BY <2>1 DEF LockWords, LockSays, OnlyMine
  <2>3. s \notin spoiled /\ LockSays(s, i)
    BY DEF LockWords, LockSays, Frame, HistoryGrows
  <2>4. CASE s = at[u]
    <3>1. \A v \in Users : v # u => at[v] # s
      BY <2>1, <2>3, <2>4 DEF Alone
    <3>2. WritersOf(s, i) = {} /\ ReadersOf(s, i) = {}
      BY <2>2, <3>1, Sets DEF IsAt
    <3>3. WritersOf(s, i)' = {} /\ ReadersOf(s, i)' = {}
      BY <2>2, <3>2, Company
    <3>4. segs'[s].lock[i] = 0
      BY <2>1, <2>4
    <3> QED BY <3>3, <3>4, FS_EmptySet DEF LockSays
  <2>5. CASE s # at[u]
    <3>1. segs'[s] = segs[s]
      BY <2>1, <2>5 DEF OnlyMine
    <3> QED BY <2>2, <2>3, <3>1, SaysSame
  <2> QED BY <2>4, <2>5
<1> QED BY <1>1, <1>2, <1>3

LEMMA LocksNext ==
  ASSUME Types, LockWords, Alone, [Next]_vars
  PROVE  LockWords'
<1>1. CASE \E u \in Users \ dead : OpenOrClose(u) /\ UNCHANGED dead
  <2>1. PICK u \in Users \ dead : OpenOrClose(u)
    BY <1>1
  <2> QED BY <2>1, FrameOpen, OpenKeeps, OpenOutside, LocksMade, LocksIf
<1>2. CASE \E w \in Writers \ dead : Write(w) /\ UNCHANGED dead
  <2>1. PICK w \in Writers : Write(w)
    BY <1>2
  <2>2. Frame(w) /\ w \in Users
    BY <2>1, FrameWrite, Who
  <2>3. CASE Lock(w) \/ Refuse(w) \/ ReleaseWrittenBlock(w)
    BY <2>2, <2>3, LocksTaken, LocksLeft
  <2>4. CASE LocksKept /\ (IncreaseWroteNum(w) \/ Fill(w) \/ Filled(w))
    <3>1. at'[w] = at[w] /\ pc[w] \in {"bump", "fill", "filled"} /\ pc'[w] \in {"fill", "filled", "written"}
          /\ UNCHANGED loc
      BY <2>4, BumpDoes, FillDoes, FilledDoes DEF Moved, IAm
    <3> QED BY <2>2, <2>4, <3>1, LocksInside
  <2>5. CASE LocksKept /\ (Transmit(w) \/ Check(w) \/ RemoveSegment(w) \/ Load(w) \/ Notify(w))
    <3>1. pc[w] \notin Inner
      BY <2>5, TransmitDoes, CheckDoes, RemoveDoes, LoadDoes, NotifyDoes DEF Inner
    <3>2. pc'[w] \notin Inner
      <4>1. CASE Notify(w)
        BY <4>1, NotifyDoes, HomeWriter DEF Moved, IAm, Inner
      <4>2. CASE ~Notify(w)
        BY <2>5, <4>2, TransmitDoes, CheckDoes, RemoveDoes, LoadDoes DEF Moved, IAm, Inner
      <4> QED BY <4>1, <4>2
    <3> QED BY <2>2, <2>5, <3>1, <3>2, LocksIf
  <2> QED BY <2>1, <2>3, <2>4, <2>5, WriteKeeps DEF Write
<1>3. CASE \E w \in Writers \ dead : Size(w)
  BY <1>3, FrameSize, SizeKeeps, SizeOutside, LocksIf, Who
<1>4. CASE \E r \in Readers \ dead : Read(r) /\ UNCHANGED dead
  <2>1. PICK r \in Readers : Read(r)
    BY <1>4
  <2>2. Frame(r) /\ r \in Users
    BY <2>1, FrameRead, Who
  <2>3. CASE Take(r) \/ ReleaseReadBlock(r)
    BY <2>2, <2>3, LocksRead, LocksReleased
  <2>4. CASE LocksKept /\ ReadMessage(r)
    <3>1. pc[r] = "read" /\ pc'[r] = "release" /\ at'[r] = at[r] /\ loc'[r].idx = loc[r].idx
      BY <2>4, ReadDoes DEF Moved, IAm, Local1, MyLocals
    <3> QED BY <2>2, <2>4, <3>1, LocksInside
  <2>5. CASE LocksKept /\ (Listen(r) \/ CheckIndex(r) \/ Peek(r) \/ Stray(r))
    <3>1. pc[r] \in {"listen", "range", "peek"}
      BY <2>5, ListenDoes, CheckIndexDoes, PeekDoes, StrayDoes
    <3>2. pc'[r] \in {"listen", "get", "range", "peek", "take"}
      <4>1. CASE Return(r)
        <5>1. r \notin Writers /\ pc \in [Users -> WriterSteps \cup ReaderSteps]
          BY Who, Typed
        <5> QED BY <2>2, <4>1, <5>1 DEF Return, Goto
      <4>2. CASE ~Return(r)
        BY <2>5, <4>2, ListenDoes, CheckIndexDoes, PeekDoes, StrayDoes DEF Moved, IAm
      <4> QED BY <4>1, <4>2
    <3> QED BY <2>2, <2>5, <3>1, <3>2, LocksIf DEF Inner
  <2> QED BY <2>1, <2>3, <2>4, <2>5, ReadKeeps DEF Read
<1>5. CASE UNCHANGED <<memory, users, infos, count, spoiled, came, left>>
  <2>1. UNCHANGED <<segs, at, pc, loc, spoiled>>
    BY <1>5 DEF memory, users
  <2>2. \A s, i : WritersOf(s, i)' = WritersOf(s, i) /\ ReadersOf(s, i)' = ReadersOf(s, i)
    BY <2>1 DEF WritersOf, ReadersOf, Inside
  <2> QED BY <2>1, <2>2 DEF LockWords
<1> QED BY <1>1, <1>2, <1>3, <1>4, <1>5, Someone

-----------------------------------------------------------------------------
(* Layouts, and the contents of the blocks *)

LEMMA LayoutIf ==
  ASSUME Types, Layout, NEW x \in Users, Frame(x), CeilingsKept,
         at'[x] = 0 \/ (at'[x] = at[x] /\ conf'[x] = conf[x] /\ pc[x] # "state")
  PROVE  Layout'
<1> SUFFICES ASSUME NEW u \in Users, at'[u] \notin spoiled' \cup {0}, pc'[u] # "state"
             PROVE  conf'[u] = GetCeilingMessageSize(segs'[at'[u]].ceiling)
  BY DEF Layout
<1>1. /\ at'[u] = at[u] /\ conf'[u] = conf[u] /\ pc[u] # "state"
      /\ spoiled \subseteq spoiled' /\ at[u] \in 0..Len(segs)
  BY Who DEF Frame, UsersFrame, HistoryGrows
<1>2. conf[u] = GetCeilingMessageSize(segs[at[u]].ceiling) /\ at[u] # 0
  BY <1>1 DEF Layout
<1>3. segs'[at[u]].ceiling = segs[at[u]].ceiling
  <2>1. at[u] \in 1..Len(segs)
    BY <1>1, <1>2, Typed
  <2> QED BY <2>1 DEF CeilingsKept
<1> QED BY <1>1, <1>2, <1>3

LEMMA LayoutNext ==
  ASSUME Types, Layout, Alone, [Next]_vars
  PROVE  Layout'
<1>1. CASE \E u \in Users \ dead : OpenOrClose(u) /\ UNCHANGED dead
  <2>1. PICK x \in Users \ dead : OpenOrClose(x)
    BY <1>1
  <2>2. Frame(x)
    BY <2>1, FrameOpen
  <2>3. CASE Create(x) /\ key = 0
    <3>1. /\ at'[x] = Len(segs) + 1 /\ pc'[x] = "state"
          /\ \A s \in 1..Len(segs) : segs'[s] = segs[s]
      BY <2>3, CreateDoes DEF Moved, IAm
    <3> SUFFICES ASSUME NEW u \in Users, at'[u] \notin spoiled' \cup {0}, pc'[u] # "state"
                 PROVE  conf'[u] = GetCeilingMessageSize(segs'[at'[u]].ceiling)
      BY DEF Layout
    <3>2. /\ at'[u] = at[u] /\ conf'[u] = conf[u] /\ pc[u] # "state"
          /\ spoiled \subseteq spoiled' /\ at[u] \in 0..Len(segs) /\ at[u] # 0
      BY <2>2, <3>1, Who DEF Frame, UsersFrame, HistoryGrows
    <3>3. segs'[at[u]] = segs[at[u]]
      BY <3>1, <3>2, Typed
    <3> QED BY <3>2, <3>3 DEF Layout
  <2>4. CASE Create(x) /\ key # 0
    <3>1. pc[x] = "create" /\ at'[x] = at[x] /\ conf'[x] = conf[x] /\ UNCHANGED segs
      BY <2>4, CreateDoes DEF Moved, IAm, memory
    <3> QED BY <2>2, <3>1, AllKept, LayoutIf
  <2>5. CASE MakeState(x)
    <3>1. /\ at'[x] = at[x] /\ conf'[x] = conf[x] /\ pc[x] = "state" /\ at[x] # 0
          /\ OnlyMine(x) /\ segs'[at[x]].ceiling = conf[x] /\ conf[x] \in Ceilings
      <4>1. /\ pc[x] = "state" /\ at[x] \in 1..Len(segs) /\ OnlyMine(x)
            /\ Moved(x, at[x], conf[x], "blocks") /\ segs'[at[x]].ceiling = conf[x]
        BY <2>5, MakeStateDoes DEF Memory1, MineIs
      <4>2. conf[x] \in Ceilings /\ at[x] # 0
        BY <4>1, Who
      <4> QED BY <4>1, <4>2 DEF Moved, IAm
    <3> SUFFICES ASSUME NEW u \in Users, at'[u] \notin spoiled' \cup {0}, pc'[u] # "state"
                 PROVE  conf'[u] = GetCeilingMessageSize(segs'[at'[u]].ceiling)
      BY DEF Layout
    <3>2. CASE u = x
      BY <3>1, <3>2, Layouts
    <3>3. CASE u # x
      <4>1. /\ at'[u] = at[u] /\ conf'[u] = conf[u] /\ pc[u] # "state"
            /\ spoiled \subseteq spoiled' /\ at[u] \in 0..Len(segs) /\ at[u] # 0
        BY <2>2, <3>3, Who DEF Frame, UsersFrame, HistoryGrows
      <4>2. at[u] # at[x]
        BY <3>1, <3>3, <4>1 DEF Alone
      <4>3. segs'[at[u]] = segs[at[u]]
        <5>1. at[u] \in 1..Len(segs)
          BY <4>1, Typed
        <5> QED BY <3>1, <4>2, <5>1 DEF OnlyMine
      <4> QED BY <4>1, <4>3 DEF Layout
    <3> QED BY <3>2, <3>3
  <2>6. CASE Get(x)
    <3>1. CASE key # 0
      <4>1. /\ at'[x] = key /\ conf'[x] = GetCeilingMessageSize(segs[key].ceiling)
            /\ UNCHANGED segs
        BY <2>6, <3>1, GetDoes DEF Moved, IAm, memory
      <4> SUFFICES ASSUME NEW u \in Users, at'[u] \notin spoiled' \cup {0}, pc'[u] # "state"
                   PROVE  conf'[u] = GetCeilingMessageSize(segs'[at'[u]].ceiling)
        BY DEF Layout
      <4>2. CASE u = x
        BY <4>1, <4>2
      <4>3. CASE u # x
        <5>1. /\ at'[u] = at[u] /\ conf'[u] = conf[u] /\ pc[u] # "state"
              /\ spoiled \subseteq spoiled'
          BY <2>2, <4>3 DEF Frame, UsersFrame, HistoryGrows
        <5> QED BY <4>1, <5>1 DEF Layout
      <4> QED BY <4>2, <4>3
    <3>2. CASE key = 0
      <4>1. pc[x] = "get" /\ at'[x] = at[x] /\ conf'[x] = conf[x] /\ UNCHANGED segs
        BY <2>6, <3>2, GetDoes DEF Moved, IAm, memory
      <4> QED BY <2>2, <4>1, AllKept, LayoutIf
    <3> QED BY <3>1, <3>2
  <2>7. CASE MakeBlocks(x) \/ IncreaseReferenceCounts(x) \/ Destroy(x) \/ Last(x)
    <3>1. CeilingsKept
      <4>1. CASE Last(x)
        BY <4>1, LastDoes, AllKept
      <4>2. CASE ~Last(x)
        BY <2>7, <4>2, Kept, MakeBlocksDoes, CountDoes, DestroyDoes DEF Memory1, MineIs
      <4> QED BY <4>1, <4>2
    <3>2. pc[x] # "state"
      BY <2>7, MakeBlocksDoes, CountDoes, DestroyDoes, LastDoes
    <3>3. at'[x] = 0 \/ (at'[x] = at[x] /\ conf'[x] = conf[x])
      BY <2>7, MakeBlocksDoes, CountDoes, DestroyDoes, LastDoes DEF Moved, IAm
    <3> QED BY <2>2, <3>1, <3>2, <3>3, LayoutIf
  <2> QED BY <2>1, <2>3, <2>4, <2>5, <2>6, <2>7 DEF OpenOrClose
<1>2. CASE \E w \in Writers \ dead : Write(w) \/ Size(w)
  <2>1. PICK w \in Writers : Write(w) \/ Size(w)
    BY <1>2
  <2>2. w \in Users /\ Frame(w) /\ CeilingsKept
    BY <2>1, Who, FrameWrite, FrameSize, WriteKeeps, SizeKeeps
  <2> QED BY <2>1, <2>2, Workings, LayoutIf
<1>3. CASE \E r \in Readers \ dead : Read(r) /\ UNCHANGED dead
  <2>1. PICK r \in Readers : Read(r)
    BY <1>3
  <2>2. r \in Users /\ Frame(r) /\ CeilingsKept
    BY <2>1, Who, FrameRead, ReadKeeps
  <2> QED BY <2>1, <2>2, Workings, LayoutIf
<1>4. CASE UNCHANGED <<memory, users, infos, count, spoiled, came, left>>
  BY <1>4 DEF Layout, memory, users
<1> QED BY <1>1, <1>2, <1>3, <1>4, Someone

LEMMA CleanIf ==
  ASSUME Types, Clean, NEW x \in Users, Frame(x), DataKept, pc[x] # "filled"
  PROVE  Clean'
<1> SUFFICES ASSUME NEW s \in (1..Len(segs')) \ spoiled', NEW i \in Index,
                    segs'[s].data[i] = Torn
             PROVE  Inside({"filled"}, s, i)' # {}
  BY DEF Clean
<1>1. s \in (1..Len(segs)) \ spoiled /\ segs[s].data[i] = Torn
  BY DEF DataKept, Frame, HistoryGrows
<1>2. PICK u \in Users : at[u] = s /\ loc[u].idx = i /\ pc[u] = "filled"
  BY <1>1 DEF Clean, Inside
<1>3. at'[u] = s /\ loc'[u].idx = i /\ pc'[u] = "filled"
  BY <1>2 DEF Frame, UsersFrame
<1> QED BY <1>3 DEF Inside

\* Serialising tears the block, and one that is done has left no other torn.
LEMMA CleanFill ==
  ASSUME Types, Clean, NEW w \in Writers, Fill(w), Frame(w)
  PROVE  Clean'
<1>1. PICK f \in [Index -> Int] :
        /\ OnlyMine(w) /\ segs'[at[w]].data = f
        /\ \/ spoiled' = spoiled \cup {at[w]}
           \/ spoiled' = spoiled /\ \A i \in Index : i # idx(w) => f[i] = mine(w).data[i]
  BY FillDoes DEF Memory1, MineIs
<1>2. /\ pc[w] = "fill" /\ pc'[w] = "filled" /\ at'[w] = at[w] /\ UNCHANGED loc
      /\ w \in Users
  BY FillDoes, Who DEF Moved, IAm
<1> SUFFICES ASSUME NEW s \in (1..Len(segs)) \ spoiled', NEW i \in Index,
                    segs'[s].data[i] = Torn
             PROVE  Inside({"filled"}, s, i)' # {}
  BY <1>1 DEF Clean, OnlyMine
<1>3. CASE s = at[w] /\ i = idx(w)
  BY <1>2, <1>3 DEF Inside, idx
<1>4. CASE ~(s = at[w] /\ i = idx(w))
  <2>1. segs[s].data[i] = Torn /\ s \notin spoiled
    BY <1>1, <1>4 DEF OnlyMine, mine, Frame, HistoryGrows
  <2>2. PICK u \in Users : at[u] = s /\ loc[u].idx = i /\ pc[u] = "filled"
    BY <2>1 DEF Clean, Inside
  <2>3. at'[u] = s /\ loc'[u].idx = i /\ pc'[u] = "filled"
    BY <1>2, <2>2 DEF Frame, UsersFrame
  <2> QED BY <2>3 DEF Inside
<1> QED BY <1>3, <1>4

LEMMA CleanFilled ==
  ASSUME Types, Clean, NEW w \in Writers, Filled(w), Frame(w)
  PROVE  Clean'
<1>1. /\ OnlyMine(w) /\ segs'[at[w]].data = [mine(w).data EXCEPT ![idx(w)] = loc[w].msg]
      /\ at[w] \in 1..Len(segs) /\ pc[w] = "filled" /\ w \in Users
  BY FilledDoes, Who DEF Memory1, MineIs
<1>2. mine(w).data \in [Index -> Int] /\ loc[w].msg \in 1..count /\ loc[w].msg # Torn
  <2>1. loc[w].msg \in 1..count /\ count \in Nat
    BY <1>1, Typed DEF Types, Steps, Sending
  <2>2. loc[w].msg # Torn
    BY <2>1 DEF Torn
  <2> QED BY <1>1, <2>1, <2>2, MemoryFields, Typed DEF mine
<1> SUFFICES ASSUME NEW s \in (1..Len(segs)) \ spoiled', NEW i \in Index,
                    segs'[s].data[i] = Torn
             PROVE  Inside({"filled"}, s, i)' # {}
  BY <1>1 DEF Clean, OnlyMine
<1>3. CASE s = at[w] /\ i = idx(w)
  BY <1>1, <1>2, <1>3
<1>4. CASE ~(s = at[w] /\ i = idx(w))
  <2>1. segs[s].data[i] = Torn /\ s \notin spoiled
    BY <1>1, <1>2, <1>4 DEF OnlyMine, mine, Frame, HistoryGrows
  <2>2. PICK u \in Users : at[u] = s /\ loc[u].idx = i /\ pc[u] = "filled"
    BY <2>1 DEF Clean, Inside
  <2>3. at'[u] = s /\ loc'[u].idx = i /\ pc'[u] = "filled"
    BY <1>4, <2>2 DEF Frame, UsersFrame, idx
  <2> QED BY <2>3 DEF Inside
<1> QED BY <1>3, <1>4

LEMMA WriterFilled ==
  ASSUME Types, NEW w \in Writers, Write(w), pc[w] = "filled"
  PROVE  Filled(w)
<1>1. CASE Transmit(w) \/ Check(w) \/ RemoveSegment(w) \/ Load(w) \/ Lock(w)
  BY <1>1, TransmitDoes, CheckDoes, RemoveDoes, LoadDoes, LockDoes
<1>2. CASE IncreaseWroteNum(w) \/ Fill(w) \/ Refuse(w) \/ ReleaseWrittenBlock(w) \/ Notify(w)
  BY <1>2, BumpDoes, FillDoes, RefuseDoes, WrittenDoes, NotifyDoes
<1> QED BY <1>1, <1>2 DEF Write

LEMMA CleanNext ==
  ASSUME Types, Clean, [Next]_vars
  PROVE  Clean'
<1>1. CASE \E u \in Users \ dead : OpenOrClose(u) /\ UNCHANGED dead
  <2>1. PICK u \in Users : OpenOrClose(u)
    BY <1>1
  <2>2. Frame(u) /\ pc[u] # "filled"
    BY <2>1, FrameOpen, OpenOutside DEF Inner
  <2>3. CASE Create(u) /\ key = 0
    <3>1. /\ Len(segs) \in Nat /\ Len(segs') = Len(segs) + 1
          /\ segs'[Len(segs) + 1].data = [i \in Index |-> Nothing]
          /\ \A s \in 1..Len(segs) : segs'[s] = segs[s]
      BY <2>3, CreateDoes, Typed DEF NewMemory
    <3> SUFFICES ASSUME NEW s \in (1..Len(segs')) \ spoiled', NEW i \in Index,
                        segs'[s].data[i] = Torn
                 PROVE  Inside({"filled"}, s, i)' # {}
      BY DEF Clean
    <3>2. s \in 1..Len(segs) \/ s = Len(segs) + 1
      BY <3>1
    <3>3. s \in (1..Len(segs)) \ spoiled /\ segs[s].data[i] = Torn
      BY <2>2, <3>1, <3>2 DEF Frame, HistoryGrows, Nothing, Torn
    <3>4. PICK v \in Users : at[v] = s /\ loc[v].idx = i /\ pc[v] = "filled"
      BY <3>3 DEF Clean, Inside
    <3>5. at'[v] = s /\ loc'[v].idx = i /\ pc'[v] = "filled"
      BY <2>2, <3>4 DEF Frame, UsersFrame
    <3> QED BY <3>5 DEF Inside
  <2>4. CASE Create(u) /\ key # 0
    <3>1. DataKept
      BY <2>4, CreateDoes, AllKept DEF memory
    <3> QED BY <2>2, <3>1, CleanIf
  <2> QED BY <2>1, <2>2, <2>3, <2>4, OpenKeeps, CleanIf
<1>2. CASE \E w \in Writers \ dead : Write(w) /\ UNCHANGED dead
  <2>1. PICK w \in Writers : Write(w)
    BY <1>2
  <2> QED BY <2>1, Who, FrameWrite, CleanFill, CleanFilled, WriterFilled, WriteKeeps, CleanIf
<1>3. CASE \E w \in Writers \ dead : Size(w)
  <2>1. PICK w \in Writers : Size(w)
    BY <1>3
  <2>2. pc[w] # "filled"
    BY <2>1, SizeDoes
  <2> QED BY <2>1, <2>2, Who, FrameSize, SizeKeeps, CleanIf
<1>4. CASE \E r \in Readers \ dead : Read(r) /\ UNCHANGED dead
  <2>1. PICK r \in Readers : Read(r)
    BY <1>4
  <2>2. r \in Users /\ Frame(r) /\ pc[r] # "filled"
    <3>1. pc[r] \in ReaderSteps
      BY Who
    <3> QED BY <2>1, <3>1, Who, FrameRead DEF ReaderSteps
  <2>3. CASE Stray(r) /\ segs' # segs
    <3>1. OnlyMine(r) /\ spoiled' = spoiled \cup {at[r]}
      BY <2>3, StrayDoes DEF Memory1
    <3> SUFFICES ASSUME NEW s \in (1..Len(segs)) \ spoiled', NEW i \in Index,
                        segs'[s].data[i] = Torn
                 PROVE  Inside({"filled"}, s, i)' # {}
      BY <3>1 DEF Clean, OnlyMine
    <3>2. s \in (1..Len(segs)) \ spoiled /\ segs[s].data[i] = Torn
      BY <3>1 DEF OnlyMine
    <3>4. PICK v \in Users : at[v] = s /\ loc[v].idx = i /\ pc[v] = "filled"
      BY <3>2 DEF Clean, Inside
    <3>5. at'[v] = s /\ loc'[v].idx = i /\ pc'[v] = "filled"
      BY <2>2, <3>4 DEF Frame, UsersFrame
    <3> QED BY <3>5 DEF Inside
  <2>4. CASE DataKept
    BY <2>2, <2>4, CleanIf
  <2> QED BY <2>1, <2>3, <2>4, ReadKeeps, AllKept
<1>5. CASE UNCHANGED <<memory, users, infos, count, spoiled, came, left>>
  <2>1. UNCHANGED <<segs, at, pc, loc, spoiled>>
    BY <1>5 DEF memory, users
  <2>2. \A s, i : Inside({"filled"}, s, i)' = Inside({"filled"}, s, i)
    BY <2>1 DEF Inside
  <2> QED BY <2>1, <2>2 DEF Clean
<1> QED BY <1>1, <1>2, <1>3, <1>4, <1>5, Someone

\* Only ReadMessage leads to "release", and what it finds is not torn: the lock
\* that its reader holds keeps the writers out.
LEMMA Releases ==
  ASSUME Types, NEW r \in Readers, OpenOrClose(r) \/ Read(r), pc'[r] = "release"
  PROVE  ReadMessage(r)
<1>1. CASE OpenOrClose(r)
  BY <1>1, OpenOutside, Who DEF Inner
<1>2. CASE Return(r)
  <2>1. r \notin Writers /\ pc \in [Users -> WriterSteps \cup ReaderSteps] /\ r \in Users
    BY Who, Typed
  <2> QED BY <1>2, <2>1 DEF Return, Goto
<1>3. CASE ~Return(r) /\ (Listen(r) \/ CheckIndex(r) \/ Peek(r))
  BY <1>3, ListenDoes, CheckIndexDoes, PeekDoes DEF Moved, IAm
<1>4. CASE ~Return(r) /\ (Stray(r) \/ Take(r) \/ ReleaseReadBlock(r))
  BY <1>4, StrayDoes, TakeDoes, ReleaseDoes DEF Moved, IAm
<1> QED BY <1>1, <1>2, <1>3, <1>4 DEF Read

LEMMA NotTorn ==
  ASSUME Types, LockWords, Layout, Clean, NEW r \in Readers, ReadMessage(r),
         at[r] \notin spoiled
  PROVE  loc'[r].got = mine(r).data[idx(r)] /\ loc'[r].got # Torn
<1>1. /\ r \in Users /\ pc[r] = "read" /\ at[r] \in 1..Len(segs) /\ idx(r) \in Index
      /\ at[r] # 0
      /\ loc'[r].got = IF conf[r] = GetCeilingMessageSize(mine(r).ceiling)
                       THEN mine(r).data[idx(r)] ELSE Torn
  BY ReadDoes, Who DEF Local1, MyLocals
<1>2. conf[r] = GetCeilingMessageSize(mine(r).ceiling)
  BY <1>1 DEF Layout, mine
<1>3. r \in ReadersOf(at[r], idx(r))
  BY <1>1 DEF ReadersOf, Inside, idx
<1>4. WritersOf(at[r], idx(r)) = {}
  BY <1>1, <1>3 DEF LockWords
<1>5. Inside({"filled"}, at[r], idx(r)) = {}
  BY <1>4 DEF WritersOf, Inside
<1>6. mine(r).data[idx(r)] # Torn
  BY <1>1, <1>5 DEF Clean, mine
<1> QED BY <1>1, <1>2, <1>6

LEMMA WholeNext ==
  ASSUME Types, LockWords, Layout, Clean, Whole, [Next]_vars
  PROVE  Whole'
<1>1. ASSUME NEW x \in Users, Frame(x),
             x \in Readers /\ pc'[x] = "release" => ReadMessage(x)
      PROVE  Whole'
  <2> SUFFICES ASSUME NEW r \in Readers, pc'[r] = "release", at'[r] \notin spoiled'
               PROVE  loc'[r].got # Torn
    BY DEF Whole
  <2>1. r \in Users
    BY Who
  <2>2. CASE r = x
    <3>1. ReadMessage(r) /\ at'[r] = at[r] /\ spoiled' = spoiled
      BY <1>1, <2>2, ReadDoes DEF Moved, IAm, history
    <3> QED BY <3>1, NotTorn
  <2>3. CASE r # x
    <3>1. pc[r] = "release" /\ at[r] \notin spoiled /\ loc'[r] = loc[r]
      BY <1>1, <2>1, <2>3 DEF Frame, UsersFrame, HistoryGrows
    <3> QED BY <3>1 DEF Whole
  <2> QED BY <2>2, <2>3
<1>2. CASE \E u \in Users \ dead : OpenOrClose(u) /\ UNCHANGED dead
  BY <1>1, <1>2, FrameOpen, Releases
<1>3. CASE \E w \in Writers \ dead : Write(w) \/ Size(w)
  BY <1>1, <1>3, FrameWrite, FrameSize, Who
<1>4. CASE \E r \in Readers \ dead : Read(r) /\ UNCHANGED dead
  BY <1>1, <1>4, FrameRead, Releases, Who
<1>5. CASE UNCHANGED <<memory, users, infos, count, spoiled, came, left>>
  BY <1>5 DEF Whole, users
<1> QED BY <1>2, <1>3, <1>4, <1>5, Someone

-----------------------------------------------------------------------------
(* One writer and nobody leaving *)

LEMMA Unborn ==
  ASSUME Types, Absent, NEW w \in Writers \ came, OpenOrClose(w) \/ Write(w) \/ Size(w)
  PROVE  Transmit(w)
<1>1. w \in Users /\ pc[w] = "idle" /\ at[w] = 0
  BY Who DEF Absent
<1>2. CASE OpenOrClose(w)
  BY <1>1, <1>2 DEF OpenOrClose, Create, MakeState, MakeBlocks, Get, IncreaseReferenceCounts,
                    Destroy, Last, At
<1>3. CASE Write(w) \/ Size(w)
  BY <1>1, <1>3 DEF Write, Size, Check, RemoveSegment, Load, Lock, IncreaseWroteNum, Fill,
                    Refuse, Filled, ReleaseWrittenBlock, Notify, At
<1> QED BY <1>2, <1>3

\* A reader that opens or reads leaves the key, and creates nothing.
LEMMA ReaderLeaves ==
  ASSUME Types, NEW r \in Readers, OpenOrClose(r) \/ Read(r)
  PROVE  /\ pc[r] = "last" \/ key' = key
         /\ MarksKept /\ NumsKept /\ CeilingsKept /\ UNCHANGED <<infos, came, count>>
         /\ left' = left \/ left' = TRUE
         /\ Stray(r) \/ DataKept
<1>1. r \in Users /\ r \notin Writers
  BY Who
<1>2. CASE OpenOrClose(r)
  <2>1. ~Create(r) /\ ~MakeState(r) /\ ~MakeBlocks(r)
    BY <1>1, CreateDoes, MakeStateDoes, MakeBlocksDoes
  <2>2. MarksKept /\ NumsKept /\ CeilingsKept /\ DataKept
    BY <1>1, <1>2, <2>1, OpenKeeps
  <2>3. CASE Get(r) \/ IncreaseReferenceCounts(r)
    BY <1>1, <2>2, <2>3, GetDoes, CountDoes DEF memory, history
  <2>4. CASE Destroy(r) \/ Last(r)
    BY <1>1, <2>2, <2>4, DestroyDoes, LastDoes DEF history
  <2> QED BY <1>2, <2>1, <2>3, <2>4 DEF OpenOrClose
<1>3. CASE Read(r)
  <2>1. MarksKept /\ NumsKept /\ CeilingsKept /\ (Stray(r) \/ DataKept)
    <3>1. CASE ~Stray(r)
      BY <1>3, <3>1, ReadKeeps
    <3>2. CASE Stray(r)
      BY <1>3, <3>2, ReadKeeps
    <3> QED BY <3>1, <3>2
  <2>2. count' = count
    <3>1. CASE Listen(r) \/ CheckIndex(r) \/ Peek(r) \/ Stray(r)
      BY <3>1, ListenDoes, CheckIndexDoes, PeekDoes, StrayDoes DEF history
    <3>2. CASE Take(r) \/ ReadMessage(r) \/ ReleaseReadBlock(r)
      BY <3>2, TakeDoes, ReadDoes, ReleaseDoes DEF history
    <3> QED BY <1>3, <3>1, <3>2 DEF Read
  <2> QED BY <1>3, <2>1, <2>2, RestRead
<1> QED BY <1>2, <1>3

LEMMA AbsentNext ==
  ASSUME Types, Absent, [Next]_vars
  PROVE  Absent'
<1>1. ASSUME NEW x \in Users, Frame(x), x \in Writers => x \in came \/ x \in came'
      PROVE  \A w \in Writers \ came' : pc'[w] = "idle" /\ at'[w] = 0
  <2> SUFFICES ASSUME NEW w \in Writers \ came'
               PROVE  pc'[w] = "idle" /\ at'[w] = 0
    OBVIOUS
  <2>1. w \in Users /\ w \notin came /\ w # x
    BY <1>1, Who DEF Frame, HistoryGrows
  <2> QED BY <1>1, <2>1 DEF Frame, UsersFrame, Absent
<1>2. CASE \E w \in Writers \ dead : OpenOrClose(w) \/ Write(w) \/ Size(w)
  <2>1. PICK w \in Writers : OpenOrClose(w) \/ Write(w) \/ Size(w)
    BY <1>2
  <2>2. w \in Users /\ Frame(w)
    BY <2>1, Who, FrameOpen, FrameWrite, FrameSize
  <2>3. w \in came \/ w \in came'
    BY <2>1, Unborn, TransmitDoes
  <2>4. came' # {}
    BY <2>2, <2>3 DEF Frame, HistoryGrows
  <2> QED BY <1>1, <2>2, <2>3, <2>4 DEF Absent
<1>3. CASE \E r \in Readers \ dead : OpenOrClose(r) \/ Read(r)
  <2>1. PICK r \in Readers : OpenOrClose(r) \/ Read(r)
    BY <1>3
  <2>2. r \in Users /\ Frame(r) /\ r \notin Writers
    BY <2>1, Who, FrameOpen, FrameRead
  <2>3. ASSUME came' = {} PROVE Len(segs') = 0 /\ key' = 0 /\ infos' = {}
    <3>1. Len(segs) = 0 /\ key = 0 /\ infos = {}
      BY <2>1, <2>3, ReaderLeaves DEF Absent
    <3>2. pc[r] # "last"
      <4>1. pc[r] = "last" => at[r] \in 1..Len(segs)
        BY <2>2, Who DEF Mapped
      <4> QED BY <3>1, <4>1
    <3> QED BY <2>1, <3>1, <3>2, ReaderLeaves DEF CeilingsKept
  <2> QED BY <1>1, <2>2, <2>3 DEF Absent
<1>4. CASE UNCHANGED <<memory, users, infos, count, spoiled, came, left>>
  BY <1>4 DEF Absent, memory, users
<1> QED BY <1>2, <1>3, <1>4, Someone, Who

\* A step of the writer, or one that leaves it where it is.
LEMMA SoloIf ==
  ASSUME NEW w \in Writers, Solo1(w), MarksKept, key' = key, at'[w] = at[w],
         \/ pc'[w] = pc[w]
         \/ at[w] # 0 /\ pc'[w] \notin {"get", "create", "remove"}
  PROVE  Solo1(w)'
BY DEF Solo1, MarksKept

LEMMA SoloOpens ==
  ASSUME Types, NEW w \in Writers, Solo1(w), ~left, ~left', OpenOrClose(w)
  PROVE  Solo1(w)'
<1>1. /\ Len(segs) \in Nat /\ w \in Users /\ at[w] \in 0..Len(segs)
      /\ pc[w] \in Mapped => at[w] # 0
  BY Who DEF Types, TypeOK
<1>2. CASE Create(w)
  <2>1. pc[w] = "create"
    BY <1>1, <1>2, CreateDoes
  <2>2. at[w] = 0 /\ key = 0
    BY <2>1 DEF Solo1
  <2>3. /\ key' = Len(segs) + 1 /\ Len(segs') = Len(segs) + 1
        /\ segs'[Len(segs) + 1].need_remap = FALSE
        /\ \A s \in 1..Len(segs) : segs'[s] = segs[s]
        /\ at'[w] = Len(segs) + 1 /\ pc'[w] = "state"
    BY <1>1, <1>2, <2>2, CreateDoes DEF Moved, IAm, NewMemory
  <2>4. \A s \in 1..Len(segs) : segs[s].need_remap
    <3>1. \A s \in 1..(Len(segs) - 1) : segs[s].need_remap
      BY DEF Solo1
    <3>2. Len(segs) # 0 => segs[Len(segs)].need_remap
      BY <2>2 DEF Solo1
    <3>3. \A s \in 1..Len(segs) : s \in 1..(Len(segs) - 1) \/ (s = Len(segs) /\ Len(segs) # 0)
      BY <1>1
    <3> QED BY <3>1, <3>2, <3>3
  <2>5. \A s \in 1..(Len(segs') - 1) : s \in 1..Len(segs)
    BY <1>1, <2>3
  <2>6. \A s \in 1..(Len(segs') - 1) : segs'[s].need_remap
    BY <2>3, <2>4, <2>5
  <2>7. Len(segs) + 1 # 0
    BY <1>1
  <2>8. ~segs'[at'[w]].need_remap
    BY <2>3
  <2> QED BY <2>3, <2>6, <2>7, <2>8 DEF Solo1
<1>3. CASE MakeState(w)
  <2>1. /\ pc[w] = "state" /\ at[w] \in 1..Len(segs) /\ OnlyMine(w)
        /\ segs'[at[w]].need_remap = FALSE
        /\ at'[w] = at[w] /\ pc'[w] = "blocks" /\ key' = key
    <3>1. /\ pc[w] = "state" /\ at[w] \in 1..Len(segs) /\ OnlyMine(w)
          /\ segs'[at[w]].need_remap = FALSE /\ Moved(w, at[w], conf[w], "blocks")
          /\ key' = key
      BY <1>1, <1>3, MakeStateDoes DEF Memory1, MineIs
    <3> QED BY <3>1 DEF Moved, IAm
  <2>2. MarksKept
    <3>1. at[w] # 0
      BY <2>1
    <3>2. segs[at[w]].need_remap = FALSE
      <4>1. ~segs[at[w]].need_remap
        BY <3>1 DEF Solo1
      <4>2. segs[at[w]].need_remap \in BOOLEAN
        BY <2>1, Typed, MemoryFields
      <4> QED BY <4>1, <4>2
    <3> QED BY <1>1, <2>1, <3>2, Kept DEF mine
  <2>3. at[w] # 0 /\ pc'[w] \notin {"get", "create", "remove"}
    BY <2>1
  <2> QED BY <2>1, <2>2, <2>3, SoloIf
<1>4. CASE MakeBlocks(w) \/ IncreaseReferenceCounts(w)
  <2>1. /\ pc[w] \in {"blocks", "count"} /\ at'[w] = at[w] /\ key' = key
        /\ pc'[w] \in {"count", "check", "size", "load"} /\ at[w] \in 1..Len(segs)
    BY <1>1, <1>4, MakeBlocksDoes, CountDoes DEF Moved, IAm
  <2>2. MarksKept
    BY <1>1, <1>4, Kept, MakeBlocksDoes, CountDoes DEF Memory1, MineIs
  <2>3. at[w] # 0 /\ pc'[w] \notin {"get", "create", "remove"}
    BY <2>1
  <2> QED BY <2>1, <2>2, <2>3, SoloIf
<1>5. CASE Get(w)
  BY <1>1, <1>5, GetDoes DEF Solo1
<1>6. CASE Destroy(w) \/ Last(w)
  BY <1>1, <1>6, DestroyDoes, LastDoes DEF Types, Steps
<1> QED BY <1>2, <1>3, <1>4, <1>5, <1>6 DEF OpenOrClose

LEMMA SoloWrites ==
  ASSUME Types, NEW w \in Writers, Solo1(w), Write(w) \/ Size(w)
  PROVE  Solo1(w)'
<1>1. /\ Len(segs) \in Nat /\ w \in Users /\ at[w] \in 0..Len(segs)
      /\ pc[w] \in Mapped => at[w] # 0
  BY Who DEF Types, TypeOK
<1>2. CASE Transmit(w)
  <2>1. MarksKept /\ key' = key /\ at'[w] = at[w] /\ pc[w] = "idle"
    BY <1>2, TransmitDoes, AllKept DEF Moved, IAm, memory
  <2>2. CASE at[w] = 0
    <3>1. Len(segs) = 0 /\ key = 0
      BY <2>1, <2>2 DEF Solo1
    <3>2. pc'[w] = "create"
      BY <1>2, <2>2, TransmitDoes DEF Moved, IAm
    <3> QED BY <2>1, <2>2, <3>1, <3>2 DEF Solo1, MarksKept
  <2>3. CASE at[w] # 0
    <3>1. pc'[w] = "check"
      BY <1>2, <2>3, TransmitDoes DEF Moved, IAm
    <3> QED BY <2>1, <2>3, <3>1, SoloIf
  <2> QED BY <2>2, <2>3
<1>3. CASE Check(w)
  <2>1. pc[w] = "check" /\ at[w] # 0 /\ UNCHANGED memory
    BY <1>1, <1>3, CheckDoes DEF Mapped
  <2>2. ~mine(w).need_remap
    BY <2>1 DEF Solo1, mine
  <2>3. at'[w] = at[w] /\ pc'[w] = "size"
    BY <1>3, <2>2, CheckDoes DEF Moved, IAm
  <2> QED BY <2>1, <2>3, AllKept, SoloIf DEF memory
<1>4. CASE Size(w)
  <2>1. pc[w] = "size" /\ key' = key
    BY <1>4, SizeDoes
  <2>2. at[w] # 0
    BY <2>1 DEF Solo1
  <2>3. CASE /\ Memory1(w, TRUE, mine(w).wrote_num, mine(w).refs, mine(w).ceiling,
                        mine(w).lock, mine(w).data)
             /\ at[w] \in 1..Len(segs) /\ \E c \in Ceilings : Moved(w, 0, c, "remove")
    <3>1. /\ OnlyMine(w) /\ segs'[at[w]].need_remap = TRUE
          /\ at'[w] = 0 /\ pc'[w] = "remove"
      BY <2>3 DEF Memory1, MineIs, Moved, IAm
    <3>2. at[w] = Len(segs) /\ key \in {0, Len(segs)}
          /\ \A s \in 1..(Len(segs) - 1) : segs[s].need_remap
      BY <2>2 DEF Solo1
    <3>3. \A s \in 1..(Len(segs) - 1) : s \in 1..Len(segs) /\ s # Len(segs)
      BY <1>1
    <3>4. \A s \in 1..(Len(segs) - 1) : segs'[s].need_remap
      BY <3>1, <3>2, <3>3 DEF OnlyMine
    <3>5. Len(segs') = Len(segs)
      BY <3>1 DEF OnlyMine
    <3>6. segs'[Len(segs')].need_remap
      BY <3>1, <3>2, <3>5
    <3> QED BY <2>1, <3>1, <3>2, <3>4, <3>5, <3>6 DEF Solo1
  <2>4. CASE Moved(w, at[w], conf[w], "load") /\ UNCHANGED segs
    BY <2>1, <2>2, <2>4, AllKept, SoloIf DEF Moved, IAm
  <2> QED BY <1>4, <2>2, <2>3, <2>4, SizeDoes
<1>5. CASE RemoveSegment(w)
  <2>1. pc[w] = "remove" /\ key' = 0 /\ at'[w] = at[w] /\ pc'[w] = "create" /\ UNCHANGED segs
    BY <1>5, RemoveDoes DEF Moved, IAm
  <2>2. at[w] = 0
    BY <2>1 DEF Solo1
  <2> QED BY <2>1, <2>2 DEF Solo1
<1>6. CASE \/ Load(w) \/ Lock(w) \/ IncreaseWroteNum(w) \/ Fill(w)
           \/ Refuse(w) \/ Filled(w) \/ ReleaseWrittenBlock(w) \/ Notify(w)
  <2>1. /\ pc[w] \in {"load", "lock", "bump", "fill", "filled", "written", "notify"}
        /\ key' = key
    <3>1. CASE Load(w) \/ Lock(w) \/ IncreaseWroteNum(w) \/ Fill(w)
      BY <3>1, LoadDoes, LockDoes, BumpDoes, FillDoes DEF memory
    <3>2. CASE Refuse(w) \/ Filled(w) \/ ReleaseWrittenBlock(w) \/ Notify(w)
      BY <3>2, RefuseDoes, FilledDoes, WrittenDoes, NotifyDoes DEF memory
    <3> QED BY <1>6, <3>1, <3>2
  <2>2. at[w] # 0
    BY <1>1, <2>1 DEF Mapped
  <2>3. at'[w] = at[w] /\ pc'[w] \notin {"get", "create", "remove"}
    <3>1. CASE Load(w) \/ Lock(w)
      BY <3>1, LoadDoes, LockDoes DEF Moved, IAm
    <3>2. CASE IncreaseWroteNum(w) \/ Fill(w) \/ Filled(w) \/ ReleaseWrittenBlock(w)
      BY <3>2, BumpDoes, FillDoes, FilledDoes, WrittenDoes DEF Moved, IAm
    <3>3. CASE Refuse(w) \/ Notify(w)
      BY <3>3, RefuseDoes, NotifyDoes, HomeWriter DEF Moved, IAm
    <3> QED BY <1>6, <3>1, <3>2, <3>3
  <2>4. MarksKept
    BY <1>6, WriteKeeps DEF Write
  <2> QED BY <2>1, <2>2, <2>3, <2>4, SoloIf
<1> QED BY <1>2, <1>3, <1>4, <1>5, <1>6 DEF Write

LEMMA WhoMoves ==
  ASSUME Types, Absent, NEW w \in Writers, OnlyWriter(w)', [Next]_vars
  PROVE  \/ came = {} /\ Transmit(w)
         \/ OnlyWriter(w) /\ (OpenOrClose(w) \/ Write(w) \/ Size(w))
         \/ OnlyWriter(w) /\ \E r \in Readers : OpenOrClose(r) \/ Read(r)
         \/ OnlyWriter(w) /\ UNCHANGED <<memory, users, infos, count, spoiled, came, left>>
<1>1. came' = {w} /\ ~left'
  BY DEF OnlyWriter
<1>2. CASE \E x \in Writers \ dead : OpenOrClose(x) \/ Write(x) \/ Size(x)
  <2>1. PICK x \in Writers : OpenOrClose(x) \/ Write(x) \/ Size(x)
    BY <1>2
  <2>2. (left => left') /\ came \subseteq came'
    BY <2>1, Who, FrameOpen, FrameWrite, FrameSize DEF Frame, HistoryGrows
  <2>3. CASE x \notin came
    <3>1. Transmit(x) /\ came' = came \cup {x}
      BY <2>1, <2>3, Unborn, TransmitDoes
    <3>2. x = w
      BY <1>1, <3>1
    <3>3. came = {}
      BY <1>1, <2>2, <2>3, <3>2
    <3> QED BY <3>1, <3>2, <3>3
  <2>4. CASE x \in came
    <3>1. x = w /\ came = {w}
      BY <1>1, <2>2, <2>4
    <3> QED BY <1>1, <2>1, <2>2, <3>1 DEF OnlyWriter
  <2> QED BY <2>3, <2>4
<1>3. CASE \E r \in Readers \ dead : OpenOrClose(r) \/ Read(r)
  <2>1. PICK r \in Readers : OpenOrClose(r) \/ Read(r)
    BY <1>3
  <2>2. came' = came /\ (left => left')
    BY <2>1, Who, FrameOpen, FrameRead, ReaderLeaves DEF Frame, HistoryGrows
  <2> QED BY <1>1, <2>1, <2>2 DEF OnlyWriter
<1>4. CASE UNCHANGED <<memory, users, infos, count, spoiled, came, left>>
  BY <1>1, <1>4 DEF OnlyWriter
<1> QED BY <1>2, <1>3, <1>4, Someone, Who

LEMMA SoloNext ==
  ASSUME Types, Absent, Solo, [Next]_vars
  PROVE  Solo'
<1> SUFFICES ASSUME NEW w \in Writers, OnlyWriter(w)'
             PROVE  Solo1(w)'
  BY DEF Solo
<1>1. ~left' /\ (OnlyWriter(w) => Solo1(w) /\ ~left)
  BY DEF OnlyWriter, Solo
<1>2. CASE came = {} /\ Transmit(w)
  <2>1. Len(segs) = 0 /\ key = 0 /\ at[w] = 0
    BY <1>2 DEF Absent
  <2>2. Moved(w, at[w], conf[w], "create") /\ UNCHANGED memory
    BY <1>2, <2>1, TransmitDoes
  <2>3. at'[w] = 0 /\ pc'[w] = "create" /\ key' = 0 /\ Len(segs') = 0
    BY <2>1, <2>2 DEF Moved, IAm, memory
  <2> QED BY <2>3 DEF Solo1
<1>3. CASE OnlyWriter(w) /\ (OpenOrClose(w) \/ Write(w) \/ Size(w))
  BY <1>1, <1>3, SoloOpens, SoloWrites
<1>4. CASE OnlyWriter(w) /\ \E r \in Readers : OpenOrClose(r) \/ Read(r)
  <2>1. PICK r \in Readers : OpenOrClose(r) \/ Read(r)
    BY <1>4
  <2>2. w \in Users /\ w # r /\ r \in Users /\ pc[r] # "last"
    BY <1>1, <1>4, Who DEF Types, Steps
  <2>3. at'[w] = at[w] /\ pc'[w] = pc[w]
    BY <2>1, <2>2, FrameOpen, FrameRead DEF Frame, UsersFrame
  <2> QED BY <1>1, <1>4, <2>1, <2>2, <2>3, ReaderLeaves, SoloIf
<1>5. CASE OnlyWriter(w) /\ UNCHANGED <<memory, users, infos, count, spoiled, came, left>>
  BY <1>1, <1>5 DEF Solo1, memory, users
<1> QED BY <1>2, <1>3, <1>4, <1>5, WhoMoves

-----------------------------------------------------------------------------
(* Nothing older than what was announced *)

\* No step makes the content of a block older.
Newer == \A s \in 1..Len(segs), i \in Index, m \in Int :
           s \notin spoiled' /\ m <= count /\ NotOlder(s, i, m) => NotOlder(s, i, m)'

LEMMA NewerKept ==
  ASSUME DataKept
  PROVE  Newer
BY DEF Newer, DataKept, NotOlder

LEMMA NewerWrites ==
  ASSUME Types, NEW w \in Writers, Write(w), pc[w] \in Sending => loc[w].msg = count
  PROVE  Newer
<1>1. CASE Fill(w)
  <2>1. PICK f \in [Index -> Int] :
          /\ OnlyMine(w) /\ segs'[at[w]].data = f
          /\ \A i \in Index : f[i] \in {Torn, mine(w).data[i]}
    BY <1>1, FillDoes DEF Memory1, MineIs
  <2> SUFFICES ASSUME NEW s \in 1..Len(segs), NEW i \in Index, NEW m \in Int, NotOlder(s, i, m)
               PROVE  NotOlder(s, i, m)'
    BY DEF Newer
  <2>2. segs'[s].data[i] \in {Torn, segs[s].data[i]}
    <3>1. CASE s = at[w]
      BY <2>1, <3>1 DEF mine
    <3>2. CASE s # at[w]
      BY <2>1, <3>2 DEF OnlyMine
    <3> QED BY <3>1, <3>2
  <2>3. CASE segs'[s].data[i] = Torn
    BY <2>3 DEF NotOlder
  <2>4. CASE segs'[s].data[i] = segs[s].data[i]
    BY <2>4 DEF NotOlder
  <2> QED BY <2>2, <2>3, <2>4
<1>2. CASE Filled(w)
  <2>1. /\ OnlyMine(w) /\ segs'[at[w]].data = [mine(w).data EXCEPT ![idx(w)] = loc[w].msg]
        /\ at[w] \in 1..Len(segs) /\ pc[w] = "filled"
    BY <1>2, FilledDoes DEF Memory1, MineIs
  <2>2. loc[w].msg = count /\ mine(w).data \in [Index -> Int]
    BY <2>1, MemoryFields, Typed DEF Sending, mine
  <2> SUFFICES ASSUME NEW s \in 1..Len(segs), NEW i \in Index, NEW m \in Int, m <= count,
                      NotOlder(s, i, m)
               PROVE  NotOlder(s, i, m)'
    BY DEF Newer
  <2>3. segs'[s].data[i] \in {count, segs[s].data[i]}
    <3>1. CASE s = at[w]
      BY <2>1, <2>2, <3>1 DEF mine
    <3>2. CASE s # at[w]
      BY <2>1, <3>2 DEF OnlyMine
    <3> QED BY <3>1, <3>2
  <2>4. CASE segs'[s].data[i] = count
    <3>1. segs'[s].data[i] >= m
      BY <2>4, Typed
    <3> QED BY <3>1 DEF NotOlder
  <2>5. CASE segs'[s].data[i] = segs[s].data[i]
    BY <2>5 DEF NotOlder
  <2> QED BY <2>3, <2>4, <2>5
<1> QED BY <1>1, <1>2, WriteKeeps, NewerKept

LEMMA NewerReads ==
  ASSUME Types, NEW r \in Readers, OpenOrClose(r) \/ Read(r)
  PROVE  Newer
<1>1. CASE Stray(r) /\ segs' # segs
  <2>1. OnlyMine(r) /\ spoiled' = spoiled \cup {at[r]}
    BY <1>1, StrayDoes DEF Memory1
  <2>2. \A s \in 1..Len(segs) : s \notin spoiled' => segs'[s] = segs[s]
    BY <2>1 DEF OnlyMine
  <2> QED BY <2>2 DEF Newer, NotOlder
<1>2. CASE segs' = segs
  BY <1>2, AllKept, NewerKept
<1>3. CASE DataKept
  BY <1>3, NewerKept
<1> QED BY <1>1, <1>2, <1>3, ReaderLeaves

LEMMA Messages ==
  ASSUME Types
  PROVE  /\ count \in Nat
         /\ \A info \in infos : /\ info.msg \in Int /\ info.msg <= count
                                /\ info.block_index \in Index
         /\ \A r \in Readers : loc[r].msg \in Int /\ loc[r].msg <= count /\ idx(r) \in Index
<1>1. infos \subseteq [block_index : Index, msg : 1..count] /\ count \in Nat
  BY Typed DEF Types, TypeOK
<1>2. \A info \in infos : info.block_index \in Index /\ info.msg \in 1..count
  BY <1>1
<1>3. \A n \in 1..count : n \in Int /\ n <= count
  BY <1>1
<1>4. \A r \in Readers : loc[r] \in Local /\ loc[r].msg <= count
  BY Who DEF Types, Steps
<1>5. \A r \in Readers : loc[r].msg \in Nat /\ loc[r].idx \in Index
  BY <1>4, LocalFields
<1> QED BY <1>1, <1>2, <1>3, <1>4, <1>5 DEF idx

LEMMA ToldStays ==
  ASSUME Types, Told, Newer, Len(segs') = Len(segs), spoiled \subseteq spoiled', infos' = infos
  PROVE  Told'
<1> SUFFICES ASSUME NEW s \in (1..Len(segs)) \ spoiled', s = Len(segs), NEW info \in infos
             PROVE  NotOlder(s, info.block_index, info.msg)'
  BY DEF Told
<1>1. NotOlder(s, info.block_index, info.msg)
  BY DEF Told
<1> QED BY <1>1, Messages DEF Newer

\* What others do, for a reader.
LEMMA HeardStays ==
  ASSUME Types, NEW r \in Readers, Heard(r), NEW x \in Users, x # r, Frame(x), Newer,
         \/ Len(segs') = Len(segs)
         \/ /\ Len(segs') = Len(segs) + 1
            /\ segs'[Len(segs) + 1].data = [i \in Index |-> Nothing]
  PROVE  Heard(r)'
<1>1. /\ at'[r] = at[r] /\ pc'[r] = pc[r] /\ loc'[r] = loc[r] /\ at[r] \in 0..Len(segs)
      /\ spoiled \subseteq spoiled' /\ Len(segs) \in Nat
  BY Who DEF Frame, UsersFrame, HistoryGrows
<1>2. ASSUME NEW s \in (1..Len(segs')) \ spoiled', Finds(r, s)'
      PROVE  NotOlder(s, idx(r), loc[r].msg)'
  <2>1. CASE s \in 1..Len(segs)
    <3>1. Finds(r, s)
      BY <1>1, <1>2, <2>1 DEF Finds
    <3>2. NotOlder(s, idx(r), loc[r].msg)
      BY <1>1, <2>1, <3>1 DEF Heard
    <3>3. \A i \in Index, m \in Int : i = idx(r) /\ m = loc[r].msg =>
            (NotOlder(s, i, m) => NotOlder(s, i, m)')
      BY <2>1, Messages DEF Newer
    <3>4. idx(r) \in Index /\ loc[r].msg \in Int
      BY Messages
    <3> QED BY <1>1, <3>2, <3>3, <3>4 DEF NotOlder, idx
  <2>2. CASE s \notin 1..Len(segs)
    <3>1. s = Len(segs) + 1
      BY <1>1, <2>2
    <3>2. segs'[s].data[idx(r)] = Nothing
      BY <2>2, <3>1, Messages
    <3> QED BY <1>1, <3>2 DEF NotOlder, idx
  <2> QED BY <2>1, <2>2
<1>3. pc'[r] = "release" /\ at'[r] \notin spoiled' =>
        loc'[r].got \in {Nothing, Torn} \/ loc'[r].got >= loc'[r].msg
  BY <1>1 DEF Heard
<1> QED BY <1>2, <1>3 DEF Heard

LEMMA HeardHome ==
  ASSUME NEW r \in Readers, pc'[r] \notin Reading \cup {"release"}
  PROVE  Heard(r)'
BY DEF Heard, Finds

LEMMA HeardIf ==
  ASSUME Types, NEW r \in Readers, Heard(r), DataKept, spoiled \subseteq spoiled',
         loc'[r].idx = loc[r].idx, loc'[r].msg = loc[r].msg, pc'[r] # "release",
         \A s \in 1..Len(segs) : Finds(r, s)' => Finds(r, s)
  PROVE  Heard(r)'
<1>1. ASSUME NEW s \in (1..Len(segs)) \ spoiled', Finds(r, s)'
      PROVE  NotOlder(s, idx(r), loc[r].msg)'
  <2>1. NotOlder(s, idx(r), loc[r].msg)
    BY <1>1 DEF Heard
  <2>2. segs'[s].data = segs[s].data
    BY DEF DataKept
  <2> QED BY <2>1, <2>2 DEF NotOlder, idx
<1> QED BY <1>1 DEF Heard, DataKept

\* What the reader itself does.
LEMMA HeardMoves ==
  ASSUME Types, LockWords, Layout, Clean, NEW w \in Writers, Solo1(w), Told, ~left, ~left',
         NEW r \in Readers, Heard(r), OpenOrClose(r) \/ Read(r)
  PROVE  Heard(r)'
<1>1. /\ r \in Users /\ Frame(r) /\ Len(segs) \in Nat /\ at[r] \in 0..Len(segs)
      /\ spoiled \subseteq spoiled' /\ r \notin Writers
      /\ pc[r] \in Mapped => at[r] \in 1..Len(segs)
  BY Who, FrameOpen, FrameRead DEF Frame, HistoryGrows
<1>2. CASE Return(r)
  <2>1. pc'[r] = "listen"
    BY <1>1, <1>2, Typed DEF Return, Goto
  <2> QED BY <2>1, HeardHome DEF Reading
<1>3. CASE Listen(r)
  <2>1. PICK info \in infos : loc'[r].idx = info.block_index /\ loc'[r].msg = info.msg
    BY <1>3, ListenDoes DEF Local1, MyLocals
  <2>2. pc'[r] \in {"get", "range"} /\ UNCHANGED segs
    BY <1>3, ListenDoes DEF Moved, IAm, memory
  <2>3. ASSUME NEW s \in (1..Len(segs)) \ spoiled', Finds(r, s)'
        PROVE  NotOlder(s, idx(r), loc[r].msg)'
    <3>1. s = Len(segs) /\ s \notin spoiled
      BY <1>1, <2>2, <2>3 DEF Finds
    <3>2. NotOlder(s, info.block_index, info.msg)
      BY <3>1 DEF Told
    <3> QED BY <2>1, <2>2, <3>2 DEF NotOlder, idx
  <2> QED BY <2>2, <2>3 DEF Heard
<1>4. CASE ~Return(r) /\ Get(r)
  <2>1. /\ key # 0 /\ at'[r] = key /\ pc'[r] = "count" /\ pc[r] = "get"
        /\ UNCHANGED <<segs, loc>>
    BY <1>1, <1>4, GetDoes DEF Moved, IAm, memory
  <2>2. key = Len(segs)
    BY <2>1 DEF Solo1
  <2>3. \A s \in 1..Len(segs) : Finds(r, s)' => Finds(r, s)
    BY <2>1, <2>2 DEF Finds, Reading
  <2> QED BY <1>1, <2>1, <2>3, AllKept, HeardIf
<1>5. CASE IncreaseReferenceCounts(r)
  <2>1. /\ pc[r] = "count" /\ at'[r] = at[r] /\ pc'[r] \in {"range", "peek"}
        /\ loc'[r].idx = loc[r].idx /\ loc'[r].msg = loc[r].msg
    BY <1>1, <1>5, CountDoes DEF Moved, IAm, Local1, MyLocals
  <2>2. DataKept
    BY <1>1, <1>5, CountDoes, Kept DEF Memory1, MineIs
  <2>3. \A s \in 1..Len(segs) : Finds(r, s)' => Finds(r, s)
    BY <2>1, <2>2 DEF Finds, Reading, DataKept
  <2> QED BY <1>1, <2>1, <2>2, <2>3, HeardIf
<1>6. CASE Destroy(r) \/ Last(r)
  BY <1>1, <1>6, DestroyDoes, LastDoes DEF Types, Steps
<1>7. CASE ~Return(r) /\ CheckIndex(r)
  <2>1. /\ pc[r] = "range" /\ UNCHANGED segs /\ at[r] \in 1..Len(segs)
        /\ loc'[r].idx = loc[r].idx /\ loc'[r].msg = loc[r].msg
    BY <1>7, CheckIndexDoes DEF Local1, MyLocals, memory
  <2>2. CASE at'[r] = 0 /\ pc'[r] = "get"
    <3>1. \A s \in 1..Len(segs) : Finds(r, s)' => Finds(r, s)
      BY <2>1, <2>2 DEF Finds, Reading
    <3> QED BY <1>1, <2>1, <2>2, <3>1, AllKept, HeardIf
  <2>3. CASE ~mine(r).need_remap /\ at'[r] = at[r] /\ pc'[r] = "peek"
    <3>1. at[r] = Len(segs)
      <4>1. at[r] \in 1..Len(segs) /\ ~segs[at[r]].need_remap
        BY <2>1, <2>3 DEF mine
      <4>2. at[r] \notin 1..(Len(segs) - 1)
        BY <4>1 DEF Solo1
      <4> QED BY <1>1, <4>1, <4>2
    <3>2. \A s \in 1..Len(segs) : Finds(r, s)' => Finds(r, s)
      BY <2>1, <2>3, <3>1 DEF Finds, Reading
    <3> QED BY <1>1, <2>1, <2>3, <3>2, AllKept, HeardIf
  <2> QED BY <1>7, <2>2, <2>3, CheckIndexDoes DEF Moved, IAm
<1>8. CASE ~Return(r) /\ Peek(r)
  <2>1. /\ pc[r] = "peek" /\ pc'[r] = "take" /\ at'[r] = at[r] /\ UNCHANGED segs
        /\ loc'[r].idx = loc[r].idx /\ loc'[r].msg = loc[r].msg
    BY <1>8, PeekDoes DEF Local1, MyLocals, memory, Moved, IAm
  <2>2. \A s \in 1..Len(segs) : Finds(r, s)' => Finds(r, s)
    BY <2>1 DEF Finds, Reading
  <2> QED BY <1>1, <2>1, <2>2, AllKept, HeardIf
<1>9. CASE ~Return(r) /\ Take(r)
  <2>1. /\ pc[r] = "take" /\ pc'[r] \in {"read", "peek"} /\ at'[r] = at[r]
        /\ loc'[r].idx = loc[r].idx /\ loc'[r].msg = loc[r].msg
    BY <1>9, TakeDoes DEF Local1, MyLocals, Moved, IAm
  <2>2. DataKept
    BY <1>1, <1>9, TakeDoes, Kept, AllKept DEF Memory1, MineIs
  <2>3. \A s \in 1..Len(segs) : Finds(r, s)' => Finds(r, s)
    BY <2>1, <2>2 DEF Finds, Reading, DataKept
  <2> QED BY <1>1, <2>1, <2>2, <2>3, HeardIf
<1>10. CASE ReadMessage(r)
  <2>1. /\ pc[r] = "read" /\ pc'[r] = "release" /\ at'[r] = at[r] /\ UNCHANGED segs
        /\ loc'[r].msg = loc[r].msg /\ spoiled' = spoiled /\ at[r] \in 1..Len(segs)
    BY <1>10, ReadDoes DEF Local1, MyLocals, memory, history, Moved, IAm
  <2>2. \A s : ~Finds(r, s)'
    BY <2>1 DEF Finds, Reading
  <2>3. ASSUME at[r] \notin spoiled
        PROVE  loc'[r].got \in {Nothing, Torn} \/ loc'[r].got >= loc'[r].msg
    <3>1. loc'[r].got = mine(r).data[idx(r)]
      BY <1>10, <2>3, NotTorn
    <3>2. Finds(r, at[r])
      BY <2>1 DEF Finds, Reading
    <3>3. NotOlder(at[r], idx(r), loc[r].msg)
      BY <2>1, <2>3, <3>2 DEF Heard
    <3> QED BY <2>1, <3>1, <3>3 DEF NotOlder, mine
  <2> QED BY <2>1, <2>2, <2>3 DEF Heard
<1>11. CASE Stray(r) \/ ReleaseReadBlock(r)
  BY <1>2, <1>11, StrayDoes, ReleaseDoes
<1>12. ~Create(r) /\ ~MakeState(r) /\ ~MakeBlocks(r)
  BY <1>1, CreateDoes, MakeStateDoes, MakeBlocksDoes
<1> QED BY <1>2, <1>3, <1>4, <1>5, <1>6, <1>7, <1>8, <1>9, <1>10, <1>11, <1>12
        DEF OpenOrClose, Read

\* What the writer does, for what it sends.
LEMMA SentRests ==
  ASSUME NEW w \in Writers, pc'[w] \notin Sending
  PROVE  Sent(w)'
BY DEF Sent, Sending

LEMMA SentGoes ==
  ASSUME NEW w \in Writers, Sent(w), pc[w] \in Sending, UNCHANGED <<infos, count>>,
         loc'[w].msg = loc[w].msg, loc'[w].idx = loc[w].idx, at'[w] = at[w],
         \/ pc'[w] \notin {"written", "notify"}
         \/ pc[w] = "written" /\ segs'[at[w]].data = mine(w).data /\ spoiled' = spoiled
  PROVE  Sent(w)'
<1>1. /\ \A info \in infos' : pc'[w] \in Sending => info.msg < count'
      /\ pc'[w] \in Sending => loc'[w].msg = count'
  BY DEF Sent
<1>2. ASSUME pc'[w] \in {"written", "notify"}, at'[w] \notin spoiled'
      PROVE  segs'[at'[w]].data[idx(w)'] = count'
  BY <1>2 DEF Sent, mine, idx
<1> QED BY <1>1, <1>2 DEF Sent

LEMMA SentNext ==
  ASSUME Types, NEW w \in Writers, Sent(w), Write(w) \/ Size(w)
  PROVE  Sent(w)'
<1>1. CASE Transmit(w) \/ Check(w) \/ RemoveSegment(w) \/ Load(w)
  <2>1. pc'[w] \notin Sending
    BY <1>1, TransmitDoes, CheckDoes, RemoveDoes, LoadDoes DEF Moved, IAm, Sending
  <2> QED BY <2>1, SentRests
<1>2. CASE Size(w)
  <2>1. pc[w] = "size"
    BY <1>2, SizeDoes
  <2>2. pc'[w] \in {"remove", "load", "size", "idle"}
    BY <1>2, <2>1, SizeDoes, HomeWriter DEF Moved, IAm
  <2> QED BY <2>2, SentRests DEF Sending
<1>3. CASE Refuse(w) \/ Notify(w)
  <2>1. pc'[w] = "idle"
    BY <1>3, RefuseDoes, NotifyDoes, HomeWriter DEF Moved, IAm
  <2> QED BY <2>1, SentRests DEF Sending
<1>4. CASE Lock(w)
  <2>1. CASE pc'[w] = "bump"
    <3>1. loc'[w].msg = count + 1 /\ count' = count + 1 /\ infos' = infos
      BY <1>4, <2>1, LockDoes DEF Moved, IAm, Local1, MyLocals
    <3>2. \A info \in infos : info.msg < count + 1
      BY Messages
    <3> QED BY <2>1, <3>1, <3>2 DEF Sent
  <2>2. CASE pc'[w] = "lock"
    BY <2>2, SentRests DEF Sending
  <2> QED BY <1>4, <2>1, <2>2, LockDoes DEF Moved, IAm
<1>5. CASE IncreaseWroteNum(w)
  BY <1>5, BumpDoes, SentGoes DEF Moved, IAm, Sending, history
<1>6. CASE Fill(w)
  BY <1>6, FillDoes, SentGoes DEF Moved, IAm, Sending
<1>7. CASE Filled(w)
  <2>1. /\ segs'[at[w]].data = [mine(w).data EXCEPT ![idx(w)] = loc[w].msg]
        /\ at[w] \in 1..Len(segs) /\ pc[w] = "filled" /\ pc'[w] = "written"
        /\ at'[w] = at[w] /\ UNCHANGED <<loc, infos, count>>
    BY <1>7, FilledDoes DEF Memory1, MineIs, Moved, IAm, history
  <2>2. mine(w).data \in [Index -> Int] /\ idx(w) \in Index
    BY <2>1, MemoryFields, Typed, Who DEF mine
  <2>3. loc[w].msg = count /\ \A info \in infos : info.msg < count
    BY <2>1 DEF Sent, Sending
  <2>4. segs'[at'[w]].data[idx(w)'] = count'
    BY <2>1, <2>2, <2>3 DEF idx
  <2> QED BY <2>1, <2>3, <2>4 DEF Sent
<1>8. CASE ReleaseWrittenBlock(w)
  BY <1>8, WrittenDoes, SentGoes DEF Memory1, MineIs, Moved, IAm, Sending, history
<1> QED BY <1>1, <1>2, <1>3, <1>4, <1>5, <1>6, <1>7, <1>8 DEF Write

LEMMA ToldWrites ==
  ASSUME Types, NEW w \in Writers, Solo1(w), Sent(w), Told, Write(w) \/ Size(w), Newer
  PROVE  Told'
<1>1. Len(segs') = Len(segs) /\ spoiled \subseteq spoiled'
  BY Who, RestWrite, FrameWrite, FrameSize DEF Frame, HistoryGrows
<1>2. CASE Notify(w)
  <2>1. /\ infos' = infos \cup {[block_index |-> idx(w), msg |-> loc[w].msg]}
        /\ pc[w] = "notify" /\ at[w] \in 1..Len(segs) /\ UNCHANGED <<segs, spoiled>>
    BY <1>2, NotifyDoes DEF memory, history
  <2>2. at[w] = Len(segs)
    <3>1. at[w] # 0
      BY <2>1
    <3> QED BY <3>1 DEF Solo1
  <2>3. loc[w].msg = count /\ count \in Nat
    BY <2>1, Typed DEF Sent, Sending
  <2> SUFFICES ASSUME NEW s \in (1..Len(segs)) \ spoiled, s = Len(segs), NEW info \in infos'
               PROVE  NotOlder(s, info.block_index, info.msg)
    BY <2>1 DEF Told, NotOlder
  <2>4. CASE info \in infos
    BY <2>4 DEF Told
  <2>5. CASE info.block_index = idx(w) /\ info.msg = loc[w].msg
    <3>1. segs[s].data[idx(w)] = count
      BY <2>1, <2>2 DEF Sent
    <3> QED BY <2>3, <2>5, <3>1 DEF NotOlder
  <2> QED BY <2>1, <2>4, <2>5
<1>3. CASE infos' = infos
  BY <1>1, <1>3, ToldStays
<1>4. ~Notify(w) => infos' = infos
  <2>1. CASE Transmit(w) \/ Check(w) \/ RemoveSegment(w) \/ Load(w) \/ Lock(w)
    BY <2>1, TransmitDoes, CheckDoes, RemoveDoes, LoadDoes, LockDoes
  <2>2. CASE IncreaseWroteNum(w) \/ Refuse(w) \/ Filled(w) \/ ReleaseWrittenBlock(w)
    BY <2>2, BumpDoes, RefuseDoes, FilledDoes, WrittenDoes
  <2>3. CASE Fill(w) \/ Size(w)
    BY <2>3, FillDoes, SizeDoes
  <2> QED BY <2>1, <2>2, <2>3 DEF Write
<1> QED BY <1>2, <1>3, <1>4

LEMMA NewsNext ==
  ASSUME Types, LockWords, Layout, Clean, Absent, Solo, News, [Next]_vars
  PROVE  News'
<1> SUFFICES ASSUME NEW w \in Writers, OnlyWriter(w)'
             PROVE  Sent(w)' /\ Told' /\ \A r \in Readers : Heard(r)'
  BY DEF News
<1>1. /\ ~left' /\ w \in Users
      /\ OnlyWriter(w) => Solo1(w) /\ ~left /\ Sent(w) /\ Told /\ \A r \in Readers : Heard(r)
  BY Who DEF OnlyWriter, Solo, News
<1>2. CASE came = {} /\ Transmit(w)
  <2>1. Len(segs) = 0 /\ at[w] = 0
    BY <1>2 DEF Absent
  <2>2. pc'[w] = "create" /\ UNCHANGED segs /\ Frame(w)
    BY <1>2, <2>1, TransmitDoes, FrameWrite DEF Moved, IAm, memory, Write
  <2>3. Sent(w)'
    BY <2>2, SentRests DEF Sending
  <2>4. \A s \in 1..Len(segs') : FALSE
    BY <2>1, <2>2
  <2>5. ASSUME NEW r \in Readers PROVE Heard(r)'
    <3>1. r \in Users /\ r # w /\ at[r] \in 0..Len(segs)
      BY Who
    <3>2. pc'[r] = pc[r]
      BY <2>2, <3>1 DEF Frame, UsersFrame
    <3>3. pc[r] # "release"
      <4>1. pc[r] = "release" => at[r] # 0
        BY <3>1 DEF Types, TypeOK, Mapped
      <4> QED BY <2>1, <3>1, <4>1
    <3> QED BY <2>4, <3>2, <3>3 DEF Heard
  <2> QED BY <2>3, <2>4, <2>5 DEF Told
<1>3. CASE OnlyWriter(w) /\ OpenOrClose(w)
  <2>1. /\ Frame(w) /\ infos' = infos /\ spoiled \subseteq spoiled' /\ Len(segs) \in Nat
        /\ count' = count
    <3>1. count' = count
      <4>1. CASE Create(w) \/ MakeState(w) \/ MakeBlocks(w) \/ Get(w)
        BY <1>1, <4>1, CreateDoes, MakeStateDoes, MakeBlocksDoes, GetDoes DEF history
      <4>2. CASE IncreaseReferenceCounts(w) \/ Destroy(w) \/ Last(w)
        BY <1>1, <4>2, CountDoes, DestroyDoes, LastDoes DEF history
      <4> QED BY <1>3, <4>1, <4>2 DEF OpenOrClose
    <3> QED BY <1>1, <1>3, <3>1, FrameOpen, RestOpen, Typed DEF Frame, HistoryGrows
  <2>2. Sent(w)'
    <3>1. pc'[w] \notin Sending
      BY <1>1, <1>3, OpenOutside DEF Sending, Inner
    <3> QED BY <3>1, SentRests
  <2>3. \A r \in Readers : r # w /\ r \in Users
    BY Who
  <2>4. CASE Create(w) /\ key = 0
    <3>1. /\ Len(segs') = Len(segs) + 1
          /\ segs'[Len(segs) + 1].data = [i \in Index |-> Nothing]
          /\ \A s \in 1..Len(segs) : segs'[s] = segs[s]
      BY <1>1, <2>4, CreateDoes DEF NewMemory
    <3>2. Newer
      BY <3>1 DEF Newer, NotOlder
    <3>3. Told'
      <4>1. \A i \in Index : segs'[Len(segs')].data[i] = Nothing
        BY <3>1
      <4>2. \A info \in infos : info.block_index \in Index
        BY Messages
      <4> QED BY <2>1, <4>1, <4>2 DEF Told, NotOlder
    <3> QED BY <1>1, <1>3, <2>1, <2>2, <2>3, <3>1, <3>2, <3>3, HeardStays
  <2>5. CASE DataKept
    <3>1. Newer /\ Len(segs') = Len(segs)
      BY <2>5, NewerKept DEF DataKept
    <3> QED BY <1>1, <1>3, <2>1, <2>2, <2>3, <3>1, ToldStays, HeardStays
  <2>6. CASE Create(w) /\ key # 0
    <3>1. DataKept
      BY <1>1, <2>6, CreateDoes, AllKept DEF memory
    <3> QED BY <2>5, <3>1
  <2> QED BY <1>1, <1>3, <2>4, <2>5, <2>6, OpenKeeps
<1>4. CASE OnlyWriter(w) /\ (Write(w) \/ Size(w))
  <2>1. Frame(w) /\ Len(segs') = Len(segs)
    BY <1>1, <1>4, FrameWrite, FrameSize, RestWrite
  <2>2. Newer
    <3>1. CASE Write(w)
      BY <1>1, <1>4, <3>1, NewerWrites DEF Sent
    <3>2. CASE Size(w)
      BY <3>2, SizeKeeps, NewerKept
    <3> QED BY <1>4, <3>1, <3>2
  <2>3. Sent(w)' /\ Told'
    BY <1>1, <1>4, <2>2, SentNext, ToldWrites
  <2>4. \A r \in Readers : r # w /\ r \in Users
    BY Who
  <2> QED BY <1>1, <1>4, <2>1, <2>2, <2>3, <2>4, HeardStays
<1>5. CASE OnlyWriter(w) /\ \E r \in Readers : OpenOrClose(r) \/ Read(r)
  <2>1. PICK r \in Readers : OpenOrClose(r) \/ Read(r)
    BY <1>5
  <2>2. /\ r \in Users /\ r # w /\ Frame(r) /\ Newer /\ Len(segs') = Len(segs)
        /\ infos' = infos /\ count' = count /\ spoiled \subseteq spoiled'
    <3>1. r \in Users /\ r # w /\ Frame(r) /\ Newer
      BY <2>1, Who, FrameOpen, FrameRead, NewerReads
    <3>2. Len(segs') = Len(segs) /\ infos' = infos /\ count' = count
      BY <2>1, ReaderLeaves DEF CeilingsKept
    <3> QED BY <3>1, <3>2 DEF Frame, HistoryGrows
  <2>3. Told'
    BY <1>1, <1>5, <2>2, ToldStays
  <2>4. Sent(w)'
    <3>1. at'[w] = at[w] /\ pc'[w] = pc[w] /\ loc'[w] = loc[w]
      BY <1>1, <2>2 DEF Frame, UsersFrame
    <3>2. pc[w] \in {"written", "notify"} /\ at[w] \notin spoiled' =>
            segs'[at[w]].data[idx(w)] = count
      <4> SUFFICES ASSUME pc[w] \in {"written", "notify"}, at[w] \notin spoiled'
                   PROVE  segs'[at[w]].data[idx(w)] = count
        OBVIOUS
      <4>1. segs[at[w]].data[idx(w)] = count /\ at[w] \in 1..Len(segs)
        BY <1>1, <1>5, <2>2, Who DEF Sent, Mapped
      <4>2. CASE DataKept
        BY <4>1, <4>2 DEF DataKept
      <4>3. CASE Stray(r) /\ segs' # segs
        <5>1. OnlyMine(r) /\ spoiled' = spoiled \cup {at[r]}
          BY <4>3, StrayDoes DEF Memory1
        <5> QED BY <4>1, <5>1 DEF OnlyMine
      <4> QED BY <2>1, <4>1, <4>2, <4>3, ReaderLeaves
    <3> QED BY <1>1, <1>5, <2>2, <3>1, <3>2 DEF Sent, idx
  <2>5. Heard(r)'
    BY <1>1, <1>5, <2>1, HeardMoves
  <2>6. \A q \in Readers : q # r => Heard(q)'
    BY <1>1, <1>5, <2>2, HeardStays
  <2> QED BY <2>3, <2>4, <2>5, <2>6
<1>6. CASE OnlyWriter(w) /\ UNCHANGED <<memory, users, infos, count, spoiled, came, left>>
  <2>1. Sent(w) /\ Told /\ \A r \in Readers : Heard(r)
    BY <1>1, <1>6
  <2>2. UNCHANGED <<segs, at, pc, loc, infos, count, spoiled>>
    BY <1>6 DEF memory, users
  <2>3. Told'
    BY <2>1, <2>2 DEF Told, NotOlder
  <2>4. Sent(w)'
    BY <2>1, <2>2 DEF Sent, idx
  <2>5. \A r \in Readers : Heard(r)'
    BY <2>1, <2>2 DEF Heard, Finds, NotOlder, idx
  <2> QED BY <2>3, <2>4, <2>5
<1> QED BY <1>2, <1>3, <1>4, <1>5, <1>6, WhoMoves

-----------------------------------------------------------------------------
(* The theorems *)

LEMMA InitIInv ==
  ASSUME Init
  PROVE  IInv
<1>1. /\ segs = <<>> /\ Len(segs) = 0 /\ key = 0 /\ infos = {} /\ dead = {}
      /\ count = 0 /\ spoiled = {} /\ came = {} /\ left = FALSE
  BY DEF Init
<1>2. \A u \in Users : /\ at[u] = 0 /\ conf[u] = GetCeilingMessageSize(0) /\ loc[u] = NoLocals
                       /\ pc[u] = IF u \in Writers THEN "idle" ELSE "listen"
  BY DEF Init
<1>3. /\ at \in [Users -> {0}] /\ conf \in [Users -> Ceilings]
      /\ todo \in [Writers -> Seq(Nat)] /\ segs \in Seq(Memory)
  <2>1. conf = [u \in Users |-> GetCeilingMessageSize(0)] /\ at = [u \in Users |-> 0]
    BY DEF Init
  <2>2. GetCeilingMessageSize(0) \in Ceilings
    BY Layouts
  <2> QED BY <1>1, <2>1, <2>2, SegmentAssumption DEF Init
<1>4. /\ NoLocals \in Local /\ NoLocals.idx = 0 /\ NoLocals.msg = 0
  BY Layouts DEF NoLocals, Local, Nothing
<1>5. loc \in [Users -> Local]
  BY <1>4 DEF Init
<1>6. /\ \A w \in Writers : w \in Users /\ pc[w] = "idle"
      /\ \A r \in Readers : r \in Users /\ pc[r] = "listen"
      /\ \A u \in Users : pc[u] \in {"idle", "listen"}
  BY <1>2, SegmentAssumption DEF Users
<1>7. pc \in [Users -> WriterSteps \cup ReaderSteps]
  BY <1>6 DEF Init, WriterSteps, ReaderSteps
<1>8. TypeOK
  <2>1. at \in [Users -> 0..Len(segs)] /\ key \in 0..Len(segs)
    BY <1>1, <1>3
  <2>2. \A u \in Users : pc[u] \in Unmapped \ Mapped
    BY <1>6 DEF Unmapped, Mapped
  <2>3. \A s \in 1..Len(segs) : FALSE
    BY <1>1
  <2>4. infos = {} /\ dead = {} /\ spoiled = {} /\ came = {} /\ left \in BOOLEAN
    BY <1>1
  <2>5. \A u \in Users :
          /\ pc[u] \in Unmapped \cup Mapped
          /\ pc[u] \in Mapped => at[u] # 0
          /\ pc[u] \in Mapped \ {"count", "range", "peek"} => idx(u) < block_num(u)
    BY <2>2
  <2>6. \A s \in 1..Len(segs) :
          /\ segs[s].refs \in 0..MaxRefs /\ segs[s].wrote_num \in 0..count
          /\ segs[s].ceiling \in Ceilings \cup {0} /\ segs[s].need_remap \in BOOLEAN
          /\ segs[s].lock \in [Index -> Int] /\ segs[s].data \in [Index -> Torn..count]
    BY <2>3
  <2>7. spoiled \subseteq 1..Len(segs) /\ infos \subseteq [block_index : Index, msg : 1..count]
        /\ dead \subseteq Users /\ came \subseteq Writers
    BY <2>4
  <2>8. conf \in [Users -> Ceilings]
    BY <1>3
  <2>9. Rest
    BY <2>1, <2>4, <2>7 DEF Rest
  <2> QED BY <2>1, <2>5, <2>6, <2>8, <2>9 DEF TypeOK, Rest
<1>9. Shapes /\ Steps
  <2>1. \A u \in Users : loc[u].idx = 0 /\ loc[u].msg = 0
    BY <1>2, <1>4
  <2>2. Shapes
    BY <1>1, <1>3, <1>5, <1>6, <1>7 DEF Shapes, WriterSteps, ReaderSteps
  <2>3. \A w \in Writers : pc[w] = "idle" /\ idx(w) = 0
    BY <1>6, <2>1 DEF idx
  <2>4. \A r \in Readers : pc[r] = "listen" /\ idx(r) = 0 /\ loc[r].msg <= count
    BY <1>1, <1>6, <2>1 DEF idx
  <2>5. \A u \in Users : pc[u] \notin {"last", "shut down"}
    BY <1>6
  <2>6. Steps
    BY <2>3, <2>4, <2>5 DEF Steps, Sending
  <2> QED BY <2>2, <2>6
<1>10. Bumps /\ LockWords /\ Clean /\ Solo /\ News
  BY <1>1 DEF Bumps, LockWords, Clean, Solo, News, OnlyWriter
<1>11. Alone /\ Layout /\ Whole /\ Absent
  BY <1>1, <1>2, <1>6 DEF Alone, Layout, Whole, Absent
<1> QED BY <1>8, <1>9, <1>10, <1>11 DEF IInv

\* The invariant that everything below rests on holds in every state of the
\* segments: opening, replacing, writing, reading, dying.
THEOREM Inductive == Spec => []IInv
<1>1. Init => IInv
  BY InitIInv
<1>2. IInv /\ [Next]_vars => IInv'
  <2> SUFFICES ASSUME IInv, [Next]_vars
               PROVE  IInv'
    OBVIOUS
  <2>1. /\ Types /\ Bumps /\ Alone /\ LockWords /\ Layout /\ Clean /\ Whole
        /\ Absent /\ Solo /\ News
    BY DEF IInv, Types
  <2>2. Types' /\ Bumps'
    BY <2>1, TypesNext, BumpsNext
  <2>3. Alone' /\ LockWords' /\ Layout' /\ Clean' /\ Whole'
    BY <2>1, AloneNext, LocksNext, LayoutNext, CleanNext, WholeNext
  <2>4. Absent' /\ Solo' /\ News'
    BY <2>1, AbsentNext, SoloNext, NewsNext
  <2> QED BY <2>2, <2>3, <2>4 DEF IInv, Types
<1> QED BY <1>1, <1>2, PTL DEF Spec

\* Every user has a segment mapped in every step that touches one, and works on
\* blocks that exist in its layout (Segment's managed_shm_ and block_num).
THEOREM TypeCorrect == Spec => []TypeOK
<1>1. IInv => TypeOK
  BY DEF IInv
<1> QED BY <1>1, Inductive, PTL

\* The lock of a block of an unspoiled segment says who is in it, dead or alive:
\* one writer and nobody else, or so many readers (Block's lock_num_).
THEOREM LocksRight == Spec => []LockWords
<1>1. IInv => LockWords
  BY DEF IInv
<1> QED BY <1>1, Inductive, PTL

\* A dispatcher never hands a torn message to its listeners and, while there is
\* one writer and nobody leaves, none that is older than the one announced, even
\* if the segment was replaced in between (ShmDispatcher::ReadMessage).
THEOREM ReadsFresh == Spec => []FreshReads
<1>1. IInv => FreshReads
  <2> SUFFICES ASSUME IInv, NEW r \in Readers, pc[r] = "release", at[r] \notin spoiled
               PROVE  /\ loc[r].got # Torn
                      /\ loc[r].got # Nothing /\ Cardinality(came) = 1 /\ ~left =>
                           loc[r].got >= loc[r].msg
    BY DEF FreshReads
  <2>1. loc[r].got # Torn
    BY DEF IInv, Whole
  <2>2. ASSUME loc[r].got # Nothing, Cardinality(came) = 1, ~left
        PROVE  loc[r].got >= loc[r].msg
    <3>1. came \subseteq Writers /\ came \subseteq Users
      BY DEF IInv, TypeOK, Users
    <3>2. IsFiniteSet(came)
      BY <3>1, SegmentAssumption, FS_Subset
    <3>3. came # {}
      BY <2>2, FS_EmptySet
    <3>4. PICK w \in came : came = {w}
      BY <2>2, <3>2, <3>3, Emptied
    <3>5. w \in Writers /\ OnlyWriter(w)
      BY <2>2, <3>1, <3>4 DEF OnlyWriter
    <3>6. Heard(r)
      BY <3>5 DEF IInv, News
    <3> QED BY <2>1, <2>2, <3>6 DEF Heard
  <2> QED BY <2>1, <2>2
<1> QED BY <1>1, Inductive, PTL
=============================================================================
