----------------------------- MODULE ShmSegment -----------------------------
(***************************************************************************)
(* transport::Segment: a channel's blocks in System V shared memory.       *)
(* ShmTransmitters write messages into blocks and announce the block; the  *)
(* ShmDispatchers of the reading processes are told of it and read the     *)
(* block.  A message too large for the blocks makes its writer replace the *)
(* segment by one of fewer and larger blocks; the others follow when they  *)
(* see need_remap.                                                         *)
(*                                                                         *)
(* A user is one Segment object and the one thread that uses it, so what   *)
(* the object keeps for itself is not shared; every access to the shared   *)
(* memory and every call of shmget and shmctl is a step.  An announcement  *)
(* is a datagram: it may be lost, repeated and overtaken.  A user may die  *)
(* at any step and leaves the shared memory as it is.                      *)
(***************************************************************************)
EXTENDS Integers, Sequences, FiniteSetsExt

CONSTANTS Writers, Readers,
          Plans,            \* the sizes of the messages each writer sends
          BlockNum,         \* ceiling_msg_size to block_num
          kMaxTryLockTimes,
          MaxDeaths,        \* bound: the users that die
          MaxRefs           \* bound: no user opens a segment counted so often

Users == Writers \cup Readers
Ceilings == DOMAIN BlockNum

ASSUME SegmentAssumption ==
  /\ Writers \cap Readers = {} /\ IsFiniteSet(Users)
  /\ Plans \subseteq [Writers -> Seq(Nat)]
  /\ Ceilings \subseteq Nat \ {0} /\ Ceilings # {} /\ IsFiniteSet(Ceilings)
  /\ BlockNum \in [Ceilings -> Nat \ {0}]
  /\ kMaxTryLockTimes \in Nat \ {0} /\ MaxDeaths \in Nat /\ MaxRefs \in Nat

VARIABLES segs,      \* the segments ever created, in order
          key,       \* the one shmget finds, 0 if none
          at, conf,  \* per user: the segment it has mapped, its conf_
          pc,        \* per user: its step
          loc,       \* per user: the locals of the call it is in
          todo,      \* per writer: the messages to send
          infos,     \* the announcements made
          dead,
          count,     \* history: the messages that got a block, numbered
          spoiled,   \* history: the segments with broken contents, see below
          came, left \* history: the writers that came, whether a user left
memory == <<segs, key>>
users == <<at, conf, pc, loc, todo>>
history == <<count, spoiled, came, left>>
vars == <<memory, users, infos, dead, history>>

\* The content of a block: the number of a message, Nothing or Torn.
Nothing == 0
Torn == -1
Index == 0 .. Max({BlockNum[c] : c \in Ceilings}) - 1
kWriteExclusive == -1

GetCeilingMessageSize(size) ==
  LET fits == {c \in Ceilings : size <= c}
  IN IF fits # {} THEN Min(fits) ELSE Max(Ceilings)
block_num(u) == BlockNum[conf[u]]

\* New memory is filled with zeros: no need_remap, locks that are free.
NewMemory == [need_remap |-> FALSE, wrote_num |-> 0, refs |-> 0, ceiling |-> 0,
              lock |-> [i \in Index |-> 0], data |-> [i \in Index |-> Nothing]]

\* ret is the step after OpenOnly, idx the block, lock_num and try_times those of
\* TryLockForRead; msg (history) is the message written or announced, got
\* (history) the one read.
NoLocals == [ret |-> "none", idx |-> 0, lock_num |-> 0, try_times |-> 0,
             msg |-> 0, got |-> Nothing]

Init == /\ segs = <<>> /\ key = 0
        /\ at = [u \in Users |-> 0] /\ conf = [u \in Users |-> GetCeilingMessageSize(0)]
        /\ pc = [u \in Users |-> IF u \in Writers THEN "idle" ELSE "listen"]
        /\ loc = [u \in Users |-> NoLocals]
        /\ todo \in Plans
        /\ infos = {} /\ dead = {}
        /\ count = 0 /\ spoiled = {} /\ came = {} /\ left = FALSE

-----------------------------------------------------------------------------
At(u, step) == pc[u] = step
Goto(u, step) == pc' = [pc EXCEPT ![u] = step]
Set(u, field, value) == loc' = [loc EXCEPT ![u][field] = value]
\* The call returns: the writer is done with the message, sent or refused, and
\* the dispatcher listens again.
Return(u) == /\ loc' = [loc EXCEPT ![u] = NoLocals]
             /\ IF u \in Writers
                THEN Goto(u, "idle") /\ todo' = [todo EXCEPT ![u] = Tail(@)]
                ELSE Goto(u, "listen") /\ UNCHANGED todo
\* OpenOnly, and where to go when it has succeeded.
Open(u, then) == Goto(u, "get") /\ Set(u, "ret", then)

mine(u) == segs[at[u]]
idx(u) == loc[u].idx
size(w) == todo[w][1]
Share(u, field, value) == segs' = [segs EXCEPT ![at[u]][field] = value]
ShareBlock(u, field, value) == segs' = [segs EXCEPT ![at[u]][field][idx(u)] = value]
Detach(u) == at' = [at EXCEPT ![u] = 0]
Spoil(s) == spoiled' = spoiled \cup {s}

\* s is mapped by its creator, which has yet to construct State and Blocks.
Building(s) == \E u \in Users \ dead : at[u] = s /\ pc[u] \in {"state", "blocks"}

-----------------------------------------------------------------------------
(* Opening and closing a segment *)

\* shmget(IPC_CREAT | IPC_EXCL) in OpenOrCreate.
Create(u) == /\ At(u, "create")
             /\ IF key = 0
                THEN /\ segs' = Append(segs, NewMemory)
                     /\ key' = Len(segs')
                     /\ at' = [at EXCEPT ![u] = Len(segs')]
                     /\ Goto(u, "state")
                ELSE Goto(u, "get") /\ UNCHANGED <<memory, at>>
             /\ UNCHANGED <<conf, loc, todo, infos, history>>

MakeState(u) == /\ At(u, "state")
                /\ segs' = [segs EXCEPT ![at[u]] =
                     [@ EXCEPT !.need_remap = FALSE, !.wrote_num = 0, !.refs = 0,
                               !.ceiling = conf[u]]]
                /\ Goto(u, "blocks")
                /\ UNCHANGED <<key, at, conf, loc, todo, infos, history>>

MakeBlocks(u) == /\ At(u, "blocks")
                 /\ Share(u, "lock", [i \in Index |-> 0])
                 /\ Goto(u, "count")
                 /\ UNCHANGED <<key, at, conf, loc, todo, infos, history>>

\* OpenOnly: shmget, shmat and the look at the ceiling.  Whoever maps a segment
\* under construction may see a ceiling of 0, and what it writes there is lost.
Get(u) == /\ At(u, "get")
          /\ IF key # 0
             THEN /\ at' = [at EXCEPT ![u] = key]
                  /\ conf' = [conf EXCEPT ![u] = GetCeilingMessageSize(segs[key].ceiling)]
                  /\ IF Building(key) THEN Spoil(key) ELSE UNCHANGED spoiled
                  /\ Goto(u, "count") /\ UNCHANGED <<loc, todo>>
             ELSE /\ IF loc[u].ret = "size" THEN Goto(u, "size") /\ UNCHANGED <<loc, todo>>
                                            ELSE Return(u)
                  /\ UNCHANGED <<at, conf, spoiled>>
          /\ UNCHANGED <<memory, infos, count, came, left>>

IncreaseReferenceCounts(u) ==
  /\ At(u, "count") /\ mine(u).refs < MaxRefs
  /\ Share(u, "refs", mine(u).refs + 1)
  /\ Goto(u, loc[u].ret) /\ Set(u, "ret", "none")
  /\ UNCHANGED <<key, at, conf, todo, infos, history>>

\* Destroy, when a writer is disabled (it may be enabled again, with a new
\* Segment) or a dispatcher shut down: the count is decremented and then read.
Destroy(u) == /\ pc[u] \in {"idle", "listen"} /\ at[u] # 0
              /\ Share(u, "refs", IF mine(u).refs = 0 THEN 0 ELSE mine(u).refs - 1)
              /\ Goto(u, "last")
              /\ left' = TRUE
              /\ UNCHANGED <<key, at, conf, loc, todo, infos, count, spoiled, came>>

Last(u) == /\ At(u, "last")
           /\ key' = IF mine(u).refs = 0 THEN 0 ELSE key
           /\ Detach(u)
           /\ conf' = [conf EXCEPT ![u] = GetCeilingMessageSize(0)]
           /\ Goto(u, IF u \in Writers THEN "idle" ELSE "shut down")
           /\ UNCHANGED <<segs, loc, todo, infos, history>>

-----------------------------------------------------------------------------
(* ShmTransmitter::Transmit *)

Transmit(w) == /\ At(w, "idle") /\ todo[w] # <<>>
               /\ IF at[w] = 0 THEN Goto(w, "create") /\ Set(w, "ret", "check")
                               ELSE Goto(w, "check") /\ UNCHANGED loc
               /\ came' = came \cup {w}
               /\ UNCHANGED <<memory, at, conf, todo, infos, count, spoiled, left>>

\* AcquireBlockToWrite: Remap when need_remap is set ...
Check(w) == /\ At(w, "check")
            /\ IF mine(w).need_remap THEN Detach(w) /\ Open(w, "size")
                                     ELSE Goto(w, "size") /\ UNCHANGED <<at, loc>>
            /\ UNCHANGED <<memory, conf, todo, infos, history>>

\* ... and Recreate when the message is too large, even if the remap has failed
\* and left no State to mark: the process then dies of a null pointer.
Size(w) == /\ At(w, "size")
           /\ CASE size(w) > conf[w] /\ at[w] # 0 ->
                     /\ conf' = [conf EXCEPT ![w] = GetCeilingMessageSize(size(w))]
                     /\ Share(w, "need_remap", TRUE)
                     /\ Detach(w)
                     /\ Goto(w, "remove") /\ Set(w, "ret", "load")
                     /\ UNCHANGED <<todo, dead>>
                [] size(w) > conf[w] /\ at[w] = 0 ->
                     /\ dead' = dead \cup {w}
                     /\ UNCHANGED <<segs, at, conf, pc, loc, todo>>
                [] OTHER ->
                     /\ IF at[w] = 0 THEN Return(w) ELSE Goto(w, "load") /\ UNCHANGED <<loc, todo>>
                     /\ UNCHANGED <<segs, at, conf, dead>>
           /\ UNCHANGED <<key, infos, history>>

\* Remove takes away whatever segment the key names by now.
RemoveSegment(w) == /\ At(w, "remove")
                    /\ key' = 0 /\ Goto(w, "create")
                    /\ UNCHANGED <<segs, at, conf, loc, todo, infos, history>>

\* Mutant: try_idx is not masked.
LoadUnmasked(w) == /\ At(w, "load")
                   /\ Set(w, "idx", Min({mine(w).wrote_num, Max(Index)}))
                   /\ Goto(w, "lock")
                   /\ UNCHANGED <<memory, at, conf, todo, infos, history>>

\* GetNextWritableBlockIndex
Load(w) == /\ At(w, "load")
           /\ Set(w, "idx", mine(w).wrote_num % block_num(w))
           /\ Goto(w, "lock")
           /\ UNCHANGED <<memory, at, conf, todo, infos, history>>

\* Mutant: a block is free when nobody writes it.
TryLockBesideReaders(w) == mine(w).lock[idx(w)] # kWriteExclusive

TryLockForWrite(w) == mine(w).lock[idx(w)] = 0
Lock(w) == /\ At(w, "lock")
           /\ IF TryLockForWrite(w)
              THEN /\ ShareBlock(w, "lock", kWriteExclusive)
                   /\ Goto(w, "bump")
                   /\ count' = count + 1 /\ Set(w, "msg", count')
              ELSE /\ Set(w, "idx", (idx(w) + 1) % block_num(w))
                   /\ UNCHANGED <<segs, pc, count>>
           /\ UNCHANGED <<key, at, conf, todo, infos, spoiled, came, left>>

IncreaseWroteNum(w) == /\ At(w, "bump")
                       /\ Share(w, "wrote_num", mine(w).wrote_num + 1)
                       /\ Goto(w, "fill")
                       /\ UNCHANGED <<key, at, conf, loc, todo, infos, history>>

\* SerializeToArray begins.  A message that is larger than the blocks, of a
\* segment someone else has created or of the largest kind, runs into those behind.
Fill(w) == /\ At(w, "fill")
           /\ LET over == size(w) > mine(w).ceiling IN
              /\ Share(w, "data", [i \in Index |->
                   IF i = idx(w) \/ (over /\ i > idx(w)) THEN Torn ELSE mine(w).data[i]])
              /\ IF over THEN Spoil(at[w]) ELSE UNCHANGED spoiled
           /\ Goto(w, "filled")
           /\ UNCHANGED <<key, at, conf, loc, todo, infos, count, came, left>>

ReleaseWriteLock(w) == ShareBlock(w, "lock", mine(w).lock[idx(w)] + 1)

\* The message cannot be serialised; nothing was written.
Refuse(w) == /\ At(w, "fill")
             /\ ReleaseWriteLock(w) /\ Return(w)
             /\ UNCHANGED <<key, at, conf, infos, history>>

\* The message, its size and its info are complete.
Filled(w) == /\ At(w, "filled")
             /\ ShareBlock(w, "data", loc[w].msg)
             /\ Goto(w, "written")
             /\ UNCHANGED <<key, at, conf, loc, todo, infos, history>>

ReleaseWrittenBlock(w) == /\ At(w, "written")
                          /\ ReleaseWriteLock(w)
                          /\ Goto(w, "notify")
                          /\ UNCHANGED <<key, at, conf, loc, todo, infos, history>>

Notify(w) == /\ At(w, "notify")
             /\ infos' = infos \cup {[block_index |-> idx(w), msg |-> loc[w].msg]}
             /\ Return(w)
             /\ UNCHANGED <<memory, at, conf, history>>

-----------------------------------------------------------------------------
(* ShmDispatcher::ThreadFunc and ReadMessage *)

Listen(r) == /\ At(r, "listen")
             /\ \E info \in infos :
                  loc' = [loc EXCEPT ![r] = [@ EXCEPT !.idx = info.block_index,
                                                      !.msg = info.msg,
                                                      !.ret = IF at[r] = 0 THEN "range" ELSE "none"]]
             /\ Goto(r, IF at[r] = 0 THEN "get" ELSE "range")
             /\ UNCHANGED <<memory, at, conf, todo, infos, history>>

\* Mutant: the reader does not look at need_remap.
CheckIndexOnly(r) ==
  /\ At(r, "range")
  /\ IF idx(r) >= block_num(r) THEN Return(r) ELSE Goto(r, "peek") /\ UNCHANGED <<loc, todo>>
  /\ UNCHANGED <<memory, at, conf, infos, history>>

\* AcquireBlockToRead: the index is compared with the segment mapped so far,
\* and only then is need_remap looked at.
CheckIndex(r) ==
  /\ At(r, "range")
  /\ CASE idx(r) >= block_num(r) -> Return(r) /\ UNCHANGED at
       [] idx(r) < block_num(r) /\ mine(r).need_remap ->
            Detach(r) /\ Open(r, "peek") /\ UNCHANGED todo
       [] OTHER -> Goto(r, "peek") /\ UNCHANGED <<at, loc, todo>>
  /\ UNCHANGED <<memory, conf, infos, history>>

\* TryLockForRead loads the lock; a block being written is not waited for.
Peek(r) == /\ At(r, "peek") /\ idx(r) < block_num(r)
           /\ LET lock == mine(r).lock[idx(r)] IN
              IF lock < 0 THEN Return(r)
              ELSE Goto(r, "take") /\ Set(r, "lock_num", lock) /\ UNCHANGED todo
           /\ UNCHANGED <<memory, at, conf, infos, history>>

\* The new segment has no such block: what is taken for a lock lies in the
\* buffers.  It looks taken, or is incremented there and never put right.
Stray(r) == /\ At(r, "peek") /\ idx(r) >= block_num(r)
            /\ \/ UNCHANGED <<segs, spoiled>>
               \/ /\ \E i \in Index : segs' = [segs EXCEPT ![at[r]].data[i] = Torn]
                  /\ Spoil(at[r])
            /\ Return(r)
            /\ UNCHANGED <<key, at, conf, infos, count, came, left>>

\* The compare_exchange of TryLockForRead.
Take(r) == /\ At(r, "take")
           /\ LET try_times == loc[r].try_times + 1 IN
              CASE mine(r).lock[idx(r)] = loc[r].lock_num ->
                     /\ ShareBlock(r, "lock", loc[r].lock_num + 1)
                     /\ Goto(r, "read") /\ UNCHANGED <<loc, todo>>
                [] mine(r).lock[idx(r)] # loc[r].lock_num /\ try_times < kMaxTryLockTimes ->
                     /\ Goto(r, "peek") /\ Set(r, "try_times", try_times)
                     /\ UNCHANGED <<segs, todo>>
                [] OTHER -> Return(r) /\ UNCHANGED segs
           /\ UNCHANGED <<key, at, conf, infos, history>>

\* The listeners parse the message in the block; with a wrong idea of the size
\* of the blocks they find anything there.
ReadMessage(r) ==
  /\ At(r, "read")
  /\ Set(r, "got", IF conf[r] = GetCeilingMessageSize(mine(r).ceiling)
                   THEN mine(r).data[idx(r)] ELSE Torn)
  /\ Goto(r, "release")
  /\ UNCHANGED <<memory, at, conf, todo, infos, history>>

ReleaseReadBlock(r) == /\ At(r, "release")
                       /\ ShareBlock(r, "lock", mine(r).lock[idx(r)] - 1)
                       /\ Return(r)
                       /\ UNCHANGED <<key, at, conf, infos, history>>

-----------------------------------------------------------------------------
Die(u) == /\ Cardinality(dead) < MaxDeaths /\ dead' = dead \cup {u}
          /\ UNCHANGED <<memory, users, infos, history>>

OpenOrClose(u) == \/ Create(u) \/ MakeState(u) \/ MakeBlocks(u) \/ Get(u)
                  \/ IncreaseReferenceCounts(u) \/ Destroy(u) \/ Last(u)
Write(w) == \/ Transmit(w) \/ Check(w) \/ RemoveSegment(w) \/ Load(w)
            \/ Lock(w) \/ IncreaseWroteNum(w) \/ Fill(w) \/ Refuse(w)
            \/ Filled(w) \/ ReleaseWrittenBlock(w) \/ Notify(w)
Read(r) == \/ Listen(r) \/ CheckIndex(r) \/ Peek(r) \/ Stray(r) \/ Take(r)
           \/ ReadMessage(r) \/ ReleaseReadBlock(r)

Next == \/ \E u \in Users \ dead : \/ OpenOrClose(u) /\ UNCHANGED dead
                                   \/ Die(u)
        \/ \E w \in Writers \ dead : \/ Write(w) /\ UNCHANGED dead
                                     \/ Size(w)
        \/ \E r \in Readers \ dead : Read(r) /\ UNCHANGED dead

Spec == Init /\ [][Next]_vars

-----------------------------------------------------------------------------
(* A segment is spoiled once it was mapped under construction, a message   *)
(* larger than its blocks was written, or a block it does not have was     *)
(* locked.  The code lets all three happen; LockWords and FreshReads are   *)
(* about the other segments.                                               *)

Unmapped == {"idle", "listen", "create", "get", "size", "remove", "shut down"}
Mapped == {"state", "blocks", "count", "last", "check", "load", "lock", "bump", "fill",
           "filled", "written", "notify", "range", "peek", "take", "read", "release"}

\* Types; a user has a segment mapped in every step that touches one, and a
\* block it has checked for or chosen exists in the layout it works with.
TypeOK ==
  /\ \A s \in 1..Len(segs) :
       /\ segs[s].refs \in 0..MaxRefs /\ segs[s].wrote_num \in 0..count
       /\ segs[s].ceiling \in Ceilings \cup {0} /\ segs[s].need_remap \in BOOLEAN
       /\ segs[s].lock \in [Index -> Int] /\ segs[s].data \in [Index -> Torn..count]
  /\ key \in 0..Len(segs) /\ spoiled \subseteq 1..Len(segs)
  /\ at \in [Users -> 0..Len(segs)] /\ conf \in [Users -> Ceilings]
  /\ \A u \in Users :
       /\ pc[u] \in Unmapped \cup Mapped
       /\ pc[u] \in Mapped => at[u] # 0
       /\ pc[u] \in Mapped \ {"count", "range", "peek"} => idx(u) < block_num(u)
  /\ infos \subseteq [block_index : Index, msg : 1..count]
  /\ dead \subseteq Users /\ came \subseteq Writers /\ left \in BOOLEAN

Inside(steps, s, i) ==
  {u \in Users : at[u] = s /\ loc[u].idx = i /\ pc[u] \in steps}
WritersOf(s, i) == Inside({"bump", "fill", "filled", "written"}, s, i)
ReadersOf(s, i) == Inside({"read", "release"}, s, i)

\* The lock of a block says who is in it, dead or alive: one writer and nobody
\* else, or so many readers (Block's locks, while segments are replaced).
LockWords ==
  \A s \in (1..Len(segs)) \ spoiled, i \in Index :
    \/ /\ Cardinality(WritersOf(s, i)) = 1 /\ ReadersOf(s, i) = {}
       /\ segs[s].lock[i] = kWriteExclusive
    \/ /\ WritersOf(s, i) = {}
       /\ segs[s].lock[i] = Cardinality(ReadersOf(s, i))

\* A dispatcher reads whole messages only and, with one writer and nobody
\* leaving, never one older than the message announced to it: not even when the
\* announcement comes late and the segment was replaced meanwhile.
FreshReads ==
  \A r \in Readers :
    pc[r] = "release" /\ at[r] \notin spoiled =>
      /\ loc[r].got # Torn
      /\ loc[r].got # Nothing /\ Cardinality(came) = 1 /\ ~left => loc[r].got >= loc[r].msg
==============================================================================
