------------------------------ MODULE DataPath ------------------------------
(***************************************************************************)
(* The way of a message from DataDispatcher::Dispatch through the rings of *)
(* the readers (CacheBuffer) to the callback of a task, which takes it     *)
(* with TryFetch, fused with the latest messages of other channels.        *)
(*                                                                         *)
(* A critical section on the mutex of a ring is a step; so is each turn of *)
(* the loops of Dispatch and Notify, and each step of a reader's creation. *)
(* The coroutine is reduced to its state and its update flag, which module *)
(* ClassicScheduler has in full.                                           *)
(***************************************************************************)
EXTENDS Naturals, Sequences

CONSTANTS Channels, Writers, Readers,
          Plans,     \* who reads, and the channels each writer dispatches to
          Inputs,    \* the channels of each reader: the first one wakes it
          Size,      \* the length of each reader's rings
          None, Nothing

ASSUME DataAssumption ==
  /\ Plans \subseteq [readers : SUBSET Readers, writes : [Writers -> Seq(Channels)]]
  /\ Inputs \in [Readers -> Seq(Channels) \ {<<>>}]
  /\ Size \in [Readers -> Nat]
  /\ None # Nothing

VARIABLES ring,      \* the CacheBuffer of each reader and channel
          index,     \* next_msg_index_
          buffers,   \* DataDispatcher::buffers_map_, per channel
          notifies,  \* DataNotifier::notifies_map_, per channel
          stage,     \* steps done of the creation of each reader
          pc,        \* where the task of each reader stands
          updated,   \* a notification has reached its coroutine
          got,       \* what it has fetched in this TryFetch
          wpc, at,   \* where each writer stands, and its place in a loop
          todo,      \* the channels it dispatches to, the present one first
          shutdown,  \* IsShutdown()
          log,       \* history: what was put in each ring
          mark,      \* history: the logs' lengths when a Dispatch began
          unheard    \* history: announced before the callback was there

reading == <<ring, index, buffers, notifies, stage, pc, updated, got, log, unheard>>
writing == <<wpc, at, todo, mark>>
vars == <<reading, writing, shutdown>>

Main(r) == Inputs[r][1]

Init == /\ ring = [r \in Readers |-> [c \in Channels |->
                     [head |-> 0, tail |-> 0, slots |-> [i \in 0..Size[r] |-> None]]]]
        /\ index = [r \in Readers |-> 0]
        /\ buffers = [c \in Channels |-> <<>>]
        /\ notifies = [c \in Channels |-> <<>>]
        /\ stage = [r \in Readers |-> 0]
        /\ updated = [r \in Readers |-> FALSE]
        /\ got = [r \in Readers |-> <<>>]
        /\ wpc = [w \in Writers |-> "idle"]
        /\ at = [w \in Writers |-> 1]
        /\ \E p \in Plans : /\ todo = p.writes
                            /\ pc = [r \in Readers |-> IF r \in p.readers THEN "none" ELSE "gone"]
        /\ shutdown = FALSE
        /\ log = [r \in Readers |-> [c \in Channels |-> <<>>]]
        /\ mark = [w \in Writers |-> None]
        /\ unheard = [r \in Readers |-> FALSE]

-----------------------------------------------------------------------------
(* CacheBuffer *)

capacity(r) == Size[r] + 1
GetIndexOfSize(r, pos) == pos % (IF Size[r] = 0 THEN 1 ELSE Size[r])    \* mutant
GetIndex(r, pos) == pos % capacity(r)

First(b) == b.head + 1
Empty(b) == b.tail = 0
Full(r, b) == capacity(r) - 1 = b.tail - b.head

Filled(r, b, m) ==
  IF Full(r, b)
  THEN [head |-> b.head + 1, tail |-> b.tail + 1,
        slots |-> [b.slots EXCEPT ![GetIndex(r, b.head)] = m]]
  ELSE [b EXCEPT !.tail = @ + 1, !.slots[GetIndex(r, b.tail + 1)] = m]

At(r, b, pos) == b.slots[GetIndex(r, pos)]

-----------------------------------------------------------------------------
(* Creation and end of a reader.  AddBuffer and AddNotifier append to a    *)
(* vector that Dispatch and Notify walk without the mutex: a race, outside *)
(* the model, which lets a vector grow only while nobody walks it.         *)

Channel(w) == todo[w][1]
Unwalked(phase, c) == \A w \in Writers : wpc[w] = phase => Channel(w) # c

AddBuffer(r) ==
  /\ pc[r] = "none"
  /\ stage[r] < Len(Inputs[r])
  /\ LET c == Inputs[r][stage[r] + 1]
     IN  /\ buffers[c] # <<>> => Unwalked("fill", c)
         /\ buffers' = [buffers EXCEPT ![c] = Append(@, r)]
  /\ stage' = [stage EXCEPT ![r] = @ + 1]
  /\ UNCHANGED <<ring, index, notifies, pc, updated, got, log, unheard, writing, shutdown>>

AddNotifier(r) ==
  /\ stage[r] = Len(Inputs[r])
  /\ notifies[Main(r)] # <<>> => Unwalked("notify", Main(r))
  /\ notifies' = [notifies EXCEPT ![Main(r)] = Append(@, r)]
  /\ stage' = [stage EXCEPT ![r] = @ + 1]
  /\ UNCHANGED <<ring, index, buffers, pc, updated, got, log, unheard, writing, shutdown>>

DispatchTask(r) ==
  /\ stage[r] = Len(Inputs[r]) + 1
  /\ stage' = [stage EXCEPT ![r] = @ + 1]
  /\ pc' = [pc EXCEPT ![r] = "ready"]
  /\ UNCHANGED <<ring, index, buffers, notifies, updated, got, log, unheard, writing, shutdown>>

RegisterNotifyCallback(r) ==
  /\ stage[r] = Len(Inputs[r]) + 2
  /\ stage' = [stage EXCEPT ![r] = @ + 1]
  /\ UNCHANGED <<ring, index, buffers, notifies, pc, updated, got, log, unheard, writing, shutdown>>

HasCallback(r) == stage[r] = Len(Inputs[r]) + 3

\* The task is removed; the weak pointers to the rings expire.
Release(r) ==
  /\ HasCallback(r)
  /\ pc[r] \in {"ready", "wait"}
  /\ pc' = [pc EXCEPT ![r] = "gone"]
  /\ got' = [got EXCEPT ![r] = <<>>]
  /\ UNCHANGED <<ring, index, buffers, notifies, stage, updated, log, unheard, writing, shutdown>>

-----------------------------------------------------------------------------
(* DataDispatcher::Dispatch and DataNotifier::Notify *)

GotoW(w, from, to) == wpc[w] = from /\ wpc' = [wpc EXCEPT ![w] = to]
Turn(w) == at' = [at EXCEPT ![w] = @ + 1]

Begin(w) ==
  /\ todo[w] # <<>>
  /\ GotoW(w, "idle", "fill")
  /\ ~shutdown /\ buffers[Channel(w)] # <<>>
  /\ mark' = [mark EXCEPT ![w] =
                [r \in Readers |-> [k \in DOMAIN Inputs[r] \ {1} |-> Len(log[r][Inputs[r][k]])]]]
  /\ UNCHANGED <<reading, at, todo, shutdown>>

\* Nothing to do in shutdown, or without a buffer.
Refuse(w) ==
  /\ todo[w] # <<>> /\ wpc[w] = "idle"
  /\ shutdown \/ buffers[Channel(w)] = <<>>
  /\ todo' = [todo EXCEPT ![w] = Tail(@)]
  /\ UNCHANGED <<reading, wpc, at, mark, shutdown>>

Message(w, r) == [by |-> w, n |-> Len(todo[w]), mark |-> mark[w][r]]

Fill(w) ==
  /\ wpc[w] = "fill"
  /\ at[w] <= Len(buffers[Channel(w)])
  /\ Turn(w)
  /\ LET c == Channel(w)
         r == buffers[c][at[w]]
     IN  IF pc[r] = "gone" THEN UNCHANGED <<ring, log>>
         ELSE /\ ring' = [ring EXCEPT ![r][c] = Filled(r, @, Message(w, r))]
              /\ log' = [log EXCEPT ![r][c] = Append(@, Message(w, r))]
  /\ UNCHANGED <<index, buffers, notifies, stage, pc, updated, got, unheard, wpc, todo, mark, shutdown>>

Notify(w) ==
  /\ GotoW(w, "fill", "notify")
  /\ at[w] > Len(buffers[Channel(w)])
  /\ at' = [at EXCEPT ![w] = 1]
  /\ UNCHANGED <<reading, todo, mark, shutdown>>

\* A coroutine between set_state(DATA_WAIT) and Yield(READY).
DataWait(r) == pc[r] \in {"fetch", "latest", "call", "wait"}

Callback(w) ==
  /\ wpc[w] = "notify"
  /\ at[w] <= Len(notifies[Channel(w)])
  /\ Turn(w)
  /\ LET r == notifies[Channel(w)][at[w]]
     IN  /\ updated' = [updated EXCEPT ![r] = @ \/ (HasCallback(r) /\ DataWait(r))]
         /\ unheard' = [unheard EXCEPT ![r] = @ \/ ~HasCallback(r)]
  /\ UNCHANGED <<ring, index, buffers, notifies, stage, pc, got, log, wpc, todo, mark, shutdown>>

ReturnAtOnce(w) ==    \* mutant: return inside the loop
  /\ GotoW(w, "notify", "idle")
  /\ at[w] > 1
  /\ at' = [at EXCEPT ![w] = 1]
  /\ mark' = [mark EXCEPT ![w] = None]
  /\ todo' = [todo EXCEPT ![w] = Tail(@)]
  /\ UNCHANGED <<reading, shutdown>>

Return(w) ==
  /\ GotoW(w, "notify", "idle")
  /\ at[w] > Len(notifies[Channel(w)])
  /\ at' = [at EXCEPT ![w] = 1]
  /\ mark' = [mark EXCEPT ![w] = None]
  /\ todo' = [todo EXCEPT ![w] = Tail(@)]
  /\ UNCHANGED <<reading, shutdown>>

Shutdown == /\ ~shutdown
            /\ shutdown' = TRUE
            /\ UNCHANGED <<reading, writing>>

-----------------------------------------------------------------------------
(* The loop of the task: TryFetch, the callback, Yield *)

Goto(r, from, to) == pc[r] = from /\ pc' = [pc EXCEPT ![r] = to]
Reads(r) == UNCHANGED <<ring, buffers, notifies, stage, log, writing, shutdown>>

\* UpdateState lets it run, and the loop sets DATA_WAIT.
Resume(r) ==
  /\ \/ Goto(r, "ready", "fetch")
     \/ updated[r] /\ Goto(r, "wait", "fetch")
  /\ updated' = [updated EXCEPT ![r] = FALSE]
  /\ got' = [got EXCEPT ![r] = <<>>]
  /\ Reads(r) /\ UNCHANGED <<index, unheard>>

\* mutant: no test for an index past the tail
PlaceUntested(i, b) == IF Empty(b) THEN Nothing
                       ELSE IF i = 0 \/ i < First(b) THEN b.tail ELSE i

\* Where Fetch reads, given the index of the visitor.
Place(i, b) == IF Empty(b) \/ i = b.tail + 1 THEN Nothing
               ELSE IF i = 0 \/ i < First(b) THEN b.tail ELSE i

\* ChannelBuffer::Fetch
Fetch(r) ==
  LET b == ring[r][Main(r)]
      p == Place(index[r], b)
  IN  /\ \/ /\ p # Nothing
            /\ Goto(r, "fetch", "latest")
            /\ index' = [index EXCEPT ![r] = p]
            /\ got' = [got EXCEPT ![r] = <<At(r, b, p)>>]
         \/ /\ p = Nothing
            /\ Goto(r, "fetch", "wait")
            /\ got' = [got EXCEPT ![r] = <<Nothing>>]
            /\ UNCHANGED index
      /\ unheard' = [unheard EXCEPT ![r] = FALSE]
      /\ Reads(r) /\ UNCHANGED updated

BackStale(r, b) == At(r, b, IF b.tail > 1 THEN b.tail - 1 ELSE 1)    \* mutant
Back(r, b) == At(r, b, b.tail)

\* ChannelBuffer::Latest, on the next of the other channels.
Latest(r) ==
  /\ pc[r] = "latest"
  /\ Len(got[r]) < Len(Inputs[r])
  /\ LET b == ring[r][Inputs[r][Len(got[r]) + 1]]
     IN  IF Empty(b)
         THEN /\ Goto(r, "latest", "wait")
              /\ got' = [got EXCEPT ![r] = <<>>]
         ELSE /\ got' = [got EXCEPT ![r] = Append(@, Back(r, b))]
              /\ UNCHANGED pc
  /\ Reads(r) /\ UNCHANGED <<index, updated, unheard>>

\* TryFetch has succeeded and advances; the callback gets the messages.
Call(r) ==
  /\ Len(got[r]) = Len(Inputs[r])
  /\ Goto(r, "latest", "call")
  /\ index' = [index EXCEPT ![r] = @ + 1]
  /\ Reads(r) /\ UNCHANGED <<updated, got, unheard>>

Yield(r) == /\ Goto(r, "call", "ready")
            /\ got' = [got EXCEPT ![r] = <<>>]
            /\ Reads(r) /\ UNCHANGED <<index, updated, unheard>>

-----------------------------------------------------------------------------
Next == \/ \E w \in Writers : Begin(w) \/ Refuse(w) \/ Fill(w) \/ Notify(w) \/ Callback(w) \/ Return(w)
        \/ \E r \in Readers : \/ AddBuffer(r) \/ AddNotifier(r) \/ DispatchTask(r)
                              \/ RegisterNotifyCallback(r) \/ Release(r)
                              \/ Resume(r) \/ Fetch(r) \/ Latest(r) \/ Call(r) \/ Yield(r)
        \/ Shutdown

Spec == Init /\ [][Next]_vars

-----------------------------------------------------------------------------
(* Properties *)

Entries(r) == [by : Writers, n : Nat, mark : [DOMAIN Inputs[r] \ {1} -> Nat]]

Rings(r) == [head : Nat, tail : Nat, slots : [0..Size[r] -> Entries(r) \cup {None}]]

\* No message is a null pointer, and no position either.
ASSUME NoMessage == /\ \A r \in Readers : None \notin Entries(r) /\ Nothing \notin Entries(r)
                    /\ Nothing \notin Nat

\* Every variable has its type; an index is at most one past the tail.
TypeOK ==
  /\ \A r \in Readers :
       /\ ring[r] \in [Channels -> Rings(r)]
       /\ log[r] \in [Channels -> Seq(Entries(r))]
       /\ index[r] \in 0 .. ring[r][Main(r)].tail + 1
       /\ stage[r] \in 0 .. Len(Inputs[r]) + 3
       /\ got[r] \in Seq(Entries(r) \cup {Nothing})
  /\ buffers \in [Channels -> Seq(Readers)] /\ notifies \in [Channels -> Seq(Readers)]
  /\ pc \in [Readers -> {"none", "ready", "fetch", "latest", "call", "wait", "gone"}]
  /\ updated \in [Readers -> BOOLEAN] /\ unheard \in [Readers -> BOOLEAN]
  /\ wpc \in [Writers -> {"idle", "fill", "notify"}]
  /\ at \in [Writers -> Nat \ {0}]
  /\ todo \in [Writers -> Seq(Channels)]
  /\ shutdown \in BOOLEAN

\* A reader's ring, indices and fetches, overruns included, implement the
\* reading of a log: in order, each message once, a skip only to the newest
\* and only after an overrun, and no miss while something is unread.
View(r) == INSTANCE ChannelView WITH
  Capacity <- Size[r],
  log <- log[r][Main(r)],
  started <- index[r] # 0,
  pos <- IF index[r] = 0 THEN 0 ELSE index[r] - 1,
  answer <- IF got[r] = <<>> \/ pc[r] = "call" THEN None ELSE got[r][1]
ImplementsView == /\ \A r \in Readers : View(r)!Init
                  /\ [][\A r \in Readers : [View(r)!Next]_(View(r)!viewVars)]_vars

\* A fused message is accompanied, on every other channel, by one at least
\* as new as the last whose Dispatch had put it into the reader's ring before
\* the Dispatch of the fused one began (DataFusion fetches the first channel
\* before it looks at the others).
FusedInOrder ==
  \A r \in Readers : pc[r] = "call" =>
    \A k \in 2 .. Len(Inputs[r]) :
      LET l == log[r][Inputs[r][k]]
      IN  \E i \in DOMAIN l : l[i] = got[r][k] /\ i >= got[r][1].mark[k]

\* When all calls have returned, a task that waits unnotified has seen the
\* newest message of its first channel, or found another channel empty, or a
\* message was announced before its callback was registered.
NothingUnseen ==
  (\A w \in Writers : wpc[w] = "idle") =>
    \A r \in Readers :
      pc[r] = "wait" /\ ~updated[r] /\ ~unheard[r] =>
        \/ got[r] = <<>>
        \/ index[r] = Len(log[r][Main(r)]) + 1
        \/ log[r][Main(r)] = <<>>
==============================================================================
