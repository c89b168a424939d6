----------------------------- MODULE AsyncLogger -----------------------------
(***************************************************************************)
(* logger::AsyncLogger: the threads of a process write into one buffer     *)
(* while a flusher thread empties the other into a log file, and           *)
(* logger::LogFileObject, which opens, rolls over and flushes the file,    *)
(* and drops what the disk does not take.                                  *)
(*                                                                         *)
(* A critical section on mutex_ is a step; what is read without it, the    *)
(* pointer to the active buffer and then its size, is a step each.  A      *)
(* message counts one towards sizes and lengths.                           *)
(***************************************************************************)
EXTENDS Naturals, Sequences, FiniteSets

CONSTANTS Callers,    \* the threads that use the logger
          Plans,      \* the calls each makes, one after another
          Limit,      \* max_buffer_bytes_ / 2
          MaxLogSize, \* the length at which a file is rolled over
          kRolloverAttemptFrequency,
          MaxRounds   \* bound: no timeout after so many rounds of the flusher

Calls == {"Start", "Info", "Warning", "Flush", "Stop"}

ASSUME LoggerAssumption ==
  /\ IsFiniteSet(Callers)
  /\ Plans \subseteq [Callers -> Seq(Calls)]
  /\ Limit \in Nat
  /\ MaxLogSize \in Nat \ {0} /\ kRolloverAttemptFrequency \in Nat \ {0}
  /\ MaxRounds \in Nat

VARIABLES state,        \* INITTED, RUNNING or STOPPED
          buf,          \* the two buffers
          active,       \* which one is active_buf_
          flush_count,
          fpc, next,    \* the flusher, and its place in the messages
          todo, pc,     \* the calls still to make, the step of the present one
          look, orig,   \* locals: the buffer Write looks at, the count of Flush
          file,         \* the LogFileObject
          stop_writing,
          accepted,     \* history: the messages added, in order
          disk,         \* history: the messages passed to the file, in order
          flushed,      \* history: how many of them have been flushed
          due,          \* history: how many were accepted when a Flush began
          promised      \* history: the same, once it has returned
buffers == <<state, buf, active, flush_count>>
flusher == <<fpc, next>>
callers == <<todo, pc, look, orig>>
output == <<file, stop_writing, disk, flushed>>
history == <<accepted, due, promised>>
vars == <<buffers, flusher, callers, output, history>>

EmptyBuffer == [messages |-> <<>>, flush |-> FALSE]
Closed == [open |-> FALSE, length |-> 0, attempt |-> kRolloverAttemptFrequency - 1]

Init == /\ state = "INITTED"
        /\ buf = [b \in 0..1 |-> EmptyBuffer] /\ active = 0
        /\ flush_count = 0
        /\ fpc = "none" /\ next = 1
        /\ todo \in Plans
        /\ pc = [c \in Callers |-> "idle"]
        /\ look = [c \in Callers |-> 0] /\ orig = [c \in Callers |-> 0]
        /\ file = Closed /\ stop_writing = FALSE
        /\ accepted = <<>> /\ disk = <<>> /\ flushed = 0
        /\ due = [c \in Callers |-> 0] /\ promised = [c \in Callers |-> 0]

flushing == 1 - active
needs_flush_or_write(b) == b.flush \/ b.messages # <<>>

Calling(c, call) == todo[c] # <<>> /\ Head(todo[c]) = call
Goto(c, from, to) == pc[c] = from /\ pc' = [pc EXCEPT ![c] = to]
Return(c) == /\ pc' = [pc EXCEPT ![c] = "idle"]
             /\ todo' = [todo EXCEPT ![c] = Tail(@)]

\* wake_flusher_cv_.notify_one; only the flusher waits on it.
NotifyFlusher == fpc' = IF fpc = "waiting" THEN "woken" ELSE fpc

-----------------------------------------------------------------------------
(* Start and Stop *)

Start(c) == /\ Calling(c, "Start") /\ state = "INITTED"
            /\ state' = "RUNNING"
            /\ fpc' = "loop"
            /\ Return(c)
            /\ UNCHANGED <<buf, active, flush_count, next, look, orig, output, history>>

Stop(c) == /\ Calling(c, "Stop") /\ state = "RUNNING"
           /\ Goto(c, "idle", "join")
           /\ state' = "STOPPED"
           /\ NotifyFlusher
           /\ UNCHANGED <<buf, active, flush_count, next, todo, look, orig, output, history>>

Join(c) == /\ pc[c] = "join" /\ fpc = "exit"
           /\ Return(c)
           /\ UNCHANGED <<buffers, flusher, look, orig, output, history>>

-----------------------------------------------------------------------------
(* Write *)

ActiveMixedUp == flushing    \* mutant: the other buffer is looked at
Active == active

Writing(c) == Calling(c, "Info") \/ Calling(c, "Warning")

WriteLook(c) == /\ Writing(c) /\ Goto(c, "idle", "size")
                /\ look' = [look EXCEPT ![c] = Active]
                /\ UNCHANGED <<buffers, flusher, todo, orig, output, history>>

BufferFull(b) == Len(b.messages) > Limit

WriteSize(c) == /\ pc[c] = "size"
                /\ IF BufferFull(buf[look[c]])
                   THEN Return(c)
                   ELSE Goto(c, "size", "add") /\ UNCHANGED todo
                /\ look' = [look EXCEPT ![c] = 0]    \* a local, gone
                /\ UNCHANGED <<buffers, flusher, orig, output, history>>

MessageOf(c) == [by |-> c, n |-> Len(todo[c]), urgent |-> Calling(c, "Warning")]

\* mutant: the state is not tested again under the mutex
WriteAddUntested(c) ==
  /\ pc[c] = "add"
  /\ buf' = [buf EXCEPT ![active] = [messages |-> Append(@.messages, MessageOf(c)),
                                     flush |-> @.flush \/ Calling(c, "Warning")]]
  /\ accepted' = Append(accepted, MessageOf(c))
  /\ NotifyFlusher
  /\ Return(c)
  /\ UNCHANGED <<state, active, flush_count, next, look, orig, output, due, promised>>

WriteAdd(c) ==
  /\ pc[c] = "add"
  /\ \/ /\ state = "RUNNING"
        /\ buf' = [buf EXCEPT ![active] = [messages |-> Append(@.messages, MessageOf(c)),
                                           flush |-> @.flush \/ Calling(c, "Warning")]]
        /\ accepted' = Append(accepted, MessageOf(c))
        /\ NotifyFlusher
     \/ /\ state # "RUNNING"
        /\ UNCHANGED <<buf, accepted, fpc>>
  /\ Return(c)
  /\ UNCHANGED <<state, active, flush_count, next, look, orig, output, due, promised>>

-----------------------------------------------------------------------------
(* Flush *)

RoundsOne == 1    \* mutant: one buffer is enough
Rounds == 2

\* The body of the loop: ask for a flush and wait for the end of a round.
AskAndWait(c) == /\ buf' = [buf EXCEPT ![active].flush = TRUE]
                 /\ NotifyFlusher
                 /\ pc' = [pc EXCEPT ![c] = "flush_wait"]
                 /\ UNCHANGED <<state, active, flush_count, todo>>

FlushEnter(c) ==
  /\ Calling(c, "Flush") /\ pc[c] = "idle"
  /\ \/ /\ state = "RUNNING"
        /\ orig' = [orig EXCEPT ![c] = flush_count]
        /\ due' = [due EXCEPT ![c] = Len(accepted)]
        /\ AskAndWait(c)
     \/ /\ state # "RUNNING"
        /\ Return(c)
        /\ UNCHANGED <<buffers, fpc, orig, due>>
  /\ UNCHANGED <<next, look, output, accepted, promised>>

FlushAgain(c) ==
  /\ pc[c] = "flush_woken"
  /\ \/ /\ flush_count < orig[c] + Rounds /\ state = "RUNNING"
        /\ AskAndWait(c)
        /\ UNCHANGED <<orig, due, promised>>
     \/ /\ flush_count >= orig[c] + Rounds \/ state # "RUNNING"
        /\ Return(c)
        /\ orig' = [orig EXCEPT ![c] = 0]
        /\ due' = [due EXCEPT ![c] = 0]
        /\ promised' = [promised EXCEPT ![c] = IF state = "RUNNING" THEN due[c] ELSE @]
        /\ UNCHANGED <<buffers, fpc>>
  /\ UNCHANGED <<next, look, output, accepted>>

-----------------------------------------------------------------------------
(* LogFileObject: the file and what a Write does to it.  The environment   *)
(* chooses whether a file can be created, whether the disk is full, and    *)
(* whether next_flush_time_ has come.                                      *)

\* A file that has grown too long is closed, which flushes it.
RolledOver == IF file.length >= MaxLogSize THEN Closed ELSE file

Put(f, st, fl) == /\ file' = f /\ stop_writing' = st /\ flushed' = fl

WriteFile(m) ==
  LET f == RolledOver
      opened == [f EXCEPT !.open = TRUE, !.attempt = 0]
      kept == IF f = file THEN flushed ELSE Len(disk)
      to == IF f.open THEN f ELSE opened
  IN  /\ disk' = Append(disk, m)
      /\ \/ \* no file, and it is not the turn to create one, or that fails
            /\ ~f.open
            /\ \E failed \in BOOLEAN :
                 LET turn == f.attempt + 1 = kRolloverAttemptFrequency
                 IN  /\ ~turn \/ failed
                     /\ Put([f EXCEPT !.attempt = IF turn THEN 0 ELSE @ + 1], stop_writing, kept)
         \/ /\ f.open \/ f.attempt + 1 = kRolloverAttemptFrequency
            /\ \/ \* the disk was full: look again when the time has come
                  /\ stop_writing
                  /\ \E still \in BOOLEAN : Put(to, still, kept)
               \/ \* it is full now
                  ~stop_writing /\ Put(to, TRUE, kept)
               \/ /\ ~stop_writing
                  /\ \E flush \in BOOLEAN :
                       /\ m.urgent => flush
                       /\ Put([to EXCEPT !.length = @ + 1], FALSE,
                              IF flush THEN Len(disk) + 1 ELSE kept)

FlushUnlocked == flushed' = Len(disk)

-----------------------------------------------------------------------------
(* RunThread *)

Swap == /\ active' = flushing
        /\ fpc' = "writing" /\ next' = 1

\* Under the mutex: the tests of the two loops, the outer one only at the top.
Examine(top) ==
  LET idle == ~needs_flush_or_write(buf[active])
  IN  \/ /\ idle /\ top /\ state # "RUNNING"
         /\ fpc' = "exit"
         /\ UNCHANGED <<active, next>>
      \/ /\ idle /\ state = "RUNNING"
         /\ fpc' = "waiting"
         /\ UNCHANGED <<active, next>>
      \/ /\ idle => ~top /\ state # "RUNNING"
         /\ Swap

FlusherBegins == /\ fpc = "loop"
                 /\ Examine(TRUE)
                 /\ UNCHANGED <<state, buf, flush_count, callers, output, history>>

FlusherWakes == /\ fpc = "woken"
                /\ Examine(FALSE)
                /\ UNCHANGED <<state, buf, flush_count, callers, output, history>>

\* Two seconds have passed.
FlusherTimesOut == /\ fpc = "waiting" /\ flush_count < MaxRounds
                   /\ buf' = [buf EXCEPT ![active].flush = TRUE]
                   /\ Swap
                   /\ UNCHANGED <<state, flush_count, callers, output, history>>

WriteMessage == /\ fpc = "writing" /\ next <= Len(buf[flushing].messages)
                /\ WriteFile(buf[flushing].messages[next])
                /\ next' = next + 1
                /\ UNCHANGED <<buffers, fpc, callers, history>>

FlushFiles == /\ fpc = "writing" /\ next > Len(buf[flushing].messages)
              /\ IF buf[flushing].flush THEN FlushUnlocked ELSE UNCHANGED flushed
              /\ fpc' = "clear"
              /\ UNCHANGED <<buffers, next, callers, file, stop_writing, disk, history>>

Clear == /\ fpc = "clear"
         /\ buf' = [buf EXCEPT ![flushing] = EmptyBuffer]
         /\ fpc' = "done" /\ next' = 1
         /\ UNCHANGED <<state, active, flush_count, callers, output, history>>

WakeNobody == UNCHANGED pc    \* mutant: flush_complete_cv_ is not notified
WakeFlushers == pc' = [c \in Callers |-> IF pc[c] = "flush_wait" THEN "flush_woken" ELSE pc[c]]

RoundDone == /\ fpc = "done"
             /\ flush_count' = flush_count + 1
             /\ WakeFlushers
             /\ Examine(TRUE)
             /\ UNCHANGED <<state, buf, todo, look, orig, output, history>>

-----------------------------------------------------------------------------
FlusherStep == \/ FlusherBegins \/ FlusherWakes \/ FlusherTimesOut \/ WriteMessage
               \/ FlushFiles \/ Clear \/ RoundDone

CallerStep(c) == \/ Start(c) \/ Stop(c) \/ Join(c)
                 \/ WriteLook(c) \/ WriteSize(c) \/ WriteAdd(c)
                 \/ FlushEnter(c) \/ FlushAgain(c)

Next == FlusherStep \/ \E c \in Callers : CallerStep(c)

\* Threads run; the mutex is free again and again, and goes to every waiter.
Fairness == /\ WF_vars(FlusherStep)
            /\ \A c \in Callers : WF_vars(CallerStep(c))

Spec == Init /\ [][Next]_vars
FairSpec == Spec /\ Fairness

-----------------------------------------------------------------------------
(* Properties *)

Messages == [by : Callers, n : Nat, urgent : BOOLEAN]

\* Every variable has its type, a file is rolled over in time, and a buffer
\* holds at most one message per thread more than makes it full: the limit is
\* tested without the mutex, on a pointer that may be stale.
TypeOK ==
  /\ state \in {"INITTED", "RUNNING", "STOPPED"} /\ active \in 0..1 /\ flush_count \in Nat
  /\ \A b \in 0..1 : /\ buf[b].messages \in Seq(Messages) /\ buf[b].flush \in BOOLEAN
                     /\ Len(buf[b].messages) <= Limit + Cardinality(Callers)
  /\ fpc \in {"none", "loop", "waiting", "woken", "writing", "clear", "done", "exit"}
  /\ next \in 1 .. Len(buf[flushing].messages) + 1
  /\ todo \in [Callers -> Seq(Calls)]
  /\ pc \in [Callers -> {"idle", "join", "size", "add", "flush_wait", "flush_woken"}]
  /\ look \in [Callers -> 0..1] /\ orig \in [Callers -> Nat]
  /\ file \in [open : BOOLEAN, length : 0..MaxLogSize, attempt : 0..kRolloverAttemptFrequency - 1]
  /\ stop_writing \in BOOLEAN
  /\ accepted \in Seq(Messages) /\ disk \in Seq(Messages) /\ flushed \in 0..Len(disk)

\* No message that was added is lost or overtaken between the buffers: what
\* was added is what has been passed to the file, then what the flusher still
\* has to write, then the active buffer.  When Stop has joined the flusher,
\* both buffers are empty, as its CHECKs demand.
NothingLost ==
  /\ accepted = disk \o SubSeq(buf[flushing].messages, next, Len(buf[flushing].messages))
                     \o buf[active].messages
  /\ fpc = "exit" => buf[0].messages = <<>> /\ buf[1].messages = <<>>

\* When a Flush returns while the logger runs, every message added before it
\* began has been passed to the file and flushed ("This ensures both buffers
\* were completely flushed").
FlushCovers == \A c \in Callers : promised[c] <= flushed

\* Every call returns: Flush does not miss the notification it waits for,
\* also when the logger is stopped meanwhile, and Stop joins the flusher.
CallsReturn == \A c \in Callers : []<>(pc[c] = "idle")
==============================================================================
