-------------------------- MODULE AsyncLoggerProofs --------------------------
(***************************************************************************)
(* The logger for any callers, plans, limits and faults of the disk: the   *)
(* messages that were added are, in order, those passed to the file, those *)
(* the flusher has still to write, and those of the active buffer.         *)
(***************************************************************************)
EXTENDS AsyncLogger, SequenceTheorems, FiniteSetTheorems, TLAPS

Rest == SubSeq(buf[flushing].messages, next, Len(buf[flushing].messages))

Types ==
  /\ state \in {"INITTED", "RUNNING", "STOPPED"} /\ active \in 0..1
  /\ buf \in [0..1 -> [messages : Seq(Messages), flush : BOOLEAN]]
  /\ fpc \in {"none", "loop", "waiting", "woken", "writing", "clear", "done", "exit"}
  /\ next \in 1 .. Len(buf[flushing].messages) + 1
  /\ accepted \in Seq(Messages) /\ disk \in Seq(Messages)

\* A thread inside a call has that call at the head of its plan.
Busy ==
  /\ todo \in [Callers -> Seq(Calls)]
  /\ pc \in [Callers -> {"idle", "join", "size", "add", "flush_wait", "flush_woken"}]
  /\ \A c \in Callers : pc[c] # "idle" => todo[c] # <<>>

\* The flusher is through with its buffer before it looks at the other one, and
\* it does not leave while something is in the active one or may get there.
Phases ==
  /\ fpc \notin {"writing", "clear"} => buf[flushing].messages = <<>> /\ next = 1
  /\ fpc = "clear" => next = Len(buf[flushing].messages) + 1
  /\ fpc = "exit" => state # "RUNNING" /\ buf[active].messages = <<>>
  /\ state = "INITTED" => fpc = "none"

Order == accepted = (disk \o Rest) \o buf[active].messages

IInv == Types /\ Phases /\ Order

-----------------------------------------------------------------------------
(* What else the file, the limit and Flush need *)

Locals ==
  /\ flush_count \in Nat /\ flushed \in 0..Len(disk) /\ stop_writing \in BOOLEAN
  /\ look \in [Callers -> 0..1] /\ orig \in [Callers -> Nat]
  /\ due \in [Callers -> Nat] /\ promised \in [Callers -> Nat]
  /\ file \in [open : BOOLEAN, length : 0..MaxLogSize, attempt : 0..kRolloverAttemptFrequency - 1]

\* Who may still add a message whatever the active buffer holds: the others
\* have to find it short first.
Adders == {c \in Callers : pc[c] = "add" \/ (pc[c] = "size" /\ look[c] # active)}

Room ==
  /\ \A b \in 0..1 : Len(buf[b].messages) <= Limit + Cardinality(Callers)
  /\ Len(buf[active].messages) + Cardinality(Adders) <= Limit + Cardinality(Callers)

\* What Flush waits for is flushed, or is on its way into the file in a round
\* that will flush it, or waits in the active buffer with the request.
OnItsWay(c) == fpc = "writing" /\ buf[flushing].flush /\ due[c] <= Len(disk) + Len(Rest)

Served ==
  \A c \in Callers :
    /\ due[c] <= Len(accepted) /\ promised[c] <= flushed
    /\ pc[c] \in {"flush_wait", "flush_woken"} =>
         \/ due[c] <= flushed
         \/ OnItsWay(c) /\ flush_count <= orig[c] + 1
         \/ buf[active].flush /\ flush_count = orig[c]

-----------------------------------------------------------------------------
(* Sequences in three parts *)

\* What is appended to the whole is appended to the last part.
LEMMA AppendLast ==
  ASSUME NEW a \in Seq(Messages), NEW b \in Seq(Messages), NEW e \in Messages
  PROVE  Append(a \o b, e) = a \o Append(b, e)
OBVIOUS

\* The first element of the middle part moves to the end of the first part.
LEMMA MoveOne ==
  ASSUME NEW S, NEW a \in Seq(S), NEW b \in Seq(S), NEW i \in 1 .. Len(b)
  PROVE  a \o SubSeq(b, i, Len(b)) = Append(a, b[i]) \o SubSeq(b, i + 1, Len(b))
<1> DEFINE r == SubSeq(b, i + 1, Len(b))
<1>1. Len(b) \in Nat /\ b[i] \in S
  BY LenProperties, ElementOfSeq
<1>2. SubSeq(b, i, Len(b)) = <<b[i]>> \o r
  BY <1>1, SubSeqRecursiveFirst
<1>3. r \in Seq(S)
  <2>1. \A k \in i + 1 .. Len(b) : b[k] \in S
    BY <1>1, ElementOfSeq
  <2> QED BY <1>1, <2>1, SubSeqProperties
<1>4. <<b[i]>> \in Seq(S)
  BY <1>1
<1>5. a \o (<<b[i]>> \o r) = (a \o <<b[i]>>) \o r
  <2> HIDE DEF r
  <2> QED BY <1>3, <1>4, ConcatAssociative
<1>6. Append(a, b[i]) = a \o <<b[i]>>
  BY <1>1, AppendIsConcat
<1> QED BY <1>2, <1>5, <1>6

\* The rest of a sequence: all of it, or nothing.
LEMMA Ends ==
  ASSUME NEW S, NEW a \in Seq(S), NEW b \in Seq(S)
  PROVE  /\ SubSeq(b, 1, Len(b)) = b
         /\ SubSeq(b, Len(b) + 1, Len(b)) = <<>>
         /\ a \o <<>> = a
BY SubSeqFull, SubSeqEmpty, ConcatEmptySeq, LenProperties

-----------------------------------------------------------------------------
(* Steps *)

LEMMA MessageTyped ==
  ASSUME Busy, NEW c \in Callers
  PROVE  MessageOf(c) \in Messages
<1>1. Len(todo[c]) \in Nat
  BY DEF Busy
<1> QED BY <1>1 DEF MessageOf, Messages, Calling

LEMMA FlushingTyped ==
  ASSUME Types
  PROVE  /\ flushing \in 0..1 /\ flushing # active
         /\ buf[flushing].messages \in Seq(Messages) /\ buf[active].messages \in Seq(Messages)
         /\ Len(buf[flushing].messages) \in Nat
BY DEF Types, flushing

LEMMA RestTyped ==
  ASSUME Types
  PROVE  Rest \in Seq(Messages)
<1>1. \A k \in next .. Len(buf[flushing].messages) : buf[flushing].messages[k] \in Messages
  BY FlushingTyped, ElementOfSeq DEF Types
<1> QED BY <1>1, FlushingTyped, SubSeqProperties DEF Rest, Types

LEMMA BusyKeeps == Busy /\ [Next]_vars => Busy'
<1> SUFFICES ASSUME Busy, [Next]_vars PROVE Busy'
  OBVIOUS
<1> USE DEF buffers, flusher, callers, output, history
<1>1. CASE FlusherStep \/ UNCHANGED vars
  <2>1. UNCHANGED todo /\ (UNCHANGED pc \/ WakeFlushers)
    BY <1>1 DEF FlusherStep, FlusherBegins, FlusherWakes, FlusherTimesOut, WriteMessage,
                FlushFiles, Clear, RoundDone, vars
  <2> QED BY <2>1 DEF Busy, WakeFlushers
<1>2. ASSUME NEW c \in Callers, CallerStep(c) PROVE Busy'
  <2>1. CASE todo[c] # <<>> /\ Return(c)
    <3>1. Tail(todo[c]) \in Seq(Calls)
      BY <2>1, HeadTailProperties DEF Busy
    <3> QED BY <2>1, <3>1 DEF Busy, Return
  <2>2. CASE /\ todo[c] # <<>> /\ UNCHANGED todo
             /\ \E to \in {"join", "size", "add", "flush_wait"} : pc' = [pc EXCEPT ![c] = to]
    BY <2>2 DEF Busy
  <2>3. todo[c] # <<>>
    BY <1>2 DEF CallerStep, Start, Stop, Join, WriteLook, WriteSize, WriteAdd, FlushEnter,
                FlushAgain, Writing, Calling, Busy
  <2>4. CASE Start(c) \/ Join(c) \/ WriteAdd(c)
    BY <2>1, <2>3, <2>4 DEF Start, Join, WriteAdd
  <2>5. CASE Stop(c) \/ WriteLook(c) \/ WriteSize(c)
    BY <2>1, <2>2, <2>3, <2>5 DEF Stop, WriteLook, WriteSize, Goto
  <2>6. CASE FlushEnter(c) \/ FlushAgain(c)
    BY <2>1, <2>2, <2>3, <2>6 DEF FlushEnter, FlushAgain, AskAndWait
  <2> QED BY <1>2, <2>4, <2>5, <2>6 DEF CallerStep
<1> QED BY <1>1, <1>2 DEF Next

LEMMA InitIInv == Init => IInv
<1> SUFFICES ASSUME Init PROVE IInv
  OBVIOUS
<1>1. <<>> \in Seq(Messages)
  OBVIOUS
<1>2. Types
  BY LoggerAssumption, <1>1 DEF Init, Types, EmptyBuffer, flushing
<1>3. Phases
  BY DEF Init, Phases, EmptyBuffer, flushing
<1>4. Order
  <2>1. Rest = <<>> /\ buf[active].messages = <<>> /\ disk = <<>> /\ accepted = <<>>
    BY SubSeqEmpty DEF Init, EmptyBuffer, Rest, flushing
  <2> QED BY <2>1, <1>1, ConcatEmptySeq DEF Order
<1> QED BY <1>2, <1>3, <1>4 DEF IInv

\* A step that changes neither the messages nor who has them.
Quiet == /\ UNCHANGED <<active, next, accepted, disk>>
         /\ buf' \in [0..1 -> [messages : Seq(Messages), flush : BOOLEAN]]
         /\ \A b \in 0..1 : buf'[b].messages = buf[b].messages

LEMMA QuietOrder ==
  ASSUME Types, Order, Quiet
  PROVE  Order' /\ next' \in 1 .. Len(buf'[flushing'].messages) + 1
<1>1. flushing' = flushing /\ buf'[flushing].messages = buf[flushing].messages
      /\ buf'[active].messages = buf[active].messages
  BY FlushingTyped DEF Quiet, flushing, Types
<1> QED BY <1>1 DEF Quiet, Order, Rest, Types

\* The flusher has found the other buffer empty and takes the active one.
LEMMA SwapKeeps ==
  ASSUME IInv, Swap, fpc \notin {"writing", "clear"}, state # "INITTED",
         UNCHANGED <<state, accepted, disk>>,
         buf' \in [0..1 -> [messages : Seq(Messages), flush : BOOLEAN]],
         \A b \in 0..1 : buf'[b].messages = buf[b].messages
  PROVE  IInv'
<1>1. flushing' = active /\ active' = flushing /\ active' \in 0..1
  BY FlushingTyped DEF IInv, Types, Swap, flushing
<1>2. buf[flushing].messages = <<>> /\ next = 1
  BY DEF IInv, Phases
<1>3. /\ buf'[flushing'].messages = buf[active].messages
      /\ buf'[active'].messages = <<>>
  BY <1>1, <1>2, FlushingTyped DEF IInv, Types
<1>4. buf[active].messages \in Seq(Messages) /\ disk \in Seq(Messages)
  BY FlushingTyped DEF IInv, Types
<1>5. Types'
  <2>1. next' = 1 /\ fpc' = "writing"
    BY DEF Swap
  <2>2. Len(buf[active].messages) \in Nat
    BY <1>4
  <2> QED BY <1>1, <1>3, <2>1, <2>2 DEF IInv, Types
<1>6. Phases'
  BY DEF Swap, Phases
<1>7. Order'
  <2>1. Rest = <<>>
    BY <1>2, SubSeqEmpty DEF Rest
  <2>2. accepted = disk \o buf[active].messages
    BY <2>1, <1>4, Ends DEF IInv, Order
  <2>3. Rest' = buf[active].messages
    BY <1>3, <1>4, Ends DEF Rest, Swap
  <2>4. disk \o buf[active].messages \in Seq(Messages)
    BY <1>4, ConcatProperties
  <2>5. (disk \o buf[active].messages) \o <<>> = disk \o buf[active].messages
    BY <2>4, Ends
  <2> QED BY <1>3, <2>2, <2>3, <2>5 DEF Order
<1> QED BY <1>5, <1>6, <1>7 DEF IInv

\* The tests of the loops of RunThread, from a place where its buffer is empty.
LEMMA ExamineKeeps ==
  ASSUME IInv, NEW top \in BOOLEAN, Examine(top), fpc \notin {"none", "writing", "clear"},
         UNCHANGED <<state, buf, accepted, disk>>
  PROVE  IInv'
<1>1. state # "INITTED"
  BY DEF IInv, Phases
<1>2. CASE Swap
  BY <1>1, <1>2, SwapKeeps DEF IInv, Types
<1>3. CASE /\ fpc' \in {"exit", "waiting"} /\ UNCHANGED <<active, next>>
           /\ fpc' = "exit" => state # "RUNNING" /\ ~needs_flush_or_write(buf[active])
  <2>1. flushing' = flushing
    BY <1>3 DEF flushing
  <2>2. Types'
    BY <1>3, <2>1 DEF IInv, Types
  <2>3. Phases'
    BY <1>1, <1>3, <2>1 DEF IInv, Phases, needs_flush_or_write
  <2>4. Order'
    BY <1>3, <2>1 DEF IInv, Order, Rest
  <2> QED BY <2>2, <2>3, <2>4 DEF IInv
<1> QED BY <1>2, <1>3 DEF Examine

LEMMA FlusherKeeps == IInv /\ FlusherStep => IInv'
<1> SUFFICES ASSUME IInv, FlusherStep PROVE IInv'
  OBVIOUS
<1> USE DEF buffers, flusher, callers, output, history
<1>1. CASE FlusherBegins
  BY <1>1, ExamineKeeps DEF FlusherBegins
<1>2. CASE FlusherWakes
  BY <1>2, ExamineKeeps DEF FlusherWakes
<1>3. CASE FlusherTimesOut
  <2>1. state # "INITTED"
    BY <1>3 DEF IInv, Phases, FlusherTimesOut
  <2>2. /\ buf' \in [0..1 -> [messages : Seq(Messages), flush : BOOLEAN]]
        /\ \A b \in 0..1 : buf'[b].messages = buf[b].messages
    BY <1>3 DEF FlusherTimesOut, IInv, Types
  <2> QED BY <1>3, <2>1, <2>2, SwapKeeps DEF FlusherTimesOut
<1>4. CASE WriteMessage
  <2> DEFINE ms == buf[flushing].messages
  <2>1. /\ fpc = "writing" /\ next <= Len(ms) /\ next' = next + 1
        /\ disk' = Append(disk, ms[next])
        /\ UNCHANGED <<state, buf, active, fpc, accepted>>
    BY <1>4 DEF WriteMessage, WriteFile
  <2>2. ms \in Seq(Messages) /\ Len(ms) \in Nat /\ next \in 1 .. Len(ms)
    BY <2>1, FlushingTyped DEF IInv, Types
  <2>3. ms[next] \in Messages
    BY <2>2, ElementOfSeq
  <2>4. flushing' = flushing /\ ms' = ms
    BY <2>1 DEF flushing
  <2>5. Types'
    BY <2>1, <2>2, <2>3, <2>4, AppendProperties DEF IInv, Types
  <2>6. Phases'
    BY <2>1, <2>4 DEF IInv, Phases
  <2>7. Order'
    <3>1. disk \o SubSeq(ms, next, Len(ms))
            = Append(disk, ms[next]) \o SubSeq(ms, next + 1, Len(ms))
      <4>1. disk \in Seq(Messages)
        BY DEF IInv, Types
      <4> HIDE DEF ms
      <4> QED BY <2>2, <4>1, MoveOne
    <3>2. Rest' = SubSeq(ms, next + 1, Len(ms))
      BY <2>1, <2>4 DEF Rest
    <3> QED BY <2>1, <3>1, <3>2 DEF IInv, Order, Rest
  <2> QED BY <2>5, <2>6, <2>7 DEF IInv
<1>5. CASE FlushFiles
  <2>1. /\ fpc = "writing" /\ next > Len(buf[flushing].messages) /\ fpc' = "clear"
        /\ UNCHANGED <<state, buf, active, next, accepted, disk>>
    BY <1>5 DEF FlushFiles
  <2>2. flushing' = flushing
    BY <2>1 DEF flushing
  <2>3. next = Len(buf[flushing].messages) + 1
    BY <2>1, FlushingTyped DEF IInv, Types
  <2>4. Types' /\ Phases' /\ Order'
    BY <2>1, <2>2, <2>3 DEF IInv, Types, Phases, Order, Rest
  <2> QED BY <2>4 DEF IInv
<1>6. CASE Clear
  <2>1. /\ fpc = "clear" /\ fpc' = "done" /\ next' = 1
        /\ buf' = [buf EXCEPT ![flushing] = EmptyBuffer]
        /\ UNCHANGED <<state, active, accepted, disk>>
    BY <1>6 DEF Clear
  <2>2. flushing' = flushing
    BY <2>1 DEF flushing
  <2>3. EmptyBuffer \in [messages : Seq(Messages), flush : BOOLEAN]
    BY DEF EmptyBuffer
  <2>4. /\ buf'[flushing].messages = <<>>
        /\ buf'[active].messages = buf[active].messages
    BY <2>1, FlushingTyped DEF EmptyBuffer, IInv, Types
  <2>5. Types'
    BY <2>1, <2>2, <2>3, <2>4, FlushingTyped DEF IInv, Types
  <2>6. Phases'
    BY <2>1, <2>2, <2>4 DEF IInv, Phases
  <2>7. Order'
    <3>1. Rest = <<>>
      BY <2>1, FlushingTyped, Ends DEF IInv, Phases, Rest
    <3>2. Rest' = <<>>
      BY <2>1, <2>2, <2>4, SubSeqEmpty DEF Rest
    <3> QED BY <2>1, <2>4, <3>1, <3>2 DEF IInv, Order
  <2> QED BY <2>5, <2>6, <2>7 DEF IInv
<1>7. CASE RoundDone
  BY <1>7, ExamineKeeps DEF RoundDone
<1> QED BY <1>1, <1>2, <1>3, <1>4, <1>5, <1>6, <1>7 DEF FlusherStep

\* A call asks for a flush or wakes the flusher: no message moves.
LEMMA CallerQuiet ==
  ASSUME IInv, Quiet, UNCHANGED state, fpc' = fpc \/ (fpc = "waiting" /\ fpc' = "woken")
  PROVE  IInv'
<1>1. /\ flushing' = flushing /\ buf'[flushing].messages = buf[flushing].messages
      /\ buf'[active].messages = buf[active].messages
  BY FlushingTyped DEF Quiet, flushing, IInv, Types
<1>2. Order' /\ next' \in 1 .. Len(buf'[flushing'].messages) + 1
  BY QuietOrder DEF IInv
<1>3. Types'
  BY <1>2 DEF IInv, Types, Quiet
<1>4. Phases'
  BY <1>1 DEF IInv, Phases, Quiet
<1> QED BY <1>2, <1>3, <1>4 DEF IInv

\* Only WriteAdd moves a message: to the end of the active buffer.
LEMMA AddKeeps ==
  ASSUME IInv, Busy, NEW c \in Callers, WriteAdd(c), state = "RUNNING"
  PROVE  IInv'
<1> DEFINE m == MessageOf(c)
           ms == buf[active].messages
<1> USE DEF buffers, flusher, callers, output, history
<1>1. /\ accepted' = Append(accepted, m)
      /\ buf' = [buf EXCEPT ![active] = [messages |-> Append(ms, m),
                                         flush |-> buf[active].flush \/ Calling(c, "Warning")]]
      /\ UNCHANGED <<state, active, next, disk>>
      /\ fpc' = fpc \/ (fpc = "waiting" /\ fpc' = "woken")
  BY DEF WriteAdd, NotifyFlusher
<1>2. m \in Messages /\ ms \in Seq(Messages) /\ accepted \in Seq(Messages)
  BY MessageTyped, FlushingTyped DEF IInv, Types
<1>3. /\ flushing' = flushing
      /\ buf'[flushing].messages = buf[flushing].messages
      /\ buf'[active].messages = Append(ms, m)
      /\ buf' \in [0..1 -> [messages : Seq(Messages), flush : BOOLEAN]]
  <2>1. Append(ms, m) \in Seq(Messages)
    BY <1>2, AppendProperties
  <2>2. (buf[active].flush \/ Calling(c, "Warning")) \in BOOLEAN
    OBVIOUS
  <2> HIDE DEF m, ms
  <2> QED BY <1>1, <2>1, <2>2, FlushingTyped DEF IInv, Types, flushing
<1>4. Types'
  <2>1. accepted' \in Seq(Messages)
    BY <1>1, <1>2, AppendProperties
  <2> HIDE DEF m, ms
  <2> QED BY <1>1, <1>3, <2>1 DEF IInv, Types
<1>5. Phases'
  BY <1>1, <1>3 DEF IInv, Phases
<1>6. Order'
  <2>1. disk \o Rest \in Seq(Messages)
    BY RestTyped, ConcatProperties DEF IInv, Types
  <2>2. Append((disk \o Rest) \o ms, m) = (disk \o Rest) \o Append(ms, m)
    <3> HIDE DEF m, ms
    <3> QED BY <1>2, <2>1, AppendLast
  <2>3. Rest' = Rest /\ disk' = disk
    BY <1>1, <1>3 DEF Rest
  <2> HIDE DEF m
  <2> QED BY <1>1, <1>3, <2>2, <2>3 DEF IInv, Order
<1> QED BY <1>4, <1>5, <1>6 DEF IInv

LEMMA CallerKeeps == IInv /\ Busy /\ (\E c \in Callers : CallerStep(c)) => IInv'
<1> SUFFICES ASSUME IInv, Busy, NEW c \in Callers, CallerStep(c) PROVE IInv'
  OBVIOUS
<1> USE DEF buffers, flusher, callers, output, history
<1>1. CASE Start(c)
  <2>1. /\ state = "INITTED" /\ state' = "RUNNING" /\ fpc' = "loop"
        /\ UNCHANGED <<buf, active, next, accepted, disk>>
    BY <1>1 DEF Start
  <2>2. fpc = "none"
    BY <2>1 DEF IInv, Phases
  <2>3. flushing' = flushing
    BY <2>1 DEF flushing
  <2>4. Types' /\ Phases' /\ Order'
    BY <2>1, <2>2, <2>3 DEF IInv, Types, Phases, Order, Rest
  <2> QED BY <2>4 DEF IInv
<1>2. CASE Stop(c)
  <2>1. /\ state = "RUNNING" /\ state' = "STOPPED"
        /\ fpc' = fpc \/ (fpc = "waiting" /\ fpc' = "woken")
        /\ UNCHANGED <<buf, active, next, accepted, disk>>
    BY <1>2 DEF Stop, NotifyFlusher
  <2>2. flushing' = flushing
    BY <2>1 DEF flushing
  <2>3. Types' /\ Phases' /\ Order'
    BY <2>1, <2>2 DEF IInv, Types, Phases, Order, Rest
  <2> QED BY <2>3 DEF IInv
<1>3. CASE WriteAdd(c) /\ state = "RUNNING"
  BY <1>3, AddKeeps
<1>4. CASE \/ Join(c) \/ WriteLook(c) \/ WriteSize(c)
           \/ (WriteAdd(c) /\ state # "RUNNING")
  <2>1. UNCHANGED <<state, buf, active, fpc, next, accepted, disk>>
    BY <1>4 DEF Join, WriteLook, WriteSize, WriteAdd
  <2>2. Quiet
    BY <2>1 DEF Quiet, IInv, Types
  <2> QED BY <2>1, <2>2, CallerQuiet
<1>5. CASE FlushEnter(c) \/ FlushAgain(c)
  <2>1. /\ UNCHANGED <<state, active, next, accepted, disk>>
        /\ buf' = buf \/ buf' = [buf EXCEPT ![active].flush = TRUE]
        /\ fpc' = fpc \/ (fpc = "waiting" /\ fpc' = "woken")
    BY <1>5 DEF FlushEnter, FlushAgain, AskAndWait, NotifyFlusher
  <2>2. Quiet
    <3>1. active \in 0..1 /\ buf \in [0..1 -> [messages : Seq(Messages), flush : BOOLEAN]]
      BY DEF IInv, Types
    <3>2. CASE buf' = buf
      BY <2>1, <3>1, <3>2 DEF Quiet
    <3>3. CASE buf' = [buf EXCEPT ![active].flush = TRUE]
      BY <2>1, <3>1, <3>3 DEF Quiet
    <3> QED BY <2>1, <3>2, <3>3
  <2> QED BY <2>1, <2>2, CallerQuiet
<1> QED BY <1>1, <1>2, <1>3, <1>4, <1>5 DEF CallerStep

-----------------------------------------------------------------------------
(* The file, the room in a buffer, and Flush *)

\* LogFileObject::Write counts within its ranges and never takes a flush back.
LEMMA WriteFileKeeps ==
  ASSUME IInv, Locals, NEW m \in Messages, WriteFile(m)
  PROVE  /\ file' \in [open : BOOLEAN, length : 0..MaxLogSize, attempt : 0..kRolloverAttemptFrequency - 1]
         /\ stop_writing' \in BOOLEAN
         /\ Len(disk') = Len(disk) + 1 /\ flushed' \in flushed..Len(disk')
<1> DEFINE Files == [open : BOOLEAN, length : 0..MaxLogSize, attempt : 0..kRolloverAttemptFrequency - 1]
           f == RolledOver
           opened == [f EXCEPT !.open = TRUE, !.attempt = 0]
           kept == IF f = file THEN flushed ELSE Len(disk)
           to == IF f.open THEN f ELSE opened
<1>1. /\ file \in Files /\ disk \in Seq(Messages) /\ flushed \in 0..Len(disk) /\ Len(disk) \in Nat
      /\ MaxLogSize \in Nat \ {0} /\ kRolloverAttemptFrequency \in Nat \ {0}
  BY LoggerAssumption DEF IInv, Types, Locals
<1>2. f \in Files /\ f.length < MaxLogSize
  BY <1>1 DEF RolledOver, Closed
<1>3. to \in Files /\ to.length < MaxLogSize
  <2> HIDE DEF f
  <2>1. 0 \in 0..kRolloverAttemptFrequency - 1
    BY <1>1
  <2>2. opened \in Files
    BY <1>2, <2>1
  <2>3. opened.length = f.length
    BY <1>2
  <2> HIDE DEF opened
  <2> QED BY <1>2, <2>2, <2>3
<1>4. kept \in flushed..Len(disk)
  BY <1>1
<1>5. disk' = Append(disk, m) /\ Len(disk') = Len(disk) + 1
  BY <1>1 DEF WriteFile
<1> HIDE DEF Files, f, opened, kept, to
<1>6. \/ \E i \in {0, f.attempt + 1} : /\ i # kRolloverAttemptFrequency
                                     /\ file' = [f EXCEPT !.attempt = i]
                                     /\ stop_writing' = stop_writing /\ flushed' = kept
      \/ \E st \in BOOLEAN : file' = to /\ stop_writing' = st /\ flushed' = kept
      \/ /\ file' = [to EXCEPT !.length = @ + 1] /\ stop_writing' = FALSE
         /\ flushed' \in {kept, Len(disk) + 1}
  BY <1>1 DEF WriteFile, Put, f, opened, kept, to
<1>7. ASSUME NEW i \in {0, f.attempt + 1}, i # kRolloverAttemptFrequency
      PROVE  [f EXCEPT !.attempt = i] \in Files
  BY <1>1, <1>2, <1>7 DEF Files
<1>8. [to EXCEPT !.length = @ + 1] \in Files
  BY <1>1, <1>3 DEF Files
<1>9. file' \in Files
  BY <1>3, <1>6, <1>7, <1>8
<1>10. flushed' \in flushed..Len(disk')
  BY <1>1, <1>4, <1>5, <1>6
<1>11. stop_writing' \in BOOLEAN
  BY <1>6 DEF Locals
<1> QED BY <1>5, <1>9, <1>10, <1>11 DEF Files

\* The flushed part only grows, and so do the logs behind it.
LEMMA OutputGrows ==
  ASSUME IInv, Busy, Locals, [Next]_vars
  PROVE  /\ file' \in [open : BOOLEAN, length : 0..MaxLogSize, attempt : 0..kRolloverAttemptFrequency - 1]
         /\ stop_writing' \in BOOLEAN
         /\ flushed' \in 0..Len(disk') /\ flushed' >= flushed
<1> USE DEF buffers, flusher, callers, output, history
<1>1. /\ disk \in Seq(Messages) /\ flushed \in 0..Len(disk) /\ Len(disk) \in Nat
  BY DEF IInv, Types, Locals
<1>2. CASE UNCHANGED output
  BY <1>1, <1>2 DEF Locals
<1>3. CASE WriteMessage
  <2>1. buf[flushing].messages[next] \in Messages
    BY <1>3, FlushingTyped, ElementOfSeq DEF WriteMessage, IInv, Types
  <2>2. WriteFile(buf[flushing].messages[next])
    BY <1>3 DEF WriteMessage
  <2> QED BY <1>1, <2>1, <2>2, WriteFileKeeps
<1>4. CASE FlushFiles
  BY <1>1, <1>4 DEF FlushFiles, FlushUnlocked, Locals
<1>5. UNCHANGED output \/ WriteMessage \/ FlushFiles
  BY DEF Next, vars, FlusherStep, FlusherBegins, FlusherWakes, FlusherTimesOut, Clear, RoundDone,
         CallerStep, Start, Stop, Join, WriteLook, WriteSize, WriteAdd, FlushEnter, FlushAgain
<1> QED BY <1>2, <1>3, <1>4, <1>5

LEMMA LocalsKeep ==
  ASSUME IInv, Busy, Locals, [Next]_vars
  PROVE  Locals'
<1> USE DEF buffers, flusher, callers, output, history
<1>1. /\ flush_count \in Nat /\ active \in 0..1 /\ Len(accepted) \in Nat
      /\ look \in [Callers -> 0..1] /\ orig \in [Callers -> Nat]
      /\ due \in [Callers -> Nat] /\ promised \in [Callers -> Nat]
  BY DEF IInv, Types, Locals
<1>2. flush_count' \in Nat
  <2>1. UNCHANGED flush_count \/ RoundDone
    BY DEF Next, vars, FlusherStep, FlusherBegins, FlusherWakes, FlusherTimesOut, WriteMessage,
           FlushFiles, Clear, CallerStep, Start, Stop, Join, WriteLook, WriteSize, WriteAdd,
           FlushEnter, FlushAgain, AskAndWait
  <2>2. RoundDone => flush_count' = flush_count + 1
    BY DEF RoundDone
  <2> QED BY <1>1, <2>1, <2>2
<1>3. \/ UNCHANGED <<look, orig, due, promised>>
      \/ \E c \in Callers : \/ WriteLook(c) \/ WriteSize(c) \/ FlushEnter(c) \/ FlushAgain(c)
  BY DEF Next, vars, FlusherStep, FlusherBegins, FlusherWakes, FlusherTimesOut, WriteMessage,
         FlushFiles, Clear, RoundDone, CallerStep, Start, Stop, Join, WriteAdd
<1>4. ASSUME NEW c \in Callers, WriteLook(c) \/ WriteSize(c)
      PROVE  look' \in [Callers -> 0..1] /\ UNCHANGED <<orig, due, promised>>
  <2>1. /\ look' = [look EXCEPT ![c] = active] \/ look' = [look EXCEPT ![c] = 0]
        /\ UNCHANGED <<orig, due, promised>>
    BY <1>4 DEF WriteLook, WriteSize, Active
  <2>2. look \in [Callers -> 0..1] /\ active \in 0..1
    BY <1>1
  <2> QED BY <2>1, <2>2
<1>5. ASSUME NEW c \in Callers, FlushEnter(c) \/ FlushAgain(c)
      PROVE  /\ UNCHANGED look /\ orig' \in [Callers -> Nat] /\ due' \in [Callers -> Nat]
             /\ promised' \in [Callers -> Nat]
  BY <1>1, <1>5 DEF FlushEnter, FlushAgain
<1>6. /\ look' \in [Callers -> 0..1] /\ orig' \in [Callers -> Nat]
      /\ due' \in [Callers -> Nat] /\ promised' \in [Callers -> Nat]
  BY <1>1, <1>3, <1>4, <1>5
<1> QED BY <1>2, <1>6, OutputGrows DEF Locals

\* No step but WriteAdd makes the active buffer longer, and a thread gets into
\* Adders late only past a test that found the active buffer short.
LEMMA RoomKeeps ==
  ASSUME IInv, Busy, Locals, Room, [Next]_vars
  PROVE  Room'
<1> DEFINE N == Cardinality(Callers)
           fits == Len(buf[active].messages) + Cardinality(Adders) <= Limit + N
<1> USE DEF buffers, flusher, callers, output, history
<1>1. /\ IsFiniteSet(Callers) /\ N \in Nat /\ Limit \in Nat
      /\ active \in 0..1 /\ buf \in [0..1 -> [messages : Seq(Messages), flush : BOOLEAN]]
      /\ pc \in [Callers -> {"idle", "join", "size", "add", "flush_wait", "flush_woken"}]
      /\ look \in [Callers -> 0..1]
  BY LoggerAssumption, FS_CardinalityType DEF IInv, Types, Busy, Locals
<1>2. \A b \in 0..1 : Len(buf[b].messages) \in Nat
  BY <1>1
<1>3. ASSUME NEW A, A \subseteq Callers PROVE IsFiniteSet(A) /\ Cardinality(A) \in Nat /\ Cardinality(A) <= N
  BY <1>1, <1>3, FS_Subset, FS_CardinalityType
<1>4. /\ Adders \subseteq Callers /\ Adders' \subseteq Callers
      /\ \A b \in 0..1 : Len(buf[b].messages) <= Limit + N
      /\ fits
  BY DEF Adders, Room
<1>5. CASE active' = active /\ (\A b \in 0..1 : buf'[b].messages = buf[b].messages) /\ Adders' \subseteq Adders
  <2>1. Cardinality(Adders') <= Cardinality(Adders)
    BY <1>3, <1>4, <1>5, FS_Subset
  <2>2. Cardinality(Adders) \in Nat /\ Cardinality(Adders') \in Nat
    BY <1>3, <1>4
  <2>3. (Len(buf[active].messages) + Cardinality(Adders) <= Limit + N)'
    BY <1>1, <1>2, <1>4, <1>5, <2>1, <2>2
  <2> QED BY <1>4, <1>5, <2>3 DEF Room
<1>6. CASE Swap /\ (\A b \in 0..1 : buf'[b].messages = buf[b].messages) /\ buf[flushing].messages = <<>>
  <2>1. active' \in 0..1 /\ buf'[active'].messages = <<>>
    BY <1>1, <1>6 DEF Swap, flushing
  <2>2. Cardinality(Adders') \in Nat /\ Cardinality(Adders') <= N
    BY <1>3, <1>4
  <2>3. (Len(buf[active].messages) + Cardinality(Adders) <= Limit + N)'
    BY <1>1, <2>1, <2>2
  <2> QED BY <1>4, <1>6, <2>3 DEF Room
<1>7. CASE Clear
  <2>1. /\ active' = active /\ Adders' = Adders
        /\ buf' = [buf EXCEPT ![flushing] = EmptyBuffer]
    BY <1>7 DEF Clear, Adders
  <2>2. buf'[active] = buf[active] /\ buf'[flushing].messages = <<>>
    BY <1>1, <2>1 DEF EmptyBuffer, flushing
  <2>3. \A b \in 0..1 : b = active \/ b = flushing
    BY <1>1 DEF flushing
  <2>4. \A b \in 0..1 : Len(buf'[b].messages) <= Limit + N
    BY <1>1, <1>4, <2>2, <2>3
  <2>5. (Len(buf[active].messages) + Cardinality(Adders) <= Limit + N)'
    BY <1>4, <2>1, <2>2
  <2> QED BY <2>4, <2>5 DEF Room
<1>8. ASSUME NEW c \in Callers, WriteAdd(c) PROVE Room'
  <2>1. active' = active /\ Adders' = Adders \ {c} /\ c \in Adders
    BY <1>1, <1>8 DEF WriteAdd, Return, Adders
  <2>2. Cardinality(Adders') = Cardinality(Adders) - 1 /\ Cardinality(Adders) \in Nat \ {0}
    <3>1. IsFiniteSet(Adders) /\ Cardinality(Adders) \in Nat
      BY <1>3, <1>4
    <3>2. Cardinality(Adders \ {c}) = Cardinality(Adders) - 1 /\ Cardinality(Adders) # 0
      BY <2>1, <3>1, FS_RemoveElement, FS_EmptySet
    <3> QED BY <2>1, <3>1, <3>2
  <2>3. CASE UNCHANGED buf
    <3>1. Adders' \subseteq Adders
      BY <2>1
    <3> QED BY <1>5, <2>1, <2>3, <3>1
  <2>4. CASE buf' = [buf EXCEPT ![active] = [messages |-> Append(buf[active].messages, MessageOf(c)),
                                             flush |-> buf[active].flush \/ Calling(c, "Warning")]]
    <3>1. /\ Len(buf'[active].messages) = Len(buf[active].messages) + 1
          /\ \A b \in 0..1 : b # active => buf'[b] = buf[b]
      BY <1>1, <2>4
    <3>2. Len(buf[active].messages) + 1 <= Limit + N
      BY <1>1, <1>2, <1>4, <2>2
    <3>3. \A b \in 0..1 : Len(buf'[b].messages) <= Limit + N
      BY <1>4, <3>1, <3>2
    <3>4. (Len(buf[active].messages) + Cardinality(Adders) <= Limit + N)'
      BY <1>1, <1>2, <1>4, <2>1, <2>2, <3>1
    <3> QED BY <3>3, <3>4 DEF Room
  <2> QED BY <1>8, <2>3, <2>4 DEF WriteAdd
<1>9. ASSUME NEW c \in Callers, WriteSize(c) PROVE Room'
  <2>1. /\ active' = active /\ buf' = buf /\ pc[c] = "size"
        /\ pc' \in {[pc EXCEPT ![c] = "idle"], [pc EXCEPT ![c] = "add"]}
        /\ look' = [look EXCEPT ![c] = 0]
        /\ BufferFull(buf[look[c]]) => pc' = [pc EXCEPT ![c] = "idle"]
    BY <1>9 DEF WriteSize, Return, Goto
  <2>2. Adders' \subseteq Adders \cup {c}
    BY <1>1, <2>1 DEF Adders
  <2>3. CASE c \in Adders \/ pc' = [pc EXCEPT ![c] = "idle"]
    <3>1. Adders' \subseteq Adders
      BY <1>1, <2>1, <2>2, <2>3 DEF Adders
    <3> QED BY <1>5, <2>1, <3>1
  <2>4. CASE c \notin Adders /\ pc' # [pc EXCEPT ![c] = "idle"]
    <3>1. look[c] = active
      BY <2>1, <2>4 DEF Adders
    <3>2. Len(buf[active].messages) <= Limit
      BY <1>1, <1>2, <2>1, <2>4, <3>1 DEF BufferFull
    <3>3. Cardinality(Adders') \in Nat /\ Cardinality(Adders') <= N
      BY <1>3, <1>4
    <3>4. (Len(buf[active].messages) + Cardinality(Adders) <= Limit + N)'
      BY <1>1, <1>2, <2>1, <3>2, <3>3
    <3> QED BY <1>4, <2>1, <3>4 DEF Room
  <2> QED BY <2>3, <2>4
<1>10. ASSUME NEW c \in Callers, Start(c) \/ Stop(c) \/ Join(c) \/ WriteLook(c) \/ FlushEnter(c) \/ FlushAgain(c)
       PROVE  Room'
  <2>1. active' = active /\ \A b \in 0..1 : buf'[b].messages = buf[b].messages
    BY <1>1, <1>10 DEF Start, Stop, Join, WriteLook, FlushEnter, FlushAgain, AskAndWait
  <2>2. Adders' \subseteq Adders
    BY <1>1, <1>10 DEF Start, Stop, Join, WriteLook, FlushEnter, FlushAgain, AskAndWait, Return,
                       Goto, Adders, Active
  <2> QED BY <1>5, <2>1, <2>2
<1>11. CASE FlusherStep /\ ~Clear
  <2>1. \A b \in 0..1 : buf'[b].messages = buf[b].messages
    <3>1. UNCHANGED buf \/ buf' = [buf EXCEPT ![active].flush = TRUE]
      BY <1>11 DEF FlusherStep, FlusherBegins, FlusherWakes, FlusherTimesOut, WriteMessage,
                   FlushFiles, RoundDone
    <3> QED BY <1>1, <3>1
  <2>2. Swap \/ UNCHANGED active
    BY <1>11 DEF FlusherStep, FlusherBegins, FlusherWakes, FlusherTimesOut, WriteMessage,
                 FlushFiles, RoundDone, Examine
  <2>3. Swap => buf[flushing].messages = <<>>
    <3>1. UNCHANGED active \/ fpc \notin {"writing", "clear"}
      BY <1>11 DEF FlusherStep, FlusherBegins, FlusherWakes, FlusherTimesOut, WriteMessage,
                   FlushFiles, RoundDone
    <3>2. Swap => ~UNCHANGED active
      BY <1>1 DEF Swap, flushing
    <3> QED BY <3>1, <3>2 DEF IInv, Phases
  <2>4. UNCHANGED active => Adders' \subseteq Adders
    BY <1>1, <1>11 DEF FlusherStep, FlusherBegins, FlusherWakes, FlusherTimesOut, WriteMessage,
                       FlushFiles, RoundDone, WakeFlushers, Adders
  <2> QED BY <1>5, <1>6, <2>1, <2>2, <2>3, <2>4
<1>12. CASE UNCHANGED vars
  <2>1. Adders' = Adders /\ active' = active /\ buf' = buf
    BY <1>12 DEF vars, Adders
  <2> QED BY <1>5, <2>1
<1> QED BY <1>7, <1>8, <1>9, <1>10, <1>11, <1>12 DEF Next, CallerStep

\* The buffer that is swapped in has all that was accepted and not yet passed
\* to the file.
LEMMA SwapServes ==
  ASSUME IInv, Swap, fpc \notin {"writing", "clear"}, UNCHANGED <<accepted, disk>>,
         buf' \in [0..1 -> [messages : Seq(Messages), flush : BOOLEAN]],
         \A b \in 0..1 : buf'[b].messages = buf[b].messages,
         NEW c \in Callers, buf'[active].flush, due'[c] \in Nat, due'[c] <= Len(accepted)
  PROVE  OnItsWay(c)'
<1>1. flushing' = active /\ fpc' = "writing" /\ next' = 1
  BY FlushingTyped DEF IInv, Types, Swap, flushing
<1>2. buf[active].messages \in Seq(Messages) /\ disk \in Seq(Messages) /\ active \in 0..1
  BY FlushingTyped DEF IInv, Types
<1>3. Rest = <<>>
  BY SubSeqEmpty DEF IInv, Phases, Rest
<1>4. accepted = disk \o buf[active].messages
  BY <1>2, <1>3, Ends DEF IInv, Order
<1>5. Rest' = buf[active].messages
  BY <1>1, <1>2, Ends DEF Rest
<1>6. Len(accepted) = Len(disk) + Len(buf[active].messages)
  BY <1>2, <1>4, ConcatProperties
<1> QED BY <1>1, <1>5, <1>6 DEF OnItsWay

\* What a Flush is served by, step by step of the flusher.
LEMMA FlusherServes ==
  ASSUME IInv, Busy, Locals, Served, FlusherStep, NEW c \in Callers,
         pc[c] \in {"flush_wait", "flush_woken"}
  PROVE  \/ due[c] <= flushed'
         \/ OnItsWay(c)' /\ flush_count' <= orig[c] + 1
         \/ buf'[active'].flush /\ flush_count' = orig[c]
<1> USE DEF buffers, flusher, callers, output, history
<1>1. /\ due[c] \in Nat /\ orig[c] \in Nat /\ flush_count \in Nat /\ flushed \in Nat /\ flushed' \in Nat
      /\ flushed' >= flushed /\ due[c] <= Len(accepted) /\ Len(accepted) \in Nat
      /\ due' = due /\ orig' = orig /\ accepted' = accepted /\ active \in 0..1
  <2>1. UNCHANGED <<due, orig, accepted>>
    BY DEF FlusherStep, FlusherBegins, FlusherWakes, FlusherTimesOut, WriteMessage, FlushFiles,
           Clear, RoundDone
  <2>2. /\ due \in [Callers -> Nat] /\ orig \in [Callers -> Nat] /\ flush_count \in Nat
        /\ flushed \in 0..Len(disk) /\ Len(disk) \in Nat /\ Len(accepted) \in Nat /\ active \in 0..1
    BY DEF Locals, IInv, Types
  <2>3. flushed' \in 0..Len(disk') /\ flushed' >= flushed
    BY OutputGrows DEF Next
  <2>4. due[c] <= Len(accepted)
    BY DEF Served
  <2> QED BY <2>1, <2>2, <2>3, <2>4
<1>2. \/ due[c] <= flushed
      \/ OnItsWay(c) /\ flush_count <= orig[c] + 1
      \/ buf[active].flush /\ flush_count = orig[c]
  BY DEF Served
<1>3. CASE due[c] <= flushed
  BY <1>1, <1>3
<1>4. CASE OnItsWay(c) /\ flush_count <= orig[c] + 1
  <2> DEFINE ms == buf[flushing].messages
  <2>1. fpc = "writing" /\ buf[flushing].flush /\ due[c] <= Len(disk) + Len(Rest)
    BY <1>4 DEF OnItsWay
  <2>2. ms \in Seq(Messages) /\ Len(ms) \in Nat /\ next \in 1..Len(ms) + 1 /\ disk \in Seq(Messages)
        /\ \A i \in 1..Len(ms) : ms[i] \in Messages
    BY FlushingTyped, ElementOfSeq DEF IInv, Types
  <2>3. Len(Rest) = Len(ms) + 1 - next
    <3>1. \A i \in next..Len(ms) : ms[i] \in Messages
      BY <2>2
    <3> HIDE DEF ms
    <3>2. Len(SubSeq(ms, next, Len(ms))) = Len(ms) + 1 - next
      BY <2>2, <3>1, SubSeqProperties
    <3> QED BY <3>2 DEF Rest, ms
  <2>4. CASE WriteMessage
    <3>1. /\ UNCHANGED <<buf, active, fpc, flush_count>> /\ next' = next + 1 /\ next <= Len(ms)
          /\ disk' = Append(disk, ms[next])
      BY <2>4 DEF WriteMessage, WriteFile
    <3>2. flushing' = flushing /\ ms' = ms
      BY <3>1 DEF flushing
    <3>3. Len(disk') = Len(disk) + 1
      BY <2>2, <3>1
    <3>4. Len(Rest') = Len(ms) + 1 - (next + 1)
      <4>1. next + 1 \in 1..Len(ms) + 1 /\ \A i \in next + 1..Len(ms) : ms[i] \in Messages
        BY <2>2, <3>1
      <4>2. Rest' = SubSeq(ms, next + 1, Len(ms))
        BY <3>1, <3>2 DEF Rest
      <4> HIDE DEF ms
      <4> QED BY <2>2, <4>1, <4>2, SubSeqProperties
    <3>5. due[c] <= Len(disk') + Len(Rest')
      <4>1. Len(disk) \in Nat
        BY <2>2
      <4> HIDE DEF ms
      <4> QED BY <1>1, <2>1, <2>2, <2>3, <3>3, <3>4, <4>1
    <3> QED BY <1>1, <1>4, <2>1, <3>1, <3>2, <3>5 DEF OnItsWay
  <2>5. CASE FlushFiles
    <3>1. flushed' = Len(disk) /\ next > Len(ms)
      BY <2>1, <2>5 DEF FlushFiles, FlushUnlocked
    <3> QED BY <1>1, <2>1, <2>2, <2>3, <3>1
  <2> QED BY <2>1, <2>4, <2>5 DEF FlusherStep, FlusherBegins, FlusherWakes, FlusherTimesOut, Clear,
                                  RoundDone
<1>5. CASE buf[active].flush /\ flush_count = orig[c]
  <2>1. buf \in [0..1 -> [messages : Seq(Messages), flush : BOOLEAN]]
    BY DEF IInv, Types
  <2>2. CASE WriteMessage \/ FlushFiles
    BY <1>1, <1>5, <2>2 DEF WriteMessage, FlushFiles
  <2>3. CASE Clear
    <3>1. buf'[active] = buf[active]
      BY <1>1, <2>1, <2>3 DEF Clear, flushing
    <3> QED BY <1>1, <1>5, <2>3, <3>1 DEF Clear
  <2>4. CASE FlusherTimesOut
    <3>1. /\ buf' \in [0..1 -> [messages : Seq(Messages), flush : BOOLEAN]]
          /\ \A b \in 0..1 : buf'[b].messages = buf[b].messages
          /\ buf'[active].flush
      BY <1>1, <2>1, <2>4 DEF FlusherTimesOut
    <3>2. OnItsWay(c)'
      BY <1>1, <2>4, <3>1, SwapServes DEF FlusherTimesOut
    <3> QED BY <1>1, <1>5, <2>4, <3>2 DEF FlusherTimesOut
  <2>5. CASE FlusherBegins \/ FlusherWakes \/ RoundDone
    <3>1. /\ Swap /\ buf' = buf /\ disk' = disk /\ fpc \notin {"writing", "clear"}
          /\ flush_count' \in {flush_count, flush_count + 1}
      BY <1>5, <2>5 DEF FlusherBegins, FlusherWakes, RoundDone, Examine, needs_flush_or_write
    <3>2. OnItsWay(c)'
      BY <1>1, <1>5, <2>1, <3>1, SwapServes
    <3> QED BY <1>1, <1>5, <3>1, <3>2
  <2> QED BY <2>2, <2>3, <2>4, <2>5 DEF FlusherStep
<1> QED BY <1>2, <1>3, <1>4, <1>5

LEMMA ServedKeeps ==
  ASSUME IInv, Busy, Locals, Served, [Next]_vars
  PROVE  Served'
<1> USE DEF buffers, flusher, callers, output, history
<1> SUFFICES ASSUME NEW c \in Callers
             PROVE  /\ due'[c] <= Len(accepted') /\ promised'[c] <= flushed'
                    /\ pc'[c] \in {"flush_wait", "flush_woken"} =>
                         \/ due'[c] <= flushed'
                         \/ OnItsWay(c)' /\ flush_count' <= orig'[c] + 1
                         \/ buf'[active'].flush /\ flush_count' = orig'[c]
  BY DEF Served
<1>1. /\ due \in [Callers -> Nat] /\ orig \in [Callers -> Nat] /\ promised \in [Callers -> Nat]
      /\ flush_count \in Nat /\ flushed \in Nat /\ flushed' \in Nat /\ flushed' >= flushed
      /\ pc \in [Callers -> {"idle", "join", "size", "add", "flush_wait", "flush_woken"}]
      /\ active \in 0..1 /\ buf \in [0..1 -> [messages : Seq(Messages), flush : BOOLEAN]]
      /\ accepted \in Seq(Messages) /\ Len(accepted) \in Nat
  <2>1. flushed' \in 0..Len(disk') /\ flushed' >= flushed
    BY OutputGrows
  <2>2. flushed \in 0..Len(disk)
    BY DEF Locals
  <2>3. flushed \in Nat /\ flushed' \in Nat
    BY <2>1, <2>2
  <2>4. /\ active \in 0..1 /\ buf \in [0..1 -> [messages : Seq(Messages), flush : BOOLEAN]]
        /\ accepted \in Seq(Messages) /\ Len(accepted) \in Nat
    BY DEF IInv, Types
  <2>5. pc \in [Callers -> {"idle", "join", "size", "add", "flush_wait", "flush_woken"}]
    BY DEF Busy
  <2>6. /\ due \in [Callers -> Nat] /\ orig \in [Callers -> Nat]
        /\ promised \in [Callers -> Nat] /\ flush_count \in Nat
    BY DEF Locals
  <2> QED BY ONLY <2>1, <2>3, <2>4, <2>5, <2>6
<1>2. /\ due[c] <= Len(accepted) /\ promised[c] <= flushed
      /\ pc[c] \in {"flush_wait", "flush_woken"} =>
           \/ due[c] <= flushed
           \/ OnItsWay(c) /\ flush_count <= orig[c] + 1
           \/ buf[active].flush /\ flush_count = orig[c]
  BY DEF Served
<1>3. Len(accepted') \in Nat /\ Len(accepted') >= Len(accepted)
  <2>1. UNCHANGED accepted \/ \E d \in Callers : accepted' = Append(accepted, MessageOf(d))
    BY DEF Next, vars, FlusherStep, FlusherBegins, FlusherWakes, FlusherTimesOut, WriteMessage,
           FlushFiles, Clear, RoundDone, CallerStep, Start, Stop, Join, WriteLook, WriteSize,
           WriteAdd, FlushEnter, FlushAgain
  <2> QED BY <1>1, <2>1, MessageTyped
\* The threads do not disturb what serves a Flush.
<1>4. ASSUME NEW d \in Callers, CallerStep(d)
      PROVE  /\ UNCHANGED <<active, flush_count, next, disk, flushed>>
             /\ buf[active].flush => buf'[active].flush
             /\ \A e \in Callers : OnItsWay(e) /\ due'[e] = due[e] => OnItsWay(e)'
  <2>1. UNCHANGED <<active, flush_count, next, disk, flushed>>
    BY <1>4 DEF CallerStep, Start, Stop, Join, WriteLook, WriteSize, WriteAdd, FlushEnter,
                FlushAgain, AskAndWait
  <2>2. /\ \/ UNCHANGED buf
           \/ buf' = [buf EXCEPT ![active].flush = TRUE]
           \/ buf' = [buf EXCEPT ![active] = [messages |-> Append(@.messages, MessageOf(d)),
                                              flush |-> @.flush \/ Calling(d, "Warning")]]
        /\ fpc' = fpc \/ fpc # "writing"
    <3>1. fpc' = fpc \/ fpc # "writing"
      BY <1>4 DEF CallerStep, Start, Stop, Join, WriteLook, WriteSize, WriteAdd, FlushEnter,
                  FlushAgain, AskAndWait, NotifyFlusher, IInv, Phases
    <3> QED BY <1>4, <3>1 DEF CallerStep, Start, Stop, Join, WriteLook, WriteSize, WriteAdd,
                              FlushEnter, FlushAgain, AskAndWait
  <2>3. buf[active].flush => buf'[active].flush
    BY <1>1, <2>2
  <2>4. flushing' = flushing /\ buf'[flushing] = buf[flushing]
    BY <1>1, <2>1, <2>2 DEF flushing
  <2>5. Rest' = Rest
    BY <2>1, <2>4 DEF Rest
  <2> QED BY <2>1, <2>2, <2>3, <2>4, <2>5 DEF OnItsWay
<1>5. CASE FlushEnter(c)
  <2>1. CASE state = "RUNNING"
    <3>1. /\ orig'[c] = flush_count /\ due'[c] = Len(accepted) /\ flush_count' = flush_count
          /\ accepted' = accepted /\ promised' = promised /\ active' = active
          /\ buf' = [buf EXCEPT ![active].flush = TRUE]
      BY <1>1, <1>5, <2>1 DEF FlushEnter, AskAndWait
    <3>2. buf'[active'].flush
      BY <1>1, <3>1
    <3> QED BY <1>1, <1>2, <3>1, <3>2
  <2>2. CASE state # "RUNNING"
    <3>1. due' = due /\ promised' = promised /\ pc'[c] = "idle"
      BY <1>1, <1>5, <2>2 DEF FlushEnter, Return
    <3> QED BY <1>1, <1>2, <1>3, <3>1
  <2> QED BY <2>1, <2>2
<1>6. CASE FlushAgain(c)
  <2>1. CASE flush_count < orig[c] + Rounds /\ state = "RUNNING"
    <3>1. UNCHANGED <<due, orig, promised>> /\ pc[c] = "flush_woken"
      <4>1. ~(flush_count >= orig[c] + Rounds \/ state # "RUNNING")
        BY <1>1, <2>1 DEF Rounds
      <4> QED BY <1>6, <4>1 DEF FlushAgain
    <3> QED BY <1>1, <1>2, <1>3, <1>4, <1>6, <3>1 DEF CallerStep
  <2>2. CASE ~(flush_count < orig[c] + Rounds /\ state = "RUNNING")
    <3>1. /\ due'[c] = 0 /\ pc'[c] = "idle" /\ pc[c] = "flush_woken"
          /\ promised'[c] = IF state = "RUNNING" THEN due[c] ELSE promised[c]
      BY <1>1, <1>6, <2>2 DEF FlushAgain, Return
    <3>2. state = "RUNNING" => due[c] <= flushed
      BY <1>1, <1>2, <2>2, <3>1 DEF Rounds
    <3> QED BY <1>1, <1>2, <1>3, <3>1, <3>2
  <2> QED BY <2>1, <2>2
<1>7. ASSUME NEW d \in Callers, CallerStep(d), d # c \/ ~(FlushEnter(c) \/ FlushAgain(c))
      PROVE  /\ due'[c] = due[c] /\ orig'[c] = orig[c] /\ promised'[c] = promised[c]
             /\ pc'[c] \in {"flush_wait", "flush_woken"} => pc'[c] = pc[c]
  BY <1>1, <1>7 DEF CallerStep, Start, Stop, Join, WriteLook, WriteSize, WriteAdd, FlushEnter,
                    FlushAgain, AskAndWait, Return, Goto
<1>8. CASE \E d \in Callers : CallerStep(d) /\ (d # c \/ ~(FlushEnter(c) \/ FlushAgain(c)))
  BY <1>1, <1>2, <1>3, <1>4, <1>7, <1>8
<1>9. CASE FlusherStep
  <2>1. /\ UNCHANGED <<due, orig, promised>>
        /\ pc'[c] \in {"flush_wait", "flush_woken"} => pc[c] \in {"flush_wait", "flush_woken"}
    BY <1>1, <1>9 DEF FlusherStep, FlusherBegins, FlusherWakes, FlusherTimesOut, WriteMessage,
           FlushFiles, Clear, RoundDone, WakeFlushers
  <2> QED BY <1>1, <1>2, <1>3, <1>9, <2>1, FlusherServes
<1>10. CASE UNCHANGED vars
  <2>1. OnItsWay(c)' = OnItsWay(c)
    BY <1>10 DEF vars, OnItsWay, Rest, flushing
  <2> QED BY <1>2, <1>10, <2>1 DEF vars
<1> QED BY <1>5, <1>6, <1>8, <1>9, <1>10 DEF Next, CallerStep

-----------------------------------------------------------------------------
(* Theorems *)

\* The order of the messages, with what the flusher's place says of the
\* buffers (AsyncLogger::Write, RunThread) and what a thread's says of its plan.
THEOREM Inductive == Spec => [](IInv /\ Busy)
<1>1. Init => IInv /\ Busy
  <2>1. Init => Busy
    BY LoggerAssumption DEF Init, Busy
  <2> QED BY <2>1, InitIInv
<1>2. IInv /\ Busy /\ [Next]_vars => IInv'
  <2> SUFFICES ASSUME IInv, Busy, [Next]_vars PROVE IInv'
    OBVIOUS
  <2>1. CASE Next
    BY <2>1, FlusherKeeps, CallerKeeps DEF Next
  <2>2. CASE UNCHANGED vars
    BY <2>2 DEF vars, buffers, flusher, callers, output, history,
                IInv, Types, Phases, Order, Rest, flushing
  <2> QED BY <2>1, <2>2
<1> QED BY <1>1, <1>2, BusyKeeps, PTL DEF Spec

\* No message that was added is lost or overtaken between the buffers, and
\* both are empty when the flusher has ended (AsyncLogger::RunThread, Stop).
THEOREM NothingIsLost == Spec => []NothingLost
<1>1. IInv => NothingLost
  <2> SUFFICES ASSUME IInv PROVE NothingLost
    OBVIOUS
  <2>1. fpc = "exit" => buf[0].messages = <<>> /\ buf[1].messages = <<>>
    BY FlushingTyped DEF IInv, Types, Phases
  <2> QED BY <2>1 DEF IInv, Order, Rest, NothingLost
<1> QED BY <1>1, Inductive, PTL

\* What the file counts, what a buffer takes, and what a Flush is served by
\* (LogFileObject::Write, AsyncLogger::BufferFull, AsyncLogger::Flush).
THEOREM Serving == Spec => [](Locals /\ Room /\ Served)
<1>1. Init => Locals /\ Room /\ Served
  <2> SUFFICES ASSUME Init PROVE Locals /\ Room /\ Served
    OBVIOUS
  <2>1. /\ Limit \in Nat /\ IsFiniteSet(Callers) /\ Cardinality(Callers) \in Nat
        /\ MaxLogSize \in Nat \ {0} /\ kRolloverAttemptFrequency \in Nat \ {0}
    BY LoggerAssumption, FS_CardinalityType
  <2>2. file \in [open : BOOLEAN, length : 0..MaxLogSize, attempt : 0..kRolloverAttemptFrequency - 1]
    BY <2>1 DEF Init, Closed
  <2>3. Locals
    <3>1. /\ look \in [Callers -> 0..1] /\ orig \in [Callers -> Nat]
          /\ due \in [Callers -> Nat] /\ promised \in [Callers -> Nat]
          /\ flush_count \in Nat /\ flushed \in 0..Len(disk)
      BY DEF Init
    <3>2. stop_writing \in BOOLEAN
      BY DEF Init
    <3> QED BY <2>2, <3>1, <3>2 DEF Locals
  <2>4. Room
    <3>1. Adders = {} /\ Cardinality(Adders) = 0
      BY FS_EmptySet DEF Init, Adders
    <3>2. \A b \in 0..1 : Len(buf[b].messages) = 0
      BY DEF Init, EmptyBuffer
    <3>3. active \in 0..1
      BY DEF Init
    <3> QED BY <2>1, <3>1, <3>2, <3>3 DEF Room
  <2>5. Served
    BY DEF Init, Served
  <2> QED BY <2>3, <2>4, <2>5
<1>2. (IInv /\ Busy) /\ (Locals /\ Room /\ Served) /\ [Next]_vars => (Locals /\ Room /\ Served)'
  BY LocalsKeep, RoomKeeps, ServedKeeps
<1> QED BY <1>1, <1>2, Inductive, PTL DEF Spec

\* Every variable has its type, a log file is rolled over in time, and the
\* limit of a buffer is passed by at most one message per thread.
THEOREM TypeCorrect == Spec => []TypeOK
<1>1. IInv /\ Busy /\ Locals /\ Room => TypeOK
  <2> SUFFICES ASSUME IInv, Busy, Locals, Room PROVE TypeOK
    OBVIOUS
  <2>1. \A b \in 0..1 : /\ buf[b].messages \in Seq(Messages) /\ buf[b].flush \in BOOLEAN
                        /\ Len(buf[b].messages) <= Limit + Cardinality(Callers)
    BY DEF IInv, Types, Room
  <2> QED BY <2>1 DEF IInv, Types, Busy, Locals, TypeOK
<1> QED BY <1>1, Inductive, Serving, PTL

\* A Flush that returns while the logger runs has what was added before it in
\* the file and flushed: two rounds are enough wherever the flusher was.
THEOREM FlushIsKept == Spec => []FlushCovers
<1>1. Served => FlushCovers
  BY DEF Served, FlushCovers
<1> QED BY <1>1, Serving, PTL
==============================================================================
