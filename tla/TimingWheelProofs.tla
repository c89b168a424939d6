------------------------- MODULE TimingWheelProofs -------------------------
(***************************************************************************)
(* Proofs about TimingWheel, for any timers, plans and wheel size.         *)
(*                                                                         *)
(* Three invariants, each relying on the ones before: WInv says where the  *)
(* tasks are and that their slots and rounds are exact, CInv relates the   *)
(* wheel to the clock (Paced: the hand is never ahead of Rate, nor Rate of *)
(* the clock), and OInv numbers the tasks as long as calls of StartTimer do*)
(* not overlap and no queue gets full.                                     *)
(***************************************************************************)
EXTENDS TimingWheel, FiniteSetTheorems, SequenceTheorems, TLAPS

-----------------------------------------------------------------------------
(* The wheel: WInv *)

\* The user has made a task that is not in the add queue yet.
Making(u) == at[u] \in {"store", "enqueue"}

\* A user that is in a call has one to return from.
Busy == \A u \in Users : at[u] # "idle" => todo[u] # <<>>

\* Tasks that are being made are nobody else's.
MadeApart == \A u \in Users : Making(u) =>
  /\ mine[u] \in Born /\ ~Queued(mine[u]) /\ ~Seated(mine[u])
  /\ \A v \in Users : Making(v) /\ mine[v] = mine[u] => v = u

\* The add queue lists a task once, before it has a slot.
QueuedOnce == \A i, j \in 1..Len(add_queue) :
  /\ add_queue[i] \in Born /\ ~Seated(add_queue[i])
  /\ add_queue[i] = add_queue[j] => i = j

\* A slot holds only tasks that StartTimer made.
SeatedBorn == \A i \in Slots : slots[i] \subseteq Born

\* A timer whose id was stopped while it was seated never waits in the add
\* queue again, and leaves its slot with the cancelled ids.
Leaving == \A k \in settled :
  /\ k \in Born /\ ~Queued(k)
  /\ \A u \in Users : Making(u) => mine[u] # k
  /\ task[k].tid \in cancelled_list \/ ~Seated(k)

WInv == /\ TypeOK /\ Busy /\ MadeApart /\ QueuedOnce /\ SeatedBorn /\ RoundsExact
        /\ Leaving

-----------------------------------------------------------------------------
(* The wheel and the clock: CInv *)

\* Before the first Step the wheel is at its beginning.
Unbegun == start_time = 0 =>
  /\ tick = 0 /\ skew = 0 /\ thread \in {"off", "born", "step"}
  /\ \A i \in Slots : slots[i] = {}

\* When the present tick begins, on the clock that Rate kept.
Origin == start_time - skew + TickDuration * tick

\* The hand is not ahead of Rate, nor Rate of the clock, wherever the thread is;
\* a thread that starts anew takes a Rate that is not before the hand.
Paced ==
  /\ skew <= now /\ start_time <= now
  /\ thread \in {"step", "fill", "rate"} => rate_start <= now
  /\ start_time # 0 =>
       /\ thread \in {"off", "born"} => Origin <= now
       /\ thread \in {"step", "fill", "asleep"} => Origin <= rate_start
       /\ thread = "rate" => Origin <= rate_start + TickDuration

\* The last period of every task ended, or did so but for less than a tick.
Timely == \A k \in Born :
  /\ task[k].interval <= TIMER_TASK_MAX_INTERVAL
  /\ task[k].init_time + task[k].fire_count * task[k].interval < now + TickDuration + skew

\* The deadlines in the slots are those FillSlot computes from the origin.
DeadlinesExact == \A i \in Slots : \A k \in slots[i] :
                    task[k].deadline = Unsigned(Due(task[k]) - start_time)

\* The thread of a manager that does not run is being joined.
Joined == running \/ thread = "off" \/ \E u \in Users : at[u] = "join"

\* A task that was not made has fired in no period.
Unfired == \A k \in Tasks \ Born : task[k].fire_count = 0

CInv == Unbegun /\ Paced /\ Timely /\ DeadlinesExact /\ Joined /\ Unfired

-----------------------------------------------------------------------------
(* Ids: OInv, where calls of StartTimer do not overlap and no queue gets full *)

\* The user is between the two accesses of id_counter_, or before it answers.
Numbering(u) == at[u] \in {"store", "enqueue", "undo", "answer"}

\* One user at a time makes a task.
Alone == \A u, v \in Users : Numbering(u) => at[u] # "undo" /\ (Numbering(v) => v = u)

\* The id of a task is its number in the order of creation.
Numbered ==
  /\ \A u \in Users : at[u] = "store" =>
       Born = 1..(id_counter + 1) /\ mine[u] = id_counter + 1 /\ seen[u] = id_counter
  /\ (\A u \in Users : at[u] # "store") => Born = 1..id_counter
  /\ \A k \in 1..id_counter : task[k].tid = k

\* The ids a Timer can hold: 0, one of a task that was made, or the refusal.
Ids == 0..id_counter \cup {NoId}

\* Ids are cancelled only once they exist, and their tasks count as stopped.
Known == /\ \A t \in Timers : timer_id[t] \in Ids /\ latest[t] \in Born \cup {0}
         /\ cancelled_list \subseteq Ids /\ stopped \subseteq Born
         /\ \A k \in 1..id_counter : k \in cancelled_list => k \in stopped

\* A oneshot is handed over once, and not while it is still somewhere.
HandedOnce == \A k \in Tasks :
  /\ k \notin Born => handed[k] = 0
  /\ task[k].oneshot =>
       /\ handed[k] <= 1
       /\ Queued(k) \/ Seated(k) \/ (\E u \in Users : Making(u) /\ mine[u] = k) => handed[k] = 0

\* No accepted timer is lost.
Somewhere == \A k \in Born :
  Accepted(k) /\ k \notin stopped => Queued(k) \/ Seated(k) \/ (task[k].oneshot /\ handed[k] = 1)

\* The condition of OnePlace.
Calm == ~clash /\ ~overrun

OInv == Calm => Alone /\ Numbered /\ Known /\ HandedOnce /\ Somewhere

-----------------------------------------------------------------------------
(* Arithmetic *)

LEMMA Division ==
  ASSUME NEW a \in Int, NEW n \in Nat \ {0}
  PROVE  /\ a \div n \in Int /\ a % n \in 0..(n - 1)
         /\ a = n * (a \div n) + (a % n)
  BY SMT

LEMMA OneQuotient ==
  ASSUME NEW n \in Nat \ {0}, NEW q \in Int, NEW r \in 0..(n - 1),
         NEW s \in Int, NEW t \in 0..(n - 1), n * q + r = n * s + t
  PROVE  q = s /\ r = t
  <1>1. n * (q - s) = t - r
    BY SMT
  <1>2. ~(q - s >= 1)
    <2>1. q - s >= 1 => n * (q - s) >= n
      BY SMT
    <2>2. QED
      BY <1>1, <2>1, SMT
  <1>3. ~(s - q >= 1)
    <2>1. s - q >= 1 => n * (s - q) >= n
      BY SMT
    <2>2. n * (s - q) = r - t
      BY SMT
    <2>3. QED
      BY <2>1, <2>2, SMT
  <1>4. QED
    BY <1>1, <1>2, <1>3, SMT

LEMMA OneMore ==
  ASSUME NEW a \in Nat, NEW b \in Nat
  PROVE  a * b \in Nat /\ (a + 1) * b = a * b + b
  BY SMT

LEMMA Quotient ==
  ASSUME NEW n \in Nat \ {0}, NEW q \in Int, NEW r \in 0..(n - 1)
  PROVE  (n * q + r) \div n = q /\ (n * q + r) % n = r
  BY Division, OneQuotient, SMT

LEMMA UnsignedDoes ==
  /\ NoId = UINT64_MAX /\ NoId \in Nat
  /\ \A n \in Int : Unsigned(n) \in 0..NoId
  /\ \A n \in 0..NoId : Unsigned(n) = n
  <1> USE WheelAssumption
  <1> DEFINE m == UINT64_MAX + 1
  <1>1. m \in Nat \ {0}
    BY SMT
  <1>2. (m * (-1) + UINT64_MAX) % m = UINT64_MAX
    BY <1>1, Quotient, SMT
  <1>3. NoId = UINT64_MAX
    BY <1>2, SMT DEF NoId, Unsigned
  <1>4. ASSUME NEW n \in Int
        PROVE  Unsigned(n) \in 0..NoId
    BY <1>1, <1>3, Division, SMT DEF Unsigned
  <1>5. ASSUME NEW n \in 0..NoId
        PROVE  Unsigned(n) = n
    <2>1. (m * 0 + n) % m = n
      BY <1>1, <1>3, Quotient, SMT
    <2>2. QED
      BY <2>1, <1>3, SMT DEF Unsigned
  <1>6. QED
    BY <1>3, <1>4, <1>5

\* Where the wheel is, n, and where a task is due, t, one tick further.
LEMMA Turn ==
  ASSUME NEW n \in Nat, NEW t \in Nat, n < t, NEW S \in Nat \ {0, 1}
  PROVE  /\ t % S # n % S => (t - (n + 1)) \div S = (t - n) \div S
         /\ t % S = n % S => /\ (t - n) \div S \in Nat \ {0}
                             /\ (t - (n + 1)) \div S = (t - n) \div S - 1
  <1> DEFINE q == (t - n) \div S
             r == (t - n) % S
  <1>1. q \in Int /\ r \in 0..(S - 1) /\ t - n = S * q + r
    BY Division, SMT
  <1>2. /\ n \div S \in Int /\ n % S \in 0..(S - 1) /\ n = S * (n \div S) + (n % S)
        /\ t \div S \in Int /\ t % S \in 0..(S - 1) /\ t = S * (t \div S) + (t % S)
    BY Division, SMT
  <1> HIDE DEF q, r
  <1>3. CASE r = 0
    <2>1. /\ n \div S + q \in Int
          /\ S * (n \div S + q) + (n % S) = S * (t \div S) + (t % S)
      BY <1>1, <1>2, <1>3, SMT
    <2>2. t % S = n % S
      <3> DEFINE a == n \div S + q
                 b == t \div S
                 c == n % S
                 d == t % S
      <3>1. a \in Int /\ b \in Int /\ c \in 0..(S - 1) /\ d \in 0..(S - 1)
            /\ S * a + c = S * b + d
        BY <1>2, <2>1
      <3> HIDE DEF a, b, c, d
      <3>2. c = d
        BY <3>1, OneQuotient
      <3>3. QED
        BY <3>2 DEF c, d
    <2>3. t - (n + 1) = S * (q - 1) + (S - 1)
      BY <1>1, <1>3, SMT
    <2>4. (t - (n + 1)) \div S = q - 1
      BY <1>1, <2>3, Quotient, SMT
    <2>5. q >= 1
      <3>1. q <= 0 => S * q <= 0
        BY <1>1, SMT
      <3>2. QED
        BY <1>1, <1>3, <3>1, SMT
    <2>6. QED
      BY <1>1, <2>2, <2>4, <2>5, SMT DEF q
  <1>4. CASE r # 0
    <2>1. t - (n + 1) = S * q + (r - 1) /\ r - 1 \in 0..(S - 1)
      BY <1>1, <1>4, SMT
    <2>2. (t - (n + 1)) \div S = q
      BY <1>1, <2>1, Quotient, SMT
    <2>3. t % S # n % S
      <3>1. SUFFICES ASSUME t % S = n % S
                     PROVE  FALSE
        OBVIOUS
      <3> DEFINE a == t \div S - n \div S
      <3>2. a \in Int /\ 0 \in 0..(S - 1) /\ S * a + 0 = S * q + r
        BY <1>1, <1>2, <3>1, SMT
      <3> HIDE DEF a
      <3>3. r = 0
        BY <1>1, <3>2, OneQuotient
      <3>4. QED
        BY <1>4, <3>3
    <2>4. QED
      BY <2>2, <2>3 DEF q
  <1>5. QED
    BY <1>3, <1>4

LEMMA NextSlot ==
  ASSUME NEW n \in Nat, NEW S \in Nat \ {0, 1}
  PROVE  (n + 1) % S # n % S
  <1>1. /\ n \div S \in Int /\ n % S \in 0..(S - 1) /\ n = S * (n \div S) + (n % S)
        /\ (n + 1) \div S \in Int /\ n + 1 = S * ((n + 1) \div S) + ((n + 1) % S)
    BY Division, SMT
  <1>2. SUFFICES ASSUME (n + 1) % S = n % S
                 PROVE  FALSE
    OBVIOUS
  <1>3. S * ((n + 1) \div S - n \div S) + 0 = S * 0 + 1
    BY <1>1, <1>2, SMT
  <1>4. QED
    BY <1>1, <1>3, OneQuotient, SMT

-----------------------------------------------------------------------------
(* Types *)

LEMMA CallDoes ==
  ASSUME TypeOK, NEW u \in Users, todo[u] # <<>>
  PROVE  /\ Its(u) \in Timers /\ Call(u).call \in Calls
         /\ Tail(todo[u]) \in Seq([call : Calls, timer : Timers])
  <1> DEFINE C == [call : Calls, timer : Timers]
  <1>1. todo[u] \in Seq(C)
    BY DEF TypeOK
  <1>2. Head(todo[u]) \in C /\ Tail(todo[u]) \in Seq(C)
    BY <1>1, HeadTailProperties
  <1>3. QED
    BY <1>2 DEF Its, Call

LEMMA UserMoves ==
  ASSUME TypeOK, Busy, NEW u \in Users, UserStep(u)
  PROVE  /\ todo[u] # <<>>
         /\ Return(u) \/ \E x \in Places : Goto(u, x)
         /\ at' \in [Users -> Places] /\ \A v \in Users \ {u} : at'[v] = at[v]
         /\ todo' \in [Users -> Seq([call : Calls, timer : Timers])]
         /\ Busy'
  <1>1. todo[u] # <<>>
    BY DEF UserStep, Busy, Begins, Start, Add, Refuse, ReadCounter, WriteCounter,
           Enqueue, EnqueueFails, Undo, Answer, Stop, RemoveTimer, Clear, Destroy,
           Shutdown, Join
  <1>2. Return(u) \/ \E x \in Places : Goto(u, x)
    BY DEF UserStep, Places, Start, Add, Refuse, ReadCounter, WriteCounter,
           Enqueue, EnqueueFails, Undo, Answer, Stop, RemoveTimer, Clear, Destroy,
           Shutdown, Join
  <1>3. CASE Return(u)
    <2>1. at' \in [Users -> Places] /\ \A v \in Users \ {u} : at'[v] = at[v]
      BY <1>3 DEF Return, TypeOK, Places
    <2>2. todo' \in [Users -> Seq([call : Calls, timer : Timers])]
      BY <1>1, <1>3, CallDoes DEF Return, TypeOK
    <2>3. Busy'
      BY <1>3 DEF Return, TypeOK, Busy
    <2>4. QED
      BY <1>1, <1>2, <2>1, <2>2, <2>3
  <1>4. CASE \E x \in Places : Goto(u, x)
    BY <1>1, <1>2, <1>4 DEF Goto, TypeOK, Busy
  <1>5. QED
    BY <1>2, <1>3, <1>4

\* What CancelTimer may add to the cancelled ids and to the tasks it stops.
LEMMA CancelTypes ==
  ASSUME TypeOK, NEW t \in Timers, Cancel(t)
  PROVE  /\ cancelled_list' \subseteq 0..NoId
         /\ settled' \subseteq stopped' /\ stopped' \subseteq Tasks
  <1> DEFINE named == {k \in Born : timer_id[t] # 0 /\ task[k].tid = timer_id[t]}
             seated == {k \in named : Seated(k)}
  <1>1. /\ cancelled_list' = cancelled_list \cup {timer_id[t]}
        /\ stopped' = stopped \cup named \cup ({latest[t]} \ {0})
        /\ settled' = settled \cup seated
    BY DEF Cancel
  <1>2. /\ cancelled_list \subseteq 0..NoId /\ timer_id[t] \in 0..NoId
        /\ latest[t] \in Tasks \cup {0} /\ settled \subseteq stopped /\ stopped \subseteq Tasks
    BY DEF TypeOK
  <1>3. named \subseteq Tasks /\ seated \subseteq named
    BY DEF Born
  <1> HIDE DEF named, seated
  <1>4. QED
    BY ONLY <1>1, <1>2, <1>3

LEMMA UserTypes ==
  ASSUME TypeOK, Busy, MadeApart, NEW u \in Users, UserStep(u)
  PROVE  TypeOK'
  <1> USE WheelAssumption, TimersAssumption, UnsignedDoes
  <1>0. /\ Its(u) \in Timers
        /\ at' \in [Users -> Places]
        /\ todo' \in [Users -> Seq([call : Calls, timer : Timers])]
    BY UserMoves, CallDoes
  <1>1. 0 \in 0..NoId /\ NoId \in 0..NoId
    BY SMT
  <1> USE <1>0, <1>1 DEF wheelIdle, wheel, timerVars, threadVars, history
  <1>2. CASE Start(u)
    BY <1>2 DEF Start, TypeOK
  <1>3. CASE Add(u)
    BY <1>3 DEF Add, TypeOK
  <1>4. CASE Refuse(u)
    <2>1. timer_id' \in [Timers -> 0..NoId]
      BY <1>4 DEF Refuse, TypeOK
    <2>2. QED
      BY <1>4, <2>1 DEF Refuse, TypeOK
  <1>5. CASE ReadCounter(u)
    <2>1. PICK k \in Tasks \ Born :
            /\ task' = [task EXCEPT ![k] = [@ EXCEPT !.init_time = now,
                                                     !.interval = Period[Its(u)],
                                                     !.oneshot = Oneshot[Its(u)]]]
            /\ mine' = [mine EXCEPT ![u] = k]
            /\ latest' = [latest EXCEPT ![Its(u)] = k]
      BY <1>5 DEF ReadCounter
    <2>2. task' \in [Tasks -> TimerTask]
      <3>1. task[k] \in TimerTask /\ now \in Nat
        BY DEF TypeOK
      <3>2. [task[k] EXCEPT !.init_time = now, !.interval = Period[Its(u)],
                            !.oneshot = Oneshot[Its(u)]] \in TimerTask
        BY <3>1 DEF TimerTask
      <3>3. QED
        BY <2>1, <3>2 DEF TypeOK
    <2>3. QED
      BY <1>5, <2>1, <2>2 DEF ReadCounter, TypeOK
  <1>6. CASE WriteCounter(u)
    <2>1. id_counter' \in 0..NoId
      <3>1. seen[u] + 1 \in Int
        BY DEF TypeOK
      <3>2. QED
        BY <1>6, <3>1, UnsignedDoes, Zenon DEF WriteCounter
    <2>2. task' \in [Tasks -> TimerTask]
      <3>1. \A x \in TimerTask : [x EXCEPT !.tid = id_counter'] \in TimerTask
        BY <2>1 DEF TimerTask
      <3>2. task' = [task EXCEPT ![mine[u]] = [task[mine[u]] EXCEPT !.tid = id_counter']]
        BY <1>6 DEF WriteCounter
      <3>3. task \in [Tasks -> TimerTask] /\ mine[u] \in Tasks
        BY <1>6 DEF WriteCounter, TypeOK, MadeApart, Making, Born
      <3>4. QED
        BY <3>1, <3>2, <3>3, Zenon
    <2>3. QED
      BY <1>6, <2>1, <2>2 DEF WriteCounter, TypeOK
  <1>7. CASE Enqueue(u)
    <2>1. mine[u] \in Tasks
      BY <1>7 DEF Enqueue, MadeApart, Making, Born
    <2>2. add_queue' \in Seq(Tasks)
      BY <1>7, <2>1, AppendProperties DEF Enqueue, TypeOK
    <2>3. QED
      BY <1>7, <2>2 DEF Enqueue, TypeOK
  <1>8. CASE EnqueueFails(u)
    BY <1>8 DEF EnqueueFails, TypeOK
  <1>9. CASE Undo(u)
    <2>1. id_counter' \in 0..NoId
      <3>1. /\ id_counter \in 0..NoId
            /\ id_counter' = id_counter \/ id_counter' \in 0..NoId
        BY <1>9 DEF Undo, TypeOK
      <3>2. QED
        BY <3>1
    <2>2. timer_id' \in [Timers -> 0..NoId]
      BY <1>9 DEF Undo, TypeOK
    <2>3. QED
      BY <1>9, <2>1, <2>2 DEF Undo, TypeOK
  <1>10. CASE Answer(u)
    BY <1>10 DEF Answer, TypeOK
  <1>11. CASE Stop(u)
    BY <1>11 DEF Stop, TypeOK
  <1>12. CASE RemoveTimer(u)
    <2>1. /\ cancelled_list' \subseteq 0..NoId
          /\ settled' \subseteq stopped' /\ stopped' \subseteq Tasks
      BY <1>12, CancelTypes DEF RemoveTimer
    <2>2. QED
      BY <1>12, <2>1 DEF RemoveTimer, TypeOK
  <1>13. CASE Clear(u)
    <2>1. timer_id' \in [Timers -> 0..NoId]
      BY <1>13 DEF Clear, TypeOK
    <2>2. QED
      BY <1>13, <2>1 DEF Clear, TypeOK
  <1>14. CASE Destroy(u)
    <2>1. /\ cancelled_list' \subseteq 0..NoId
          /\ settled' \subseteq stopped' /\ stopped' \subseteq Tasks
      <3>1. CASE Cancel(Its(u))
        BY <3>1, CancelTypes
      <3>2. CASE UNCHANGED <<cancelled_list, stopped, settled>>
        BY <3>2 DEF TypeOK
      <3>3. QED
        BY <1>14, <3>1, <3>2 DEF Destroy
    <2>2. QED
      BY <1>14, <2>1 DEF Destroy, TypeOK
  <1>15. CASE Shutdown(u)
    BY <1>15 DEF Shutdown, TypeOK
  <1>16. CASE Join(u)
    BY <1>16 DEF Join, TypeOK
  <1>17. QED
    BY <1>2, <1>3, <1>4, <1>5, <1>6, <1>7, <1>8, <1>9, <1>10, <1>11, <1>12, <1>13,
       <1>14, <1>15, <1>16 DEF UserStep

-----------------------------------------------------------------------------
(* FillSlot *)

LEMMA TicksDoes ==
  ASSUME NEW x \in TimerTask
  PROVE  /\ Ticks(x) \in Nat /\ Ticks(x) <= NoId
         /\ TickDuration * Ticks(x) <= x.deadline
         /\ x.deadline < TickDuration * Ticks(x) + TickDuration
  <1> DEFINE d == x.deadline
             q == d \div TickDuration
  <1>1. d \in Nat /\ d <= NoId /\ NoId \in Nat /\ TickDuration \in Nat \ {0}
    BY UnsignedDoes, WheelAssumption DEF TimerTask
  <1>2. /\ q \in Int /\ d % TickDuration \in 0..(TickDuration - 1)
        /\ d = TickDuration * q + (d % TickDuration)
    <2>1. d \in Int
      BY <1>1
    <2> HIDE DEF d
    <2>2. QED
      BY <1>1, <2>1, Division
  <1>3. TickDuration * q <= d /\ d < TickDuration * q + TickDuration
    BY <1>1, <1>2, SMT
  <1> HIDE DEF q
  <1>4. q >= 0
    <2>1. q <= -1 => TickDuration * q <= -TickDuration
      BY <1>1, <1>2, SMT
    <2>2. QED
      BY <1>1, <1>2, <1>3, <2>1, SMT
  <1>5. q <= d
    <2>1. q <= TickDuration * q
      BY <1>1, <1>2, <1>4, SMT
    <2>2. QED
      BY <1>1, <1>2, <1>3, <2>1, SMT
  <1>6. QED
    BY <1>1, <1>2, <1>3, <1>4, <1>5, SMT DEF Ticks, q

\* Task x is in slot i, with the rounds that make it fire at its tick.
Exact(x, i, n) ==
  IF Ticks(x) < n
  THEN i = n % TIMING_WHEEL_SIZE /\ x.rest_rounds = 0
  ELSE /\ i = Ticks(x) % TIMING_WHEEL_SIZE
       /\ x.rest_rounds = (Ticks(x) - n) \div TIMING_WHEEL_SIZE

LEMMA TimedDoes ==
  ASSUME TypeOK, NEW x \in TimerTask, NEW n \in Nat
  PROVE  /\ Timed(x, n) \in TimerTask
         /\ Timed(x, n) = [x EXCEPT !.deadline = Timed(x, n).deadline,
                                    !.rest_rounds = Timed(x, n).rest_rounds]
         /\ Timed(x, n).deadline =
              Unsigned(Due(x) - start_time)
         /\ SlotOf(Timed(x, n), n) \in Slots
         /\ Exact(Timed(x, n), SlotOf(Timed(x, n), n), n)
  <1> DEFINE S == TIMING_WHEEL_SIZE
             d == Unsigned(Due(x) - start_time)
             t == d \div TickDuration
             r == IF t < n THEN 0 ELSE (t - n) \div S
  <1>1. S \in Nat \ {0} /\ NoId \in Nat
    BY UnsignedDoes, WheelAssumption
  <1>2. d \in 0..NoId
    <2>1. Due(x) - start_time \in Int
      BY DEF TypeOK, TimerTask, Due
    <2>2. QED
      BY <2>1, UnsignedDoes
  <1>3. t \in Nat /\ t <= NoId
    <2>1. [x EXCEPT !.deadline = d] \in TimerTask
      BY <1>2 DEF TimerTask
    <2>2. [x EXCEPT !.deadline = d].deadline = d
      BY DEF TimerTask
    <2>3. QED
      BY <2>1, <2>2, TicksDoes DEF Ticks
  <1>4. Timed(x, n) = [x EXCEPT !.deadline = d, !.rest_rounds = r]
    BY DEF Timed
  <1> HIDE DEF d, t
  <1>5. r \in 0..NoId
    <2>1. CASE t < n
      BY <1>1, <2>1, SMT
    <2>2. CASE t >= n
      <3> DEFINE a == t - n
                 q == a \div S
                 m == a % S
      <3>1. a \in Nat /\ a <= NoId
        BY <1>1, <1>3, <2>2, SMT
      <3>2. q \in Int /\ m \in 0..(S - 1) /\ a = S * q + m
        <4>1. a \in Int
          BY <3>1
        <4> HIDE DEF a
        <4>2. QED
          BY <1>1, <4>1, Division
      <3> HIDE DEF a, q, m
      <3>3. q >= 0
        <4>1. q <= -1 => S * q <= -S
          BY <1>1, <3>2, SMT
        <4>2. QED
          BY <1>1, <3>1, <3>2, <4>1, SMT
      <3>4. q <= S * q
        BY <1>1, <3>2, <3>3, SMT
      <3>5. q \in 0..NoId
        BY <1>1, <3>1, <3>2, <3>3, <3>4, SMT
      <3>6. ~(t < n)
        BY <1>3, <2>2, SMT
      <3>7. QED
        BY <3>5, <3>6 DEF q, a
    <2>3. QED
      BY <1>3, <2>1, <2>2, SMT
  <1> HIDE DEF r
  <1>6. /\ Timed(x, n) \in TimerTask
        /\ Timed(x, n).deadline = d /\ Timed(x, n).rest_rounds = r
    BY <1>2, <1>4, <1>5 DEF TimerTask
  <1>7. Ticks(Timed(x, n)) = t
    BY <1>6 DEF Ticks, t
  <1>8. SlotOf(Timed(x, n), n) = (IF t < n THEN n ELSE t) % S
    BY <1>7 DEF SlotOf
  <1>9. SlotOf(Timed(x, n), n) \in Slots
    <2>1. (IF t < n THEN n ELSE t) \in Int
      BY <1>3
    <2>2. QED
      BY <1>1, <1>8, <2>1, Division DEF Slots
  <1>10. Exact(Timed(x, n), SlotOf(Timed(x, n), n), n)
    BY <1>6, <1>7, <1>8 DEF Exact, r
  <1>11. QED
    BY <1>4, <1>6, <1>9, <1>10 DEF d

\* What FillSlot for all of a queue leaves in the slots.
LEMMA FillSlotsDoes ==
  ASSUME NEW q \in Seq(Tasks), NEW sl \in [Slots -> SUBSET Tasks],
         NEW tasks \in [Tasks -> TimerTask], NEW n \in Nat
  PROVE  /\ FillSlots(q, sl, tasks, n) \in [Slots -> SUBSET Tasks]
         /\ \A i \in Slots : sl[i] \subseteq FillSlots(q, sl, tasks, n)[i]
         /\ \A i \in Slots : \A k \in FillSlots(q, sl, tasks, n)[i] :
              k \in sl[i] \/ (Contains(q, k) /\ i = SlotOf(tasks[k], n))
         /\ /\ \A a, b \in 1..Len(q) : tasks[q[a]].tid = tasks[q[b]].tid => a = b
            /\ \A a \in 1..Len(q), i \in Slots : \A j \in sl[i] :
                 tasks[j].tid # tasks[q[a]].tid
            => \A k \in Tasks, i \in Slots : Contains(q, k) /\ i = SlotOf(tasks[k], n)
                     => k \in FillSlots(q, sl, tasks, n)[i]
  <1>1. \A a \in 1..Len(q) : q[a] \in Tasks
    OBVIOUS
  <1>2. FillSlots(q, sl, tasks, n) \in [Slots -> SUBSET Tasks]
    BY <1>1 DEF FillSlots
  <1>3. \A i \in Slots : sl[i] \subseteq FillSlots(q, sl, tasks, n)[i]
    BY DEF FillSlots
  <1>4. \A i \in Slots : \A k \in FillSlots(q, sl, tasks, n)[i] :
          k \in sl[i] \/ (Contains(q, k) /\ i = SlotOf(tasks[k], n))
    <2> SUFFICES ASSUME NEW i \in Slots, NEW k \in FillSlots(q, sl, tasks, n)[i]
                 PROVE  k \in sl[i] \/ (Contains(q, k) /\ i = SlotOf(tasks[k], n))
      OBVIOUS
    <2>1. k \in sl[i] \/ \E a \in 1..Len(q) : k = q[a] /\ SlotOf(tasks[q[a]], n) = i
      BY DEF FillSlots
    <2>2. CASE \E a \in 1..Len(q) : k = q[a] /\ SlotOf(tasks[q[a]], n) = i
      <3>1. PICK a \in 1..Len(q) : k = q[a] /\ SlotOf(tasks[q[a]], n) = i
        BY <2>2
      <3>2. Contains(q, k)
        BY <3>1 DEF Contains
      <3>3. QED
        BY <3>1, <3>2
    <2>3. QED
      BY <2>1, <2>2
  <1>5. ASSUME \A a, b \in 1..Len(q) : tasks[q[a]].tid = tasks[q[b]].tid => a = b,
               \A a \in 1..Len(q), h \in Slots : \A j \in sl[h] :
                 tasks[j].tid # tasks[q[a]].tid,
               NEW k \in Tasks, NEW i \in Slots, Contains(q, k), i = SlotOf(tasks[k], n)
        PROVE  k \in FillSlots(q, sl, tasks, n)[i]
    <2>1. PICK a \in 1..Len(q) : q[a] = k
      BY <1>5 DEF Contains
    <2>2. \A b \in 1..(a - 1) : b \in 1..Len(q) /\ b # a
      BY <2>1
    <2>3. QED
      BY <1>5, <2>1, <2>2 DEF FillSlots, SameId
  <1>6. QED
    BY <1>2, <1>3, <1>4, <1>5

\* FillAddSlot seats the head of the add queue.
LEMMA FillAddDoes ==
  ASSUME TypeOK, FillAddSlot
  PROVE  LET k == Head(add_queue) IN
         /\ k \in Tasks
         /\ add_queue' = Tail(add_queue) /\ add_queue' \in Seq(Tasks)
         /\ task' = [task EXCEPT ![k] = Timed(task[k], tick)]
         /\ task' \in [Tasks -> TimerTask]
         /\ slots' \in [Slots -> SUBSET Tasks]
         /\ \A i \in Slots : slots[i] \subseteq slots'[i]
         /\ \A i \in Slots : \A j \in slots'[i] :
              j \in slots[i] \/ (j = k /\ i = SlotOf(Timed(task[k], tick), tick))
         /\ (\A i \in Slots : \A j \in slots[i] : task'[j].tid # task[k].tid)
              => k \in slots'[SlotOf(Timed(task[k], tick), tick)]
  <1> DEFINE k == Head(add_queue)
             q == <<k>>
  <1>1. add_queue \in Seq(Tasks) /\ add_queue # <<>> /\ tick \in Nat
        /\ task \in [Tasks -> TimerTask] /\ slots \in [Slots -> SUBSET Tasks]
    BY DEF TypeOK, FillAddSlot
  <1>2. k \in Tasks /\ Tail(add_queue) \in Seq(Tasks)
    BY <1>1, HeadTailProperties
  <1> HIDE DEF k
  <1>3. add_queue' = Tail(add_queue) /\ task' = Filled(q, task, tick)
        /\ slots' = FillSlots(q, slots, task', tick)
    BY DEF FillAddSlot, k
  <1>4. q \in Seq(Tasks) /\ Len(q) = 1 /\ q[1] = k
    BY <1>2
  <1>5. \A j : Contains(q, j) <=> j = k
    BY <1>4 DEF Contains
  <1>6. task' = [task EXCEPT ![k] = Timed(task[k], tick)]
    BY <1>1, <1>2, <1>3, <1>5 DEF Filled
  <1>7. Timed(task[k], tick) \in TimerTask /\ task' \in [Tasks -> TimerTask]
        /\ Timed(task[k], tick).tid = task[k].tid /\ task'[k] = Timed(task[k], tick)
    <2>1. task[k] \in TimerTask
      BY <1>1, <1>2
    <2>2. /\ Timed(task[k], tick) \in TimerTask
          /\ Timed(task[k], tick) = [task[k] EXCEPT !.deadline = Timed(task[k], tick).deadline,
                                       !.rest_rounds = Timed(task[k], tick).rest_rounds]
      BY <1>1, <2>1, TimedDoes
    <2>3. QED
      BY <1>1, <1>2, <1>6, <2>1, <2>2 DEF TimerTask
  <1> HIDE DEF q
  <1>8. /\ slots' \in [Slots -> SUBSET Tasks]
        /\ \A i \in Slots : slots[i] \subseteq slots'[i]
        /\ \A i \in Slots : \A j \in slots'[i] :
             j \in slots[i] \/ (Contains(q, j) /\ i = SlotOf(task'[j], tick))
    <2>1. /\ FillSlots(q, slots, task', tick) \in [Slots -> SUBSET Tasks]
          /\ \A i \in Slots : slots[i] \subseteq FillSlots(q, slots, task', tick)[i]
          /\ \A i \in Slots : \A j \in FillSlots(q, slots, task', tick)[i] :
               j \in slots[i] \/ (Contains(q, j) /\ i = SlotOf(task'[j], tick))
      BY <1>1, <1>4, <1>7, FillSlotsDoes
    <2>2. QED
      BY <1>3, <2>1
  <1>9. \A i \in Slots : \A j \in slots'[i] :
          j \in slots[i] \/ (j = k /\ i = SlotOf(Timed(task[k], tick), tick))
    BY <1>5, <1>7, <1>8
  <1>10. ASSUME \A i \in Slots : \A j \in slots[i] : task'[j].tid # task[k].tid
         PROVE  k \in slots'[SlotOf(Timed(task[k], tick), tick)]
    <2>1. /\ \A a, b \in 1..Len(q) : task'[q[a]].tid = task'[q[b]].tid => a = b
          /\ \A a \in 1..Len(q), i \in Slots : \A j \in slots[i] :
               task'[j].tid # task'[q[a]].tid
      BY <1>4, <1>7, <1>10
    <2>2. SlotOf(Timed(task[k], tick), tick) \in Slots
      BY <1>1, <1>2, TimedDoes
    <2>3. \A j \in Tasks, i \in Slots :
            Contains(q, j) /\ i = SlotOf(task'[j], tick) => j \in slots'[i]
      <3>1. \A j \in Tasks, i \in Slots : Contains(q, j) /\ i = SlotOf(task'[j], tick)
              => j \in FillSlots(q, slots, task', tick)[i]
        BY <1>1, <1>4, <1>7, <2>1, FillSlotsDoes
      <3>2. QED
        BY <1>3, <3>1
    <2>4. QED
      BY <1>2, <1>5, <1>7, <2>2, <2>3
  <1>11. QED
    BY <1>2, <1>3, <1>6, <1>7, <1>8, <1>9, <1>10 DEF k

-----------------------------------------------------------------------------
(* EnumTaskList *)

Hand == tick % TIMING_WHEEL_SIZE
Firing == {k \in slots[Hand] : Expired(k) /\ task[k].rest_rounds = 0}
Fired(x) == [x EXCEPT !.fire_count = @ + 1]
Periodic(k) == ~task[k].oneshot

\* The hand meets tasks at their tick, or with a round to go.
LEMMA Meets ==
  ASSUME TypeOK, RoundsExact
  PROVE  /\ Hand \in Slots
         /\ \A k \in slots[Hand] :
              \/ /\ k \in Firing /\ Expired(k) /\ Ticks(task[k]) <= tick
                 /\ task[k].deadline < TickDuration * tick + TickDuration
              \/ /\ k \notin Firing /\ ~Expired(k) /\ Ticks(task[k]) > tick
                 /\ task[k].rest_rounds # 0
  <1> USE WheelAssumption
  <1>1. tick \in Nat /\ slots \in [Slots -> SUBSET Tasks] /\ task \in [Tasks -> TimerTask]
    BY DEF TypeOK
  <1>2. Hand \in Slots
    <2>1. tick \in Int /\ TIMING_WHEEL_SIZE \in Nat \ {0}
      BY <1>1
    <2>2. Hand \in 0..(TIMING_WHEEL_SIZE - 1)
      BY <2>1, Division DEF Hand
    <2>3. QED
      BY <2>2 DEF Slots
  <1>3. ASSUME NEW k \in slots[Hand]
        PROVE  \/ /\ k \in Firing /\ Expired(k) /\ Ticks(task[k]) <= tick
                  /\ task[k].deadline < TickDuration * tick + TickDuration
               \/ /\ k \notin Firing /\ ~Expired(k) /\ Ticks(task[k]) > tick
                  /\ task[k].rest_rounds # 0
    <2> DEFINE t == Ticks(task[k])
    <2>1. task[k] \in TimerTask
      BY <1>1, <1>2
    <2>2. /\ t \in Nat /\ TickDuration * t <= task[k].deadline
          /\ task[k].deadline < TickDuration * t + TickDuration
          /\ task[k].deadline \in Nat
      BY <2>1, TicksDoes, UnsignedDoes DEF TimerTask
    <2>3. IF t < tick THEN task[k].rest_rounds = 0
          ELSE /\ Hand = t % TIMING_WHEEL_SIZE
               /\ task[k].rest_rounds = (t - tick) \div TIMING_WHEEL_SIZE
      BY <1>2 DEF RoundsExact, Hand
    <2>4. Expired(k) <=> task[k].deadline <= TickDuration * tick + TickDuration
      BY <1>1, <2>2 DEF Expired
    <2> HIDE DEF t
    <2>5. CASE t < tick
      <3>1. TickDuration * t <= TickDuration * tick
        BY <1>1, <2>2, <2>5, SMT
      <3>2. task[k].deadline < TickDuration * tick + TickDuration
        BY <1>1, <2>2, <3>1, SMT
      <3>3. Expired(k) /\ task[k].rest_rounds = 0
        BY <1>1, <2>2, <2>3, <2>4, <2>5, <3>2, SMT
      <3>4. QED
        BY <1>1, <2>2, <2>5, <3>2, <3>3 DEF Firing, t
    <2>6. CASE t = tick
      <3>1. TIMING_WHEEL_SIZE * 0 + 0 = t - tick
        BY <1>1, <2>6, SMT
      <3>2. (t - tick) \div TIMING_WHEEL_SIZE = 0
        BY <3>1, Quotient, SMT
      <3>3. task[k].deadline < TickDuration * tick + TickDuration
        BY <2>2, <2>6
      <3>4. Expired(k) /\ task[k].rest_rounds = 0
        BY <1>1, <2>2, <2>3, <2>4, <2>6, <3>2, <3>3, SMT
      <3>5. QED
        BY <1>1, <2>2, <2>6, <3>3, <3>4 DEF Firing, t
    <2>7. CASE t > tick
      <3>1. /\ t % TIMING_WHEEL_SIZE = tick % TIMING_WHEEL_SIZE
            /\ task[k].rest_rounds = (t - tick) \div TIMING_WHEEL_SIZE
        BY <1>1, <2>2, <2>3, <2>7 DEF Hand
      <3>2. task[k].rest_rounds # 0
        <4>1. (t - tick) \div TIMING_WHEEL_SIZE \in Nat \ {0}
          BY <1>1, <2>2, <2>7, <3>1, Turn
        <4>2. QED
          BY <3>1, <4>1
      <3>3. t # tick + 1
        BY <1>1, <3>1, NextSlot
      <3>4. TickDuration * t > TickDuration * tick + TickDuration
        <4>1. t >= tick + 2
          BY <1>1, <2>2, <2>7, <3>3, SMT
        <4>2. TickDuration * t >= TickDuration * (tick + 2)
          BY <1>1, <2>2, <4>1, SMT
        <4>3. QED
          BY <1>1, <2>2, <4>2, SMT
      <3>5. ~Expired(k)
        BY <1>1, <2>2, <2>4, <3>4, SMT
      <3>6. QED
        BY <2>7, <3>2, <3>5 DEF Firing, t
    <2>8. QED
      BY <1>1, <2>2, <2>5, <2>6, <2>7, SMT
  <1>4. QED
    BY <1>2, <1>3

\* The sequences of SetToSeqs(S) have each element once, and Taken keeps all
\* of them if the queue has room.
LEMMA Listed ==
  ASSUME NEW S \in SUBSET Tasks, NEW q \in SetToSeqs(S)
  PROVE  /\ q \in Seq(Tasks) /\ Len(q) = Cardinality(S)
         /\ \A k : Contains(q, k) <=> k \in S
         /\ \A i, j \in 1..Len(q) : q[i] = q[j] => i = j
  <1> DEFINE n == Cardinality(S)
  <1>1. IsFiniteSet(S) /\ n \in Nat
    <2>1. IsFiniteSet(Tasks)
      BY WheelAssumption, FS_Interval DEF Tasks
    <2>2. QED
      BY <2>1, FS_Subset, FS_CardinalityType
  <1>2. q \in [1..n -> S] /\ \A i, j \in 1..n : i # j => q[i] # q[j]
    BY DEF SetToSeqs
  <1>3. IsFiniteSet(1..n) /\ Cardinality(1..n) = n
    <2>1. Cardinality(1..n) = (IF 1 > n THEN 0 ELSE n - 1 + 1) /\ IsFiniteSet(1..n)
      BY <1>1, FS_Interval
    <2>2. QED
      BY <1>1, <2>1
  <1> HIDE DEF n
  <1>4. q \in Injection(1..n, S)
    BY <1>2 DEF Injection, IsInjective
  <1>5. q \in Surjection(1..n, S)
    BY <1>1, <1>3, <1>4, FS_Injection DEF n
  <1>6. q \in Seq(S) /\ Len(q) = n
    BY <1>1, <1>2
  <1>7. q \in Seq(Tasks)
    BY <1>6
  <1>8. \A k : Contains(q, k) <=> k \in S
    BY <1>2, <1>5, <1>6 DEF Contains, Surjection
  <1>9. QED
    BY <1>2, <1>6, <1>7, <1>8 DEF n

LEMMA TakenDoes ==
  ASSUME NEW q \in Seq(Tasks)
  PROVE  /\ Taken(q) \in Seq(Tasks) /\ Len(Taken(q)) <= Len(q)
         /\ \A i \in 1..Len(Taken(q)) : i \in 1..Len(q) /\ Taken(q)[i] = q[i]
         /\ Len(q) <= BOUNDED_QUEUE_SIZE => Taken(q) = q
         /\ Taken(q) = q => Len(q) <= BOUNDED_QUEUE_SIZE
  <1> DEFINE m == IF Len(q) < BOUNDED_QUEUE_SIZE THEN Len(q) ELSE BOUNDED_QUEUE_SIZE
  <1>1. m \in 0..Len(q) /\ BOUNDED_QUEUE_SIZE \in Nat /\ Len(q) \in Nat
    BY WheelAssumption
  <1>2. Taken(q) = SubSeq(q, 1, m)
    BY DEF Taken
  <1>3. m <= BOUNDED_QUEUE_SIZE /\ (Len(q) <= BOUNDED_QUEUE_SIZE => m = Len(q))
    BY <1>1
  <1> HIDE DEF m
  <1>4. Taken(q) \in Seq(Tasks) /\ Len(Taken(q)) = m
    BY <1>1, <1>2
  <1>5. \A i \in 1..m : i \in 1..Len(q) /\ Taken(q)[i] = q[i]
    BY <1>1, <1>2
  <1>6. Len(q) <= BOUNDED_QUEUE_SIZE => Taken(q) = q
    BY <1>1, <1>3, <1>4, <1>5
  <1>7. QED
    BY <1>1, <1>3, <1>4, <1>5, <1>6

\* A step of the hand: the handlers given to Async, and the timers seated again.
EnumDoes(handlers, repeats) ==
  /\ handlers \subseteq Firing /\ repeats \subseteq {k \in Firing : Periodic(k)}
  /\ task' = [k \in Tasks |->
       IF k \in repeats THEN Timed(Fired(task[k]), tick + 1)
       ELSE IF k \in Firing /\ Periodic(k) THEN Fired(task[k])
       ELSE IF k \in slots[Hand] \ Firing
         THEN [task[k] EXCEPT !.rest_rounds = Unsigned(@ - 1)]
       ELSE task[k]]
  /\ task' \in [Tasks -> TimerTask]
  /\ \A k \in Tasks : task'[k].tid = task[k].tid
  /\ handed' = [k \in Tasks |-> IF k \in handlers THEN handed[k] + 1 ELSE handed[k]]
  /\ slots' \in [Slots -> SUBSET Tasks]
  /\ \A i \in Slots : \A k \in slots'[i] :
       \/ k \in slots[i] /\ (i = Hand => k \notin Firing)
       \/ k \in repeats /\ i = SlotOf(task'[k], tick + 1)
  /\ \A i \in Slots : \A k \in slots[i] : (i = Hand => k \notin Firing) => k \in slots'[i]
  /\ overrun => overrun'
  /\ ~overrun' => handlers = Firing /\ repeats = {k \in Firing : Periodic(k)}
  /\ (\A i, h \in Slots : \A j \in slots[i], k \in slots[h] :
        task[j].tid = task[k].tid => j = k /\ i = h)
       => \A k \in repeats : k \in slots'[SlotOf(task'[k], tick + 1)]

LEMMA Enumerated ==
  ASSUME TypeOK, RoundsExact, EnumTaskList
  PROVE  \E handlers, repeats \in SUBSET Tasks : EnumDoes(handlers, repeats)
  <1> DEFINE P == {k \in Firing : Periodic(k)}
             counted == [k \in Tasks |->
                IF k \in Firing /\ Periodic(k) THEN Fired(task[k])
                ELSE IF k \in slots[Hand] \ Firing
                  THEN [task[k] EXCEPT !.rest_rounds = Unsigned(@ - 1)]
                ELSE task[k]]
             emptied == [slots EXCEPT ![Hand] = @ \ Firing]
  <1>1. /\ tick \in Nat /\ slots \in [Slots -> SUBSET Tasks]
        /\ task \in [Tasks -> TimerTask] /\ Hand \in Slots
        /\ P \subseteq Firing /\ Firing \subseteq slots[Hand] /\ Firing \in SUBSET Tasks
        /\ P \in SUBSET Tasks
    BY Meets DEF TypeOK, Firing
  <1>2. PICK order \in SetToSeqs(Firing), again \in SetToSeqs(P) :
          /\ task' = Filled(Taken(again), counted, tick + 1)
          /\ slots' = FillSlots(Taken(again), emptied, task', tick + 1)
          /\ handed' = [k \in Tasks |-> IF Contains(Taken(order), k) THEN handed[k] + 1
                                                                     ELSE handed[k]]
          /\ overrun' = (overrun \/ Taken(order) # order)
    <2>1. /\ {k \in slots[Hand] : ~Expired(k)} = slots[Hand] \ Firing
          /\ {k \in Firing : ~task[k].oneshot} = P
      BY Meets DEF Periodic
    <2>2. counted = [k \in Tasks |->
                CASE k \in slots[Hand] \ Firing ->
                       [task[k] EXCEPT !.rest_rounds = Unsigned(@ - 1)]
                  [] k \in Firing /\ ~task[k].oneshot ->
                       [task[k] EXCEPT !.fire_count = @ + 1]
                  [] OTHER -> task[k]]
      BY DEF Fired, Periodic
    <2> HIDE DEF counted, P
    <2>3. QED
      BY <2>1, <2>2 DEF EnumTaskList, Hand, Firing
  <1>3. /\ \A k : Contains(order, k) <=> k \in Firing
        /\ \A k : Contains(again, k) <=> k \in P
        /\ \A a, b \in 1..Len(again) : again[a] = again[b] => a = b
        /\ order \in Seq(Tasks) /\ again \in Seq(Tasks)
        /\ Len(order) = Cardinality(Firing) /\ Len(again) = Cardinality(P)
    BY <1>1, Listed
  <1> DEFINE handed_on == Taken(order)
             repeated == Taken(again)
             handlers == {k \in Tasks : Contains(handed_on, k)}
             repeats == {k \in Tasks : Contains(repeated, k)}
  <1>4. /\ repeated \in Seq(Tasks)
        /\ \A a \in 1..Len(repeated) : a \in 1..Len(again) /\ repeated[a] = again[a]
        /\ \A a \in 1..Len(handed_on) : a \in 1..Len(order) /\ handed_on[a] = order[a]
    BY <1>3, TakenDoes
  <1>5. /\ handlers \subseteq Firing /\ repeats \subseteq P
        /\ \A k : Contains(handed_on, k) <=> k \in handlers
        /\ \A k : Contains(repeated, k) <=> k \in repeats
    <2>1. \A k : Contains(handed_on, k) => k \in Firing
      BY <1>3, <1>4 DEF Contains
    <2>2. \A k : Contains(repeated, k) => k \in P
      BY <1>3, <1>4 DEF Contains
    <2>3. QED
      BY <1>1, <2>1, <2>2
  <1>6. ~overrun' => handlers = Firing /\ repeats = P
    <2>1. SUFFICES ASSUME ~overrun'
                   PROVE  handlers = Firing /\ repeats = P
      OBVIOUS
    <2>2. handed_on = order /\ Len(order) <= BOUNDED_QUEUE_SIZE
      BY <1>2, <1>3, <2>1, TakenDoes
    <2>3. Len(again) <= Len(order)
      <3>1. IsFiniteSet(Tasks)
        BY WheelAssumption, FS_Interval DEF Tasks
      <3>2. IsFiniteSet(Firing)
        BY <1>1, <3>1, FS_Subset
      <3>3. Cardinality(P) <= Cardinality(Firing)
        BY <1>1, <3>2, FS_Subset
      <3>4. QED
        BY <1>3, <3>3
    <2>4. repeated = again
      <3>1. Len(again) <= BOUNDED_QUEUE_SIZE
        BY <1>3, <2>2, <2>3, WheelAssumption
      <3>2. QED
        BY <1>3, <3>1, TakenDoes
    <2>5. QED
      BY <1>1, <1>3, <2>2, <2>4
  <1> DEFINE Next1(k) == Timed(Fired(task[k]), tick + 1)
  <1>7. ASSUME NEW k \in Tasks
        PROVE  /\ Fired(task[k]) \in TimerTask /\ Fired(task[k]).tid = task[k].tid
               /\ Next1(k) \in TimerTask /\ Next1(k).tid = task[k].tid
    <2>1. task[k] \in TimerTask /\ tick + 1 \in Nat
      BY <1>1, <1>7
    <2>2. Fired(task[k]) \in TimerTask /\ Fired(task[k]).tid = task[k].tid
      BY <2>1 DEF Fired, TimerTask
    <2>3. /\ Next1(k) \in TimerTask
          /\ Next1(k) = [Fired(task[k]) EXCEPT !.deadline = Next1(k).deadline,
                                              !.rest_rounds = Next1(k).rest_rounds]
      BY <2>1, <2>2, TimedDoes
    <2> HIDE DEF Next1
    <2>4. QED
      BY <2>2, <2>3 DEF TimerTask
  <1>8. task' = [k \in Tasks |->
          IF k \in repeats THEN Next1(k)
          ELSE IF k \in Firing /\ Periodic(k) THEN Fired(task[k])
          ELSE IF k \in slots[Hand] \ Firing
            THEN [task[k] EXCEPT !.rest_rounds = Unsigned(@ - 1)]
          ELSE task[k]]
    <2>1. task' = [k \in Tasks |-> IF k \in repeats THEN Timed(counted[k], tick + 1)
                                                    ELSE counted[k]]
      BY <1>2, <1>5 DEF Filled
    <2>2. \A k \in repeats : counted[k] = Fired(task[k])
      BY <1>5 DEF P
    <2> HIDE DEF repeats
    <2>3. QED
      BY <2>1, <2>2
  <1> HIDE DEF Next1
  <1>9. \A k \in Tasks : task'[k] \in TimerTask /\ task'[k].tid = task[k].tid
    <2>1. SUFFICES ASSUME NEW k \in Tasks
                   PROVE  task'[k] \in TimerTask /\ task'[k].tid = task[k].tid
      OBVIOUS
    <2>2. task[k] \in TimerTask
      BY <1>1
    <2> DEFINE x == [task[k] EXCEPT !.rest_rounds = Unsigned(@ - 1)]
    <2>3. x \in TimerTask /\ x.tid = task[k].tid
      <3>1. task[k].rest_rounds - 1 \in Int
        BY <2>2, UnsignedDoes DEF TimerTask
      <3>2. Unsigned(task[k].rest_rounds - 1) \in 0..NoId
        BY <3>1, UnsignedDoes
      <3>3. QED
        BY <2>2, <3>2 DEF TimerTask
    <2> HIDE DEF repeats, x
    <2>4. \/ task'[k] = Next1(k) \/ task'[k] = Fired(task[k])
          \/ task'[k] = x \/ task'[k] = task[k]
      BY <1>8 DEF x
    <2>5. QED
      BY <1>7, <2>2, <2>3, <2>4
  <1>10. task' \in [Tasks -> TimerTask]
    BY <1>8, <1>9
  <1>11. emptied \in [Slots -> SUBSET Tasks] /\ tick + 1 \in Nat
    BY <1>1
  <1> HIDE DEF handed_on, repeated, emptied
  <1>12. /\ FillSlots(repeated, emptied, task', tick + 1) \in [Slots -> SUBSET Tasks]
         /\ \A i \in Slots :
              emptied[i] \subseteq FillSlots(repeated, emptied, task', tick + 1)[i]
         /\ \A i \in Slots : \A k \in FillSlots(repeated, emptied, task', tick + 1)[i] :
              k \in emptied[i] \/ (Contains(repeated, k) /\ i = SlotOf(task'[k], tick + 1))
    BY <1>4, <1>10, <1>11, FillSlotsDoes
  <1>13. slots' = FillSlots(repeated, emptied, task', tick + 1)
    BY <1>2 DEF repeated, emptied
  <1>14. \A i \in Slots, k \in Tasks :
           k \in emptied[i] <=> k \in slots[i] /\ (i = Hand => k \notin Firing)
    BY <1>1 DEF emptied
  <1>15. ASSUME \A i, h \in Slots : \A j \in slots[i], k \in slots[h] :
                  task[j].tid = task[k].tid => j = k /\ i = h,
                NEW k \in repeats
         PROVE  k \in slots'[SlotOf(task'[k], tick + 1)]
    <2>1. \A a \in 1..Len(repeated) : repeated[a] \in Firing /\ repeated[a] \in slots[Hand]
      BY <1>1, <1>5 DEF Contains
    <2>2. \A a, b \in 1..Len(repeated) :
            task'[repeated[a]].tid = task'[repeated[b]].tid => a = b
      <3>1. SUFFICES ASSUME NEW a \in 1..Len(repeated), NEW b \in 1..Len(repeated),
                            task'[repeated[a]].tid = task'[repeated[b]].tid
                     PROVE  a = b
        OBVIOUS
      <3>2. PICK d, e \in Tasks : d = repeated[a] /\ e = repeated[b]
        BY <1>4
      <3>3. d \in slots[Hand] /\ e \in slots[Hand] /\ Hand \in Slots
        BY <1>1, <2>1, <3>2
      <3>4. task[d].tid = task[e].tid
        BY <1>9, <3>1, <3>2
      <3>5. d = e
        BY <1>15, <3>3, <3>4
      <3>6. a \in 1..Len(again) /\ b \in 1..Len(again) /\ again[a] = again[b]
        BY <1>4, <3>2, <3>5
      <3>7. QED
        BY ONLY <1>3, <3>6
    <2>3. \A a \in 1..Len(repeated), i \in Slots : \A j \in emptied[i] :
            task'[j].tid # task'[repeated[a]].tid
      <3>1. SUFFICES ASSUME NEW a \in 1..Len(repeated), NEW i \in Slots,
                            NEW j \in emptied[i],
                            task'[j].tid = task'[repeated[a]].tid
                     PROVE  FALSE
        OBVIOUS
      <3>2. j \in Tasks /\ j \in slots[i] /\ (i = Hand => j \notin Firing)
        BY <1>11, <1>14, <3>1
      <3>3. j = repeated[a] /\ i = Hand
        BY <1>1, <1>9, <1>15, <2>1, <3>1, <3>2
      <3>4. QED
        BY <2>1, <3>2, <3>3
    <2>4. SlotOf(task'[k], tick + 1) \in Slots
      <3>1. k \in Tasks /\ task'[k] = Next1(k)
        BY <1>8, <1>15
      <3>2. QED
        BY <1>7, <1>11, <3>1, TimedDoes DEF Next1
    <2>5. \A j \in Tasks, i \in Slots : Contains(repeated, j) /\ i = SlotOf(task'[j], tick + 1)
            => j \in FillSlots(repeated, emptied, task', tick + 1)[i]
      BY <1>4, <1>10, <1>11, <2>2, <2>3, FillSlotsDoes
    <2>6. k \in Tasks /\ Contains(repeated, k)
      BY <1>5, <1>15
    <2>7. QED
      BY <1>13, <2>4, <2>5, <2>6
  <1>16. handed' = [k \in Tasks |-> IF k \in handlers THEN handed[k] + 1 ELSE handed[k]]
    BY <1>2, <1>5 DEF handed_on
  <1>17. overrun => overrun'
    BY <1>2
  <1>18. /\ \A i \in Slots : \A k \in slots'[i] :
              \/ k \in slots[i] /\ (i = Hand => k \notin Firing)
              \/ k \in repeats /\ i = SlotOf(task'[k], tick + 1)
         /\ \A i \in Slots : \A k \in slots[i] :
              (i = Hand => k \notin Firing) => k \in slots'[i]
         /\ slots' \in [Slots -> SUBSET Tasks]
    BY <1>1, <1>5, <1>12, <1>13, <1>14
  <1>19. handlers \in SUBSET Tasks /\ repeats \in SUBSET Tasks
    OBVIOUS
  <1> HIDE DEF handlers, repeats
  <1>20. EnumDoes(handlers, repeats)
    BY <1>5, <1>6, <1>8, <1>9, <1>10, <1>15, <1>16, <1>17, <1>18 DEF EnumDoes, P, Next1
  <1>21. QED
    BY <1>19, <1>20

LEMMA EnumTasks ==
  ASSUME TypeOK, RoundsExact, NEW handlers, NEW repeats, EnumDoes(handlers, repeats),
         NEW k \in Tasks
  PROVE  /\ task'[k].interval = task[k].interval /\ task'[k].init_time = task[k].init_time
         /\ task'[k].oneshot = task[k].oneshot
         /\ \/ task'[k].fire_count = task[k].fire_count
            \/ task'[k].fire_count = task[k].fire_count + 1 /\ k \in Firing
         /\ k \in repeats => /\ task'[k].deadline = Unsigned(Due(task'[k]) - start_time)
                             /\ Exact(task'[k], SlotOf(task'[k], tick + 1), tick + 1)
         /\ k \notin Firing => /\ task'[k].deadline = task[k].deadline
                               /\ Due(task'[k]) = Due(task[k])
  <1> DEFINE y == Fired(task[k])
             n == tick + 1
  <1>1. /\ task[k] \in TimerTask /\ y \in TimerTask /\ n \in Nat
        /\ y = [task[k] EXCEPT !.fire_count = task[k].fire_count + 1]
    <2>1. task[k] \in TimerTask /\ tick \in Nat
      BY DEF TypeOK
    <2>2. QED
      BY <2>1 DEF Fired, TimerTask
  <1> HIDE DEF y, n
  <1>2. /\ Timed(y, n) = [y EXCEPT !.deadline = Timed(y, n).deadline,
                                   !.rest_rounds = Timed(y, n).rest_rounds]
        /\ Timed(y, n).deadline = Unsigned(Due(y) - start_time)
        /\ Exact(Timed(y, n), SlotOf(Timed(y, n), n), n)
    BY <1>1, TimedDoes
  <1>3. CASE k \in repeats
    <2>1. task'[k] = Timed(y, n) /\ k \in Firing
      BY <1>3 DEF EnumDoes, y, n
    <2>2. /\ task'[k].interval = y.interval /\ task'[k].init_time = y.init_time
          /\ task'[k].fire_count = y.fire_count /\ task'[k].oneshot = y.oneshot
      <3> DEFINE z == Timed(y, n)
      <3>1. /\ z = [y EXCEPT !.deadline = z.deadline, !.rest_rounds = z.rest_rounds]
            /\ y \in TimerTask /\ task'[k] = z
        BY <1>1, <1>2, <2>1
      <3> HIDE DEF z
      <3>2. QED
        BY ONLY <3>1 DEF TimerTask
    <2>3. task'[k].deadline = Unsigned(Due(task'[k]) - start_time)
      <3>1. Due(task'[k]) = Due(y)
        BY <2>2, Zenon DEF Due
      <3>2. QED
        BY <1>2, <2>1, <3>1, Zenon
    <2>4. Exact(task'[k], SlotOf(task'[k], tick + 1), tick + 1)
      BY <1>2, <2>1, Zenon DEF n
    <2>5. QED
      BY <1>1, <2>1, <2>2, <2>3, <2>4 DEF TimerTask
  <1>4. CASE k \notin repeats
    <2>1. \/ task'[k] = y /\ k \in Firing
          \/ task'[k] = task[k]
          \/ /\ task'[k] = [task[k] EXCEPT !.rest_rounds = Unsigned(@ - 1)]
             /\ k \notin Firing
      BY <1>4 DEF EnumDoes, y
    <2>2. QED
      BY <1>1, <1>4, <2>1 DEF TimerTask, Due
  <1>5. QED
    BY <1>3, <1>4

LEMMA ThreadTypes ==
  ASSUME TypeOK, RoundsExact, Paced, Time \/ ThreadStep
  PROVE  TypeOK'
  <1> USE WheelAssumption
  <1> USE DEF wheel, timerVars, threadVars, userVars, history, userIdle, ThreadGoes, Onwards
  <1>1. CASE Time
    <2>1. now' \in 1..MaxTime
      BY <1>1 DEF Time, TypeOK
    <2>2. UNCHANGED <<timerVars, threadVars, wheel, id_counter, add_queue,
                      cancelled_list, task, userVars, history>>
      BY <1>1 DEF Time
    <2>3. QED
      BY <2>1, <2>2 DEF TypeOK
  <1>2. CASE ThreadBegins
    <2>1. rate_start' \in Nat /\ thread' \in {"step", "off"}
      BY <1>2 DEF ThreadBegins, TypeOK
    <2>2. UNCHANGED <<userIdle, wheel, add_queue, cancelled_list, task, handed,
                      overrun, skew>>
      BY <1>2 DEF ThreadBegins
    <2>3. QED
      BY <2>1, <2>2 DEF TypeOK
  <1>3. CASE RemoveCancelledTasks
    <2>1. slots' \in [Slots -> SUBSET Tasks] /\ cancelled_list' \subseteq 0..NoId
      BY <1>3 DEF RemoveCancelledTasks, Uncancelled, TypeOK
    <2>2. start_time' \in Nat /\ skew' \in Nat
      BY <1>3 DEF RemoveCancelledTasks, TypeOK, Paced
    <2>3. thread' = "fill"
      BY <1>3 DEF RemoveCancelledTasks
    <2>4. UNCHANGED <<userIdle, rate_start, tick, add_queue, task, handed, overrun>>
      BY <1>3 DEF RemoveCancelledTasks
    <2>5. QED
      BY <2>1, <2>2, <2>3, <2>4 DEF TypeOK
  <1>4. CASE FillAddSlot
    <2>1. /\ add_queue' \in Seq(Tasks) /\ task' \in [Tasks -> TimerTask]
          /\ slots' \in [Slots -> SUBSET Tasks]
      BY <1>4, FillAddDoes
    <2>2. QED
      BY <1>4, <2>1 DEF FillAddSlot, TypeOK
  <1>5. CASE EnumTaskList
    <2>1. PICK handlers, repeats \in SUBSET Tasks : EnumDoes(handlers, repeats)
      BY <1>5, Enumerated
    <2>2. /\ handed' \in [Tasks -> Nat] /\ task' \in [Tasks -> TimerTask]
          /\ slots' \in [Slots -> SUBSET Tasks]
      <3>1. /\ task' \in [Tasks -> TimerTask] /\ slots' \in [Slots -> SUBSET Tasks]
            /\ handed' = [k \in Tasks |-> IF k \in handlers THEN handed[k] + 1 ELSE handed[k]]
        BY <2>1 DEF EnumDoes
      <3>2. handed \in [Tasks -> Nat]
        BY DEF TypeOK
      <3>3. QED
        BY <3>1, <3>2
    <2>3. overrun' \in BOOLEAN
      BY <1>5 DEF EnumTaskList, TypeOK
    <2>4. tick' \in Nat /\ thread' = "rate"
      BY <1>5 DEF EnumTaskList, TypeOK
    <2>5. UNCHANGED <<userIdle, rate_start, start_time, add_queue, cancelled_list, skew>>
      BY <1>5 DEF EnumTaskList
    <2>6. QED
      BY <2>2, <2>3, <2>4, <2>5 DEF TypeOK
  <1>6. CASE Sleep
    <2>1. rate_start' \in Nat /\ thread' \in {"step", "off", "asleep"}
      BY <1>6 DEF Sleep, TypeOK
    <2>2. UNCHANGED <<userIdle, wheel, add_queue, cancelled_list, task, handed,
                      overrun, skew>>
      BY <1>6 DEF Sleep
    <2>3. QED
      BY <2>1, <2>2 DEF TypeOK
  <1>7. CASE WakeUp
    BY <1>7 DEF WakeUp, TypeOK
  <1>8. QED
    BY <1>1, <1>2, <1>3, <1>4, <1>5, <1>6, <1>7 DEF ThreadStep

-----------------------------------------------------------------------------
(* What a step leaves alone *)

\* A user touches no task but the one it is making, and nothing in the wheel.
LEMMA UserLeaves ==
  ASSUME TypeOK, Busy, MadeApart, NEW u \in Users, UserStep(u)
  PROVE  /\ UNCHANGED <<now, wheel, rate_start, handed, skew>>
         /\ \A k \in Tasks :
              \/ task'[k] = task[k]
              \/ ReadCounter(u) /\ k \notin Born /\ k = mine'[u]
              \/ /\ WriteCounter(u) /\ k = mine[u]
                 /\ task'[k] = [task[k] EXCEPT !.tid = id_counter']
         /\ Born \subseteq Born'
         /\ ~ReadCounter(u) => mine' = mine /\ latest' = latest /\ Born' = Born
         /\ ~ReadCounter(u) /\ ~WriteCounter(u) => task' = task
         /\ ~Enqueue(u) => add_queue' = add_queue
         /\ Making(u)' => ReadCounter(u) \/ WriteCounter(u)
  <1> USE DEF wheel, timerVars, threadVars, userVars, history, wheelIdle
  <1>1. UNCHANGED <<now, wheel, rate_start, handed, skew>>
    BY DEF UserStep, Start, Add, Refuse, ReadCounter, WriteCounter,
           Enqueue, EnqueueFails, Undo, Answer, Stop, RemoveTimer, Clear, Destroy,
           Shutdown, Join
  <1>2. /\ ~ReadCounter(u) => mine' = mine /\ latest' = latest
        /\ ~ReadCounter(u) /\ ~WriteCounter(u) => task' = task
        /\ ~Enqueue(u) => add_queue' = add_queue
    BY DEF UserStep, Start, Add, Refuse, ReadCounter, WriteCounter,
           Enqueue, EnqueueFails, Undo, Answer, Stop, RemoveTimer, Clear, Destroy,
           Shutdown, Join
  <1>3. Making(u)' => ReadCounter(u) \/ WriteCounter(u)
    BY DEF UserStep, Start, Add, Refuse, ReadCounter, WriteCounter,
           Enqueue, EnqueueFails, Undo, Answer, Stop, RemoveTimer, Clear, Destroy,
           Shutdown, Join, Goto, Return, Making, TypeOK
  <1>4. task \in [Tasks -> TimerTask]
    BY DEF TypeOK
  <1>5. CASE ReadCounter(u)
    <2>1. PICK k \in Tasks \ Born :
            /\ task' = [task EXCEPT ![k] = [@ EXCEPT !.init_time = now,
                                                     !.interval = Period[Its(u)],
                                                     !.oneshot = Oneshot[Its(u)]]]
            /\ mine' = [mine EXCEPT ![u] = k]
      BY <1>5 DEF ReadCounter
    <2>2. \A j \in Tasks : j # k => task'[j] = task[j]
      BY <1>4, <2>1
    <2>3. mine'[u] = k
      BY <2>1 DEF TypeOK
    <2>4. Born \subseteq Born'
      BY <2>1, <2>2 DEF Born
    <2>5. ~WriteCounter(u)
      BY <1>5 DEF ReadCounter, WriteCounter
    <2>6. QED
      BY <1>1, <1>2, <1>3, <1>5, <2>1, <2>2, <2>3, <2>4
  <1>6. CASE WriteCounter(u)
    <2>1. task' = [task EXCEPT ![mine[u]] = [task[mine[u]] EXCEPT !.tid = id_counter']]
      BY <1>6 DEF WriteCounter
    <2>2. mine[u] \in Tasks
      BY <1>6 DEF WriteCounter, MadeApart, Making, Born
    <2>3. /\ \A j \in Tasks : j # mine[u] => task'[j] = task[j]
          /\ task'[mine[u]] = [task[mine[u]] EXCEPT !.tid = id_counter']
      BY <1>4, <2>1, <2>2
    <2>4. \A j \in Tasks : task'[j].interval = task[j].interval
      BY <1>4, <2>2, <2>3 DEF TimerTask
    <2>5. Born' = Born
      BY <2>4 DEF Born
    <2>6. ~ReadCounter(u)
      BY <1>6 DEF ReadCounter, WriteCounter
    <2>7. QED
      BY <1>1, <1>2, <1>3, <1>6, <2>3, <2>5, <2>6
  <1>7. CASE ~ReadCounter(u) /\ ~WriteCounter(u)
    <2>1. task' = task
      BY <1>2, <1>7
    <2>2. Born' = Born
      BY <2>1 DEF Born
    <2>3. QED
      BY <1>1, <1>2, <1>3, <1>7, <2>1, <2>2
  <1>8. QED
    BY <1>5, <1>6, <1>7

LEMMA CountedBorn ==
  ASSUME TypeOK, Busy, NEW u \in Users, ReadCounter(u)
  PROVE  /\ mine'[u] \in Tasks \ Born /\ Born' = Born \cup {mine'[u]}
         /\ \A v \in Users \ {u} : mine'[v] = mine[v]
         /\ \A k \in Tasks \ Born : mine'[u] <= k
         /\ task'[mine'[u]].interval = Period[Its(u)]
         /\ task'[mine'[u]].init_time = now
         /\ task'[mine'[u]].fire_count = task[mine'[u]].fire_count
         /\ Its(u) \in Timers /\ latest' = [latest EXCEPT ![Its(u)] = mine'[u]]
         /\ Period[Its(u)] <= TIMER_TASK_MAX_INTERVAL
  <1>1. PICK k \in Tasks \ Born :
          /\ \A j \in Tasks \ Born : k <= j
          /\ task' = [task EXCEPT ![k] = [@ EXCEPT !.init_time = now,
                                                   !.interval = Period[Its(u)],
                                                   !.oneshot = Oneshot[Its(u)]]]
          /\ mine' = [mine EXCEPT ![u] = k]
          /\ latest' = [latest EXCEPT ![Its(u)] = k]
    BY DEF ReadCounter
  <1>2. mine'[u] = k /\ \A v \in Users \ {u} : mine'[v] = mine[v]
    BY <1>1 DEF TypeOK
  <1>3. /\ task'[k] = [task[k] EXCEPT !.init_time = now, !.interval = Period[Its(u)],
                                      !.oneshot = Oneshot[Its(u)]]
        /\ \A j \in Tasks \ {k} : task'[j] = task[j]
        /\ task[k] \in TimerTask
    BY <1>1 DEF TypeOK
  <1>4. Its(u) \in Timers
    BY CallDoes DEF ReadCounter, Busy
  <1>5. Period[Its(u)] # 0 /\ Period[Its(u)] <= TIMER_TASK_MAX_INTERVAL
    BY <1>4, WheelAssumption, TimersAssumption DEF ReadCounter, BadInterval
  <1>6. /\ task'[k].interval = Period[Its(u)] /\ task'[k].init_time = now
        /\ task'[k].fire_count = task[k].fire_count
    BY <1>3 DEF TimerTask
  <1>7. Born' = Born \cup {k}
    BY <1>3, <1>5, <1>6 DEF Born
  <1>8. QED
    BY <1>1, <1>2, <1>4, <1>5, <1>6, <1>7

LEMMA UserKeepsWheel ==
  ASSUME WInv, NEW u \in Users, UserStep(u)
  PROVE  MadeApart' /\ QueuedOnce' /\ SeatedBorn' /\ RoundsExact'
  <1> USE DEF WInv
  <1>1. /\ slots' = slots /\ tick' = tick /\ Born \subseteq Born'
        /\ \A v \in Users \ {u} : at'[v] = at[v]
        /\ slots \in [Slots -> SUBSET Tasks]
    BY UserLeaves, UserMoves DEF wheel, TypeOK
  <1>2. SeatedBorn'
    BY <1>1 DEF SeatedBorn
  <1>3. \A i \in Slots : \A k \in slots[i] : k \in Born /\ task'[k] = task[k]
    <2>1. SUFFICES ASSUME NEW i \in Slots, NEW k \in slots[i]
                   PROVE  k \in Born /\ task'[k] = task[k]
      OBVIOUS
    <2>2. k \in Born /\ Seated(k) /\ k \in Tasks
      BY DEF SeatedBorn, Seated, Born
    <2>3. WriteCounter(u) => k # mine[u]
      BY <2>2 DEF WriteCounter, MadeApart, Making
    <2>4. QED
      BY <2>2, <2>3, UserLeaves
  <1>4. RoundsExact'
    BY <1>1, <1>3 DEF RoundsExact
  <1>5. \A k : Seated(k)' <=> Seated(k)
    BY <1>1 DEF Seated
  <1>6. add_queue \in Seq(Tasks)
    BY DEF TypeOK
  <1>7. \A k : Queued(k) => k \in Born
    BY DEF Queued, Contains, QueuedOnce
  <1>8. CASE ReadCounter(u)
    <2>1. add_queue' = add_queue
      BY <1>8, UserLeaves DEF ReadCounter, Enqueue
    <2>2. \A k : Queued(k)' <=> Queued(k)
      BY <2>1 DEF Queued
    <2>3. QueuedOnce'
      BY <1>1, <1>5, <2>1 DEF QueuedOnce
    <2>4. MadeApart'
      <3>1. SUFFICES ASSUME NEW w \in Users, Making(w)'
                     PROVE  /\ mine'[w] \in Born' /\ ~Queued(mine[w])' /\ ~Seated(mine[w])'
                            /\ \A v \in Users : Making(v)' /\ mine'[v] = mine'[w] => v = w
        BY DEF MadeApart
      <3>2. \A v \in Users \ {u} : (Making(v)' <=> Making(v)) /\ mine'[v] = mine[v]
        BY <1>1, <1>8, CountedBorn DEF Making
      <3>3. \A v \in Users \ {u} : Making(v)' =>
              mine'[v] \in Born /\ ~Queued(mine'[v]) /\ ~Seated(mine'[v])
        BY <3>2 DEF MadeApart
      <3>4. mine'[u] \in Born' /\ mine'[u] \notin Born
        BY <1>8, CountedBorn
      <3>5. ~Queued(mine'[u]) /\ ~Seated(mine'[u])
        BY <1>7, <3>4 DEF SeatedBorn, Seated
      <3>6. CASE w = u
        BY <1>5, <2>2, <3>3, <3>4, <3>5, <3>6
      <3>7. CASE w # u
        BY <1>1, <1>5, <2>2, <3>1, <3>2, <3>3, <3>4, <3>7 DEF MadeApart
      <3>8. QED
        BY <3>6, <3>7
    <2>5. QED
      BY <1>2, <1>4, <2>3, <2>4
  <1>9. CASE ~ReadCounter(u)
    <2>1. mine' = mine /\ Born' = Born /\ latest' = latest
      BY <1>9, UserLeaves
    <2>2. \A v \in Users : Making(v)' => Making(v)
      <3>1. Making(u)' => WriteCounter(u)
        BY <1>9, UserLeaves
      <3>2. WriteCounter(u) => Making(u)
        BY DEF WriteCounter, Making
      <3>3. QED
        BY <1>1, <3>1, <3>2 DEF Making
    <2>3. CASE ~Enqueue(u)
      <3>1. add_queue' = add_queue
        BY <2>3, UserLeaves
      <3>2. \A k : Queued(k)' <=> Queued(k)
        BY <3>1 DEF Queued
      <3>3. QueuedOnce'
        BY <1>5, <2>1, <3>1 DEF QueuedOnce
      <3>4. MadeApart'
        BY <1>5, <2>1, <2>2, <3>2 DEF MadeApart
      <3>5. QED
        BY <1>2, <1>4, <3>3, <3>4
    <2>4. CASE Enqueue(u)
      <3>1. /\ add_queue' = Append(add_queue, mine[u]) /\ Making(u) /\ ~Making(u)'
        BY <2>4 DEF Enqueue, Making, Goto, TypeOK
      <3>2. mine[u] \in Born /\ mine[u] \in Tasks /\ ~Queued(mine[u]) /\ ~Seated(mine[u])
        BY <3>1 DEF MadeApart, Born
      <3>3. /\ Len(add_queue') = Len(add_queue) + 1 /\ Len(add_queue) \in Nat
            /\ \A i \in 1..Len(add_queue) : add_queue'[i] = add_queue[i]
            /\ add_queue'[Len(add_queue) + 1] = mine[u]
        BY <1>6, <3>1, <3>2
      <3>4. \A k : Queued(k)' => Queued(k) \/ k = mine[u]
        BY <3>3 DEF Queued, Contains
      <3>5. \A i \in 1..Len(add_queue) : add_queue[i] # mine[u]
        BY <3>2 DEF Queued, Contains
      <3>6. QueuedOnce'
        BY <1>5, <2>1, <3>2, <3>3, <3>5 DEF QueuedOnce
      <3>7. MadeApart'
        BY <1>5, <2>1, <2>2, <3>1, <3>4 DEF MadeApart
      <3>8. QED
        BY <1>2, <1>4, <3>6, <3>7
    <2>5. QED
      BY <2>3, <2>4
  <1>10. QED
    BY <1>8, <1>9

LEMMA CancelDoes ==
  ASSUME TypeOK, NEW t \in Timers, Cancel(t)
  PROVE  /\ cancelled_list' = cancelled_list \cup {timer_id[t]}
         /\ settled \subseteq settled' /\ stopped \subseteq stopped'
         /\ \A k \in settled' \ settled :
              k \in Born /\ Seated(k) /\ task[k].tid \in cancelled_list'
         /\ \A k \in Born : task[k].tid = timer_id[t] /\ timer_id[t] # 0 => k \in stopped'
         /\ stopped' \subseteq stopped \cup Born \cup ({latest[t]} \ {0})
  BY DEF Cancel

LEMMA UserCancels ==
  ASSUME TypeOK, Busy, NEW u \in Users, UserStep(u)
  PROVE  \/ UNCHANGED <<cancelled_list, stopped, settled>>
         \/ RemoveTimer(u) /\ Cancel(Its(u)) /\ Its(u) \in Timers
         \/ Destroy(u) /\ Cancel(Its(u)) /\ Its(u) \in Timers
  <1>1. Its(u) \in Timers
    BY UserMoves, CallDoes
  <1>2. QED
    BY <1>1 DEF UserStep, Start, Add, Refuse, ReadCounter, WriteCounter,
           Enqueue, EnqueueFails, Undo, Answer, Stop, RemoveTimer, Clear, Destroy,
           Shutdown, Join, history

\* A task that is not being made and not queued is not touched by a user.
LEMMA UserSpares ==
  ASSUME WInv, NEW u \in Users, UserStep(u), NEW k \in Born, ~Queued(k),
         \A v \in Users : Making(v) => mine[v] # k
  PROVE  /\ k \in Born' /\ ~Queued(k)' /\ \A v \in Users : Making(v)' => mine'[v] # k
         /\ task'[k] = task[k]
  <1> USE DEF WInv
  <1>1. /\ Born \subseteq Born'
        /\ \A v \in Users \ {u} : at'[v] = at[v]
        /\ add_queue \in Seq(Tasks)
    BY UserLeaves, UserMoves DEF TypeOK
  <1>2. k \in Tasks /\ k \in Born'
    BY <1>1 DEF Born
  <1>3. task'[k] = task[k]
    BY <1>2, UserLeaves DEF WriteCounter, Making
  <1>4. ~Queued(k)'
    <2>1. CASE Enqueue(u)
      <3>1. add_queue' = Append(add_queue, mine[u]) /\ mine[u] # k /\ mine[u] \in Tasks
        BY <2>1 DEF Enqueue, Making, MadeApart, Born
      <3>2. /\ Len(add_queue') = Len(add_queue) + 1 /\ Len(add_queue) \in Nat
            /\ \A i \in 1..Len(add_queue) : add_queue'[i] = add_queue[i]
            /\ add_queue'[Len(add_queue) + 1] = mine[u]
        BY <1>1, <3>1
      <3>3. QED
        BY <3>1, <3>2 DEF Queued, Contains
    <2>2. CASE ~Enqueue(u)
      BY <2>2, UserLeaves DEF Queued
    <2>3. QED
      BY <2>1, <2>2
  <1>5. ASSUME NEW v \in Users, Making(v)'
        PROVE  mine'[v] # k
    <2>1. CASE ReadCounter(u)
      <3>1. CASE v = u
        BY <2>1, <3>1, CountedBorn
      <3>2. CASE v # u
        BY <1>1, <1>5, <2>1, <3>2, CountedBorn DEF Making
      <3>3. QED
        BY <3>1, <3>2
    <2>2. CASE ~ReadCounter(u)
      <3>1. mine' = mine
        BY <2>2, UserLeaves
      <3>2. Making(v)
        <4>1. CASE v = u
          BY <1>5, <2>2, <4>1, UserLeaves DEF WriteCounter, Making
        <4>2. CASE v # u
          BY <1>1, <1>5, <4>2 DEF Making
        <4>3. QED
          BY <4>1, <4>2
      <3>3. QED
        BY <3>1, <3>2
    <2>3. QED
      BY <2>1, <2>2
  <1>6. QED
    BY <1>2, <1>3, <1>4, <1>5

LEMMA UserKeepsLeaving ==
  ASSUME WInv, NEW u \in Users, UserStep(u)
  PROVE  Leaving'
  <1> USE DEF WInv
  <1>1. slots' = slots
    BY UserLeaves DEF wheel
  <1>2. \A k : Seated(k)' <=> Seated(k)
    BY <1>1 DEF Seated
  <1>3. ASSUME NEW k \in settled'
        PROVE  /\ k \in Born /\ ~Queued(k) /\ \A v \in Users : Making(v) => mine[v] # k
               /\ task[k].tid \in cancelled_list' \/ ~Seated(k)
    <2>1. CASE k \in settled
      <3>1. cancelled_list \subseteq cancelled_list'
        BY UserCancels, CancelDoes
      <3>2. QED
        BY <2>1, <3>1 DEF Leaving
    <2>2. CASE k \notin settled
      <3>1. k \in Born /\ Seated(k) /\ task[k].tid \in cancelled_list'
        BY <1>3, <2>2, UserCancels, CancelDoes
      <3>2. ~Queued(k)
        BY <3>1 DEF QueuedOnce, Queued, Contains
      <3>3. \A v \in Users : Making(v) => mine[v] # k
        BY <3>1 DEF MadeApart
      <3>4. QED
        BY <3>1, <3>2, <3>3
    <2>3. QED
      BY <2>1, <2>2
  <1>4. QED
    BY <1>2, <1>3, UserSpares DEF Leaving

-----------------------------------------------------------------------------
(* The steps of the thread *)

\* A step of the thread that only moves the thread or the clock.
Elsewhere == /\ UNCHANGED <<wheel, add_queue, cancelled_list, task, at, mine, settled,
                            skew, todo>>

LEMMA ElsewhereKeeps ==
  ASSUME WInv, Elsewhere
  PROVE  MadeApart' /\ QueuedOnce' /\ SeatedBorn' /\ RoundsExact' /\ Leaving' /\ Busy'
  BY DEF WInv, Elsewhere, wheel, MadeApart, QueuedOnce, SeatedBorn, RoundsExact, Leaving,
         Busy, Making, Queued, Seated, Born

LEMMA RemoveKeeps ==
  ASSUME WInv, RemoveCancelledTasks
  PROVE  MadeApart' /\ QueuedOnce' /\ SeatedBorn' /\ RoundsExact' /\ Leaving' /\ Busy'
  <1> USE DEF WInv
  <1>1. /\ UNCHANGED <<task, tick, add_queue, at, mine, settled, todo>>
        /\ slots' = [i \in Slots |-> Uncancelled(i)]
    BY DEF RemoveCancelledTasks, userIdle, userVars
  <1>2. /\ \A i \in Slots : slots'[i] \subseteq slots[i]
        /\ \A i \in Slots : \A k \in slots'[i] : task[k].tid \notin cancelled_list
    BY <1>1 DEF Uncancelled
  <1>3. Born' = Born /\ \A k : Queued(k)' <=> Queued(k)
    BY <1>1 DEF Born, Queued
  <1>4. \A k : Seated(k)' => Seated(k) /\ task[k].tid \notin cancelled_list
    BY <1>2 DEF Seated
  <1>5. MadeApart' /\ QueuedOnce' /\ Busy'
    BY <1>1, <1>3, <1>4 DEF MadeApart, Making, QueuedOnce, Busy
  <1>6. SeatedBorn' /\ RoundsExact'
    BY <1>1, <1>2, <1>3 DEF SeatedBorn, RoundsExact
  <1>7. Leaving'
    BY <1>1, <1>3, <1>4 DEF Leaving, Making
  <1>8. QED
    BY <1>5, <1>6, <1>7

LEMMA FillAddKeeps ==
  ASSUME WInv, FillAddSlot
  PROVE  MadeApart' /\ QueuedOnce' /\ SeatedBorn' /\ RoundsExact' /\ Leaving' /\ Busy'
  <1> USE DEF WInv
  <1> DEFINE k == Head(add_queue)
             x == Timed(task[k], tick)
  <1>1. /\ k \in Tasks /\ add_queue' = Tail(add_queue) /\ add_queue' \in Seq(Tasks)
        /\ task' = [task EXCEPT ![k] = x] /\ task' \in [Tasks -> TimerTask]
        /\ slots' \in [Slots -> SUBSET Tasks]
        /\ \A i \in Slots : \A j \in slots'[i] : j \in slots[i] \/ (j = k /\ i = SlotOf(x, tick))
    BY FillAddDoes
  <1>2. /\ UNCHANGED <<at, mine, settled, tick, cancelled_list, todo>>
        /\ add_queue \in Seq(Tasks) /\ add_queue # <<>> /\ k = add_queue[1]
        /\ task \in [Tasks -> TimerTask] /\ slots \in [Slots -> SUBSET Tasks]
        /\ tick \in Nat
    BY DEF FillAddSlot, userIdle, userVars, TypeOK
  <1>3. /\ 1 \in 1..Len(add_queue) /\ Len(add_queue') = Len(add_queue) - 1
        /\ Len(add_queue) \in Nat
        /\ \A i \in 1..Len(add_queue') :
             i + 1 \in 1..Len(add_queue) /\ add_queue'[i] = add_queue[i + 1]
    BY <1>1, <1>2
  <1>4. k \in Born /\ Queued(k) /\ ~Seated(k)
    BY <1>2, <1>3 DEF QueuedOnce, Queued, Contains
  <1>5. \A j : Queued(j)' => Queued(j) /\ j # k
    <2>1. \A i \in 1..Len(add_queue') : add_queue[i + 1] # k
      BY <1>2, <1>3 DEF QueuedOnce
    <2>2. QED
      BY <1>3, <2>1 DEF Queued, Contains
  <1>6. /\ x \in TimerTask /\ Exact(x, SlotOf(x, tick), tick)
        /\ x = [task[k] EXCEPT !.deadline = x.deadline, !.rest_rounds = x.rest_rounds]
        /\ task[k] \in TimerTask
    BY <1>1, <1>2, TimedDoes
  <1> HIDE DEF k, x
  <1>7. /\ \A j \in Tasks \ {k} : task'[j] = task[j]
        /\ task'[k] = x /\ x.tid = task[k].tid /\ x.interval = task[k].interval
    BY <1>1, <1>2, <1>6 DEF TimerTask
  <1>8. Born' = Born
    BY <1>7 DEF Born
  <1>9. \A j : Seated(j)' => Seated(j) \/ j = k
    BY <1>1 DEF Seated
  <1>10. MadeApart'
    BY <1>2, <1>4, <1>5, <1>8, <1>9 DEF MadeApart, Making
  <1>11. QueuedOnce'
    <2>1. ASSUME NEW i \in 1..Len(add_queue'), NEW j, j = add_queue'[i]
          PROVE  j \in Born' /\ ~Seated(j)'
      <3>1. Queued(j)'
        BY <2>1 DEF Queued, Contains
      <3>2. Queued(j) /\ j # k
        BY <1>5, <3>1
      <3>3. j \in Born /\ ~Seated(j)
        BY <3>2 DEF QueuedOnce, Queued, Contains
      <3>4. QED
        BY <1>8, <1>9, <3>2, <3>3
    <2>2. \A i \in 1..Len(add_queue') :
            add_queue'[i] \in Born' /\ \A h \in Slots : add_queue'[i] \notin slots'[h]
      BY <2>1 DEF Seated
    <2>3. \A i, j \in 1..Len(add_queue') : add_queue'[i] = add_queue'[j] => i = j
      BY <1>3 DEF QueuedOnce
    <2>4. QED
      BY <2>2, <2>3 DEF QueuedOnce, Seated
  <1>12. SeatedBorn'
    BY <1>1, <1>4, <1>8 DEF SeatedBorn
  <1>13. RoundsExact'
    <2>1. SUFFICES ASSUME NEW i \in Slots, NEW j \in slots'[i]
                   PROVE  Exact(task'[j], i, tick)
      BY <1>2 DEF RoundsExact, Exact
    <2>2. CASE j \in slots[i]
      <3>1. j \in Tasks /\ j # k
        BY <1>2, <1>4, <2>2 DEF Seated
      <3>2. QED
        BY <1>7, <2>2, <3>1 DEF RoundsExact, Exact
    <2>3. CASE j = k /\ i = SlotOf(x, tick)
      BY <1>6, <1>7, <2>3
    <2>4. QED
      BY <1>1, <2>2, <2>3
  <1>14. Leaving'
    <2>1. \A j \in settled : j \in Tasks /\ j # k
      BY <1>4 DEF Leaving, Born
    <2>2. QED
      BY <1>2, <1>5, <1>7, <1>8, <1>9, <2>1 DEF Leaving, Making
  <1>15. QED
    BY <1>2, <1>10, <1>11, <1>12, <1>13, <1>14 DEF Busy

LEMMA EnumKeeps ==
  ASSUME WInv, EnumTaskList
  PROVE  MadeApart' /\ QueuedOnce' /\ SeatedBorn' /\ RoundsExact' /\ Leaving' /\ Busy'
  <1> USE DEF WInv
  <1>1. PICK handlers, repeats \in SUBSET Tasks : EnumDoes(handlers, repeats)
    BY Enumerated
  <1>2. /\ UNCHANGED <<at, mine, settled, cancelled_list, todo, add_queue>>
        /\ tick' = tick + 1 /\ tick \in Nat
        /\ task \in [Tasks -> TimerTask] /\ slots \in [Slots -> SUBSET Tasks]
    BY DEF EnumTaskList, userIdle, userVars, TypeOK
  <1>3. /\ repeats \subseteq Firing /\ Firing \subseteq slots[Hand] /\ Hand \in Slots
        /\ Firing \subseteq Tasks
    BY <1>1, <1>2, Meets DEF EnumDoes, Firing
  <1>4. /\ \A i \in Slots : \A k \in slots'[i] :
             \/ k \in slots[i] /\ (i = Hand => k \notin Firing)
             \/ k \in repeats /\ i = SlotOf(task'[k], tick + 1)
        /\ \A k \in Tasks : task'[k].tid = task[k].tid
    BY <1>1 DEF EnumDoes
  <1>5. \A k \in repeats : Exact(task'[k], SlotOf(task'[k], tick + 1), tick + 1)
    BY <1>1, <1>3, EnumTasks
  <1>6. \A k \in Tasks : task'[k].interval = task[k].interval
    BY <1>1, EnumTasks
  <1>7. Born' = Born
    BY <1>6 DEF Born
  <1>8. \A k : Queued(k)' <=> Queued(k)
    BY <1>2 DEF Queued
  <1>9. \A k : Seated(k)' => Seated(k)
    BY <1>3, <1>4 DEF Seated
  <1>10. MadeApart' /\ QueuedOnce' /\ Busy'
    BY <1>2, <1>7, <1>8, <1>9 DEF MadeApart, Making, QueuedOnce, Busy
  <1>11. SeatedBorn'
    BY <1>3, <1>4, <1>7 DEF SeatedBorn
  <1>12. Leaving'
    <2>1. \A j \in settled : j \in Tasks
      BY DEF Leaving, Born
    <2>2. QED
      BY <1>2, <1>4, <1>7, <1>8, <1>9, <2>1 DEF Leaving, Making
  <1>13. RoundsExact'
    <2>1. SUFFICES ASSUME NEW i \in Slots, NEW k \in slots'[i]
                   PROVE  Exact(task'[k], i, tick + 1)
      BY <1>2 DEF RoundsExact, Exact
    <2>2. CASE k \in repeats /\ i = SlotOf(task'[k], tick + 1)
      BY <1>5, <2>2
    <2>3. CASE k \in slots[i] /\ (i = Hand => k \notin Firing) /\ k \notin repeats
      <3> DEFINE t == Ticks(task[k])
                 S == TIMING_WHEEL_SIZE
      <3>1. k \in Tasks /\ task[k] \in TimerTask /\ t \in Nat /\ S \in Nat \ {0, 1}
        BY <1>2, <2>3, TicksDoes, WheelAssumption
      <3>2. Exact(task[k], i, tick)
        BY <2>3 DEF RoundsExact, Exact
      <3>3. t > tick
        <4>1. CASE i = Hand
          BY <2>3, <4>1, Meets
        <4>2. CASE i # Hand
          BY <1>2, <3>1, <3>2, <4>2 DEF Exact, Hand
        <4>3. QED
          BY <4>1, <4>2
      <3>4. i = t % S /\ task[k].rest_rounds = (t - tick) \div S
        BY <1>2, <3>1, <3>2, <3>3 DEF Exact
      <3>5. ~(t < tick + 1) /\ tick < t
        BY <1>2, <3>1, <3>3
      <3>6. /\ Ticks(task'[k]) = t
            /\ task'[k].rest_rounds = (t - (tick + 1)) \div S
        <4>1. CASE i = Hand
          <5>1. k \in slots[Hand] \ Firing
            BY <2>3, <4>1
          <5>2. task'[k] = [task[k] EXCEPT !.rest_rounds = Unsigned(@ - 1)]
            BY <1>1, <2>3, <3>1, <5>1 DEF EnumDoes
          <5>3. /\ (t - tick) \div S \in Nat \ {0}
                /\ (t - (tick + 1)) \div S = (t - tick) \div S - 1
            BY <1>2, <3>1, <3>4, <3>5, <4>1, Turn DEF Hand
          <5>4. task[k].rest_rounds \in 0..NoId
            BY <3>1 DEF TimerTask
          <5>5. Unsigned(task[k].rest_rounds - 1) = task[k].rest_rounds - 1
            <6>1. task[k].rest_rounds - 1 \in 0..NoId
              BY <3>4, <5>3, <5>4, UnsignedDoes
            <6>2. QED
              BY <6>1, UnsignedDoes
          <5>6. task'[k].rest_rounds = (t - (tick + 1)) \div S
            BY <3>1, <3>4, <5>2, <5>3, <5>5 DEF TimerTask
          <5>7. task'[k].deadline = task[k].deadline
            BY <3>1, <5>2 DEF TimerTask
          <5>8. QED
            BY <5>6, <5>7 DEF Ticks
        <4>2. CASE i # Hand
          <5>1. k \notin slots[Hand]
            <6>1. SUFFICES ASSUME k \in slots[Hand]
                           PROVE  FALSE
              OBVIOUS
            <6>2. Exact(task[k], Hand, tick)
              BY <1>3, <6>1 DEF RoundsExact, Exact
            <6>3. QED
              BY <1>2, <3>1, <3>3, <3>4, <4>2, <6>2 DEF Exact
          <5>2. task'[k] = task[k]
            BY <1>1, <1>3, <2>3, <3>1, <5>1 DEF EnumDoes
          <5>3. (t - (tick + 1)) \div S = (t - tick) \div S
            BY <1>2, <3>1, <3>4, <3>5, <4>2, Turn DEF Hand
          <5>4. QED
            BY <3>4, <5>2, <5>3
        <4>3. QED
          BY <4>1, <4>2
      <3>7. QED
        BY <3>4, <3>5, <3>6 DEF Exact
    <2>4. k \in slots[i] => k \notin repeats \/ (i = Hand /\ k \in Firing)
      <3>1. SUFFICES ASSUME k \in slots[i], k \in repeats
                     PROVE  i = Hand /\ k \in Firing
        OBVIOUS
      <3>2. k \in Firing /\ k \in slots[Hand]
        BY <1>3, <3>1
      <3>3. Exact(task[k], i, tick) /\ Exact(task[k], Hand, tick)
        BY <1>3, <3>1, <3>2 DEF RoundsExact, Exact
      <3>4. QED
        BY <3>2, <3>3 DEF Exact
    <2>5. QED
      BY <1>4, <2>2, <2>3, <2>4
  <1>14. QED
    BY <1>10, <1>11, <1>12, <1>13

-----------------------------------------------------------------------------
(* The clock *)

\* A timer fires when less than a tick, and the skew, is left of its period.
LEMMA FiringDue ==
  ASSUME WInv, CInv, thread = "fill", NEW k \in Firing
  PROVE  k \in Born /\ Due(task[k]) \in Nat /\ Due(task[k]) < now + TickDuration + skew
  <1> USE WheelAssumption
  <1>1. /\ k \in slots[Hand] /\ Hand \in Slots
        /\ task[k].deadline < TickDuration * tick + TickDuration
    BY Meets DEF WInv, Firing
  <1>2. k \in Born /\ k \in Tasks
    BY <1>1 DEF WInv, SeatedBorn, Born
  <1>3. /\ task[k].init_time \in Nat /\ task[k].fire_count \in Nat
        /\ task[k].interval \in Nat /\ task[k].deadline \in 0..NoId
        /\ now \in 1..MaxTime /\ skew \in Nat /\ start_time \in Nat /\ tick \in Nat
        /\ rate_start \in Nat
    BY <1>2 DEF WInv, TypeOK, TimerTask
  <1>4. /\ task[k].interval <= TIMER_TASK_MAX_INTERVAL
        /\ task[k].init_time + task[k].fire_count * task[k].interval
             < now + TickDuration + skew
    BY <1>2 DEF CInv, Timely
  <1>5. /\ skew <= now /\ start_time <= now /\ start_time # 0
        /\ Origin <= rate_start /\ rate_start <= now
    BY DEF CInv, Paced, Unbegun
  <1>6. task[k].deadline = Unsigned(Due(task[k]) - start_time)
    BY <1>1 DEF CInv, DeadlinesExact
  <1> DEFINE w == task[k].fire_count * task[k].interval
             e == TickDuration * tick
  <1>7. w \in Nat /\ Due(task[k]) = task[k].init_time + w + task[k].interval
    BY <1>3, OneMore DEF Due
  <1>8. e \in Nat /\ Origin = start_time - skew + e
    BY <1>3 DEF Origin
  <1> HIDE DEF w, e
  <1>9. Due(task[k]) \in Nat
    BY <1>3, <1>7
  <1>10. Due(task[k]) <= UINT64_MAX
    BY <1>3, <1>4, <1>5, <1>7, <1>9, WidthAssumption DEF w
  <1>11. CASE Due(task[k]) < start_time
    BY <1>2, <1>3, <1>5, <1>9, <1>11
  <1>12. CASE Due(task[k]) >= start_time
    <2>1. Due(task[k]) - start_time \in 0..NoId
      BY <1>3, <1>9, <1>10, <1>12, UnsignedDoes
    <2>2. task[k].deadline = Due(task[k]) - start_time
      BY <1>6, <2>1, UnsignedDoes
    <2>3. Due(task[k]) < start_time + e + TickDuration
      BY <1>1, <1>3, <1>8, <1>9, <2>2 DEF e
    <2>4. QED
      BY <1>2, <1>3, <1>5, <1>8, <1>9, <2>3
  <1>13. QED
    BY <1>2, <1>3, <1>9, <1>11, <1>12

LEMMA UserKeepsClock ==
  ASSUME WInv, CInv, NEW u \in Users, UserStep(u)
  PROVE  CInv'
  <1> USE WheelAssumption DEF WInv
  <1>1. /\ UNCHANGED <<now, wheel, rate_start, skew>> /\ Born \subseteq Born'
        /\ \A v \in Users \ {u} : at'[v] = at[v]
        /\ at \in [Users -> Places] /\ at' \in [Users -> Places]
    BY UserLeaves, UserMoves DEF TypeOK
  <1>2. \A k \in Born :
          /\ task'[k].interval = task[k].interval /\ task'[k].init_time = task[k].init_time
          /\ task'[k].fire_count = task[k].fire_count /\ task'[k].deadline = task[k].deadline
    <2>1. SUFFICES ASSUME NEW k \in Born
                   PROVE  /\ task'[k].interval = task[k].interval
                          /\ task'[k].init_time = task[k].init_time
                          /\ task'[k].fire_count = task[k].fire_count
                          /\ task'[k].deadline = task[k].deadline
      OBVIOUS
    <2>2. k \in Tasks /\ task[k] \in TimerTask
      BY DEF Born, TypeOK
    <2>3. task'[k] = task[k] \/ task'[k] = [task[k] EXCEPT !.tid = id_counter']
      BY <2>1, <2>2, UserLeaves
    <2>4. QED
      BY <2>2, <2>3 DEF TimerTask
  <1>3. /\ thread' = thread \/ (thread = "off" /\ thread' = "born")
        /\ Joined'
    <2>1. CASE Add(u)
      <3>1. at[u] = "add" /\ at'[u] = "number" /\ running' = TRUE
        BY <1>1, <2>1 DEF Add, Goto, TypeOK
      <3>2. running \/ thread = "off"
        BY <2>1 DEF Add, CInv, Joined
      <3>3. QED
        BY <2>1, <3>1, <3>2 DEF Add, Joined
    <2>2. CASE Shutdown(u)
      <3>1. thread' = thread /\ (IF running THEN at'[u] = "join"
                                 ELSE running' = running /\ at[u] = "idle")
        BY <2>2 DEF Shutdown, Begins, Goto, TypeOK
      <3>2. QED
        BY <1>1, <3>1 DEF CInv, Joined
    <2>3. CASE Join(u)
      BY <2>3 DEF Join, Joined, wheelIdle, threadVars
    <2>4. CASE ~Add(u) /\ ~Shutdown(u) /\ ~Join(u)
      <3>1. running' = running /\ thread' = thread /\ at[u] # "join"
        BY <2>4 DEF UserStep, Start, Refuse, ReadCounter, WriteCounter,
           Enqueue, EnqueueFails, Undo, Answer, Stop, RemoveTimer, Clear, Destroy,
           wheelIdle, threadVars, Begins
      <3>2. QED
        BY <1>1, <3>1 DEF CInv, Joined
    <2>5. QED
      BY <2>1, <2>2, <2>3, <2>4
  <1>4. Unbegun'
    BY <1>1, <1>3 DEF CInv, Unbegun, wheel
  <1>5. Paced'
    BY <1>1, <1>3 DEF CInv, Paced, wheel, Origin
  <1>6. DeadlinesExact'
    <2>1. SUFFICES ASSUME NEW i \in Slots, NEW k \in slots[i]
                   PROVE  task'[k].deadline = Unsigned(Due(task'[k]) - start_time)
      BY <1>1 DEF DeadlinesExact, wheel
    <2>2. k \in Born
      BY DEF SeatedBorn
    <2>3. Due(task'[k]) = Due(task[k])
      BY <1>2, <2>2 DEF Due
    <2>4. QED
      BY <1>2, <2>2, <2>3 DEF CInv, DeadlinesExact
  <1>7. CASE ReadCounter(u)
    <2> DEFINE k == mine'[u]
    <2>1. /\ k \in Tasks \ Born /\ Born' = Born \cup {k}
          /\ task'[k].interval = Period[Its(u)] /\ task'[k].init_time = now
          /\ task'[k].fire_count = task[k].fire_count
          /\ Its(u) \in Timers /\ Period[Its(u)] <= TIMER_TASK_MAX_INTERVAL
      BY <1>7, CountedBorn
    <2> HIDE DEF k
    <2>2. task'[k].fire_count = 0
      BY <2>1 DEF CInv, Unfired
    <2>3. task'[k].fire_count * task'[k].interval = 0
      BY <2>1, <2>2, TimersAssumption
    <2>4. /\ task'[k].interval <= TIMER_TASK_MAX_INTERVAL
          /\ task'[k].init_time + task'[k].fire_count * task'[k].interval
               < now + TickDuration + skew
      BY <2>1, <2>3 DEF TypeOK
    <2>5. Timely'
      BY <1>1, <1>2, <2>1, <2>4 DEF CInv, Timely
    <2>6. \A j \in Tasks \ Born : j # k => task'[j] = task[j]
      BY <1>7, UserLeaves DEF k, WriteCounter, ReadCounter
    <2>7. Unfired'
      BY <2>1, <2>6 DEF CInv, Unfired
    <2>8. QED
      BY <1>3, <1>4, <1>5, <1>6, <2>5, <2>7 DEF CInv
  <1>8. CASE ~ReadCounter(u)
    <2>1. Born' = Born
      BY <1>8, UserLeaves
    <2>2. Timely'
      BY <1>1, <1>2, <2>1 DEF CInv, Timely
    <2>3. \A j \in Tasks \ Born : task'[j] = task[j]
      <3>1. WriteCounter(u) => mine[u] \in Born
        BY DEF WriteCounter, MadeApart, Making
      <3>2. QED
        BY <1>8, <3>1, UserLeaves
    <2>4. Unfired'
      BY <2>1, <2>3 DEF CInv, Unfired
    <2>5. QED
      BY <1>3, <1>4, <1>5, <1>6, <2>2, <2>4 DEF CInv
  <1>9. QED
    BY <1>7, <1>8

LEMMA ThreadGone ==
  ASSUME TypeOK, CInv, ThreadStep, UNCHANGED <<running, at>>
  PROVE  Joined'
  BY DEF ThreadStep, ThreadBegins, RemoveCancelledTasks, FillAddSlot, EnumTaskList, Sleep,
         WakeUp, ThreadGoes, Onwards, Joined, CInv, threadVars, TypeOK

LEMMA ElsewhereKeepsClock ==
  ASSUME WInv, CInv, Elsewhere, now' >= now, now' \in Nat, Paced', Joined',
         \/ thread' \in {"off", "born", "step"}
         \/ thread' = thread \/ thread = "rate"
  PROVE  CInv'
  <1>1. /\ UNCHANGED <<task, slots, start_time, tick, skew>>
        /\ now \in Nat /\ TickDuration \in Nat /\ skew \in Nat
    BY WheelAssumption DEF Elsewhere, wheel, WInv, TypeOK
  <1>2. Unbegun' /\ Unfired' /\ Born' = Born
    BY <1>1 DEF CInv, Unbegun, WInv, TypeOK, Unfired, Born
  <1>3. DeadlinesExact'
    BY <1>1 DEF CInv, DeadlinesExact, Due
  <1>4. Timely'
    <2>1. SUFFICES ASSUME NEW k \in Born
                   PROVE  task[k].init_time + task[k].fire_count * task[k].interval
                            < now' + TickDuration + skew
      BY <1>1, <1>2 DEF Timely, CInv
    <2>2. task[k].init_time \in Nat /\ task[k].fire_count * task[k].interval \in Nat
      BY OneMore DEF WInv, TypeOK, TimerTask, Born
    <2>3. QED
      BY <1>1, <2>2 DEF CInv, Timely
  <1>5. QED
    BY <1>2, <1>3, <1>4 DEF CInv

LEMMA ThreadKeepsClock ==
  ASSUME WInv, CInv, Time \/ ThreadStep
  PROVE  CInv'
  <1> USE WheelAssumption
  <1> USE DEF WInv
  <1>1. /\ now \in Nat /\ rate_start \in Nat /\ start_time \in Nat /\ skew \in Nat
        /\ tick \in Nat /\ TickDuration \in Nat /\ now >= 1
        /\ TickDuration * tick \in Nat /\ TickDuration * 0 = 0
        /\ TickDuration * (tick + 1) = TickDuration * tick + TickDuration
        /\ task \in [Tasks -> TimerTask] /\ slots \in [Slots -> SUBSET Tasks]
    <2>1. /\ now \in Nat /\ rate_start \in Nat /\ start_time \in Nat /\ skew \in Nat
          /\ tick \in Nat /\ TickDuration \in Nat /\ now >= 1
          /\ task \in [Tasks -> TimerTask] /\ slots \in [Slots -> SUBSET Tasks]
      BY DEF TypeOK
    <2>2. TickDuration * tick \in Nat /\ TickDuration * 0 = 0
          /\ TickDuration * (tick + 1) = TickDuration * tick + TickDuration
      BY <2>1, SMT
    <2>3. QED
      BY <2>1, <2>2
  <1> DEFINE e == TickDuration * tick
  <1>2. e \in Nat /\ Origin = start_time - skew + e
    BY <1>1 DEF Origin
  <1>3. CASE Time
    <2>1. /\ now' = now + 1 /\ UNCHANGED <<threadVars, wheel, skew, at>> /\ Elsewhere
      BY <1>3 DEF Time, Elsewhere, userVars, history
    <2>2. Paced' /\ Joined'
      BY <1>1, <1>2, <2>1 DEF CInv, Paced, Origin, threadVars, wheel, Joined
    <2>3. thread' = thread
      BY <2>1 DEF threadVars
    <2>4. QED
      BY <1>1, <2>1, <2>2, <2>3, ElsewhereKeepsClock
  <1>4. CASE ThreadStep
    <2>1. UNCHANGED <<now, running, at>> /\ Joined'
      <3>1. UNCHANGED <<now, running, at>>
        BY <1>4 DEF ThreadStep, ThreadBegins, RemoveCancelledTasks, FillAddSlot, EnumTaskList,
               Sleep, WakeUp, ThreadGoes, userIdle, userVars, threadVars
      <3>2. QED
        BY <1>4, <3>1, ThreadGone
    <2>2. CASE ThreadBegins
      <3>1. /\ thread = "born" /\ rate_start' = now /\ thread' \in {"step", "off"} /\ Elsewhere
            /\ UNCHANGED <<start_time, tick, skew>>
        BY <2>2 DEF ThreadBegins, ThreadGoes, Onwards, Elsewhere, userIdle, userVars, wheel
      <3>2. Paced'
        BY <1>1, <1>2, <2>1, <3>1 DEF CInv, Paced, Origin
      <3>3. QED
        BY <1>1, <2>1, <3>1, <3>2, ElsewhereKeepsClock
    <2>3. CASE Sleep
      <3>1. /\ thread = "rate" /\ Elsewhere /\ UNCHANGED <<start_time, tick, skew>>
            /\ rate_start' = IF now > rate_start + TickDuration + TickDuration THEN now
                             ELSE rate_start + TickDuration
            /\ IF now > rate_start + TickDuration THEN thread' \in {"step", "off"}
               ELSE thread' = "asleep"
        BY <2>3 DEF Sleep, ThreadGoes, Onwards, Elsewhere, userIdle, userVars, wheel
      <3>2. Paced'
        BY <1>1, <1>2, <2>1, <3>1 DEF CInv, Paced, Origin
      <3>3. QED
        BY <1>1, <2>1, <3>1, <3>2, ElsewhereKeepsClock
    <2>4. CASE WakeUp
      <3>1. /\ thread = "asleep" /\ thread' \in {"step", "off"} /\ now >= rate_start
            /\ Elsewhere /\ UNCHANGED <<start_time, tick, skew, rate_start>>
        BY <2>4 DEF WakeUp, ThreadGoes, Onwards, Elsewhere, userIdle, userVars, wheel
      <3>2. Paced'
        BY <1>1, <1>2, <2>1, <3>1 DEF CInv, Paced, Origin
      <3>3. QED
        BY <1>1, <2>1, <3>1, <3>2, ElsewhereKeepsClock
    <2>5. CASE RemoveCancelledTasks
      <3>1. /\ thread = "step" /\ thread' = "fill" /\ UNCHANGED <<rate_start, tick, task>>
            /\ start_time' = IF start_time = 0 THEN now ELSE start_time
            /\ skew' = IF start_time = 0 THEN now - rate_start ELSE skew
            /\ slots' = [i \in Slots |-> Uncancelled(i)]
        BY <2>5 DEF RemoveCancelledTasks
      <3>2. rate_start <= now /\ (start_time = 0 => tick = 0 /\ skew = 0)
        BY <3>1 DEF CInv, Paced, Unbegun
      <3>3. start_time' # 0 /\ Born' = Born
        BY <1>1, <3>1 DEF Born
      <3>4. Paced'
        BY <1>1, <1>2, <2>1, <3>1, <3>2 DEF CInv, Paced, Origin
      <3>5. Timely'
        <4>1. SUFFICES ASSUME NEW k \in Born
                       PROVE  task[k].init_time + task[k].fire_count * task[k].interval
                                < now + TickDuration + skew'
          BY <2>1, <3>1, <3>3 DEF Timely, CInv
        <4>2. task[k].init_time \in Nat /\ task[k].fire_count * task[k].interval \in Nat
          BY OneMore DEF TypeOK, TimerTask, Born
        <4>3. QED
          BY <1>1, <3>1, <3>2, <4>2 DEF CInv, Timely
      <3>6. DeadlinesExact'
        <4>1. SUFFICES ASSUME NEW i \in Slots, NEW k \in slots'[i]
                       PROVE  task[k].deadline = Unsigned(Due(task[k]) - start_time')
          BY <3>1 DEF DeadlinesExact, Due
        <4>2. k \in slots[i]
          BY <3>1, <4>1 DEF Uncancelled
        <4>3. start_time' = start_time
          BY <3>1, <4>2 DEF CInv, Unbegun
        <4>4. QED
          BY <4>2, <4>3 DEF CInv, DeadlinesExact
      <3>7. QED
        BY <2>1, <3>1, <3>3, <3>4, <3>5, <3>6 DEF CInv, Unbegun, Unfired
    <2>6. CASE FillAddSlot
      <3> DEFINE k == Head(add_queue)
                 x == Timed(task[k], tick)
      <3>1. /\ thread = "fill" /\ UNCHANGED <<threadVars, tick, start_time, skew>>
        BY <2>6 DEF FillAddSlot
      <3>2. /\ k \in Tasks /\ task' = [task EXCEPT ![k] = x]
            /\ \A i \in Slots : \A j \in slots'[i] : j \in slots[i] \/ j = k
        BY <2>6, FillAddDoes
      <3>3. k \in Born /\ ~Seated(k)
        <4>1. add_queue \in Seq(Tasks) /\ add_queue # <<>>
          BY <2>6 DEF FillAddSlot, TypeOK
        <4>2. 1 \in 1..Len(add_queue) /\ k = add_queue[1]
          BY <4>1
        <4>3. QED
          BY <4>2 DEF QueuedOnce
      <3>4. /\ x = [task[k] EXCEPT !.deadline = x.deadline, !.rest_rounds = x.rest_rounds]
            /\ x.deadline = Unsigned(Due(task[k]) - start_time) /\ task[k] \in TimerTask
        <4>1. task[k] \in TimerTask
          BY <1>1, <3>2
        <4> HIDE DEF k
        <4>2. QED
          <5>1. /\ Timed(task[k], tick) = [task[k] EXCEPT
                     !.deadline = Timed(task[k], tick).deadline,
                     !.rest_rounds = Timed(task[k], tick).rest_rounds]
                /\ Timed(task[k], tick).deadline = Unsigned(Due(task[k]) - start_time)
            BY <1>1, <4>1, TimedDoes
          <5>2. QED
            BY <4>1, <5>1, Zenon DEF x
      <3> HIDE DEF k, x
      <3>5. /\ \A j \in Tasks \ {k} : task'[j] = task[j]
            /\ task'[k] = x /\ x.interval = task[k].interval
            /\ x.init_time = task[k].init_time /\ x.fire_count = task[k].fire_count
        BY <1>1, <3>2, <3>4 DEF TimerTask
      <3>6. /\ \A j \in Tasks : /\ task'[j].interval = task[j].interval
                                /\ task'[j].init_time = task[j].init_time
                                /\ task'[j].fire_count = task[j].fire_count
            /\ \A j \in Tasks : Due(task'[j]) = Due(task[j])
        BY <3>5 DEF Due
      <3>7. Born' = Born
        BY <3>6 DEF Born
      <3>8. start_time # 0
        BY <3>1 DEF CInv, Unbegun
      <3>9. Unbegun' /\ Paced' /\ Unfired'
        BY <2>1, <3>1, <3>6, <3>7, <3>8 DEF CInv, Unbegun, Paced, Origin, threadVars, Unfired
      <3>10. Timely'
        <4>1. Born \subseteq Tasks
          BY DEF Born
        <4>2. QED
          BY <2>1, <3>1, <3>6, <3>7, <4>1 DEF CInv, Timely
      <3>11. DeadlinesExact'
        <4>1. SUFFICES ASSUME NEW i \in Slots, NEW j \in slots'[i]
                       PROVE  task'[j].deadline = Unsigned(Due(task'[j]) - start_time)
          BY <3>1 DEF DeadlinesExact
        <4>2. CASE j = k
          BY <3>2, <3>4, <3>5, <3>6, <4>2
        <4>3. CASE j # k
          <5>1. j \in slots[i] /\ j \in Tasks
            BY <1>1, <3>2, <4>1, <4>3
          <5>2. QED
            BY <3>5, <3>6, <4>3, <5>1 DEF CInv, DeadlinesExact
        <4>4. QED
          BY <4>2, <4>3
      <3>12. QED
        BY <2>1, <3>9, <3>10, <3>11 DEF CInv
    <2>7. CASE EnumTaskList
      <3>1. PICK handlers, repeats \in SUBSET Tasks : EnumDoes(handlers, repeats)
        BY <2>7, Enumerated
      <3>2. /\ UNCHANGED <<rate_start, start_time, skew>> /\ tick' = tick + 1
            /\ thread = "fill" /\ thread' = "rate"
        BY <2>7 DEF EnumTaskList
      <3>3. /\ repeats \subseteq Firing /\ Firing \subseteq slots[Hand] /\ Hand \in Slots
            /\ Firing \subseteq Tasks
        BY <1>1, <3>1, Meets DEF EnumDoes, Firing
      <3>4. \A k \in Tasks :
              /\ task'[k].interval = task[k].interval /\ task'[k].init_time = task[k].init_time
              /\ \/ task'[k].fire_count = task[k].fire_count
                 \/ task'[k].fire_count = task[k].fire_count + 1 /\ k \in Firing
              /\ k \in repeats => task'[k].deadline = Unsigned(Due(task'[k]) - start_time)
              /\ k \notin Firing => /\ task'[k].deadline = task[k].deadline
                                    /\ Due(task'[k]) = Due(task[k])
        BY <3>1, EnumTasks
      <3>5. Born' = Born
        BY <3>4 DEF Born
      <3>6. Paced'
        BY <1>1, <1>2, <2>1, <3>2 DEF CInv, Paced, Origin
      <3>7. Unbegun'
        BY <3>2 DEF CInv, Unbegun
      <3>8. Firing \subseteq Born
        BY <3>3 DEF SeatedBorn
      <3>9. Unfired'
        BY <3>4, <3>5, <3>8 DEF CInv, Unfired
      <3>10. Timely'
        <4>1. SUFFICES ASSUME NEW k \in Born
                       PROVE  /\ task'[k].interval <= TIMER_TASK_MAX_INTERVAL
                              /\ task'[k].init_time + task'[k].fire_count * task'[k].interval
                                   < now + TickDuration + skew
          BY <2>1, <3>2, <3>5 DEF Timely
        <4>2. k \in Tasks
          BY DEF Born
        <4>3. CASE k \in Firing /\ task'[k].fire_count = task[k].fire_count + 1
          BY <3>2, <3>4, <4>2, <4>3, FiringDue DEF CInv, Timely, Due
        <4>4. CASE task'[k].fire_count = task[k].fire_count
          BY <3>4, <4>2, <4>4 DEF CInv, Timely
        <4>5. QED
          BY <3>4, <4>2, <4>3, <4>4
      <3>11. DeadlinesExact'
        <4>1. SUFFICES ASSUME NEW i \in Slots, NEW k \in slots'[i]
                       PROVE  task'[k].deadline = Unsigned(Due(task'[k]) - start_time)
          BY <3>2 DEF DeadlinesExact
        <4>2. CASE k \in repeats
          BY <3>3, <3>4, <4>2
        <4>3. CASE k \notin repeats
          <5>1. k \in slots[i] /\ k \in Tasks /\ (i = Hand => k \notin Firing)
            BY <1>1, <3>1, <4>1, <4>3 DEF EnumDoes
          <5>2. k \notin Firing
            <6>1. SUFFICES ASSUME k \in Firing
                           PROVE  i = Hand
              BY <5>1
            <6>2. /\ Exact(task[k], i, tick) /\ Exact(task[k], Hand, tick)
              BY <3>3, <5>1, <6>1 DEF RoundsExact, Exact
            <6>3. QED
              BY <6>2 DEF Exact
          <5>3. QED
            BY <3>4, <5>1, <5>2 DEF CInv, DeadlinesExact
        <4>4. QED
          BY <4>2, <4>3
      <3>12. QED
        BY <2>1, <3>6, <3>7, <3>9, <3>10, <3>11 DEF CInv
    <2>8. QED
      BY <1>4, <2>2, <2>3, <2>4, <2>5, <2>6, <2>7 DEF ThreadStep
  <1>5. QED
    BY <1>3, <1>4

-----------------------------------------------------------------------------
(* The wheel and its clock *)

LEMMA WheelInit == Init => WInv /\ CInv
  <1> SUFFICES ASSUME Init
               PROVE  WInv /\ CInv
    OBVIOUS
  <1> USE WheelAssumption
  <1>1. 0 \in 0..NoId /\ add_queue \in Seq(Tasks) /\ Len(add_queue) = 0
    BY UnsignedDoes DEF Init
  <1>2. task \in [Tasks -> TimerTask]
    <2>1. NewTask \in TimerTask
      BY <1>1 DEF NewTask, TimerTask
    <2>2. QED
      BY <2>1 DEF Init
  <1>3. todo \in [Users -> Seq([call : Calls, timer : Timers])]
    BY PlansAssumption DEF Init
  <1>4. TypeOK
    <2>1. /\ now \in 1..MaxTime /\ timer_id \in [Timers -> 0..NoId]
          /\ id_counter \in 0..NoId /\ seen \in [Users -> 0..NoId]
      BY <1>1 DEF Init
    <2>2. /\ at \in [Users -> Places] /\ mine \in [Users -> Tasks \cup {0}]
          /\ latest \in [Timers -> Tasks \cup {0}] /\ handed \in [Tasks -> Nat]
          /\ slots \in [Slots -> SUBSET Tasks]
      BY DEF Init, Places
    <2>3. QED
      BY <1>1, <1>2, <1>3, <2>1, <2>2 DEF Init, TypeOK
  <1>5. Born = {}
    BY DEF Init, Born, NewTask
  <1>6. WInv
    BY <1>1, <1>4 DEF Init, WInv, Busy, MadeApart, Making, QueuedOnce, SeatedBorn, RoundsExact,
           Leaving
  <1>7. \A k \in Tasks : task[k].fire_count = 0
    BY DEF Init, NewTask
  <1>8. CInv
    BY <1>5, <1>7 DEF Init, CInv, Unbegun, Paced, Timely, DeadlinesExact, Joined, Unfired
  <1>9. QED
    BY <1>6, <1>8

LEMMA WheelStep ==
  ASSUME WInv, CInv, [Next]_vars
  PROVE  WInv' /\ CInv'
  <1>1. CASE Time \/ ThreadStep
    <2>1. TypeOK' /\ CInv'
      BY <1>1, ThreadTypes, ThreadKeepsClock DEF WInv, CInv
    <2>2. MadeApart' /\ QueuedOnce' /\ SeatedBorn' /\ RoundsExact' /\ Leaving' /\ Busy'
      <3>1. CASE RemoveCancelledTasks \/ FillAddSlot \/ EnumTaskList
        BY <3>1, RemoveKeeps, FillAddKeeps, EnumKeeps
      <3>2. CASE Time \/ ThreadBegins \/ Sleep \/ WakeUp
        <4>1. Elsewhere
          BY <3>2 DEF Time, ThreadBegins, Sleep, WakeUp, ThreadGoes, Elsewhere, userIdle,
                      userVars, wheel, history
        <4>2. QED
          BY <4>1, ElsewhereKeeps
      <3>3. QED
        BY <1>1, <3>1, <3>2 DEF ThreadStep
    <2>3. QED
      BY <2>1, <2>2 DEF WInv
  <1>2. CASE \E u \in Users : UserStep(u)
    <2>1. PICK u \in Users : UserStep(u)
      BY <1>2
    <2>2. TypeOK' /\ Busy'
      BY <2>1, UserTypes, UserMoves DEF WInv
    <2>3. QED
      BY <2>1, <2>2, UserKeepsWheel, UserKeepsLeaving, UserKeepsClock DEF WInv
  <1>3. CASE UNCHANGED vars
    <2>1. UNCHANGED <<now, timerVars, threadVars, wheel, id_counter, add_queue, cancelled_list,
                      task, userVars, history>>
      BY <1>3 DEF vars
    <2>2. TypeOK'
      BY <2>1 DEF WInv, TypeOK, timerVars, threadVars, wheel, userVars, history
    <2>3. Elsewhere
      BY <2>1 DEF Elsewhere, userVars, history
    <2>4. CInv'
      BY <2>1 DEF CInv, Unbegun, Paced, Timely, DeadlinesExact, Joined, Unfired, Origin, Born,
                  Due, threadVars, wheel, userVars, history
    <2>5. QED
      BY <2>2, <2>3, <2>4, ElsewhereKeeps DEF WInv
  <1>4. QED
    BY <1>1, <1>2, <1>3 DEF Next

\* The state of the timers is what it is declared to be, the ring indices and
\* the unsigned deadlines and rounds included, a task that is being made, is
\* in the add queue or in a slot is at no other of these places, and the
\* deadlines in the slots are those of FillSlot.
THEOREM InductiveWheel == Spec => [](WInv /\ CInv)
  BY WheelInit, WheelStep, PTL DEF Spec

THEOREM WheelTypes == Spec => []TypeOK
  <1>1. WInv => TypeOK
    BY DEF WInv
  <1>2. QED
    BY <1>1, InductiveWheel, PTL

\* A task in a slot is in the slot of its tick, with as many rounds left as the
\* hand passes it before, however late the wheel is: FillSlot and EnumTaskList
\* never miss a task or put it a turn off, in a wheel of any size but one.
THEOREM RoundsAreExact == Spec => []RoundsExact
  <1>1. WInv => RoundsExact
    BY DEF WInv
  <1>2. QED
    BY <1>1, InductiveWheel, PTL

\* StopTimer of an id whose task is in a slot takes effect with the next
\* RemoveCancelledTasks, whatever the step then under way does with the task.
THEOREM SettledStopsTakeEffect == Spec => []SettledStop
  <1>1. WInv => SettledStop
    BY DEF WInv, Leaving, SettledStop
  <1>2. QED
    BY <1>1, InductiveWheel, PTL

\* EnumTaskList hands no handler to Async a whole tick before its period is
\* over, also when the thread catches up or was shut down in between.
THEOREM NeverEarly == Spec => NotEarly
  <1>1. ASSUME WInv, CInv, [Next]_vars, NEW k \in Tasks, handed'[k] > handed[k]
        PROVE  now + TickDuration + skew > Due(task[k])
    <2>1. handed[k] \in Nat /\ ~(handed[k] > handed[k])
      BY <1>1 DEF WInv, TypeOK
    <2>2. EnumTaskList
      <3>1. CASE \E u \in Users : UserStep(u)
        BY <1>1, <2>1, <3>1, UserLeaves DEF WInv
      <3>2. CASE UNCHANGED vars
        BY <1>1, <2>1, <3>2 DEF vars, history
      <3>3. CASE Time \/ ThreadBegins \/ RemoveCancelledTasks \/ FillAddSlot \/ Sleep \/ WakeUp
        BY <1>1, <2>1, <3>3 DEF Time, ThreadBegins, RemoveCancelledTasks, FillAddSlot, Sleep,
                           WakeUp, ThreadGoes, history
      <3>4. QED
        BY <1>1, <3>1, <3>2, <3>3 DEF Next, ThreadStep
    <2>3. PICK handlers, repeats \in SUBSET Tasks : EnumDoes(handlers, repeats)
      BY <1>1, <2>2, Enumerated DEF WInv
    <2>4. k \in Firing
      BY <1>1, <2>1, <2>3 DEF EnumDoes
    <2>5. thread = "fill"
      BY <2>2 DEF EnumTaskList
    <2>6. Due(task[k]) < now + TickDuration + skew /\ Due(task[k]) \in Nat
      BY <1>1, <2>4, <2>5, FiringDue
    <2>7. now \in Nat /\ TickDuration \in Nat /\ skew \in Nat
      BY <1>1, WheelAssumption DEF WInv, TypeOK
    <2>8. QED
      BY <2>6, <2>7
  <1>2. WInv /\ CInv /\ [Next]_vars =>
          [\A k \in Tasks : handed'[k] > handed[k] => now + TickDuration + skew > Due(task[k])]_vars
    BY <1>1
  <1>3. QED
    BY <1>2, InductiveWheel, PTL DEF Spec, NotEarly

-----------------------------------------------------------------------------
(* The steps and OInv *)

LEMMA Numbers ==
  ASSUME WInv, Alone, Numbered
  PROVE  /\ id_counter \in Nat /\ 1..id_counter \subseteq Born
         /\ \A u \in Users : at[u] = "store" => id_counter + 1 \in Born
         /\ \A k \in Born : \/ k \in 1..id_counter /\ task[k].tid = k
                            \/ \E u \in Users : at[u] = "store" /\ mine[u] = k
         /\ \A k \in Born : Seated(k) \/ Queued(k) => k \in 1..id_counter /\ task[k].tid = k
         /\ \A u \in Users : at[u] = "store" => mine[u] \notin 1..id_counter
         /\ \A k \in Born : k \in 1..MaxTasks
  <1>1. id_counter \in Nat
    BY UnsignedDoes DEF WInv, TypeOK
  <1>2. \A k \in Born : k \in 1..MaxTasks
    BY DEF Born, Tasks
  <1>3. CASE \E u \in Users : at[u] = "store"
    <2>1. PICK u \in Users : at[u] = "store"
      BY <1>3
    <2>2. \A v \in Users : at[v] = "store" => v = u
      BY <2>1 DEF Alone, Numbering
    <2>3. Born = 1..(id_counter + 1) /\ mine[u] = id_counter + 1
      BY <2>1 DEF Numbered
    <2>4. ~Seated(mine[u]) /\ ~Queued(mine[u])
      BY <2>1 DEF WInv, MadeApart, Making
    <2>5. \A k \in Born : k \in 1..id_counter \/ k = mine[u]
      BY <1>1, <2>3
    <2>6. \A k \in 1..id_counter : task[k].tid = k /\ k \in Born
      BY <1>1, <2>3 DEF Numbered
    <2>7. mine[u] \notin 1..id_counter /\ id_counter + 1 \in Born
      BY <1>1, <2>3
    <2>8. QED
      BY <1>1, <1>2, <2>1, <2>2, <2>4, <2>5, <2>6, <2>7
  <1>4. CASE \A u \in Users : at[u] # "store"
    BY <1>1, <1>2, <1>4 DEF Numbered
  <1>5. QED
    BY <1>3, <1>4

LEMMA UserKeepsIds ==
  ASSUME WInv, OInv, Calm', NEW u \in Users, UserStep(u)
  PROVE  Calm /\ Alone' /\ Numbered' /\ Known'
  <1> USE DEF WInv
  <1>1. Calm
    BY DEF Calm, UserStep, Start, Add, Refuse, ReadCounter, WriteCounter, Enqueue, EnqueueFails,
           Undo, Answer, Stop, RemoveTimer, Clear, Destroy, Shutdown, Join, history, TypeOK
  <1>2. Alone /\ Numbered /\ Known /\ HandedOnce /\ Somewhere
    BY <1>1 DEF OInv
  <1>3. /\ id_counter \in Nat /\ 1..id_counter \subseteq Born
        /\ \A k \in Born : k \in 1..MaxTasks
        /\ at[u] = "store" => id_counter + 1 \in Born
    BY <1>2, Numbers
  <1>4. /\ at \in [Users -> Places] /\ at' \in [Users -> Places]
        /\ \A v \in Users \ {u} : at'[v] = at[v]
        /\ Its(u) \in Timers
        /\ timer_id \in [Timers -> 0..NoId] /\ latest \in [Timers -> Tasks \cup {0}]
    BY UserMoves, CallDoes DEF TypeOK
  <1>5. CASE ReadCounter(u)
    <2> DEFINE k == mine'[u]
    <2>1. /\ k \in Tasks \ Born /\ Born' = Born \cup {k}
          /\ \A v \in Users \ {u} : mine'[v] = mine[v]
          /\ \A j \in Tasks \ Born : k <= j
          /\ latest' = [latest EXCEPT ![Its(u)] = k]
      BY <1>5, CountedBorn
    <2> HIDE DEF k
    <2>2. /\ at[u] = "number" /\ at'[u] = "store" /\ seen'[u] = id_counter
          /\ UNCHANGED <<id_counter, timer_id, cancelled_list, stopped>>
          /\ \A v \in Users : ~Numbering(v)
      BY <1>4, <1>5 DEF ReadCounter, Goto, TypeOK, timerVars, Calm, Numbering
    <2>3. Born = 1..id_counter
      BY <1>2, <2>2 DEF Numbered, Numbering
    <2>4. k = id_counter + 1
      <3>1. k \in 1..MaxTasks /\ k \notin 1..id_counter
        BY <2>1, <2>3 DEF Tasks
      <3>2. id_counter + 1 \in Tasks \ Born
        BY <1>3, <2>3, <3>1, WheelAssumption DEF Tasks
      <3>3. QED
        BY <1>3, <2>1, <3>1, <3>2, WheelAssumption
    <2>5. Born' = 1..(id_counter + 1)
      BY <1>3, <2>1, <2>3, <2>4
    <2>6. Alone'
      BY <1>4, <2>2 DEF Alone, Numbering
    <2>7. \A j \in Born : task'[j].tid = task[j].tid
      BY <1>5, UserLeaves DEF ReadCounter, WriteCounter, Born
    <2>8. Numbered'
      <3>1. \A v \in Users : at'[v] = "store" => v = u
        BY <1>4, <2>2 DEF Numbering
      <3>2. \A j \in 1..id_counter : task'[j].tid = j
        BY <1>2, <2>3, <2>7 DEF Numbered
      <3>3. QED
        BY <2>2, <2>4, <2>5, <3>1, <3>2 DEF Numbered, k
    <2>9. Known'
      <3>1. \A t \in Timers : latest'[t] \in Born' \cup {0}
        BY <1>2, <1>4, <2>1 DEF Known
      <3>2. QED
        BY <1>2, <2>1, <2>2, <3>1 DEF Known, Ids
    <2>10. QED
      BY <1>1, <2>6, <2>8, <2>9
  <1>6. CASE WriteCounter(u)
    <2>1. /\ at[u] = "store" /\ at'[u] = "enqueue" /\ id_counter' = Unsigned(seen[u] + 1)
          /\ UNCHANGED <<timer_id, cancelled_list, stopped>>
      BY <1>4, <1>6 DEF WriteCounter, Goto, TypeOK, timerVars, history
    <2>2. Born = 1..(id_counter + 1) /\ mine[u] = id_counter + 1 /\ seen[u] = id_counter
      BY <1>2, <2>1 DEF Numbered
    <2>3. id_counter + 1 \in 1..MaxTasks
      BY <1>3, <2>1
    <2>4. id_counter + 1 \in 0..NoId /\ id_counter + 1 # NoId
      BY <1>3, <2>3, UnsignedDoes, WidthAssumption, WheelAssumption
    <2>5. id_counter' = id_counter + 1
      BY <2>1, <2>2, <2>4, UnsignedDoes
    <2>6. \A v \in Users : Numbering(v) => v = u
      BY <1>2, <2>1 DEF Alone, Numbering
    <2>7. Alone'
      BY <1>4, <2>1, <2>6 DEF Alone, Numbering
    <2>8. Born' = Born /\ mine' = mine /\ latest' = latest
      BY <1>6, UserLeaves DEF WriteCounter, ReadCounter
    <2>9. \A v \in Users : at'[v] # "store"
      BY <1>4, <2>1, <2>6 DEF Numbering
    <2>10. \A k \in 1..id_counter' : task'[k].tid = k
      <3>1. SUFFICES ASSUME NEW k \in 1..id_counter'
                     PROVE  task'[k].tid = k
        OBVIOUS
      <3>2. k \in Born /\ k \in Tasks
        BY <2>2, <2>5, <3>1 DEF Born
      <3>3. CASE k = mine[u]
        <4>1. task' = [task EXCEPT ![k] = [task[k] EXCEPT !.tid = id_counter']]
          BY <1>6, <3>3 DEF WriteCounter
        <4>2. QED
          BY <2>2, <2>5, <3>2, <3>3, <4>1 DEF TypeOK, TimerTask
      <3>4. CASE k # mine[u]
        <4>1. task'[k] = task[k]
          BY <1>6, <3>2, <3>4, UserLeaves DEF WriteCounter, ReadCounter
        <4>2. k \in 1..id_counter
          BY <1>3, <2>2, <2>5, <3>4
        <4>3. QED
          BY <1>2, <4>1, <4>2 DEF Numbered
      <3>5. QED
        BY <3>3, <3>4
    <2>11. Numbered'
      BY <2>2, <2>5, <2>8, <2>9, <2>10 DEF Numbered
    <2>12. Ids \subseteq Ids' /\ id_counter' \notin Ids
      BY <1>3, <2>4, <2>5 DEF Ids
    <2>13. Known'
      <3>1. \A k \in 1..id_counter' : k \in cancelled_list => k \in 1..id_counter
        BY <1>2, <1>3, <2>5, <2>12 DEF Known
      <3>2. QED
        BY <1>2, <2>1, <2>8, <2>12, <3>1 DEF Known
    <2>14. QED
      BY <1>1, <2>7, <2>11, <2>13
  <1>7. CASE ~ReadCounter(u) /\ ~WriteCounter(u)
    <2>1. /\ mine' = mine /\ latest' = latest /\ Born' = Born /\ task' = task
          /\ at'[u] # "store"
      BY <1>7, UserLeaves DEF Making
    <2>2. /\ at[u] # "store" /\ at'[u] # "undo" /\ seen' = seen /\ id_counter' = id_counter
          /\ Numbering(u)' => Numbering(u)
      <3>1. ~EnqueueFails(u)
        BY DEF EnqueueFails, Calm
      <3>2. ~Undo(u)
        BY <1>2 DEF Undo, Alone, Numbering
      <3>3. QED
        BY <1>4, <1>7, <3>1, <3>2 DEF UserStep, Start, Add, Refuse, Enqueue, Answer, Stop,
           RemoveTimer, Clear, Destroy, Shutdown, Join, Goto, Return, Begins, TypeOK, Numbering
    <2>3. Alone'
      BY <1>2, <1>4, <2>2 DEF Alone, Numbering
    <2>4. Numbered'
      BY <1>2, <1>4, <2>1, <2>2 DEF Numbered
    <2>5. timer_id' \in [Timers -> Ids]
      <3>1. timer_id \in [Timers -> Ids] /\ 0 \in Ids /\ NoId \in Ids /\ id_counter \in Ids
        BY <1>2, <1>3, <1>4 DEF Known, Ids
      <3>2. \/ timer_id' = timer_id
            \/ \E n \in {0, NoId, id_counter} : timer_id' = [timer_id EXCEPT ![Its(u)] = n]
        BY <1>7 DEF UserStep, Start, Add, Refuse, Enqueue, EnqueueFails, Undo, Answer, Stop,
           RemoveTimer, Clear, Destroy, Shutdown, Join, timerVars
      <3>3. QED
        BY <3>1, <3>2
    <2>6. /\ cancelled_list' \subseteq Ids /\ stopped' \subseteq Born
          /\ \A k \in 1..id_counter : k \in cancelled_list' => k \in stopped'
      <3>1. CASE UNCHANGED <<cancelled_list, stopped, settled>>
        BY <1>2, <3>1 DEF Known
      <3>2. CASE Cancel(Its(u)) /\ Its(u) \in Timers
        <4>1. /\ cancelled_list' = cancelled_list \cup {timer_id[Its(u)]}
              /\ stopped \subseteq stopped'
              /\ \A k \in Born : task[k].tid = timer_id[Its(u)] /\ timer_id[Its(u)] # 0
                                   => k \in stopped'
              /\ stopped' \subseteq stopped \cup Born \cup ({latest[Its(u)]} \ {0})
          BY <3>2, CancelDoes
        <4>2. timer_id[Its(u)] \in Ids /\ latest[Its(u)] \in Born \cup {0}
          BY <1>2, <3>2 DEF Known
        <4>3. \A k \in 1..id_counter : task[k].tid = k /\ k \in Born /\ k # 0
          BY <1>2, <1>3 DEF Numbered
        <4>4. QED
          BY <1>2, <4>1, <4>2, <4>3 DEF Known
      <3>3. QED
        BY <3>1, <3>2, UserCancels
    <2>7. Known'
      <3>1. Ids' = Ids
        BY <2>2 DEF Ids
      <3>2. QED
        BY <1>2, <2>1, <2>2, <2>5, <2>6, <3>1 DEF Known
    <2>8. QED
      BY <1>1, <2>3, <2>4, <2>7
  <1>8. QED
    BY <1>5, <1>6, <1>7

LEMMA OneSlot ==
  ASSUME RoundsExact, NEW i \in Slots, NEW h \in Slots, NEW k, k \in slots[i], k \in slots[h]
  PROVE  i = h
  BY DEF RoundsExact

LEMMA UserKeepsPlaces ==
  ASSUME WInv, OInv, Calm', NEW u \in Users, UserStep(u)
  PROVE  HandedOnce' /\ Somewhere'
  <1> USE DEF WInv
  <1>1. Alone /\ HandedOnce /\ Somewhere
    BY UserKeepsIds DEF OInv
  <1>2. /\ slots' = slots /\ handed' = handed /\ Born \subseteq Born'
        /\ stopped \subseteq stopped'
        /\ at' \in [Users -> Places]
        /\ \A v \in Users \ {u} : at'[v] = at[v]
        /\ \A v \in Users \ {u} : mine'[v] = mine[v]
    BY UserLeaves, UserMoves, UserCancels, CancelDoes, CountedBorn DEF wheel
  <1>3. \A k : Seated(k)' <=> Seated(k)
    BY <1>2 DEF Seated
  <1>4. \A k \in Born : k \in Tasks /\ task'[k].oneshot = task[k].oneshot
    <2>1. SUFFICES ASSUME NEW k \in Born
                   PROVE  task'[k].oneshot = task[k].oneshot
      BY DEF Born
    <2>2. k \in Tasks /\ task[k] \in TimerTask
      BY DEF Born, TypeOK
    <2>3. task'[k] = task[k] \/ task'[k] = [task[k] EXCEPT !.tid = id_counter']
      BY <2>2, UserLeaves
    <2>4. QED
      BY <2>2, <2>3 DEF TimerTask
  <1>5. ASSUME NEW k \in Tasks, k \in Born' \ Born
        PROVE  ReadCounter(u) /\ k = mine'[u] /\ at'[u] = "store"
    <2>1. ReadCounter(u)
      BY <1>5, UserLeaves
    <2>2. k = mine'[u]
      BY <1>5, <2>1, CountedBorn
    <2>3. at'[u] = "store"
      BY <2>1 DEF ReadCounter, Goto, TypeOK
    <2>4. QED
      BY <2>1, <2>2, <2>3
  <1>6. HandedOnce'
    <2>1. SUFFICES ASSUME NEW k \in Tasks, k \in Born', task'[k].oneshot
                   PROVE  /\ handed[k] <= 1
                          /\ Queued(k)' \/ Seated(k)'
                             \/ (\E v \in Users : Making(v)' /\ mine'[v] = k)
                               => handed[k] = 0
      <3>1. ASSUME NEW k \in Tasks, k \notin Born'
            PROVE  handed[k] = 0
        BY <1>1, <1>2, <3>1 DEF HandedOnce
      <3>2. 0 <= 1
        OBVIOUS
      <3>3. QED
        BY <1>2, <2>1, <3>1, <3>2 DEF HandedOnce
    <2>2. CASE k \notin Born
      BY <1>1, <2>2 DEF HandedOnce
    <2>3. CASE k \in Born
      <3>1. \/ Queued(k) \/ \E v \in Users : Making(v) /\ mine[v] = k
            \/ ~Queued(k)' /\ \A v \in Users : Making(v)' => mine'[v] # k
        BY <2>3, UserSpares
      <3>2. QED
        BY <1>1, <1>3, <1>4, <2>1, <2>3, <3>1 DEF HandedOnce
    <2>4. QED
      BY <2>2, <2>3
  <1>7. \A k : Queued(k) => Queued(k)'
    <2>1. CASE Enqueue(u)
      <3>1. add_queue' = Append(add_queue, mine[u]) /\ add_queue \in Seq(Tasks)
            /\ mine[u] \in Tasks
        BY <2>1 DEF Enqueue, TypeOK, MadeApart, Making, Born
      <3>2. QED
        BY <3>1 DEF Queued, Contains
    <2>2. CASE ~Enqueue(u)
      BY <2>2, UserLeaves DEF Queued
    <2>3. QED
      BY <2>1, <2>2
  <1>8. Somewhere'
    <2>1. SUFFICES ASSUME NEW k \in Born', Accepted(k)', k \notin stopped'
                   PROVE  Queued(k)' \/ Seated(k)' \/ (task'[k].oneshot /\ handed'[k] = 1)
      BY DEF Somewhere
    <2>2. k \in Tasks
      BY DEF Born
    <2>3. k \in Born
      BY <1>5, <2>1, <2>2 DEF Accepted
    <2>4. CASE Accepted(k)
      BY <1>1, <1>2, <1>3, <1>4, <1>7, <2>1, <2>3, <2>4 DEF Somewhere
    <2>5. CASE ~Accepted(k)
      <3>1. PICK v \in Users : mine[v] = k /\ at[v] \in {"store", "enqueue", "undo"}
        BY <2>3, <2>5 DEF Accepted
      <3>2. ~ReadCounter(u)
        <4>1. at[u] = "number" => mine'[v] = k /\ at'[v] = at[v]
          BY <1>2, <3>1
        <4>2. QED
          BY <2>1, <3>1, <4>1 DEF Accepted, ReadCounter
      <3>3. mine' = mine
        BY <3>2, UserLeaves
      <3>4. v = u
        BY <1>2, <2>1, <3>1, <3>3 DEF Accepted
      <3>5. at[u] \in {"store", "enqueue"} /\ at'[u] \notin {"store", "enqueue", "undo"}
        BY <1>1, <2>1, <3>1, <3>3, <3>4 DEF Alone, Numbering, Accepted
      <3>6. Enqueue(u)
        BY <3>5 DEF UserStep, Begins, Start, Add, Refuse, ReadCounter, WriteCounter, Enqueue,
           EnqueueFails, Undo, Answer, Stop, RemoveTimer, Clear, Destroy, Shutdown, Join, Goto,
           TypeOK
      <3>7. add_queue' = Append(add_queue, k) /\ add_queue \in Seq(Tasks)
        BY <3>1, <3>4, <3>6 DEF Enqueue, TypeOK
      <3>8. Queued(k)'
        <4>1. Len(add_queue) + 1 \in 1..Len(add_queue') /\ add_queue'[Len(add_queue) + 1] = k
          BY <2>2, <3>7
        <4>2. QED
          BY <4>1 DEF Queued, Contains
      <3>9. QED
        BY <3>8
    <2>6. QED
      BY <2>4, <2>5
  <1>9. QED
    BY <1>6, <1>8

\* What the thread leaves as it is.
Unnumbered == UNCHANGED <<at, mine, seen, id_counter, timer_id, latest, stopped, clash>>

LEMMA NumbersKept ==
  ASSUME Unnumbered, Alone, Numbered, Known, Born' = Born,
         \A k \in Born : task'[k].tid = task[k].tid, 1..id_counter \subseteq Born,
         cancelled_list' \subseteq cancelled_list
  PROVE  Alone' /\ Numbered' /\ Known'
  <1> USE DEF Unnumbered
  <1>1. Alone'
    BY DEF Alone, Numbering
  <1>2. Numbered'
    BY DEF Numbered
  <1>3. Known'
    BY DEF Known, Ids
  <1>4. QED
    BY <1>1, <1>2, <1>3

LEMMA ThreadKeepsIds ==
  ASSUME WInv, OInv, Time \/ ThreadStep \/ UNCHANGED vars
  PROVE  OInv'
  <1> USE DEF WInv
  <1>1. SUFFICES ASSUME Calm'
                 PROVE  Alone' /\ Numbered' /\ Known' /\ HandedOnce' /\ Somewhere'
    BY DEF OInv
  <1>2. Unnumbered
    BY DEF Time, ThreadStep, ThreadBegins, RemoveCancelledTasks, FillAddSlot, EnumTaskList,
           Sleep, WakeUp, ThreadGoes, userIdle, vars, timerVars, userVars, history, Unnumbered
  <1>3. Calm
    BY <1>1, <1>2 DEF Calm, Unnumbered, Time, ThreadStep, ThreadBegins, RemoveCancelledTasks,
           FillAddSlot, EnumTaskList, Sleep, WakeUp, ThreadGoes, vars, history, TypeOK
  <1>4. Alone /\ Numbered /\ Known /\ HandedOnce /\ Somewhere
    BY <1>3 DEF OInv
  <1>5. /\ id_counter \in Nat /\ 1..id_counter \subseteq Born /\ Born \subseteq Tasks
        /\ \A k \in Born : Seated(k) \/ Queued(k) => k \in 1..id_counter /\ task[k].tid = k
        /\ \A k : Queued(k) => k \in Born /\ ~Seated(k)
        /\ \A k : Seated(k) => k \in Born
    BY <1>4, Numbers DEF QueuedOnce, Queued, Contains, SeatedBorn, Seated, Born
  <1>6. CASE UNCHANGED <<slots, add_queue, cancelled_list, task, handed>>
    <2>1. Born' = Born
      BY <1>6 DEF Born
    <2>2. Alone' /\ Numbered' /\ Known'
      BY <1>2, <1>4, <1>5, <1>6, <2>1, NumbersKept
    <2>3. HandedOnce' /\ Somewhere'
      BY <1>2, <1>4, <1>6, <2>1 DEF HandedOnce, Somewhere, Accepted, Queued, Seated, Making,
         Unnumbered
    <2>4. QED
      BY <2>2, <2>3
  <1>7. CASE RemoveCancelledTasks
    <2>1. /\ UNCHANGED <<task, add_queue, handed>>
          /\ slots' = [i \in Slots |-> Uncancelled(i)] /\ cancelled_list' = {}
      BY <1>7 DEF RemoveCancelledTasks
    <2>2. Born' = Born
      BY <2>1 DEF Born
    <2>3. Alone' /\ Numbered' /\ Known'
      BY <1>2, <1>4, <1>5, <2>1, <2>2, NumbersKept
    <2>4. \A k : /\ Seated(k)' => Seated(k)
                 /\ Seated(k) /\ task[k].tid \notin cancelled_list => Seated(k)'
      BY <2>1 DEF Seated, Uncancelled
    <2>5. HandedOnce'
      BY <1>2, <1>4, <2>1, <2>2, <2>4 DEF HandedOnce, Queued, Making, Unnumbered
    <2>6. \A k \in Born : Seated(k) /\ k \notin stopped => Seated(k)'
      BY <1>4, <1>5, <2>4 DEF Known
    <2>7. Somewhere'
      BY <1>2, <1>4, <2>1, <2>2, <2>6 DEF Somewhere, Accepted, Queued, Unnumbered
    <2>8. QED
      BY <2>3, <2>5, <2>7
  <1>8. CASE FillAddSlot
    <2>1. PICK k \in Tasks : k = Head(add_queue)
      BY <1>8, FillAddDoes
    <2> DEFINE x == Timed(task[k], tick)
    <2>2. /\ add_queue' = Tail(add_queue)
          /\ task' = [task EXCEPT ![k] = x] /\ task' \in [Tasks -> TimerTask]
          /\ \A i \in Slots : slots[i] \subseteq slots'[i]
          /\ \A i \in Slots : \A j \in slots'[i] : j \in slots[i] \/ j = k
          /\ (\A i \in Slots : \A j \in slots[i] : task'[j].tid # task[k].tid)
               => k \in slots'[SlotOf(x, tick)]
      BY <1>8, <2>1, FillAddDoes
    <2>3. /\ x \in TimerTask /\ SlotOf(x, tick) \in Slots
          /\ x = [task[k] EXCEPT !.deadline = x.deadline, !.rest_rounds = x.rest_rounds]
          /\ task[k] \in TimerTask
      BY <2>2, TimedDoes DEF TypeOK
    <2>4. /\ add_queue \in Seq(Tasks) /\ add_queue # <<>> /\ k = add_queue[1]
          /\ task \in [Tasks -> TimerTask]
          /\ UNCHANGED <<handed, cancelled_list>>
      BY <1>8, <2>1 DEF FillAddSlot, TypeOK
    <2>5. /\ Queued(k) /\ \A j : Queued(j)' => Queued(j)
          /\ \A j : Queued(j) => Queued(j)' \/ j = k
      <3>1. /\ Len(add_queue) \in Nat /\ 1 \in 1..Len(add_queue)
            /\ Len(add_queue') = Len(add_queue) - 1
            /\ \A i \in 1..Len(add_queue') :
                 i + 1 \in 1..Len(add_queue) /\ add_queue'[i] = add_queue[i + 1]
        BY <2>2, <2>4
      <3>2. \A i \in 1..Len(add_queue) :
              i = 1 \/ (i - 1 \in 1..Len(add_queue') /\ add_queue[i] = add_queue'[i - 1])
        BY <3>1
      <3>3. QED
        BY <2>4, <3>1, <3>2 DEF Queued, Contains
    <2> HIDE DEF x
    <2>6. /\ \A j \in Tasks \ {k} : task'[j] = task[j]
          /\ task'[k] = x /\ x.tid = task[k].tid /\ x.interval = task[k].interval
          /\ x.oneshot = task[k].oneshot
      BY <2>2, <2>3, <2>4 DEF TimerTask
    <2>7. \A j \in Tasks : /\ task'[j].tid = task[j].tid /\ task'[j].oneshot = task[j].oneshot
                           /\ task'[j].interval = task[j].interval
      BY <2>6
    <2>8. Born' = Born
      BY <2>7 DEF Born
    <2>9. Alone' /\ Numbered' /\ Known'
      BY <1>2, <1>4, <1>5, <2>4, <2>7, <2>8, NumbersKept
    <2>10. \A i \in Slots : \A j \in slots[i] : task'[j].tid # task[k].tid
      <3>1. SUFFICES ASSUME NEW i \in Slots, NEW j \in slots[i]
                     PROVE  task'[j].tid # task[k].tid
        OBVIOUS
      <3>2. Seated(j) /\ j \in Born /\ j \in Tasks
        BY <1>5 DEF Seated
      <3>3. task'[j].tid = j /\ task[k].tid = k /\ j # k
        BY <1>5, <2>5, <2>7, <3>2
      <3>4. QED
        BY <3>3
    <2>11. /\ \A j : Seated(j) => Seated(j)'
           /\ \A j : Seated(j)' => Seated(j) \/ j = k
           /\ Seated(k)'
      BY <2>2, <2>3, <2>10 DEF Seated
    <2>12. HandedOnce'
      BY <1>2, <1>4, <2>4, <2>5, <2>7, <2>8, <2>11 DEF HandedOnce, Making, Unnumbered
    <2>13. Somewhere'
      <3>1. \A j \in Born : Queued(j) \/ Seated(j) => Queued(j)' \/ Seated(j)'
        BY <2>5, <2>11
      <3>2. \A j \in Born : Accepted(j)' => Accepted(j)
        BY <1>2, <2>8 DEF Accepted, Unnumbered
      <3>3. QED
        BY <1>2, <1>4, <1>5, <2>4, <2>7, <2>8, <3>1, <3>2 DEF Somewhere, Unnumbered
    <2>14. QED
      BY <2>9, <2>12, <2>13
  <1>9. CASE EnumTaskList
    <2>1. PICK handlers, repeats \in SUBSET Tasks : EnumDoes(handlers, repeats)
      BY <1>9, Enumerated
    <2>2. /\ UNCHANGED <<add_queue, cancelled_list>>
          /\ tick \in Nat /\ handed \in [Tasks -> Nat]
      BY <1>9 DEF EnumTaskList, TypeOK
    <2>3. handlers = Firing /\ repeats = {k \in Firing : Periodic(k)}
      BY <1>1, <2>1 DEF EnumDoes, Calm
    <2>4. \A j \in Tasks : /\ task'[j].tid = task[j].tid /\ task'[j].oneshot = task[j].oneshot
                           /\ task'[j].interval = task[j].interval
      <3>1. SUFFICES ASSUME NEW j \in Tasks
                     PROVE  /\ task'[j].tid = task[j].tid /\ task'[j].oneshot = task[j].oneshot
                            /\ task'[j].interval = task[j].interval
        OBVIOUS
      <3>2. task'[j].tid = task[j].tid
        BY <2>1 DEF EnumDoes
      <3>3. task'[j].oneshot = task[j].oneshot /\ task'[j].interval = task[j].interval
        BY <2>1, EnumTasks
      <3>4. QED
        BY <3>2, <3>3
    <2>5. Born' = Born
      BY <2>4 DEF Born
    <2>6. Alone' /\ Numbered' /\ Known'
      BY <1>2, <1>4, <1>5, <2>2, <2>4, <2>5, NumbersKept
    <2>7. Hand \in Slots /\ Firing \subseteq slots[Hand] /\ \A k \in Firing : Seated(k)
      BY Meets DEF Firing, Seated
    <2>8. \A i, h \in Slots : \A j \in slots[i], k \in slots[h] :
            task[j].tid = task[k].tid => j = k /\ i = h
      <3>1. SUFFICES ASSUME NEW i \in Slots, NEW h \in Slots, NEW j \in slots[i],
                            NEW k \in slots[h], task[j].tid = task[k].tid
                     PROVE  j = k /\ i = h
        OBVIOUS
      <3>2. Seated(j) /\ Seated(k)
        BY DEF Seated
      <3>3. j = k
        BY <1>5, <3>1, <3>2
      <3>4. QED
        BY <3>3, OneSlot
    <2>9. /\ \A i \in Slots : \A k \in slots'[i] :
               \/ k \in slots[i] /\ (i = Hand => k \notin Firing)
               \/ k \in repeats
          /\ \A i \in Slots : \A k \in slots[i] : (i = Hand => k \notin Firing) => k \in slots'[i]
          /\ \A k \in repeats : k \in slots'[SlotOf(task'[k], tick + 1)]
          /\ \A k \in Tasks : handed'[k] = IF k \in Firing THEN handed[k] + 1 ELSE handed[k]
          /\ task' \in [Tasks -> TimerTask]
      BY <2>1, <2>3, <2>8 DEF EnumDoes
    <2>10. /\ \A k : Seated(k) /\ k \notin Firing => Seated(k)'
           /\ \A k : Seated(k)' => Seated(k)
           /\ \A k \in Firing : Periodic(k) => Seated(k)'
           /\ \A k \in Firing : ~Periodic(k) => ~Seated(k)'
      <3>1. \A k : Seated(k) /\ k \notin Firing => Seated(k)'
        BY <2>9 DEF Seated
      <3>2. \A k : Seated(k)' => Seated(k)
        BY <2>3, <2>7, <2>9 DEF Seated
      <3>3. ASSUME NEW k \in Firing, Periodic(k)
            PROVE  Seated(k)'
        <4>1. k \in repeats /\ k \in Tasks
          BY <1>5, <2>3, <2>7, <3>3
        <4>2. SlotOf(task'[k], tick + 1) \in Slots
          <5>1. Ticks(task'[k]) \in Nat /\ tick + 1 \in Nat
            BY <2>2, <2>9, <4>1, TicksDoes
          <5> DEFINE n == IF Ticks(task'[k]) < tick + 1 THEN tick + 1 ELSE Ticks(task'[k])
          <5>2. n \in Int
            BY <5>1
          <5> HIDE DEF n
          <5>3. n % TIMING_WHEEL_SIZE \in Slots
            BY <5>2, Division, WheelAssumption DEF Slots
          <5>4. QED
            BY <5>3 DEF SlotOf, n
        <4>3. QED
          BY <2>9, <4>1, <4>2 DEF Seated
      <3>4. ASSUME NEW k \in Firing, ~Periodic(k), Seated(k)'
            PROVE  FALSE
        <4>1. PICK i \in Slots : k \in slots'[i]
          BY <3>4 DEF Seated
        <4>2. k \in slots[i] /\ i # Hand
          BY <2>3, <2>9, <3>4, <4>1
        <4>3. QED
          BY <2>7, <3>4, <4>2, OneSlot
      <3>5. QED
        BY <3>1, <3>2, <3>3, <3>4
    <2>11. \A k : Queued(k)' <=> Queued(k)
      BY <2>2 DEF Queued
    <2>12. \A k \in Firing : task[k].oneshot => handed[k] = 0 /\ handed'[k] = 1
      BY <1>4, <1>5, <2>7, <2>9 DEF HandedOnce
    <2>13. HandedOnce'
      <3>1. SUFFICES ASSUME NEW k \in Tasks, k \in Born => task[k].oneshot
                     PROVE  /\ k \notin Born => handed'[k] = 0
                            /\ handed'[k] <= 1
                            /\ Queued(k)' \/ Seated(k)'
                               \/ (\E u \in Users : Making(u)' /\ mine'[u] = k)
                                 => handed'[k] = 0
        <4>1. \A k \in Tasks : task'[k].oneshot = task[k].oneshot
          BY <2>4
        <4>2. QED
          BY <2>5, <3>1, <4>1 DEF HandedOnce
      <3>2. \A u \in Users : (Making(u)' <=> Making(u)) /\ mine'[u] = mine[u]
        BY <1>2 DEF Making, Unnumbered
      <3>3. CASE k \in Firing
        <4>1. k \in Born /\ Seated(k) /\ task[k].oneshot
          BY <1>5, <2>7, <3>1, <3>3
        <4>2. ~Queued(k) /\ ~Seated(k)'
          BY <1>5, <2>10, <3>3, <4>1 DEF Periodic
        <4>3. \A u \in Users : Making(u) => mine[u] # k
          BY <4>1 DEF MadeApart
        <4>4. QED
          BY <2>11, <2>12, <3>2, <3>3, <4>1, <4>2, <4>3
      <3>4. CASE k \notin Firing
        <4>1. handed'[k] = handed[k]
          BY <2>9, <3>4
        <4>2. k \notin Born => handed[k] = 0 /\ 0 <= 1
          BY <1>4 DEF HandedOnce
        <4>3. QED
          BY <1>4, <2>10, <2>11, <3>1, <3>2, <4>1, <4>2 DEF HandedOnce
      <3>5. QED
        BY <3>3, <3>4
    <2>14. Somewhere'
      <3>1. SUFFICES ASSUME NEW k \in Born, Accepted(k), k \notin stopped
                     PROVE  Queued(k)' \/ Seated(k)' \/ (task[k].oneshot /\ handed'[k] = 1)
        <4>1. \A k \in Born : k \in Tasks /\ (Accepted(k)' => Accepted(k))
          BY <1>2, <1>5, <2>5 DEF Accepted, Unnumbered
        <4>2. QED
          BY <1>2, <2>4, <2>5, <3>1, <4>1 DEF Somewhere, Unnumbered
      <3>2. Queued(k) \/ Seated(k) \/ (task[k].oneshot /\ handed[k] = 1)
        BY <1>4, <3>1 DEF Somewhere
      <3>3. CASE k \in Firing
        BY <2>10, <2>12, <3>3 DEF Periodic
      <3>4. CASE k \notin Firing
        BY <1>5, <2>9, <2>10, <2>11, <3>2, <3>4
      <3>5. QED
        BY <3>3, <3>4
    <2>15. QED
      BY <2>6, <2>13, <2>14
  <1>10. CASE Time \/ ThreadBegins \/ Sleep \/ WakeUp \/ UNCHANGED vars
    <2>1. UNCHANGED <<slots, add_queue, cancelled_list, task, handed>>
      BY <1>10 DEF Time, ThreadBegins, Sleep, WakeUp, ThreadGoes, vars, wheel, history
    <2>2. QED
      BY <1>6, <2>1
  <1>11. QED
    BY <1>7, <1>8, <1>9, <1>10 DEF ThreadStep

LEMMA IdsInit == Init => OInv
  <1> SUFFICES ASSUME Init
               PROVE  OInv
    OBVIOUS
  <1>2. Born = {}
    BY DEF Init, Born, NewTask
  <1>3. Alone /\ Numbered
    BY <1>2 DEF Init, Alone, Numbering, Numbered
  <1>4. Known
    BY <1>2 DEF Init, Known, Ids
  <1>5. \A k \in Tasks : ~task[k].oneshot
    BY DEF Init, NewTask
  <1>6. HandedOnce /\ Somewhere
    BY <1>2, <1>5 DEF Init, HandedOnce, Somewhere
  <1>7. QED
    BY <1>3, <1>4, <1>6 DEF OInv

LEMMA PlacesApart ==
  ASSUME WInv, OInv
  PROVE  OnePlace
  <1>1. SUFFICES ASSUME Calm, NEW k \in Born
                 PROVE  LET places == {i \in Slots : k \in slots[i]} IN
                        /\ \A i, j \in places : i = j
                        /\ ~(Queued(k) /\ places # {})
                        /\ task[k].oneshot =>
                             handed[k] <= 1 /\ (handed[k] = 1 => ~Queued(k) /\ places = {})
                        /\ Accepted(k) /\ k \notin stopped =>
                             Queued(k) \/ places # {} \/ (task[k].oneshot /\ handed[k] = 1)
    BY DEF OnePlace, Calm
  <1> DEFINE places == {i \in Slots : k \in slots[i]}
  <1>2. HandedOnce /\ Somewhere /\ k \in Tasks
    BY <1>1 DEF OInv, Born
  <1>3. Seated(k) <=> places # {}
    BY DEF Seated
  <1>4. \A i, j \in places : i = j
    BY OneSlot DEF WInv
  <1>5. ~(Queued(k) /\ Seated(k))
    BY DEF WInv, QueuedOnce, Queued, Contains
  <1>6. task[k].oneshot => handed[k] <= 1 /\ (handed[k] = 1 => ~Queued(k) /\ ~Seated(k))
    BY <1>2 DEF HandedOnce
  <1>7. Accepted(k) /\ k \notin stopped =>
          Queued(k) \/ Seated(k) \/ (task[k].oneshot /\ handed[k] = 1)
    BY <1>2 DEF Somewhere
  <1> HIDE DEF places
  <1>8. QED
    BY <1>3, <1>4, <1>5, <1>6, <1>7 DEF places

\* Where calls of StartTimer do not overlap and no queue gets full, every timer
\* that StartTimer accepted and nobody stopped is in the add queue or in one
\* slot, never in both, until a oneshot was handed to Async, once: the moves
\* between add queue, slot and repeat queue lose no timer and double none.
THEOREM OneTimerOnePlace == Spec => []OnePlace
  <1>1. WInv /\ CInv /\ OInv /\ [Next]_vars => OInv'
    <2>1. ASSUME WInv, OInv, NEW u \in Users, UserStep(u)
          PROVE  OInv'
      BY <2>1, UserKeepsIds, UserKeepsPlaces DEF OInv
    <2>2. QED
      BY <2>1, ThreadKeepsIds DEF Next
  <1>2. WInv /\ OInv => OnePlace
    BY PlacesApart
  <1>3. QED
    BY <1>1, <1>2, IdsInit, InductiveWheel, PTL DEF Spec
=============================================================================
