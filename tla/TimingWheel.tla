----------------------------- MODULE TimingWheel -----------------------------
(***************************************************************************)
(* Timers: Timer objects (timer/timer.cpp), the manager with the thread    *)
(* that steps the wheel at a rate (timer/timer_manager.cpp, time/rate.cpp) *)
(* and the wheel itself (timer/timing_wheel.cpp, timer/timing_slot.cpp).   *)
(*                                                                         *)
(* Time is counted in units of which a tick has TickDuration; intervals are*)
(* given in the same unit.  The bounded queues are the sequences that      *)
(* module BoundedQueue shows them to be.  A handler is done with when it   *)
(* has been handed to Async.                                               *)
(***************************************************************************)
EXTENDS Integers, SequencesExt

CONSTANTS Users,             \* the threads that start and stop timers
          Timers,            \* Timer objects
          Period, Oneshot,   \* their TimerOption
          Plans,             \* the calls each user makes, one after another
          TickDuration, TIMING_WHEEL_SIZE, BOUNDED_QUEUE_SIZE,
          TIMER_TASK_MAX_INTERVAL,
          UINT64_MAX,        \* the greatest unsigned number
          MaxTasks, MaxTime  \* bounds: the tasks made, and the time

Calls == {"Start", "Stop", "Destroy", "Shutdown"}
Tasks == 1..MaxTasks
Slots == 0..(TIMING_WHEEL_SIZE - 1)
Unsigned(n) == n % (UINT64_MAX + 1)

ASSUME WheelAssumption == /\ TickDuration \in Nat \ {0}
                          /\ TIMING_WHEEL_SIZE \in Nat \ {0, 1}
                          /\ BOUNDED_QUEUE_SIZE \in Nat
                          /\ TIMER_TASK_MAX_INTERVAL \in Nat
                          /\ MaxTasks \in Nat /\ MaxTime \in Nat \ {0}
                          /\ UINT64_MAX \in Nat
\* No counter of timers, or of nanoseconds since the epoch, gets to its end.
ASSUME WidthAssumption ==
  /\ MaxTasks < UINT64_MAX
  /\ 2 * MaxTime + TickDuration + TIMER_TASK_MAX_INTERVAL <= UINT64_MAX
ASSUME TimersAssumption == /\ Period \in [Timers -> Nat]
                           /\ Oneshot \in [Timers -> BOOLEAN]
ASSUME PlansAssumption ==
  Plans \subseteq [Users -> Seq([call : Calls, timer : Timers])]

VARIABLES
  now,
  \* Timer
  started, timer_id,
  \* TimerManager and its thread
  running, thread, rate_start,
  \* TimingWheel
  id_counter, tick, start_time, slots, add_queue, cancelled_list,
  \* TimerTask
  task,
  \* users
  at, todo,
  seen,      \* the value of id_counter_ read by an operator ++ or --
  mine,      \* the task a user is making
  \* history
  latest,    \* the task each Timer made last
  handed,    \* how often the handler of each task went to Async
  stopped,   \* the tasks whose Timer or whose id was stopped,
  settled,   \* and those that were in a slot when their id was
  overrun,   \* has a queue been full?
  clash,     \* have two calls of StartTimer overlapped?
  skew       \* how late the first Step came after its Rate

timerVars == <<started, timer_id>>
threadVars == <<running, thread, rate_start>>
wheel == <<tick, start_time, slots>>
userVars == <<at, todo, seen, mine>>
history == <<latest, handed, stopped, settled, overrun, clash, skew>>
vars == <<now, timerVars, threadVars, wheel, id_counter, add_queue,
          cancelled_list, task, userVars, history>>

\* -1 as an id.
NoId == Unsigned(-1)

NewTask == [tid |-> 0, init_time |-> 0, interval |-> 0, oneshot |-> FALSE,
            deadline |-> 0, rest_rounds |-> 0, fire_count |-> 0]

Init ==
  /\ now = 1
  /\ started = [t \in Timers |-> FALSE] /\ timer_id = [t \in Timers |-> 0]
  /\ running = FALSE /\ thread = "off" /\ rate_start = 0
  /\ id_counter = 0 /\ tick = 0 /\ start_time = 0
  /\ slots = [i \in Slots |-> {}]
  /\ add_queue = <<>> /\ cancelled_list = {}
  /\ task = [k \in Tasks |-> NewTask]
  /\ at = [u \in Users |-> "idle"] /\ todo \in Plans
  /\ seen = [u \in Users |-> 0] /\ mine = [u \in Users |-> 0]
  /\ latest = [t \in Timers |-> 0] /\ handed = [k \in Tasks |-> 0]
  /\ stopped = {} /\ settled = {} /\ overrun = FALSE
  /\ clash = FALSE /\ skew = 0

Time == /\ now < MaxTime
        /\ now' = now + 1
        /\ UNCHANGED <<timerVars, threadVars, wheel, id_counter, add_queue,
                       cancelled_list, task, userVars, history>>

-----------------------------------------------------------------------------
(* The calls of the users. *)

Call(u) == Head(todo[u])
Its(u) == Call(u).timer
Begins(u, name) == at[u] = "idle" /\ todo[u] # <<>> /\ Call(u).call = name
Goto(u, place) == at' = [at EXCEPT ![u] = place] /\ UNCHANGED todo
Return(u) == /\ at' = [at EXCEPT ![u] = "idle"]
             /\ todo' = [todo EXCEPT ![u] = Tail(@)]

wheelIdle == <<now, threadVars, wheel>>

\* Timer::Start
Start(u) ==
  /\ Begins(u, "Start")
  /\ IF started[Its(u)] THEN Return(u) ELSE Goto(u, "add")
  /\ started' = [started EXCEPT ![Its(u)] = TRUE]
  /\ UNCHANGED <<wheelIdle, timer_id, id_counter, add_queue, cancelled_list,
                 task, seen, mine, history>>

\* TimerManager::Add, which starts the thread if it does not run; Shutdown
\* holds running_mutex_ until it has joined the thread.
Add(u) ==
  /\ at[u] = "add"
  /\ running \/ \A v \in Users : at[v] # "join"
  /\ running' = TRUE
  /\ thread' = IF running THEN thread ELSE "born"
  /\ Goto(u, "number")
  /\ UNCHANGED <<now, timerVars, wheel, rate_start, id_counter, add_queue,
                 cancelled_list, task, seen, mine, history>>

BadInterval(t) == Period[t] > TIMER_TASK_MAX_INTERVAL \/ Period[t] < TickDuration

RefuseSigned(u) ==     \* mutant
  /\ at[u] = "number" /\ BadInterval(Its(u))
  /\ timer_id' = [timer_id EXCEPT ![Its(u)] = -1]
  /\ Return(u)
  /\ UNCHANGED <<wheelIdle, started, id_counter, add_queue, cancelled_list,
                 task, seen, mine, history>>

Refuse(u) ==
  /\ at[u] = "number" /\ BadInterval(Its(u))
  /\ timer_id' = [timer_id EXCEPT ![Its(u)] = NoId]
  /\ Return(u)
  /\ UNCHANGED <<wheelIdle, started, id_counter, add_queue, cancelled_list,
                 task, seen, mine, history>>

Born == {k \in Tasks : task[k].interval # 0}

\* StartTimer makes the task.  "++id_counter_" reads and writes a counter that
\* no lock protects, so it is two steps.
ReadCounter(u) ==
  /\ at[u] = "number" /\ ~BadInterval(Its(u))
  /\ \E k \in Tasks \ Born :
       /\ \A j \in Tasks \ Born : k <= j
       /\ task' = [task EXCEPT ![k] = [@ EXCEPT !.init_time = now,
                                                !.interval = Period[Its(u)],
                                                !.oneshot = Oneshot[Its(u)]]]
       /\ mine' = [mine EXCEPT ![u] = k]
       /\ latest' = [latest EXCEPT ![Its(u)] = k]
  /\ seen' = [seen EXCEPT ![u] = id_counter]
  /\ clash' = (clash \/ \E v \in Users : at[v] \in {"store", "enqueue", "undo", "answer"})
  /\ Goto(u, "store")
  /\ UNCHANGED <<wheelIdle, timerVars, id_counter, add_queue, cancelled_list,
                 handed, stopped, settled, overrun, skew>>

WriteCounter(u) ==
  /\ at[u] = "store"
  /\ id_counter' = Unsigned(seen[u] + 1)
  /\ task' = [task EXCEPT ![mine[u]].tid = id_counter']
  /\ Goto(u, "enqueue")
  /\ UNCHANGED <<wheelIdle, timerVars, add_queue, cancelled_list, seen, mine, history>>

Enqueue(u) ==
  /\ at[u] = "enqueue" /\ Len(add_queue) < BOUNDED_QUEUE_SIZE
  /\ add_queue' = Append(add_queue, mine[u])
  /\ Goto(u, "answer")
  /\ UNCHANGED <<wheelIdle, timerVars, id_counter, cancelled_list, task, seen, mine, history>>

\* The queue is full: "--id_counter_" begins.
EnqueueFails(u) ==
  /\ at[u] = "enqueue" /\ Len(add_queue) >= BOUNDED_QUEUE_SIZE
  /\ seen' = [seen EXCEPT ![u] = id_counter]
  /\ overrun' = TRUE
  /\ Goto(u, "undo")
  /\ UNCHANGED <<wheelIdle, timerVars, id_counter, add_queue, cancelled_list, task,
                 mine, latest, handed, stopped, settled, clash, skew>>

Undo(u) ==
  /\ at[u] = "undo"
  /\ id_counter' = Unsigned(seen[u] - 1)
  /\ timer_id' = [timer_id EXCEPT ![Its(u)] = NoId]
  /\ Return(u)
  /\ UNCHANGED <<wheelIdle, started, add_queue, cancelled_list, task, seen, mine, history>>

\* "return id_counter_", the counter as it is now.
Answer(u) ==
  /\ at[u] = "answer"
  /\ timer_id' = [timer_id EXCEPT ![Its(u)] = id_counter]
  /\ Return(u)
  /\ UNCHANGED <<wheelIdle, started, id_counter, add_queue, cancelled_list, task,
                 seen, mine, history>>

\* Timer::Stop
Stop(u) ==
  /\ Begins(u, "Stop")
  /\ IF started[Its(u)] THEN Goto(u, "remove") ELSE Return(u)
  /\ started' = [started EXCEPT ![Its(u)] = FALSE]
  /\ UNCHANGED <<wheelIdle, timer_id, id_counter, add_queue, cancelled_list,
                 task, seen, mine, history>>

Seated(k) == \E i \in Slots : k \in slots[i]

\* StopTimer of the id that Timer t keeps, which need not be the id of the task
\* it made last.
Cancel(t) ==
  LET named == {k \in Born : timer_id[t] # 0 /\ task[k].tid = timer_id[t]} IN
  /\ cancelled_list' = cancelled_list \cup {timer_id[t]}
  /\ stopped' = stopped \cup named \cup ({latest[t]} \ {0})
  /\ settled' = settled \cup {k \in named : Seated(k)}

RemoveTimer(u) ==
  /\ at[u] = "remove"
  /\ Cancel(Its(u))
  /\ Goto(u, "clear")
  /\ UNCHANGED <<wheelIdle, timerVars, id_counter, add_queue, task, seen, mine,
                 latest, handed, overrun, clash, skew>>

Clear(u) ==
  /\ at[u] = "clear"
  /\ timer_id' = [timer_id EXCEPT ![Its(u)] = 0]
  /\ Return(u)
  /\ UNCHANGED <<wheelIdle, started, id_counter, add_queue, cancelled_list, task,
                 seen, mine, history>>

\* Timer::~Timer, by the user that owns the Timer.
Destroy(u) ==
  /\ Begins(u, "Destroy")
  /\ IF timer_id[Its(u)] # 0 THEN Cancel(Its(u))
                             ELSE UNCHANGED <<cancelled_list, stopped, settled>>
  /\ Return(u)
  /\ UNCHANGED <<wheelIdle, timerVars, id_counter, add_queue, task, seen, mine,
                 latest, handed, overrun, clash, skew>>

\* TimerManager::Shutdown
Shutdown(u) ==
  /\ Begins(u, "Shutdown")
  /\ \A v \in Users : at[v] # "join"
  /\ IF running THEN Goto(u, "join") ELSE Return(u)
  /\ running' = FALSE
  /\ UNCHANGED <<now, timerVars, thread, rate_start, wheel, id_counter, add_queue,
                 cancelled_list, task, seen, mine, history>>

Join(u) ==
  /\ at[u] = "join" /\ thread = "off"
  /\ Return(u)
  /\ UNCHANGED <<wheelIdle, timerVars, id_counter, add_queue, cancelled_list, task,
                 seen, mine, history>>

-----------------------------------------------------------------------------
(* TimingWheel::Step, which only the thread of the manager calls. *)

userIdle == <<now, timerVars, running, id_counter, userVars, latest, stopped,
              settled, clash>>

\* The tick at which task x is due.
Ticks(x) == x.deadline \div TickDuration

TimedFromLast(x, n) ==     \* mutant
  LET d == Unsigned(x.init_time + x.fire_count * x.interval - start_time)
      t == d \div TickDuration
  IN [x EXCEPT !.deadline = d,
               !.rest_rounds = IF t < n THEN 0 ELSE (t - n) \div TIMING_WHEEL_SIZE]

\* The end of the period that x is in.
Due(x) == x.init_time + (x.fire_count + 1) * x.interval

\* Task x as FillSlot leaves it at tick n: its deadline counts from the first
\* Step, and its rounds from tick n.
Timed(x, n) ==
  LET d == Unsigned(Due(x) - start_time)
      t == d \div TickDuration
  IN [x EXCEPT !.deadline = d,
               !.rest_rounds = IF t < n THEN 0 ELSE (t - n) \div TIMING_WHEEL_SIZE]

SlotOfPast(x, n) == Ticks(x) % TIMING_WHEEL_SIZE     \* mutant

\* The slot FillSlot puts it into: the next one, if its tick has passed.
SlotOf(x, n) == (IF Ticks(x) < n THEN n ELSE Ticks(x)) % TIMING_WHEEL_SIZE

SameDeadline(j, k, tasks) == tasks[j].deadline = tasks[k].deadline     \* mutant

\* TimingSlot::AddTask: emplace leaves a slot alone that has the id already.
SameId(j, k, tasks) == tasks[j].tid = tasks[k].tid

\* FillSlot for the tasks of a queue, in this order, at tick n.
Filled(q, tasks, n) == [k \in Tasks |-> IF Contains(q, k) THEN Timed(tasks[k], n)
                                                          ELSE tasks[k]]
FillSlots(q, sl, tasks, n) ==
  LET Slot(a) == SlotOf(tasks[q[a]], n)
      Has(i, a) == \/ \E j \in sl[i] : SameId(j, q[a], tasks)
                   \/ \E b \in 1..(a - 1) : Slot(b) = i /\ SameId(q[b], q[a], tasks)
  IN [i \in Slots |->
        sl[i] \cup {q[a] : a \in {b \in 1..Len(q) : Slot(b) = i /\ ~Has(i, b)}}]

UncancelledNow(i) ==     \* mutant
  {k \in slots[i] : i = tick % TIMING_WHEEL_SIZE => task[k].tid \notin cancelled_list}

Uncancelled(i) == {k \in slots[i] : task[k].tid \notin cancelled_list}

\* Step up to RemoveCancelledTasks.  The first one sets the origin of time.
RemoveCancelledTasks ==
  /\ thread = "step"
  /\ thread' = "fill"
  /\ start_time' = IF start_time = 0 THEN now ELSE start_time
  /\ skew' = IF start_time = 0 THEN now - rate_start ELSE skew
  /\ slots' = [i \in Slots |-> Uncancelled(i)]
  /\ cancelled_list' = {}
  /\ UNCHANGED <<userIdle, rate_start, tick, add_queue, task, handed, overrun>>

FillAddSlot ==
  /\ thread = "fill" /\ add_queue # <<>>
  /\ add_queue' = Tail(add_queue)
  /\ task' = Filled(<<Head(add_queue)>>, task, tick)
  /\ slots' = FillSlots(<<Head(add_queue)>>, slots, task', tick)
  /\ UNCHANGED <<userIdle, threadVars, tick, start_time, cancelled_list, handed,
                 overrun, skew>>

\* What a bounded queue takes of the elements of q.
Taken(q) == SubSeq(q, 1, IF Len(q) < BOUNDED_QUEUE_SIZE THEN Len(q)
                                                        ELSE BOUNDED_QUEUE_SIZE)

\* The elements of q are in r in this order.
InOrder(q, r) == \A i, j \in 1..Len(q) : i < j =>
  \E a, b \in 1..Len(r) : a < b /\ q[i] = r[a] /\ q[j] = r[b]

Expired(k) == task[k].deadline <= TickDuration * (tick + 1)

\* The add queue is empty: EnumTaskList, tick_++, FillRepeatSlot and the loop
\* that hands the handlers to Async; nobody else looks at what they work on.  The slot is an
\* unordered_map, which may list its tasks in any order.
EnumTaskList ==
  LET slot == slots[tick % TIMING_WHEEL_SIZE]
      due == {k \in slot : Expired(k) /\ task[k].rest_rounds = 0}
      later == {k \in slot : ~Expired(k)}
  IN /\ thread = "fill" /\ add_queue = <<>>
     /\ thread' = "rate"
     /\ \E order \in SetToSeqs(due), again \in SetToSeqs({k \in due : ~task[k].oneshot}) :
          LET handlers == Taken(order)
              repeats == Taken(again)
              counted == [k \in Tasks |->
                CASE k \in later ->
                       [task[k] EXCEPT !.rest_rounds = Unsigned(@ - 1)]
                  [] k \in due /\ ~task[k].oneshot ->
                       [task[k] EXCEPT !.fire_count = @ + 1]
                  [] OTHER -> task[k]]
          IN /\ InOrder(again, order)
             /\ task' = Filled(repeats, counted, tick + 1)
             /\ slots' = FillSlots(repeats,
                                   [slots EXCEPT ![tick % TIMING_WHEEL_SIZE] = @ \ due],
                                   task', tick + 1)
             /\ handed' = [k \in Tasks |-> IF Contains(handlers, k) THEN handed[k] + 1
                                                                    ELSE handed[k]]
             /\ overrun' = (overrun \/ handlers # order)
     /\ tick' = tick + 1
     /\ UNCHANGED <<userIdle, rate_start, start_time, add_queue, cancelled_list, skew>>

-----------------------------------------------------------------------------
(* TimerManager::ThreadFuncImpl and Rate *)

ThreadGoes(from, to) ==
  /\ thread = from
  /\ thread' = to
  /\ UNCHANGED <<userIdle, wheel, add_queue, cancelled_list, task, handed, overrun, skew>>

\* The test of the loop.
Onwards == IF running THEN "step" ELSE "off"

ThreadBegins == ThreadGoes("born", Onwards) /\ rate_start' = now

\* Rate::Sleep: a step that came late is made up for, unless it came more than
\* a cycle late.  The clock never goes back here.
Sleep ==
  LET expected_end == rate_start + TickDuration IN
  /\ ThreadGoes("rate", IF now > expected_end THEN Onwards ELSE "asleep")
  /\ rate_start' = IF now > expected_end + TickDuration THEN now ELSE expected_end

WakeUp == /\ now >= rate_start
          /\ ThreadGoes("asleep", Onwards)
          /\ UNCHANGED rate_start

-----------------------------------------------------------------------------
UserStep(u) ==
  \/ Start(u) \/ Add(u) \/ Refuse(u) \/ ReadCounter(u) \/ WriteCounter(u)
  \/ Enqueue(u) \/ EnqueueFails(u) \/ Undo(u) \/ Answer(u) \/ Stop(u)
  \/ RemoveTimer(u) \/ Clear(u) \/ Destroy(u) \/ Shutdown(u) \/ Join(u)

ThreadStep ==
  \/ ThreadBegins \/ RemoveCancelledTasks \/ FillAddSlot
  \/ EnumTaskList \/ Sleep \/ WakeUp

Next == Time \/ ThreadStep \/ \E u \in Users : UserStep(u)

Spec == Init /\ [][Next]_vars

-----------------------------------------------------------------------------
(* Properties *)

Places == {"idle", "add", "number", "store", "enqueue", "undo", "answer", "remove",
           "clear", "join"}
TimerTask == [tid : 0..NoId, init_time : Nat, interval : Nat, oneshot : BOOLEAN,
              deadline : 0..NoId, rest_rounds : 0..NoId, fire_count : Nat]

\* The type of the state.
TypeOK ==
  /\ now \in 1..MaxTime
  /\ started \in [Timers -> BOOLEAN] /\ timer_id \in [Timers -> 0..NoId]
  /\ running \in BOOLEAN
  /\ thread \in {"off", "born", "step", "fill", "rate", "asleep"}
  /\ rate_start \in Nat /\ start_time \in Nat /\ tick \in Nat
  /\ id_counter \in 0..NoId
  /\ slots \in [Slots -> SUBSET Tasks]
  /\ add_queue \in Seq(Tasks) /\ cancelled_list \subseteq 0..NoId
  /\ task \in [Tasks -> TimerTask]
  /\ at \in [Users -> Places]
  /\ todo \in [Users -> Seq([call : Calls, timer : Timers])]
  /\ seen \in [Users -> 0..NoId] /\ mine \in [Users -> Tasks \cup {0}]
  /\ latest \in [Timers -> Tasks \cup {0}] /\ handed \in [Tasks -> Nat]
  /\ settled \subseteq stopped /\ stopped \subseteq Tasks
  /\ overrun \in BOOLEAN /\ clash \in BOOLEAN /\ skew \in Nat

\* A seated task is in the slot of its due tick, and its rounds are the number
\* of times the wheel will pass it before, however far the wheel lags behind
\* the clock: it can neither be missed nor meet "task deadline overflow".
RoundsExact ==
  \A i \in Slots : \A k \in slots[i] :
    IF Ticks(task[k]) < tick
    THEN i = tick % TIMING_WHEEL_SIZE /\ task[k].rest_rounds = 0
    ELSE /\ i = Ticks(task[k]) % TIMING_WHEEL_SIZE
         /\ task[k].rest_rounds = (Ticks(task[k]) - tick) \div TIMING_WHEEL_SIZE

\* No handler is called a whole tick or more before its period is over, also
\* when a late wheel catches up; the time between the making of Rate and the
\* first Step shifts all of it.
NotEarly ==
  [][\A k \in Tasks :
       handed'[k] > handed[k] =>
         now + TickDuration + skew > Due(task[k])]_vars

Queued(k) == Contains(add_queue, k)
Accepted(k) == k \in Born /\ \A u \in Users : mine[u] = k => at[u] \notin {"store", "enqueue", "undo"}

\* Where calls of StartTimer did not overlap (they get wrong ids then) and no
\* queue was full, a timer that nobody stopped is in exactly one place of the
\* wheel until it has been handed over for the last time, and a oneshot is
\* handed over once.
OnePlace ==
  ~clash /\ ~overrun => \A k \in Born :
    LET places == {i \in Slots : k \in slots[i]} IN
    /\ \A i, j \in places : i = j
    /\ ~(Queued(k) /\ places # {})
    /\ task[k].oneshot => handed[k] <= 1 /\ (handed[k] = 1 => ~Queued(k) /\ places = {})
    /\ Accepted(k) /\ k \notin stopped =>
         Queued(k) \/ places # {} \/ (task[k].oneshot /\ handed[k] = 1)

\* A timer that was stopped when the wheel had seated it leaves the wheel with
\* the cancellation, though a step may just be moving it to its next slot.
SettledStop ==
  \A k \in settled : task[k].tid \in cancelled_list \/ (~Queued(k) /\ ~Seated(k))

\* "Stop the timer": when the Step that worked through the cancellations is
\* over, no stopped timer is left in the wheel.
StopTakesEffect ==
  \A k \in stopped : cancelled_list # {} \/ thread = "fill" \/ (~Queued(k) /\ ~Seated(k))
=============================================================================
