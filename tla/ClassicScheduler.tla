-------------------------- MODULE ClassicScheduler --------------------------
(***************************************************************************)
(* The classic scheduler: coroutines (croutine/), the processors that run  *)
(* them (scheduler/processor.cpp, policy/classic_context.cpp) and the      *)
(* threads that create, notify and remove tasks or shut the scheduler down *)
(* (scheduler/scheduler.cpp, policy/scheduler_classic.cpp), fed by the     *)
(* messages of data/.  One group of processors, whose run queue, condition *)
(* variable and mutex no other group touches.                              *)
(*                                                                         *)
(* A critical section under a write lock is one step.  A read lock held    *)
(* over several steps shows in the guards of the writers: WithoutReaders   *)
(* and NobodyScans (AtomicRWLock is the module about the lock itself).     *)
(***************************************************************************)
EXTENDS Integers, SequencesExt

CONSTANTS Processors, Callers,
          Ids,               \* task names, or their hashes
          Routines,          \* CRoutine objects, each created at most once
          IdOf, PrioOf,      \* id_ and priority_ (as clamped by DispatchTask)
          Visitors,          \* the routines made by CreateRoutineFactory<M0..>
          MAX_PRIO,
          Plans,             \* the calls each caller makes, one after another
          None

Calls == {"CreateTask", "RemoveTask", "NotifyTask", "Write", "Shutdown"}

ASSUME ProcessorsAssumption == Processors # {}
ASSUME PrioAssumption == MAX_PRIO \in Nat \ {0}
ASSUME RoutinesAssumption == /\ Ids # {}
                             /\ IdOf \in [Routines -> Ids]
                             /\ PrioOf \in [Ids -> 0..(MAX_PRIO - 1)]
                             /\ Visitors \subseteq Routines
ASSUME NoneAssumption == None \notin Routines \cup Callers \cup Processors
ASSUME PlansAssumption ==
  Plans \subseteq [Callers -> Seq([call : Calls, id : Ids])]

VARIABLES
  \* SchedulerClassic
  stop, id_cr, id_cr_wl,     \* id_cr_wl: who holds the mutex of an id
  queue,                     \* cr_group_ of the group, by priority
  \* CRoutine
  state, updated, lock, force_stop,
  body,                      \* where its function is, or is suspended
  due,                       \* has wake_time_ passed?
  \* DataVisitor
  unread, notifier,
  unheard,                   \* history: a message came before the notifier
  \* Processor and ClassicContext
  pc, prio, pos, cur, running, ctx_stop, need_sleep,
  \* callers
  at, todo,
  arg, new,                  \* the id and the routine a call is about
  callbacks, cr_list, left,  \* what the loops of a call have left to do
  joining

table == <<stop, id_cr, id_cr_wl>>
flags == <<state, updated, lock, force_stop>>
stack == <<body, due>>
visitor == <<unread, notifier, unheard>>
scan == <<prio, pos, cur>>
context == <<running, ctx_stop>>
loops == <<callbacks, cr_list, left, joining>>
locals == <<arg, new, callbacks, cr_list, left, joining>>
vars == <<table, queue, flags, stack, visitor, pc, need_sleep, scan, context,
          at, todo, locals>>
processorIdle == <<pc, need_sleep, scan, context>>
callerIdle == <<at, todo, locals>>

States == {"none", "READY", "FINISHED", "SLEEP", "DATA_WAIT"}
Prios == 0..(MAX_PRIO - 1)

TableTyped ==
  /\ stop \in BOOLEAN
  /\ id_cr \in [Ids -> Routines \cup {None}]
  /\ id_cr_wl \in [Ids -> Callers \cup {None}]
  /\ queue \in [Prios -> Seq(Routines)]

RoutinesTyped ==
  /\ state \in [Routines -> States]
  /\ updated \in [Routines -> BOOLEAN]
  /\ lock \in [Routines -> BOOLEAN]
  /\ force_stop \in [Routines -> BOOLEAN]
  /\ body \in [Routines -> {"top", "fetch", "callback", "slept", "done"}]
  /\ due \in [Routines -> BOOLEAN]
  /\ unread \in [Routines -> Nat]
  /\ notifier \in [Routines -> BOOLEAN]
  /\ unheard \in [Routines -> BOOLEAN]

ProcessorsTyped ==
  /\ pc \in [Processors -> {"run", "next", "enter", "scan", "examine", "letgo",
                            "resume", "body", "release", "wait", "asleep", "exited"}]
  /\ prio \in [Processors -> Prios]
  /\ pos \in [Processors -> Nat \ {0}]
  /\ cur \in [Processors -> Routines \cup {None}]
  /\ running \in [Processors -> BOOLEAN]
  /\ ctx_stop \in [Processors -> BOOLEAN]
  /\ need_sleep \in [Processors -> BOOLEAN]

CallersTyped ==
  /\ at \in [Callers -> {"idle", "lock", "insert", "push", "announce",
               "register", "notify", "callbacks", "lookup", "flag", "poke",
               "erase", "unlink", "contexts", "collect", "removing",
               "stopping", "join"}]
  /\ todo \in [Callers -> Seq([call : Calls, id : Ids])]
  /\ arg \in [Callers -> Ids]
  /\ new \in [Callers -> Routines \cup {None}]
  /\ callbacks \in [Callers -> SUBSET Routines]
  /\ cr_list \in [Callers -> SUBSET Ids]
  /\ left \in [Callers -> SUBSET Processors]
  /\ joining \in [Callers -> Processors \cup {None}]

TypeOK == TableTyped /\ RoutinesTyped /\ ProcessorsTyped /\ CallersTyped

Init ==
  /\ stop = FALSE
  /\ id_cr = [i \in Ids |-> None] /\ id_cr_wl = [i \in Ids |-> None]
  /\ queue = [k \in Prios |-> <<>>]
  /\ state = [r \in Routines |-> "none"]
  /\ updated = [r \in Routines |-> TRUE]
  /\ lock = [r \in Routines |-> FALSE]
  /\ force_stop = [r \in Routines |-> FALSE]
  /\ body = [r \in Routines |-> IF r \in Visitors THEN "top" ELSE "callback"]
  /\ due = [r \in Routines |-> FALSE]
  /\ unread = [r \in Routines |-> 0]
  /\ notifier = [r \in Routines |-> FALSE]
  /\ unheard = [r \in Routines |-> FALSE]
  /\ pc = [p \in Processors |-> "run"]
  /\ prio = [p \in Processors |-> 0] /\ pos = [p \in Processors |-> 1]
  /\ cur = [p \in Processors |-> None]
  /\ running = [p \in Processors |-> TRUE]
  /\ ctx_stop = [p \in Processors |-> FALSE]
  /\ need_sleep = [p \in Processors |-> FALSE]
  /\ at = [c \in Callers |-> "idle"] /\ todo \in Plans
  /\ arg = [c \in Callers |-> CHOOSE i \in Ids : TRUE]   \* not assigned yet
  /\ new = [c \in Callers |-> None] /\ callbacks = [c \in Callers |-> {}]
  /\ cr_list = [c \in Callers |-> {}] /\ left = [c \in Callers |-> {}]
  /\ joining = [c \in Callers |-> None]

-----------------------------------------------------------------------------
(* The condition variable: Wait of a context, and those who end it. *)

Asleep == {p \in Processors : pc[p] = "asleep"}

Awaken(S) ==
  /\ pc' = [p \in Processors |-> IF p \in S THEN "run" ELSE pc[p]]
  /\ need_sleep' = [p \in Processors |-> p \notin S /\ need_sleep[p]]

\* ClassicContext::Notify: a waiter if there is one, and nothing otherwise.
Notify == \/ \E p \in Asleep : Awaken({p})
          \/ Asleep = {} /\ UNCHANGED <<pc, need_sleep>>


Wait(p) ==
  /\ pc[p] = "wait"
  /\ pc' = [pc EXCEPT ![p] = IF ctx_stop[p] THEN "run" ELSE "asleep"]
  /\ UNCHANGED <<table, queue, flags, stack, visitor, need_sleep, scan,
                 context, callerIdle>>

\* The end of wait_for, or a spurious wakeup.
WaitReturns(p) ==
  /\ p \in Asleep
  /\ Awaken({p})
  /\ UNCHANGED <<table, queue, flags, stack, visitor, scan, context,
                 callerIdle>>

-----------------------------------------------------------------------------
(* Processor::Run *)

ProcessorGoes(p, from, to) ==
  /\ pc[p] = from
  /\ pc' = [pc EXCEPT ![p] = to]
  /\ UNCHANGED <<table, queue, visitor, need_sleep, context, callerIdle>>

LoopTest(p) ==
  /\ ProcessorGoes(p, "run", IF running[p] THEN "next" ELSE "exited")
  /\ UNCHANGED <<flags, stack, scan>>

\* NextRoutine begins with the queue of the highest priority.
StartScan(p) ==
  /\ ProcessorGoes(p, "next", IF ctx_stop[p] THEN "wait" ELSE "enter")
  /\ prio' = [prio EXCEPT ![p] = MAX_PRIO - 1]
  /\ UNCHANGED <<flags, stack, pos, cur>>

\* A call waits for the write lock of the queue of priority k, or has it.
Writes(k) == \E c \in Callers : at[c] \in {"push", "unlink"} /\ PrioOf[arg[c]] = k

\* The read lock of a queue: writers go first.
EnterQueue(p) ==
  /\ ~Writes(prio[p])
  /\ ProcessorGoes(p, "enter", "scan")
  /\ pos' = [pos EXCEPT ![p] = 1]
  /\ UNCHANGED <<flags, stack, prio, cur>>

AtRoutine(p) == pos[p] <= Len(queue[prio[p]])

AcquireBlind(p) ==     \* mutant
  /\ AtRoutine(p)
  /\ ProcessorGoes(p, "scan", "examine")
  /\ cur' = [cur EXCEPT ![p] = queue[prio[p]][pos[p]]]
  /\ lock' = [lock EXCEPT ![cur'[p]] = TRUE]
  /\ UNCHANGED <<state, updated, force_stop, stack, prio, pos>>

Acquire(p) ==
  /\ AtRoutine(p)
  /\ ~lock[queue[prio[p]][pos[p]]]
  /\ ProcessorGoes(p, "scan", "examine")
  /\ cur' = [cur EXCEPT ![p] = queue[prio[p]][pos[p]]]
  /\ lock' = [lock EXCEPT ![queue[prio[p]][pos[p]]] = TRUE]
  /\ UNCHANGED <<state, updated, force_stop, stack, prio, pos>>

AcquireFails(p) ==
  /\ AtRoutine(p)
  /\ lock[queue[prio[p]][pos[p]]]
  /\ ProcessorGoes(p, "scan", "scan")
  /\ pos' = [pos EXCEPT ![p] = @ + 1]
  /\ UNCHANGED <<flags, stack, prio, cur>>

\* The end of one queue: its lock is released; the next queue, or nullptr.
EndOfQueue(p) ==
  /\ ~AtRoutine(p)
  /\ ProcessorGoes(p, "scan", IF prio[p] > 0 THEN "enter" ELSE "wait")
  /\ prio' = [prio EXCEPT ![p] = IF @ > 0 THEN @ - 1 ELSE @]
  /\ pos' = [pos EXCEPT ![p] = 1]
  /\ UNCHANGED <<flags, stack, cur>>

\* What UpdateState makes of the state of r.
UpdatedState(r) ==
  IF \/ state[r] = "SLEEP" /\ due[r]
     \/ state[r] = "DATA_WAIT" /\ ~updated[r]
  THEN "READY" ELSE state[r]

ExamineDozes(p) ==     \* mutant
  LET r == cur[p] IN
  /\ pc[p] = "examine"
  /\ pc' = [pc EXCEPT ![p] = IF UpdatedState(r) = "READY" THEN "resume" ELSE "letgo"]
  /\ state' = [state EXCEPT ![r] = UpdatedState(r)]
  /\ due' = [due EXCEPT ![r] = @ /\ UpdatedState(r) = "SLEEP"]
  /\ updated' = [updated EXCEPT ![r] = IF state[r] = "SLEEP" /\ due[r] THEN @ ELSE TRUE]
  /\ UNCHANGED <<table, queue, lock, force_stop, body, visitor, need_sleep,
                 scan, context, callerIdle>>

\* UpdateState, and what NextRoutine does with its answer.  The state of an
\* acquired routine is its holder's, so one step stands for the test of the
\* flag and the accesses to the state around it.
Examine(p) ==
  LET r == cur[p] IN
  /\ pc[p] = "examine"
  /\ pc' = [pc EXCEPT ![p] = IF UpdatedState(r) = "READY" THEN "resume" ELSE "letgo"]
  /\ state' = [state EXCEPT ![r] = UpdatedState(r)]
  /\ due' = [due EXCEPT ![r] = @ /\ UpdatedState(r) = "SLEEP"]
  /\ updated' = [updated EXCEPT ![r] = IF state[r] = "SLEEP" /\ due[r] THEN @ ELSE TRUE]
  /\ need_sleep' = [need_sleep EXCEPT ![p] = @ \/ UpdatedState(r) = "SLEEP"]
  /\ UNCHANGED <<table, queue, lock, force_stop, body, visitor, scan, context,
                 callerIdle>>

\* Release of a routine that NextRoutine does not return.
LetGo(p) ==
  /\ ProcessorGoes(p, "letgo", "scan")
  /\ lock' = [lock EXCEPT ![cur[p]] = FALSE]
  /\ pos' = [pos EXCEPT ![p] = @ + 1]
  /\ cur' = [cur EXCEPT ![p] = None]
  /\ UNCHANGED <<state, updated, force_stop, stack, prio>>

\* CRoutine::Resume up to SwapContext.
Resume(p) ==
  LET r == cur[p] IN
  /\ ProcessorGoes(p, "resume",
       IF force_stop[r] \/ state[r] # "READY" THEN "release" ELSE "body")
  /\ state' = [state EXCEPT ![r] = IF force_stop[r] THEN "FINISHED" ELSE @]
  /\ UNCHANGED <<updated, lock, force_stop, stack, scan>>

\* Release of a routine that came back from Resume.
Release(p) ==
  /\ ProcessorGoes(p, "release", "run")
  /\ lock' = [lock EXCEPT ![cur[p]] = FALSE]
  /\ cur' = [cur EXCEPT ![p] = None]
  /\ UNCHANGED <<state, updated, force_stop, stack, prio, pos>>

-----------------------------------------------------------------------------
(* The function of the routine, on the stack of the routine. *)

InBody(p, place) == pc[p] = "body" /\ body[cur[p]] = place

\* SwapContext back to the processor, in state s, to go on at place.
YieldTo(p, s, place) ==
  /\ pc' = [pc EXCEPT ![p] = "release"]
  /\ state' = [state EXCEPT ![cur[p]] = s]
  /\ body' = [body EXCEPT ![cur[p]] = place]

bodyIdle == <<table, queue, lock, force_stop, notifier, need_sleep, scan,
              context, callerIdle>>

AwaitData(p) ==
  /\ InBody(p, "top")
  /\ state' = [state EXCEPT ![cur[p]] = "DATA_WAIT"]
  /\ body' = [body EXCEPT ![cur[p]] = "fetch"]
  /\ UNCHANGED <<bodyIdle, pc, updated, due, unread, unheard>>

TryFetchBlind(p) ==     \* mutant
  /\ InBody(p, "fetch")
  /\ unread' = [unread EXCEPT ![cur[p]] = @ - 1]
  /\ body' = [body EXCEPT ![cur[p]] = "callback"]
  /\ UNCHANGED <<bodyIdle, pc, state, updated, due, unheard>>

\* DataVisitor::TryFetch of one channel.  Fetch takes the next message, or goes
\* on to the latest, when it is the first fetch or the buffer has overflowed.
TryFetch(p) ==
  /\ InBody(p, "fetch")
  /\ unread[cur[p]] > 0
  /\ \E n \in {0, unread[cur[p]] - 1} : unread' = [unread EXCEPT ![cur[p]] = n]
  /\ body' = [body EXCEPT ![cur[p]] = "callback"]
  /\ UNCHANGED <<bodyIdle, pc, state, updated, due, unheard>>

\* TryFetch is false: Yield() leaves the state at DATA_WAIT.
FetchFails(p) ==
  /\ InBody(p, "fetch")
  /\ unread[cur[p]] = 0
  /\ pc' = [pc EXCEPT ![p] = "release"]
  /\ body' = [body EXCEPT ![cur[p]] = "top"]
  /\ unheard' = [unheard EXCEPT ![cur[p]] = FALSE]
  /\ UNCHANGED <<bodyIdle, state, updated, due, unread>>

\* The callback, or the function of a plain task, calls cyber::SleepFor.
\* Bound: once per call.
CallbackSleeps(p) ==
  /\ InBody(p, "callback")
  /\ YieldTo(p, "SLEEP", "slept")
  /\ due' = [due EXCEPT ![cur[p]] = FALSE]
  /\ UNCHANGED <<bodyIdle, updated, unread, unheard>>

\* The callback returns: Yield(READY) in the loop of a factory routine,
\* Yield(FINISHED) in CRoutineEntry.
CallbackReturns(p) ==
  /\ InBody(p, "callback") \/ InBody(p, "slept")
  /\ IF cur[p] \in Visitors THEN YieldTo(p, "READY", "top")
                            ELSE YieldTo(p, "FINISHED", "done")
  /\ UNCHANGED <<bodyIdle, updated, due, unread, unheard>>

\* steady_clock passes the wake_time_ of r.
WakeTimePasses(r) ==
  /\ state[r] = "SLEEP" /\ ~due[r]
  /\ due' = [due EXCEPT ![r] = TRUE]
  /\ UNCHANGED <<table, queue, flags, body, visitor, processorIdle, callerIdle>>

-----------------------------------------------------------------------------
(* The calls of the scheduler. *)

Call(c) == Head(todo[c])

\* c begins a call of the given name.
Begins(c, name) == at[c] = "idle" /\ todo[c] # <<>> /\ Call(c).call = name

Goto(c, place) == at' = [at EXCEPT ![c] = place] /\ UNCHANGED todo

Return(c) ==
  /\ at' = [at EXCEPT ![c] = "idle"]
  /\ todo' = [todo EXCEPT ![c] = Tail(@)]

\* The end of NotifyProcessor or RemoveCRoutine, called for its own sake or
\* from the loop of another call.
Done(c) == CASE Call(c).call = "Write" -> Goto(c, "callbacks")
             [] Call(c).call = "Shutdown" -> Goto(c, "removing")
             [] OTHER -> Return(c)

Unlocked(i) == [id_cr_wl EXCEPT ![i] = None]

\* Nobody reads id_cr_ under the read lock of NotifyProcessor.
WithoutReaders == \A d \in Callers : at[d] \notin {"flag", "poke"}

\* Nobody reads the queue of priority k in NextRoutine.
NobodyScans(k) ==
  \A p \in Processors : pc[p] \in {"scan", "examine", "letgo"} => prio[p] # k

callUnread == <<flags, stack, visitor, processorIdle>>

CreateTask(c) ==
  /\ Begins(c, "CreateTask")
  /\ \/ stop /\ Return(c) /\ UNCHANGED <<state, arg, new>>
     \/ /\ ~stop
        /\ \E r \in Routines :
             /\ state[r] = "none" /\ IdOf[r] = Call(c).id
             /\ state' = [state EXCEPT ![r] = "READY"]
             /\ new' = [new EXCEPT ![c] = r]
        /\ arg' = [arg EXCEPT ![c] = Call(c).id]
        /\ Goto(c, "lock")
  /\ UNCHANGED <<table, queue, updated, lock, force_stop, stack, visitor,
                 processorIdle, loops>>

LockIdBlind(c) ==     \* mutant
  /\ at[c] = "lock"
  /\ id_cr_wl' = [id_cr_wl EXCEPT ![arg[c]] = c]
  /\ Goto(c, IF Call(c).call = "CreateTask" THEN "insert" ELSE "erase")
  /\ UNCHANGED <<stop, id_cr, queue, callUnread, locals>>

\* The mutex of the id, in DispatchTask and in RemoveCRoutine.
LockId(c) ==
  /\ at[c] = "lock"
  /\ id_cr_wl[arg[c]] = None
  /\ id_cr_wl' = [id_cr_wl EXCEPT ![arg[c]] = c]
  /\ Goto(c, IF Call(c).call = "CreateTask" THEN "insert" ELSE "erase")
  /\ UNCHANGED <<stop, id_cr, queue, callUnread, locals>>

Insert(c) ==
  /\ at[c] = "insert" /\ WithoutReaders
  /\ IF id_cr[arg[c]] # None
     THEN id_cr_wl' = Unlocked(arg[c]) /\ Return(c) /\ UNCHANGED id_cr
     ELSE /\ id_cr' = [id_cr EXCEPT ![arg[c]] = new[c]]
          /\ Goto(c, "push")
          /\ UNCHANGED id_cr_wl
  /\ UNCHANGED <<stop, queue, callUnread, locals>>

Push(c) ==
  /\ at[c] = "push" /\ NobodyScans(PrioOf[arg[c]])
  /\ queue' = [queue EXCEPT ![PrioOf[arg[c]]] = Append(@, new[c])]
  /\ Goto(c, "announce")
  /\ UNCHANGED <<table, callUnread, locals>>

Announce(c) ==
  /\ at[c] = "announce"
  /\ Notify
  /\ id_cr_wl' = Unlocked(arg[c])
  /\ Goto(c, "register")
  /\ UNCHANGED <<stop, id_cr, queue, flags, stack, visitor, scan, context, locals>>

\* RegisterNotifyCallback, for the routine of a visitor.
Register(c) ==
  /\ at[c] = "register"
  /\ notifier' = [notifier EXCEPT ![new[c]] = new[c] \in Visitors]
  /\ Return(c)
  /\ UNCHANGED <<table, queue, flags, stack, unread, unheard, processorIdle, locals>>

-----------------------------------------------------------------------------
(* NotifyTask, and a message: DataDispatcher::Dispatch fills the buffers of
   the visitors, then DataNotifier calls their callbacks. *)

NotifyTask(c) ==
  /\ Begins(c, "NotifyTask")
  /\ arg' = [arg EXCEPT ![c] = Call(c).id]
  /\ IF stop THEN Return(c) ELSE Goto(c, "lookup")
  /\ UNCHANGED <<table, queue, callUnread, new, loops>>

Fill(c) ==
  /\ Begins(c, "Write")
  /\ arg' = [arg EXCEPT ![c] = Call(c).id]
  /\ unread' = [r \in Routines |-> unread[r] +
       IF r \in Visitors /\ IdOf[r] = Call(c).id /\ state[r] # "none" THEN 1 ELSE 0]
  /\ Goto(c, "notify")
  /\ UNCHANGED <<table, queue, flags, stack, notifier, unheard, processorIdle, new, loops>>

NotifyVisitors(c) ==
  /\ at[c] = "notify"
  /\ callbacks' = [callbacks EXCEPT ![c] = {r \in Routines : notifier[r] /\ IdOf[r] = arg[c]}]
  /\ unheard' = [r \in Routines |-> unheard[r] \/
                   (IdOf[r] = arg[c] /\ ~notifier[r] /\ unread[r] > 0)]
  /\ Goto(c, "callbacks")
  /\ UNCHANGED <<table, queue, flags, stack, unread, notifier, processorIdle, arg, new,
                 cr_list, left, joining>>

Callback(c) ==
  /\ at[c] = "callbacks"
  /\ \/ callbacks[c] = {} /\ Return(c) /\ UNCHANGED callbacks
     \/ \E r \in callbacks[c] : /\ callbacks' = [callbacks EXCEPT ![c] = @ \ {r}]
                           /\ Goto(c, "lookup")
  /\ UNCHANGED <<table, queue, callUnread, arg, new, cr_list,
                 left, joining>>

LookupSkipsHeld(c) ==     \* mutant
  LET r == id_cr[arg[c]] IN
  /\ at[c] = "lookup"
  /\ IF stop \/ r = None
     THEN Done(c)
     ELSE Goto(c, IF state[r] = "DATA_WAIT" /\ ~lock[r] THEN "flag" ELSE "poke")
  /\ UNCHANGED <<table, queue, callUnread, locals>>

\* NotifyProcessor, up to the test of the state under the read lock.
Lookup(c) ==
  LET r == id_cr[arg[c]] IN
  /\ at[c] = "lookup"
  /\ IF stop \/ r = None
     THEN Done(c)
     ELSE Goto(c, IF state[r] = "DATA_WAIT" THEN "flag" ELSE "poke")
  /\ UNCHANGED <<table, queue, callUnread, locals>>

SetUpdateFlag(c) ==
  /\ at[c] = "flag"
  /\ updated' = [updated EXCEPT ![id_cr[arg[c]]] = FALSE]
  /\ Goto(c, "poke")
  /\ UNCHANGED <<table, queue, state, lock, force_stop, stack, visitor,
                 processorIdle, locals>>

Poke(c) ==
  /\ at[c] = "poke"
  /\ Notify
  /\ Done(c)
  /\ UNCHANGED <<table, queue, flags, stack, visitor, scan, context, locals>>

-----------------------------------------------------------------------------
(* RemoveTask and Shutdown. *)

RemoveTask(c) ==
  /\ Begins(c, "RemoveTask")
  /\ arg' = [arg EXCEPT ![c] = Call(c).id]
  /\ IF stop THEN Return(c) ELSE Goto(c, "lock")
  /\ UNCHANGED <<table, queue, callUnread, new, loops>>

StopForgets(r) == UNCHANGED force_stop     \* mutant

Stop(r) == force_stop' = [force_stop EXCEPT ![r] = TRUE]

Erase(c) ==
  LET r == id_cr[arg[c]] IN
  /\ at[c] = "erase" /\ WithoutReaders
  /\ IF r = None
     THEN /\ id_cr_wl' = Unlocked(arg[c]) /\ Done(c)
          /\ UNCHANGED <<id_cr, force_stop>>
     ELSE /\ Stop(r)
          /\ id_cr' = [id_cr EXCEPT ![arg[c]] = None]
          /\ Goto(c, "unlink")
          /\ UNCHANGED id_cr_wl
  /\ UNCHANGED <<stop, queue, state, updated, lock, stack, visitor,
                 processorIdle, locals>>

UnlinkForgets(c) ==     \* mutant
  LET k == PrioOf[arg[c]] IN
  /\ at[c] = "unlink" /\ NobodyScans(k)
  /\ \E i \in 1..Len(queue[k]) :
       /\ IdOf[queue[k][i]] = arg[c]
       /\ Stop(queue[k][i])
       /\ lock' = [lock EXCEPT ![queue[k][i]] = FALSE]
  /\ id_cr_wl' = Unlocked(arg[c])
  /\ Done(c)
  /\ UNCHANGED <<stop, id_cr, queue, state, updated, stack, visitor, processorIdle, locals>>

\* The first routine of the id leaves the queue and loses its lock, also when
\* a processor is running it.  (There is one: see TableMatchesQueue.)
Unlink(c) ==
  LET k == PrioOf[arg[c]] IN
  /\ at[c] = "unlink" /\ NobodyScans(k)
  /\ \E i \in 1..Len(queue[k]) :
       /\ IdOf[queue[k][i]] = arg[c]
       /\ \A j \in 1..(i - 1) : IdOf[queue[k][j]] # arg[c]
       /\ Stop(queue[k][i])
       /\ queue' = [queue EXCEPT ![k] = RemoveAt(@, i)]
       /\ lock' = [lock EXCEPT ![queue[k][i]] = FALSE]
  /\ id_cr_wl' = Unlocked(arg[c])
  /\ Done(c)
  /\ UNCHANGED <<stop, id_cr, state, updated, stack, visitor, processorIdle, locals>>

Shutdown(c) ==
  /\ Begins(c, "Shutdown")
  /\ stop' = TRUE
  /\ IF stop THEN Return(c) /\ UNCHANGED left
             ELSE Goto(c, "contexts") /\ left' = [left EXCEPT ![c] = Processors]
  /\ UNCHANGED <<id_cr, id_cr_wl, queue, callUnread, arg, new, callbacks, cr_list,
                 joining>>

\* ProcessorContext::Shutdown: stop_ under the mutex of Wait, then notify_all.
ShutdownContext(p) ==
  /\ ctx_stop' = [ctx_stop EXCEPT ![p] = TRUE]
  /\ Awaken(Asleep)

ShutdownContexts(c) ==
  /\ at[c] = "contexts"
  /\ \E p \in left[c] :
       /\ ShutdownContext(p)
       /\ left' = [left EXCEPT ![c] = @ \ {p}]
       /\ Goto(c, IF left'[c] = {} THEN "collect" ELSE "contexts")
  /\ UNCHANGED <<table, queue, flags, stack, visitor, scan, running, arg, new,
                 callbacks, cr_list, joining>>

\* cr_list: the tasks there are now.
Collect(c) ==
  /\ at[c] = "collect"
  /\ cr_list' = [cr_list EXCEPT ![c] = {i \in Ids : id_cr[i] # None}]
  /\ Goto(c, "removing")
  /\ UNCHANGED <<table, queue, callUnread, arg, new, callbacks, left, joining>>

RemoveNext(c) ==
  /\ at[c] = "removing"
  /\ \E i \in cr_list[c] : /\ cr_list' = [cr_list EXCEPT ![c] = @ \ {i}]
                           /\ arg' = [arg EXCEPT ![c] = i]
  /\ Goto(c, "lock")
  /\ UNCHANGED <<table, queue, callUnread, new, callbacks, left, joining>>

RemovedAll(c) ==
  /\ at[c] = "removing" /\ cr_list[c] = {}
  /\ left' = [left EXCEPT ![c] = Processors]
  /\ Goto(c, "stopping")
  /\ UNCHANGED <<table, queue, callUnread, arg, new, callbacks, cr_list,
                 joining>>

\* Processor::Stop of each processor, up to the join.
StopProcessor(c) ==
  /\ at[c] = "stopping"
  /\ \E p \in left[c] :
       /\ running' = [running EXCEPT ![p] = FALSE]
       /\ ShutdownContext(p)
       /\ left' = [left EXCEPT ![c] = @ \ {p}]
       /\ joining' = [joining EXCEPT ![c] = p]
  /\ Goto(c, "join")
  /\ UNCHANGED <<table, queue, flags, stack, visitor, scan, arg, new,
                 callbacks, cr_list>>

Join(c) ==
  /\ at[c] = "join" /\ pc[joining[c]] = "exited"
  /\ IF left[c] = {} THEN Return(c) ELSE Goto(c, "stopping")
  /\ UNCHANGED <<table, queue, callUnread, locals>>

-----------------------------------------------------------------------------
ProcessorStep(p) ==
  \/ LoopTest(p) \/ StartScan(p) \/ EnterQueue(p) \/ Acquire(p) 
  \/ AcquireFails(p) \/ EndOfQueue(p) \/ Examine(p) \/ LetGo(p) \/ Resume(p) \/ Release(p)
  \/ Wait(p) \/ AwaitData(p) \/ TryFetch(p) \/ FetchFails(p)
  \/ CallbackSleeps(p) \/ CallbackReturns(p)

CallerStep(c) ==
  \/ CreateTask(c) \/ LockId(c) \/ Insert(c) \/ Push(c) \/ Announce(c)
  \/ Register(c) \/ NotifyTask(c) \/ Fill(c) \/ NotifyVisitors(c)
  \/ Callback(c) \/ Lookup(c) \/ SetUpdateFlag(c) \/ Poke(c) \/ RemoveTask(c)
  \/ Erase(c) \/ Unlink(c) \/ Shutdown(c) \/ ShutdownContexts(c)
  \/ Collect(c) \/ RemoveNext(c) \/ RemovedAll(c) \/ StopProcessor(c) \/ Join(c)

Next == \/ \E p \in Processors : ProcessorStep(p) \/ WaitReturns(p)
        \/ \E c \in Callers : CallerStep(c)
        \/ \E r \in Routines : WakeTimePasses(r)

Spec == Init /\ [][Next]_vars

\* Threads run, time passes, wait_for ends.
Fairness ==
  /\ \A p \in Processors : /\ WF_vars(ProcessorStep(p))
                           /\ WF_vars(need_sleep[p] /\ WaitReturns(p))
  /\ \A c \in Callers : WF_vars(CallerStep(c))
  /\ \A r \in Routines : WF_vars(WakeTimePasses(r))
FairSpec == Spec /\ Fairness

-----------------------------------------------------------------------------
(* Properties *)

\* The processors that hold a routine: from Acquire to Release.
Holds(p) == pc[p] \in {"examine", "letgo", "resume", "body", "release"}

\* No two processors hold, and so none run, the same routine at once: its
\* stack would be entered twice.  RemoveCRoutine clears the lock of a routine
\* that may be running, so the lock alone does not say it.
OneRunner == \A p, q \in Processors :
               p # q /\ Holds(p) /\ Holds(q) => cur[p] # cur[q]

\* Resume never meets a routine that is not READY ("Invalid Routine State!"),
\* though notifiers read the state and RemoveCRoutine stops the routine
\* without holding it.
ResumesReady == \A p \in Processors : pc[p] = "resume" => state[cur[p]] = "READY"

InQueue(r) == \E k \in Prios : \E i \in 1..Len(queue[k]) : queue[k][i] = r

\* The id table and the run queues agree wherever nobody is between updating
\* the one and the other under the mutex of the id ("to prevent race condition
\* when del && add cr with same crid"), and RemoveCRoutine, once it has erased
\* an id, finds its routine in the queue.
TableMatchesQueue ==
  /\ \A r \in Routines : id_cr_wl[IdOf[r]] = None =>
                           (InQueue(r) <=> id_cr[IdOf[r]] = r)
  /\ \A c \in Callers : at[c] = "unlink" =>
                           \E r \in Routines : InQueue(r) /\ IdOf[r] = arg[c]

\* When a task is removed and created again under the same name while the old
\* routine still runs, at most one of the routines of that name that are
\* running has not been told to stop.
OneLiveRoutinePerTask ==
  \A p, q \in Processors :
    /\ p # q /\ pc[p] = "body" /\ pc[q] = "body"
    /\ IdOf[cur[p]] = IdOf[cur[q]]
    => force_stop[cur[p]] \/ force_stop[cur[q]]

\* c is about to tell the routine of task i of a message or a notification.
Announcing(c, i) ==
  \/ at[c] \in {"notify", "lookup", "flag"} /\ arg[c] = i
  \/ at[c] = "callbacks" /\ \E r \in callbacks[c] : IdOf[r] = i

\* A routine that waits for data with a message unread has its update flag
\* cleared, or somebody is on the way to clear it: the test of the state in
\* NotifyProcessor, the flag consumed by UpdateState and the fetch never let a
\* notification fall between them.  (A message from before the callback was
\* registered is announced to nobody: unheard.)
NotificationKept ==
  \A r \in Visitors :
    /\ ~stop /\ id_cr[IdOf[r]] = r /\ notifier[r] /\ ~unheard[r]
    /\ state[r] = "DATA_WAIT" /\ body[r] = "top" /\ unread[r] > 0
    => ~updated[r] \/ \E c \in Callers : Announcing(c, IdOf[r])

\* Every call returns: the mutexes and read and write locks of the calls, and
\* the scans they wait for, never block one another for good, and Shutdown
\* joins every processor wherever in its loop or its wait it was met.
CallsReturn == <>(\A c \in Callers : at[c] = "idle" /\ todo[c] = <<>>)

\* A sleeping routine runs again by itself, whichever processors skip it while
\* another looks at it, unless the scheduler stops or the task is removed.
SleepersWake == \A r \in Routines :
  state[r] = "SLEEP" ~> state[r] # "SLEEP" \/ stop \/ force_stop[r]
=============================================================================
