----------------------------- MODULE TaskManager -----------------------------
(***************************************************************************)
(* cyber::Async (task/): TaskManager queues functions and its workers, one *)
(* coroutine for each processor, take them from the queue and run them;    *)
(* the caller waits for the future.                                        *)
(*                                                                         *)
(* The queue is the one of module FifoQueue, which BoundedQueue            *)
(* implements.  Of the scheduler there is what ClassicScheduler shows: a   *)
(* READY routine runs, and one in DATA_WAIT does after a NotifyTask only.  *)
(***************************************************************************)
EXTENDS Naturals, Sequences

CONSTANTS Clients, Workers,
          Asyncs,          \* bound: the calls of Async each client makes
          task_queue_size

VARIABLES stop, task_queue,
          at, left,        \* per client: its step, the calls it has left
          future,          \* per client: none, pending, ready or broken
          state, task      \* per worker: the state of its routine, its task
vars == <<stop, task_queue, at, left, future, state, task>>

None == "none"

\* The first call of Async makes the TaskManager, whose workers are READY.
Init == /\ stop = FALSE /\ task_queue = <<>>
        /\ at = [c \in Clients |-> "idle"] /\ left = [c \in Clients |-> Asyncs]
        /\ future = [c \in Clients |-> None]
        /\ state = [w \in Workers |-> "READY"] /\ task = [w \in Workers |-> None]

workers == <<state, task>>

\* Enqueue: a task that is not queued, after Shutdown or because the queue is
\* full, is destroyed, which breaks its promise.  A queued one is announced to
\* nobody, for the call of NotifyTask is commented out.
Async(c) == /\ at[c] = "idle" /\ left[c] > 0
            /\ left' = [left EXCEPT ![c] = @ - 1]
            /\ at' = [at EXCEPT ![c] = IF stop THEN "get" ELSE "enqueue"]
            /\ future' = [future EXCEPT ![c] = IF stop THEN "broken" ELSE None]
            /\ UNCHANGED <<stop, task_queue, workers>>

Enqueue(c) == /\ at[c] = "enqueue"
              /\ IF Len(task_queue) < task_queue_size
                 THEN /\ task_queue' = Append(task_queue, c)
                      /\ future' = [future EXCEPT ![c] = "pending"]
                 ELSE /\ future' = [future EXCEPT ![c] = "broken"]
                      /\ UNCHANGED task_queue
              /\ at' = [at EXCEPT ![c] = "get"]
              /\ UNCHANGED <<stop, left, workers>>

\* future.get(): a value, or an exception.
Get(c) == /\ at[c] = "get" /\ future[c] \in {"ready", "broken"}
          /\ at' = [at EXCEPT ![c] = "idle"]
          /\ UNCHANGED <<stop, task_queue, left, future, workers>>

\* num_threads_ is 0, so that no task is removed from the scheduler.
Shutdown == /\ ~stop /\ stop' = TRUE
            /\ UNCHANGED <<task_queue, at, left, future, workers>>

-----------------------------------------------------------------------------
(* The function of the workers *)

Running(w) == state[w] = "READY" /\ task[w] = None

Dequeue(w) == /\ Running(w) /\ ~stop /\ task_queue # <<>>
              /\ task' = [task EXCEPT ![w] = Head(task_queue)]
              /\ task_queue' = Tail(task_queue)
              /\ UNCHANGED <<stop, at, left, future, state>>

HangUp(w) == /\ Running(w) /\ ~stop /\ task_queue = <<>>
             /\ state' = [state EXCEPT ![w] = "DATA_WAIT"]
             /\ UNCHANGED <<stop, task_queue, at, left, future, task>>

RunTask(w) == /\ task[w] # None
              /\ future' = [future EXCEPT ![task[w]] = "ready"]
              /\ task' = [task EXCEPT ![w] = None]
              /\ UNCHANGED <<stop, task_queue, at, left, state>>

Finish(w) == /\ Running(w) /\ stop
             /\ state' = [state EXCEPT ![w] = "FINISHED"]
             /\ UNCHANGED <<stop, task_queue, at, left, future, task>>

-----------------------------------------------------------------------------
ClientStep(c) == Async(c) \/ Enqueue(c) \/ Get(c)
WorkerStep(w) == Dequeue(w) \/ HangUp(w) \/ RunTask(w) \/ Finish(w)

Next == \/ \E c \in Clients : ClientStep(c)
        \/ \E w \in Workers : WorkerStep(w)
        \/ Shutdown

\* Threads go on, and the scheduler runs what is READY.
FairSpec == /\ Init /\ [][Next]_vars
            /\ \A c \in Clients : WF_vars(ClientStep(c))
            /\ \A w \in Workers : WF_vars(WorkerStep(w))

\* Every future that Async has returned gets a value, unless the TaskManager is
\* shut down (TaskManager::Enqueue; the tests of Async wait for the futures).
FuturesReady == \A c \in Clients : future[c] = "pending" ~> future[c] = "ready" \/ stop
==============================================================================
