------------------------------ MODULE Listeners ------------------------------
(***************************************************************************)
(* The delivery of messages inside a process: receivers enable and disable *)
(* themselves at the Dispatcher of one channel, while transmitters run its *)
(* ListenerHandler, which calls the slots of its signals.                  *)
(*                                                                         *)
(* A critical section on the mutex of a Signal or under the write lock of  *)
(* the handler is a step, and so is a call of a listener, which may take   *)
(* its time.  The read lock is held over the calls of the second signal.   *)
(* Every receiver of the channel has one message type.  Slots are numbered *)
(* as they are connected, so the list of slots of a signal is a set: their *)
(* order in the list is that of their numbers.                             *)
(***************************************************************************)
EXTENDS Naturals, Sequences

CONSTANTS Receivers, Senders,
          Plans,      \* the calls each receiver's owner makes, one after another
          Messages,   \* how many messages each sender transmits
          All         \* the key of the signal for every sender

Keys == Senders \cup {All}
Listeners == Receivers \X Keys

ASSUME ListenersAssumption ==
  /\ All \notin Senders
  /\ Plans \subseteq [Receivers -> Seq([call : {"Enable", "Disable"}, key : Keys])]
  /\ Messages \in [Senders -> Nat]

\* Enable for one sender has no guard as Enable for all has: it is called when the
\* sender joins, Disable when it leaves (Reader::OnChannelChange).
Orderly(calls) ==
  \A i, j \in DOMAIN calls :
    i < j /\ calls[i] = calls[j] /\ calls[j].call = "Enable" /\ calls[j].key # All =>
      \E m \in i..j : calls[m] = [call |-> "Disable", key |-> calls[j].key]
ASSUME PlansAssumption == \A plan \in Plans, r \in Receivers : Orderly(plan[r])

VARIABLES table,        \* msg_listeners_ of the channel: the handler, or 0
          handlers,     \* the handlers ever made
          slots,        \* the slots ever made
          is_shutdown,
          todo, pc,     \* the calls of each receiver, and where it stands
          mine,         \* its local handler
          enabled,      \* enabled_
          left, spc,    \* the messages still to transmit, the step of the Run
          at, key,      \* the handler it runs, and which of its signals
          local,        \* the slots it still has to call
          status,       \* history: off, coming, on or going
          must, never,  \* history: listeners a Run has to reach, has to spare
          called        \* history: how often it has called each listener
dispatcher == <<table, handlers, slots, is_shutdown>>
receivers == <<todo, pc, mine, enabled>>
runs == <<left, spc, at, key, local>>
history == <<status, must, never, called>>
vars == <<dispatcher, receivers, runs, history>>

\* signal_ and signals_ by key, the recorded connections by listener (0: none),
\* and the threads that hold the read lock.
NewHandler == [signal |-> [k \in Keys |-> {}],
               conns |-> [l \in Listeners |-> 0],
               readers |-> {}]

Init == /\ table = 0 /\ handlers = <<>> /\ slots = <<>> /\ is_shutdown = FALSE
        /\ todo \in Plans
        /\ pc = [r \in Receivers |-> "idle"]
        /\ mine = [r \in Receivers |-> 0]
        /\ enabled = [r \in Receivers |-> FALSE]
        /\ left = Messages
        /\ spc = [s \in Senders |-> "idle"]
        /\ at = [s \in Senders |-> 0] /\ key = [s \in Senders |-> All]
        /\ local = [s \in Senders |-> {}]
        /\ status = [l \in Listeners |-> "off"]
        /\ must = [s \in Senders |-> {}] /\ never = [s \in Senders |-> {}]
        /\ called = [s \in Senders |-> [l \in Listeners |-> 0]]

Shutdown == /\ ~is_shutdown
            /\ is_shutdown' = TRUE
            /\ UNCHANGED <<table, handlers, slots, receivers, runs, history>>

-----------------------------------------------------------------------------
(* Signal *)

Owned(l) == [owner |-> l, connected |-> TRUE]

\* ClearDisconnectedSlots
Connected(list, sl) == {d \in list : sl[d].connected}

-----------------------------------------------------------------------------
(* Enable and Disable of a receiver *)

Listener(r) == <<r, todo[r][1].key>>
Calls(r, call) == todo[r] # <<>> /\ pc[r] = "idle" /\ todo[r][1].call = call
Goto(r, to) == pc' = [pc EXCEPT ![r] = to]
SetStatus(r, st) == status' = [status EXCEPT ![Listener(r)] = st]

\* The call returns, and enabled_ follows if it was one for every sender.
Return(r, on) == /\ Goto(r, "idle")
                 /\ todo' = [todo EXCEPT ![r] = Tail(@)]
                 /\ mine' = [mine EXCEPT ![r] = 0]
                 /\ enabled' = [enabled EXCEPT ![r] = IF Listener(r)[2] = All THEN on ELSE @]

\* The call does nothing when the receiver is enabled already.
Redundant(r, on) == Listener(r)[2] = All /\ enabled[r] = on

EnableAgain(r) == /\ Calls(r, "Enable") \/ Calls(r, "Disable")
                  /\ Redundant(r, todo[r][1].call = "Enable")
                  /\ Return(r, enabled[r])
                  /\ UNCHANGED <<dispatcher, runs, history>>

\* AddListener after Shutdown, and RemoveListener after Shutdown or without
\* a handler, do nothing.
Ignored(r) == /\ \/ Calls(r, "Enable") /\ is_shutdown
                 \/ Calls(r, "Disable") /\ (is_shutdown \/ table = 0)
              /\ ~Redundant(r, todo[r][1].call = "Enable")
              /\ Return(r, todo[r][1].call = "Enable")
              /\ SetStatus(r, "off")
              /\ UNCHANGED <<dispatcher, runs, must, never, called>>

AddListener(r) ==
  /\ Calls(r, "Enable") /\ ~is_shutdown /\ ~Redundant(r, TRUE)
  /\ Goto(r, IF table = 0 THEN "set" ELSE "connect")
  /\ mine' = [mine EXCEPT ![r] = table]
  /\ SetStatus(r, "coming")
  /\ never' = [s \in Senders |-> never[s] \ {Listener(r)}]
  /\ UNCHANGED <<dispatcher, todo, enabled, runs, must, called>>

\* A new handler, put into the table whatever is there by now.
SetHandler(r) ==
  /\ pc[r] = "set"
  /\ handlers' = Append(handlers, NewHandler)
  /\ table' = Len(handlers')
  /\ mine' = [mine EXCEPT ![r] = table']
  /\ Goto(r, "connect")
  /\ UNCHANGED <<slots, is_shutdown, todo, enabled, runs, history>>

FreeAlways(h) == TRUE    \* mutant: no write lock
Free(h) == handlers[h].readers = {}

\* Connect(self_id): the slot is in the signal before the lock is taken.
Connect(r) ==
  /\ pc[r] = "connect" /\ Listener(r)[2] = All
  /\ slots' = Append(slots, Owned(Listener(r)))
  /\ handlers' = [handlers EXCEPT ![mine[r]].signal[All] = @ \cup {Len(slots')}]
  /\ Goto(r, "record")
  /\ UNCHANGED <<table, is_shutdown, todo, mine, enabled, runs, history>>

\* The slot this call has made: the newest of the listener.
SlotOf(l) == CHOOSE d \in DOMAIN slots :
               slots[d].owner = l /\ \A e \in DOMAIN slots : slots[e].owner = l => e <= d

Record(r) ==
  /\ pc[r] = "record" /\ Free(mine[r])
  /\ handlers' = [handlers EXCEPT ![mine[r]].conns[Listener(r)] = SlotOf(Listener(r))]
  /\ Return(r, TRUE)
  /\ SetStatus(r, "on")
  /\ UNCHANGED <<table, slots, is_shutdown, runs, must, never, called>>

\* Connect(self_id, oppo_id): all under the write lock.
ConnectOpposite(r) ==
  /\ pc[r] = "connect" /\ Listener(r)[2] # All /\ Free(mine[r])
  /\ slots' = Append(slots, Owned(Listener(r)))
  /\ handlers' = [handlers EXCEPT ![mine[r]].signal[Listener(r)[2]] = @ \cup {Len(slots')},
                                  ![mine[r]].conns[Listener(r)] = Len(slots')]
  /\ Return(r, TRUE)
  /\ SetStatus(r, "on")
  /\ UNCHANGED <<table, is_shutdown, runs, must, never, called>>

RemoveListener(r) ==
  /\ Calls(r, "Disable") /\ ~is_shutdown /\ table # 0 /\ ~Redundant(r, FALSE)
  /\ Goto(r, "disconnect")
  /\ mine' = [mine EXCEPT ![r] = table]
  /\ SetStatus(r, "going")
  /\ must' = [s \in Senders |-> must[s] \ {Listener(r)}]
  /\ UNCHANGED <<dispatcher, todo, enabled, runs, never, called>>

DisconnectedKept(h, l) == h    \* mutant: the connection is not erased
Erased(h, l) == [h EXCEPT !.conns[l] = 0]

Disconnect(r) ==
  /\ pc[r] = "disconnect" /\ Free(mine[r])
  /\ LET l == Listener(r)
         h == handlers[mine[r]]
         d == h.conns[l]
     IN  \/ d = 0 /\ UNCHANGED <<slots, handlers>>
         \/ /\ d # 0
            /\ slots' = [slots EXCEPT ![d].connected = FALSE]
            /\ handlers' = [handlers EXCEPT ![mine[r]] =
                 Erased([h EXCEPT !.signal[l[2]] = Connected(@, slots')], l)]
  /\ Return(r, FALSE)
  /\ SetStatus(r, "off")
  /\ UNCHANGED <<table, is_shutdown, runs, must, never, called>>

-----------------------------------------------------------------------------
(* OnMessage and Run *)

GotoS(s, to) == spc' = [spc EXCEPT ![s] = to]

OnMessage(s) ==
  /\ spc[s] = "idle" /\ left[s] > 0
  /\ left' = [left EXCEPT ![s] = @ - 1]
  /\ IF is_shutdown \/ table = 0 THEN UNCHANGED <<spc, at, must, never>>
     ELSE /\ GotoS(s, "copy")
          /\ at' = [at EXCEPT ![s] = table]
          /\ must' = [must EXCEPT ![s] = {l \in Listeners :
               l[2] \in {All, s} /\ status[l] = "on" /\ handlers[table].conns[l] # 0}]
          /\ never' = [never EXCEPT ![s] = {l \in Listeners : status[l] = "off"}]
  /\ UNCHANGED <<dispatcher, receivers, key, local, status, called>>

\* Signal::operator() copies the slots under its mutex,
CopySlots(s) == /\ spc[s] = "copy"
                /\ local' = [local EXCEPT ![s] = handlers[at[s]].signal[key[s]]]
                /\ GotoS(s, "slots")
                /\ UNCHANGED <<dispatcher, receivers, left, at, key, history>>

\* The slots it has copied are called in their order.
First(s) == CHOOSE d \in local[s] : \A e \in local[s] : d <= e

\* mutant: the loop ends at a disconnected slot
TestSlotBreaks(s) ==
  /\ spc[s] = "slots" /\ local[s] # {}
  /\ IF slots[First(s)].connected
     THEN GotoS(s, "call") /\ UNCHANGED local
     ELSE local' = [local EXCEPT ![s] = {}] /\ UNCHANGED spc
  /\ UNCHANGED <<dispatcher, receivers, left, at, key, history>>

\* tests each outside of it,
TestSlot(s) ==
  /\ spc[s] = "slots" /\ local[s] # {}
  /\ IF slots[First(s)].connected
     THEN GotoS(s, "call") /\ UNCHANGED local
     ELSE local' = [local EXCEPT ![s] = @ \ {First(s)}] /\ UNCHANGED spc
  /\ UNCHANGED <<dispatcher, receivers, left, at, key, history>>

\* calls the listener,
Called(s) ==
  /\ spc[s] = "call"
  /\ called' = [called EXCEPT ![s][slots[First(s)].owner] = @ + 1]
  /\ local' = [local EXCEPT ![s] = @ \ {First(s)}]
  /\ GotoS(s, "slots")
  /\ UNCHANGED <<dispatcher, receivers, left, at, key, status, must, never>>

\* and clears the disconnected ones.
ClearDisconnectedSlots(s) ==
  /\ spc[s] = "slots" /\ local[s] = {}
  /\ handlers' = [handlers EXCEPT ![at[s]].signal[key[s]] = Connected(@, slots)]
  /\ GotoS(s, IF key[s] = All THEN "lock" ELSE "unlock")
  /\ UNCHANGED <<table, slots, is_shutdown, receivers, left, at, key, local, history>>

ReadLock(s) ==
  /\ spc[s] = "lock"
  /\ handlers' = [handlers EXCEPT ![at[s]].readers = @ \cup {s}]
  /\ key' = [key EXCEPT ![s] = s]
  /\ GotoS(s, "copy")
  /\ UNCHANGED <<table, slots, is_shutdown, receivers, left, at, local, history>>

RunReturns(s) ==
  /\ spc[s] = "unlock"
  /\ handlers' = [handlers EXCEPT ![at[s]].readers = @ \ {s}]
  /\ key' = [key EXCEPT ![s] = All]
  /\ at' = [at EXCEPT ![s] = 0]
  /\ must' = [must EXCEPT ![s] = {}] /\ never' = [never EXCEPT ![s] = {}]
  /\ called' = [called EXCEPT ![s] = [l \in Listeners |-> 0]]
  /\ GotoS(s, "idle")
  /\ UNCHANGED <<table, slots, is_shutdown, receivers, left, local, status>>

-----------------------------------------------------------------------------
Next == \/ \E r \in Receivers :
             \/ EnableAgain(r) \/ Ignored(r)
             \/ AddListener(r) \/ SetHandler(r) \/ Connect(r) \/ Record(r) \/ ConnectOpposite(r)
             \/ RemoveListener(r) \/ Disconnect(r)
        \/ \E s \in Senders :
             \/ OnMessage(s) \/ CopySlots(s) \/ TestSlot(s) \/ Called(s)
             \/ ClearDisconnectedSlots(s) \/ ReadLock(s) \/ RunReturns(s)
        \/ Shutdown

Spec == Init /\ [][Next]_vars

-----------------------------------------------------------------------------
(* Properties *)

\* Every variable has its type, and a connection that is recorded is that of
\* a slot of the listener which is in its signal, so that a Disconnect finds it.
TypeOK ==
  /\ table \in 0 .. Len(handlers) /\ is_shutdown \in BOOLEAN
  /\ slots \in Seq([owner : Listeners, connected : BOOLEAN])
  /\ \A h \in DOMAIN handlers :
       /\ handlers[h].readers \subseteq Senders
       /\ \A k \in Keys : handlers[h].signal[k] \subseteq DOMAIN slots
       /\ \A l \in Listeners :
            LET d == handlers[h].conns[l]
            IN  d # 0 => d \in handlers[h].signal[l[2]] /\ slots[d] = Owned(l)
  /\ todo \in [Receivers -> Seq([call : {"Enable", "Disable"}, key : Keys])]
  /\ pc \in [Receivers -> {"idle", "set", "connect", "record", "disconnect"}]
  /\ mine \in [Receivers -> 0 .. Len(handlers)] /\ enabled \in [Receivers -> BOOLEAN]
  /\ left \in [Senders -> Nat]
  /\ spc \in [Senders -> {"idle", "copy", "slots", "call", "lock", "unlock"}]
  /\ at \in [Senders -> 0 .. Len(handlers)] /\ key \in [Senders -> Keys]
  /\ local \in [Senders -> SUBSET DOMAIN slots]
  /\ called \in [Senders -> [Listeners -> Nat]]

\* A message reaches, exactly once, every listener that was enabled when it
\* was dispatched and is not being disabled meanwhile, whoever else connects
\* or disconnects during the Run.  (Not so a listener whose handler another
\* AddListener has replaced in the table.)
RunsReachAll ==
  \A s \in Senders : spc[s] = "unlock" => \A l \in must[s] : called[s][l] = 1

\* A message does not reach a listener that was disabled before it was
\* dispatched; and a listener for one sender is not even being called any more
\* when its Disable has returned, unless that found another handler or the
\* dispatcher shut down.
NoStaleCalls ==
  \A s \in Senders :
    /\ \A l \in never[s] : called[s][l] = 0
    /\ spc[s] = "call" /\ key[s] = s /\ at[s] = table /\ ~is_shutdown =>
         status[slots[First(s)].owner] # "off"
==============================================================================
