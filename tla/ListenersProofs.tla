---------------------------- MODULE ListenersProofs ----------------------------
(***************************************************************************)
(* Proofs about Listeners: its types, that a Run reaches every listener    *)
(* that was enabled throughout, once, and that it calls no listener that   *)
(* was disabled before, for all receivers, senders, plans and messages.    *)
(*                                                                         *)
(* What a step does is said by lemmas, so that the invariant is argued     *)
(* about without the actions: <X>Does on the effects of an action, Lists   *)
(* on what no step does to slots and signals, SFrame(s) and RFrame(r) on   *)
(* what a sender and a receiver leave to others, and Outcome(r) on what    *)
(* becomes of the receiver's listener.  The parts of the invariant IInv:   *)
(*   TypeOK, Shapes  the types, and the range of what TypeOK leaves open   *)
(*   Turns     where a receiver stands in its call, its listener's status  *)
(*   Places    a slot is in the signal of its key, and of one handler only *)
(*   Conns     a connected slot in a signal is the one recorded for its    *)
(*             listener, or is about to be recorded                        *)
(*   Running   the slots a Run still has to call are in the signal if they *)
(*             are connected; in the sender's own it holds the lock        *)
(*   Reaching  a listener that a Run must reach has its slot, and has been *)
(*             called or its slot is still to be called                    *)
(*   Sparing   a listener that a Run must spare has no connected slot      *)
(***************************************************************************)
EXTENDS Listeners, Integers, SequenceTheorems, WellFoundedInduction, TLAPS

\* What handler h has for a key, for a listener, and who reads it.
Sig(h, k) == handlers[h].signal[k]
Con(h, l) == handlers[h].conns[l]
Rd(h) == handlers[h].readers

-----------------------------------------------------------------------------
(* The invariant *)

Shapes ==
  /\ handlers \in Seq([signal : [Keys -> SUBSET Nat], conns : [Listeners -> Nat],
                       readers : SUBSET Senders])
  /\ table = Len(handlers)
  /\ status \in [Listeners -> {"off", "coming", "on", "going"}]
  /\ must \in [Senders -> SUBSET Listeners] /\ never \in [Senders -> SUBSET Listeners]

CallOf(call, k) == [call |-> call, key |-> k]

\* A call under way is the first of the plan; a listener that comes or goes is
\* that of the call.  Enable for one sender is next called after a Disable.
Turn(r) ==
  /\ pc[r] # "idle" => todo[r] # <<>>
  /\ pc[r] \in {"set", "connect", "record"} =>
       todo[r][1].call = "Enable" /\ status[Listener(r)] = "coming"
  /\ pc[r] = "record" => Listener(r)[2] = All
  /\ pc[r] = "disconnect" => status[Listener(r)] = "going"
  /\ pc[r] \in {"connect", "record", "disconnect"} => mine[r] # 0
  /\ pc[r] = "set" => mine[r] = 0
  /\ status[<<r, All>>] = "on" => enabled[r]
  /\ Orderly(todo[r])
  /\ \A k \in Keys :
       /\ status[<<r, k>>] \in {"coming", "going"} => pc[r] # "idle" /\ todo[r][1].key = k
       /\ k # All /\ status[<<r, k>>] = "on" =>
            \A j \in DOMAIN todo[r] : todo[r][j] = CallOf("Enable", k) =>
              \E m \in 1..j : todo[r][m] = CallOf("Disable", k)
Turns == \A r \in Receivers : Turn(r)

\* The last slot made for listener l is not after d.
Newest(d, l) == \A e \in DOMAIN slots : slots[e].owner = l => e <= d

\* Slots are never shared between signals or handlers.
Places ==
  /\ \A h \in DOMAIN handlers, k \in Keys : \A d \in Sig(h, k) : slots[d].owner[2] = k
  /\ \A h, g \in DOMAIN handlers, k \in Keys : h # g => Sig(h, k) \cap Sig(g, k) = {}

Recording(l, h) == pc[l[1]] = "record" /\ mine[l[1]] = h /\ Listener(l[1]) = l

\* Connect for all senders puts the slot into the signal one step before it
\* records the connection.  What the handlers that come after the receiver's
\* own have recorded, and the table for a listener that is off, is nothing.
Conns ==
  /\ \A h \in DOMAIN handlers, l \in Listeners : \A d \in Sig(h, l[2]) :
       slots[d] = Owned(l) => Con(h, l) = d \/ (Recording(l, h) /\ Newest(d, l))
  /\ \A r \in Receivers :
       /\ pc[r] = "record" =>
            \E d \in Sig(mine[r], All) : slots[d] = Owned(Listener(r)) /\ Newest(d, Listener(r))
       /\ pc[r] \in {"connect", "record"} => Con(mine[r], Listener(r)) = 0
       /\ pc[r] # "idle" => \A h \in DOMAIN handlers : h > mine[r] =>
                              \A k \in Keys : Con(h, <<r, k>>) = 0
  /\ ~is_shutdown /\ table # 0 => \A l \in Listeners : status[l] = "off" => Con(table, l) = 0

\* A sender runs the signal for all first, then its own.
Running ==
  \A s \in Senders :
    /\ key[s] \in {All, s}
    /\ spc[s] \in {"idle", "lock"} => key[s] = All
    /\ spc[s] = "unlock" => key[s] = s
    /\ spc[s] = "idle" => \A l \in Listeners : called[s][l] = 0
    /\ spc[s] # "idle" => at[s] # 0 /\ (key[s] = s => s \in Rd(at[s]))
    /\ spc[s] \in {"slots", "call"} =>
         \A d \in local[s] : /\ slots[d].owner[2] = key[s]
                             /\ slots[d].connected => d \in Sig(at[s], key[s])
    /\ spc[s] = "call" => /\ local[s] # {}
                          /\ key[s] = s => slots[First(s)].connected

\* The Run of s has not come to the slots of l yet.
Ahead(s, l) == (l[2] = key[s] /\ spc[s] = "copy") \/ (l[2] # All /\ key[s] = All)

Reaching ==
  \A s \in Senders : spc[s] # "idle" => \A l \in must[s] :
    /\ l[2] \in {All, s}
    /\ status[l] = "on" \/ (is_shutdown /\ status[l] = "off")
    /\ Con(at[s], l) # 0
    /\ called[s][l] = IF Ahead(s, l) THEN 0
                      ELSE IF l[2] = key[s] /\ spc[s] \in {"slots", "call"} /\ Con(at[s], l) \in local[s]
                           THEN 0 ELSE 1
    /\ spc[s] = "call" /\ slots[First(s)].owner = l => First(s) = Con(at[s], l)

Sparing ==
  \A s \in Senders : spc[s] # "idle" => \A l \in never[s] :
    /\ status[l] \in {"off", "going"}
    /\ called[s][l] = 0
    /\ \A d \in Sig(at[s], l[2]) : slots[d] # Owned(l)
    /\ spc[s] \in {"slots", "call"} => \A d \in local[s] : slots[d] # Owned(l)
    /\ spc[s] = "call" => slots[First(s)].owner # l

IInv == TypeOK /\ Shapes /\ Turns /\ Places /\ Conns /\ Running /\ Reaching /\ Sparing

-----------------------------------------------------------------------------
(* What a step does *)

HandlerType == [signal : [Keys -> SUBSET Nat], conns : [Listeners -> Nat],
                readers : SUBSET Senders]
CallType == [call : {"Enable", "Disable"}, key : Keys]
SlotType == [owner : Listeners, connected : BOOLEAN]

LEMMA TheCall ==
  ASSUME TypeOK, NEW r \in Receivers, todo[r] # <<>>
  PROVE  /\ todo[r][1] \in CallType /\ Listener(r) \in Listeners
         /\ Listener(r)[1] = r /\ Listener(r)[2] = todo[r][1].key /\ Listener(r)[2] \in Keys
         /\ Tail(todo[r]) \in Seq(CallType)
         /\ Len(Tail(todo[r])) = Len(todo[r]) - 1 /\ Len(todo[r]) \in Nat \ {0}
         /\ \A j \in 1 .. Len(todo[r]) - 1 : Tail(todo[r])[j] = todo[r][j + 1]
<1>1. todo[r] \in Seq(CallType)
  BY DEF TypeOK, CallType
<1>2. Len(todo[r]) \in Nat \ {0}
  BY <1>1
<1>3. todo[r][1] \in CallType
  BY <1>1, <1>2
<1>4. Listener(r) \in Listeners /\ Listener(r)[1] = r /\ Listener(r)[2] = todo[r][1].key
  BY <1>3 DEF Listener, Listeners, CallType
<1> QED BY <1>1, <1>2, <1>3, <1>4, HeadTailProperties DEF CallType

LEMMA Plain ==
  handlers \in Seq(HandlerType) /\ slots \in Seq(SlotType) =>
  /\ Len(handlers) \in Nat /\ DOMAIN handlers = 1..Len(handlers)
  /\ Len(slots) \in Nat /\ DOMAIN slots = 1..Len(slots)
  /\ \A h \in 1..Len(handlers) : /\ handlers[h] \in HandlerType
                                 /\ \A k \in Keys : Sig(h, k) \subseteq Nat
                                 /\ \A l \in Listeners : Con(h, l) \in Nat
                                 /\ Rd(h) \subseteq Senders
  /\ \A d \in 1..Len(slots) : slots[d].owner \in Listeners /\ slots[d].connected \in BOOLEAN
<1> SUFFICES ASSUME handlers \in Seq(HandlerType), slots \in Seq(SlotType)
             PROVE  /\ Len(handlers) \in Nat /\ DOMAIN handlers = 1..Len(handlers)
                    /\ Len(slots) \in Nat /\ DOMAIN slots = 1..Len(slots)
                    /\ \A h \in 1..Len(handlers) :
                         /\ handlers[h] \in HandlerType
                         /\ \A k \in Keys : Sig(h, k) \subseteq Nat
                         /\ \A l \in Listeners : Con(h, l) \in Nat
                         /\ Rd(h) \subseteq Senders
                    /\ \A d \in 1..Len(slots) :
                         slots[d].owner \in Listeners /\ slots[d].connected \in BOOLEAN
  OBVIOUS
<1>1. \A h \in 1..Len(handlers) : handlers[h] \in HandlerType
  OBVIOUS
<1>2. \A h \in 1..Len(handlers) : /\ \A k \in Keys : Sig(h, k) \subseteq Nat
                                  /\ \A l \in Listeners : Con(h, l) \in Nat
                                  /\ Rd(h) \subseteq Senders
  BY <1>1 DEF HandlerType, Sig, Con, Rd
<1>3. \A d \in 1..Len(slots) : slots[d] \in SlotType
  OBVIOUS
<1>4. \A d \in 1..Len(slots) : slots[d].owner \in Listeners /\ slots[d].connected \in BOOLEAN
  BY <1>3 DEF SlotType
<1> QED BY <1>1, <1>2, <1>4

\* A sequence with one element replaced,
LEMMA Put ==
  ASSUME NEW S, NEW q \in Seq(S), NEW g \in 1..Len(q), NEW x \in S
  PROVE  LET n == [q EXCEPT ![g] = x]
         IN  /\ n \in Seq(S) /\ Len(n) = Len(q) /\ DOMAIN n = 1..Len(q)
             /\ \A h \in 1..Len(q) : n[h] = IF h = g THEN x ELSE q[h]
<1> QED BY ExceptSeq

\* and with one more.
LEMMA Added ==
  ASSUME NEW S, NEW q \in Seq(S), NEW x \in S
  PROVE  LET n == Append(q, x)
         IN  /\ n \in Seq(S) /\ Len(n) = Len(q) + 1 /\ DOMAIN n = 1..Len(q) + 1
             /\ Len(q) \in Nat
             /\ \A h \in 1..Len(q) : n[h] = q[h]
             /\ n[Len(q) + 1] = x
<1> QED BY AppendProperties

Types == TypeOK /\ Shapes

LEMMA Typed == Types =>
  /\ handlers \in Seq(HandlerType) /\ slots \in Seq(SlotType)
  /\ \A r \in Receivers : mine[r] \in 0..Len(handlers)
BY DEF Types, TypeOK, Shapes, HandlerType, SlotType

\* What becomes of the handlers when one is changed.
LEMMA Changed ==
  ASSUME Types, NEW g \in 1..Len(handlers), NEW sg \in [Keys -> SUBSET Nat],
         NEW cn \in [Listeners -> Nat], NEW rd \in SUBSET Senders,
         handlers' = [handlers EXCEPT ![g] = [signal |-> sg, conns |-> cn, readers |-> rd]]
  PROVE  /\ handlers' \in Seq(HandlerType) /\ Len(handlers') = Len(handlers)
         /\ \A h \in 1..Len(handlers) :
              /\ \A k \in Keys : Sig(h, k)' = IF h = g THEN sg[k] ELSE Sig(h, k)
              /\ \A l \in Listeners : Con(h, l)' = IF h = g THEN cn[l] ELSE Con(h, l)
              /\ Rd(h)' = IF h = g THEN rd ELSE Rd(h)
<1> DEFINE x == [signal |-> sg, conns |-> cn, readers |-> rd]
<1>1. x \in HandlerType /\ x.signal = sg /\ x.conns = cn /\ x.readers = rd
  BY DEF HandlerType
<1>2. handlers' = [handlers EXCEPT ![g] = x]
  OBVIOUS
<1> HIDE DEF x
<1>3. /\ handlers' \in Seq(HandlerType) /\ Len(handlers') = Len(handlers)
      /\ \A h \in 1..Len(handlers) : handlers'[h] = IF h = g THEN x ELSE handlers[h]
  BY <1>1, <1>2, Typed, Put
<1> QED BY <1>1, <1>3 DEF Sig, Con, Rd

LEMMA Fields ==
  ASSUME Types, NEW g \in 1..Len(handlers)
  PROVE  /\ handlers[g].signal \in [Keys -> SUBSET Nat]
         /\ handlers[g].conns \in [Listeners -> Nat]
         /\ handlers[g].readers \in SUBSET Senders
         /\ handlers[g] = [signal |-> handlers[g].signal, conns |-> handlers[g].conns,
                           readers |-> handlers[g].readers]
         /\ DOMAIN handlers = 1..Len(handlers) /\ Len(handlers) \in Nat
<1>1. handlers[g] \in HandlerType
  BY Typed
<1> QED BY <1>1, Typed DEF HandlerType

\* SetHandler
LEMMA SetHandlerDoes ==
  ASSUME Types, NEW r \in Receivers, SetHandler(r)
  PROVE  /\ handlers' \in Seq(HandlerType) /\ Len(handlers') = Len(handlers) + 1
         /\ table' = Len(handlers) + 1
         /\ \A h \in 1..Len(handlers) :
              /\ \A k \in Keys : Sig(h, k)' = Sig(h, k)
              /\ \A l \in Listeners : Con(h, l)' = Con(h, l)
              /\ Rd(h)' = Rd(h)
         /\ \A i : i = Len(handlers) + 1 =>
              /\ \A k \in Keys : Sig(i, k)' = {}
              /\ \A l \in Listeners : Con(i, l)' = 0
              /\ Rd(i)' = {}
<1>1. NewHandler \in HandlerType
  BY DEF NewHandler, HandlerType
<1>2. handlers \in Seq(HandlerType) /\ handlers' = Append(handlers, NewHandler)
      /\ table' = Len(handlers')
  BY Typed DEF SetHandler
<1>3. /\ handlers' \in Seq(HandlerType) /\ Len(handlers') = Len(handlers) + 1
      /\ \A h \in 1..Len(handlers) : handlers'[h] = handlers[h]
      /\ handlers'[Len(handlers) + 1] = NewHandler
  BY <1>1, <1>2, Added
<1>4. \A h \in 1..Len(handlers) :
        /\ \A k \in Keys : Sig(h, k)' = Sig(h, k)
        /\ \A l \in Listeners : Con(h, l)' = Con(h, l)
        /\ Rd(h)' = Rd(h)
  BY <1>3 DEF Sig, Con, Rd
<1>5. \A i : i = Len(handlers) + 1 =>
        /\ \A k \in Keys : Sig(i, k)' = {}
        /\ \A l \in Listeners : Con(i, l)' = 0
        /\ Rd(i)' = {}
  BY <1>3 DEF Sig, Con, Rd, NewHandler
<1> QED BY <1>2, <1>3, <1>4, <1>5

\* A new slot.
LEMMA Slotted ==
  ASSUME Types, NEW l \in Listeners, slots' = Append(slots, Owned(l))
  PROVE  /\ slots' \in Seq(SlotType) /\ Len(slots') = Len(slots) + 1
         /\ \A d \in 1..Len(slots) : slots'[d] = slots[d]
         /\ slots'[Len(slots) + 1] = Owned(l)
<1>1. Owned(l) \in SlotType
  BY DEF Owned, SlotType
<1> QED BY <1>1, Typed, Added

WithSignal(g, k, S) == [handlers EXCEPT ![g].signal[k] = S]
WithConn(g, l, d) == [handlers EXCEPT ![g].conns[l] = d]
WithBoth(g, k, S, l, d) == [handlers EXCEPT ![g].signal[k] = S, ![g].conns[l] = d]
WithReaders(g, R) == [handlers EXCEPT ![g].readers = R]

\* What becomes of them when a signal is changed,
LEMMA SignalChanged ==
  ASSUME Types, NEW g \in 1..Len(handlers), NEW k \in Keys, NEW S \in SUBSET Nat,
         handlers' = WithSignal(g, k, S)
  PROVE  /\ handlers' \in Seq(HandlerType) /\ Len(handlers') = Len(handlers)
         /\ \A h \in 1..Len(handlers) :
              /\ \A i \in Keys : Sig(h, i)' = IF h = g /\ i = k THEN S ELSE Sig(h, i)
              /\ \A i \in Listeners : Con(h, i)' = Con(h, i)
              /\ Rd(h)' = Rd(h)
<1> DEFINE sg == [handlers[g].signal EXCEPT ![k] = S]
           cn == handlers[g].conns
           rd == handlers[g].readers
<1>f. /\ handlers[g].signal \in [Keys -> SUBSET Nat]
      /\ handlers[g].conns \in [Listeners -> Nat]
      /\ handlers[g].readers \in SUBSET Senders
      /\ handlers[g] = [signal |-> handlers[g].signal, conns |-> handlers[g].conns,
                        readers |-> handlers[g].readers]
      /\ g \in DOMAIN handlers
  BY Fields
<1>1. /\ sg \in [Keys -> SUBSET Nat]
      /\ \A i \in Keys : sg[i] = IF i = k THEN S ELSE handlers[g].signal[i]
  <2> DEFINE old == handlers[g].signal
  <2>1. old \in [Keys -> SUBSET Nat]
    BY <1>f
  <2> HIDE DEF old
  <2>2. [old EXCEPT ![k] = S] \in [Keys -> SUBSET Nat]
    BY <2>1
  <2>3. \A i \in Keys : [old EXCEPT ![k] = S][i] = IF i = k THEN S ELSE old[i]
    BY <2>1
  <2> QED BY <2>2, <2>3 DEF old
<1>3. handlers' = [handlers EXCEPT ![g] = [signal |-> sg, conns |-> cn, readers |-> rd]]
  <2>1. [handlers[g] EXCEPT !.signal = sg] =
          [signal |-> sg, conns |-> cn, readers |-> rd]
    <3> HIDE DEF sg
    <3> QED BY <1>f
  <2>2. handlers' = [handlers EXCEPT ![g] = [handlers[g] EXCEPT !.signal = sg]]
    BY <1>f DEF WithSignal
  <2> QED BY <2>1, <2>2
<1>4. sg \in [Keys -> SUBSET Nat] /\ cn \in [Listeners -> Nat] /\ rd \in SUBSET Senders
  BY <1>f, <1>1
<1> HIDE DEF sg, cn, rd
<1>5. /\ handlers' \in Seq(HandlerType) /\ Len(handlers') = Len(handlers)
      /\ \A h \in 1..Len(handlers) :
           /\ \A i \in Keys : Sig(h, i)' = IF h = g THEN sg[i] ELSE Sig(h, i)
           /\ \A i \in Listeners : Con(h, i)' = IF h = g THEN cn[i] ELSE Con(h, i)
           /\ Rd(h)' = IF h = g THEN rd ELSE Rd(h)
  BY <1>3, <1>4, Changed
<1> QED BY <1>5, <1>1 DEF sg, cn, rd, Sig, Con, Rd

\* when a connection is,
LEMMA ConnChanged ==
  ASSUME Types, NEW g \in 1..Len(handlers), NEW l \in Listeners, NEW d \in Nat,
         handlers' = WithConn(g, l, d)
  PROVE  /\ handlers' \in Seq(HandlerType) /\ Len(handlers') = Len(handlers)
         /\ \A h \in 1..Len(handlers) :
              /\ \A i \in Keys : Sig(h, i)' = Sig(h, i)
              /\ \A i \in Listeners : Con(h, i)' = IF h = g /\ i = l THEN d ELSE Con(h, i)
              /\ Rd(h)' = Rd(h)
<1> DEFINE sg == handlers[g].signal
           cn == [handlers[g].conns EXCEPT ![l] = d]
           rd == handlers[g].readers
<1>f. /\ handlers[g].signal \in [Keys -> SUBSET Nat]
      /\ handlers[g].conns \in [Listeners -> Nat]
      /\ handlers[g].readers \in SUBSET Senders
      /\ handlers[g] = [signal |-> handlers[g].signal, conns |-> handlers[g].conns,
                        readers |-> handlers[g].readers]
      /\ g \in DOMAIN handlers
  BY Fields
<1>2. /\ cn \in [Listeners -> Nat]
      /\ \A i \in Listeners : cn[i] = IF i = l THEN d ELSE handlers[g].conns[i]
  <2> DEFINE old == handlers[g].conns
  <2>1. old \in [Listeners -> Nat]
    BY <1>f
  <2> HIDE DEF old
  <2>2. [old EXCEPT ![l] = d] \in [Listeners -> Nat]
    BY <2>1
  <2>3. \A i \in Listeners : [old EXCEPT ![l] = d][i] = IF i = l THEN d ELSE old[i]
    BY <2>1
  <2> QED BY <2>2, <2>3 DEF old
<1>3. handlers' = [handlers EXCEPT ![g] = [signal |-> sg, conns |-> cn, readers |-> rd]]
  <2>1. [handlers[g] EXCEPT !.conns = cn] =
          [signal |-> sg, conns |-> cn, readers |-> rd]
    <3> HIDE DEF cn
    <3> QED BY <1>f
  <2>2. handlers' = [handlers EXCEPT ![g] = [handlers[g] EXCEPT !.conns = cn]]
    BY <1>f DEF WithConn
  <2> QED BY <2>1, <2>2
<1>4. sg \in [Keys -> SUBSET Nat] /\ cn \in [Listeners -> Nat] /\ rd \in SUBSET Senders
  BY <1>f, <1>2
<1> HIDE DEF sg, cn, rd
<1>5. /\ handlers' \in Seq(HandlerType) /\ Len(handlers') = Len(handlers)
      /\ \A h \in 1..Len(handlers) :
           /\ \A i \in Keys : Sig(h, i)' = IF h = g THEN sg[i] ELSE Sig(h, i)
           /\ \A i \in Listeners : Con(h, i)' = IF h = g THEN cn[i] ELSE Con(h, i)
           /\ Rd(h)' = IF h = g THEN rd ELSE Rd(h)
  BY <1>3, <1>4, Changed
<1> QED BY <1>5, <1>2 DEF sg, cn, rd, Sig, Con, Rd

\* when both are,
LEMMA BothChanged ==
  ASSUME Types, NEW g \in 1..Len(handlers), NEW k \in Keys, NEW S \in SUBSET Nat, NEW l \in Listeners, NEW d \in Nat,
         handlers' = WithBoth(g, k, S, l, d)
  PROVE  /\ handlers' \in Seq(HandlerType) /\ Len(handlers') = Len(handlers)
         /\ \A h \in 1..Len(handlers) :
              /\ \A i \in Keys : Sig(h, i)' = IF h = g /\ i = k THEN S ELSE Sig(h, i)
              /\ \A i \in Listeners : Con(h, i)' = IF h = g /\ i = l THEN d ELSE Con(h, i)
              /\ Rd(h)' = Rd(h)
<1> DEFINE sg == [handlers[g].signal EXCEPT ![k] = S]
           cn == [handlers[g].conns EXCEPT ![l] = d]
           rd == handlers[g].readers
<1>f. /\ handlers[g].signal \in [Keys -> SUBSET Nat]
      /\ handlers[g].conns \in [Listeners -> Nat]
      /\ handlers[g].readers \in SUBSET Senders
      /\ handlers[g] = [signal |-> handlers[g].signal, conns |-> handlers[g].conns,
                        readers |-> handlers[g].readers]
      /\ g \in DOMAIN handlers
  BY Fields
<1>1. /\ sg \in [Keys -> SUBSET Nat]
      /\ \A i \in Keys : sg[i] = IF i = k THEN S ELSE handlers[g].signal[i]
  <2> DEFINE old == handlers[g].signal
  <2>1. old \in [Keys -> SUBSET Nat]
    BY <1>f
  <2> HIDE DEF old
  <2>2. [old EXCEPT ![k] = S] \in [Keys -> SUBSET Nat]
    BY <2>1
  <2>3. \A i \in Keys : [old EXCEPT ![k] = S][i] = IF i = k THEN S ELSE old[i]
    BY <2>1
  <2> QED BY <2>2, <2>3 DEF old
<1>2. /\ cn \in [Listeners -> Nat]
      /\ \A i \in Listeners : cn[i] = IF i = l THEN d ELSE handlers[g].conns[i]
  <2> DEFINE old == handlers[g].conns
  <2>1. old \in [Listeners -> Nat]
    BY <1>f
  <2> HIDE DEF old
  <2>2. [old EXCEPT ![l] = d] \in [Listeners -> Nat]
    BY <2>1
  <2>3. \A i \in Listeners : [old EXCEPT ![l] = d][i] = IF i = l THEN d ELSE old[i]
    BY <2>1
  <2> QED BY <2>2, <2>3 DEF old
<1>3. handlers' = [handlers EXCEPT ![g] = [signal |-> sg, conns |-> cn, readers |-> rd]]
  <2>1. [handlers[g] EXCEPT !.signal = sg, !.conns = cn] =
          [signal |-> sg, conns |-> cn, readers |-> rd]
    <3> HIDE DEF sg, cn
    <3> DEFINE x == [handlers[g] EXCEPT !.signal = sg]
    <3>1. x = [signal |-> sg, conns |-> handlers[g].conns, readers |-> rd]
      BY <1>f
    <3>2. [handlers[g] EXCEPT !.signal = sg, !.conns = cn] = [x EXCEPT !.conns = cn]
      OBVIOUS
    <3> HIDE DEF x
    <3>3. [x EXCEPT !.conns = cn] = [signal |-> sg, conns |-> cn, readers |-> rd]
      BY <3>1
    <3> QED BY <3>2, <3>3
  <2>2. handlers' = [handlers EXCEPT ![g] = [handlers[g] EXCEPT !.signal = sg, !.conns = cn]]
    BY <1>f DEF WithBoth
  <2> QED BY <2>1, <2>2
<1>4. sg \in [Keys -> SUBSET Nat] /\ cn \in [Listeners -> Nat] /\ rd \in SUBSET Senders
  BY <1>f, <1>1, <1>2
<1> HIDE DEF sg, cn, rd
<1>5. /\ handlers' \in Seq(HandlerType) /\ Len(handlers') = Len(handlers)
      /\ \A h \in 1..Len(handlers) :
           /\ \A i \in Keys : Sig(h, i)' = IF h = g THEN sg[i] ELSE Sig(h, i)
           /\ \A i \in Listeners : Con(h, i)' = IF h = g THEN cn[i] ELSE Con(h, i)
           /\ Rd(h)' = IF h = g THEN rd ELSE Rd(h)
  BY <1>3, <1>4, Changed
<1> QED BY <1>5, <1>1, <1>2 DEF sg, cn, rd, Sig, Con, Rd

\* and when the readers are.
LEMMA ReadersChanged ==
  ASSUME Types, NEW g \in 1..Len(handlers), NEW R \in SUBSET Senders,
         handlers' = WithReaders(g, R)
  PROVE  /\ handlers' \in Seq(HandlerType) /\ Len(handlers') = Len(handlers)
         /\ \A h \in 1..Len(handlers) :
              /\ \A i \in Keys : Sig(h, i)' = Sig(h, i)
              /\ \A i \in Listeners : Con(h, i)' = Con(h, i)
              /\ Rd(h)' = IF h = g THEN R ELSE Rd(h)
<1> DEFINE sg == handlers[g].signal
           cn == handlers[g].conns
           rd == R
<1>f. /\ handlers[g].signal \in [Keys -> SUBSET Nat]
      /\ handlers[g].conns \in [Listeners -> Nat]
      /\ handlers[g].readers \in SUBSET Senders
      /\ handlers[g] = [signal |-> handlers[g].signal, conns |-> handlers[g].conns,
                        readers |-> handlers[g].readers]
      /\ g \in DOMAIN handlers
  BY Fields
<1>3. handlers' = [handlers EXCEPT ![g] = [signal |-> sg, conns |-> cn, readers |-> rd]]
  <2>1. [handlers[g] EXCEPT !.readers = rd] =
          [signal |-> sg, conns |-> cn, readers |-> rd]
    <3> QED BY <1>f
  <2>2. handlers' = [handlers EXCEPT ![g] = [handlers[g] EXCEPT !.readers = rd]]
    BY <1>f DEF WithReaders
  <2> QED BY <2>1, <2>2
<1>4. sg \in [Keys -> SUBSET Nat] /\ cn \in [Listeners -> Nat] /\ rd \in SUBSET Senders
  BY <1>f
<1> HIDE DEF sg, cn, rd
<1>5. /\ handlers' \in Seq(HandlerType) /\ Len(handlers') = Len(handlers)
      /\ \A h \in 1..Len(handlers) :
           /\ \A i \in Keys : Sig(h, i)' = IF h = g THEN sg[i] ELSE Sig(h, i)
           /\ \A i \in Listeners : Con(h, i)' = IF h = g THEN cn[i] ELSE Con(h, i)
           /\ Rd(h)' = IF h = g THEN rd ELSE Rd(h)
  BY <1>3, <1>4, Changed
<1> QED BY <1>5 DEF sg, cn, rd, Sig, Con, Rd

\* The receiver of a call, with its handler.
LEMMA Where ==
  ASSUME Types, Turns, NEW r \in Receivers, pc[r] \in {"connect", "record", "disconnect"}
  PROVE  /\ mine[r] \in 1..Len(handlers) /\ todo[r] # <<>>
         /\ Listener(r) \in Listeners /\ Listener(r)[1] = r /\ Listener(r)[2] \in Keys
         /\ mine[r] \in DOMAIN handlers
<1>1. mine[r] # 0 /\ todo[r] # <<>>
  BY DEF Turns, Turn
<1>2. mine[r] \in 1..Len(handlers) /\ DOMAIN handlers = 1..Len(handlers)
  BY <1>1, Typed, Plain
<1> QED BY <1>1, <1>2, TheCall DEF Types

LEMMA SlotOfIs ==
  ASSUME Types, NEW d \in DOMAIN slots, NEW l, slots[d].owner = l, Newest(d, l)
  PROVE  SlotOf(l) = d
<1>1. DOMAIN slots \subseteq Nat
  BY Typed, Plain
<1>2. \A e \in DOMAIN slots :
        slots[e].owner = l /\ (\A f \in DOMAIN slots : slots[f].owner = l => f <= e) => e = d
  BY <1>1 DEF Newest
<1> QED BY <1>2 DEF SlotOf, Newest

\* Connect(self_id) makes a slot and puts it into the signal.
LEMMA ConnectDoes ==
  ASSUME Types, Turns, NEW r \in Receivers, Connect(r)
  PROVE  /\ handlers' \in Seq(HandlerType) /\ Len(handlers') = Len(handlers)
         /\ slots' = Append(slots, Owned(Listener(r)))
         /\ \A h \in 1..Len(handlers) :
              /\ \A k \in Keys : Sig(h, k)' = IF h = mine[r] /\ k = Listener(r)[2]
                                              THEN Sig(h, k) \cup {Len(slots) + 1} ELSE Sig(h, k)
              /\ \A l \in Listeners : Con(h, l)' = Con(h, l)
              /\ Rd(h)' = Rd(h)
<1> DEFINE n == Len(slots) + 1
<1>1. /\ mine[r] \in 1..Len(handlers) /\ All \in Keys /\ Listener(r) \in Listeners
      /\ Listener(r)[2] = All
  BY Where DEF Connect, Keys
<1>2. slots' = Append(slots, Owned(Listener(r))) /\ Len(slots') = n /\ n \in Nat
  BY <1>1, Slotted, Typed DEF Connect
<1>3. ASSUME NEW g, g = mine[r]
      PROVE  /\ handlers' \in Seq(HandlerType) /\ Len(handlers') = Len(handlers)
             /\ \A h \in 1..Len(handlers) :
                  /\ \A k \in Keys : Sig(h, k)' = IF h = g /\ k = All
                                                  THEN Sig(h, k) \cup {n} ELSE Sig(h, k)
                  /\ \A l \in Listeners : Con(h, l)' = Con(h, l)
                  /\ Rd(h)' = Rd(h)
  <2> DEFINE S == Sig(g, All) \cup {n}
  <2>1. handlers' = WithSignal(g, All, S)
    BY <1>2, <1>3 DEF Connect, Sig, WithSignal
  <2> HIDE DEF n
  <2>2. g \in 1..Len(handlers)
    BY <1>1, <1>3
  <2>3. S \in SUBSET Nat
    BY <1>1, <1>2, <2>2, Typed, Plain
  <2> HIDE DEF S
  <2>4. /\ handlers' \in Seq(HandlerType) /\ Len(handlers') = Len(handlers)
        /\ \A h \in 1..Len(handlers) :
             /\ \A i \in Keys : Sig(h, i)' = IF h = g /\ i = All THEN S ELSE Sig(h, i)
             /\ \A i \in Listeners : Con(h, i)' = Con(h, i)
             /\ Rd(h)' = Rd(h)
    BY <1>1, <2>1, <2>2, <2>3, SignalChanged
  <2> QED BY <2>4 DEF S
<1> HIDE DEF n
<1>4. n = Len(slots) + 1
  BY DEF n
<1> QED BY <1>1, <1>2, <1>3, <1>4

\* Record takes down the connection of the slot it has made,
LEMMA RecordDoes ==
  ASSUME Types, Turns, Conns, NEW r \in Receivers, Record(r)
  PROVE  /\ handlers' \in Seq(HandlerType) /\ Len(handlers') = Len(handlers)
         /\ \E d \in Sig(mine[r], All) :
              /\ slots[d] = Owned(Listener(r)) /\ Newest(d, Listener(r))
              /\ \A h \in 1..Len(handlers) : \A l \in Listeners :
                   Con(h, l)' = IF h = mine[r] /\ l = Listener(r) THEN d ELSE Con(h, l)
         /\ \A h \in 1..Len(handlers) : /\ \A k \in Keys : Sig(h, k)' = Sig(h, k)
                                        /\ Rd(h)' = Rd(h)
<1>1. mine[r] \in 1..Len(handlers) /\ Listener(r) \in Listeners /\ All \in Keys
  BY Where DEF Record, Keys
<1>2. PICK d \in Sig(mine[r], All) : slots[d] = Owned(Listener(r)) /\ Newest(d, Listener(r))
  BY DEF Record, Conns
<1>3. d \in DOMAIN slots
  <2>1. mine[r] \in DOMAIN handlers
    BY <1>1, Typed, Plain
  <2> QED BY <1>1, <1>2, <2>1 DEF Types, TypeOK, Sig
<1>4. SlotOf(Listener(r)) = d /\ d \in Nat
  BY <1>2, <1>3, SlotOfIs, Typed, Plain DEF Owned
<1>5. ASSUME NEW g, g = mine[r], NEW l, l = Listener(r)
      PROVE  /\ handlers' \in Seq(HandlerType) /\ Len(handlers') = Len(handlers)
             /\ \A h \in 1..Len(handlers) :
                  /\ \A i \in Keys : Sig(h, i)' = Sig(h, i)
                  /\ \A i \in Listeners : Con(h, i)' = IF h = g /\ i = l THEN d ELSE Con(h, i)
                  /\ Rd(h)' = Rd(h)
  <2>1. handlers' = WithConn(g, l, d)
    BY <1>4, <1>5 DEF Record, WithConn
  <2>2. g \in 1..Len(handlers) /\ l \in Listeners
    BY <1>1, <1>5
  <2> QED BY <1>4, <2>1, <2>2, ConnChanged
<1> QED BY <1>2, <1>5

\* and Connect(self_id, oppo_id) does all of it.
LEMMA OppositeDoes ==
  ASSUME Types, Turns, NEW r \in Receivers, ConnectOpposite(r)
  PROVE  /\ handlers' \in Seq(HandlerType) /\ Len(handlers') = Len(handlers)
         /\ slots' = Append(slots, Owned(Listener(r)))
         /\ \A h \in 1..Len(handlers) :
              /\ \A k \in Keys : Sig(h, k)' = IF h = mine[r] /\ k = Listener(r)[2]
                                              THEN Sig(h, k) \cup {Len(slots) + 1} ELSE Sig(h, k)
              /\ \A l \in Listeners : Con(h, l)' = IF h = mine[r] /\ l = Listener(r)
                                                   THEN Len(slots) + 1 ELSE Con(h, l)
              /\ Rd(h)' = Rd(h)
<1> DEFINE n == Len(slots) + 1
<1>1. mine[r] \in 1..Len(handlers) /\ Listener(r) \in Listeners /\ Listener(r)[2] \in Keys
  BY Where DEF ConnectOpposite
<1>2. slots' = Append(slots, Owned(Listener(r))) /\ Len(slots') = n /\ n \in Nat
  BY <1>1, Slotted, Typed DEF ConnectOpposite
<1>3. ASSUME NEW g, g = mine[r], NEW l, l = Listener(r), NEW k, k = Listener(r)[2]
      PROVE  /\ handlers' \in Seq(HandlerType) /\ Len(handlers') = Len(handlers)
             /\ \A h \in 1..Len(handlers) :
                  /\ \A i \in Keys : Sig(h, i)' = IF h = g /\ i = k
                                                  THEN Sig(h, i) \cup {n} ELSE Sig(h, i)
                  /\ \A i \in Listeners : Con(h, i)' = IF h = g /\ i = l THEN n ELSE Con(h, i)
                  /\ Rd(h)' = Rd(h)
  <2> DEFINE S == Sig(g, k) \cup {n}
  <2>1. handlers' = WithBoth(g, k, S, l, n)
    BY <1>2, <1>3 DEF ConnectOpposite, Sig, WithBoth
  <2> HIDE DEF n
  <2>2. g \in 1..Len(handlers) /\ k \in Keys /\ l \in Listeners
    BY <1>1, <1>3
  <2>3. S \in SUBSET Nat
    BY <1>1, <1>2, <2>2, Typed, Plain
  <2> HIDE DEF S
  <2>4. /\ handlers' \in Seq(HandlerType) /\ Len(handlers') = Len(handlers)
        /\ \A h \in 1..Len(handlers) :
             /\ \A i \in Keys : Sig(h, i)' = IF h = g /\ i = k THEN S ELSE Sig(h, i)
             /\ \A i \in Listeners : Con(h, i)' = IF h = g /\ i = l THEN n ELSE Con(h, i)
             /\ Rd(h)' = Rd(h)
    <3>1. ASSUME NEW m \in Nat, NEW T \in SUBSET Nat, handlers' = WithBoth(g, k, T, l, m)
          PROVE  /\ handlers' \in Seq(HandlerType) /\ Len(handlers') = Len(handlers)
                 /\ \A h \in 1..Len(handlers) :
                      /\ \A i \in Keys : Sig(h, i)' = IF h = g /\ i = k THEN T ELSE Sig(h, i)
                      /\ \A i \in Listeners : Con(h, i)' = IF h = g /\ i = l THEN m ELSE Con(h, i)
                      /\ Rd(h)' = Rd(h)
      BY <2>2, <3>1, BothChanged
    <3> QED BY <1>2, <2>1, <2>3, <3>1
  <2> QED BY <2>4 DEF S
<1> HIDE DEF n
<1>4. n = Len(slots) + 1
  BY DEF n
<1> QED BY <1>1, <1>2, <1>3, <1>4

\* A slot that is disconnected.
LEMMA Unplugged ==
  ASSUME Types, NEW d \in 1..Len(slots), slots' = [slots EXCEPT ![d].connected = FALSE]
  PROVE  /\ slots' \in Seq(SlotType) /\ Len(slots') = Len(slots)
         /\ \A e \in 1..Len(slots) :
              /\ slots'[e].owner = slots[e].owner
              /\ slots'[e].connected = (slots[e].connected /\ e # d)
<1> DEFINE x == [slots[d] EXCEPT !.connected = FALSE]
<1>1. slots \in Seq(SlotType) /\ slots[d] \in SlotType
  BY Typed
<1>2. x \in SlotType /\ x.owner = slots[d].owner /\ x.connected = FALSE
  BY <1>1 DEF SlotType
<1>3. slots' = [slots EXCEPT ![d] = x]
  OBVIOUS
<1> HIDE DEF x
<1>4. /\ slots' \in Seq(SlotType) /\ Len(slots') = Len(slots)
      /\ \A e \in 1..Len(slots) : slots'[e] = IF e = d THEN x ELSE slots[e]
  <2>1. x \in SlotType
    BY <1>2
  <2>2. /\ [slots EXCEPT ![d] = x] \in Seq(SlotType) /\ Len([slots EXCEPT ![d] = x]) = Len(slots)
        /\ \A e \in 1..Len(slots) : [slots EXCEPT ![d] = x][e] = IF e = d THEN x ELSE slots[e]
    BY <1>1, <2>1, Put
  <2> QED BY <1>3, <2>2
<1>5. ASSUME NEW e \in 1..Len(slots)
      PROVE  /\ slots'[e].owner = slots[e].owner
             /\ slots'[e].connected = (slots[e].connected /\ e # d)
  <2>1. slots[e].connected \in BOOLEAN
    BY Typed, Plain
  <2>2. CASE e = d
    <3>1. slots'[e] = x
      BY <1>4, <2>2
    <3>2. slots'[e].owner = slots[d].owner /\ slots'[e].connected = FALSE
      BY <1>2, <3>1
    <3> QED BY <2>2, <3>2
  <2>3. CASE e # d
    BY <1>4, <2>1, <2>3
  <2> QED BY <2>2, <2>3
<1> QED BY <1>4, <1>5

\* Disconnect disconnects the slot that is recorded, clears the signal of it and
\* erases the record.
LEMMA DisconnectDoes ==
  ASSUME Types, Turns, NEW r \in Receivers, Disconnect(r)
  PROVE  /\ handlers' \in Seq(HandlerType) /\ Len(handlers') = Len(handlers)
         /\ slots' \in Seq(SlotType) /\ Len(slots') = Len(slots)
         /\ Rd(mine[r]) = {}
         /\ \A e \in 1..Len(slots) :
              /\ slots'[e].owner = slots[e].owner
              /\ slots'[e].connected = (slots[e].connected /\ e # Con(mine[r], Listener(r)))
         /\ \A h \in 1..Len(handlers) :
              /\ \A k \in Keys : /\ Sig(h, k)' \subseteq Sig(h, k)
                                 /\ \A d \in Sig(h, k) : d \in Sig(h, k)' \/ ~slots'[d].connected
              /\ \A l \in Listeners : Con(h, l)' = IF h = mine[r] /\ l = Listener(r)
                                                   THEN 0 ELSE Con(h, l)
              /\ Rd(h)' = Rd(h)
         /\ Con(mine[r], Listener(r)) # 0 =>
              /\ Con(mine[r], Listener(r)) \in Sig(mine[r], Listener(r)[2])
              /\ slots[Con(mine[r], Listener(r))] = Owned(Listener(r))
<1>1. /\ mine[r] \in 1..Len(handlers) /\ Listener(r) \in Listeners /\ Listener(r)[2] \in Keys
      /\ mine[r] \in DOMAIN handlers
  BY Where DEF Disconnect
<1>2. ASSUME NEW g, g = mine[r], NEW l, l = Listener(r), NEW k, k = Listener(r)[2],
             NEW d, d = Con(g, l)
      PROVE  /\ handlers' \in Seq(HandlerType) /\ Len(handlers') = Len(handlers)
             /\ slots' \in Seq(SlotType) /\ Len(slots') = Len(slots)
             /\ \A e \in 1..Len(slots) :
                  /\ slots'[e].owner = slots[e].owner
                  /\ slots'[e].connected = (slots[e].connected /\ e # d)
             /\ \A h \in 1..Len(handlers) :
                  /\ \A i \in Keys : /\ Sig(h, i)' \subseteq Sig(h, i)
                                     /\ \A e \in Sig(h, i) : e \in Sig(h, i)' \/ ~slots'[e].connected
                  /\ \A i \in Listeners : Con(h, i)' = IF h = g /\ i = l THEN 0 ELSE Con(h, i)
                  /\ Rd(h)' = Rd(h)
             /\ d # 0 => d \in Sig(g, k) /\ slots[d] = Owned(l)
  <2>1. g \in 1..Len(handlers) /\ l \in Listeners /\ k \in Keys /\ g \in DOMAIN handlers
    BY <1>1, <1>2
  <2>2. d \in Nat /\ \A e \in 1..Len(slots) : slots[e].connected \in BOOLEAN
    BY <1>2, <2>1, Typed, Plain
  <2>3. CASE d = 0
    <3>1. UNCHANGED <<handlers, slots>>
      BY <1>2, <2>3 DEF Disconnect, Con
    <3>2. \A h : /\ \A i \in Keys : Sig(h, i)' = Sig(h, i)
                 /\ \A i \in Listeners : Con(h, i)' = Con(h, i)
                 /\ Rd(h)' = Rd(h)
      BY <3>1 DEF Sig, Con, Rd
    <3>3. \A e \in 1..Len(slots) : slots'[e].connected = (slots[e].connected /\ e # d)
      BY <2>2, <2>3, <3>1
    <3> QED BY <1>2, <2>1, <2>3, <3>1, <3>2, <3>3, Typed
  <2>4. CASE d # 0
    <3>1. d \in Sig(g, k) /\ slots[d] = Owned(l) /\ Sig(g, k) \subseteq DOMAIN slots
      <4>1. handlers[g].conns[l] # 0
        BY <1>2, <2>4 DEF Con
      <4>2. l[2] = k
        BY <1>2
      <4>3. TypeOK
        BY DEF Types
      <4> QED BY <1>2, <2>1, <4>1, <4>2, <4>3 DEF TypeOK, Sig, Con
    <3>2. DOMAIN slots = 1..Len(slots) /\ DOMAIN slots \subseteq Nat
      BY Typed, Plain
    <3>3. slots' = [slots EXCEPT ![d].connected = FALSE]
      BY <1>2, <2>4 DEF Disconnect, Con
    <3>4. /\ slots' \in Seq(SlotType) /\ Len(slots') = Len(slots)
          /\ \A e \in 1..Len(slots) :
               /\ slots'[e].owner = slots[e].owner
               /\ slots'[e].connected = (slots[e].connected /\ e # d)
      BY <3>1, <3>2, <3>3, Unplugged
    <3> DEFINE S == {e \in Sig(g, k) : slots'[e].connected}
    <3>5. handlers' = WithBoth(g, k, S, l, 0)
      <4>1. handlers' = [handlers EXCEPT ![g] =
              [[handlers[g] EXCEPT !.signal[k] = S] EXCEPT !.conns[l] = 0]]
        BY <1>2, <2>4 DEF Disconnect, Con, Erased, Connected, Sig
      <4> HIDE DEF S
      <4>2. [[handlers[g] EXCEPT !.signal[k] = S] EXCEPT !.conns[l] = 0] =
              [handlers[g] EXCEPT !.signal[k] = S, !.conns[l] = 0]
        OBVIOUS
      <4>3. WithBoth(g, k, S, l, 0) =
              [handlers EXCEPT ![g] = [handlers[g] EXCEPT !.signal[k] = S, !.conns[l] = 0]]
        BY <2>1 DEF WithBoth
      <4> QED BY <4>1, <4>2, <4>3
    <3>6. S \in SUBSET Nat
      BY <3>1, <3>2
    <3>7. \A e \in Sig(g, k) : e \in S \/ ~slots'[e].connected
      OBVIOUS
    <3>8. S \subseteq Sig(g, k)
      OBVIOUS
    <3> HIDE DEF S
    <3>9. ASSUME NEW T \in SUBSET Nat, handlers' = WithBoth(g, k, T, l, 0)
          PROVE  /\ handlers' \in Seq(HandlerType) /\ Len(handlers') = Len(handlers)
                 /\ \A h \in 1..Len(handlers) :
                      /\ \A i \in Keys : Sig(h, i)' = IF h = g /\ i = k THEN T ELSE Sig(h, i)
                      /\ \A i \in Listeners : Con(h, i)' = IF h = g /\ i = l THEN 0 ELSE Con(h, i)
                      /\ Rd(h)' = Rd(h)
      <4>1. 0 \in Nat
        OBVIOUS
      <4> QED BY <2>1, <3>9, <4>1, BothChanged
    <3>10. /\ handlers' \in Seq(HandlerType) /\ Len(handlers') = Len(handlers)
           /\ \A h \in 1..Len(handlers) :
                /\ \A i \in Keys : Sig(h, i)' = IF h = g /\ i = k THEN S ELSE Sig(h, i)
                /\ \A i \in Listeners : Con(h, i)' = IF h = g /\ i = l THEN 0 ELSE Con(h, i)
                /\ Rd(h)' = Rd(h)
      BY <3>5, <3>6, <3>9
    <3> QED BY <3>1, <3>4, <3>7, <3>8, <3>10
  <2> QED BY <2>3, <2>4
<1>3. Rd(mine[r]) = {}
  BY DEF Disconnect, Free, Rd
<1> QED BY <1>1, <1>2, <1>3

-----------------------------------------------------------------------------
(* What a step leaves to the others *)

Enabling(r) ==
  EnableAgain(r) \/ Ignored(r) \/ AddListener(r) \/ SetHandler(r) \/ Connect(r) \/ Record(r)
  \/ ConnectOpposite(r) \/ RemoveListener(r) \/ Disconnect(r)
Sending(s) ==
  OnMessage(s) \/ CopySlots(s) \/ TestSlot(s) \/ Called(s)
  \/ ClearDisconnectedSlots(s) \/ ReadLock(s) \/ RunReturns(s)

\* No step takes a slot off a signal that is still connected, and a slot keeps
\* its owner and is not connected again.
Lists ==
  /\ handlers' \in Seq(HandlerType) /\ Len(handlers') >= Len(handlers)
  /\ slots' \in Seq(SlotType) /\ Len(slots') >= Len(slots)
  /\ \A d \in 1..Len(slots) : /\ slots'[d].owner = slots[d].owner
                              /\ slots'[d].connected => slots[d].connected
  /\ \A h \in 1..Len(handlers), k \in Keys : \A d \in Sig(h, k) :
       d \in Sig(h, k)' \/ ~slots'[d].connected

\* A sender's step.
SFrame(s) ==
  /\ UNCHANGED <<table, slots, is_shutdown, receivers, status>>
  /\ Len(handlers') = Len(handlers)
  /\ \A h \in 1..Len(handlers) :
       /\ \A k \in Keys : Sig(h, k)' \subseteq Sig(h, k)
       /\ \A l \in Listeners : Con(h, l)' = Con(h, l)
       /\ \A q \in Senders \ {s} : q \in Rd(h)' <=> q \in Rd(h)
  /\ \A q \in Senders \ {s} :
       /\ spc'[q] = spc[q] /\ at'[q] = at[q] /\ key'[q] = key[q] /\ local'[q] = local[q]
       /\ must'[q] = must[q] /\ never'[q] = never[q] /\ called'[q] = called[q]

LEMMA ClearDoes ==
  ASSUME Types, Running, NEW s \in Senders, ClearDisconnectedSlots(s)
  PROVE  /\ handlers' \in Seq(HandlerType) /\ Len(handlers') = Len(handlers)
         /\ \A h \in 1..Len(handlers) :
              /\ \A k \in Keys : /\ Sig(h, k)' \subseteq Sig(h, k)
                                 /\ \A d \in Sig(h, k) : d \in Sig(h, k)' \/ ~slots[d].connected
              /\ \A l \in Listeners : Con(h, l)' = Con(h, l)
              /\ Rd(h)' = Rd(h)
<1>1. at[s] \in 1..Len(handlers) /\ key[s] \in Keys
  <2>1. at[s] # 0
    BY DEF ClearDisconnectedSlots, Running
  <2> QED BY <2>1, Typed, Plain DEF Types, TypeOK
<1>2. ASSUME NEW g, g = at[s], NEW k, k = key[s]
      PROVE  /\ handlers' \in Seq(HandlerType) /\ Len(handlers') = Len(handlers)
             /\ \A h \in 1..Len(handlers) :
                  /\ \A i \in Keys : /\ Sig(h, i)' \subseteq Sig(h, i)
                                     /\ \A d \in Sig(h, i) : d \in Sig(h, i)' \/ ~slots[d].connected
                  /\ \A l \in Listeners : Con(h, l)' = Con(h, l)
                  /\ Rd(h)' = Rd(h)
  <2> DEFINE S == {d \in Sig(g, k) : slots[d].connected}
  <2>1. handlers' = WithSignal(g, k, S)
    BY <1>2 DEF ClearDisconnectedSlots, Connected, WithSignal, Sig
  <2>2. g \in 1..Len(handlers) /\ k \in Keys
    BY <1>1, <1>2
  <2>3. S \in SUBSET Nat /\ S \subseteq Sig(g, k)
        /\ \A d \in Sig(g, k) : d \in S \/ ~slots[d].connected
    BY <2>2, Typed, Plain
  <2> HIDE DEF S
  <2>4. /\ handlers' \in Seq(HandlerType) /\ Len(handlers') = Len(handlers)
        /\ \A h \in 1..Len(handlers) :
             /\ \A i \in Keys : Sig(h, i)' = IF h = g /\ i = k THEN S ELSE Sig(h, i)
             /\ \A i \in Listeners : Con(h, i)' = Con(h, i)
             /\ Rd(h)' = Rd(h)
    BY <2>1, <2>2, <2>3, SignalChanged
  <2> QED BY <2>3, <2>4
<1> QED BY <1>2

LEMMA LocksDo ==
  ASSUME Types, Running, NEW s \in Senders, ReadLock(s) \/ RunReturns(s)
  PROVE  /\ handlers' \in Seq(HandlerType) /\ Len(handlers') = Len(handlers)
         /\ \A h \in 1..Len(handlers) :
              /\ \A k \in Keys : Sig(h, k)' = Sig(h, k)
              /\ \A l \in Listeners : Con(h, l)' = Con(h, l)
              /\ \A q \in Senders \ {s} : q \in Rd(h)' <=> q \in Rd(h)
              /\ ReadLock(s) /\ h = at[s] => s \in Rd(h)'
<1>1. at[s] \in 1..Len(handlers)
  <2>1. at[s] # 0
    BY DEF ReadLock, RunReturns, Running
  <2> QED BY <2>1, Typed, Plain DEF Types, TypeOK
<1>2. ASSUME NEW g, g = at[s]
      PROVE  /\ handlers' \in Seq(HandlerType) /\ Len(handlers') = Len(handlers)
             /\ \A h \in 1..Len(handlers) :
                  /\ \A k \in Keys : Sig(h, k)' = Sig(h, k)
                  /\ \A l \in Listeners : Con(h, l)' = Con(h, l)
                  /\ \A q \in Senders \ {s} : q \in Rd(h)' <=> q \in Rd(h)
                  /\ ReadLock(s) /\ h = g => s \in Rd(h)'
  <2> DEFINE R == IF ReadLock(s) THEN Rd(g) \cup {s} ELSE Rd(g) \ {s}
  <2>1. handlers' = WithReaders(g, R)
    BY <1>2 DEF ReadLock, RunReturns, WithReaders, Rd
  <2>2. g \in 1..Len(handlers)
    BY <1>1, <1>2
  <2>3. /\ R \in SUBSET Senders /\ \A q \in Senders \ {s} : q \in R <=> q \in Rd(g)
        /\ ReadLock(s) => s \in R
    BY <2>2, Typed, Plain
  <2> HIDE DEF R
  <2>4. /\ handlers' \in Seq(HandlerType) /\ Len(handlers') = Len(handlers)
        /\ \A h \in 1..Len(handlers) :
             /\ \A i \in Keys : Sig(h, i)' = Sig(h, i)
             /\ \A i \in Listeners : Con(h, i)' = Con(h, i)
             /\ Rd(h)' = IF h = g THEN R ELSE Rd(h)
    BY <2>1, <2>2, <2>3, ReadersChanged
  <2> QED BY <2>3, <2>4
<1> QED BY <1>2

LEMMA SendingDoes ==
  ASSUME Types, Running, NEW s \in Senders, Sending(s)
  PROVE  Lists /\ SFrame(s)
<1> USE DEF dispatcher, receivers, runs, history, GotoS
<1>1. ASSUME UNCHANGED dispatcher
      PROVE  /\ handlers' \in Seq(HandlerType) /\ Len(handlers') = Len(handlers)
             /\ \A h \in 1..Len(handlers) :
                  /\ \A k \in Keys : Sig(h, k)' = Sig(h, k)
                  /\ \A l \in Listeners : Con(h, l)' = Con(h, l)
                  /\ Rd(h)' = Rd(h)
  BY <1>1, Typed DEF Sig, Con, Rd
<1>2. /\ handlers' \in Seq(HandlerType) /\ Len(handlers') = Len(handlers)
      /\ \A h \in 1..Len(handlers) :
           /\ \A k \in Keys : /\ Sig(h, k)' \subseteq Sig(h, k)
                              /\ \A d \in Sig(h, k) : d \in Sig(h, k)' \/ ~slots[d].connected
           /\ \A l \in Listeners : Con(h, l)' = Con(h, l)
           /\ \A q \in Senders \ {s} : q \in Rd(h)' <=> q \in Rd(h)
  <2>1. CASE OnMessage(s) \/ CopySlots(s) \/ TestSlot(s) \/ Called(s)
    <3>1. UNCHANGED dispatcher
      BY <2>1 DEF OnMessage, CopySlots, TestSlot, Called
    <3> QED BY <3>1, <1>1
  <2>2. CASE ClearDisconnectedSlots(s)
    BY <2>2, ClearDoes
  <2>3. CASE ReadLock(s) \/ RunReturns(s)
    BY <2>3, LocksDo
  <2> QED BY <2>1, <2>2, <2>3 DEF Sending
<1>3. UNCHANGED <<table, slots, is_shutdown, receivers, status>>
  BY DEF Sending, OnMessage, CopySlots, TestSlot, Called, ClearDisconnectedSlots, ReadLock, RunReturns
<1>4. \A q \in Senders \ {s} :
       /\ spc'[q] = spc[q] /\ at'[q] = at[q] /\ key'[q] = key[q] /\ local'[q] = local[q]
       /\ must'[q] = must[q] /\ never'[q] = never[q] /\ called'[q] = called[q]
  <2>1. CASE OnMessage(s)
    BY <2>1 DEF OnMessage, Types, TypeOK, Shapes
  <2>2. CASE CopySlots(s) \/ TestSlot(s)
    BY <2>2 DEF CopySlots, TestSlot, Types, TypeOK, Shapes
  <2>3. CASE Called(s)
    BY <2>3 DEF Called, Types, TypeOK, Shapes
  <2>4. CASE ClearDisconnectedSlots(s) \/ ReadLock(s)
    BY <2>4 DEF ClearDisconnectedSlots, ReadLock, Types, TypeOK, Shapes
  <2>5. CASE RunReturns(s)
    BY <2>5 DEF RunReturns, Types, TypeOK, Shapes
  <2> QED BY <2>1, <2>2, <2>3, <2>4, <2>5 DEF Sending
<1>5. SFrame(s)
  BY <1>2, <1>3, <1>4 DEF SFrame
<1>6. Lists
  BY <1>2, <1>3, Typed, Plain DEF Lists
<1> QED BY <1>5, <1>6

\* A receiver's step,
RFrame(r) ==
  /\ UNCHANGED <<is_shutdown, left, spc, at, key, local, called>>
  /\ \A q \in Receivers \ {r} :
       pc'[q] = pc[q] /\ todo'[q] = todo[q] /\ mine'[q] = mine[q] /\ enabled'[q] = enabled[q]
  /\ \A h \in 1..Len(handlers) :
       /\ Rd(h)' = Rd(h)
       /\ \A l \in Listeners : l # Listener(r) => Con(h, l)' = Con(h, l)
       /\ \A k \in Keys : \A d \in Sig(h, k)' :
            \/ d \in Sig(h, k)
            \/ /\ h = mine[r] /\ k = Listener(r)[2] /\ d = Len(slots) + 1
               /\ d \in 1..Len(slots') /\ slots'[d] = Owned(Listener(r))
               /\ status[Listener(r)] = "coming"
  /\ \A h \in 1..Len(handlers') : h \notin 1..Len(handlers) =>
       /\ \A k \in Keys : Sig(h, k)' = {}
       /\ \A l \in Listeners : Con(h, l)' = 0
  /\ \A d \in 1..Len(slots) :
       \/ slots'[d].connected = slots[d].connected
       \/ /\ mine[r] \in 1..Len(handlers) /\ Rd(mine[r]) = {}
          /\ d \in Sig(mine[r], Listener(r)[2]) /\ slots[d].owner = Listener(r)
          /\ status[Listener(r)] = "going" /\ pc[r] = "disconnect"
  /\ \A s \in Senders : must'[s] \subseteq must[s] /\ never'[s] \subseteq never[s]

\* and what it does to its listener.
Still(r) ==
  pc[r] # "disconnect" /\ \A l \in Listeners, h \in 1..Len(handlers) : l = Listener(r) => Con(h, l)' = Con(h, l)
Outcome(r) ==
  /\ \A l \in Listeners : l # Listener(r) => status'[l] = status[l]
  /\ \/ status'[Listener(r)] = status[Listener(r)] /\ Still(r)
     \/ status'[Listener(r)] = "off" /\ Still(r) /\ (is_shutdown \/ table = 0)
     \/ /\ status[Listener(r)] = "off" /\ status'[Listener(r)] = "coming"
        /\ Still(r) /\ ~is_shutdown
        /\ \A s \in Senders : Listener(r) \notin never'[s]
     \/ /\ status'[Listener(r)] = "going" /\ Still(r)
        /\ \A s \in Senders : Listener(r) \notin must'[s]
     \/ status[Listener(r)] = "coming" /\ status'[Listener(r)] = "on"
     \/ status[Listener(r)] = "going" /\ status'[Listener(r)] = "off" /\ Disconnect(r)

LEMMA Becomes ==
  ASSUME Types, NEW r \in Receivers, Listener(r) \in Listeners, NEW st,
         status' = [status EXCEPT ![Listener(r)] = st]
  PROVE  /\ status'[Listener(r)] = st
         /\ \A l \in Listeners : l # Listener(r) => status'[l] = status[l]
BY DEF Types, Shapes

LEMMA HasCall ==
  ASSUME Types, Turns, NEW r \in Receivers, Enabling(r)
  PROVE  /\ todo[r] # <<>> /\ Listener(r) \in Listeners
         /\ Listener(r)[1] = r /\ Listener(r)[2] \in Keys /\ Listener(r)[2] = todo[r][1].key
         /\ todo[r][1] \in CallType
<1>1. todo[r] # <<>>
  BY DEF Enabling, EnableAgain, Ignored, AddListener, SetHandler, Connect, Record, ConnectOpposite,
         RemoveListener, Disconnect, Calls, Turns, Turn
<1> QED BY <1>1, TheCall DEF Types

\* AddListener is called for a listener that is off.
LEMMA WasOff ==
  ASSUME Types, Turns, NEW r \in Receivers, AddListener(r)
  PROVE  status[Listener(r)] = "off"
<1>1. /\ todo[r] # <<>> /\ Listener(r) \in Listeners /\ pc[r] = "idle"
      /\ todo[r][1] = CallOf("Enable", Listener(r)[2]) /\ Listener(r) = <<r, Listener(r)[2]>>
      /\ Listener(r)[2] \in Keys
  <2>1. Enabling(r)
    BY DEF Enabling
  <2> QED BY <2>1, HasCall DEF AddListener, Calls, CallOf, CallType, Listener
<1>2. ASSUME NEW k, k = Listener(r)[2] PROVE status[<<r, k>>] = "off"
  <2>1. k \in Keys /\ <<r, k>> \in Listeners /\ todo[r][1] = CallOf("Enable", k) /\ 1 \in DOMAIN todo[r]
    <3>1. Len(todo[r]) \in Nat \ {0} /\ todo[r] \in Seq(CallType)
      BY <1>1, TheCall DEF Types, TypeOK, CallType
    <3> QED BY <1>1, <1>2, <3>1
  <2>2. status[<<r, k>>] \notin {"coming", "going"}
    BY <1>1, <2>1 DEF Turns, Turn
  <2>3. status[<<r, k>>] # "on"
    <3>1. CASE k = All
      BY <1>2, <3>1 DEF AddListener, Redundant, Turns, Turn
    <3>2. CASE k # All
      <4>1. ASSUME status[<<r, k>>] = "on" PROVE \E m \in 1..1 : todo[r][m] = CallOf("Disable", k)
        BY <2>1, <3>2, <4>1 DEF Turns, Turn
      <4>2. CallOf("Enable", k) # CallOf("Disable", k)
        BY DEF CallOf
      <4> QED BY <2>1, <4>1, <4>2
    <3> QED BY <3>1, <3>2
  <2> QED BY <2>1, <2>2, <2>3 DEF Types, Shapes
<1> QED BY <1>1, <1>2

LEMMA QuietDoes ==
  ASSUME Types, Turns, NEW r \in Receivers,
         EnableAgain(r) \/ Ignored(r) \/ AddListener(r) \/ RemoveListener(r)
  PROVE  Lists /\ RFrame(r) /\ Outcome(r) /\ UNCHANGED dispatcher
<1> USE DEF dispatcher, receivers, runs, history, Goto, SetStatus, Return
<1>1. UNCHANGED dispatcher /\ UNCHANGED <<left, spc, at, key, local, called>>
  BY DEF EnableAgain, Ignored, AddListener, RemoveListener
<1>2. \A h \in 1..Len(handlers) : /\ \A k \in Keys : Sig(h, k)' = Sig(h, k)
                                  /\ \A l \in Listeners : Con(h, l)' = Con(h, l)
                                  /\ Rd(h)' = Rd(h)
  BY <1>1 DEF Sig, Con, Rd
<1>3. Lists
  <2>1. /\ handlers \in Seq(HandlerType) /\ Len(handlers) \in Nat
        /\ slots \in Seq(SlotType) /\ Len(slots) \in Nat
    BY Typed, Plain
  <2>2. handlers' = handlers /\ slots' = slots
    BY <1>1
  <2> QED BY ONLY <1>2, <2>1, <2>2 DEF Lists
<1>4. \A q \in Receivers \ {r} :
       pc'[q] = pc[q] /\ todo'[q] = todo[q] /\ mine'[q] = mine[q] /\ enabled'[q] = enabled[q]
  <2>1. CASE EnableAgain(r) \/ Ignored(r)
    BY <2>1 DEF EnableAgain, Ignored, Types, TypeOK
  <2>2. CASE AddListener(r) \/ RemoveListener(r)
    BY <2>2 DEF AddListener, RemoveListener, Types, TypeOK
  <2> QED BY <2>1, <2>2
<1>5. \A s \in Senders : must'[s] \subseteq must[s] /\ never'[s] \subseteq never[s]
  BY DEF EnableAgain, Ignored, AddListener, RemoveListener
<1>6. RFrame(r)
  BY <1>1, <1>2, <1>4, <1>5 DEF RFrame
<1>7. Outcome(r)
  <2>1. Listener(r) \in Listeners /\ Enabling(r)
    BY HasCall DEF Enabling
  <2>0. Still(r)
    <3>1. pc[r] # "disconnect"
      BY DEF EnableAgain, Ignored, AddListener, RemoveListener, Calls
    <3> QED BY <1>2, <2>1, <3>1 DEF Still
  <2>2. CASE EnableAgain(r)
    <3>1. status' = status
      BY <2>2 DEF EnableAgain
    <3> QED BY <2>0, <3>1 DEF Outcome
  <2>3. CASE Ignored(r)
    <3>1. status' = [status EXCEPT ![Listener(r)] = "off"] /\ (is_shutdown \/ table = 0)
      BY <2>3 DEF Ignored
    <3> QED BY <2>0, <2>1, <3>1, Becomes DEF Outcome
  <2>4. CASE AddListener(r)
    <3>1. /\ status' = [status EXCEPT ![Listener(r)] = "coming"] /\ ~is_shutdown
          /\ \A s \in Senders : Listener(r) \notin never'[s]
      BY <2>4 DEF AddListener
    <3>2. status[Listener(r)] = "off"
      BY <2>4, WasOff
    <3> QED BY <2>0, <2>1, <3>1, <3>2, Becomes DEF Outcome
  <2>5. CASE RemoveListener(r)
    <3>1. /\ status' = [status EXCEPT ![Listener(r)] = "going"]
          /\ \A s \in Senders : Listener(r) \notin must'[s]
      BY <2>5 DEF RemoveListener
    <3> QED BY <2>0, <2>1, <3>1, Becomes DEF Outcome
  <2> QED BY <2>2, <2>3, <2>4, <2>5
<1> QED BY <1>1, <1>3, <1>6, <1>7

LEMMA BusyDoes ==
  ASSUME Types, Turns, Conns, NEW r \in Receivers,
         SetHandler(r) \/ Connect(r) \/ Record(r) \/ ConnectOpposite(r) \/ Disconnect(r)
  PROVE  Lists /\ RFrame(r) /\ Outcome(r)
<1> USE DEF dispatcher, receivers, runs, history, Goto, SetStatus, Return
<1>1. /\ UNCHANGED <<is_shutdown, left, spc, at, key, local, called, must, never>>
      /\ Listener(r) \in Listeners /\ Listener(r)[2] \in Keys
  BY HasCall DEF Enabling, SetHandler, Connect, Record, ConnectOpposite, Disconnect
<1>2. \A q \in Receivers \ {r} :
       pc'[q] = pc[q] /\ todo'[q] = todo[q] /\ mine'[q] = mine[q] /\ enabled'[q] = enabled[q]
  <2>1. CASE SetHandler(r) \/ Connect(r)
    BY <2>1 DEF SetHandler, Connect, Types, TypeOK
  <2>2. CASE Record(r) \/ ConnectOpposite(r) \/ Disconnect(r)
    BY <2>2 DEF Record, ConnectOpposite, Disconnect, Types, TypeOK
  <2> QED BY <2>1, <2>2
<1>3. Len(handlers) \in Nat /\ Len(slots) \in Nat /\ handlers \in Seq(HandlerType) /\ slots \in Seq(SlotType)
  BY Typed, Plain
<1>4. CASE SetHandler(r)
  <2>1. UNCHANGED <<slots, status>>
    BY <1>4 DEF SetHandler
  <2>2. Lists
    BY <1>3, <1>4, <2>1, SetHandlerDoes DEF Lists
  <2>3. RFrame(r)
    BY <1>1, <1>2, <1>3, <1>4, <2>1, SetHandlerDoes DEF RFrame
  <2>4. Still(r)
    BY <1>4, SetHandlerDoes DEF Still, SetHandler
  <2> QED BY <2>1, <2>2, <2>3, <2>4 DEF Outcome
<1>5. CASE Connect(r)
  <2>0. Len(slots') = Len(slots) + 1 /\ slots' \in Seq(SlotType)
        /\ (\A d \in 1..Len(slots) : slots'[d] = slots[d]) /\ slots'[Len(slots) + 1] = Owned(Listener(r))
    BY <1>1, <1>5, ConnectDoes, Slotted
  <2>1. status' = status /\ status[Listener(r)] = "coming"
    BY <1>5 DEF Connect, Turns, Turn
  <2>2. Lists
    BY <1>3, <1>5, <2>0, ConnectDoes DEF Lists
  <2>3. RFrame(r)
    BY <1>1, <1>2, <1>3, <1>5, <2>0, <2>1, ConnectDoes DEF RFrame
  <2>4. Still(r)
    BY <1>5, ConnectDoes DEF Still, Connect
  <2> QED BY <2>1, <2>2, <2>3, <2>4 DEF Outcome
<1>6. CASE ConnectOpposite(r)
  <2>0. Len(slots') = Len(slots) + 1 /\ slots' \in Seq(SlotType)
        /\ (\A d \in 1..Len(slots) : slots'[d] = slots[d]) /\ slots'[Len(slots) + 1] = Owned(Listener(r))
    BY <1>1, <1>6, OppositeDoes, Slotted
  <2>1. status' = [status EXCEPT ![Listener(r)] = "on"] /\ status[Listener(r)] = "coming"
    BY <1>6 DEF ConnectOpposite, Turns, Turn
  <2>2. Lists
    BY <1>3, <1>6, <2>0, OppositeDoes DEF Lists
  <2>3. RFrame(r)
    BY <1>1, <1>2, <1>3, <1>6, <2>0, <2>1, OppositeDoes DEF RFrame
  <2> QED BY <1>1, <2>1, <2>2, <2>3, Becomes DEF Outcome
<1>7. CASE Record(r)
  <2>1. /\ status' = [status EXCEPT ![Listener(r)] = "on"] /\ status[Listener(r)] = "coming"
        /\ UNCHANGED slots
    BY <1>7 DEF Record, Turns, Turn
  <2>2. Lists
    BY <1>3, <1>7, <2>1, RecordDoes DEF Lists
  <2>3. RFrame(r)
    BY <1>1, <1>2, <1>3, <1>7, <2>1, RecordDoes DEF RFrame
  <2> QED BY <1>1, <2>1, <2>2, <2>3, Becomes DEF Outcome
<1>8. CASE Disconnect(r)
  <2>1. status' = [status EXCEPT ![Listener(r)] = "off"] /\ status[Listener(r)] = "going"
    BY <1>8 DEF Disconnect, Turns, Turn
  <2>d. /\ handlers' \in Seq(HandlerType) /\ Len(handlers') = Len(handlers)
        /\ slots' \in Seq(SlotType) /\ Len(slots') = Len(slots)
        /\ \A e \in 1..Len(slots) :
             /\ slots'[e].owner = slots[e].owner
             /\ slots'[e].connected = (slots[e].connected /\ e # Con(mine[r], Listener(r)))
        /\ \A h \in 1..Len(handlers), k \in Keys : \A d \in Sig(h, k) :
             d \in Sig(h, k)' \/ ~slots'[d].connected
        /\ Con(mine[r], Listener(r)) # 0 =>
             /\ Con(mine[r], Listener(r)) \in Sig(mine[r], Listener(r)[2])
             /\ slots[Con(mine[r], Listener(r))] = Owned(Listener(r))
    BY <1>8, DisconnectDoes
  <2>2. Lists
    <3>1. handlers' \in Seq(HandlerType) /\ Len(handlers') >= Len(handlers)
      <4>1. handlers' \in Seq(HandlerType) /\ Len(handlers') = Len(handlers)
        BY <2>d
      <4> QED BY ONLY <1>3, <4>1
    <3>2. slots' \in Seq(SlotType) /\ Len(slots') >= Len(slots)
      <4>1. slots' \in Seq(SlotType) /\ Len(slots') = Len(slots)
        BY <2>d
      <4> QED BY ONLY <1>3, <4>1
    <3>3. \A d \in 1..Len(slots) : /\ slots'[d].owner = slots[d].owner
                                   /\ slots'[d].connected => slots[d].connected
      BY ONLY <2>d
    <3>4. \A h \in 1..Len(handlers), k \in Keys : \A d \in Sig(h, k) :
            d \in Sig(h, k)' \/ ~slots'[d].connected
      BY <2>d
    <3> QED BY ONLY <3>1, <3>2, <3>3, <3>4 DEF Lists
  <2>3. RFrame(r)
    <3>1. mine[r] \in 1..Len(handlers) /\ Rd(mine[r]) = {} /\ pc[r] = "disconnect"
      BY <1>8, Where, DisconnectDoes DEF Disconnect
    <3>2. ASSUME NEW d \in 1..Len(slots), slots'[d].connected # slots[d].connected
          PROVE  d \in Sig(mine[r], Listener(r)[2]) /\ slots[d].owner = Listener(r)
      <4>1. slots[d].connected \in BOOLEAN
        BY <1>3, Plain
      <4>2. d = Con(mine[r], Listener(r)) /\ d # 0
        BY <1>3, <3>2, <4>1, <2>d
      <4> QED BY <2>d, <4>2 DEF Owned
    <3> QED BY <1>1, <1>2, <1>3, <1>8, <2>1, <3>1, <3>2, DisconnectDoes DEF RFrame
  <2>4. Outcome(r)
    <3>1. status'[Listener(r)] = "off" /\ \A l \in Listeners : l # Listener(r) => status'[l] = status[l]
      BY <1>1, <2>1, Becomes
    <3> HIDE DEF Return, Goto, SetStatus
    <3> QED BY <1>8, <2>1, <3>1 DEF Outcome
  <2> QED BY <2>2, <2>3, <2>4
<1> QED BY <1>4, <1>5, <1>6, <1>7, <1>8

-----------------------------------------------------------------------------
(* The calls of the receivers *)

LEMMA OrderlyTail ==
  ASSUME NEW q \in Seq(CallType), q # <<>>, Orderly(q)
  PROVE  Orderly(Tail(q))
<1>1. /\ Tail(q) \in Seq(CallType) /\ Len(Tail(q)) = Len(q) - 1 /\ Len(q) \in Nat \ {0}
      /\ \A j \in 1 .. Len(q) - 1 : Tail(q)[j] = q[j + 1]
      /\ DOMAIN q = 1..Len(q) /\ DOMAIN Tail(q) = 1 .. Len(q) - 1
  <2>1. Len(q) \in Nat \ {0} /\ DOMAIN q = 1..Len(q)
    OBVIOUS
  <2> QED BY <2>1, HeadTailProperties
<1>2. ASSUME NEW t, t = Tail(q),
             NEW i \in DOMAIN t, NEW j \in DOMAIN t,
             i < j, t[i] = t[j], t[j].call = "Enable", t[j].key # All
      PROVE  \E m \in i..j : t[m] = [call |-> "Disable", key |-> t[j].key]
  <2>1. /\ i \in 1 .. Len(q) - 1 /\ j \in 1 .. Len(q) - 1
        /\ t[i] = q[i + 1] /\ t[j] = q[j + 1]
    BY <1>1, <1>2
  <2>2. i + 1 \in DOMAIN q /\ j + 1 \in DOMAIN q /\ i + 1 < j + 1
    BY <1>1, <1>2, <2>1
  <2>3. PICK n \in i + 1 .. j + 1 : q[n] = [call |-> "Disable", key |-> q[j + 1].key]
    BY <1>2, <2>1, <2>2 DEF Orderly
  <2>4. n - 1 \in i..j /\ n - 1 \in 1 .. Len(q) - 1 /\ (n - 1) + 1 = n
    BY <1>1, <2>1, <2>3
  <2>5. t[n - 1] = q[n]
    BY <1>1, <1>2, <2>4
  <2> QED BY <2>1, <2>3, <2>4, <2>5
<1> QED BY <1>2 DEF Orderly

\* A call returns: the listener is off or on, and if it is on for one sender, there
\* is a Disable before the next Enable.
Back(r) ==
  /\ pc'[r] = "idle" /\ todo'[r] = Tail(todo[r])
  /\ status'[<<r, All>>] = "on" => enabled'[r]
  /\ \A l \in Listeners : l # Listener(r) => status'[l] = status[l]
  /\ \/ status'[Listener(r)] = "off"
     \/ status'[Listener(r)] = "on" /\ todo[r][1].call = "Enable"
     \/ Listener(r)[2] = All /\ pc[r] = "idle" /\ status'[Listener(r)] = status[Listener(r)]

LEMMA Returned ==
  ASSUME Types, Turns, NEW r \in Receivers, Enabling(r), Back(r)
  PROVE  Turn(r)'
<1>1. /\ todo[r] # <<>> /\ Listener(r) \in Listeners /\ Listener(r)[1] = r
      /\ Listener(r)[2] = todo[r][1].key /\ todo[r][1] \in CallType /\ Turn(r)
      /\ Listener(r) = <<r, todo[r][1].key>>
  BY HasCall DEF Turns, Listener
<1>2. /\ todo[r] \in Seq(CallType) /\ Len(Tail(todo[r])) = Len(todo[r]) - 1
      /\ Len(todo[r]) \in Nat \ {0} /\ DOMAIN todo[r] = 1..Len(todo[r])
      /\ DOMAIN Tail(todo[r]) = 1 .. Len(todo[r]) - 1
      /\ \A j \in 1 .. Len(todo[r]) - 1 : Tail(todo[r])[j] = todo[r][j + 1]
  <2>1. todo[r] \in Seq(CallType)
    BY DEF Types, TypeOK, CallType
  <2>2. Tail(todo[r]) \in Seq(CallType)
    BY <1>1, <2>1
  <2> QED BY <1>1, <2>1, <2>2, TheCall DEF Types
<1>3. Orderly(todo'[r])
  BY <1>1, <1>2, OrderlyTail DEF Turn, Back
<1>4. ASSUME NEW k \in Keys
      PROVE  status'[<<r, k>>] \notin {"coming", "going"}
  <2>1. <<r, k>> \in Listeners
    BY DEF Listeners
  <2>2. CASE <<r, k>> = Listener(r)
    BY <1>1, <2>2 DEF Turn, Back
  <2>3. CASE <<r, k>> # Listener(r)
    <3>1. todo[r][1].key # k
      BY <1>1, <2>3
    <3> QED BY <1>1, <2>1, <2>3, <3>1 DEF Turn, Back
  <2> QED BY <2>2, <2>3
<1>5. ASSUME NEW k \in Keys, k # All, status'[<<r, k>>] = "on",
             NEW j \in 1 .. Len(todo[r]) - 1, todo[r][j + 1] = CallOf("Enable", k)
      PROVE  \E m \in 1..j : Tail(todo[r])[m] = CallOf("Disable", k)
  <2>1. <<r, k>> \in Listeners /\ j + 1 \in 1..Len(todo[r]) /\ 1 \in 1..Len(todo[r]) /\ 1 < j + 1
    BY <1>2 DEF Listeners
  <2>2. \E m \in 2 .. j + 1 : todo[r][m] = CallOf("Disable", k)
    <3>1. CASE <<r, k>> = Listener(r)
      <4>1. k = todo[r][1].key
        BY <1>1, <3>1
      <4>2. todo[r][1].call = "Enable"
        BY <1>1, <1>5, <3>1 DEF Back
      <4>3. todo[r][1] = CallOf("Enable", k)
        BY <1>1, <4>1, <4>2 DEF CallType, CallOf
      <4>4. todo[r][1] = todo[r][j + 1] /\ todo[r][j + 1].call = "Enable" /\ todo[r][j + 1].key = k
        BY <1>5, <4>3 DEF CallOf
      <4>5. Orderly(todo[r])
        BY <1>1 DEF Turn
      <4>6. PICK m \in 1 .. j + 1 : todo[r][m] = CallOf("Disable", k)
        <5> DEFINE q == todo[r]
                   n == j + 1
        <5>1. 1 \in DOMAIN q /\ n \in DOMAIN q /\ 1 < n
          BY <1>2, <2>1
        <5>2. q[1] = q[n] /\ q[n].call = "Enable" /\ q[n].key # All /\ q[n].key = k
          BY <1>5, <4>4
        <5>3. Orderly(q)
          BY <4>5
        <5> HIDE DEF q, n
        <5>4. \E m \in 1..n : q[m] = [call |-> "Disable", key |-> k]
          BY ONLY <5>1, <5>2, <5>3 DEF Orderly
        <5> QED BY <5>4 DEF q, n, CallOf
      <4>7. m # 1
        BY <4>2, <4>6 DEF CallOf
      <4> QED BY <4>6, <4>7
    <3>2. CASE <<r, k>> # Listener(r)
      <4>1. status[<<r, k>>] = "on"
        BY <1>5, <2>1, <3>2 DEF Back
      <4>2. PICK m \in 1 .. j + 1 : todo[r][m] = CallOf("Disable", k)
        BY <1>1, <1>2, <1>5, <2>1, <4>1 DEF Turn
      <4>3. m # 1
        BY <1>1, <3>2, <4>2 DEF CallOf
      <4> QED BY <4>2, <4>3
    <3> QED BY <3>1, <3>2
  <2>3. PICK m \in 2 .. j + 1 : todo[r][m] = CallOf("Disable", k)
    BY <2>2
  <2>4. m - 1 \in 1..j /\ m - 1 \in 1 .. Len(todo[r]) - 1 /\ (m - 1) + 1 = m
    BY <1>2, <2>3
  <2> QED BY <1>2, <2>3, <2>4
<1>6. pc'[r] = "idle" /\ todo'[r] = Tail(todo[r]) /\ (status'[<<r, All>>] = "on" => enabled'[r])
  BY DEF Back
<1>7. ASSUME NEW k \in Keys
      PROVE  /\ status'[<<r, k>>] \in {"coming", "going"} => pc'[r] # "idle" /\ todo'[r][1].key = k
             /\ k # All /\ status'[<<r, k>>] = "on" =>
                  \A j \in DOMAIN todo'[r] : todo'[r][j] = CallOf("Enable", k) =>
                    \E m \in 1..j : todo'[r][m] = CallOf("Disable", k)
  BY <1>2, <1>4, <1>5, <1>6
<1> QED BY <1>3, <1>6, <1>7 DEF Turn

LEMMA OthersTurn ==
  ASSUME Types, Turns, NEW r \in Receivers, Listener(r)[1] = r, RFrame(r), Outcome(r),
         NEW q \in Receivers, q # r
  PROVE  Turn(q)'
<1>1. /\ pc'[q] = pc[q] /\ todo'[q] = todo[q] /\ mine'[q] = mine[q] /\ enabled'[q] = enabled[q]
  BY DEF RFrame
<1>2. \A k \in Keys : status'[<<q, k>>] = status[<<q, k>>]
  BY DEF Outcome, Listeners
<1>3. Turn(q) /\ All \in Keys
  BY DEF Turns, Keys
<1>4. pc[q] # "idle" => todo[q] # <<>> /\ todo[q][1].key \in Keys
  BY <1>3, TheCall DEF Turn, Types, CallType
<1> QED BY <1>1, <1>2, <1>3, <1>4 DEF Turn, Listener

LEMMA TurnsKeep ==
  ASSUME Types, Turns, NEW r \in Receivers, Enabling(r), RFrame(r), Outcome(r)
  PROVE  Turns'
<1>1. /\ todo[r] # <<>> /\ Listener(r) \in Listeners /\ Listener(r)[1] = r
      /\ Listener(r)[2] = todo[r][1].key /\ Turn(r) /\ Listener(r)[2] \in Keys
      /\ Listener(r) = <<r, todo[r][1].key>> /\ todo[r][1] \in CallType
  BY HasCall DEF Turns, Listener
<1> SUFFICES Turn(r)'
  BY <1>1, OthersTurn DEF Turns
<1> USE DEF Goto
<1>2. /\ pc \in [Receivers -> {"idle", "set", "connect", "record", "disconnect"}]
      /\ mine \in [Receivers -> 0..Len(handlers)] /\ enabled \in [Receivers -> BOOLEAN]
      /\ DOMAIN todo = Receivers /\ Len(handlers) \in Nat /\ table = Len(handlers)
  BY Typed, Plain DEF Types, TypeOK, Shapes
<1>f. \A l \in Listeners : l # Listener(r) => status'[l] = status[l]
  BY DEF Outcome
<1>o. ASSUME Listener(r)[2] = All => (status'[Listener(r)] = "on" => enabled'[r]),
             Listener(r)[2] # All => enabled'[r] = enabled[r]
      PROVE  status'[<<r, All>>] = "on" => enabled'[r]
  BY <1>1, <1>f, <1>o DEF Turn, Listeners, Keys
<1>3. CASE EnableAgain(r)
  <2>1. /\ pc'[r] = "idle" /\ todo'[r] = Tail(todo[r]) /\ pc[r] = "idle" /\ Listener(r)[2] = All
        /\ enabled'[r] = enabled[r] /\ status' = status
    BY <1>2, <1>3 DEF EnableAgain, Return, Calls, Redundant, history
  <2>2. status'[<<r, All>>] = "on" => enabled'[r]
    BY <1>1, <2>1 DEF Turn
  <2>3. Back(r)
    BY <1>f, <2>1, <2>2 DEF Back
  <2> QED BY <2>3, Returned
<1>4. CASE Ignored(r)
  <2>1. /\ pc'[r] = "idle" /\ todo'[r] = Tail(todo[r])
        /\ enabled'[r] = IF Listener(r)[2] = All THEN todo[r][1].call = "Enable" ELSE enabled[r]
        /\ status' = [status EXCEPT ![Listener(r)] = "off"]
    BY <1>2, <1>4 DEF Ignored, Return, SetStatus
  <2>2. status'[Listener(r)] = "off"
    BY <1>1, <2>1, Becomes
  <2>3. status'[<<r, All>>] = "on" => enabled'[r]
    BY <1>o, <2>1, <2>2
  <2>4. Back(r)
    BY <1>f, <2>1, <2>2, <2>3 DEF Back
  <2> QED BY <2>4, Returned
<1>5. CASE Record(r) \/ ConnectOpposite(r)
  <2>1. /\ pc'[r] = "idle" /\ todo'[r] = Tail(todo[r])
        /\ enabled'[r] = IF Listener(r)[2] = All THEN TRUE ELSE enabled[r]
        /\ status' = [status EXCEPT ![Listener(r)] = "on"] /\ todo[r][1].call = "Enable"
    BY <1>1, <1>2, <1>5 DEF Record, ConnectOpposite, Return, SetStatus, Turn
  <2>2. status'[Listener(r)] = "on"
    BY <1>1, <2>1, Becomes
  <2>3. status'[<<r, All>>] = "on" => enabled'[r]
    BY <1>o, <2>1
  <2>4. Back(r)
    BY <1>f, <2>1, <2>2, <2>3 DEF Back
  <2> QED BY <2>4, Returned
<1>6. CASE Disconnect(r)
  <2>1. /\ pc'[r] = "idle" /\ todo'[r] = Tail(todo[r])
        /\ enabled'[r] = IF Listener(r)[2] = All THEN FALSE ELSE enabled[r]
        /\ status' = [status EXCEPT ![Listener(r)] = "off"]
    BY <1>2, <1>6 DEF Disconnect, Return, SetStatus
  <2>2. status'[Listener(r)] = "off"
    BY <1>1, <2>1, Becomes
  <2>3. status'[<<r, All>>] = "on" => enabled'[r]
    BY <1>o, <2>1, <2>2
  <2>4. Back(r)
    BY <1>f, <2>1, <2>2, <2>3 DEF Back
  <2> QED BY <2>4, Returned
<1>7. CASE AddListener(r) \/ RemoveListener(r)
  <2>1. /\ pc[r] = "idle" /\ todo' = todo /\ enabled' = enabled
        /\ pc'[r] \in {"set", "connect", "disconnect"} /\ mine'[r] = table
        /\ pc'[r] \in {"set", "connect"} => /\ todo[r][1].call = "Enable"
                                            /\ status' = [status EXCEPT ![Listener(r)] = "coming"]
        /\ pc'[r] = "disconnect" => /\ status' = [status EXCEPT ![Listener(r)] = "going"]
        /\ pc'[r] = "set" <=> table = 0
    BY <1>2, <1>7 DEF AddListener, RemoveListener, SetStatus, Calls
  <2>2. /\ pc'[r] \in {"set", "connect"} => status'[Listener(r)] = "coming"
        /\ pc'[r] = "disconnect" => status'[Listener(r)] = "going"
    BY <1>1, <2>1, Becomes
  <2>3. \A k \in Keys : /\ <<r, k>> \in Listeners
                        /\ k # todo[r][1].key => <<r, k>> # Listener(r)
    BY <1>1 DEF Listeners
  <2>4. status'[<<r, All>>] = "on" => enabled'[r]
    BY <1>1, <1>f, <2>1, <2>2, <2>3 DEF Turn, Keys
  <2>5. ASSUME NEW k \in Keys
        PROVE  /\ status'[<<r, k>>] \in {"coming", "going"} => todo[r][1].key = k
               /\ k # All /\ status'[<<r, k>>] = "on" => status[<<r, k>>] = "on"
    BY <1>1, <1>f, <2>1, <2>2, <2>3 DEF Turn
  <2>6. Listener(r)' = Listener(r) /\ todo'[r] = todo[r]
    BY <2>1 DEF Listener
  <2>7. \A k \in Keys : k # All /\ status'[<<r, k>>] = "on" =>
          \A j \in DOMAIN todo[r] : todo[r][j] = CallOf("Enable", k) =>
            \E m \in 1..j : todo[r][m] = CallOf("Disable", k)
    BY <1>1, <2>5 DEF Turn
  <2>8. Orderly(todo[r])
    BY <1>1 DEF Turn
  <2> QED BY <1>1, <1>2, <2>1, <2>2, <2>4, <2>5, <2>6, <2>7, <2>8 DEF Turn
<1>8. CASE SetHandler(r) \/ Connect(r)
  <2>1. /\ UNCHANGED <<todo, enabled, status>>
        /\ SetHandler(r) => pc[r] = "set" /\ pc'[r] = "connect" /\ mine'[r] = table'
        /\ Connect(r) => /\ pc[r] = "connect" /\ pc'[r] = "record" /\ mine'[r] = mine[r]
                         /\ Listener(r)[2] = All
    BY <1>2, <1>8 DEF SetHandler, Connect, history
  <2>2. Listener(r)' = Listener(r)
    BY <2>1 DEF Listener
  <2>3. SetHandler(r) => table' # 0
    BY <1>2, SetHandlerDoes
  <2> QED BY <1>1, <1>8, <2>1, <2>2, <2>3 DEF Turn
<1> QED BY <1>3, <1>4, <1>5, <1>6, <1>7, <1>8 DEF Enabling


-----------------------------------------------------------------------------
(* The types *)

LEMMA IsOwned ==
  ASSUME NEW q \in Seq(SlotType), NEW d \in 1..Len(q), NEW l
  PROVE  q[d] = Owned(l) <=> q[d].owner = l /\ q[d].connected
<1>1. q[d] \in SlotType
  OBVIOUS
<1>2. /\ q[d] = [owner |-> q[d].owner, connected |-> q[d].connected]
      /\ q[d].connected \in BOOLEAN
  BY <1>1 DEF SlotType
<1>3. ASSUME q[d].owner = l, q[d].connected PROVE q[d] = Owned(l)
  <2>1. q[d].connected = TRUE
    BY <1>2, <1>3
  <2> QED BY <1>2, <1>3, <2>1 DEF Owned
<1> QED BY <1>3 DEF Owned

\* What is in the signals and recorded.
LEMMA Basics ==
  ASSUME Types
  PROVE  /\ Len(handlers) \in Nat /\ DOMAIN handlers = 1..Len(handlers)
         /\ Len(slots) \in Nat /\ DOMAIN slots = 1..Len(slots)
         /\ slots \in Seq(SlotType) /\ handlers \in Seq(HandlerType)
         /\ \A h \in 1..Len(handlers), k \in Keys : \A d \in Sig(h, k) : d \in 1..Len(slots)
         /\ \A h \in 1..Len(handlers), l \in Listeners :
              Con(h, l) # 0 => Con(h, l) \in Sig(h, l[2]) /\ slots[Con(h, l)] = Owned(l)
         /\ \A l \in Listeners : l[1] \in Receivers /\ l[2] \in Keys /\ l = <<l[1], l[2]>>
         /\ \A d \in 1..Len(slots) : slots[d].owner \in Listeners
         /\ \A l, d : d \in 1..Len(slots) =>
              (slots[d] = Owned(l) <=> slots[d].owner = l /\ slots[d].connected)
<1>1. /\ Len(handlers) \in Nat /\ DOMAIN handlers = 1..Len(handlers)
      /\ Len(slots) \in Nat /\ DOMAIN slots = 1..Len(slots)
      /\ slots \in Seq(SlotType) /\ handlers \in Seq(HandlerType)
      /\ \A d \in 1..Len(slots) : slots[d].owner \in Listeners
  BY Typed, Plain
<1>2. \A h \in 1..Len(handlers), k \in Keys : \A d \in Sig(h, k) : d \in 1..Len(slots)
  BY <1>1 DEF Types, TypeOK, Sig
<1>3. \A h \in 1..Len(handlers), l \in Listeners :
        Con(h, l) # 0 => Con(h, l) \in Sig(h, l[2]) /\ slots[Con(h, l)] = Owned(l)
  BY <1>1 DEF Types, TypeOK, Sig, Con
<1>4. \A l \in Listeners : l[1] \in Receivers /\ l[2] \in Keys /\ l = <<l[1], l[2]>>
  BY DEF Listeners
<1> QED BY <1>1, <1>2, <1>3, <1>4, IsOwned

\* A new slot is that of the receiver's listener.
NewSlots(r) == \A e \in 1..Len(slots') : e \in 1..Len(slots) \/ slots'[e].owner = Listener(r)

LEMMA NewSlotsOf ==
  ASSUME Types, Turns, NEW r \in Receivers, Enabling(r)
  PROVE  NewSlots(r)
<1>1. Listener(r) \in Listeners /\ Len(slots) \in Nat
  BY HasCall, Basics
<1>2. CASE Connect(r) \/ ConnectOpposite(r)
  <2>1. slots' = Append(slots, Owned(Listener(r)))
    BY <1>2, ConnectDoes, OppositeDoes
  <2>2. Len(slots') = Len(slots) + 1 /\ slots'[Len(slots) + 1] = Owned(Listener(r))
    BY <1>1, <2>1, Slotted
  <2> QED BY <1>1, <2>2 DEF NewSlots, Owned
<1>3. CASE Disconnect(r)
  BY <1>3, DisconnectDoes DEF NewSlots
<1>4. CASE EnableAgain(r) \/ Ignored(r) \/ AddListener(r) \/ RemoveListener(r) \/ SetHandler(r) \/ Record(r)
  <2>1. slots' = slots
    BY <1>4 DEF EnableAgain, Ignored, AddListener, RemoveListener, SetHandler, Record, dispatcher
  <2> QED BY <2>1 DEF NewSlots
<1> QED BY <1>2, <1>3, <1>4 DEF Enabling

LEMMA ReceiverDoes ==
  ASSUME Types, Turns, Conns, NEW r \in Receivers, Enabling(r)
  PROVE  /\ Lists /\ RFrame(r) /\ Outcome(r) /\ NewSlots(r)
         /\ Listener(r) \in Listeners /\ Listener(r)[1] = r /\ Listener(r)[2] \in Keys
BY QuietDoes, BusyDoes, NewSlotsOf, HasCall DEF Enabling

\* What is recorded stays the slot of the listener, in its signal.
Noted(h, l) == Con(h, l) # 0 => Con(h, l) \in Sig(h, l[2]) /\ slots[Con(h, l)] = Owned(l)

LEMMA StaysNoted ==
  ASSUME Types, Lists, NEW h \in 1..Len(handlers), NEW l \in Listeners,
         Con(h, l)' = Con(h, l),
         Con(h, l) # 0 => slots'[Con(h, l)].connected = slots[Con(h, l)].connected
  PROVE  Noted(h, l)'
<1> DEFINE d == Con(h, l)
<1> SUFFICES ASSUME d # 0 PROVE d \in Sig(h, l[2])' /\ slots'[d] = Owned(l)
  BY DEF Noted
<1>1. d \in Sig(h, l[2]) /\ slots[d] = Owned(l) /\ d \in 1..Len(slots) /\ l[2] \in Keys
  BY Basics
<1> HIDE DEF d
<1>2. slots'[d].owner = l /\ slots'[d].connected
  BY <1>1, Basics DEF d, Lists
<1>3. d \in Sig(h, l[2])'
  BY <1>1, <1>2 DEF Lists
<1>4. d \in 1..Len(slots') /\ slots' \in Seq(SlotType)
  BY <1>1, Basics DEF Lists
<1> QED BY <1>2, <1>3, <1>4, IsOwned

LEMMA NotedKeeps ==
  ASSUME Types, Turns, Places, Conns, NEW r \in Receivers, Enabling(r),
         NEW h \in 1..Len(handlers'), NEW l \in Listeners
  PROVE  Noted(h, l)'
<1>1. /\ Lists /\ RFrame(r) /\ Outcome(r)
      /\ Listener(r) \in Listeners /\ Listener(r)[1] = r /\ Listener(r)[2] \in Keys
  BY ReceiverDoes
<1>2. CASE h \notin 1..Len(handlers)
  BY <1>1, <1>2 DEF RFrame, Noted
<1>3. CASE h \in 1..Len(handlers) /\ l # Listener(r)
  <2>1. Con(h, l)' = Con(h, l)
    BY <1>1, <1>3 DEF RFrame
  <2>2. ASSUME Con(h, l) # 0
        PROVE  slots'[Con(h, l)].connected = slots[Con(h, l)].connected
    <3>1. slots[Con(h, l)].owner = l /\ Con(h, l) \in 1..Len(slots)
      BY <1>3, <2>2, Basics
    <3> QED BY <1>1, <1>3, <3>1 DEF RFrame
  <2> QED BY <1>1, <1>3, <2>1, <2>2, StaysNoted
<1>4. CASE h \in 1..Len(handlers) /\ l = Listener(r)
  <2>1. CASE Record(r)
    <3>1. Listener(r)[2] = All
      BY <2>1 DEF Record, Turns, Turn
    <3>2. slots' = slots
      BY <2>1 DEF Record
    <3>3. CASE h = mine[r]
      BY <1>4, <2>1, <3>1, <3>2, <3>3, RecordDoes, Basics DEF Noted, Keys
    <3>4. CASE h # mine[r]
      <4>1. Con(h, l)' = Con(h, l)
        BY <1>4, <2>1, <3>4, RecordDoes
      <4> QED BY <1>1, <1>4, <3>2, <4>1, StaysNoted
    <3> QED BY <3>3, <3>4
  <2>2. CASE ConnectOpposite(r)
    <3>1. /\ slots' = Append(slots, Owned(Listener(r)))
          /\ slots'[Len(slots) + 1] = Owned(Listener(r))
          /\ \A d \in 1..Len(slots) : slots'[d] = slots[d]
      BY <1>1, <2>2, OppositeDoes, Slotted
    <3>3. CASE h = mine[r]
      BY <1>4, <2>2, <3>1, <3>3, <1>1, OppositeDoes DEF Noted
    <3>4. CASE h # mine[r]
      <4>1. Con(h, l)' = Con(h, l)
        BY <1>4, <2>2, <3>4, OppositeDoes
      <4>2. Con(h, l) # 0 => slots'[Con(h, l)] = slots[Con(h, l)]
        BY <1>4, <3>1, Basics
      <4> QED BY <1>1, <1>4, <4>1, <4>2, StaysNoted
    <3> QED BY <3>3, <3>4
  <2>3. CASE Disconnect(r)
    <3>3. CASE h = mine[r]
      BY <1>4, <2>3, <3>3, DisconnectDoes DEF Noted
    <3>4. CASE h # mine[r]
      <4>1. Con(h, l)' = Con(h, l)
        BY <1>4, <2>3, <3>4, DisconnectDoes
      <4>2. ASSUME Con(h, l) # 0
            PROVE  slots'[Con(h, l)].connected = slots[Con(h, l)].connected
        <5>1. Con(h, l) \in Sig(h, l[2]) /\ Con(h, l) \in 1..Len(slots) /\ h \in DOMAIN handlers
          BY <1>4, <4>2, Basics
        <5>2. mine[r] \in DOMAIN handlers
          BY <2>3, Where DEF Disconnect
        <5>3. Con(h, l) \notin Sig(mine[r], Listener(r)[2])
          BY <1>1, <1>4, <3>4, <5>1, <5>2 DEF Places
        <5> QED BY <1>1, <5>1, <5>3 DEF RFrame
      <4> QED BY <1>1, <1>4, <4>1, <4>2, StaysNoted
    <3> QED BY <3>3, <3>4
  <2>4. CASE EnableAgain(r) \/ Ignored(r) \/ AddListener(r) \/ RemoveListener(r) \/ SetHandler(r) \/ Connect(r)
    <3>1. Con(h, l)' = Con(h, l)
      <4>1. CASE SetHandler(r) \/ Connect(r)
        BY <1>4, <4>1, SetHandlerDoes, ConnectDoes
      <4>2. CASE EnableAgain(r) \/ Ignored(r) \/ AddListener(r) \/ RemoveListener(r)
        BY <4>2, QuietDoes DEF dispatcher, Con
      <4> QED BY <2>4, <4>1, <4>2
    <3>2. pc[r] # "disconnect"
      BY <2>4 DEF EnableAgain, Ignored, AddListener, RemoveListener, SetHandler, Connect, Calls
    <3>3. Con(h, l) # 0 => slots'[Con(h, l)].connected = slots[Con(h, l)].connected
      BY <1>1, <1>4, <3>2, Basics DEF RFrame
    <3> QED BY <1>1, <1>4, <3>1, <3>3, StaysNoted
  <2> QED BY <2>1, <2>2, <2>3, <2>4 DEF Enabling
<1> QED BY <1>2, <1>3, <1>4

\* The slot a sender calls next is one of those it has copied.
LEMMA SmallestIn ==
  ASSUME NEW S \in SUBSET Nat, S # {}
  PROVE  (CHOOSE d \in S : \A e \in S : d <= e) \in S
<1> DEFINE R == OpToRel(<, Nat)
<1>1. \A a, b \in Nat : a < b => <<a, b>> \in R
  BY DEF OpToRel
<1>2. IsWellFoundedOn(R, Nat)
  BY NatLessThanWellFounded
<1> HIDE DEF R
<1>3. PICK d \in S : \A e \in S : ~(<<e, d>> \in R)
  BY <1>2, WFMin
<1>4. ASSUME NEW e \in S PROVE d <= e
  <2>1. e \in Nat /\ d \in Nat
    OBVIOUS
  <2>2. ~(e < d)
    BY <1>1, <1>3, <2>1
  <2> QED BY <2>1, <2>2
<1> QED BY <1>4

LEMMA FirstIs ==
  ASSUME Types, NEW s \in Senders, local[s] # {}
  PROVE  First(s) \in local[s] /\ First(s) \in 1..Len(slots)
<1>1. local[s] \subseteq 1..Len(slots) /\ local[s] \in SUBSET Nat
  <2>1. local \in [Senders -> SUBSET DOMAIN slots]
    BY DEF Types, TypeOK
  <2> QED BY <2>1, Basics
<1>2. First(s) \in local[s]
  BY <1>1, SmallestIn DEF First
<1> QED BY <1>1, <1>2

\* What is typed of the receivers, the senders and the history.
Rest ==
  /\ is_shutdown \in BOOLEAN /\ table = Len(handlers)
  /\ todo \in [Receivers -> Seq(CallType)]
  /\ pc \in [Receivers -> {"idle", "set", "connect", "record", "disconnect"}]
  /\ mine \in [Receivers -> 0 .. Len(handlers)] /\ enabled \in [Receivers -> BOOLEAN]
  /\ left \in [Senders -> Nat]
  /\ spc \in [Senders -> {"idle", "copy", "slots", "call", "lock", "unlock"}]
  /\ at \in [Senders -> 0 .. Len(handlers)] /\ key \in [Senders -> Keys]
  /\ local \in [Senders -> SUBSET DOMAIN slots]
  /\ called \in [Senders -> [Listeners -> Nat]]
  /\ status \in [Listeners -> {"off", "coming", "on", "going"}]
  /\ must \in [Senders -> SUBSET Listeners] /\ never \in [Senders -> SUBSET Listeners]

LEMMA RestTyped == Types => Rest
BY DEF Types, TypeOK, Shapes, Rest, CallType

LEMMA TypesOf ==
  ASSUME handlers' \in Seq(HandlerType), slots' \in Seq(SlotType), Rest',
         \A h \in 1..Len(handlers'), k \in Keys : Sig(h, k)' \subseteq 1..Len(slots'),
         \A h \in 1..Len(handlers'), l \in Listeners : Noted(h, l)'
  PROVE  Types'
<1>1. /\ Len(handlers') \in Nat /\ DOMAIN handlers' = 1..Len(handlers')
      /\ DOMAIN slots' = 1..Len(slots')
  OBVIOUS
<1>2. ASSUME NEW h \in DOMAIN handlers'
      PROVE  /\ handlers'[h].readers \subseteq Senders
             /\ \A k \in Keys : handlers'[h].signal[k] \subseteq DOMAIN slots'
             /\ \A l \in Listeners :
                  LET d == handlers'[h].conns[l]
                  IN  d # 0 => d \in handlers'[h].signal[l[2]] /\ slots'[d] = Owned(l)
  <2>1. handlers'[h] \in HandlerType
    BY <1>1
  <2>2. handlers'[h].readers \subseteq Senders
    BY <2>1 DEF HandlerType
  <2> QED BY <1>1, <2>2 DEF Noted, Sig, Con
<1>3. Shapes'
  BY DEF Shapes, Rest, HandlerType
<1>4. table' \in 0 .. Len(handlers')
  BY <1>1 DEF Rest
<1>5. TypeOK'
  BY <1>2, <1>4 DEF TypeOK, Rest, CallType, SlotType
<1> QED BY <1>3, <1>5 DEF Types

LEMMA ReceiverTypes ==
  ASSUME Types, Turns, Places, Conns, NEW r \in Receivers, Enabling(r)
  PROVE  Types'
<1> USE DEF dispatcher, receivers, runs, history, Goto, SetStatus, Return
<1>1. /\ Lists /\ RFrame(r) /\ Outcome(r)
      /\ Listener(r) \in Listeners /\ Listener(r)[1] = r /\ Listener(r)[2] \in Keys
      /\ Len(handlers') \in Nat /\ Len(handlers) \in Nat /\ Len(slots) \in Nat /\ Len(slots') \in Nat
  BY ReceiverDoes, Basics DEF Lists
<1>2. \A h \in 1..Len(handlers'), l \in Listeners : Noted(h, l)'
  BY NotedKeeps
<1>3. ASSUME NEW h \in 1..Len(handlers'), NEW k \in Keys
      PROVE  Sig(h, k)' \subseteq 1..Len(slots')
  <2>1. CASE h \in 1..Len(handlers)
    BY <1>1, <2>1, Basics DEF RFrame, Lists
  <2>2. CASE h \notin 1..Len(handlers)
    BY <1>1, <2>2 DEF RFrame
  <2> QED BY <2>1, <2>2
<1>r. Rest
  BY RestTyped
<1>4. 0..Len(handlers) \subseteq 0..Len(handlers') /\ DOMAIN slots \subseteq DOMAIN slots'
  BY <1>1, Basics DEF Lists
<1>5. table' = Len(handlers')
  <2>1. CASE SetHandler(r)
    BY <2>1, SetHandlerDoes
  <2>2. CASE Connect(r) \/ Record(r) \/ ConnectOpposite(r) \/ Disconnect(r)
    <3>1. Len(handlers') = Len(handlers)
      BY <2>2, ConnectDoes, RecordDoes, OppositeDoes, DisconnectDoes
    <3>2. table' = table
      BY <2>2 DEF Connect, Record, ConnectOpposite, Disconnect
    <3> QED BY <1>r, <3>1, <3>2 DEF Rest
  <2>3. CASE EnableAgain(r) \/ Ignored(r) \/ AddListener(r) \/ RemoveListener(r)
    BY <1>r, <2>3, QuietDoes DEF Rest
  <2> QED BY <2>1, <2>2, <2>3 DEF Enabling
<1>6. /\ is_shutdown' \in BOOLEAN
      /\ left' \in [Senders -> Nat]
      /\ spc' \in [Senders -> {"idle", "copy", "slots", "call", "lock", "unlock"}]
      /\ at' \in [Senders -> 0 .. Len(handlers')] /\ key' \in [Senders -> Keys]
      /\ local' \in [Senders -> SUBSET DOMAIN slots']
      /\ called' \in [Senders -> [Listeners -> Nat]]
  <2>1. UNCHANGED <<is_shutdown, left, spc, at, key, local, called>>
    BY <1>1 DEF RFrame
  <2> QED BY <1>r, <1>4, <2>1 DEF Rest
<1>7. /\ status' \in [Listeners -> {"off", "coming", "on", "going"}]
      /\ must' \in [Senders -> SUBSET Listeners] /\ never' \in [Senders -> SUBSET Listeners]
  <2>1. CASE EnableAgain(r) \/ SetHandler(r) \/ Connect(r)
    BY <1>r, <2>1 DEF Rest, EnableAgain, SetHandler, Connect
  <2>2. CASE Ignored(r) \/ Record(r) \/ ConnectOpposite(r) \/ Disconnect(r)
    <3>1. /\ \/ status' = [status EXCEPT ![Listener(r)] = "off"]
             \/ status' = [status EXCEPT ![Listener(r)] = "on"]
          /\ UNCHANGED <<must, never>>
      BY <2>2 DEF Ignored, Record, ConnectOpposite, Disconnect
    <3> QED BY <1>r, <3>1 DEF Rest
  <2>3. CASE AddListener(r) \/ RemoveListener(r)
    <3>1. \/ status' = [status EXCEPT ![Listener(r)] = "coming"]
          \/ status' = [status EXCEPT ![Listener(r)] = "going"]
      BY <2>3 DEF AddListener, RemoveListener
    <3>2. \/ never' = [s \in Senders |-> never[s] \ {Listener(r)}] /\ must' = must
          \/ must' = [s \in Senders |-> must[s] \ {Listener(r)}] /\ never' = never
      BY <2>3 DEF AddListener, RemoveListener
    <3>3. status' \in [Listeners -> {"off", "coming", "on", "going"}]
      BY <1>r, <3>1 DEF Rest
    <3>4. must' \in [Senders -> SUBSET Listeners] /\ never' \in [Senders -> SUBSET Listeners]
      BY <1>r, <3>2 DEF Rest
    <3> QED BY <3>3, <3>4
  <2> QED BY <2>1, <2>2, <2>3 DEF Enabling
<1>8. /\ todo' \in [Receivers -> Seq(CallType)]
      /\ pc' \in [Receivers -> {"idle", "set", "connect", "record", "disconnect"}]
      /\ mine' \in [Receivers -> 0 .. Len(handlers')] /\ enabled' \in [Receivers -> BOOLEAN]
  <2>0. Tail(todo[r]) \in Seq(CallType) /\ table \in 0..Len(handlers') /\ 0 \in 0..Len(handlers')
        /\ table' \in 0..Len(handlers')
    BY <1>1, <1>4, <1>5, <1>r, HasCall, TheCall DEF Types, Rest
  <2>1. ASSUME NEW on \in BOOLEAN, Return(r, on)
        PROVE  /\ todo' \in [Receivers -> Seq(CallType)]
               /\ pc' \in [Receivers -> {"idle", "set", "connect", "record", "disconnect"}]
               /\ mine' \in [Receivers -> 0 .. Len(handlers')] /\ enabled' \in [Receivers -> BOOLEAN]
    <3>1. /\ pc' = [pc EXCEPT ![r] = "idle"] /\ todo' = [todo EXCEPT ![r] = Tail(@)]
          /\ mine' = [mine EXCEPT ![r] = 0]
          /\ enabled' = [enabled EXCEPT ![r] = IF Listener(r)[2] = All THEN on ELSE @]
      BY <2>1
    <3>2. todo' \in [Receivers -> Seq(CallType)]
      BY <1>r, <2>0, <3>1 DEF Rest
    <3>3. mine' \in [Receivers -> 0 .. Len(handlers')]
      BY <1>r, <1>4, <2>0, <3>1 DEF Rest
    <3>4. enabled' \in [Receivers -> BOOLEAN]
      BY <1>r, <2>1, <3>1 DEF Rest
    <3>5. pc' \in [Receivers -> {"idle", "set", "connect", "record", "disconnect"}]
      BY <1>r, <3>1 DEF Rest
    <3> QED BY <3>2, <3>3, <3>4, <3>5
  <2>2. CASE \E on \in BOOLEAN : Return(r, on)
    BY <2>1, <2>2
  <2>3. CASE AddListener(r) \/ RemoveListener(r)
    <3>1. /\ \E to \in {"set", "connect", "disconnect"} : pc' = [pc EXCEPT ![r] = to]
          /\ mine' = [mine EXCEPT ![r] = table] /\ UNCHANGED <<todo, enabled>>
      BY <2>3 DEF AddListener, RemoveListener
    <3>2. pc' \in [Receivers -> {"idle", "set", "connect", "record", "disconnect"}]
      BY <1>r, <3>1 DEF Rest
    <3>3. mine' \in [Receivers -> 0 .. Len(handlers')]
      BY <1>r, <1>4, <2>0, <3>1 DEF Rest
    <3> QED BY <1>r, <3>1, <3>2, <3>3 DEF Rest
  <2>5. ASSUME ~AddListener(r), ~RemoveListener(r), ~SetHandler(r), ~Connect(r)
        PROVE  \E on \in BOOLEAN : Return(r, on)
    <3>1. enabled[r] \in BOOLEAN /\ (todo[r][1].call = "Enable") \in BOOLEAN
      BY <1>r DEF Rest
    <3> HIDE DEF Return
    <3>2. CASE EnableAgain(r)
      BY <3>1, <3>2 DEF EnableAgain
    <3>3. CASE Ignored(r)
      BY <3>1, <3>3 DEF Ignored
    <3>4. CASE Record(r) \/ ConnectOpposite(r) \/ Disconnect(r)
      BY <3>4 DEF Record, ConnectOpposite, Disconnect
    <3> QED BY <2>5, <3>2, <3>3, <3>4 DEF Enabling
  <2>4. CASE SetHandler(r) \/ Connect(r)
    <3>1. /\ \E to \in {"connect", "record"} : pc' = [pc EXCEPT ![r] = to]
          /\ mine' = mine \/ mine' = [mine EXCEPT ![r] = table']
          /\ UNCHANGED <<todo, enabled>>
      BY <2>4 DEF SetHandler, Connect
    <3>2. pc' \in [Receivers -> {"idle", "set", "connect", "record", "disconnect"}]
      BY <1>r, <3>1 DEF Rest
    <3>3. mine' \in [Receivers -> 0 .. Len(handlers')]
      BY <1>r, <1>4, <2>0, <3>1 DEF Rest
    <3> QED BY <1>r, <3>1, <3>2, <3>3 DEF Rest
  <2> QED BY <2>2, <2>3, <2>4, <2>5
<1>9. Rest'
  BY <1>5, <1>6, <1>7, <1>8 DEF Rest
<1> QED BY <1>1, <1>2, <1>3, <1>9, TypesOf DEF Lists

LEMMA SenderTypes ==
  ASSUME Types, Running, NEW s \in Senders, Sending(s)
  PROVE  Types'
<1> USE DEF dispatcher, receivers, runs, history, GotoS
<1>1. /\ Lists /\ SFrame(s) /\ Rest
      /\ Len(handlers') = Len(handlers) /\ slots' = slots /\ table' = table
  BY SendingDoes, RestTyped DEF SFrame
<1>2. \A h \in 1..Len(handlers'), l \in Listeners : Noted(h, l)'
  BY <1>1, StaysNoted DEF SFrame
<1>3. \A h \in 1..Len(handlers'), k \in Keys : Sig(h, k)' \subseteq 1..Len(slots')
  BY <1>1, Basics DEF SFrame
<1>4. /\ is_shutdown' \in BOOLEAN /\ table' = Len(handlers')
      /\ todo' \in [Receivers -> Seq(CallType)]
      /\ pc' \in [Receivers -> {"idle", "set", "connect", "record", "disconnect"}]
      /\ mine' \in [Receivers -> 0 .. Len(handlers')] /\ enabled' \in [Receivers -> BOOLEAN]
      /\ status' \in [Listeners -> {"off", "coming", "on", "going"}]
  <2>1. UNCHANGED <<table, is_shutdown, receivers, status>>
    BY <1>1 DEF SFrame
  <2> QED BY <1>1, <2>1 DEF Rest
<1>5. Keys = Senders \cup {All}
  BY DEF Keys
<1>6. /\ left' \in [Senders -> Nat]
      /\ spc' \in [Senders -> {"idle", "copy", "slots", "call", "lock", "unlock"}]
      /\ at' \in [Senders -> 0 .. Len(handlers')] /\ key' \in [Senders -> Keys]
      /\ local' \in [Senders -> SUBSET DOMAIN slots']
      /\ called' \in [Senders -> [Listeners -> Nat]]
      /\ must' \in [Senders -> SUBSET Listeners] /\ never' \in [Senders -> SUBSET Listeners]
  <2>1. CASE OnMessage(s)
    <3>1. left' \in [Senders -> Nat]
      BY <1>1, <2>1 DEF Rest, OnMessage
    <3>2. table \in 0 .. Len(handlers)
      BY <1>1, Basics DEF Rest
    <3>3. \/ UNCHANGED <<spc, at, must, never>>
          \/ /\ spc' = [spc EXCEPT ![s] = "copy"] /\ at' = [at EXCEPT ![s] = table]
             /\ \E M, N \in SUBSET Listeners :
                  must' = [must EXCEPT ![s] = M] /\ never' = [never EXCEPT ![s] = N]
      BY <2>1 DEF OnMessage
    <3>4. UNCHANGED <<key, local, called>>
      BY <2>1 DEF OnMessage
    <3>5. CASE UNCHANGED <<spc, at, must, never>>
      BY <1>1, <3>1, <3>4, <3>5 DEF Rest
    <3>6. CASE /\ spc' = [spc EXCEPT ![s] = "copy"] /\ at' = [at EXCEPT ![s] = table]
               /\ \E M, N \in SUBSET Listeners :
                    must' = [must EXCEPT ![s] = M] /\ never' = [never EXCEPT ![s] = N]
      <4>1. spc' \in [Senders -> {"idle", "copy", "slots", "call", "lock", "unlock"}]
            /\ at' \in [Senders -> 0 .. Len(handlers')]
        BY <1>1, <3>2, <3>6 DEF Rest
      <4>2. must' \in [Senders -> SUBSET Listeners] /\ never' \in [Senders -> SUBSET Listeners]
        BY <1>1, <3>6 DEF Rest
      <4> QED BY <1>1, <3>1, <3>4, <4>1, <4>2 DEF Rest
    <3> QED BY <3>3, <3>5, <3>6
  <2>2. CASE CopySlots(s)
    <3>1. at[s] \in 1..Len(handlers) /\ key[s] \in Keys
      <4>1. at[s] # 0
        BY <2>2 DEF CopySlots, Running
      <4> QED BY <1>1, <4>1, Basics DEF Rest
    <3>2. Sig(at[s], key[s]) \in SUBSET DOMAIN slots
      BY <3>1, Basics
    <3>3. local' = [local EXCEPT ![s] = Sig(at[s], key[s])]
      BY <2>2 DEF CopySlots, Sig
    <3>4. local' \in [Senders -> SUBSET DOMAIN slots']
      BY <1>1, <3>2, <3>3 DEF Rest
    <3> QED BY <1>1, <2>2, <3>4 DEF Rest, CopySlots
  <2>3. CASE TestSlot(s)
    <3>1. /\ \/ spc' = [spc EXCEPT ![s] = "call"] /\ local' = local
             \/ local' = [local EXCEPT ![s] = @ \ {First(s)}] /\ spc' = spc
          /\ UNCHANGED <<left, at, key, called, must, never>>
      BY <2>3 DEF TestSlot
    <3>2. spc' \in [Senders -> {"idle", "copy", "slots", "call", "lock", "unlock"}]
      <4>1. spc \in [Senders -> {"idle", "copy", "slots", "call", "lock", "unlock"}]
        BY <1>1 DEF Rest
      <4> QED BY ONLY <3>1, <4>1
    <3>3. local' \in [Senders -> SUBSET DOMAIN slots]
      <4>1. local \in [Senders -> SUBSET DOMAIN slots]
        BY <1>1 DEF Rest
      <4>2. local[s] \ {First(s)} \in SUBSET DOMAIN slots
        BY <4>1
      <4> HIDE DEF First
      <4> QED BY ONLY <3>1, <4>1, <4>2
    <3> QED BY <1>1, <3>1, <3>2, <3>3 DEF Rest
  <2>4. CASE Called(s)
    <3>1. First(s) \in 1..Len(slots)
      <4>1. local[s] # {} /\ local[s] \subseteq 1..Len(slots)
        BY <1>1, <2>4, Basics DEF Called, Running, Rest
      <4> QED BY <4>1, FirstIs
    <3>2. slots[First(s)].owner \in Listeners
      BY <3>1, Basics
    <3>3. called' \in [Senders -> [Listeners -> Nat]]
      BY <1>1, <2>4, <3>2 DEF Rest, Called
    <3> QED BY <1>1, <2>4, <3>3 DEF Rest, Called
  <2>5. CASE ClearDisconnectedSlots(s)
    BY <1>1, <2>5 DEF Rest, ClearDisconnectedSlots
  <2>6. CASE ReadLock(s)
    BY <1>1, <1>5, <2>6 DEF Rest, ReadLock
  <2>7. CASE RunReturns(s)
    <3>1. called' \in [Senders -> [Listeners -> Nat]]
      BY <1>1, <2>7 DEF Rest, RunReturns
    <3>2. 0 \in 0..Len(handlers)
      BY Basics
    <3> QED BY <1>1, <1>5, <2>7, <3>1, <3>2 DEF Rest, RunReturns
  <2> QED BY <2>1, <2>2, <2>3, <2>4, <2>5, <2>6, <2>7 DEF Sending
<1>7. Rest'
  BY <1>4, <1>6 DEF Rest
<1> QED BY <1>1, <1>2, <1>3, <1>7, TypesOf DEF Lists

-----------------------------------------------------------------------------
(* Signals and connections *)

LEMMA ReceiverPlaces ==
  ASSUME Types, Turns, Places, Conns, NEW r \in Receivers, Enabling(r)
  PROVE  Places'
<1>1. /\ Lists /\ RFrame(r) /\ Len(handlers') \in Nat /\ DOMAIN handlers' = 1..Len(handlers')
      /\ Listener(r) \in Listeners /\ Listener(r)[2] \in Keys
      /\ Len(slots) + 1 \notin 1..Len(slots) /\ Len(slots) \in Nat
  BY ReceiverDoes, Basics DEF Lists
<1>2. ASSUME NEW h \in 1..Len(handlers'), NEW k \in Keys, NEW d, d \in Sig(h, k)'
      PROVE  /\ h \in 1..Len(handlers)
             /\ \/ d \in Sig(h, k) /\ d \in 1..Len(slots)
                \/ /\ h = mine[r] /\ k = Listener(r)[2] /\ d = Len(slots) + 1
                   /\ slots'[d] = Owned(Listener(r))
  <2>1. h \in 1..Len(handlers)
    BY <1>1, <1>2 DEF RFrame
  <2> QED BY <1>1, <1>2, <2>1, Basics DEF RFrame
<1>3. ASSUME NEW h \in 1..Len(handlers'), NEW k \in Keys, NEW d, d \in Sig(h, k)'
      PROVE  slots'[d].owner[2] = k
  <2>1. CASE d \in Sig(h, k) /\ d \in 1..Len(slots)
    <3>1. slots[d].owner[2] = k
      BY <1>2, <1>3, <2>1, Basics DEF Places
    <3> QED BY <1>1, <2>1, <3>1 DEF Lists
  <2>2. CASE k = Listener(r)[2] /\ slots'[d] = Owned(Listener(r))
    BY <2>2 DEF Owned
  <2> QED BY <1>2, <1>3, <2>1, <2>2
<1>4. ASSUME NEW h \in 1..Len(handlers'), NEW g \in 1..Len(handlers'), NEW k \in Keys, h # g,
             NEW d, d \in Sig(h, k)', d \in Sig(g, k)'
      PROVE  FALSE
  <2>1. h \in DOMAIN handlers /\ g \in DOMAIN handlers
    BY <1>2, <1>4, Basics
  <2>2. d \in Sig(h, k) /\ d \in Sig(g, k)
    BY <1>1, <1>2, <1>4
  <2> QED BY <1>4, <2>1, <2>2 DEF Places
<1> QED BY <1>1, <1>3, <1>4 DEF Places

LEMMA SenderPlaces ==
  ASSUME Types, Places, Running, NEW s \in Senders, Sending(s)
  PROVE  Places'
<1>1. /\ SFrame(s) /\ slots' = slots
      /\ DOMAIN handlers' = 1..Len(handlers) /\ DOMAIN handlers = 1..Len(handlers)
  BY SendingDoes, Basics DEF SFrame, Lists
<1> QED BY <1>1 DEF Places, SFrame

\* A slot that is in a signal after a receiver's step was there before, or is the new one.
LEMMA OldOrNew ==
  ASSUME Types, Lists, NEW r \in Receivers, RFrame(r),
         NEW h \in 1..Len(handlers'), NEW k \in Keys, NEW d \in Sig(h, k)'
  PROVE  /\ h \in 1..Len(handlers)
         /\ \/ /\ d \in Sig(h, k) /\ d \in 1..Len(slots)
               /\ slots'[d].owner = slots[d].owner
               /\ \A l : slots'[d] = Owned(l) => slots[d] = Owned(l)
            \/ /\ h = mine[r] /\ k = Listener(r)[2] /\ d = Len(slots) + 1
               /\ d \in 1..Len(slots') /\ slots'[d] = Owned(Listener(r))
               /\ status[Listener(r)] = "coming"
<1>1. h \in 1..Len(handlers)
  BY DEF RFrame
<1>2. CASE d \in Sig(h, k)
  <2>1. d \in 1..Len(slots) /\ slots'[d].owner = slots[d].owner
        /\ (slots'[d].connected => slots[d].connected)
    BY <1>1, <1>2, Basics DEF Lists
  <2>2. ASSUME NEW l, slots'[d] = Owned(l) PROVE slots[d] = Owned(l)
    <3>1. slots'[d].owner = l /\ slots'[d].connected
      BY <2>2 DEF Owned
    <3> QED BY <2>1, <3>1, Basics
  <2> QED BY <1>1, <1>2, <2>1, <2>2
<1>3. CASE d \notin Sig(h, k)
  BY <1>1, <1>3 DEF RFrame
<1> QED BY <1>2, <1>3

\* The parts of Conns.
Single(h, l) ==
  \A d \in Sig(h, l[2]) :
    slots[d] = Owned(l) => Con(h, l) = d \/ (Recording(l, h) /\ Newest(d, l))
Waiting(r) ==
  /\ pc[r] = "record" =>
       \E d \in Sig(mine[r], All) : slots[d] = Owned(Listener(r)) /\ Newest(d, Listener(r))
  /\ pc[r] \in {"connect", "record"} => Con(mine[r], Listener(r)) = 0
  /\ pc[r] # "idle" => \A h \in 1..Len(handlers) : h > mine[r] =>
                         \A k \in Keys : Con(h, <<r, k>>) = 0
Absent == ~is_shutdown /\ table # 0 => \A l \in Listeners : status[l] = "off" => Con(table, l) = 0

LEMMA ConnsAre ==
  Types => (Conns <=> /\ \A h \in 1..Len(handlers), l \in Listeners : Single(h, l)
                      /\ \A r \in Receivers : Waiting(r)
                      /\ Absent)
<1> SUFFICES ASSUME Types
             PROVE  Conns <=> /\ \A h \in 1..Len(handlers), l \in Listeners : Single(h, l)
                              /\ \A r \in Receivers : Waiting(r)
                              /\ Absent
  OBVIOUS
<1>1. DOMAIN handlers = 1..Len(handlers)
  BY Basics
<1> QED BY <1>1 DEF Conns, Single, Waiting, Absent

LEMMA OthersSingle ==
  ASSUME Types, Turns, Conns, NEW r \in Receivers, Enabling(r),
         NEW h \in 1..Len(handlers'), NEW l \in Listeners, l # Listener(r)
  PROVE  Single(h, l)'
<1>1. /\ Lists /\ RFrame(r) /\ NewSlots(r) /\ Listener(r)[1] = r
      /\ l[1] \in Receivers /\ l[2] \in Keys
  BY ReceiverDoes, Basics
<1> SUFFICES ASSUME NEW d \in Sig(h, l[2])', slots'[d] = Owned(l)
             PROVE  Con(h, l)' = d \/ (Recording(l, h)' /\ Newest(d, l)')
  BY DEF Single
<1>2. h \in 1..Len(handlers) /\ d \in Sig(h, l[2]) /\ slots[d] = Owned(l) /\ d \in 1..Len(slots)
  <2>1. Owned(l) # Owned(Listener(r))
    BY DEF Owned
  <2>2. ASSUME NEW k \in Keys, k = l[2]
        PROVE  h \in 1..Len(handlers) /\ d \in Sig(h, k) /\ slots[d] = Owned(l) /\ d \in 1..Len(slots)
    <3>1. d \in Sig(h, k)'
      BY <2>2
    <3> QED BY <1>1, <2>1, <3>1, OldOrNew
  <2> QED BY <1>1, <2>2
<1>3. Con(h, l)' = Con(h, l)
  BY <1>1, <1>2 DEF RFrame
<1>4. CASE Con(h, l) = d
  BY <1>3, <1>4
<1>5. CASE Recording(l, h) /\ Newest(d, l)
  <2>1. l[1] # r
    BY <1>5 DEF Recording
  <2>2. Recording(l, h)'
    BY <1>1, <1>5, <2>1 DEF Recording, RFrame, Listener
  <2>3. \A e \in 1..Len(slots') : slots'[e].owner = l => e \in 1..Len(slots) /\ slots[e].owner = l
    BY <1>1 DEF NewSlots, Lists
  <2>4. Newest(d, l)'
    <3>1. DOMAIN slots' = 1..Len(slots') /\ DOMAIN slots = 1..Len(slots)
      BY <1>1, Basics DEF Lists
    <3> QED BY <1>5, <2>3, <3>1 DEF Newest
  <2> QED BY <2>2, <2>4
<1> QED BY <1>2, <1>4, <1>5, ConnsAre DEF Single

LEMMA OwnSingle ==
  ASSUME Types, Turns, Places, Conns, NEW r \in Receivers, Enabling(r),
         NEW h \in 1..Len(handlers'), NEW l \in Listeners, l = Listener(r)
  PROVE  Single(h, l)'
<1>1. /\ Lists /\ RFrame(r) /\ NewSlots(r) /\ l[1] = r /\ l[2] \in Keys
      /\ Len(slots) \in Nat /\ Len(slots) + 1 \notin 1..Len(slots)
  BY ReceiverDoes, Basics
<1> SUFFICES ASSUME NEW k \in Keys, k = l[2], NEW d \in Sig(h, k)', slots'[d] = Owned(l)
             PROVE  Con(h, l)' = d \/ (Recording(l, h)' /\ Newest(d, l)')
  BY <1>1 DEF Single
<1>2. /\ h \in 1..Len(handlers)
      /\ \/ d \in Sig(h, k) /\ d \in 1..Len(slots) /\ slots[d] = Owned(l)
         \/ h = mine[r] /\ d = Len(slots) + 1 /\ d \in 1..Len(slots')
  BY <1>1, OldOrNew
<1>3. ASSUME slots[d] = Owned(l), d \in Sig(h, k)
      PROVE  Con(h, l) = d \/ (pc[r] = "record" /\ mine[r] = h /\ Newest(d, l))
  BY <1>1, <1>2, <1>3, ConnsAre DEF Single, Recording
<1>4. CASE EnableAgain(r) \/ Ignored(r) \/ AddListener(r) \/ RemoveListener(r) \/ SetHandler(r)
  <2>1. Con(h, l)' = Con(h, l) /\ slots' = slots /\ pc[r] # "record"
    <3>1. CASE SetHandler(r)
      BY <1>2, <3>1, SetHandlerDoes DEF SetHandler
    <3>2. CASE EnableAgain(r) \/ Ignored(r) \/ AddListener(r) \/ RemoveListener(r)
      BY <3>2, QuietDoes DEF dispatcher, Con, EnableAgain, Ignored, AddListener, RemoveListener, Calls
    <3> QED BY <1>4, <3>1, <3>2
  <2> QED BY <1>1, <1>2, <1>3, <2>1
<1>5. CASE Connect(r)
  <2>1. /\ pc[r] = "connect" /\ pc'[r] = "record" /\ mine'[r] = mine[r] /\ todo' = todo
    BY <1>5 DEF Connect, Goto, Types, TypeOK
  <2>2. CASE slots[d] = Owned(l) /\ d \in Sig(h, k)
    BY <1>2, <1>3, <1>5, <2>1, <2>2, ConnectDoes
  <2>3. CASE h = mine[r] /\ d = Len(slots) + 1 /\ d \in 1..Len(slots')
    <3>1. Recording(l, h)'
      BY <1>1, <2>1, <2>3 DEF Recording, Listener
    <3>2. Len(slots') = Len(slots) + 1 /\ DOMAIN slots' = 1..Len(slots')
      BY <1>5, <1>1, ConnectDoes, Slotted DEF Lists
    <3>3. Newest(d, l)'
      BY <1>1, <2>3, <3>2 DEF Newest
    <3> QED BY <3>1, <3>3
  <2> QED BY <1>2, <2>2, <2>3
<1>6. CASE Record(r)
  <2>1. pc[r] = "record" /\ slots' = slots /\ k = All
    BY <1>6 DEF Record, Turns, Turn
  <2>2. d \in Sig(h, k) /\ slots[d] = Owned(l) /\ d \in 1..Len(slots)
    BY <1>1, <1>2, <2>1
  <2>3. CASE h # mine[r]
    BY <1>2, <1>3, <1>6, <2>2, <2>3, RecordDoes
  <2>4. CASE h = mine[r]
    <3>1. Con(h, l) = 0
      BY <2>1, <2>4, ConnsAre DEF Waiting
    <3>2. Newest(d, l)
      BY <1>1, <1>3, <2>2, <3>1
    <3>3. PICK e \in Sig(h, All) : slots[e] = Owned(l) /\ Newest(e, l) /\ Con(h, l)' = e
      BY <1>2, <1>6, <2>4, RecordDoes
    <3>4. e \in 1..Len(slots) /\ slots[e].owner = l /\ slots[d].owner = l /\ DOMAIN slots = 1..Len(slots)
      BY <1>2, <2>1, <2>2, <3>3, Basics DEF Owned
    <3>5. d <= e /\ e <= d
      BY <2>2, <3>2, <3>3, <3>4 DEF Newest
    <3>6. d = e
      BY <1>1, <2>2, <3>4, <3>5
    <3> QED BY <3>3, <3>6
  <2> QED BY <2>3, <2>4
<1>7. CASE ConnectOpposite(r)
  <2>1. pc[r] = "connect"
    BY <1>7 DEF ConnectOpposite
  <2>2. CASE slots[d] = Owned(l) /\ d \in Sig(h, k) /\ d \in 1..Len(slots)
    <3>1. Con(h, l) = d
      BY <1>3, <2>1, <2>2
    <3>2. h # mine[r]
      BY <1>1, <2>1, <2>2, <3>1, ConnsAre DEF Waiting
    <3> QED BY <1>2, <1>7, <3>1, <3>2, OppositeDoes
  <2>3. CASE h = mine[r] /\ d = Len(slots) + 1
    BY <1>2, <1>7, <2>3, OppositeDoes
  <2> QED BY <1>2, <2>2, <2>3
<1>8. CASE Disconnect(r)
  <2>1. pc[r] = "disconnect" /\ Len(slots') = Len(slots)
    BY <1>8, DisconnectDoes DEF Disconnect
  <2>2. d \in Sig(h, k) /\ slots[d] = Owned(l) /\ d \in 1..Len(slots)
    BY <1>1, <1>2, <2>1
  <2>3. Con(h, l) = d
    BY <1>3, <2>1, <2>2
  <2>4. h # mine[r]
    <3>1. slots'[d].connected
      BY DEF Owned
    <3>2. slots'[d].connected = (slots[d].connected /\ d # Con(mine[r], Listener(r)))
      BY <1>8, <2>2, DisconnectDoes
    <3> QED BY <2>3, <3>1, <3>2
  <2> QED BY <1>2, <1>8, <2>3, <2>4, DisconnectDoes
<1> QED BY <1>4, <1>5, <1>6, <1>7, <1>8 DEF Enabling

LEMMA OthersWaiting ==
  ASSUME Types, Turns, Places, Conns, NEW r \in Receivers, Enabling(r), NEW q \in Receivers, q # r
  PROVE  Waiting(q)'
<1>1. /\ Lists /\ RFrame(r) /\ NewSlots(r) /\ Listener(r)[1] = r /\ Waiting(q)
      /\ pc'[q] = pc[q] /\ mine'[q] = mine[q] /\ todo'[q] = todo[q]
      /\ Len(handlers') \in Nat /\ Len(handlers) \in Nat /\ Len(handlers') >= Len(handlers)
  <2>1. Lists /\ RFrame(r) /\ NewSlots(r) /\ Listener(r)[1] = r
    BY ReceiverDoes
  <2>2. Waiting(q)
    BY ConnsAre
  <2>3. pc'[q] = pc[q] /\ mine'[q] = mine[q] /\ todo'[q] = todo[q]
    BY <2>1 DEF RFrame
  <2>4. Len(handlers') \in Nat /\ Len(handlers) \in Nat /\ Len(handlers') >= Len(handlers)
    BY <2>1, Basics DEF Lists
  <2> QED BY <2>1, <2>2, <2>3, <2>4
<1>2. ASSUME NEW h \in 1..Len(handlers'), NEW l \in Listeners, l[1] = q
      PROVE  /\ h \in 1..Len(handlers) => Con(h, l)' = Con(h, l)
             /\ h \notin 1..Len(handlers) => Con(h, l)' = 0
  BY <1>1, <1>2 DEF RFrame
<1>3. ASSUME pc[q] = "record", NEW l, l = Listener(q), NEW m, m = mine[q], NEW d \in Sig(m, All),
             slots[d] = Owned(l), Newest(d, l)
      PROVE  d \in Sig(m, All)' /\ slots'[d] = Owned(l) /\ Newest(d, l)'
  <2>1. m \in 1..Len(handlers) /\ l \in Listeners /\ l[1] = q /\ All \in Keys
    BY <1>3, Where DEF Keys
  <2>2. d \in 1..Len(slots) /\ slots[d].owner = l /\ slots[d].connected
    BY <1>3, <2>1, Basics
  <2>3. slots'[d].owner = l /\ slots'[d].connected
    <3>1. slots[d].owner # Listener(r)
      BY <1>1, <2>1, <2>2
    <3> QED BY <1>1, <2>2, <3>1 DEF RFrame, Lists
  <2>4. d \in Sig(m, All)'
    BY <1>1, <1>3, <2>1, <2>3 DEF Lists
  <2>5. d \in 1..Len(slots') /\ slots' \in Seq(SlotType) /\ DOMAIN slots' = 1..Len(slots')
        /\ DOMAIN slots = 1..Len(slots)
    BY <1>1, <2>2, Basics DEF Lists
  <2>6. slots'[d] = Owned(l)
    BY <2>3, <2>5, IsOwned
  <2>7. ASSUME NEW e \in 1..Len(slots'), slots'[e].owner = l PROVE e <= d
    <3>1. e \in 1..Len(slots)
      BY <1>1, <2>1, <2>7 DEF NewSlots
    <3>2. slots[e].owner = l
      BY <1>1, <2>7, <3>1 DEF Lists
    <3> QED BY <1>3, <2>5, <3>1, <3>2 DEF Newest
  <2>8. Newest(d, l)'
    BY <2>5, <2>7 DEF Newest
  <2> QED BY <2>4, <2>6, <2>8
<1>4. Listener(q)' = Listener(q)
  BY <1>1 DEF Listener
<1>5. pc'[q] = "record" =>
        \E d \in Sig(mine[q], All)' : slots'[d] = Owned(Listener(q)) /\ \A l : l = Listener(q) => Newest(d, l)'
  <2> SUFFICES ASSUME pc'[q] = "record", NEW m, m = mine[q], NEW l, l = Listener(q)
               PROVE  \E d \in Sig(m, All)' : slots'[d] = Owned(l) /\ Newest(d, l)'
    BY <1>1
  <2>1. PICK d \in Sig(m, All) : slots[d] = Owned(l) /\ Newest(d, l)
    BY <1>1 DEF Waiting
  <2> QED BY <1>1, <1>3, <2>1
<1>6. ASSUME pc'[q] \in {"connect", "record"}, NEW m, m = mine[q], NEW l, l = Listener(q)
      PROVE  Con(m, l)' = 0
  <2>1. m \in 1..Len(handlers) /\ l \in Listeners /\ l[1] = q
    BY <1>1, <1>6, Where
  <2> QED BY <1>1, <1>2, <1>6, <2>1 DEF Waiting
<1>7. ASSUME pc'[q] # "idle", NEW h \in 1..Len(handlers'), h > mine[q], NEW k \in Keys
      PROVE  Con(h, <<q, k>>)' = 0
  <2>1. <<q, k>> \in Listeners /\ <<q, k>>[1] = q
    BY DEF Listeners
  <2> QED BY <1>1, <1>2, <1>7, <2>1 DEF Waiting
<1>8. ASSUME pc'[q] = "record"
      PROVE  \E d \in Sig(mine[q], All)' : slots'[d] = Owned(Listener(q)) /\ Newest(d, Listener(q))'
  BY <1>4, <1>5, <1>8
<1> QED BY <1>1, <1>4, <1>6, <1>7, <1>8 DEF Waiting

LEMMA OwnWaiting ==
  ASSUME Types, Turns, Places, Conns, NEW r \in Receivers, Enabling(r)
  PROVE  Waiting(r)'
<1> USE DEF Goto
<1>1. /\ Lists /\ RFrame(r) /\ Listener(r) \in Listeners /\ Listener(r)[1] = r /\ Waiting(r)
      /\ Absent /\ Listener(r) = <<r, todo[r][1].key>>
  <2>1. Lists /\ RFrame(r) /\ Listener(r) \in Listeners /\ Listener(r)[1] = r
    BY ReceiverDoes
  <2>2. Waiting(r) /\ Absent
    BY ConnsAre
  <2> QED BY <2>1, <2>2 DEF Listener
<1>2. Len(handlers') \in Nat /\ Len(handlers) \in Nat /\ table = Len(handlers)
      /\ pc \in [Receivers -> {"idle", "set", "connect", "record", "disconnect"}]
      /\ mine \in [Receivers -> 0..Len(handlers)]
      /\ \A k \in Keys : <<r, k>> \in Listeners
  BY <1>1, Basics, RestTyped DEF Lists, Rest, Listeners
<1>3. CASE EnableAgain(r) \/ Ignored(r) \/ Record(r) \/ ConnectOpposite(r) \/ Disconnect(r)
  <2>1. pc'[r] = "idle"
    BY <1>2, <1>3 DEF EnableAgain, Ignored, Record, ConnectOpposite, Disconnect, Return
  <2> QED BY <2>1 DEF Waiting
<1>4. CASE AddListener(r) \/ RemoveListener(r)
  <2>1. /\ pc'[r] \in {"set", "connect", "disconnect"} /\ mine'[r] = table /\ todo' = todo
        /\ pc'[r] = "connect" => AddListener(r) /\ table # 0
    BY <1>2, <1>4 DEF AddListener, RemoveListener
  <2>2. handlers' = handlers /\ UNCHANGED dispatcher
    BY <1>4, QuietDoes DEF dispatcher
  <2>3. Listener(r)' = Listener(r)
    BY <2>1 DEF Listener
  <2>4. ASSUME pc'[r] = "connect", NEW m, m = table, NEW l, l = Listener(r)
        PROVE  Con(m, l)' = 0
    <3>1. Con(m, l) = 0
      <4>1. ~is_shutdown
        BY <2>1, <2>4 DEF AddListener
      <4>2. status[l] = "off"
        BY <2>1, <2>4, WasOff
      <4> QED BY <1>1, <2>1, <2>4, <4>1, <4>2 DEF Absent
    <3> QED BY <2>2, <3>1 DEF Con
  <2>5. \A h \in 1..Len(handlers') : ~(h > mine'[r])
    BY <1>2, <2>1, <2>2
  <2> QED BY <2>1, <2>3, <2>4, <2>5 DEF Waiting
<1>5. CASE SetHandler(r)
  <2>1. pc'[r] = "connect" /\ mine'[r] = table' /\ todo' = todo
        /\ table' = Len(handlers) + 1 /\ Len(handlers') = Len(handlers) + 1
    BY <1>2, <1>5, SetHandlerDoes DEF SetHandler
  <2>3. Listener(r)' = Listener(r)
    BY <2>1 DEF Listener
  <2>4. ASSUME NEW m, m = Len(handlers) + 1, NEW l, l = Listener(r)
        PROVE  Con(m, l)' = 0
    BY <1>1, <1>5, <2>4, SetHandlerDoes
  <2>5. \A h \in 1..Len(handlers') : ~(h > mine'[r])
    BY <1>2, <2>1
  <2> QED BY <2>1, <2>3, <2>4, <2>5 DEF Waiting
<1>6. CASE Connect(r)
  <2>1. /\ pc[r] = "connect" /\ pc'[r] = "record" /\ mine'[r] = mine[r] /\ todo' = todo
        /\ Listener(r)[2] = All /\ slots' = Append(slots, Owned(Listener(r)))
    BY <1>2, <1>6 DEF Connect
  <2>2. Listener(r)' = Listener(r) /\ All \in Keys
    BY <2>1 DEF Listener, Keys
  <2>3. mine[r] \in 1..Len(handlers)
    BY <2>1, Where
  <2>4. /\ Len(handlers') = Len(handlers)
        /\ \A h \in 1..Len(handlers), l \in Listeners : Con(h, l)' = Con(h, l)
    BY <1>6, ConnectDoes
  <2>5. ASSUME NEW m, m = mine[r], NEW l, l = Listener(r)
        PROVE  /\ \E d \in Sig(m, All)' : slots'[d] = Owned(l) /\ Newest(d, l)'
               /\ Con(m, l)' = 0
    <3>1. Len(slots) \in Nat /\ DOMAIN slots' = 1 .. Len(slots) + 1
      BY <1>1, <2>1, Slotted, Basics
    <3>2. ASSUME NEW d, d = Len(slots) + 1
          PROVE  d \in Sig(m, All)' /\ slots'[d] = Owned(l) /\ Newest(d, l)'
      <4>1. slots'[d] = Owned(l)
        BY <1>1, <2>1, <2>5, <3>2, Slotted
      <4>2. d \in Sig(m, All)'
        BY <1>6, <2>1, <2>2, <2>3, <2>5, <3>2, ConnectDoes
      <4>3. Newest(d, l)'
        BY <3>1, <3>2 DEF Newest
      <4> QED BY <4>1, <4>2, <4>3
    <3>3. Con(m, l)' = 0
      BY <1>1, <2>1, <2>3, <2>4, <2>5 DEF Waiting
    <3> QED BY <3>2, <3>3
  <2>6. ASSUME NEW h \in 1..Len(handlers'), h > mine'[r], NEW k \in Keys
        PROVE  Con(h, <<r, k>>)' = 0
    BY <1>1, <1>2, <2>1, <2>4, <2>6 DEF Waiting
  <2> QED BY <2>1, <2>2, <2>5, <2>6 DEF Waiting
<1> QED BY <1>3, <1>4, <1>5, <1>6 DEF Enabling

LEMMA AbsentKeeps ==
  ASSUME Types, Turns, Places, Conns, NEW r \in Receivers, Enabling(r)
  PROVE  Absent'
<1>1. /\ Lists /\ RFrame(r) /\ Outcome(r) /\ Listener(r) \in Listeners /\ Listener(r)[1] = r
      /\ Listener(r)[2] \in Keys
  BY ReceiverDoes
<1>2. Absent /\ Waiting(r)
  BY ConnsAre
<1>3. /\ table = Len(handlers) /\ Len(handlers) \in Nat /\ table' = Len(handlers')
      /\ Len(handlers') \in Nat /\ Len(handlers') >= Len(handlers) /\ is_shutdown' = is_shutdown
      /\ mine[r] \in 0..Len(handlers)
  <2>1. Types'
    BY ReceiverTypes
  <2> QED BY <1>1, <2>1, Basics, RestTyped DEF Types, Shapes, Lists, RFrame, Rest
<1> SUFFICES ASSUME ~is_shutdown, NEW g, g = table', g # 0, NEW l \in Listeners, status'[l] = "off"
             PROVE  Con(g, l)' = 0
  BY <1>3 DEF Absent
<1>4. CASE g \notin 1..Len(handlers)
  BY <1>1, <1>3, <1>4 DEF RFrame
<1>5. CASE g \in 1..Len(handlers)
  <2>1. g = table /\ table # 0
    BY <1>3, <1>5
  <2>2. CASE l # Listener(r)
    <3>1. status[l] = "off"
      BY <1>1, <2>2 DEF Outcome
    <3> QED BY <1>1, <1>2, <1>5, <2>1, <2>2, <3>1 DEF RFrame, Absent
  <2>3. CASE l = Listener(r)
    <3>1. CASE status'[l] = status[l] /\ Still(r)
      BY <1>2, <1>5, <2>1, <2>3, <3>1 DEF Still, Absent
    <3>2. CASE Disconnect(r)
      <4>1. CASE g = mine[r]
        BY <1>5, <2>3, <3>2, <4>1, DisconnectDoes
      <4>2. CASE g # mine[r]
        <5>1. g > mine[r] /\ l = <<r, l[2]>> /\ l[2] \in Keys /\ pc[r] # "idle"
          <6>1. pc[r] # "idle"
            BY <3>2 DEF Disconnect
          <6>2. l = <<r, l[2]>> /\ l[2] \in Keys
            BY <1>1, <2>3, Basics
          <6>3. g > mine[r]
            BY <1>3, <2>1, <4>2
          <6> QED BY <6>1, <6>2, <6>3
        <5>2. Con(g, l) = 0
          BY <1>2, <1>5, <5>1 DEF Waiting
        <5> QED BY <1>5, <2>3, <3>2, <4>2, <5>2, DisconnectDoes
      <4> QED BY <4>1, <4>2
    <3> QED BY <1>1, <2>1, <2>3, <3>1, <3>2 DEF Outcome
  <2> QED BY <2>2, <2>3
<1> QED BY <1>4, <1>5

LEMMA ConnsFrom ==
  ASSUME DOMAIN handlers' = 1..Len(handlers'),
         \A h \in 1..Len(handlers'), l \in Listeners : Single(h, l)',
         \A q \in Receivers : Waiting(q)',
         Absent'
  PROVE  Conns'
BY DEF Conns, Single, Waiting, Absent

LEMMA ReceiverConns ==
  ASSUME Types, Turns, Places, Conns, NEW r \in Receivers, Enabling(r)
  PROVE  Conns'
<1>1. DOMAIN handlers' = 1..Len(handlers')
  BY ReceiverDoes DEF Lists
<1>2. \A h \in 1..Len(handlers'), l \in Listeners : Single(h, l)'
  BY OthersSingle, OwnSingle
<1>3. \A q \in Receivers : Waiting(q)'
  BY OthersWaiting, OwnWaiting
<1> QED BY <1>1, <1>2, <1>3, AbsentKeeps, ConnsFrom

LEMMA SenderConns ==
  ASSUME Types, Turns, Places, Conns, Running, NEW s \in Senders, Sending(s)
  PROVE  Conns'
<1>1. /\ Lists /\ SFrame(s)
      /\ UNCHANGED <<table, slots, is_shutdown, todo, pc, mine, status>>
      /\ DOMAIN handlers' = 1..Len(handlers') /\ Len(handlers') = Len(handlers)
      /\ \A h \in 1..Len(handlers), l \in Listeners : Con(h, l)' = Con(h, l)
      /\ \A h \in 1..Len(handlers), k \in Keys : Sig(h, k)' \subseteq Sig(h, k)
      /\ table = Len(handlers) /\ Len(handlers) \in Nat
  BY SendingDoes, Basics DEF SFrame, Lists, receivers, Types, Shapes
<1>2. /\ \A h \in 1..Len(handlers), l \in Listeners : Single(h, l)
      /\ \A r \in Receivers : Waiting(r)
      /\ Absent
  BY ConnsAre
<1>3. \A l : l \in Listeners => l[1] \in Receivers /\ l[2] \in Keys
  BY Basics
<1>4. \A h, l, d : /\ Recording(l, h)' <=> Recording(l, h)
                   /\ Newest(d, l)' <=> Newest(d, l)
  BY <1>1 DEF Recording, Newest, Listener
<1>5. ASSUME NEW h \in 1..Len(handlers'), NEW l \in Listeners PROVE Single(h, l)'
  <2>1. \A k \in Keys : k = l[2] => \A d \in Sig(h, k)' : d \in Sig(h, l[2])
    BY <1>1
  <2> QED BY <1>1, <1>2, <1>3, <1>4, <2>1 DEF Single
<1>6. ASSUME NEW r \in Receivers PROVE Waiting(r)'
  <2>1. ASSUME pc[r] = "record", NEW m, m = mine[r], NEW l, l = Listener(r)
        PROVE  \E d \in Sig(m, All)' : slots'[d] = Owned(l) /\ Newest(d, l)'
    <3>1. PICK d \in Sig(m, All) : slots[d] = Owned(l) /\ Newest(d, l)
      BY <1>2, <2>1 DEF Waiting
    <3>2. m \in 1..Len(handlers) /\ All \in Keys
      BY <2>1, Where DEF Keys
    <3>3. d \in Sig(m, All)'
      BY <1>1, <3>1, <3>2 DEF Lists, Owned
    <3> QED BY <1>1, <1>4, <3>1, <3>3
  <2>2. ASSUME pc[r] \in {"connect", "record"}, NEW m, m = mine[r], NEW l, l = Listener(r)
        PROVE  Con(m, l)' = 0
    <3>1. m \in 1..Len(handlers) /\ l \in Listeners
      BY <2>2, Where
    <3> QED BY <1>1, <1>2, <2>2, <3>1 DEF Waiting
  <2>3. ASSUME pc[r] # "idle", NEW h \in 1..Len(handlers'), h > mine[r], NEW k \in Keys
        PROVE  Con(h, <<r, k>>)' = 0
    <3>1. <<r, k>> \in Listeners
      BY DEF Listeners
    <3> QED BY <1>1, <1>2, <2>3, <3>1 DEF Waiting
  <2>4. Listener(r)' = Listener(r) /\ mine'[r] = mine[r] /\ pc'[r] = pc[r]
    BY <1>1 DEF Listener
  <2>5. pc'[r] = "record" =>
          \E d \in Sig(mine[r], All)' : slots'[d] = Owned(Listener(r)) /\ Newest(d, Listener(r))'
    BY <1>1, <2>1, <2>4
  <2> QED BY <2>2, <2>3, <2>4, <2>5 DEF Waiting
<1>7. Absent'
  <2>1. ASSUME ~is_shutdown, NEW g, g = table, g # 0, NEW l \in Listeners, status[l] = "off"
        PROVE  Con(g, l)' = 0
    <3>1. g \in 1..Len(handlers)
      BY <1>1, <2>1
    <3> QED BY <1>1, <1>2, <2>1, <3>1 DEF Absent
  <2> QED BY <1>1, <2>1 DEF Absent
<1> QED BY <1>1, <1>5, <1>6, <1>7, ConnsFrom

-----------------------------------------------------------------------------
(* The senders *)

Run(s) ==
  /\ key[s] \in {All, s}
  /\ spc[s] \in {"idle", "lock"} => key[s] = All
  /\ spc[s] = "unlock" => key[s] = s
  /\ spc[s] = "idle" => \A l \in Listeners : called[s][l] = 0
  /\ spc[s] # "idle" => at[s] # 0 /\ (key[s] = s => s \in Rd(at[s]))
  /\ spc[s] \in {"slots", "call"} =>
       \A d \in local[s] : /\ slots[d].owner[2] = key[s]
                           /\ slots[d].connected => d \in Sig(at[s], key[s])
  /\ spc[s] = "call" => /\ local[s] # {}
                        /\ key[s] = s => slots[First(s)].connected

LEMMA RunsAre == Running <=> \A s \in Senders : Run(s)
BY DEF Running, Run

\* Where a sender is, and what it has still to call.
LEMMA RunAt ==
  ASSUME Types, Running, NEW s \in Senders, spc[s] # "idle"
  PROVE  /\ at[s] \in 1..Len(handlers) /\ at[s] \in DOMAIN handlers /\ key[s] \in Keys
         /\ local[s] \subseteq 1..Len(slots)
         /\ local[s] # {} => First(s) \in local[s] /\ First(s) \in 1..Len(slots)
<1>1. at[s] # 0
  BY DEF Running
<1>2. at[s] \in 0..Len(handlers) /\ key[s] \in Keys /\ local[s] \subseteq DOMAIN slots
  BY RestTyped DEF Rest
<1> QED BY <1>1, <1>2, Basics, FirstIs

\* The steps of the others leave a sender at its place.
LEMMA RunStays ==
  ASSUME Types, Places, Running, Lists, NEW s \in Senders,
         spc'[s] = spc[s], at'[s] = at[s], key'[s] = key[s], local'[s] = local[s], called'[s] = called[s],
         \A h \in 1..Len(handlers) : s \in Rd(h) => s \in Rd(h)',
         \A d \in 1..Len(slots) :
           \/ slots'[d].connected = slots[d].connected
           \/ \E g \in DOMAIN handlers, k \in Keys :
                Rd(g) = {} /\ d \in Sig(g, k) /\ slots[d].owner[2] = k
  PROVE  Run(s)'
<1>1. First(s)' = First(s)
  BY DEF First
<1>2. Run(s)
  BY RunsAre
<1>3. ASSUME spc[s] # "idle", key[s] = s, NEW g, g = at[s] PROVE s \in Rd(g)'
  BY <1>2, <1>3, RunAt DEF Run
<1>4. ASSUME spc[s] \in {"slots", "call"}, NEW d \in local[s], NEW g, g = at[s], NEW k, k = key[s]
      PROVE  /\ slots'[d].owner[2] = k
             /\ slots'[d].connected => d \in Sig(g, k)'
  <2>1. d \in 1..Len(slots) /\ g \in 1..Len(handlers) /\ k \in Keys
    BY <1>4, RunAt
  <2>2. slots[d].owner[2] = k /\ (slots[d].connected => d \in Sig(g, k))
    BY <1>2, <1>4 DEF Run
  <2> QED BY <2>1, <2>2 DEF Lists
<1>5. ASSUME spc[s] = "call", key[s] = s PROVE slots'[First(s)].connected
  <2>1. First(s) \in local[s] /\ First(s) \in 1..Len(slots) /\ slots[First(s)].connected
    BY <1>2, <1>5, RunAt DEF Run
  <2>2. First(s) \in Sig(at[s], s) /\ slots[First(s)].owner[2] = s /\ s \in Rd(at[s])
    BY <1>2, <1>5, <2>1 DEF Run
  <2>3. ASSUME NEW g \in DOMAIN handlers, NEW k \in Keys,
               Rd(g) = {}, First(s) \in Sig(g, k), slots[First(s)].owner[2] = k
        PROVE  FALSE
    <3>1. k = s /\ g # at[s] /\ at[s] \in DOMAIN handlers
      BY <1>5, <2>2, <2>3, RunAt
    <3> QED BY <2>2, <2>3, <3>1 DEF Places
  <2> QED BY <2>1, <2>3
<1>6. \A d \in local[s] : spc[s] \in {"slots", "call"} =>
        /\ slots'[d].owner[2] = key[s]
        /\ slots'[d].connected => d \in Sig(at[s], key[s])'
  BY <1>4
<1>7. spc[s] # "idle" /\ key[s] = s => s \in Rd(at[s])'
  BY <1>3
<1>8. /\ key'[s] \in {All, s}
      /\ spc'[s] \in {"idle", "lock"} => key'[s] = All
      /\ spc'[s] = "unlock" => key'[s] = s
      /\ spc'[s] = "idle" => \A l \in Listeners : called'[s][l] = 0
      /\ spc'[s] # "idle" => at'[s] # 0
      /\ spc'[s] = "call" => local'[s] # {}
  BY <1>2 DEF Run
<1> QED BY <1>1, <1>5, <1>6, <1>7, <1>8 DEF Run

LEMMA ReceiverRuns ==
  ASSUME Types, Turns, Places, Conns, Running, NEW r \in Receivers, Enabling(r)
  PROVE  Running'
<1>1. /\ Lists /\ RFrame(r) /\ Listener(r) \in Listeners /\ Listener(r)[2] \in Keys
      /\ DOMAIN handlers = 1..Len(handlers)
  BY ReceiverDoes, Basics
<1>2. ASSUME NEW s \in Senders PROVE Run(s)'
  <2>1. /\ spc'[s] = spc[s] /\ at'[s] = at[s] /\ key'[s] = key[s] /\ local'[s] = local[s]
        /\ called'[s] = called[s]
        /\ \A h \in 1..Len(handlers) : s \in Rd(h) => s \in Rd(h)'
    BY <1>1 DEF RFrame
  <2>2. \A d \in 1..Len(slots) :
          \/ slots'[d].connected = slots[d].connected
          \/ \E g \in DOMAIN handlers, k \in Keys :
               Rd(g) = {} /\ d \in Sig(g, k) /\ slots[d].owner[2] = k
    BY <1>1 DEF RFrame
  <2> QED BY <1>1, <2>1, <2>2, RunStays
<1> QED BY <1>2 DEF Running, Run

LEMMA SenderRuns ==
  ASSUME Types, Places, Running, NEW s \in Senders, Sending(s)
  PROVE  Running'
<1> USE DEF dispatcher, receivers, runs, history, GotoS
<1>1. /\ Lists /\ SFrame(s) /\ slots' = slots /\ Run(s) /\ Rest /\ s # All
      /\ DOMAIN handlers = 1..Len(handlers)
  BY SendingDoes, Basics, RunsAre, RestTyped, ListenersAssumption DEF SFrame
<1>2. ASSUME NEW q \in Senders, q # s PROVE Run(q)'
  <2>1. /\ spc'[q] = spc[q] /\ at'[q] = at[q] /\ key'[q] = key[q] /\ local'[q] = local[q]
        /\ called'[q] = called[q]
        /\ \A h \in 1..Len(handlers) : q \in Rd(h) => q \in Rd(h)'
    BY <1>1, <1>2 DEF SFrame
  <2> QED BY <1>1, <2>1, RunStays
<1>3. CASE OnMessage(s)
  <2>1. /\ spc[s] = "idle" /\ key'[s] = key[s] /\ called'[s] = called[s] /\ key[s] = All
        /\ \A l \in Listeners : called[s][l] = 0
    BY <1>1, <1>3 DEF OnMessage, Run
  <2>2. \/ spc'[s] = "idle"
        \/ spc'[s] = "copy" /\ at'[s] # 0
    BY <1>1, <1>3 DEF OnMessage, Rest
  <2>3. Run(s)'
    BY <1>1, <2>1, <2>2 DEF Run
  <2> QED BY <1>2, <2>3 DEF Running, Run
<1>4. CASE CopySlots(s)
  <2>1. /\ spc[s] = "copy" /\ spc'[s] = "slots" /\ at' = at /\ key' = key
        /\ local'[s] = Sig(at[s], key[s]) /\ handlers' = handlers
    BY <1>1, <1>4 DEF CopySlots, Rest, Sig
  <2>2. at[s] \in DOMAIN handlers /\ key[s] \in Keys
    BY <2>1, RunAt
  <2>3. \A d \in local'[s] : slots[d].owner[2] = key[s] /\ d \in Sig(at[s], key[s])
    BY <2>1, <2>2 DEF Places
  <2>4. /\ \A h, k : Sig(h, k)' = Sig(h, k)
        /\ \A h : Rd(h)' = Rd(h)
    BY <2>1 DEF Sig, Rd
  <2>5. key[s] \in {All, s} /\ at[s] # 0 /\ (key[s] = s => s \in Rd(at[s])')
    BY <1>1, <2>1, <2>4 DEF Run
  <2>6. \A d \in local'[s] : d \in Sig(at[s], key[s])'
    BY <2>1, <2>3, <2>4
  <2>7. Run(s)'
    BY <1>1, <2>1, <2>3, <2>5, <2>6 DEF Run
  <2> QED BY <1>2, <2>7 DEF Running, Run
<1>5. CASE TestSlot(s) \/ Called(s)
  <2>1. /\ at' = at /\ key' = key /\ handlers' = handlers /\ spc[s] \in {"slots", "call"}
        /\ spc'[s] \in {"slots", "call"} /\ local'[s] \subseteq local[s]
        /\ spc'[s] = "call" => local' = local /\ local[s] # {} /\ slots[First(s)].connected
    <3>1. CASE TestSlot(s)
      BY <1>1, <3>1 DEF TestSlot, Rest
    <3>2. CASE Called(s)
      BY <1>1, <3>2 DEF Called, Rest
    <3> QED BY <1>5, <3>1, <3>2
  <2>2. spc'[s] = "call" => First(s)' = First(s)
    BY <2>1 DEF First
  <2>3. /\ \A h, k : Sig(h, k)' = Sig(h, k)
        /\ \A h : Rd(h)' = Rd(h)
    BY <2>1 DEF Sig, Rd
  <2>4. key[s] \in {All, s} /\ at[s] # 0 /\ (key[s] = s => s \in Rd(at[s])')
    BY <1>1, <2>1, <2>3 DEF Run
  <2>5. \A d \in local'[s] : slots[d].owner[2] = key[s]
                             /\ (slots[d].connected => d \in Sig(at[s], key[s])')
    BY <1>1, <2>1, <2>3 DEF Run
  <2>6. Run(s)'
    BY <1>1, <2>1, <2>2, <2>4, <2>5 DEF Run
  <2> QED BY <1>2, <2>6 DEF Running, Run
<1>6. CASE ClearDisconnectedSlots(s)
  <2>1. /\ at' = at /\ key' = key /\ spc[s] = "slots"
        /\ spc'[s] = IF key[s] = All THEN "lock" ELSE "unlock"
    BY <1>1, <1>6 DEF ClearDisconnectedSlots, Rest
  <2>2. at[s] \in 1..Len(handlers)
    BY <2>1, RunAt
  <2>3. ASSUME NEW g, g = at[s] PROVE Rd(g)' = Rd(g)
    BY <1>6, <2>2, <2>3, ClearDoes
  <2>4. key[s] \in {All, s} /\ at[s] # 0 /\ (key[s] = s => s \in Rd(at[s])')
    BY <1>1, <2>1, <2>3 DEF Run
  <2>5. Run(s)'
    BY <1>1, <2>1, <2>4 DEF Run
  <2> QED BY <1>2, <2>5 DEF Running, Run
<1>7. CASE ReadLock(s)
  <2>1. /\ at' = at /\ key'[s] = s /\ spc[s] = "lock" /\ spc'[s] = "copy"
    BY <1>1, <1>7 DEF ReadLock, Rest
  <2>2. at[s] \in 1..Len(handlers)
    BY <2>1, RunAt
  <2>3. ASSUME NEW g, g = at[s] PROVE s \in Rd(g)'
    BY <1>7, <2>2, <2>3, LocksDo
  <2>4. s \in Rd(at[s])' /\ at[s] # 0
    BY <2>1, <2>2, <2>3, Basics
  <2>5. Run(s)'
    BY <1>1, <2>1, <2>4 DEF Run
  <2> QED BY <1>2, <2>5 DEF Running, Run
<1>8. CASE RunReturns(s)
  <2>1. /\ key'[s] = All /\ spc'[s] = "idle"
        /\ \A l \in Listeners : called'[s][l] = 0
    BY <1>1, <1>8 DEF RunReturns, Rest
  <2>2. Run(s)'
    BY <1>1, <2>1 DEF Run
  <2> QED BY <1>2, <2>2 DEF Running, Run
<1> QED BY <1>3, <1>4, <1>5, <1>6, <1>7, <1>8 DEF Sending

-----------------------------------------------------------------------------
(* The listeners a Run reaches *)

Reached(s, l) ==
  /\ l[2] \in {All, s}
  /\ status[l] = "on" \/ (is_shutdown /\ status[l] = "off")
  /\ Con(at[s], l) # 0
  /\ called[s][l] = IF Ahead(s, l) THEN 0
                    ELSE IF l[2] = key[s] /\ spc[s] \in {"slots", "call"} /\ Con(at[s], l) \in local[s]
                         THEN 0 ELSE 1
  /\ spc[s] = "call" /\ slots[First(s)].owner = l => First(s) = Con(at[s], l)
Reach(s) == spc[s] # "idle" => \A l \in must[s] : Reached(s, l)

LEMMA ReachesAre == Reaching <=> \A s \in Senders : Reach(s)
BY DEF Reaching, Reach, Reached

LEMMA ReachStays ==
  ASSUME Types, Running, Lists, NEW s \in Senders, Reach(s),
         spc'[s] = spc[s], at'[s] = at[s], key'[s] = key[s], local'[s] = local[s], called'[s] = called[s],
         must'[s] \subseteq must[s],
         spc[s] # "idle" => \A l \in must'[s] :
           /\ status'[l] = "on" \/ (is_shutdown' /\ status'[l] = "off")
           /\ \A g : g = at[s] => Con(g, l)' = Con(g, l)
  PROVE  Reach(s)'
<1> SUFFICES ASSUME spc[s] # "idle", NEW l \in must'[s] PROVE Reached(s, l)'
  BY DEF Reach
<1>1. Reached(s, l)
  BY DEF Reach
<1>2. Con(at[s], l)' = Con(at[s], l)
  OBVIOUS
<1>3. First(s)' = First(s) /\ (Ahead(s, l)' <=> Ahead(s, l))
  BY DEF First, Ahead
<1>4. spc[s] = "call" => slots'[First(s)].owner = slots[First(s)].owner
  <2>1. spc[s] = "call" => First(s) \in 1..Len(slots)
    BY RunAt DEF Running
  <2> QED BY <2>1 DEF Lists
<1> QED BY <1>1, <1>2, <1>3, <1>4 DEF Reached

LEMMA ReceiverReaches ==
  ASSUME Types, Turns, Places, Conns, Running, Reaching, NEW r \in Receivers, Enabling(r)
  PROVE  Reaching'
<1>1. /\ Lists /\ RFrame(r) /\ Outcome(r) /\ table = Len(handlers) /\ Len(handlers) \in Nat
  BY ReceiverDoes, Basics DEF Types, Shapes
<1>2. ASSUME NEW s \in Senders PROVE Reach(s)'
  <2>1. /\ spc'[s] = spc[s] /\ at'[s] = at[s] /\ key'[s] = key[s] /\ local'[s] = local[s]
        /\ called'[s] = called[s] /\ must'[s] \subseteq must[s] /\ is_shutdown' = is_shutdown
    BY <1>1 DEF RFrame
  <2>2. Reach(s)
    BY ReachesAre
  <2>3. ASSUME spc[s] # "idle", NEW l \in must'[s]
        PROVE  /\ status'[l] = "on" \/ (is_shutdown /\ status'[l] = "off")
               /\ \A g : g = at[s] => Con(g, l)' = Con(g, l)
    <3>1. at[s] \in 1..Len(handlers) /\ l \in Listeners
      BY <2>1, <2>3, RunAt, RestTyped DEF Rest
    <3>2. l \in must[s] /\ (status[l] = "on" \/ (is_shutdown /\ status[l] = "off"))
      BY <2>1, <2>2, <2>3 DEF Reach, Reached
    <3>3. CASE l # Listener(r)
      BY <1>1, <3>1, <3>2, <3>3 DEF RFrame, Outcome
    <3>4. CASE l = Listener(r)
      <4>1. table # 0
        BY <1>1, <3>1
      <4> QED BY <1>1, <2>3, <3>1, <3>2, <3>4, <4>1 DEF Outcome, Still
    <3> QED BY <3>3, <3>4
  <2> QED BY <1>1, <2>1, <2>2, <2>3, ReachStays
<1> QED BY <1>2 DEF Reaching, Reach, Reached

\* The slot recorded for a listener that a Run has to reach is connected, in its
\* signal, and the only connected one of the listener there.
LEMMA TheSlot ==
  ASSUME Types, Turns, Conns, Running, NEW s \in Senders, spc[s] # "idle", NEW l \in Listeners, Reached(s, l)
  PROVE  /\ Con(at[s], l) \in Sig(at[s], l[2]) /\ Con(at[s], l) \in 1..Len(slots)
         /\ slots[Con(at[s], l)] = Owned(l)
         /\ \A d \in Sig(at[s], l[2]) : slots[d] = Owned(l) => d = Con(at[s], l)
<1>1. at[s] \in 1..Len(handlers) /\ l[1] \in Receivers /\ l[2] \in Keys
  BY RunAt, Basics
<1>2. Con(at[s], l) \in Sig(at[s], l[2]) /\ slots[Con(at[s], l)] = Owned(l)
  BY <1>1, Basics DEF Reached
<1>3. ~Recording(l, at[s])
  <2>1. ASSUME Recording(l, at[s]) PROVE status[l] = "coming"
    BY <1>1, <2>1 DEF Recording, Turns, Turn
  <2> QED BY <2>1 DEF Reached
<1>4. \A d \in Sig(at[s], l[2]) : slots[d] = Owned(l) => d = Con(at[s], l)
  BY <1>1, <1>3, ConnsAre DEF Single
<1> QED BY <1>1, <1>2, <1>4, Basics

LEMMA OwnReach ==
  ASSUME Types, Turns, Places, Conns, Running, Reaching, NEW s \in Senders, Sending(s)
  PROVE  Reach(s)'
<1> USE DEF dispatcher, receivers, runs, history, GotoS
<1>1. /\ Lists /\ SFrame(s) /\ slots' = slots /\ Run(s) /\ Rest /\ s # All /\ Reach(s)
      /\ status' = status /\ is_shutdown' = is_shutdown
      /\ \A h \in 1..Len(handlers), l \in Listeners : Con(h, l)' = Con(h, l)
  BY SendingDoes, RunsAre, ReachesAre, RestTyped, ListenersAssumption DEF SFrame
<1>2. CASE OnMessage(s)
  <2>1. /\ spc[s] = "idle" /\ key' = key /\ called' = called /\ local' = local /\ key[s] = All
        /\ \A l \in Listeners : called[s][l] = 0 /\ UNCHANGED dispatcher
    BY <1>1, <1>2 DEF OnMessage, Run
  <2>2. CASE is_shutdown \/ table = 0
    BY <2>1, <2>2, <1>2 DEF OnMessage, Reach
  <2>3. CASE ~(is_shutdown \/ table = 0)
    <3>1. /\ spc'[s] = "copy" /\ at'[s] = table
          /\ must'[s] = {l \in Listeners :
               l[2] \in {All, s} /\ status[l] = "on" /\ handlers[table].conns[l] # 0}
      BY <1>1, <1>2, <2>3 DEF OnMessage, Rest
    <3>2. ASSUME NEW l \in must'[s] PROVE Reached(s, l)'
      <4>1. l \in Listeners /\ l[2] \in {All, s} /\ status[l] = "on"
        BY <3>1
      <4>2. Con(at[s], l)' # 0
        BY <2>1, <3>1 DEF Con
      <4>3. Ahead(s, l)'
        BY <1>1, <2>1, <3>1, <4>1 DEF Ahead
      <4>4. called'[s][l] = 0
        BY <2>1, <4>1
      <4> QED BY <1>1, <3>1, <4>1, <4>2, <4>3, <4>4 DEF Reached
    <3> QED BY <3>2 DEF Reach
  <2> QED BY <2>2, <2>3
<1>3. CASE RunReturns(s)
  <2>1. spc'[s] = "idle"
    BY <1>1, <1>3 DEF RunReturns, Rest
  <2> QED BY <2>1 DEF Reach
<1>4. CASE CopySlots(s) \/ TestSlot(s) \/ Called(s) \/ ClearDisconnectedSlots(s) \/ ReadLock(s)
  <2>1. spc[s] # "idle" /\ at' = at /\ must' = must
    BY <1>4 DEF CopySlots, TestSlot, Called, ClearDisconnectedSlots, ReadLock
  <2>2. /\ at[s] \in 1..Len(handlers) /\ at[s] \in DOMAIN handlers /\ key[s] \in Keys
        /\ local[s] \subseteq 1..Len(slots)
        /\ local[s] # {} => First(s) \in local[s] /\ First(s) \in 1..Len(slots)
    BY <2>1, RunAt
  <2> SUFFICES ASSUME NEW l \in must[s] PROVE Reached(s, l)'
    BY <2>1 DEF Reach
  <2>3. Reached(s, l) /\ l \in Listeners /\ l[2] \in Keys
    BY <1>1, <2>1, Basics DEF Reach, Rest
  <2> DEFINE d == Con(at[s], l)
  <2>4. Con(at[s], l)' = d
    <3>1. ASSUME NEW g, g = at[s] PROVE Con(g, l)' = Con(g, l)
      BY <1>1, <2>2, <2>3, <3>1
    <3> QED BY <2>1, <3>1
  <2>5. /\ d \in Sig(at[s], l[2]) /\ slots[d] = Owned(l) /\ d # 0
        /\ slots[d].owner = l /\ slots[d].connected
        /\ \A e \in Sig(at[s], l[2]) : slots[e] = Owned(l) => e = d
    <3>1. d \in Sig(at[s], l[2]) /\ slots[d] = Owned(l)
          /\ \A e \in Sig(at[s], l[2]) : slots[e] = Owned(l) => e = d
      BY <2>1, <2>3, TheSlot
    <3>2. d # 0
      BY <2>3 DEF Reached
    <3>3. Owned(l).owner = l /\ Owned(l).connected
      BY DEF Owned
    <3>4. slots[d].owner = l /\ slots[d].connected
      <4> HIDE DEF d, Owned
      <4> QED BY <3>1, <3>3
    <3> QED BY <3>1, <3>2, <3>4
  <2>6. /\ l[2] \in {All, s}
        /\ status[l] = "on" \/ (is_shutdown /\ status[l] = "off")
        /\ called[s][l] = IF Ahead(s, l) THEN 0
                          ELSE IF l[2] = key[s] /\ spc[s] \in {"slots", "call"} /\ d \in local[s]
                               THEN 0 ELSE 1
        /\ spc[s] = "call" /\ slots[First(s)].owner = l => First(s) = d
    BY <2>3 DEF Reached
  <2> HIDE DEF d
  <2> DEFINE C == IF Ahead(s, l)' THEN 0
                  ELSE IF l[2] = key'[s] /\ spc'[s] \in {"slots", "call"} /\ d \in local'[s]
                       THEN 0 ELSE 1
             F == spc'[s] = "call" /\ slots[First(s)'].owner = l => First(s)' = d
  <2>7. SUFFICES called'[s][l] = C /\ F
    BY <1>1, <2>4, <2>5, <2>6 DEF Reached
  <2>8. CASE CopySlots(s)
    <3>1. /\ spc[s] = "copy" /\ spc'[s] = "slots" /\ key' = key /\ called' = called
          /\ local'[s] = Sig(at[s], key[s])
      BY <1>1, <2>8 DEF CopySlots, Rest, Sig
    <3> QED BY <2>5, <2>6, <3>1 DEF Ahead
  <2>9. CASE TestSlot(s)
    <3>1. /\ spc[s] = "slots" /\ local[s] # {} /\ key' = key /\ called' = called
          /\ \/ slots[First(s)].connected /\ spc'[s] = "call" /\ local' = local
             \/ ~slots[First(s)].connected /\ spc'[s] = "slots" /\ local'[s] = local[s] \ {First(s)}
      BY <1>1, <2>9 DEF TestSlot, Rest
    <3>2. CASE slots[First(s)].connected /\ spc'[s] = "call" /\ local' = local
      <4>1. First(s)' = First(s) /\ First(s) \in local[s] /\ First(s) \in 1..Len(slots)
        BY <2>2, <3>1, <3>2 DEF First
      <4>2. First(s) \in Sig(at[s], key[s]) /\ slots[First(s)].owner[2] = key[s]
        BY <1>1, <3>1, <3>2, <4>1 DEF Run
      <4>3. ASSUME slots[First(s)].owner = l PROVE First(s) = d
        <5>1. slots[First(s)] = Owned(l)
          BY <3>2, <4>1, <4>3, Basics
        <5> QED BY <2>5, <4>2, <4>3, <5>1
      <4> QED BY <2>6, <3>1, <3>2, <4>1, <4>3 DEF Ahead
    <3>3. CASE ~slots[First(s)].connected /\ spc'[s] = "slots" /\ local'[s] = local[s] \ {First(s)}
      <4>1. d # First(s)
        BY <2>5, <3>3
      <4> QED BY <2>6, <3>1, <3>3, <4>1 DEF Ahead
    <3> QED BY <3>1, <3>2, <3>3
  <2>10. CASE Called(s)
    <3>1. /\ spc[s] = "call" /\ spc'[s] = "slots" /\ key' = key /\ local[s] # {}
          /\ local'[s] = local[s] \ {First(s)}
      BY <1>1, <2>10 DEF Called, Rest, Run
    <3>2. First(s) \in local[s] /\ First(s) \in 1..Len(slots) /\ slots[First(s)].owner[2] = key[s]
          /\ slots[First(s)].owner \in Listeners
      BY <1>1, <2>2, <3>1, Basics DEF Run
    <3>3. called'[s][l] = IF l = slots[First(s)].owner THEN called[s][l] + 1 ELSE called[s][l]
      BY <1>1, <2>3, <2>10, <3>2 DEF Called, Rest
    <3>4. CASE slots[First(s)].owner = l
      <4>1. First(s) = d /\ l[2] = key[s] /\ ~Ahead(s, l) /\ ~Ahead(s, l)'
        BY <2>6, <3>1, <3>2, <3>4 DEF Ahead
      <4> QED BY <2>6, <3>1, <3>2, <3>3, <3>4, <4>1
    <3>5. CASE slots[First(s)].owner # l
      <4>1. First(s) # d /\ (Ahead(s, l)' <=> Ahead(s, l))
        BY <2>5, <3>1, <3>5 DEF Ahead
      <4> QED BY <2>6, <3>1, <3>3, <3>5, <4>1
    <3> QED BY <3>4, <3>5
  <2>11. CASE ClearDisconnectedSlots(s)
    <3>1. /\ spc[s] = "slots" /\ spc'[s] \in {"lock", "unlock"} /\ key' = key /\ called' = called
          /\ local[s] = {}
      BY <1>1, <2>11 DEF ClearDisconnectedSlots, Rest
    <3> QED BY <2>6, <3>1 DEF Ahead
  <2>12. CASE ReadLock(s)
    <3>1. /\ spc[s] = "lock" /\ spc'[s] = "copy" /\ key[s] = All /\ key'[s] = s /\ called' = called
      BY <1>1, <2>12 DEF ReadLock, Rest, Run
    <3> QED BY <1>1, <2>6, <3>1 DEF Ahead
  <2> QED BY <1>4, <2>8, <2>9, <2>10, <2>11, <2>12
<1> QED BY <1>2, <1>3, <1>4 DEF Sending

LEMMA SenderReaches ==
  ASSUME Types, Turns, Places, Conns, Running, Reaching, NEW s \in Senders, Sending(s)
  PROVE  Reaching'
<1>1. Lists /\ SFrame(s)
  BY SendingDoes
<1>2. ASSUME NEW q \in Senders, q # s PROVE Reach(q)'
  <2>1. /\ spc'[q] = spc[q] /\ at'[q] = at[q] /\ key'[q] = key[q] /\ local'[q] = local[q]
        /\ called'[q] = called[q] /\ must'[q] \subseteq must[q] /\ is_shutdown' = is_shutdown
        /\ status' = status
        /\ \A h \in 1..Len(handlers), l \in Listeners : Con(h, l)' = Con(h, l)
    BY <1>1, <1>2 DEF SFrame
  <2>2. Reach(q)
    BY ReachesAre
  <2>3. ASSUME spc[q] # "idle", NEW l \in must'[q]
        PROVE  /\ status'[l] = "on" \/ (is_shutdown /\ status'[l] = "off")
               /\ \A g : g = at[q] => Con(g, l)' = Con(g, l)
    <3>1. at[q] \in 1..Len(handlers) /\ l \in Listeners
      BY <2>1, <2>3, RunAt, RestTyped DEF Rest
    <3> QED BY <2>1, <2>2, <2>3, <3>1 DEF Reach, Reached
  <2> QED BY <1>1, <2>1, <2>2, <2>3, ReachStays
<1> QED BY <1>2, OwnReach DEF Reaching, Reach, Reached

-----------------------------------------------------------------------------
(* The listeners a Run spares *)

Spared(s, l) ==
  /\ status[l] \in {"off", "going"}
  /\ called[s][l] = 0
  /\ \A d \in Sig(at[s], l[2]) : slots[d] # Owned(l)
  /\ spc[s] \in {"slots", "call"} => \A d \in local[s] : slots[d] # Owned(l)
  /\ spc[s] = "call" => slots[First(s)].owner # l
Spare(s) == spc[s] # "idle" => \A l \in never[s] : Spared(s, l)

LEMMA SparesAre == Sparing <=> \A s \in Senders : Spare(s)
BY DEF Sparing, Spare, Spared

LEMMA SpareStays ==
  ASSUME Types, Running, Lists, NEW s \in Senders, Spare(s),
         spc'[s] = spc[s], at'[s] = at[s], key'[s] = key[s], local'[s] = local[s], called'[s] = called[s],
         never'[s] \subseteq never[s],
         spc[s] # "idle" => \A l \in never'[s] :
           /\ status'[l] \in {"off", "going"}
           /\ \A g, k : g = at[s] /\ k = l[2] => \A d \in Sig(g, k)' : slots'[d] # Owned(l)
  PROVE  Spare(s)'
<1> SUFFICES ASSUME spc[s] # "idle", NEW l \in never'[s] PROVE Spared(s, l)'
  BY DEF Spare
<1>1. Spared(s, l)
  BY DEF Spare
<1>2. First(s)' = First(s)
  BY DEF First
<1>3. local[s] \subseteq 1..Len(slots) /\ (spc[s] = "call" => First(s) \in 1..Len(slots))
  BY RunAt DEF Running
<1>4. ASSUME spc[s] \in {"slots", "call"}, NEW d \in local[s] PROVE slots'[d] # Owned(l)
  <2>1. slots[d] # Owned(l) /\ d \in 1..Len(slots)
    BY <1>1, <1>3, <1>4 DEF Spared
  <2>2. slots[d].owner # l \/ ~slots[d].connected
    BY <2>1, Basics
  <2>3. slots'[d].owner # l \/ ~slots'[d].connected
    BY <2>1, <2>2 DEF Lists
  <2> QED BY <2>3 DEF Owned
<1>5. spc[s] = "call" => slots'[First(s)].owner # l
  BY <1>1, <1>3 DEF Spared, Lists
<1>6. \A d \in Sig(at[s], l[2])' : slots'[d] # Owned(l)
  OBVIOUS
<1> QED BY <1>1, <1>2, <1>4, <1>5, <1>6 DEF Spared

LEMMA ReceiverSpares ==
  ASSUME Types, Turns, Places, Conns, Running, Sparing, NEW r \in Receivers, Enabling(r)
  PROVE  Sparing'
<1>1. Lists /\ RFrame(r) /\ Outcome(r) /\ Len(handlers') >= Len(handlers) /\ Len(handlers') \in Nat
      /\ Len(handlers) \in Nat
  BY ReceiverDoes, Basics DEF Lists
<1>2. ASSUME NEW s \in Senders PROVE Spare(s)'
  <2>1. /\ spc'[s] = spc[s] /\ at'[s] = at[s] /\ key'[s] = key[s] /\ local'[s] = local[s]
        /\ called'[s] = called[s] /\ never'[s] \subseteq never[s]
    BY <1>1 DEF RFrame
  <2>2. Spare(s)
    BY SparesAre
  <2>3. ASSUME spc[s] # "idle", NEW l \in never'[s]
        PROVE  /\ status'[l] \in {"off", "going"}
               /\ \A g, k : g = at[s] /\ k = l[2] => \A d \in Sig(g, k)' : slots'[d] # Owned(l)
    <3>1. at[s] \in 1..Len(handlers) /\ at[s] \in 1..Len(handlers') /\ l \in Listeners /\ l[2] \in Keys
      BY <1>1, <2>1, <2>3, RunAt, RestTyped, Basics DEF Rest
    <3>2. status[l] \in {"off", "going"} /\ \A d \in Sig(at[s], l[2]) : slots[d] # Owned(l)
      BY <2>1, <2>2, <2>3 DEF Spare, Spared
    <3>3. status'[l] \in {"off", "going"}
      <4>1. CASE l # Listener(r)
        BY <1>1, <3>1, <3>2, <4>1 DEF Outcome
      <4>2. CASE l = Listener(r)
        BY <1>1, <2>3, <3>2, <4>2 DEF Outcome
      <4> QED BY <4>1, <4>2
    <3>4. ASSUME NEW g, g = at[s], NEW k, k = l[2], NEW d \in Sig(g, k)' PROVE slots'[d] # Owned(l)
      <4>1. \/ d \in Sig(g, k) /\ (slots'[d] = Owned(l) => slots[d] = Owned(l))
            \/ slots'[d] = Owned(Listener(r)) /\ status[Listener(r)] = "coming"
        BY <1>1, <3>1, <3>4, OldOrNew
      <4>2. CASE d \in Sig(g, k) /\ (slots'[d] = Owned(l) => slots[d] = Owned(l))
        BY <3>2, <3>4, <4>2
      <4>3. CASE slots'[d] = Owned(Listener(r)) /\ status[Listener(r)] = "coming"
        BY <3>2, <4>3 DEF Owned
      <4> QED BY <4>1, <4>2, <4>3
    <3> QED BY <3>3, <3>4
  <2> QED BY <1>1, <2>1, <2>2, <2>3, SpareStays
<1> QED BY <1>2 DEF Sparing, Spare, Spared

LEMMA OwnSpare ==
  ASSUME Types, Turns, Places, Conns, Running, Sparing, NEW s \in Senders, Sending(s)
  PROVE  Spare(s)'
<1> USE DEF dispatcher, receivers, runs, history, GotoS
<1>1. /\ SFrame(s) /\ slots' = slots /\ Run(s) /\ Rest /\ Spare(s) /\ status' = status
      /\ \A h \in 1..Len(handlers), k \in Keys : Sig(h, k)' \subseteq Sig(h, k)
      /\ table = Len(handlers) /\ Len(handlers) \in Nat
  BY SendingDoes, RunsAre, SparesAre, RestTyped, Basics DEF SFrame, Rest
<1>2. CASE OnMessage(s)
  <2>1. /\ spc[s] = "idle" /\ key' = key /\ called' = called /\ local' = local
        /\ \A l \in Listeners : called[s][l] = 0 /\ UNCHANGED dispatcher
    BY <1>1, <1>2 DEF OnMessage, Run
  <2>2. CASE is_shutdown \/ table = 0
    BY <2>1, <2>2, <1>2 DEF OnMessage, Spare
  <2>3. CASE ~(is_shutdown \/ table = 0)
    <3>1. /\ spc'[s] = "copy" /\ at'[s] = table
          /\ never'[s] = {l \in Listeners : status[l] = "off"}
      BY <1>1, <1>2, <2>3 DEF OnMessage, Rest
    <3>2. ASSUME NEW l \in never'[s] PROVE Spared(s, l)'
      <4>1. l \in Listeners /\ status[l] = "off" /\ table \in 1..Len(handlers) /\ l[1] \in Receivers
            /\ l[2] \in Keys
        BY <1>1, <2>3, <3>1, Basics
      <4>2. Con(table, l) = 0
        BY <2>3, <4>1, ConnsAre DEF Absent
      <4>3. ~Recording(l, table)
        BY <4>1 DEF Recording, Turns, Turn
      <4>4. ASSUME NEW d \in Sig(table, l[2]) PROVE slots[d] # Owned(l)
        <5>1. d \in 1..Len(slots)
          BY <4>1, <4>4, Basics
        <5>2. d # 0
          BY <5>1
        <5>3. Single(table, l)
          BY <4>1, ConnsAre
        <5> QED BY <4>2, <4>3, <4>4, <5>2, <5>3 DEF Single
      <4>5. \A d \in Sig(at[s], l[2])' : slots[d] # Owned(l)
        BY <2>1, <3>1, <4>4 DEF Sig
      <4> QED BY <1>1, <2>1, <3>1, <4>1, <4>5 DEF Spared
    <3> QED BY <3>2 DEF Spare
  <2> QED BY <2>2, <2>3
<1>3. CASE RunReturns(s)
  <2>1. spc'[s] = "idle"
    BY <1>1, <1>3 DEF RunReturns, Rest
  <2> QED BY <2>1 DEF Spare
<1>4. CASE CopySlots(s) \/ TestSlot(s) \/ Called(s) \/ ClearDisconnectedSlots(s) \/ ReadLock(s)
  <2>1. spc[s] # "idle" /\ at' = at /\ never' = never
    BY <1>4 DEF CopySlots, TestSlot, Called, ClearDisconnectedSlots, ReadLock
  <2>2. /\ at[s] \in 1..Len(handlers) /\ at[s] \in DOMAIN handlers /\ key[s] \in Keys
        /\ local[s] \subseteq 1..Len(slots)
        /\ local[s] # {} => First(s) \in local[s] /\ First(s) \in 1..Len(slots)
    BY <2>1, RunAt
  <2> SUFFICES ASSUME NEW l \in never[s] PROVE Spared(s, l)'
    BY <2>1 DEF Spare
  <2>3. Spared(s, l) /\ l \in Listeners /\ l[2] \in Keys
    BY <1>1, <2>1, Basics DEF Spare, Rest
  <2>4. \A d \in Sig(at[s], l[2])' : slots[d] # Owned(l)
    <3>1. ASSUME NEW g, g = at[s], NEW k, k = l[2] PROVE \A d \in Sig(g, k)' : slots[d] # Owned(l)
      BY <1>1, <2>2, <2>3, <3>1 DEF Spared
    <3> QED BY <2>1, <3>1
  <2>5. SUFFICES /\ called'[s][l] = 0
                 /\ spc'[s] \in {"slots", "call"} => \A d \in local'[s] : slots[d] # Owned(l)
                 /\ spc'[s] = "call" => slots[First(s)'].owner # l
    BY <1>1, <2>3, <2>4 DEF Spared
  <2>6. CASE CopySlots(s)
    <3>1. /\ spc'[s] = "slots" /\ called' = called /\ local'[s] = Sig(at[s], key[s])
      BY <1>1, <2>6 DEF CopySlots, Rest, Sig
    <3>2. ASSUME NEW d \in local'[s] PROVE slots[d] # Owned(l)
      <4>1. slots[d].owner[2] = key[s]
        BY <2>2, <3>1, <3>2 DEF Places
      <4>2. CASE l[2] = key[s]
        BY <2>3, <3>1, <3>2, <4>2 DEF Spared
      <4>3. CASE l[2] # key[s]
        <5>1. slots[d].owner # l
          BY <4>1, <4>3
        <5> QED BY <5>1 DEF Owned
      <4> QED BY <4>2, <4>3
    <3> QED BY <2>3, <3>1, <3>2 DEF Spared
  <2>7. CASE TestSlot(s)
    <3>1. /\ spc[s] = "slots" /\ local[s] # {} /\ called' = called /\ local'[s] \subseteq local[s]
          /\ spc'[s] = "call" => slots[First(s)].connected /\ local' = local
      BY <1>1, <2>7 DEF TestSlot, Rest
    <3>2. ASSUME spc'[s] = "call" PROVE slots[First(s)'].owner # l
      <4>1. First(s)' = First(s)
        BY <3>1, <3>2 DEF First
      <4>2. slots[First(s)] # Owned(l)
        BY <2>2, <2>3, <3>1 DEF Spared
      <4> QED BY <2>2, <3>1, <3>2, <4>1, <4>2, Basics
    <3> QED BY <2>3, <3>1, <3>2 DEF Spared
  <2>8. CASE Called(s)
    <3>1. /\ spc[s] = "call" /\ spc'[s] = "slots" /\ local[s] # {} /\ local'[s] \subseteq local[s]
      BY <1>1, <2>8 DEF Called, Rest, Run
    <3>2. slots[First(s)].owner # l /\ slots[First(s)].owner \in Listeners
      BY <2>2, <2>3, <3>1, Basics DEF Spared
    <3>3. called'[s][l] = called[s][l]
      BY <1>1, <2>3, <2>8, <3>2 DEF Called, Rest
    <3> QED BY <2>3, <3>1, <3>3 DEF Spared
  <2>9. CASE ClearDisconnectedSlots(s) \/ ReadLock(s)
    <3>1. spc'[s] \in {"lock", "unlock", "copy"} /\ called' = called
      BY <1>1, <2>9 DEF ClearDisconnectedSlots, ReadLock, Rest
    <3> QED BY <2>3, <3>1 DEF Spared
  <2> QED BY <1>4, <2>6, <2>7, <2>8, <2>9
<1> QED BY <1>2, <1>3, <1>4 DEF Sending

LEMMA SenderSpares ==
  ASSUME Types, Turns, Places, Conns, Running, Sparing, NEW s \in Senders, Sending(s)
  PROVE  Sparing'
<1>1. Lists /\ SFrame(s)
  BY SendingDoes
<1>2. ASSUME NEW q \in Senders, q # s PROVE Spare(q)'
  <2>1. /\ spc'[q] = spc[q] /\ at'[q] = at[q] /\ key'[q] = key[q] /\ local'[q] = local[q]
        /\ called'[q] = called[q] /\ never'[q] = never[q] /\ status' = status /\ slots' = slots
        /\ \A h \in 1..Len(handlers), k \in Keys : Sig(h, k)' \subseteq Sig(h, k)
    BY <1>1, <1>2 DEF SFrame
  <2>2. Spare(q)
    BY SparesAre
  <2>3. ASSUME spc[q] # "idle", NEW l \in never'[q]
        PROVE  /\ status'[l] \in {"off", "going"}
               /\ \A g, k : g = at[q] /\ k = l[2] => \A d \in Sig(g, k)' : slots'[d] # Owned(l)
    <3>1. at[q] \in 1..Len(handlers) /\ l \in Listeners /\ l[2] \in Keys /\ l \in never[q]
      BY <2>1, <2>3, RunAt, RestTyped, Basics DEF Rest
    <3>2. Spared(q, l)
      BY <2>2, <2>3, <3>1 DEF Spare
    <3> QED BY <2>1, <3>1, <3>2 DEF Spared
  <2> QED BY <1>1, <2>1, <2>2, <2>3, SpareStays
<1> QED BY <1>2, OwnSpare DEF Sparing, Spare, Spared

-----------------------------------------------------------------------------
(* The inductive invariant *)

LEMMA InitIInv == Init => IInv
<1> SUFFICES ASSUME Init PROVE IInv
  OBVIOUS
<1> USE DEF Init
<1>1. /\ handlers = <<>> /\ slots = <<>> /\ Len(handlers) = 0 /\ Len(slots) = 0
      /\ DOMAIN handlers = {} /\ DOMAIN slots = {}
  OBVIOUS
<1>2. todo \in [Receivers -> Seq(CallType)] /\ \A r \in Receivers : Orderly(todo[r])
  BY ListenersAssumption, PlansAssumption DEF CallType
<1>3. All \in Keys /\ Listeners = Receivers \X Keys
  BY DEF Keys, Listeners
<1>4. /\ left \in [Senders -> Nat] /\ called \in [Senders -> [Listeners -> Nat]]
      /\ local \in [Senders -> SUBSET DOMAIN slots]
  BY <1>1, ListenersAssumption
<1>5. TypeOK
  <2>1. slots \in Seq([owner : Listeners, connected : BOOLEAN])
    BY <1>1
  <2>2. table \in 0..Len(handlers) /\ is_shutdown \in BOOLEAN
    <3>1. table = 0 /\ is_shutdown = FALSE
      OBVIOUS
    <3>2. 0 \in 0..0
      OBVIOUS
    <3> QED BY <1>1, <3>1, <3>2
  <2>3. pc \in [Receivers -> {"idle", "set", "connect", "record", "disconnect"}]
        /\ mine \in [Receivers -> 0 .. Len(handlers)] /\ enabled \in [Receivers -> BOOLEAN]
    BY <1>1
  <2>4. spc \in [Senders -> {"idle", "copy", "slots", "call", "lock", "unlock"}]
        /\ at \in [Senders -> 0 .. Len(handlers)] /\ key \in [Senders -> Keys]
    BY <1>1, <1>3
  <2> QED BY <1>1, <1>2, <1>4, <2>1, <2>2, <2>3, <2>4 DEF TypeOK, CallType
<1>6. Shapes
  <2>1. handlers \in Seq([signal : [Keys -> SUBSET Nat], conns : [Listeners -> Nat],
                          readers : SUBSET Senders])
    BY <1>1
  <2>2. table = Len(handlers)
    BY <1>1
  <2>3. status \in [Listeners -> {"off", "coming", "on", "going"}]
    OBVIOUS
  <2>4. must \in [Senders -> SUBSET Listeners] /\ never \in [Senders -> SUBSET Listeners]
    OBVIOUS
  <2> QED BY <2>1, <2>2, <2>3, <2>4 DEF Shapes
<1>7. Turns
  <2> SUFFICES ASSUME NEW r \in Receivers PROVE Turn(r)
    BY DEF Turns
  <2>1. pc[r] = "idle" /\ \A k \in Keys : status[<<r, k>>] = "off"
    BY <1>3
  <2> QED BY <1>2, <1>3, <2>1 DEF Turn
<1>8. Places
  BY <1>1 DEF Places
<1>9. Conns
  BY <1>1 DEF Conns
<1>10. Running
  BY DEF Running
<1>11. Reaching /\ Sparing
  BY DEF Reaching, Sparing
<1> QED BY <1>5, <1>6, <1>7, <1>8, <1>9, <1>10, <1>11 DEF IInv

\* Shutdown, and a step that changes nothing.
LEMMA QuietStep ==
  ASSUME IInv, UNCHANGED <<table, handlers, slots, receivers, runs, history>>,
         is_shutdown' = is_shutdown \/ is_shutdown' = TRUE
  PROVE  IInv'
<1> USE DEF receivers, runs, history, IInv
<1>0. Types /\ is_shutdown \in BOOLEAN
  BY DEF Types, TypeOK
<1>1. is_shutdown' \in BOOLEAN /\ (is_shutdown => is_shutdown')
  BY <1>0
<1>2. /\ \A h, k : Sig(h, k)' = Sig(h, k)
      /\ \A h, l : Con(h, l)' = Con(h, l)
      /\ \A h : Rd(h)' = Rd(h)
  BY DEF Sig, Con, Rd
<1>3. /\ \A r : Listener(r)' = Listener(r)
      /\ \A s : First(s)' = First(s)
      /\ \A s, l : Ahead(s, l)' <=> Ahead(s, l)
      /\ \A l, h : Recording(l, h)' <=> Recording(l, h)
      /\ \A d, l : Newest(d, l)' <=> Newest(d, l)
  BY DEF Listener, First, Ahead, Recording, Newest
<1>4. TypeOK'
  BY <1>1 DEF TypeOK
<1>5. Shapes'
  BY DEF Shapes
<1>6. Turns'
  BY <1>3 DEF Turns, Turn
<1>7. Places'
  BY <1>2 DEF Places
<1>8. Conns'
  BY <1>1, <1>2, <1>3 DEF Conns
<1>9. Running'
  BY <1>2, <1>3 DEF Running
<1>10. Reaching'
  BY <1>1, <1>2, <1>3 DEF Reaching
<1>11. Sparing'
  BY <1>2, <1>3 DEF Sparing
<1> QED BY <1>4, <1>5, <1>6, <1>7, <1>8, <1>9, <1>10, <1>11

LEMMA StepIInv == IInv /\ [Next]_vars => IInv'
<1> SUFFICES ASSUME IInv, [Next]_vars PROVE IInv'
  OBVIOUS
<1>1. /\ Types /\ TypeOK /\ Shapes /\ Turns /\ Places /\ Conns /\ Running /\ Reaching /\ Sparing
  BY DEF IInv, Types
<1>2. ASSUME NEW r \in Receivers, Enabling(r) PROVE IInv'
  <2>1. Types'
    BY <1>1, <1>2, ReceiverTypes
  <2>2. Turns'
    BY <1>1, <1>2, ReceiverDoes, TurnsKeep
  <2>3. Places' /\ Conns'
    BY <1>1, <1>2, ReceiverPlaces, ReceiverConns
  <2>4. Running' /\ Reaching' /\ Sparing'
    BY <1>1, <1>2, ReceiverRuns, ReceiverReaches, ReceiverSpares
  <2> QED BY <2>1, <2>2, <2>3, <2>4 DEF IInv, Types
<1>3. ASSUME NEW s \in Senders, Sending(s) PROVE IInv'
  <2>1. Types'
    BY <1>1, <1>3, SenderTypes
  <2>2. Turns'
    <3>1. UNCHANGED <<todo, pc, mine, enabled, status>>
      BY <1>1, <1>3, SendingDoes DEF SFrame, receivers
    <3>2. \A r : Listener(r)' = Listener(r)
      BY <3>1 DEF Listener
    <3> QED BY <1>1, <3>1, <3>2 DEF Turns, Turn
  <2>3. Places' /\ Conns'
    BY <1>1, <1>3, SenderPlaces, SenderConns
  <2>4. Running' /\ Reaching' /\ Sparing'
    BY <1>1, <1>3, SenderRuns, SenderReaches, SenderSpares
  <2> QED BY <2>1, <2>2, <2>3, <2>4 DEF IInv, Types
<1>4. ASSUME Shutdown \/ UNCHANGED vars PROVE IInv'
  <2>1. /\ UNCHANGED <<table, handlers, slots, receivers, runs, history>>
        /\ is_shutdown' = is_shutdown \/ is_shutdown' = TRUE
    BY <1>4 DEF Shutdown, vars, dispatcher
  <2> QED BY <2>1, QuietStep
<1> QED BY <1>2, <1>3, <1>4 DEF Next, Enabling, Sending

\* Every state of the dispatcher, its receivers and its transmitters satisfies
\* the invariant, for all receivers, senders and plans.
THEOREM Inductive == Spec => []IInv
BY InitIInv, StepIInv, PTL DEF Spec

\* Every variable has its type, and a connection that is recorded is that of a
\* slot which is in its signal: Disconnect of the ListenerHandler finds it.
THEOREM TypeCorrect == Spec => []TypeOK
<1>1. IInv => TypeOK
  BY DEF IInv
<1> QED BY <1>1, Inductive, PTL

\* A message reaches every listener that was enabled when it was dispatched,
\* exactly once, whoever connects or disconnects while the Run goes on.
THEOREM EveryoneReached == Spec => []RunsReachAll
<1>1. IInv => RunsReachAll
  <2> SUFFICES ASSUME IInv, NEW s \in Senders, spc[s] = "unlock", NEW l \in must[s]
               PROVE  called[s][l] = 1
    BY DEF RunsReachAll
  <2>1. key[s] = s /\ s # All
    BY ListenersAssumption DEF IInv, Running
  <2>2. ~Ahead(s, l)
    BY <2>1 DEF Ahead
  <2> QED BY <2>2 DEF IInv, Reaching
<1> QED BY <1>1, Inductive, PTL

\* A message does not reach a listener that was disabled before it was
\* dispatched, and a listener for one sender is not being called any more when
\* its Disable has returned.
THEOREM NobodyStale == Spec => []NoStaleCalls
<1>1. IInv => NoStaleCalls
  <2> SUFFICES ASSUME IInv, NEW s \in Senders
               PROVE  /\ \A l \in never[s] : called[s][l] = 0
                      /\ spc[s] = "call" /\ key[s] = s /\ at[s] = table /\ ~is_shutdown =>
                           status[slots[First(s)].owner] # "off"
    BY DEF NoStaleCalls
  <2>0. Types /\ Turns /\ Conns /\ Running /\ Sparing /\ Rest
    BY RestTyped DEF IInv, Types
  <2>1. ASSUME NEW l \in never[s] PROVE called[s][l] = 0
    <3>1. l \in Listeners
      BY <2>0 DEF Rest
    <3> QED BY <2>0, <3>1 DEF Running, Sparing
  <2>2. ASSUME spc[s] = "call", key[s] = s, at[s] = table, ~is_shutdown,
               NEW d, d = First(s), NEW l, l = slots[d].owner, status[l] = "off"
        PROVE  FALSE
    <3>1. /\ at[s] \in 1..Len(handlers) /\ d \in local[s] /\ d \in 1..Len(slots)
          /\ slots[d].connected /\ slots[d].owner[2] = s
      BY <2>0, <2>2, RunAt DEF Running
    <3>2. d \in Sig(table, l[2]) /\ l \in Listeners /\ slots[d] = Owned(l) /\ l[1] \in Receivers
      BY <2>0, <2>2, <3>1, Basics DEF Running
    <3>3. ~Recording(l, table)
      BY <2>0, <2>2, <3>2 DEF Recording, Turns, Turn
    <3>4. Con(table, l) = d
      BY <2>0, <2>2, <3>1, <3>2, <3>3, ConnsAre DEF Single
    <3>5. Con(table, l) = 0
      BY <2>0, <2>2, <3>1, <3>2, ConnsAre DEF Absent
    <3> QED BY <3>1, <3>4, <3>5
  <2> QED BY <2>1, <2>2
<1> QED BY <1>1, Inductive, PTL
=============================================================================
