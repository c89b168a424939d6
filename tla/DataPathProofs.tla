--------------------------- MODULE DataPathProofs ---------------------------
(***************************************************************************)
(* For any channels, writers and readers, any fusion and any depth of the  *)
(* rings, the default of one message and the degenerate zero included: a   *)
(* ring is a window on the log of its channel, the reader reads that log   *)
(* in order, fused messages accompany each other in order, and nothing is  *)
(* left unseen once the writers have returned.                             *)
(***************************************************************************)
EXTENDS DataPath, SequenceTheorems, TLAPS

Shapes ==
  /\ DOMAIN ring = Readers /\ DOMAIN log = Readers /\ DOMAIN index = Readers
  /\ DOMAIN stage = Readers /\ DOMAIN got = Readers /\ DOMAIN mark = Writers

\* The ring holds the newest messages of the log, the one at head included.
IsWindow(n, b, l) ==
  /\ b.tail = Len(l)
  /\ b.head = IF Len(l) > n THEN Len(l) - n ELSE 0
  /\ \A i \in 1..Len(l) : i >= b.head => b.slots[i % (n + 1)] = l[i]

Windows == \A r \in Readers, c \in Channels : IsWindow(Size[r], ring[r][c], log[r][c])

\* A task runs once its reader is listed at the notifier of its channel.
Listed(r) == \E j \in 1..Len(notifies[Main(r)]) : notifies[Main(r)][j] = r

Creation ==
  \A r \in Readers :
    /\ pc[r] \notin {"none", "gone"} => stage[r] >= Len(Inputs[r]) + 2
    /\ stage[r] > Len(Inputs[r]) => Listed(r)

\* A message under way, in the hands of its writer, in a log or with a
\* reader, was begun after what its mark counts had been written.
Marks ==
  \A r \in Readers : \A k \in DOMAIN Inputs[r] \ {1} :
    LET written == Len(log[r][Inputs[r][k]])
    IN  /\ \A w \in Writers : wpc[w] # "idle" => mark[w][r][k] <= written
        /\ \A c \in Channels : \A i \in 1..Len(log[r][c]) : log[r][c][i].mark[k] <= written
        /\ pc[r] \in {"latest", "call"} => got[r][1].mark[k] <= written

\* A Dispatch has a channel and the marks of its message.
Dispatching ==
  \A w \in Writers : wpc[w] # "idle" =>
    /\ todo[w] # <<>>
    /\ \A r \in Readers : mark[w][r] \in [DOMAIN Inputs[r] \ {1} -> Nat]

\* What a TryFetch under way has found so far.
Fetching ==
  \A r \in Readers :
    /\ pc[r] = "latest" => index[r] \in 1 .. ring[r][Main(r)].tail
    /\ pc[r] = "call" => Len(got[r]) = Len(Inputs[r])
    /\ pc[r] \in {"latest", "call"} =>
         /\ got[r] # <<>> /\ Len(got[r]) <= Len(Inputs[r])
         /\ got[r][1] \in Entries(r)
         /\ \A k \in 2..Len(got[r]) :
              LET l == log[r][Inputs[r][k]]
              IN  \E i \in 1..Len(l) : l[i] = got[r][k] /\ i >= got[r][1].mark[k]

\* A writer will still come to the notifier of r.
WillNotify(w, r) ==
  /\ wpc[w] # "idle" /\ Channel(w) = Main(r)
  /\ wpc[w] = "notify" => \E j \in 1..Len(notifies[Main(r)]) :
                            notifies[Main(r)][j] = r /\ j >= at[w]

\* A task that waits with something unseen will be notified.
Heard ==
  \A r \in Readers :
    pc[r] = "wait" /\ ~updated[r] /\ ~unheard[r] =>
      \/ got[r] = <<>>
      \/ index[r] = Len(log[r][Main(r)]) + 1
      \/ log[r][Main(r)] = <<>>
      \/ \E w \in Writers : WillNotify(w, r)

IInv == TypeOK /\ Shapes /\ Windows /\ Creation /\ Marks /\ Dispatching /\ Fetching /\ Heard

-----------------------------------------------------------------------------
(* Rings *)

LEMMA DivMod ==
  \A a \in Nat, n \in Nat \ {0} :
    a = n * (a \div n) + (a % n) /\ a \div n \in Nat /\ a % n \in 0..(n - 1)
OBVIOUS

LEMMA ModRange == \A a, n \in Nat : a % (n + 1) \in 0..n
<1> SUFFICES ASSUME NEW a \in Nat, NEW n \in Nat PROVE a % (n + 1) \in 0..n
  OBVIOUS
<1>1. n + 1 \in Nat \ {0} /\ (n + 1) - 1 = n
  OBVIOUS
<1> QED BY <1>1, DivMod

\* Two positions less than a ring apart do not share a slot.
LEMMA ModApart ==
  ASSUME NEW n \in Nat \ {0}, NEW a \in Nat, NEW b \in Nat, a < b, b - a < n
  PROVE  a % n # b % n
<1> DEFINE x == a \div n
           y == b \div n
<1>1. a = n * x + (a % n) /\ b = n * y + (b % n) /\ x \in Int /\ y \in Int
  BY DivMod
<1> SUFFICES ASSUME a % n = b % n PROVE FALSE
  OBVIOUS
<1> HIDE DEF x, y
<1>2. b - a = n * (y - x)
  BY <1>1
<1>3. n * (y - x) >= n \/ n * (y - x) <= 0
  BY <1>1
<1> QED BY <1>1, <1>2, <1>3

\* A position a whole ring later does.
LEMMA ModAround ==
  ASSUME NEW a \in Nat, NEW n \in Nat \ {0}
  PROVE  (a + n) % n = a % n
<1> DEFINE x == a \div n
           y == (a + n) \div n
           r == a % n
           s == (a + n) % n
<1>1. a = n * x + r /\ x \in Nat /\ r \in 0..(n - 1)
  BY DivMod
<1>2. a + n = n * y + s /\ y \in Nat /\ s \in 0..(n - 1)
  <2>1. a + n \in Nat
    OBVIOUS
  <2> QED BY <2>1, DivMod
<1> HIDE DEF x, y, r, s
<1>3. r - s = n * (y - x - 1)
  BY <1>1, <1>2
<1>4. n * (y - x - 1) >= n \/ n * (y - x - 1) <= -n \/ n * (y - x - 1) = 0
  BY <1>1, <1>2
<1> QED BY <1>1, <1>2, <1>3, <1>4 DEF r, s

\* CacheBuffer::Fill moves the window on by one message.
LEMMA FilledIsWindow ==
  ASSUME NEW r \in Readers, NEW b \in Rings(r), NEW l \in Seq(Entries(r)),
         NEW m \in Entries(r), IsWindow(Size[r], b, l)
  PROVE  Filled(r, b, m) \in Rings(r) /\ IsWindow(Size[r], Filled(r, b, m), Append(l, m))
<1> DEFINE n == Size[r]
           t == Len(l)
           s == (t + 1) % (n + 1)
           f == Filled(r, b, m)
           k == Append(l, m)
<1>1. n \in Nat /\ t \in Nat /\ n + 1 \in Nat \ {0} /\ t + 1 \in Nat
  BY DataAssumption
<1>2. Len(k) = t + 1 /\ k[t + 1] = m /\ \A i \in 1..t : k[i] = l[i]
  OBVIOUS
<1>3. s \in 0..n
  BY <1>1, ModRange
<1>4. /\ f.tail = t + 1
      /\ f.head = IF t + 1 > n THEN t + 1 - n ELSE 0
      /\ f.slots = [b.slots EXCEPT ![s] = m]
      /\ f \in Rings(r)
  <2>1. b \in [head : Nat, tail : Nat, slots : [0..n -> Entries(r) \cup {None}]]
    BY DEF Rings
  <2>2. [b.slots EXCEPT ![s] = m] \in [0..n -> Entries(r) \cup {None}]
    BY <1>3, <2>1
  <2>3. CASE t < n
    <3>1. ~Full(r, b) /\ b.head = 0
      BY <1>1, <2>3 DEF Full, capacity, IsWindow
    <3>2. f = [b EXCEPT !.tail = t + 1, !.slots = [b.slots EXCEPT ![s] = m]]
      BY <3>1 DEF Filled, IsWindow, GetIndex, capacity
    <3> HIDE DEF f, s, n
    <3>3. f.head = b.head /\ f.tail = t + 1 /\ f.slots = [b.slots EXCEPT ![s] = m]
      BY <2>1, <3>2
    <3>4. f \in [head : Nat, tail : Nat, slots : [0..n -> Entries(r) \cup {None}]]
      BY <1>1, <2>1, <2>2, <3>2
    <3> QED BY <1>1, <2>3, <3>1, <3>3, <3>4 DEF Rings, n
  <2>4. CASE t >= n
    <3>1. Full(r, b) /\ b.head = t - n /\ b.head \in Nat
      BY <1>1, <2>4 DEF Full, capacity, IsWindow
    <3>2. s = b.head % (n + 1)
      <4>1. t + 1 = b.head + (n + 1)
        BY <1>1, <3>1
      <4> QED BY <1>1, <3>1, <4>1, ModAround
    <3>3. f = [head |-> t - n + 1, tail |-> t + 1, slots |-> [b.slots EXCEPT ![s] = m]]
      BY <3>1, <3>2 DEF Filled, IsWindow, GetIndex, capacity
    <3>4. f \in Rings(r)
      BY <1>1, <2>2, <2>4, <3>3 DEF Rings
    <3> QED BY <1>1, <2>4, <3>3, <3>4
  <2> QED BY <1>1, <2>3, <2>4
<1>5. ASSUME NEW i \in 1..(t + 1), i >= f.head
      PROVE  f.slots[i % (n + 1)] = k[i]
  <2>1. i \in Nat /\ i % (n + 1) \in 0..n
    BY <1>1, ModRange
  <2>2. b.slots \in [0..n -> Entries(r) \cup {None}]
    BY DEF Rings
  <2>3. CASE i = t + 1
    BY <1>2, <1>3, <1>4, <2>1, <2>2, <2>3
  <2>4. CASE i < t + 1
    <3>1. i % (n + 1) # s
      <4>1. i < t + 1 /\ (t + 1) - i < n + 1
        BY <1>1, <1>4, <1>5, <2>1, <2>4
      <4> HIDE DEF f, k, n, t
      <4> QED BY <1>1, <2>1, <4>1, ModApart
    <3>2. i \in 1..Len(l) /\ i >= b.head
      BY <1>1, <1>4, <1>5, <2>1, <2>4 DEF IsWindow
    <3>3. b.slots[i % (n + 1)] = l[i]
      BY <3>2 DEF IsWindow
    <3> HIDE DEF f, k, s, n
    <3> QED BY <1>2, <1>4, <2>1, <2>2, <3>1, <3>2, <3>3
  <2> QED BY <1>1, <2>3, <2>4
<1>6. Len(k) = t + 1 /\ t \in Nat /\ n \in Nat
  BY <1>1, <1>2
<1>7. f \in Rings(r)
  BY <1>4
<1> HIDE DEF f, k, n, t
<1>8. IsWindow(n, f, k)
  BY ONLY <1>4, <1>5, <1>6 DEF IsWindow
<1> QED BY <1>7, <1>8 DEF f, k, n

-----------------------------------------------------------------------------
(* The initial state *)

LEMMA InputsTyped ==
  \A r \in Readers : /\ Len(Inputs[r]) \in Nat \ {0}
                     /\ DOMAIN Inputs[r] = 1..Len(Inputs[r])
                     /\ \A k \in 1..Len(Inputs[r]) : Inputs[r][k] \in Channels
                     /\ Main(r) \in Channels
<1> SUFFICES ASSUME NEW r \in Readers
             PROVE  /\ Len(Inputs[r]) \in Nat \ {0}
                    /\ DOMAIN Inputs[r] = 1..Len(Inputs[r])
                    /\ \A k \in 1..Len(Inputs[r]) : Inputs[r][k] \in Channels
                    /\ Main(r) \in Channels
  OBVIOUS
<1>1. Inputs[r] \in Seq(Channels) /\ Inputs[r] # <<>>
  BY DataAssumption
<1> QED BY <1>1 DEF Main

LEMMA InitIInv == Init => IInv
<1> SUFFICES ASSUME Init PROVE IInv
  OBVIOUS
<1> USE InputsTyped DEF Init
<1>1. \A r \in Readers, c \in Channels :
         ring[r][c] = [head |-> 0, tail |-> 0, slots |-> [i \in 0..Size[r] |-> None]]
  OBVIOUS
<1>2. PICK p \in Plans : /\ todo = p.writes
                         /\ pc = [r \in Readers |-> IF r \in p.readers THEN "none" ELSE "gone"]
  OBVIOUS
<1>3. p.writes \in [Writers -> Seq(Channels)]
  BY DataAssumption
<1>4. \A r \in Readers : ring[r] \in [Channels -> Rings(r)]
  BY <1>1 DEF Rings
<1>5. TypeOK
  <2>1. \A r \in Readers : /\ log[r] \in [Channels -> Seq(Entries(r))]
                           /\ index[r] = 0 /\ ring[r][Main(r)].tail = 0
                           /\ stage[r] = 0 /\ got[r] \in Seq(Entries(r) \cup {Nothing})
    BY <1>1
  <2>2. \A r \in Readers : index[r] \in 0 .. ring[r][Main(r)].tail + 1 /\ stage[r] \in 0 .. Len(Inputs[r]) + 3
    BY <2>1
  <2>3. /\ buffers \in [Channels -> Seq(Readers)] /\ notifies \in [Channels -> Seq(Readers)]
        /\ pc \in [Readers -> {"none", "ready", "fetch", "latest", "call", "wait", "gone"}]
        /\ updated \in [Readers -> BOOLEAN] /\ unheard \in [Readers -> BOOLEAN]
        /\ wpc \in [Writers -> {"idle", "fill", "notify"}] /\ at \in [Writers -> Nat \ {0}]
        /\ todo \in [Writers -> Seq(Channels)] /\ shutdown \in BOOLEAN
    <3>1. todo \in [Writers -> Seq(Channels)]
      BY <1>2, <1>3
    <3>2. pc \in [Readers -> {"none", "ready", "fetch", "latest", "call", "wait", "gone"}]
      BY <1>2
    <3>3. shutdown = FALSE
      OBVIOUS
    <3>4. updated \in [Readers -> BOOLEAN] /\ unheard \in [Readers -> BOOLEAN]
      OBVIOUS
    <3>5. wpc \in [Writers -> {"idle", "fill", "notify"}] /\ at \in [Writers -> Nat \ {0}]
      OBVIOUS
    <3>6. buffers \in [Channels -> Seq(Readers)] /\ notifies \in [Channels -> Seq(Readers)]
      OBVIOUS
    <3> HIDE DEF Init
    <3> QED BY <3>1, <3>2, <3>3, <3>4, <3>5, <3>6
  <2> QED BY <1>4, <2>1, <2>2, <2>3 DEF TypeOK
<1>6. Shapes
  BY DEF Shapes
<1>7. Windows
  <2>1. \A r \in Readers : Size[r] \in Nat
    BY DataAssumption
  <2>2. \A r \in Readers, c \in Channels : log[r][c] = <<>> /\ ring[r][c].tail = 0 /\ ring[r][c].head = 0
    BY <1>1
  <2>3. ASSUME NEW r \in Readers, NEW c \in Channels PROVE IsWindow(Size[r], ring[r][c], log[r][c])
    <3>1. Size[r] \in Nat /\ Len(log[r][c]) = 0 /\ 1..Len(log[r][c]) = {}
      BY <2>1, <2>2
    <3> QED BY <2>2, <3>1 DEF IsWindow
  <2> QED BY <2>3 DEF Windows
<1>8. Creation /\ Marks /\ Dispatching /\ Fetching /\ Heard
  BY <1>2 DEF Creation, Marks, Dispatching, Fetching, Heard
<1> QED BY <1>5, <1>6, <1>7, <1>8 DEF IInv

-----------------------------------------------------------------------------
(* Logs and rings: only Fill touches them *)

\* What a turn of the loop of Dispatch does.
LEMMA FillWrites ==
  ASSUME IInv, NEW w \in Writers, Fill(w)
  PROVE  \/ UNCHANGED <<ring, log>>
         \/ \E r \in Readers, c \in Channels : \E m \in Entries(r) :
              /\ c = Channel(w) /\ m.mark = mark[w][r]
              /\ ring' = [ring EXCEPT ![r][c] = Filled(r, ring[r][c], m)]
              /\ log' = [log EXCEPT ![r][c] = Append(log[r][c], m)]
<1> USE DEF IInv
<1>1. wpc[w] = "fill" /\ at[w] \in Nat \ {0} /\ todo[w] \in Seq(Channels) /\ todo[w] # <<>>
  BY DEF Fill, TypeOK, Dispatching
<1> DEFINE c == Channel(w)
           r == buffers[c][at[w]]
<1>2. c \in Channels
  BY <1>1 DEF Channel
<1>3. buffers[c] \in Seq(Readers)
  BY <1>2 DEF TypeOK
<1>4. at[w] \in 1..Len(buffers[c])
  <2>1. at[w] <= Len(buffers[c])
    BY DEF Fill
  <2>2. at[w] \in Nat \ {0} /\ Len(buffers[c]) \in Nat
    BY <1>1, <1>3
  <2> QED BY ONLY <2>1, <2>2
<1>5. r \in Readers
  BY <1>3, <1>4
<1>6. Message(w, r) \in Entries(r) /\ Message(w, r).mark = mark[w][r]
  <2> HIDE DEF r
  <2>1. mark[w][r] \in [DOMAIN Inputs[r] \ {1} -> Nat]
    BY <1>1, <1>5 DEF Dispatching
  <2>2. Len(todo[w]) \in Nat
    BY <1>1
  <2> QED BY <2>1, <2>2 DEF Message, Entries
<1>7. \/ UNCHANGED <<ring, log>>
      \/ /\ ring' = [ring EXCEPT ![r][c] = Filled(r, ring[r][c], Message(w, r))]
         /\ log' = [log EXCEPT ![r][c] = Append(log[r][c], Message(w, r))]
  BY DEF Fill
<1>8. c = Channel(w)
  OBVIOUS
<1> HIDE DEF c, r
<1> QED BY ONLY <1>2, <1>5, <1>6, <1>7, <1>8

LEMMA Updated ==
  ASSUME NEW f, DOMAIN f = Readers, \A r \in Readers : DOMAIN f[r] = Channels,
         NEW r \in Readers, NEW c \in Channels, NEW v, NEW g, g = [f EXCEPT ![r][c] = v]
  PROVE  /\ DOMAIN g = Readers
         /\ \A q \in Readers : DOMAIN g[q] = Channels
         /\ \A q \in Readers, d \in Channels : g[q][d] = IF q = r /\ d = c THEN v ELSE f[q][d]
OBVIOUS

\* The logs and the rings after a step.
LEMMA Growth ==
  ASSUME IInv, [Next]_vars
  PROVE  /\ DOMAIN log' = Readers /\ DOMAIN ring' = Readers
         /\ \A r \in Readers : /\ ring'[r] \in [Channels -> Rings(r)]
                               /\ log'[r] \in [Channels -> Seq(Entries(r))]
         /\ Windows'
         /\ \A r \in Readers, c \in Channels :
              \/ log'[r][c] = log[r][c]
              \/ \E w \in Writers, m \in Entries(r) :
                   /\ wpc[w] = "fill" /\ c = Channel(w) /\ m.mark = mark[w][r]
                   /\ log'[r][c] = Append(log[r][c], m)
<1>1. DOMAIN log = Readers /\ DOMAIN ring = Readers /\ Windows
  BY DEF IInv, Shapes
<1>2. \A r \in Readers : ring[r] \in [Channels -> Rings(r)] /\ log[r] \in [Channels -> Seq(Entries(r))]
  BY DEF IInv, TypeOK
<1>3. CASE UNCHANGED <<ring, log>>
  BY <1>1, <1>2, <1>3 DEF Windows
<1>4. ASSUME NEW w \in Writers, Fill(w), NEW r \in Readers, NEW c \in Channels,
             NEW m \in Entries(r), c = Channel(w), m.mark = mark[w][r],
             ring' = [ring EXCEPT ![r][c] = Filled(r, ring[r][c], m)],
             log' = [log EXCEPT ![r][c] = Append(log[r][c], m)]
      PROVE  /\ DOMAIN log' = Readers /\ DOMAIN ring' = Readers
             /\ \A q \in Readers : /\ ring'[q] \in [Channels -> Rings(q)]
                                   /\ log'[q] \in [Channels -> Seq(Entries(q))]
             /\ Windows'
             /\ \A q \in Readers, d \in Channels :
                  \/ log'[q][d] = log[q][d]
                  \/ \E v \in Writers, n \in Entries(q) :
                       /\ wpc[v] = "fill" /\ d = Channel(v) /\ n.mark = mark[v][q]
                       /\ log'[q][d] = Append(log[q][d], n)
  <2>1. /\ Filled(r, ring[r][c], m) \in Rings(r)
        /\ IsWindow(Size[r], Filled(r, ring[r][c], m), Append(log[r][c], m))
    BY <1>1, <1>2, FilledIsWindow DEF Windows
  <2>2. Append(log[r][c], m) \in Seq(Entries(r))
    BY <1>2
  <2>3. /\ \A q \in Readers : DOMAIN log[q] = Channels /\ DOMAIN ring[q] = Channels
    BY <1>2
  <2>4. /\ DOMAIN ring' = Readers
        /\ \A q \in Readers : DOMAIN ring'[q] = Channels
        /\ \A q \in Readers, d \in Channels :
             ring'[q][d] = IF q = r /\ d = c THEN Filled(r, ring[r][c], m) ELSE ring[q][d]
    BY <1>1, <1>4, <2>3, Updated
  <2>5. /\ DOMAIN log' = Readers
        /\ \A q \in Readers : DOMAIN log'[q] = Channels
        /\ \A q \in Readers, d \in Channels :
             log'[q][d] = IF q = r /\ d = c THEN Append(log[r][c], m) ELSE log[q][d]
    BY <1>1, <1>4, <2>3, Updated
  <2>6. \A q \in Readers : ring'[q] \in [Channels -> Rings(q)]
    BY <1>1, <1>2, <1>4, <2>1
  <2>7. \A q \in Readers : log'[q] \in [Channels -> Seq(Entries(q))]
    BY <1>1, <1>2, <1>4, <2>2
  <2>8. Windows'
    BY <1>1, <2>1, <2>4, <2>5 DEF Windows
  <2>9. wpc[w] = "fill"
    BY <1>4 DEF Fill
  <2>10. ASSUME NEW q \in Readers, NEW d \in Channels, log'[q][d] # log[q][d]
         PROVE  \E v \in Writers, n \in Entries(q) :
                  /\ wpc[v] = "fill" /\ d = Channel(v) /\ n.mark = mark[v][q]
                  /\ log'[q][d] = Append(log[q][d], n)
    <3>1. q = r /\ d = c
      BY <2>5, <2>10
    <3> QED BY <1>4, <2>5, <2>9, <3>1
  <2> QED BY <2>4, <2>5, <2>6, <2>7, <2>8, <2>10
<1>5. \/ UNCHANGED <<ring, log>>
      \/ \E w \in Writers : Fill(w)
  BY DEF Next, vars, reading, Begin, Refuse, Notify, Callback, Return, Shutdown, AddBuffer,
         AddNotifier, DispatchTask, RegisterNotifyCallback, Release, Reads, Resume, Fetch,
         Latest, Call, Yield
<1> QED BY <1>3, <1>4, <1>5, FillWrites

LEMMA LogsTyped ==
  ASSUME IInv, NEW r \in Readers, NEW c \in Channels
  PROVE  /\ log[r][c] \in Seq(Entries(r)) /\ Len(log[r][c]) \in Nat /\ Size[r] \in Nat
         /\ IsWindow(Size[r], ring[r][c], log[r][c])
<1>1. log[r] \in [Channels -> Seq(Entries(r))]
  BY DEF IInv, TypeOK
<1>2. log[r][c] \in Seq(Entries(r))
  BY <1>1
<1>3. IsWindow(Size[r], ring[r][c], log[r][c])
  BY DEF IInv, Windows
<1> QED BY <1>2, <1>3, DataAssumption

LEMMA Longer ==
  ASSUME IInv, [Next]_vars, NEW r \in Readers, NEW c \in Channels
  PROVE  /\ Len(log[r][c]) \in Nat /\ Len(log'[r][c]) \in Nat
         /\ Len(log'[r][c]) >= Len(log[r][c])
         /\ \A i \in 1..Len(log[r][c]) : log'[r][c][i] = log[r][c][i]
         /\ ring[r][c].tail = Len(log[r][c]) /\ ring'[r][c].tail = Len(log'[r][c])
<1>1. log[r][c] \in Seq(Entries(r))
  BY DEF IInv, TypeOK
<1>2. /\ Windows /\ Windows'
      /\ log'[r][c] = log[r][c] \/ \E m \in Entries(r) : log'[r][c] = Append(log[r][c], m)
  BY Growth DEF IInv
<1> QED BY <1>1, <1>2 DEF Windows, IsWindow

-----------------------------------------------------------------------------
(* What a reader finds *)

\* ChannelBuffer::Fetch, in terms of the log of the channel.
LEMMA FetchFinds ==
  ASSUME IInv, NEW r \in Readers, Fetch(r)
  PROVE  LET l == log[r][Main(r)]
             h == IF Len(l) > Size[r] THEN Len(l) - Size[r] ELSE 0
         IN  \/ /\ l = <<>> \/ index[r] = Len(l) + 1
                /\ pc' = [pc EXCEPT ![r] = "wait"] /\ got' = [got EXCEPT ![r] = <<Nothing>>]
                /\ UNCHANGED index
             \/ \E p \in 1..Len(l) :
                  /\ l[p] \in Entries(r)
                  /\ (p = index[r] /\ p > h) \/ (p = Len(l) /\ (index[r] = 0 \/ index[r] <= h))
                  /\ pc' = [pc EXCEPT ![r] = "latest"] /\ got' = [got EXCEPT ![r] = <<l[p]>>]
                  /\ index' = [index EXCEPT ![r] = p]
<1> DEFINE l == log[r][Main(r)]
           h == IF Len(l) > Size[r] THEN Len(l) - Size[r] ELSE 0
           b == ring[r][Main(r)]
           p == Place(index[r], b)
<1>1. Main(r) \in Channels /\ Size[r] \in Nat /\ Nothing \notin Nat
  BY InputsTyped, DataAssumption, NoMessage
<1>2. l \in Seq(Entries(r)) /\ Len(l) \in Nat /\ index[r] \in 0..b.tail + 1
  <2>1. index[r] \in 0 .. ring[r][Main(r)].tail + 1
    BY DEF IInv, TypeOK
  <2> QED BY <1>1, <2>1, LogsTyped
<1>3. b.tail = Len(l) /\ b.head = h /\ \A i \in 1..Len(l) : i >= h => b.slots[i % (Size[r] + 1)] = l[i]
  BY <1>1 DEF IInv, Windows, IsWindow
<1> HIDE DEF b
<1>4. CASE p = Nothing
  <2>1. ~(Empty(b) \/ index[r] = b.tail + 1) => p \in Nat
    BY <1>2, <1>3 DEF Place
  <2>2. b.tail = 0 \/ index[r] = b.tail + 1
    BY <1>1, <1>4, <2>1 DEF Empty
  <2>3. l = <<>> \/ index[r] = Len(l) + 1
    BY <1>2, <1>3, <2>2
  <2> QED BY <1>4, <2>3 DEF Fetch, Goto, b
<1>5. CASE p # Nothing
  <2>1. p = IF index[r] = 0 \/ index[r] < First(b) THEN Len(l) ELSE index[r]
    BY <1>3, <1>5 DEF Place
  <2>2. Len(l) # 0 /\ index[r] # Len(l) + 1
    BY <1>3, <1>5 DEF Place, Empty
  <2>3. /\ p \in 1..Len(l)
        /\ (p = index[r] /\ p > h) \/ (p = Len(l) /\ (index[r] = 0 \/ index[r] <= h))
    <3>1. Len(l) \in Nat /\ h \in Nat /\ index[r] \in Nat /\ index[r] <= Len(l) + 1 /\ Len(l) >= 1
      BY <1>1, <1>2, <1>3, <2>2
    <3>2. p = IF index[r] = 0 \/ index[r] <= h THEN Len(l) ELSE index[r]
      BY <1>3, <2>1, <3>1 DEF First
    <3> HIDE DEF p, h, l
    <3> QED BY <2>2, <3>1, <3>2
  <2>4. p >= h
    BY <1>1, <1>2, <2>3
  <2> HIDE DEF p, h, l
  <2>5. At(r, b, p) = l[p]
    BY <1>3, <2>3, <2>4 DEF At, GetIndex, capacity
  <2>6. l[p] \in Entries(r)
    BY <1>2, <2>3
  <2>7. /\ pc' = [pc EXCEPT ![r] = "latest"] /\ got' = [got EXCEPT ![r] = <<l[p]>>]
        /\ index' = [index EXCEPT ![r] = p]
    BY <1>5, <2>5 DEF Fetch, Goto, b, p
  <2> QED BY <2>3, <2>6, <2>7 DEF l, h
<1> QED BY <1>4, <1>5

\* ChannelBuffer::Latest, likewise.
LEMMA LatestFinds ==
  ASSUME IInv, NEW r \in Readers, Latest(r)
  PROVE  LET l == log[r][Inputs[r][Len(got[r]) + 1]]
         IN  /\ pc[r] = "latest" /\ Len(got[r]) + 1 \in 2..Len(Inputs[r])
             /\ \/ pc' = [pc EXCEPT ![r] = "wait"] /\ got' = [got EXCEPT ![r] = <<>>]
                \/ /\ pc' = pc /\ got' = [got EXCEPT ![r] = Append(got[r], l[Len(l)])]
                   /\ Len(l) \in Nat \ {0} /\ l[Len(l)] \in Entries(r)
<1> DEFINE k == Len(got[r]) + 1
           l == log[r][Inputs[r][k]]
           b == ring[r][Inputs[r][k]]
<1>1. pc[r] = "latest" /\ k \in 2..Len(Inputs[r])
  <2>1. Len(got[r]) \in Nat \ {0}
    <3>1. got[r] \in Seq(Entries(r) \cup {Nothing}) /\ got[r] # <<>>
      BY DEF IInv, TypeOK, Fetching, Latest
    <3> QED BY <3>1
  <2> QED BY <2>1, InputsTyped DEF Latest
<1>2. Inputs[r][k] \in Channels /\ Size[r] \in Nat
  BY <1>1, InputsTyped, DataAssumption
<1>3. l \in Seq(Entries(r)) /\ Len(l) \in Nat
  BY <1>2, LogsTyped
<1>4. b.tail = Len(l) /\ \A i \in 1..Len(l) : i >= b.head => b.slots[i % (Size[r] + 1)] = l[i]
  BY <1>2 DEF IInv, Windows, IsWindow
<1>5. Len(l) >= b.head
  <2>1. b.head = IF Len(l) > Size[r] THEN Len(l) - Size[r] ELSE 0
    BY <1>2, LogsTyped DEF IsWindow
  <2> QED BY <1>2, <1>3, <2>1
<1> HIDE DEF b, l, k
<1>6. CASE Empty(b)
  BY <1>1, <1>6 DEF Latest, Goto, b, l, k
<1>7. CASE ~Empty(b)
  <2>1. Len(l) \in 1..Len(l)
    BY <1>3, <1>4, <1>7 DEF Empty
  <2>2. Back(r, b) = l[Len(l)]
    BY <1>4, <1>5, <2>1 DEF Back, At, GetIndex, capacity
  <2>3. l[Len(l)] \in Entries(r)
    BY <1>3, <2>1
  <2>4. pc' = pc /\ got' = [got EXCEPT ![r] = Append(got[r], l[Len(l)])]
    BY <1>7, <2>2 DEF Latest, b, k
  <2>5. Len(l) \in Nat \ {0}
    BY <1>3, <2>1
  <2> QED BY ONLY <1>1, <2>3, <2>4, <2>5 DEF l, k
<1> QED BY <1>6, <1>7

-----------------------------------------------------------------------------
(* Steps *)

LEMMA IndexAndGot ==
  ASSUME IInv, [Next]_vars
  PROVE  /\ DOMAIN index' = Readers /\ DOMAIN got' = Readers
         /\ \A r \in Readers : /\ index'[r] \in 0 .. ring'[r][Main(r)].tail + 1
                               /\ got'[r] \in Seq(Entries(r) \cup {Nothing})
<1>1. /\ DOMAIN index = Readers /\ DOMAIN got = Readers
      /\ \A r \in Readers : /\ index[r] \in 0 .. ring[r][Main(r)].tail + 1
                            /\ got[r] \in Seq(Entries(r) \cup {Nothing})
  BY DEF IInv, TypeOK, Shapes
<1>2. \A r \in Readers : /\ ring[r][Main(r)].tail = Len(log[r][Main(r)])
                         /\ ring'[r][Main(r)].tail = Len(log'[r][Main(r)])
                         /\ Len(log[r][Main(r)]) \in Nat /\ Len(log'[r][Main(r)]) \in Nat
                         /\ Len(log'[r][Main(r)]) >= Len(log[r][Main(r)])
  BY Longer, InputsTyped
<1>3. ASSUME NEW r \in Readers PROVE index[r] \in 0 .. ring'[r][Main(r)].tail + 1
  <2>1. index[r] \in 0 .. ring[r][Main(r)].tail + 1
    BY <1>1
  <2>2. /\ ring[r][Main(r)].tail \in Nat /\ ring'[r][Main(r)].tail \in Nat
        /\ ring'[r][Main(r)].tail >= ring[r][Main(r)].tail
    BY <1>2
  <2> QED BY <2>1, <2>2
<1>4. CASE UNCHANGED <<index, got>>
  BY <1>1, <1>3, <1>4
<1>5. ASSUME NEW r \in Readers, Release(r) \/ Resume(r) \/ Yield(r)
      PROVE  UNCHANGED index /\ got' = [got EXCEPT ![r] = <<>>]
  BY <1>5 DEF Release, Resume, Yield
<1>6. ASSUME NEW r \in Readers, Fetch(r)
      PROVE  /\ \/ UNCHANGED index
                \/ \E p \in 1..Len(log[r][Main(r)]) : index' = [index EXCEPT ![r] = p]
             /\ \E m \in Entries(r) \cup {Nothing} : got' = [got EXCEPT ![r] = <<m>>]
  BY <1>6, FetchFinds
<1>7. ASSUME NEW r \in Readers, Latest(r)
      PROVE  /\ UNCHANGED index
             /\ \/ got' = [got EXCEPT ![r] = <<>>]
                \/ \E m \in Entries(r) : got' = [got EXCEPT ![r] = Append(got[r], m)]
  BY <1>7, LatestFinds DEF Latest
<1>8. ASSUME NEW r \in Readers, Call(r)
      PROVE  /\ index' = [index EXCEPT ![r] = index[r] + 1] /\ UNCHANGED got
             /\ index[r] \in 1 .. Len(log[r][Main(r)])
  BY <1>2, <1>8 DEF Call, Goto, IInv, Fetching
<1>9. CASE \E r \in Readers : Release(r) \/ Resume(r) \/ Yield(r)
  <2>1. \A r \in Readers : << >> \in Seq(Entries(r) \cup {Nothing})
    OBVIOUS
  <2> QED BY <1>1, <1>3, <1>5, <1>9, <2>1
<1>10. CASE \E r \in Readers : Fetch(r)
  <2>1. PICK r \in Readers : Fetch(r)
    BY <1>10
  <2>2. \A q \in Readers : index'[q] \in 0 .. ring'[q][Main(q)].tail + 1
    <3>1. CASE UNCHANGED index
      BY <1>3, <3>1
    <3>2. ASSUME NEW p \in 1..Len(log[r][Main(r)]), index' = [index EXCEPT ![r] = p], NEW q \in Readers
          PROVE  index'[q] \in 0 .. ring'[q][Main(q)].tail + 1
      <4>1. CASE q = r
        <5>1. index'[q] = p
          BY <1>1, <3>2, <4>1
        <5>2. PICK n, t \in Nat : n = Len(log[r][Main(r)]) /\ t = ring'[r][Main(r)].tail /\ t >= n
          BY <1>2
        <5>3. p \in 1..n
          BY <3>2, <5>2
        <5>4. p \in 0 .. t + 1
          BY ONLY <5>2, <5>3
        <5>5. ring'[q][Main(q)].tail = t
          BY <4>1, <5>2
        <5> QED BY ONLY <5>1, <5>4, <5>5
      <4>2. CASE q # r
        <5>1. index'[q] = index[q]
          BY <3>2, <4>2
        <5> QED BY <1>3, <5>1
      <4> QED BY <4>1, <4>2
    <3> QED BY <1>6, <2>1, <3>1, <3>2
  <2>3. PICK m \in Entries(r) \cup {Nothing} : got' = [got EXCEPT ![r] = <<m>>]
    BY <1>6, <2>1
  <2>4. <<m>> \in Seq(Entries(r) \cup {Nothing})
    OBVIOUS
  <2>5. DOMAIN index' = Readers
    BY <1>1, <1>6, <2>1
  <2> QED BY <1>1, <2>2, <2>3, <2>4, <2>5
<1>11. CASE \E r \in Readers : Latest(r)
  <2>1. PICK r \in Readers : Latest(r)
    BY <1>11
  <2>2. \A m \in Entries(r) : Append(got[r], m) \in Seq(Entries(r) \cup {Nothing})
    BY <1>1
  <2>3. << >> \in Seq(Entries(r) \cup {Nothing})
    OBVIOUS
  <2>4. PICK s \in Seq(Entries(r) \cup {Nothing}) : got' = [got EXCEPT ![r] = s]
    BY <1>7, <2>1, <2>2, <2>3
  <2> QED BY <1>1, <1>3, <1>7, <2>1, <2>4
<1>12. CASE \E r \in Readers : Call(r)
  <2>1. PICK r \in Readers : Call(r)
    BY <1>12
  <2>2. /\ index' = [index EXCEPT ![r] = index[r] + 1] /\ UNCHANGED got
        /\ index[r] \in 1 .. Len(log[r][Main(r)])
    BY <1>8, <2>1
  <2>3. ASSUME NEW q \in Readers PROVE index'[q] \in 0 .. ring'[q][Main(q)].tail + 1
    <3>1. CASE q = r
      <4>1. index'[q] = index[q] + 1
        BY <1>1, <2>2, <3>1
      <4>2. PICK n, t \in Nat : n = Len(log[r][Main(r)]) /\ t = ring'[r][Main(r)].tail /\ t >= n
        BY <1>2
      <4>3. index[q] \in 1..n
        BY <2>2, <3>1, <4>2
      <4>4. index[q] + 1 \in 0 .. t + 1
        BY ONLY <4>2, <4>3
      <4>5. ring'[q][Main(q)].tail = t
        BY <3>1, <4>2
      <4> QED BY ONLY <4>1, <4>4, <4>5
    <3>2. CASE q # r
      <4>1. index'[q] = index[q]
        BY <2>2, <3>2
      <4> QED BY <1>3, <4>1
    <3> QED BY <3>1, <3>2
  <2> QED BY <1>1, <2>2, <2>3
<1>13. \/ UNCHANGED <<index, got>>
       \/ \E r \in Readers : \/ Release(r) \/ Resume(r) \/ Yield(r)
                             \/ Fetch(r) \/ Latest(r) \/ Call(r)
  BY DEF Next, vars, reading, Begin, Refuse, Fill, Notify, Callback, Return, Shutdown, AddBuffer,
         AddNotifier, DispatchTask, RegisterNotifyCallback
<1> QED BY <1>4, <1>9, <1>10, <1>11, <1>12, <1>13

LEMMA TypesStep == ASSUME IInv, [Next]_vars PROVE TypeOK' /\ Shapes'
<1> DEFINE Creating == /\ DOMAIN stage = Readers
                       /\ \A r \in Readers : stage[r] \in 0 .. Len(Inputs[r]) + 3
                       /\ buffers \in [Channels -> Seq(Readers)] /\ notifies \in [Channels -> Seq(Readers)]
           Running == /\ pc \in [Readers -> {"none", "ready", "fetch", "latest", "call", "wait", "gone"}]
                      /\ updated \in [Readers -> BOOLEAN] /\ unheard \in [Readers -> BOOLEAN]
           Writing == /\ DOMAIN mark = Writers
                      /\ wpc \in [Writers -> {"idle", "fill", "notify"}]
                      /\ at \in [Writers -> Nat \ {0}] /\ todo \in [Writers -> Seq(Channels)]
                      /\ shutdown \in BOOLEAN
<1>1. Creating /\ Running /\ Writing
  BY DEF IInv, TypeOK, Shapes
<1>2. Creating'
  <2>1. CASE UNCHANGED <<stage, buffers, notifies>>
    BY <1>1, <2>1
  <2>2. ASSUME NEW r \in Readers, AddBuffer(r) PROVE Creating'
    <3> DEFINE c == Inputs[r][stage[r] + 1]
    <3>1. stage[r] \in Nat /\ stage[r] < Len(Inputs[r]) /\ Len(Inputs[r]) \in Nat
      BY <1>1, <2>2, InputsTyped DEF AddBuffer
    <3>2. c \in Channels
      BY <3>1, InputsTyped
    <3>3. Append(buffers[c], r) \in Seq(Readers)
      BY <1>1, <3>2
    <3>4. stage[r] + 1 \in 0 .. Len(Inputs[r]) + 3
      BY <3>1
    <3> QED BY <1>1, <2>2, <3>2, <3>3, <3>4 DEF AddBuffer
  <2>3. ASSUME NEW r \in Readers, AddNotifier(r) PROVE Creating'
    BY <1>1, <2>3, InputsTyped DEF AddNotifier
  <2>4. ASSUME NEW r \in Readers, DispatchTask(r) \/ RegisterNotifyCallback(r) PROVE Creating'
    <3>1. stage[r] + 1 \in 0 .. Len(Inputs[r]) + 3
      BY <1>1, <2>4, InputsTyped DEF DispatchTask, RegisterNotifyCallback
    <3> QED BY <1>1, <2>4, <3>1 DEF DispatchTask, RegisterNotifyCallback
  <2>5. \/ UNCHANGED <<stage, buffers, notifies>>
        \/ \E r \in Readers : \/ AddBuffer(r) \/ AddNotifier(r)
                              \/ DispatchTask(r) \/ RegisterNotifyCallback(r)
    <3>1. ASSUME NEW w \in Writers,
                 Begin(w) \/ Refuse(w) \/ Fill(w) \/ Notify(w) \/ Callback(w) \/ Return(w)
          PROVE  UNCHANGED <<stage, buffers, notifies>>
      BY <3>1 DEF reading, Begin, Refuse, Fill, Notify, Callback, Return
    <3>2. ASSUME NEW r \in Readers,
                 Release(r) \/ Resume(r) \/ Fetch(r) \/ Latest(r) \/ Call(r) \/ Yield(r)
          PROVE  UNCHANGED <<stage, buffers, notifies>>
      BY <3>2 DEF Release, Reads, Resume, Fetch, Latest, Call, Yield
    <3>3. CASE Shutdown \/ UNCHANGED vars
      BY <3>3 DEF Shutdown, vars, reading
    <3> QED BY <3>1, <3>2, <3>3 DEF Next
  <2> QED BY <2>1, <2>2, <2>3, <2>4, <2>5
<1>3. Running'
  <2>1. pc' \in [Readers -> {"none", "ready", "fetch", "latest", "call", "wait", "gone"}]
    <3>1. \/ UNCHANGED pc
          \/ \E r \in Readers, s \in {"ready", "fetch", "latest", "call", "wait", "gone"} :
               pc' = [pc EXCEPT ![r] = s]
      BY DEF Next, vars, reading, Begin, Refuse, Fill, Notify, Callback, Return, Shutdown,
             AddBuffer, AddNotifier, DispatchTask, RegisterNotifyCallback, Release, Goto,
             Resume, Fetch, Latest, Call, Yield
    <3> QED BY <1>1, <3>1
  <2>2. updated' \in [Readers -> BOOLEAN]
    <3>1. ASSUME NEW w \in Writers, Callback(w) PROVE updated' \in [Readers -> BOOLEAN]
      BY <1>1, <3>1 DEF Callback
    <3>2. ASSUME NEW r \in Readers, Resume(r) PROVE updated' \in [Readers -> BOOLEAN]
      BY <1>1, <3>2 DEF Resume
    <3>3. \/ UNCHANGED updated
          \/ \E w \in Writers : Callback(w)
          \/ \E r \in Readers : Resume(r)
      BY DEF Next, vars, reading, Begin, Refuse, Fill, Notify, Return, Shutdown, AddBuffer,
             AddNotifier, DispatchTask, RegisterNotifyCallback, Release, Fetch, Latest, Call, Yield
    <3> QED BY <1>1, <3>1, <3>2, <3>3
  <2>3. unheard' \in [Readers -> BOOLEAN]
    <3>1. ASSUME NEW w \in Writers, Callback(w) PROVE unheard' \in [Readers -> BOOLEAN]
      BY <1>1, <3>1 DEF Callback
    <3>2. ASSUME NEW r \in Readers, Fetch(r) PROVE unheard' \in [Readers -> BOOLEAN]
      BY <1>1, <3>2 DEF Fetch
    <3>3. \/ UNCHANGED unheard
          \/ \E w \in Writers : Callback(w)
          \/ \E r \in Readers : Fetch(r)
      BY DEF Next, vars, reading, Begin, Refuse, Fill, Notify, Return, Shutdown, AddBuffer,
             AddNotifier, DispatchTask, RegisterNotifyCallback, Release, Resume, Latest, Call, Yield
    <3> QED BY <1>1, <3>1, <3>2, <3>3
  <2> QED BY <2>1, <2>2, <2>3
<1>4. Writing'
  <2>1. CASE UNCHANGED <<writing, shutdown>>
    BY <1>1, <2>1 DEF writing
  <2>2. CASE Shutdown
    BY <1>1, <2>2 DEF Shutdown, writing
  <2>3. ASSUME NEW w \in Writers, Begin(w) \/ Refuse(w) \/ Fill(w) \/ Notify(w) \/ Callback(w) \/ Return(w)
        PROVE  Writing'
    <3>1. at[w] + 1 \in Nat \ {0} /\ (todo[w] # <<>> => Tail(todo[w]) \in Seq(Channels))
      BY <1>1
    <3>2. todo' \in [Writers -> Seq(Channels)]
      <4>1. wpc[w] # "idle" => todo[w] # <<>>
        BY DEF IInv, Dispatching
      <4>2. \/ todo' = todo
            \/ todo[w] # <<>> /\ todo' = [todo EXCEPT ![w] = Tail(todo[w])]
        BY <2>3, <4>1 DEF Begin, Refuse, Fill, Notify, Callback, Return, GotoW
      <4>3. todo \in [Writers -> Seq(Channels)]
        BY <1>1
      <4> QED BY ONLY <3>1, <4>2, <4>3
    <3>3. wpc' \in [Writers -> {"idle", "fill", "notify"}] /\ DOMAIN mark' = Writers
      BY <1>1, <2>3 DEF Begin, Refuse, Fill, Notify, Callback, Return, GotoW
    <3>4. at' \in [Writers -> Nat \ {0}]
      <4>1. \/ at' = at \/ at' = [at EXCEPT ![w] = 1]
            \/ at' = [at EXCEPT ![w] = at[w] + 1]
        BY <2>3 DEF Begin, Refuse, Fill, Notify, Callback, Return, Turn
      <4>2. at \in [Writers -> Nat \ {0}]
        BY <1>1
      <4> QED BY ONLY <3>1, <4>1, <4>2
    <3>5. UNCHANGED shutdown
      BY <2>3 DEF Begin, Refuse, Fill, Notify, Callback, Return
    <3> QED BY <1>1, <3>2, <3>3, <3>4, <3>5
  <2>4. \/ UNCHANGED <<writing, shutdown>> \/ Shutdown
        \/ \E w \in Writers : Begin(w) \/ Refuse(w) \/ Fill(w) \/ Notify(w) \/ Callback(w) \/ Return(w)
    BY DEF Next, vars, AddBuffer, AddNotifier, DispatchTask, RegisterNotifyCallback, Release,
           Reads, Resume, Fetch, Latest, Call, Yield
  <2> QED BY <2>1, <2>2, <2>3, <2>4
<1>5. TypeOK'
  BY <1>2, <1>3, <1>4, Growth, IndexAndGot DEF TypeOK
<1>6. Shapes'
  BY <1>2, <1>4, Growth, IndexAndGot DEF Shapes
<1> QED BY <1>5, <1>6

\* The parts of a step: who listens, what a writer does, what a task does.
LEMMA NotifiersGrow ==
  ASSUME IInv, [Next]_vars
  PROVE  \A c \in Channels : \A j \in 1..Len(notifies[c]) :
           j \in 1..Len(notifies'[c]) /\ notifies'[c][j] = notifies[c][j]
<1>1. notifies \in [Channels -> Seq(Readers)]
  BY DEF IInv, TypeOK
<1>2. CASE UNCHANGED notifies
  BY <1>1, <1>2
<1>3. ASSUME NEW r \in Readers, AddNotifier(r),
             NEW c \in Channels, NEW j \in 1..Len(notifies[c])
      PROVE  j \in 1..Len(notifies'[c]) /\ notifies'[c][j] = notifies[c][j]
  <2>1. notifies[c] \in Seq(Readers)
    BY <1>1
  <2>2. \/ notifies'[c] = notifies[c]
        \/ notifies'[c] = Append(notifies[c], r)
    BY <1>1, <1>3 DEF AddNotifier
  <2> QED BY <2>1, <2>2
<1>4. UNCHANGED notifies \/ \E r \in Readers : AddNotifier(r)
  BY DEF Next, vars, reading, Begin, Refuse, Fill, Notify, Callback, Return, Shutdown, AddBuffer,
         DispatchTask, RegisterNotifyCallback, Release, Reads, Resume, Fetch, Latest, Call, Yield
<1> QED BY <1>2, <1>3, <1>4

LEMMA WriterSteps ==
  ASSUME IInv, [Next]_vars, NEW w \in Writers
  PROVE  \/ wpc'[w] = "idle" /\ (wpc[w] = "idle" \/ Return(w))
         \/ Begin(w)
         \/ /\ wpc[w] # "idle" /\ todo'[w] = todo[w] /\ mark'[w] = mark[w]
            /\ \/ wpc'[w] = wpc[w] /\ at'[w] = at[w]
               \/ wpc'[w] = wpc[w] /\ Callback(w)
               \/ wpc'[w] = "fill" /\ Fill(w)
               \/ at'[w] = 1 /\ Notify(w)
<1>1. /\ wpc \in [Writers -> {"idle", "fill", "notify"}] /\ at \in [Writers -> Nat \ {0}]
      /\ todo \in [Writers -> Seq(Channels)] /\ DOMAIN mark = Writers
  BY DEF IInv, TypeOK, Shapes
<1>2. CASE UNCHANGED writing
  BY <1>2 DEF writing
<1>3. ASSUME NEW v \in Writers,
             Begin(v) \/ Refuse(v) \/ Fill(v) \/ Notify(v) \/ Callback(v) \/ Return(v), v # w
      PROVE  /\ wpc'[w] = wpc[w] /\ at'[w] = at[w] /\ todo'[w] = todo[w] /\ mark'[w] = mark[w]
  BY <1>1, <1>3 DEF Begin, Refuse, Fill, Notify, Callback, Return, GotoW, Turn
<1>4. CASE Begin(w) \/ Refuse(w) \/ Fill(w) \/ Notify(w) \/ Callback(w) \/ Return(w)
  BY <1>1, <1>4 DEF Refuse, Fill, Notify, Callback, Return, GotoW
<1>5. \/ UNCHANGED writing
      \/ \E v \in Writers : Begin(v) \/ Refuse(v) \/ Fill(v) \/ Notify(v) \/ Callback(v) \/ Return(v)
  BY DEF Next, vars, Shutdown, AddBuffer, AddNotifier, DispatchTask, RegisterNotifyCallback,
         Release, Reads, Resume, Fetch, Latest, Call, Yield
<1> QED BY <1>2, <1>3, <1>4, <1>5

Runs(r) == \/ DispatchTask(r) \/ Release(r) \/ Resume(r) \/ Fetch(r)
           \/ Latest(r) \/ Call(r) \/ Yield(r)

LEMMA TaskSteps ==
  ASSUME IInv, [Next]_vars, NEW r \in Readers
  PROVE  \/ pc'[r] = pc[r] /\ index'[r] = index[r] /\ got'[r] = got[r]
         \/ Runs(r)
<1>1. /\ pc \in [Readers -> {"none", "ready", "fetch", "latest", "call", "wait", "gone"}]
      /\ DOMAIN got = Readers /\ DOMAIN index = Readers
  BY DEF IInv, TypeOK, Shapes
<1>2. CASE UNCHANGED <<pc, index, got>>
  BY <1>2
<1>3. ASSUME NEW q \in Readers, Runs(q), q # r
      PROVE  pc'[r] = pc[r] /\ index'[r] = index[r] /\ got'[r] = got[r]
  BY <1>1, <1>3 DEF Runs, DispatchTask, Release, Resume, Fetch, Latest, Call, Yield, Goto
<1>4. UNCHANGED <<pc, index, got>> \/ \E q \in Readers : Runs(q)
  BY DEF Next, vars, reading, Begin, Refuse, Fill, Notify, Callback, Return, Shutdown, AddBuffer,
         AddNotifier, RegisterNotifyCallback, Runs
<1> QED BY <1>2, <1>3, <1>4

LEMMA CreationStep == ASSUME IInv, [Next]_vars PROVE Creation'
<1> SUFFICES ASSUME NEW r \in Readers
             PROVE  /\ pc'[r] \notin {"none", "gone"} => stage'[r] >= Len(Inputs[r]) + 2
                    /\ stage'[r] > Len(Inputs[r]) => Listed(r)'
  BY DEF Creation
<1>1. /\ pc \in [Readers -> {"none", "ready", "fetch", "latest", "call", "wait", "gone"}]
      /\ DOMAIN stage = Readers /\ stage[r] \in 0 .. Len(Inputs[r]) + 3
      /\ notifies \in [Channels -> Seq(Readers)] /\ Len(Inputs[r]) \in Nat /\ Main(r) \in Channels
  BY InputsTyped DEF IInv, TypeOK, Shapes
<1>2. /\ pc[r] \notin {"none", "gone"} => stage[r] >= Len(Inputs[r]) + 2
      /\ stage[r] > Len(Inputs[r]) => Listed(r)
  BY DEF IInv, Creation
<1>3. Listed(r) => Listed(r)'
  BY <1>1, NotifiersGrow DEF Listed
<1>4. \/ stage'[r] = stage[r]
      \/ stage'[r] = stage[r] + 1 /\ stage[r] < Len(Inputs[r])
      \/ stage'[r] = stage[r] + 1 /\ stage[r] > Len(Inputs[r])
      \/ AddNotifier(r)
  <2>1. CASE UNCHANGED stage
    BY <2>1
  <2>2. ASSUME NEW q \in Readers,
               AddBuffer(q) \/ AddNotifier(q) \/ DispatchTask(q) \/ RegisterNotifyCallback(q), q # r
        PROVE  stage'[r] = stage[r]
    BY <1>1, <2>2 DEF AddBuffer, AddNotifier, DispatchTask, RegisterNotifyCallback
  <2>3. CASE AddBuffer(r)
    BY <1>1, <2>3 DEF AddBuffer
  <2>4. CASE DispatchTask(r) \/ RegisterNotifyCallback(r)
    BY <1>1, <2>4 DEF DispatchTask, RegisterNotifyCallback
  <2>5. \/ UNCHANGED stage
        \/ \E q \in Readers : AddBuffer(q) \/ AddNotifier(q) \/ DispatchTask(q) \/ RegisterNotifyCallback(q)
    BY DEF Next, vars, reading, Begin, Refuse, Fill, Notify, Callback, Return, Shutdown, Release,
           Reads, Resume, Fetch, Latest, Call, Yield
  <2> QED BY <2>1, <2>2, <2>3, <2>4, <2>5
<1>5. AddNotifier(r) => Listed(r)' /\ stage'[r] = stage[r] + 1
  <2> SUFFICES ASSUME AddNotifier(r) PROVE Listed(r)' /\ stage'[r] = stage[r] + 1
    OBVIOUS
  <2>1. notifies[Main(r)] \in Seq(Readers) /\ notifies'[Main(r)] = Append(notifies[Main(r)], r)
    BY <1>1 DEF AddNotifier
  <2>2. Len(notifies[Main(r)]) + 1 \in 1..Len(notifies'[Main(r)])
    BY <2>1
  <2>3. notifies'[Main(r)][Len(notifies[Main(r)]) + 1] = r
    BY <2>1
  <2>4. stage'[r] = stage[r] + 1
    BY <1>1 DEF AddNotifier
  <2> QED BY <2>2, <2>3, <2>4 DEF Listed
<1>6. pc'[r] \notin {"none", "gone"} => stage'[r] >= Len(Inputs[r]) + 2
  <2>1. stage'[r] \in Nat /\ stage'[r] >= stage[r]
    BY <1>1, <1>4, <1>5
  <2>2. CASE DispatchTask(r)
    BY <1>1, <2>2 DEF DispatchTask
  <2>3. CASE Release(r) \/ Resume(r) \/ Fetch(r) \/ Latest(r) \/ Call(r) \/ Yield(r)
    <3>1. pc[r] \notin {"none", "gone"}
      BY <2>3 DEF Release, Resume, Fetch, Latest, Call, Yield, Goto
    <3> QED BY <1>1, <1>2, <2>1, <3>1
  <2>4. CASE pc'[r] = pc[r]
    BY <1>1, <1>2, <2>1, <2>4
  <2> QED BY <2>2, <2>3, <2>4, TaskSteps DEF Runs
<1>7. stage'[r] > Len(Inputs[r]) => Listed(r)'
  BY <1>1, <1>2, <1>3, <1>4, <1>5
<1> QED BY <1>6, <1>7

LEMMA DispatchingStep == ASSUME IInv, [Next]_vars PROVE Dispatching'
<1> SUFFICES ASSUME NEW w \in Writers, wpc'[w] # "idle"
             PROVE  /\ todo'[w] # <<>>
                    /\ \A r \in Readers : mark'[w][r] \in [DOMAIN Inputs[r] \ {1} -> Nat]
  BY DEF Dispatching
<1>1. CASE Begin(w)
  <2>1. \A r \in Readers : \A k \in DOMAIN Inputs[r] \ {1} : Len(log[r][Inputs[r][k]]) \in Nat
    BY InputsTyped, LogsTyped
  <2>2. mark'[w] = [r \in Readers |-> [k \in DOMAIN Inputs[r] \ {1} |-> Len(log[r][Inputs[r][k]])]]
    BY <1>1 DEF Begin, IInv, Shapes
  <2>3. \A r \in Readers : mark'[w][r] \in [DOMAIN Inputs[r] \ {1} -> Nat]
    BY <2>1, <2>2
  <2>4. todo'[w] # <<>>
    BY <1>1 DEF Begin
  <2> QED BY <2>3, <2>4
<1>2. CASE ~Begin(w)
  BY <1>2, WriterSteps DEF IInv, Dispatching
<1> QED BY <1>1, <1>2

LEMMA MarksStep == ASSUME IInv, [Next]_vars PROVE Marks'
<1> SUFFICES ASSUME NEW r \in Readers, NEW k \in DOMAIN Inputs[r] \ {1}
             PROVE  LET written == Len(log'[r][Inputs[r][k]])
                    IN  /\ \A w \in Writers : wpc'[w] # "idle" => mark'[w][r][k] <= written
                        /\ \A c \in Channels : \A i \in 1..Len(log'[r][c]) :
                             log'[r][c][i].mark[k] <= written
                        /\ pc'[r] \in {"latest", "call"} => got'[r][1].mark[k] <= written
  BY DEF Marks
<1> DEFINE written == Len(log[r][Inputs[r][k]])
           writtenNext == Len(log'[r][Inputs[r][k]])
<1>1. Inputs[r][k] \in Channels /\ Main(r) \in Channels /\ k \in DOMAIN Inputs[r] \ {1}
  BY InputsTyped
<1>2. written \in Nat /\ writtenNext \in Nat /\ writtenNext >= written
  BY <1>1, Longer
<1>3. /\ \A w \in Writers : wpc[w] # "idle" => mark[w][r][k] <= written
      /\ \A c \in Channels : \A i \in 1..Len(log[r][c]) : log[r][c][i].mark[k] <= written
      /\ pc[r] \in {"latest", "call"} => got[r][1].mark[k] <= written
  BY DEF IInv, Marks
<1>4. \A e \in Entries(r) : e.mark[k] \in Nat
  BY DEF Entries
<1> HIDE DEF written, writtenNext
<1>5. ASSUME NEW w \in Writers, wpc'[w] # "idle" PROVE mark'[w][r][k] <= writtenNext
  <2>1. CASE Begin(w)
    <3>1. mark'[w] = [q \in Readers |-> [j \in DOMAIN Inputs[q] \ {1} |-> Len(log[q][Inputs[q][j]])]]
      BY <2>1 DEF Begin, IInv, Shapes
    <3>2. mark'[w][r][k] = written
      BY <3>1 DEF written
    <3> QED BY <1>2, <3>2
  <2>2. CASE wpc[w] # "idle" /\ mark'[w] = mark[w]
    <3>1. mark[w][r] \in [DOMAIN Inputs[r] \ {1} -> Nat]
      BY <2>2 DEF IInv, Dispatching
    <3>2. mark[w][r][k] \in Nat
      BY <3>1
    <3> QED BY <1>2, <1>3, <2>2, <3>2
  <2> QED BY <1>5, <2>1, <2>2, WriterSteps
<1>6. ASSUME NEW c \in Channels, NEW i \in 1..Len(log'[r][c])
      PROVE  log'[r][c][i].mark[k] <= writtenNext
  <2>1. log[r][c] \in Seq(Entries(r))
    BY LogsTyped
  <2>2. CASE i \in 1..Len(log[r][c])
    <3>1. log'[r][c][i] = log[r][c][i] /\ log[r][c][i] \in Entries(r)
      BY <2>1, <2>2, Longer
    <3> QED BY <1>2, <1>3, <1>4, <2>2, <3>1
  <2>3. CASE i \notin 1..Len(log[r][c])
    <3>1. log'[r][c] # log[r][c]
      BY <2>3
    <3>2. PICK w \in Writers, m \in Entries(r) :
            /\ wpc[w] = "fill" /\ m.mark = mark[w][r] /\ log'[r][c] = Append(log[r][c], m)
      BY <3>1, Growth
    <3>3. log'[r][c][i] = m
      BY <2>1, <2>3, <3>2
    <3> QED BY <1>2, <1>3, <1>4, <3>2, <3>3
  <2> QED BY <2>2, <2>3
<1>7. ASSUME pc'[r] \in {"latest", "call"} PROVE got'[r][1].mark[k] <= writtenNext
  <2>1. pc \in [Readers -> {"none", "ready", "fetch", "latest", "call", "wait", "gone"}]
        /\ DOMAIN got = Readers
    BY DEF IInv, TypeOK, Shapes
  <2>2. CASE pc[r] \in {"latest", "call"} /\ got'[r][1] = got[r][1]
    <3>1. got[r][1] \in Entries(r)
      BY <2>2 DEF IInv, Fetching
    <3> QED BY <1>2, <1>3, <1>4, <2>2, <3>1
  <2>3. CASE Fetch(r)
    <3>1. PICK p \in 1..Len(log[r][Main(r)]) :
            log[r][Main(r)][p] \in Entries(r) /\ got' = [got EXCEPT ![r] = <<log[r][Main(r)][p]>>]
      BY <1>7, <2>1, <2>3, FetchFinds
    <3>2. got'[r][1] = log[r][Main(r)][p]
      BY <2>1, <3>1
    <3> QED BY <1>1, <1>2, <1>3, <1>4, <3>1, <3>2
  <2>4. CASE Latest(r)
    <3>1. got[r] \in Seq(Entries(r) \cup {Nothing}) /\ got[r] # <<>> /\ pc[r] = "latest"
      BY <2>4 DEF IInv, TypeOK, Fetching, Latest
    <3>2. PICK m : got' = [got EXCEPT ![r] = Append(got[r], m)]
      BY <1>7, <2>1, <2>4, LatestFinds
    <3>3. got'[r] = Append(got[r], m)
      BY <2>1, <3>2
    <3>4. got'[r][1] = got[r][1]
      BY <3>1, <3>3
    <3> QED BY <2>2, <3>1, <3>4
  <2>5. CASE Call(r)
    BY <2>2, <2>5 DEF Call, Goto
  <2>6. CASE DispatchTask(r) \/ Release(r) \/ Resume(r) \/ Yield(r)
    BY <1>7, <2>1, <2>6 DEF DispatchTask, Release, Resume, Yield, Goto
  <2>7. CASE pc'[r] = pc[r] /\ got'[r] = got[r]
    BY <1>7, <2>2, <2>7
  <2> QED BY <2>3, <2>4, <2>5, <2>6, <2>7, TaskSteps DEF Runs
<1> QED BY <1>5, <1>6, <1>7 DEF writtenNext

\* What is fused so far, after logs have grown.
FusedUpTo(r, n) ==
  \A k \in 2..n : \E i \in 1..Len(log[r][Inputs[r][k]]) :
    log[r][Inputs[r][k]][i] = got[r][k] /\ i >= got[r][1].mark[k]

LEMMA FusedStays ==
  ASSUME IInv, [Next]_vars, NEW r \in Readers, NEW n \in 0..Len(Inputs[r]), FusedUpTo(r, n),
         got'[r][1] = got[r][1], \A k \in 2..n : got'[r][k] = got[r][k]
  PROVE  FusedUpTo(r, n)'
<1> SUFFICES ASSUME NEW k \in 2..n
             PROVE  \E i \in 1..Len(log'[r][Inputs[r][k]]) :
                      log'[r][Inputs[r][k]][i] = got'[r][k] /\ i >= got'[r][1].mark[k]
  BY DEF FusedUpTo
<1>1. Inputs[r][k] \in Channels
  BY InputsTyped
<1>2. PICK i \in 1..Len(log[r][Inputs[r][k]]) :
        log[r][Inputs[r][k]][i] = got[r][k] /\ i >= got[r][1].mark[k]
  BY DEF FusedUpTo
<1>3. i \in 1..Len(log'[r][Inputs[r][k]]) /\ log'[r][Inputs[r][k]][i] = log[r][Inputs[r][k]][i]
  <2>1. PICK c \in Channels : c = Inputs[r][k]
    BY <1>1
  <2>2. /\ Len(log[r][c]) \in Nat /\ Len(log'[r][c]) \in Nat
        /\ Len(log'[r][c]) >= Len(log[r][c])
        /\ \A j \in 1..Len(log[r][c]) : log'[r][c][j] = log[r][c][j]
    BY Longer
  <2>3. i \in 1..Len(log[r][c])
    BY <1>2, <2>1
  <2>4. i \in 1..Len(log'[r][c])
    <3>1. PICK o, t \in Nat : o = Len(log[r][c]) /\ t = Len(log'[r][c]) /\ t >= o
      BY <2>2
    <3>2. i \in 1..o
      BY <2>3, <3>1
    <3>3. i \in 1..t
      BY ONLY <3>1, <3>2
    <3> QED BY <3>1, <3>3
  <2>5. log'[r][c][i] = log[r][c][i]
    BY <2>2, <2>3
  <2> QED BY ONLY <2>1, <2>4, <2>5
<1> QED BY <1>2, <1>3

LEMMA FetchingStep == ASSUME IInv, [Next]_vars PROVE Fetching'
<1> SUFFICES ASSUME NEW r \in Readers
             PROVE  /\ pc'[r] = "latest" => index'[r] \in 1 .. ring'[r][Main(r)].tail
                    /\ pc'[r] = "call" => Len(got'[r]) = Len(Inputs[r])
                    /\ pc'[r] \in {"latest", "call"} =>
                         /\ got'[r] # <<>> /\ Len(got'[r]) <= Len(Inputs[r])
                         /\ got'[r][1] \in Entries(r)
                         /\ FusedUpTo(r, Len(got[r]))'
  BY DEF Fetching, FusedUpTo
<1>1. /\ pc \in [Readers -> {"none", "ready", "fetch", "latest", "call", "wait", "gone"}]
      /\ DOMAIN got = Readers /\ DOMAIN index = Readers
      /\ got[r] \in Seq(Entries(r) \cup {Nothing})
  BY DEF IInv, TypeOK, Shapes
<1>2. /\ Main(r) \in Channels /\ Len(Inputs[r]) \in Nat \ {0}
      /\ ring[r][Main(r)].tail = Len(log[r][Main(r)])
      /\ ring'[r][Main(r)].tail = Len(log'[r][Main(r)])
      /\ Len(log[r][Main(r)]) \in Nat /\ Len(log'[r][Main(r)]) \in Nat
      /\ Len(log'[r][Main(r)]) >= Len(log[r][Main(r)])
  BY InputsTyped, Longer
<1>3. /\ pc[r] = "latest" => index[r] \in 1 .. ring[r][Main(r)].tail
      /\ pc[r] = "call" => Len(got[r]) = Len(Inputs[r])
      /\ pc[r] \in {"latest", "call"} =>
           /\ got[r] # <<>> /\ Len(got[r]) <= Len(Inputs[r])
           /\ got[r][1] \in Entries(r)
           /\ FusedUpTo(r, Len(got[r]))
  BY DEF IInv, Fetching, FusedUpTo
<1>4. CASE pc'[r] = pc[r] /\ index'[r] = index[r] /\ got'[r] = got[r]
  <2>1. pc[r] \in {"latest", "call"} => FusedUpTo(r, Len(got[r]))'
    <3> SUFFICES ASSUME pc[r] \in {"latest", "call"} PROVE FusedUpTo(r, Len(got[r]))'
      OBVIOUS
    <3>1. Len(got[r]) \in 0..Len(Inputs[r]) /\ FusedUpTo(r, Len(got[r]))
      BY <1>1, <1>2, <1>3
    <3> QED BY <1>4, <3>1, FusedStays DEF FusedUpTo
  <2> QED BY <1>2, <1>3, <1>4, <2>1
<1>5. CASE Fetch(r)
  <2>1. CASE pc'[r] = "latest"
    <3>1. PICK p \in 1..Len(log[r][Main(r)]) :
            /\ log[r][Main(r)][p] \in Entries(r) /\ got' = [got EXCEPT ![r] = <<log[r][Main(r)][p]>>]
            /\ index' = [index EXCEPT ![r] = p]
      BY <1>1, <1>5, <2>1, FetchFinds
    <3>2. got'[r] = <<log[r][Main(r)][p]>> /\ index'[r] = p
      BY <1>1, <3>1
    <3>3. Len(got'[r]) = 1 /\ got'[r][1] = log[r][Main(r)][p] /\ got'[r] # <<>>
      BY <3>2
    <3>4. FusedUpTo(r, Len(got[r]))'
      BY <3>3 DEF FusedUpTo
    <3>5. index'[r] \in 1 .. ring'[r][Main(r)].tail
      BY <1>2, <3>2
    <3>6. Len(got'[r]) <= Len(Inputs[r])
      BY <1>2, <3>3
    <3> QED BY <2>1, <3>1, <3>3, <3>4, <3>5, <3>6
  <2>2. CASE pc'[r] # "latest"
    BY <1>1, <1>5, <2>2 DEF Fetch, Goto
  <2> QED BY <2>1, <2>2
<1>6. CASE Latest(r)
  <2> DEFINE k == Len(got[r]) + 1
             l == log[r][Inputs[r][k]]
  <2>1. /\ pc[r] = "latest" /\ k \in 2..Len(Inputs[r])
        /\ \/ pc' = [pc EXCEPT ![r] = "wait"] /\ got' = [got EXCEPT ![r] = <<>>]
           \/ /\ pc' = pc /\ got' = [got EXCEPT ![r] = Append(got[r], l[Len(l)])]
              /\ Len(l) \in Nat \ {0} /\ l[Len(l)] \in Entries(r)
    BY <1>6, LatestFinds
  <2>2. index' = index /\ log' = log /\ ring' = ring
    BY <1>6 DEF Latest, Reads
  <2>3. CASE pc' = [pc EXCEPT ![r] = "wait"]
    BY <1>1, <2>3
  <2>4. CASE /\ pc' = pc /\ got' = [got EXCEPT ![r] = Append(got[r], l[Len(l)])]
             /\ Len(l) \in Nat \ {0} /\ l[Len(l)] \in Entries(r)
    <3>1. got'[r] = Append(got[r], l[Len(l)])
      BY <1>1, <2>4
    <3>2. /\ Len(got'[r]) = k /\ got'[r][k] = l[Len(l)] /\ got'[r] # <<>>
          /\ \A j \in 1..Len(got[r]) : got'[r][j] = got[r][j]
      <4> DEFINE x == l[Len(l)]
                 s == got[r]
                 S == Entries(r) \cup {Nothing}
      <4>1. s \in Seq(S) /\ x \in S
        BY <1>1, <2>4
      <4> HIDE DEF x, s, S
      <4>2. /\ Len(Append(s, x)) = Len(s) + 1 /\ Append(s, x)[Len(s) + 1] = x
            /\ \A j \in 1..Len(s) : Append(s, x)[j] = s[j]
        BY ONLY <4>1, AppendProperties
      <4>3. Append(s, x) # <<>>
        BY ONLY <4>1, AppendProperties
      <4> QED BY <3>1, <4>2, <4>3 DEF x, s
    <3>3. Len(got[r]) \in Nat \ {0} /\ Inputs[r][k] \in Channels
      BY <1>1, <1>3, <2>1, InputsTyped
    <3>4. got'[r][1] = got[r][1]
      BY <3>2, <3>3
    <3>5. got[r][1].mark[k] <= Len(l)
      <4>1. k \in DOMAIN Inputs[r] \ {1}
        BY <2>1, InputsTyped
      <4> QED BY <2>1, <4>1 DEF IInv, Marks
    <3>6. got[r][1].mark[k] \in Nat
      <4>1. got[r][1] \in Entries(r)
        BY <1>3, <2>1
      <4>2. k \in DOMAIN Inputs[r] \ {1}
        BY <2>1, InputsTyped
      <4> QED BY <4>1, <4>2 DEF Entries
    <3>7. FusedUpTo(r, Len(got[r]))'
      <4> SUFFICES ASSUME NEW j \in 2..k
                   PROVE  \E i \in 1..Len(log[r][Inputs[r][j]]) :
                            log[r][Inputs[r][j]][i] = got'[r][j] /\ i >= got'[r][1].mark[j]
        BY <2>2, <3>2 DEF FusedUpTo
      <4>1. CASE j = k
        <5>1. Len(l) \in 1..Len(l) /\ Len(l) >= got'[r][1].mark[k]
          <6>1. Len(l) \in Nat \ {0}
            BY <2>4
          <6>2. got'[r][1].mark[k] \in Nat /\ got'[r][1].mark[k] <= Len(l)
            BY <3>4, <3>5, <3>6
          <6> QED BY ONLY <6>1, <6>2
        <5> QED BY <3>2, <4>1, <5>1
      <4>2. CASE j # k
        <5>1. j \in 2..Len(got[r])
          BY <3>3, <4>2
        <5>2. PICK i \in 1..Len(log[r][Inputs[r][j]]) :
                log[r][Inputs[r][j]][i] = got[r][j] /\ i >= got[r][1].mark[j]
          BY <1>3, <2>1, <5>1 DEF FusedUpTo
        <5>3. got'[r][j] = got[r][j]
          BY <3>2, <5>1
        <5> QED BY <3>4, <5>2, <5>3
      <4> QED BY <4>1, <4>2
    <3>8. pc'[r] = "latest" /\ Len(got'[r]) <= Len(Inputs[r])
      <4>1. pc'[r] = "latest"
        BY <2>1, <2>4
      <4> HIDE DEF k
      <4>2. Len(got'[r]) <= Len(Inputs[r])
        BY <1>2, <2>1, <3>2
      <4> QED BY <4>1, <4>2
    <3>9. index'[r] \in 1 .. ring'[r][Main(r)].tail /\ got'[r][1] \in Entries(r)
      BY <1>3, <2>1, <2>2, <3>4
    <3> QED BY <3>2, <3>7, <3>8, <3>9
  <2> QED BY <2>1, <2>3, <2>4
<1>7. CASE Call(r)
  <2>1. /\ pc[r] = "latest" /\ pc'[r] = "call" /\ Len(got[r]) = Len(Inputs[r])
        /\ got' = got /\ log' = log
    BY <1>1, <1>7 DEF Call, Goto, Reads
  <2> QED BY <1>2, <1>3, <2>1 DEF FusedUpTo
<1>8. CASE DispatchTask(r) \/ Release(r) \/ Resume(r) \/ Yield(r)
  BY <1>1, <1>8 DEF DispatchTask, Release, Resume, Yield, Goto
<1> QED BY <1>4, <1>5, <1>6, <1>7, <1>8, TaskSteps DEF Runs

\* A writer that will come to the notifier of a waiting task still will,
\* unless it has just been there.
LEMMA StillComing ==
  ASSUME IInv, [Next]_vars, NEW r \in Readers, pc[r] = "wait", ~updated'[r], ~unheard'[r],
         NEW w \in Writers, WillNotify(w, r)
  PROVE  WillNotify(w, r)'
<1>1. /\ updated \in [Readers -> BOOLEAN] /\ unheard \in [Readers -> BOOLEAN]
      /\ notifies \in [Channels -> Seq(Readers)] /\ at[w] \in Nat \ {0} /\ Main(r) \in Channels
      /\ Len(notifies[Main(r)]) \in Nat
  BY InputsTyped DEF IInv, TypeOK
<1>2. wpc[w] # "idle" /\ Channel(w) = Main(r)
  BY DEF WillNotify
<1>3. ASSUME wpc[w] = "notify"
      PROVE  \E j \in 1..Len(notifies[Main(r)]) : notifies[Main(r)][j] = r /\ j >= at[w]
  BY <1>3 DEF WillNotify
<1>4. ASSUME todo'[w] = todo[w] PROVE Channel(w)' = Main(r)
  BY <1>2, <1>4 DEF Channel
<1>5. CASE Return(w)
  <2>1. wpc[w] = "notify" /\ at[w] > Len(notifies[Main(r)])
    BY <1>2, <1>5 DEF Return, GotoW
  <2> QED BY <1>1, <1>3, <2>1
<1>6. CASE wpc'[w] = wpc[w] /\ at'[w] = at[w] /\ todo'[w] = todo[w]
  BY <1>1, <1>2, <1>3, <1>4, <1>6, NotifiersGrow DEF WillNotify
<1>7. CASE wpc'[w] = wpc[w] /\ todo'[w] = todo[w] /\ Callback(w)
  <2>1. wpc[w] = "notify" /\ at'[w] = at[w] + 1 /\ notifies' = notifies
    BY <1>7 DEF Callback, Turn, IInv, TypeOK
  <2>2. PICK j \in 1..Len(notifies[Main(r)]) : notifies[Main(r)][j] = r /\ j >= at[w]
    BY <1>3, <2>1
  <2>3. j # at[w]
    <3> SUFFICES ASSUME j = at[w] PROVE FALSE
      OBVIOUS
    <3>1. notifies[Channel(w)][at[w]] = r
      BY <1>2, <2>2
    <3>2. /\ updated' = [updated EXCEPT ![r] = @ \/ (HasCallback(r) /\ DataWait(r))]
          /\ unheard' = [unheard EXCEPT ![r] = @ \/ ~HasCallback(r)]
      BY <1>7, <3>1 DEF Callback
    <3>3. DataWait(r)
      BY DEF DataWait
    <3>4. CASE HasCallback(r)
      BY <1>1, <3>2, <3>3, <3>4
    <3>5. CASE ~HasCallback(r)
      BY <1>1, <3>2, <3>5
    <3> QED BY <3>4, <3>5
  <2>4. j >= at'[w]
    BY <1>1, <2>1, <2>2, <2>3
  <2> QED BY <1>2, <1>4, <1>7, <2>1, <2>2, <2>4 DEF WillNotify
<1>8. CASE wpc'[w] = "fill" /\ todo'[w] = todo[w]
  BY <1>4, <1>8 DEF WillNotify
<1>9. CASE at'[w] = 1 /\ todo'[w] = todo[w] /\ Notify(w)
  <2>1. wpc'[w] = "notify"
    BY <1>9 DEF Notify, GotoW, IInv, TypeOK
  <2>2. Listed(r)
    <3>1. stage[r] \in 0 .. Len(Inputs[r]) + 3 /\ Len(Inputs[r]) \in Nat
      BY InputsTyped DEF IInv, TypeOK
    <3>2. stage[r] >= Len(Inputs[r]) + 2
      BY DEF IInv, Creation
    <3> QED BY <3>1, <3>2 DEF IInv, Creation
  <2>3. Listed(r)'
    BY <1>1, <2>2, NotifiersGrow DEF Listed
  <2> QED BY <1>4, <1>9, <2>1, <2>3 DEF WillNotify, Listed
<1>10. ~Begin(w)
  BY <1>2 DEF Begin, GotoW
<1> QED BY <1>2, <1>5, <1>6, <1>7, <1>8, <1>9, <1>10, WriterSteps

LEMMA HeardStep == ASSUME IInv, [Next]_vars PROVE Heard'
<1> SUFFICES ASSUME NEW r \in Readers, pc'[r] = "wait", ~updated'[r], ~unheard'[r],
                    got'[r] # <<>>, index'[r] # Len(log'[r][Main(r)]) + 1,
                    log'[r][Main(r)] # <<>>
             PROVE  \E w \in Writers : WillNotify(w, r)'
  BY DEF Heard
<1>1. /\ pc \in [Readers -> {"none", "ready", "fetch", "latest", "call", "wait", "gone"}]
      /\ updated \in [Readers -> BOOLEAN] /\ unheard \in [Readers -> BOOLEAN]
      /\ DOMAIN got = Readers /\ DOMAIN index = Readers /\ Main(r) \in Channels
  BY InputsTyped DEF IInv, TypeOK, Shapes
<1>2. CASE Runs(r)
  <2>1. ~Fetch(r)
    <3> SUFFICES ASSUME Fetch(r) PROVE FALSE
      OBVIOUS
    <3>1. log' = log
      BY DEF Fetch, Reads
    <3>2. \/ log[r][Main(r)] = <<>>
          \/ index[r] = Len(log[r][Main(r)]) + 1 /\ index' = index
      BY <1>1, FetchFinds
    <3> QED BY <3>1, <3>2
  <2>2. ~Latest(r)
    <3> SUFFICES ASSUME Latest(r) PROVE FALSE
      OBVIOUS
    <3>1. \/ pc' = pc /\ pc[r] = "latest"
          \/ got' = [got EXCEPT ![r] = <<>>]
      BY LatestFinds
    <3> QED BY <1>1, <3>1
  <2>3. ~(DispatchTask(r) \/ Release(r) \/ Resume(r) \/ Call(r) \/ Yield(r))
    BY <1>1 DEF DispatchTask, Release, Resume, Call, Yield, Goto
  <2> QED BY <1>2, <2>1, <2>2, <2>3 DEF Runs
<1>3. CASE ~Runs(r)
  <2>1. pc[r] = "wait" /\ index'[r] = index[r] /\ got'[r] = got[r]
    BY <1>3, TaskSteps
  <2>2. ~updated[r] /\ ~unheard[r]
    <3>1. ASSUME NEW w \in Writers,
                 Begin(w) \/ Refuse(w) \/ Fill(w) \/ Notify(w) \/ Return(w)
          PROVE  UNCHANGED <<updated, unheard>>
      BY <3>1 DEF reading, Begin, Refuse, Fill, Notify, Return
    <3>2. ASSUME NEW q \in Readers,
                 \/ AddBuffer(q) \/ AddNotifier(q) \/ DispatchTask(q)
                 \/ RegisterNotifyCallback(q) \/ Release(q) \/ Latest(q) \/ Call(q) \/ Yield(q)
          PROVE  UNCHANGED <<updated, unheard>>
      BY <3>2 DEF AddBuffer, AddNotifier, DispatchTask, RegisterNotifyCallback, Release, Latest,
             Call, Yield
    <3>3. CASE Shutdown \/ UNCHANGED vars
      BY <3>3 DEF Shutdown, vars, reading
    <3>4. ASSUME NEW q \in Readers, Resume(q) \/ Fetch(q)
          PROVE  ~updated[r] /\ ~unheard[r]
      <4>1. q # r
        BY <1>3, <3>4 DEF Runs
      <4>2. /\ UNCHANGED updated \/ updated' = [updated EXCEPT ![q] = FALSE]
            /\ UNCHANGED unheard \/ unheard' = [unheard EXCEPT ![q] = FALSE]
        BY <3>4 DEF Resume, Fetch
      <4> QED BY <1>1, <4>1, <4>2
    <3>5. ASSUME NEW w \in Writers, Callback(w) PROVE ~updated[r] /\ ~unheard[r]
      BY <1>1, <3>5, Zenon DEF Callback
    <3>6. ~updated'[r] /\ ~unheard'[r]
      OBVIOUS
    <3> QED BY <3>1, <3>2, <3>3, <3>4, <3>5, <3>6 DEF Next
  <2>3. \E w \in Writers : WillNotify(w, r)
    <3>1. CASE log'[r][Main(r)] = log[r][Main(r)]
      BY <2>1, <2>2, <3>1 DEF IInv, Heard
    <3>2. CASE log'[r][Main(r)] # log[r][Main(r)]
      <4>1. \E w \in Writers : wpc[w] = "fill" /\ Main(r) = Channel(w)
        BY <1>1, <3>2, Growth
      <4> QED BY <4>1 DEF WillNotify
    <3> QED BY <3>1, <3>2
  <2> QED BY <2>1, <2>3, StillComing
<1> QED BY <1>2, <1>3

THEOREM Inductive == Spec => []IInv
<1>1. IInv /\ [Next]_vars => IInv'
  BY TypesStep, Growth, CreationStep, MarksStep, DispatchingStep, FetchingStep, HeardStep DEF IInv
<1> QED BY InitIInv, <1>1, PTL DEF Spec

\* Every variable keeps its type; a reader's index never passes the place
\* after the newest message of its ring.
THEOREM TypeCorrect == Spec => []TypeOK
<1>1. IInv => TypeOK
  BY DEF IInv
<1> QED BY <1>1, Inductive, PTL

\* The messages AllLatest fuses with one are at least as new as those that
\* were there when its Dispatch began, however the writers interleave.
THEOREM FusionOrdered == Spec => []FusedInOrder
<1>1. IInv => FusedInOrder
  <2> SUFFICES ASSUME IInv, NEW r \in Readers, pc[r] = "call", NEW k \in 2..Len(Inputs[r])
               PROVE  \E i \in DOMAIN log[r][Inputs[r][k]] :
                        log[r][Inputs[r][k]][i] = got[r][k] /\ i >= got[r][1].mark[k]
    BY DEF FusedInOrder
  <2>1. k \in 2..Len(got[r])
    BY DEF IInv, Fetching
  <2>2. Inputs[r][k] \in Channels
    BY InputsTyped
  <2>3. DOMAIN log[r][Inputs[r][k]] = 1..Len(log[r][Inputs[r][k]])
    BY <2>2, LogsTyped
  <2> QED BY <2>1, <2>3 DEF IInv, Fetching
<1> QED BY <1>1, Inductive, PTL

\* Once every Dispatch has returned, no task sleeps on an unseen message.
THEOREM NothingMissed == Spec => []NothingUnseen
<1>1. IInv => NothingUnseen
  BY DEF IInv, Heard, NothingUnseen, WillNotify
<1> QED BY <1>1, Inductive, PTL

-----------------------------------------------------------------------------
(* A reader implements the reading of a log *)

Started(r) == index[r] # 0
Pos(r) == IF index[r] = 0 THEN 0 ELSE index[r] - 1
Answer(r) == IF got[r] = <<>> \/ pc[r] = "call" THEN None ELSE got[r][1]

LEMMA StepMaps ==
  ASSUME IInv, [Next]_vars, NEW r \in Readers
  PROVE  [View(r)!Next]_(View(r)!viewVars)
<1> DEFINE l == log[r][Main(r)]
           h == IF Len(l) > Size[r] THEN Len(l) - Size[r] ELSE 0
<1>1. /\ pc \in [Readers -> {"none", "ready", "fetch", "latest", "call", "wait", "gone"}]
      /\ DOMAIN got = Readers /\ DOMAIN index = Readers
      /\ got[r] \in Seq(Entries(r) \cup {Nothing}) /\ None # Nothing
      /\ Nothing \notin Entries(r) /\ None \notin Entries(r)
  BY DataAssumption, NoMessage DEF IInv, TypeOK, Shapes
<1>2. /\ Main(r) \in Channels /\ l \in Seq(Entries(r)) /\ Len(l) \in Nat /\ Size[r] \in Nat
      /\ index[r] \in 0 .. Len(l) + 1
  <2>1. Main(r) \in Channels
    BY InputsTyped
  <2>2. index[r] \in 0 .. ring[r][Main(r)].tail + 1
    BY DEF IInv, TypeOK
  <2> QED BY <2>1, <2>2, LogsTyped, Longer
<1>3. ASSUME UNCHANGED l, Started(r)' = Started(r), Pos(r)' = Pos(r), Answer(r)' = None
      PROVE  View(r)!Next
  BY <1>3 DEF View!Next, View!Forget, Started, Pos, Answer
<1>4. ASSUME UNCHANGED l, Started(r)' = Started(r), Pos(r)' = Pos(r), Answer(r)' = Answer(r)
      PROVE  UNCHANGED View(r)!viewVars
  BY <1>4 DEF View!viewVars, Started, Pos, Answer
<1>5. CASE pc'[r] = pc[r] /\ index'[r] = index[r] /\ got'[r] = got[r]
  <2>1. Started(r)' = Started(r) /\ Pos(r)' = Pos(r) /\ Answer(r)' = Answer(r)
    BY <1>5 DEF Started, Pos, Answer
  <2>2. CASE UNCHANGED l
    BY <1>4, <2>1, <2>2
  <2>3. CASE ~UNCHANGED l
    <3>1. PICK m \in Entries(r) : l' = Append(l, m)
      BY <1>2, <2>3, Growth
    <3>2. Len(l') = Len(l) + 1 /\ SubSeq(l', 1, Len(l)) = l
      BY <1>2, <3>1
    <3> QED BY <2>1, <3>2 DEF View!Next, View!Write, Started, Pos, Answer
  <2> QED BY <2>2, <2>3
<1>6. CASE DispatchTask(r)
  <2>1. pc[r] # "call"
    <3>1. stage[r] = Len(Inputs[r]) + 1 /\ Len(Inputs[r]) \in Nat
      BY <1>6, InputsTyped DEF DispatchTask
    <3> QED BY <3>1 DEF IInv, Creation
  <2>2. pc'[r] = "ready" /\ UNCHANGED <<log, index, got>>
    BY <1>1, <1>6 DEF DispatchTask
  <2> QED BY <1>4, <2>1, <2>2 DEF Started, Pos, Answer
<1>7. CASE Release(r) \/ Resume(r) \/ Yield(r)
  <2>1. got'[r] = <<>> /\ UNCHANGED <<log, index>>
    BY <1>1, <1>7 DEF Release, Resume, Yield, Reads
  <2> QED BY <1>3, <2>1 DEF Started, Pos, Answer
<1>8. CASE Fetch(r)
  <2>1. UNCHANGED log
    BY <1>8 DEF Fetch, Reads
  <2>2. CASE /\ l = <<>> \/ index[r] = Len(l) + 1
             /\ pc' = [pc EXCEPT ![r] = "wait"] /\ got' = [got EXCEPT ![r] = <<Nothing>>]
             /\ UNCHANGED index
    <3>1. Answer(r)' = Nothing /\ Started(r)' = Started(r) /\ Pos(r)' = Pos(r)
      BY <1>1, <2>2 DEF Answer, Started, Pos
    <3>2. (Started(r) => Pos(r) = Len(l)) /\ (~Started(r) => l = <<>>)
      BY <1>2, <2>2 DEF Started, Pos
    <3> QED BY <2>1, <3>1, <3>2 DEF View!Next, View!Miss, Answer, Started, Pos
  <2>3. ASSUME NEW p \in 1..Len(l),
               (p = index[r] /\ p > h) \/ (p = Len(l) /\ (index[r] = 0 \/ index[r] <= h)),
               pc' = [pc EXCEPT ![r] = "latest"], got' = [got EXCEPT ![r] = <<l[p]>>],
               index' = [index EXCEPT ![r] = p]
        PROVE  View(r)!Next
    <3>1. Answer(r)' = l[p] /\ Started(r)' /\ Pos(r)' = p - 1
      BY <1>1, <1>2, <2>3 DEF Answer, Started, Pos
    <3>2. CASE p = index[r] /\ p > h
      <4>1. Started(r) /\ Pos(r) = p - 1 /\ Pos(r) < Len(l) /\ Len(l) - Pos(r) <= Size[r]
        <5>1. h \in Nat /\ Len(l) - h <= Size[r] /\ p \in Nat /\ p <= Len(l)
          <6>1. Len(l) \in Nat /\ Size[r] \in Nat
            BY <1>2
          <6>2. p \in 1..Len(l)
            BY <2>3
          <6> QED BY ONLY <6>1, <6>2
        <5>2. index[r] = p /\ p > h
          BY <3>2
        <5> HIDE DEF l, h
        <5>3. index[r] # 0 /\ Pos(r) = p - 1
          BY <5>1, <5>2 DEF Pos
        <5> QED BY <1>2, <5>1, <5>2, <5>3 DEF Started
      <4>2. Answer(r)' = l[Pos(r) + 1] /\ Pos(r)' = Pos(r)
        BY <1>2, <3>1, <4>1
      <4> QED BY <2>1, <3>1, <4>1, <4>2 DEF View!Next, View!Look, Answer, Started, Pos
    <3>3. CASE p = Len(l) /\ (index[r] = 0 \/ index[r] <= h)
      <4>1. l # <<>> /\ (Started(r) => Len(l) - Pos(r) > Size[r])
        <5>1. Len(l) \in Nat /\ Size[r] \in Nat /\ p \in 1..Len(l) /\ index[r] \in Nat
          BY <1>2, <2>3
        <5>2. l # <<>>
          BY <1>2, <5>1
        <5>3. ASSUME index[r] # 0 PROVE Len(l) - (index[r] - 1) > Size[r]
          <6>1. index[r] <= h /\ h = (IF Len(l) > Size[r] THEN Len(l) - Size[r] ELSE 0)
            BY <3>3, <5>3
          <6> HIDE DEF h, l
          <6> QED BY ONLY <5>1, <5>3, <6>1
        <5> QED BY <5>2, <5>3 DEF Started, Pos
      <4> QED BY <2>1, <3>1, <3>3, <4>1 DEF View!Next, View!Jump, Answer, Started, Pos
    <3> QED BY <2>3, <3>2, <3>3
  <2> QED BY <1>8, <2>2, <2>3, FetchFinds
<1>9. CASE Latest(r)
  <2>1. UNCHANGED <<log, index>>
    BY <1>9 DEF Latest, Reads
  <2>2. CASE got' = [got EXCEPT ![r] = <<>>]
    BY <1>1, <1>3, <2>1, <2>2 DEF Started, Pos, Answer
  <2>3. ASSUME NEW m, pc' = pc, got' = [got EXCEPT ![r] = Append(got[r], m)]
        PROVE  UNCHANGED View(r)!viewVars
    <3>1. got[r] # <<>> /\ pc[r] = "latest"
      BY <1>9 DEF Latest, IInv, Fetching
    <3>2. got'[r] # <<>> /\ got'[r][1] = got[r][1]
      BY <1>1, <2>3, <3>1
    <3> QED BY <1>4, <2>1, <2>3, <3>1, <3>2 DEF Started, Pos, Answer
  <2> QED BY <1>9, <2>2, <2>3, LatestFinds
<1>10. CASE Call(r)
  <2>1. UNCHANGED <<log, got>> /\ pc[r] = "latest" /\ pc'[r] = "call" /\ index'[r] = index[r] + 1
    BY <1>1, <1>10 DEF Call, Goto, Reads
  <2>2. index[r] \in 1..Len(l) + 1 /\ got[r] # <<>> /\ got[r][1] \in Entries(r)
    BY <1>2, <2>1 DEF IInv, Fetching
  <2>3. /\ Answer(r) \notin {None, Nothing} /\ Answer(r)' = None
        /\ Pos(r)' = Pos(r) + 1 /\ Started(r)' = Started(r)
    BY <1>1, <1>2, <2>1, <2>2 DEF Answer, Pos, Started
  <2> QED BY <2>1, <2>3 DEF View!Next, View!Consume, Answer, Pos, Started
<1> QED BY <1>5, <1>6, <1>7, <1>8, <1>9, <1>10, TaskSteps DEF Runs

\* For each reader the rings, the index and TryFetch implement ChannelView:
\* a log read in order, with a skip to the newest only after an overrun.
THEOREM Refinement == Spec => ImplementsView
<1>1. Init => \A r \in Readers : View(r)!Init
  BY InputsTyped DEF Init, View!Init
<1>2. IInv /\ [Next]_vars => \A r \in Readers : [View(r)!Next]_(View(r)!viewVars)
  BY StepMaps
<1> QED BY <1>1, <1>2, Inductive, PTL DEF Spec, ImplementsView
==============================================================================
