------------------------- MODULE MCClassicScheduler -------------------------
(***************************************************************************)
(* Two processors, two priorities, a task fed by messages (two routines of *)
(* which may come to exist) and a plain task of higher priority.           *)
(***************************************************************************)
EXTENDS ClassicScheduler, TLC

CONSTANTS c1, c2, reader, plain, r1, r2, f1, p1, p2

MCIdOf == r1 :> reader @@ r2 :> reader @@ f1 :> plain
MCPrioOf == reader :> 0 @@ plain :> 1
MCVisitors == {r1, r2}

Op(name, i) == [call |-> name, id |-> i]
Creation(i) == Op("CreateTask", i)
Removal(i) == Op("RemoveTask", i)
Writing == Op("Write", reader)
Stopping == Op("Shutdown", reader)

MCPlans ==
  { \* messages race with the creation of the task and with its routine
    c1 :> <<Creation(reader), Writing>> @@ c2 :> <<Writing, Op("NotifyTask", reader)>>,
    \* the task is removed and created again while messages arrive
    c1 :> <<Creation(reader), Removal(reader), Creation(reader)>> @@ c2 :> <<Writing>>,
    \* two threads create and remove one task
    c1 :> <<Creation(reader), Removal(reader)>> @@ c2 :> <<Creation(reader), Removal(reader)>>,
    \* shutdown meets tasks that run, sleep and are being created
    c1 :> <<Creation(plain), Stopping>> @@ c2 :> <<Creation(reader), Stopping>> }

\* For liveness: a reader that may sleep beside a plain task, a removal that
\* meets a scan, and a shutdown that meets everything.
MCLivePlans ==
  { c1 :> <<Creation(plain), Stopping>> @@ c2 :> <<Removal(plain)>>,
    c1 :> <<Creation(reader)>> @@ c2 :> <<Creation(plain), Removal(reader)>> }
MCLiveIdOf == r1 :> reader @@ f1 :> plain
MCLiveVisitors == {r1}

\* No plan and no parameter tells the processors apart, or the two routines of
\* one task: a sound reduction for the invariants of this run.
Interchangeable == Permutations({p1, p2}) \cup Permutations({r1, r2})
=============================================================================
