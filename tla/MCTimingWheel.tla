---------------------------- MODULE MCTimingWheel ----------------------------
(***************************************************************************)
(* A wheel of two slots and ticks of two units: a periodic and a oneshot   *)
(* timer, and one whose interval is refused.  The longest interval is less *)
(* than a turn of the wheel, as in the code, so that only a wheel that lags*)
(* behind the clock needs rounds.                                          *)
(***************************************************************************)
EXTENDS TimingWheel, TLC

CONSTANTS u1, u2, periodic, oneshot, tooshort

MCPeriod == periodic :> 2 @@ oneshot :> 3 @@ tooshort :> 1
MCOneshot == periodic :> FALSE @@ oneshot :> TRUE @@ tooshort :> FALSE

Op(name, t) == [call |-> name, timer |-> t]

MCPlans ==
  { \* two users start timers at the same time
    u1 :> <<Op("Start", periodic)>> @@ u2 :> <<Op("Start", oneshot)>>,
    \* one user stops the timer that another one is starting
    u1 :> <<Op("Start", periodic)>> @@ u2 :> <<Op("Stop", periodic)>>,
    \* one user stops and one starts a timer that runs already
    u1 :> <<Op("Start", periodic), Op("Stop", periodic)>> @@ u2 :> <<Op("Start", periodic)>>,
    \* the wheel is shut down and started again
    u1 :> <<Op("Start", periodic), Op("Shutdown", periodic), Op("Start", oneshot),
            Op("Destroy", oneshot)>> @@ u2 :> <<>>,
    \* a timer is stopped and started again, another one is refused
    u1 :> <<Op("Start", periodic), Op("Stop", periodic), Op("Start", tooshort),
            Op("Start", periodic)>> @@ u2 :> <<>> }
=============================================================================
