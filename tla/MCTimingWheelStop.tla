-------------------------- MODULE MCTimingWheelStop --------------------------
(***************************************************************************)
(* One periodic timer on a wheel of two slots, started and stopped once.   *)
(***************************************************************************)
EXTENDS TimingWheel, TLC

CONSTANTS u1, periodic

MCPeriod == periodic :> 2
MCOneshot == periodic :> FALSE

Op(name) == [call |-> name, timer |-> periodic]

MCPlans == {u1 :> <<Op("Start"), Op("Stop")>>}
=============================================================================
