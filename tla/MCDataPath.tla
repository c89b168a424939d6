----------------------------- MODULE MCDataPath -----------------------------
(***************************************************************************)
(* A reader that fuses two channels, with rings of one message as they are *)
(* by default, and a reader of one channel with a ring of two.             *)
(***************************************************************************)
EXTENDS DataPath, TLC

CONSTANTS imu, gps, w1, w2, fuser, plain

MCInputs == fuser :> <<imu, gps>> @@ plain :> <<imu>>
MCSize == fuser :> 1 @@ plain :> 2

MCPlans ==
  { \* one reader, overrun by two writers
    [readers |-> {plain}, writes |-> w1 :> <<imu, imu, imu>> @@ w2 :> <<imu, imu>>],
    \* both channels of a fusion
    [readers |-> {fuser}, writes |-> w1 :> <<gps, imu, imu>> @@ w2 :> <<gps, imu>>],
    \* two readers of one channel
    [readers |-> {fuser, plain}, writes |-> w1 :> <<imu, gps>> @@ w2 :> <<>>] }
==============================================================================
