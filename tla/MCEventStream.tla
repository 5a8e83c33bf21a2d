---------------------------- MODULE MCEventStream ----------------------------
(***************************************************************************)
(* Model-checking instance of EventStream.  Both channels hold one item   *)
(* (the code's capacity is 100): with capacity one a full channel, the  *)
(* only case where send(..).await waits, is reached after a single       *)
(* message, and the broker's four events are enough to fill both        *)
(* channels while the pump and the caller each hold one more.           *)
(***************************************************************************)
EXTENDS EventStream

MCEvCap == 1
MCAckCap == 1
MCMaxEvents == 4
MCMaxNoise == 1

=============================================================================
