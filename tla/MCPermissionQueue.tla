-------------------------- MODULE MCPermissionQueue --------------------------
(***************************************************************************)
(* Model-checking instance of PermissionQueue: two concurrent commands   *)
(* (enough for the two lock orders to meet), two sessions (so requests   *)
(* of one session cannot hide mistakes in another's queue), and three    *)
(* requests (so one session can hold an active request and a queued one);*)
(* three responses let every request be answered once.                   *)
(***************************************************************************)
EXTENDS PermissionQueue

CONSTANTS p1, p2, s1, s2

MCProcs == {p1, p2}
MCSessions == {s1, s2}
MCMaxRequests == 3
MCMaxResponses == 3

=============================================================================
