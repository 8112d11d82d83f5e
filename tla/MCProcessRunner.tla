-------------------------- MODULE MCProcessRunner --------------------------
(***************************************************************************)
(* Instances of ProcessRunner for TLC.  One tick stands for 50 ms in the   *)
(* ratio 350 : 50 : 100 rounded to 2 : 1 : 1, which keeps a later deadline *)
(* later; one descendant is enough to hold a pipe, to outlive the leader   *)
(* and to escape from the group.                                           *)
(***************************************************************************)
EXTENDS ProcessRunner

Captured == [terminal |-> FALSE, input |-> FALSE, outputs |-> {"stdout"}]
Attached == [terminal |-> TRUE, input |-> FALSE, outputs |-> {}]
Fed      == [terminal |-> FALSE, input |-> TRUE, outputs |-> {}]

MCEvery == {Captured, Attached, Fed}
MCCaptured == {Captured}
=============================================================================
