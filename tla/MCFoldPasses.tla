---------------------------- MODULE MCFoldPasses ----------------------------
(* Instances of FoldPasses. *)
EXTENDS FoldPasses

NoHeaderIds == [p \in Paths |-> NoId]
OneLiveId == [p \in Paths |-> IF p = "a" THEN "live" ELSE NoId]
=============================================================================
