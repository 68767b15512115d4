---------------------------- MODULE MCRunAttempt ----------------------------
EXTENDS AttemptInSystem

MCStreams == {"stdout", "stderr"}

(* A program that writes more to one stream than a pipe holds: the other   *)
(* reader has nothing to read until the program is over.                   *)
MCPlans == {[s \in MCStreams |-> IF s = "stdout" THEN 0 ELSE 2]}
=============================================================================
