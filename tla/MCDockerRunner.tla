-------------------------- MODULE MCDockerRunner ----------------------------
EXTENDS DockerRunner

(* Two streams and every amount of output. *)
MCStreams == {"stdout", "stderr"}
MCPlans == [MCStreams -> 0..MaxChunks]
=============================================================================
