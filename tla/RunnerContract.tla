--------------------------- MODULE RunnerContract ---------------------------
(***************************************************************************)
(* What the worker relies on when it awaits DockerRunner.run: at most one  *)
(* container ever, which starts, then ends; at most one report, and a      *)
(* report of success only about a container that ended successfully.  The  *)
(* contract promises neither that the container is gone when the report    *)
(* is made nor that it had started.                                        *)
(***************************************************************************)
CONSTANT NoReport

VARIABLES container, report

vars == <<container, report>>

Init == container = "none" /\ report = NoReport

Start == container = "none" /\ container' = "up" /\ UNCHANGED report

End ==
  /\ container = "up"
  /\ container' \in {"ok", "err"}
  /\ UNCHANGED report

Report(code) ==
  /\ report = NoReport
  /\ code = "ok" => container = "ok"
  /\ report' = code
  /\ UNCHANGED container

Next == Start \/ End \/ \E code \in {"ok", "err"} : Report(code)

Spec == Init /\ [][Next]_vars
=============================================================================
