------------------------------- MODULE DevStack -------------------------------
(***************************************************************************)
(* The development stack as its console offers it (.dev/console/main.go,   *)
(* web/server.go): the form and the failures that it injects, and the      *)
(* panel of the dead letters with the counts.  The two share no state: the *)
(* panel shows letters without regard to the emails they came from.  A     *)
(* behaviour uses one of them, and the other stays as it is.               *)
(***************************************************************************)
EXTENDS DeadLetterMonitor, ChaosBench

VARIABLE tool       \* "panel" or "bench"

devVars == << tool, monitorVars, benchVars >>

\* What is not used keeps one of its initial states.
DevInit ==
    /\ tool \in {"panel", "bench"}
    /\ MonitorInit
    /\ tool # "panel" => holds = "lag"
    /\ BenchInit
    /\ tool # "bench" => stack = [env |-> "smtp", callbackStatus |-> 204, down |-> {}]

UsePanel == tool = "panel" /\ MonitorNext /\ UNCHANGED benchVars

UseBench == tool = "bench" /\ BenchNext /\ UNCHANGED monitorVars

DevNext ==
    /\ UNCHANGED tool
    /\ UsePanel \/ UseBench

DevSpec == DevInit /\ [][DevNext]_devVars

=============================================================================
