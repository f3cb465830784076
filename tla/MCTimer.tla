------------------------------ MODULE MCTimer -------------------------------
(* Timer for TLC: the idle thread and one more. *)
EXTENDS Timer

CONSTANTS idle, t1

MCThreads == {idle, t1}

\* print_uptime's period is longer than the time slice
MCPeriod == [k \in Kinds |-> CASE k = "keep_schedule" -> 2
                               [] k = "print_uptime" -> 3
                               [] OTHER -> 1]

MCRequests == {"print_uptime", "print_msg"}
=============================================================================
