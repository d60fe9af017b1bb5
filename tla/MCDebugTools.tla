---------------------------- MODULE MCDebugTools ----------------------------
(* Instances of DebugTools.                                                 *)
EXTENDS DebugTools

CONSTANTS c1, c2

Everything == [injection |-> TRUE, capped |-> 1, debug |-> TRUE, mcp |-> TRUE]
Default(t) == [tool |-> t, via |-> "rest", delay |-> FALSE, error |-> FALSE, auth |-> TRUE,
               args |-> TRUE, cores |-> 1, duration |-> 1]

\* Spikes of one client; spikes and scans of two; every tool in every way,
\* under each of the settings.
Spikes ==
  [settings |-> Everything, clients |-> {c1}, procs |-> 3,
   requests |-> {[Default("cpu_spike") EXCEPT !.cores = n, !.duration = 3 - n] : n \in 1 .. 2}]
Mixed ==
  [settings |-> Everything, clients |-> {c1, c2}, procs |-> 1,
   requests |-> {Default("cpu_spike"), Default("network_scan")}]
Calls ==
  {r \in Requests : r.tool # "cpu_spike" /\ r.cores = 1 /\ r.duration = 1}
Gate(i) ==
  [clients |-> {c1}, requests |-> Calls, procs |-> 0,
   settings |-> [injection |-> i % 2 = 1, capped |-> IF i = 9 THEN 0 ELSE 1,
                 debug |-> (i \div 2) % 2 = 1, mcp |-> (i \div 4) % 2 = 1]]
MCWorkloads == <<Spikes, Mixed>> \o [i \in 1 .. 9 |-> Gate(i)]
=============================================================================
