----------------------------- MODULE MCGateway ------------------------------
(* Instances of Gateway for TLC: sessions and users are interchangeable in *)
(* the safety runs, where no liveness property is checked.  The counters   *)
(* and the messages do not touch each other, and are explored apart: an    *)
(* execution has either downstream messages or counters and reports.       *)
EXTENDS GatewayMetrics, TLC

VARIABLE explored

MCInit == MetricsInit /\ explored \in {"messages", "report"}

MCNext ==
    /\ \/ explored = "messages" /\ Next /\ UNCHANGED metricsVars
       \/ explored = "report" /\ MetricsNext /\ arrived' = arrived
    /\ UNCHANGED explored

MCSpec == MCInit /\ [][MCNext]_<<allVars, explored>>

Symmetry == Permutations(Sessions) \cup Permutations(Users)
=============================================================================
