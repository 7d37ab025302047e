--------------------------- MODULE GatewayMetrics ----------------------------
(***************************************************************************)
(* The connection counters of the gateway (internal/metrics/metrics.go)    *)
(* and the periodic report of them, on top of Gateway.                     *)
(*                                                                         *)
(* Every addition is atomic, and none is with another: handleConnection    *)
(* adds the session, then counts it in two steps, then starts its pumps;   *)
(* the deferred function of the read pump counts it out in two steps,      *)
(* then removes it.  The report loads the counters one after the other,    *)
(* and all of these come in between one another.                           *)
(*                                                                         *)
(* The counters of packets and messages only ever grow and are left out.   *)
(***************************************************************************)
EXTENDS Gateway, FiniteSets

CONSTANT CounterRange   \* a counter wraps around here (2^64)

(* A process never makes so many connections. *)
ASSUME CounterAssumption ==
    /\ CounterRange \in Nat
    /\ IsFiniteSet(Sessions) /\ Cardinality(Sessions) < CounterRange

VARIABLES
    TotalConnections, ActiveConnections, TotalDisconnections,
    cpc,        \* how far each connection has been counted
    ppc,        \* the counter that PrintStats loads next, "total" if it is idle
    report      \* what it has loaded

counters == <<TotalConnections, ActiveConnections, TotalDisconnections>>
reportVars == <<ppc, report>>
metricsVars == <<counters, cpc, reportVars>>
allVars == <<vars, metricsVars>>

(* report.starting is not printed: of the connections that the report saw  *)
(* no other trace of, those that were between their two additions.         *)
NewReport(n) == [total |-> n, active |-> 0, starting |-> 0, ended |-> 0]

MetricsInit ==
    /\ Init
    /\ TotalConnections = 0 /\ ActiveConnections = 0 /\ TotalDisconnections = 0
    /\ cpc = [s \in Sessions |-> "none"]
    /\ ppc = "total"
    /\ report = NewReport(0)

Goto(s, label) == cpc' = [cpc EXCEPT ![s] = label]

(* The two additions of handleConnection, after sessions.Add. *)
IncrementConnections(s) ==
    /\ \/ /\ cpc[s] = "added" /\ Goto(s, "total")
          /\ TotalConnections' = (TotalConnections + 1) % CounterRange
          /\ UNCHANGED ActiveConnections
       \/ /\ cpc[s] = "total" /\ Goto(s, "counted")
          /\ ActiveConnections' = (ActiveConnections + 1) % CounterRange
          /\ UNCHANGED TotalConnections
    /\ UNCHANGED <<TotalDisconnections, reportVars>>

(* Mutant: the active connections first. *)
DecrementActiveFirst(s) ==
    /\ rpc[s] = "unbind"
    /\ \/ /\ cpc[s] = "counted" /\ Goto(s, "ended")
          /\ ActiveConnections' = (ActiveConnections + (CounterRange - 1)) % CounterRange
          /\ UNCHANGED TotalDisconnections
       \/ /\ cpc[s] = "ended" /\ Goto(s, "gone")
          /\ TotalDisconnections' = (TotalDisconnections + 1) % CounterRange
          /\ UNCHANGED ActiveConnections
    /\ UNCHANGED <<TotalConnections, reportVars>>

(* The two additions of the deferred function, before sessions.Remove.     *)
(* Adding the largest number takes one off.                                *)
DecrementConnections(s) ==
    /\ rpc[s] = "unbind"
    /\ \/ /\ cpc[s] = "counted" /\ Goto(s, "ended")
          /\ TotalDisconnections' = (TotalDisconnections + 1) % CounterRange
          /\ UNCHANGED ActiveConnections
       \/ /\ cpc[s] = "ended" /\ Goto(s, "gone")
          /\ ActiveConnections' = (ActiveConnections + (CounterRange - 1)) % CounterRange
          /\ UNCHANGED TotalDisconnections
    /\ UNCHANGED <<TotalConnections, reportVars>>

(* The three loads of the report.  One report follows the other. *)
PrintStats ==
    /\ \/ /\ ppc = "total" /\ ppc' = "active"
          /\ report' = NewReport(TotalConnections)
       \/ /\ ppc = "active" /\ ppc' = "ended"
          /\ report' = [report EXCEPT
                           !.active = ActiveConnections,
                           !.starting = Cardinality({s \in Sessions : cpc[s] = "total"})]
       \/ /\ ppc = "ended" /\ ppc' = "total"
          /\ report' = [report EXCEPT !.ended = TotalDisconnections]
    /\ UNCHANGED <<counters, cpc>>

(* The pumps start when the connection is counted, and the read pump       *)
(* counts it out before anything else of the deferred function.            *)
Pumps(s) ==
    /\ cpc[s] \in {"counted", "ended", "gone"}
    /\ \/ WritePump(s)
       \/ ReadPump(s) /\ (rpc[s] = "unbind" => cpc[s] = "gone")

(* Every step of the gateway that leaves the counters alone. *)
Uncounted ==
    \/ \E s \in Sessions : Disconnect(s) \/ Pumps(s)
    \/ Arrive
    \/ Consumer

MetricsNext ==
    \/ \E s \in Sessions :
           HandleConnection(s) /\ Goto(s, "added") /\ UNCHANGED <<counters, reportVars>>
    \/ \E s \in Sessions :
           (IncrementConnections(s) \/ DecrementConnections(s)) /\ UNCHANGED vars
    \/ PrintStats /\ UNCHANGED vars
    \/ Uncounted /\ UNCHANGED metricsVars

MetricsSpec == MetricsInit /\ [][MetricsNext]_allVars

-----------------------------------------------------------------------------
(* Properties *)

(* The counters never run below zero (which would show as 2^64 - 1) and    *)
(* never claim more active connections than there are sessions.  Between   *)
(* two additions of a connection they need not add up; otherwise they do.  *)
(* A report, which loads them at three moments, need not add up even then, *)
(* but it never loses a connection: of those that it counts, every one is  *)
(* active or has ended, except those that were just being counted.  This   *)
(* rests on the order of the additions of DecrementConnections, against    *)
(* that of the loads.                                                      *)
ReportRight ==
    /\ ActiveConnections <= Cardinality(sessions)
    /\ (\A s \in Sessions : cpc[s] \in {"none", "added", "counted", "gone"}) =>
           TotalConnections = ActiveConnections + TotalDisconnections
    /\ ppc = "total" =>
           report.total <= report.active + report.ended + report.starting
=============================================================================
