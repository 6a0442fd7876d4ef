------------------------------- MODULE MCReadiness -------------------------------
(* Instances of CycleReadiness for TLC.                                      *)
EXTENDS CycleReadiness, MCReconciliation

\* A report is on the execution that the commands work on. The first command
\* begins before the report; the second, which may be alone in recording, at any
\* time after the first.
OneReported ==
    /\ OneExecution
    /\ pc[c2] # "idle" => pc[c1] # "idle"
    /\ \A v \in Readers : reader[v].pc # "idle" => pc[c1] # "idle"
    /\ \A v \in Readers : \A e \in Executions \ {reader[v].execution} :
          reader[v].pc # "idle" => Untouched(e)
=============================================================================
