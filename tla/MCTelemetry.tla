----------------------------- MODULE MCTelemetry -----------------------------
(* Instances of PoolTelemetry for TLC.                                       *)
EXTENDS PoolTelemetry

CONSTANTS ch1, ch2, p1, p2, n1, n2, worker1, native2

\* Two pools of one channel each.
OneEach == [ch \in {ch1, ch2} |-> IF ch = ch1 THEN p1 ELSE p2]

InOrderOfPools == <<ch1, ch2>>

\* The registry lists both pools, or the operator has disabled them, each in
\* another way.
Entry(p, active, monitored) ==
    [pool |-> p, active |-> active, monitored |-> monitored, url |-> TRUE]
AllOrNone == {{Entry(p1, TRUE, TRUE), Entry(p2, TRUE, TRUE)},
              {Entry(p1, FALSE, TRUE), Entry(p2, TRUE, FALSE)}}

\* One miner names its node itself, the other is mapped.
Native == [i \in {worker1, native2} |-> IF i = native2 THEN n2 ELSE NoNode]

Owners == [ch \in {ch1, ch2} |-> IF ch = ch1 THEN worker1 ELSE native2]

\* Three rows match the mapped identity: the longer prefix has it.
Mapped == {[id |-> 1, type |-> "glob", rank |-> 1, matches |-> {worker1, native2}, node |-> n2],
           [id |-> 2, type |-> "prefix", rank |-> 3, matches |-> {worker1}, node |-> n2],
           [id |-> 3, type |-> "prefix", rank |-> 5, matches |-> {worker1}, node |-> n1]}

\* At most two collectors run at a time: a third finds nothing that the second
\* does not. When there were both a restart and a fault they run one by one.
FewAtOnce ==
    Cardinality({c \in Collectors :
        pc[c] \notin {"idle", "skipped", "done", "crashed"}})
            <= IF restarts + faults > 1 THEN 1 ELSE 2

\* After a restart the last collector meets no fault: none comes after it.
LastIsWell ==
    restarts > 0 => pc[Max(Collectors)] \notin {"failing", "crashed"}
=============================================================================
