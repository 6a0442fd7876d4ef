------------------------ MODULE PoolTelemetry_proofs ------------------------
(***************************************************************************)
(* What the collectors keep, for all collectors, pools, channels, mappings *)
(* and numbers of restarts and faults: the tables are well-formed, one run *)
(* writes at a time, and a run stores all of its rows or none; and, as     *)
(* long as runs store in the order of their observations, work is credited *)
(* once, to the node that did it, and none of it is lost.                  *)
(***************************************************************************)
EXTENDS PoolTelemetry, Sums_proofs, TLAPS

Working == {"locked", "polling"}

\* The rows of an open transaction are of its collector, and there are none but
\* while it polls.
BatchInv ==
    \A c \in Collectors :
        /\ \A r \in batch[c].snapshots \cup batch[c].deltas : r.at = c
        /\ pc[c] # "polling" => batch[c] = NoRows

\* A collector that polls or has stored has its run row, and none stores before
\* its commit.
RowInv ==
    \A c \in Collectors :
        /\ pc[c] = "polling" \/ c \in stored =>
               \E i \in 1 .. Len(runs) : runs[i].collector = c
        /\ pc[c] \in {"idle", "started", "locked", "polling"} => c \notin stored

RunsInv == RunsSound /\ BatchInv /\ RowInv

Run == [collector : Collectors, status : {"running", "success", "failed"}]

-----------------------------------------------------------------------------
(* Operators.                                                              *)

LEMMA ResolveFacts ==
  ASSUME NEW i \in Identities
  PROVE  ResolveNode(i) \in Nodes \cup {NoNode}
<1> DEFINE types == {t \in 1 .. 3 : Preferred(MappingTypes[t], i) # {}}
           M     == Preferred(MappingTypes[Min(types)], i)
<1>1. CASE NativeNode[i] # NoNode \/ types = {}
  BY <1>1, ChannelsAssumption DEF ResolveNode
<1>2. CASE NativeNode[i] = NoNode /\ types # {}
  <2>1. \E t \in types : \A u \in types : t <= u
    <3>1. types # {} /\ \A t \in types : t = 1 \/ t = 2 \/ t = 3
      BY <1>2
    <3> HIDE DEF types
    <3>3. CASE 1 \in types
      BY <3>1, <3>3
    <3>4. CASE 1 \notin types /\ 2 \in types
      BY <3>1, <3>4
    <3>5. CASE 1 \notin types /\ 2 \notin types
      BY <3>1, <3>5
    <3> QED
      BY <3>3, <3>4, <3>5
  <2>2. Min(types) \in types
    BY <2>1 DEF Min
  <2>3. M # {}
    BY <2>2
  <2>4. \A m \in M : m.node \in Nodes
    BY MappingsAssumption DEF Preferred
  <2>5. ResolveNode(i) = (CHOOSE m \in M : TRUE).node
    BY <1>2 DEF ResolveNode
  <2> HIDE DEF M
  <2> QED
    BY <2>3, <2>4, <2>5
<1> QED
  BY <1>1, <1>2

\* The end of the run of c is written to its rows and to no other.
LEMMA RunsWithFacts ==
  ASSUME runs \in Seq(Run), NEW c \in Collectors, NEW s \in {"running", "success", "failed"},
         runs' = RunsWith(c, s)
  PROVE  /\ runs' \in Seq(Run) /\ Len(runs') = Len(runs)
         /\ \A i \in 1 .. Len(runs) : runs'[i].collector = runs[i].collector
         /\ \A i \in 1 .. Len(runs) : runs[i].collector # c => runs'[i] = runs[i]
         /\ \A i \in 1 .. Len(runs) :
              runs[i].collector = c => runs'[i] = [collector |-> c, status |-> s]
<1> DEFINE f(i) == IF runs[i].collector = c THEN [collector |-> c, status |-> s] ELSE runs[i]
<1>1. runs' = [i \in 1 .. Len(runs) |-> f(i)]
  BY DEF RunsWith
<1>2. \A i \in 1 .. Len(runs) : f(i) \in Run
  <2>1. [collector |-> c, status |-> s] \in Run
    BY DEF Run
  <2>2. \A i \in 1 .. Len(runs) : runs[i] \in Run
    OBVIOUS
  <2> QED
    BY <2>1, <2>2
<1>3. \A i \in 1 .. Len(runs) : runs[i].collector = c => f(i) = [collector |-> c, status |-> s]
  OBVIOUS
<1>4. \A i \in 1 .. Len(runs) : runs[i].collector # c => f(i) = runs[i]
  OBVIOUS
<1> HIDE DEF f
<1>5. runs' \in Seq(Run) /\ Len(runs') = Len(runs)
  BY <1>1, <1>2
<1>6. \A i \in 1 .. Len(runs) : runs'[i] = f(i)
  BY <1>1
<1> QED
  BY <1>3, <1>4, <1>5, <1>6

\* A step that leaves the rows of the tables alone, moves one collector, keeps
\* the lock with it, and ends no transaction but by rolling it back.
LEMMA MoveStep ==
  ASSUME RunsInv, NEW c \in Collectors, NEW x,
         x \in {"idle", "started", "locked", "failing", "unlocking", "skipped", "done", "crashed"},
         pc' = [pc EXCEPT ![c] = x],
         snapshots' = snapshots, deltas' = deltas, runs' = runs, stored' = stored,
         counter' = counter, identity' = identity, done' = done, restarts' = restarts,
         todo' \in [Collectors -> SUBSET Channels], faults' \in Nat,
         holder' \in Collectors \cup {NoCollector},
         \/ batch' = batch /\ pc[c] # "polling"
         \/ batch' = [batch EXCEPT ![c] = NoRows],
         x \in Working => holder' = c,
         \A d \in Collectors \ {c} : pc[d] \in Working => holder' = d,
         x \in {"idle", "started", "locked"} =>
             pc[c] \in {"idle", "started", "locked", "polling"}
  PROVE  RunsInv'
<1> USE DEF Working
<1>1. NoRows \in Batch
  BY DEF NoRows, Batch
<1>2. batch' \in [Collectors -> Batch]
  BY <1>1 DEF RunsInv, RunsSound, TypeOK
<1>3. /\ pc'[c] = x /\ \A d \in Collectors \ {c} : pc'[d] = pc[d] /\ batch'[d] = batch[d]
      /\ batch'[c] = NoRows
  BY DEF RunsInv, RunsSound, TypeOK, BatchInv
<1>4. TypeOK'
  BY <1>2 DEF RunsInv, RunsSound, TypeOK
<1>5. OneRunAtATime'
  BY <1>3 DEF OneRunAtATime
<1>6. AllOrNothing'
  BY DEF RunsInv, RunsSound, AllOrNothing
<1>7. BatchInv'
  BY <1>3 DEF RunsInv, BatchInv, NoRows
<1>8. RowInv'
  BY <1>3 DEF RunsInv, RowInv
<1> QED
  BY <1>4, <1>5, <1>6, <1>7, <1>8 DEF RunsInv, RunsSound

\* Whoever works holds the lock, and so nobody else works.
LEMMA Alone ==
  ASSUME RunsInv, NEW c \in Collectors, pc[c] \in Working \/ holder = NoCollector
  PROVE  /\ pc[c] \in Working => holder = c
         /\ \A d \in Collectors \ {c} : pc[d] \notin Working
  BY ChannelsAssumption DEF RunsInv, RunsSound, OneRunAtATime, Working, NoCollector

-----------------------------------------------------------------------------
(* The steps.                                                              *)
LEMMA PoolSteps ==
  ASSUME RunsInv,
         (\E ch \in Channels : Share(ch)) \/ (\E p \in Pools : PoolRestart(p))
  PROVE  RunsInv'
<1>1. /\ counter' \in [Channels -> Nat] /\ identity' \in [Channels -> Identities]
      /\ done' \in [Nodes \cup {NoNode} -> Nat] /\ restarts' \in Nat
  <2>1. CASE \E ch \in Channels : Share(ch)
    <3>1. PICK ch \in Channels : Share(ch)
      BY <2>1
    <3>2. ResolveNode(identity[ch]) \in Nodes \cup {NoNode}
      BY ResolveFacts DEF RunsInv, RunsSound, TypeOK
    <3> QED
      BY <3>1, <3>2 DEF Share, RunsInv, RunsSound, TypeOK
  <2>2. CASE \E p \in Pools : PoolRestart(p)
    BY <2>2 DEF PoolRestart, RunsInv, RunsSound, TypeOK
  <2> QED
    BY <2>1, <2>2
<1>2. /\ snapshots' = snapshots /\ deltas' = deltas /\ runs' = runs /\ stored' = stored
      /\ holder' = holder /\ pc' = pc /\ todo' = todo /\ batch' = batch /\ faults' = faults
  BY DEF Share, PoolRestart, tables, locals
<1> QED
  BY <1>1, <1>2 DEF RunsInv, RunsSound, TypeOK, OneRunAtATime, AllOrNothing,
                    BatchInv, RowInv

\* Runs begin, fail and give the lock back.
LEMMA QuietSteps ==
  ASSUME RunsInv, NEW c \in Collectors,
         Start(c) \/ TryLock(c) \/ Fail(c) \/ Release(c) \/ Crash(c)
  PROVE  RunsInv'
<1>1. /\ snapshots' = snapshots /\ deltas' = deltas /\ runs' = runs /\ stored' = stored
      /\ counter' = counter /\ identity' = identity /\ done' = done /\ restarts' = restarts
  BY DEF Start, TryLock, Fail, Release, Crash, poolVars, tables
<1>2. /\ faults' \in Nat /\ holder \in Collectors \cup {NoCollector}
      /\ todo' \in [Collectors -> SUBSET Channels]
  <2>1. todo \in [Collectors -> SUBSET Channels] /\ faults \in Nat
        /\ holder \in Collectors \cup {NoCollector}
    BY DEF RunsInv, RunsSound, TypeOK
  <2>2. todo' = todo \/ todo' = [todo EXCEPT ![c] = {}]
    BY DEF Start, TryLock, Fail, Release, Crash
  <2>3. faults' = faults \/ faults' = faults + 1
    BY DEF Start, TryLock, Fail, Release, Crash
  <2> QED
    BY <2>1, <2>2, <2>3
<1>3. \A d \in Collectors : pc[d] \in Working => holder = d
  BY DEF RunsInv, RunsSound, OneRunAtATime, Working
<1> USE <1>1, <1>2, <1>3 DEF Working
<1>4. CASE Start(c)
  BY <1>4, MoveStep DEF Start
<1>5. CASE TryLock(c)
  <2>1. CASE holder = NoCollector
    <3>1. \A d \in Collectors \ {c} : pc[d] \notin Working
      BY <2>1, Alone
    <3>2. holder' = c /\ pc' = [pc EXCEPT ![c] = "locked"] /\ batch' = batch
          /\ pc[c] = "started" /\ faults' = faults
      BY <1>5, <2>1 DEF TryLock
    <3> QED
      BY <3>1, <3>2, MoveStep
  <2>2. CASE holder # NoCollector
    <3>1. holder' = holder /\ pc' = [pc EXCEPT ![c] = "skipped"] /\ batch' = batch
          /\ pc[c] = "started" /\ faults' = faults
      BY <1>5, <2>2 DEF TryLock
    <3> QED
      BY <3>1, MoveStep
  <2> QED
    BY <2>1, <2>2
<1>6. CASE Fail(c)
  <2>1. /\ pc[c] = "polling" /\ pc' = [pc EXCEPT ![c] = "failing"]
        /\ holder' \in Collectors \cup {NoCollector}
        /\ batch' = [batch EXCEPT ![c] = NoRows]
    BY <1>6 DEF Fail
  <2>2. \A d \in Collectors \ {c} : pc[d] \notin Working
    BY <2>1, Alone
  <2> QED
    BY <2>1, <2>2, MoveStep
<1>7. CASE Release(c)
  <2>1. /\ \A d \in Collectors \ {c} : pc[d] \in Working => holder' = d
        /\ holder' \in Collectors \cup {NoCollector}
    BY <1>7 DEF Release
  <2>2. /\ pc[c] = "unlocking" /\ pc' = [pc EXCEPT ![c] = "done"] /\ batch' = batch
    BY <1>7 DEF Release
  <2> QED
    BY <2>1, <2>2, MoveStep
<1>8. CASE Crash(c)
  <2>1. /\ \A d \in Collectors \ {c} : pc[d] \in Working => holder' = d
        /\ holder' \in Collectors \cup {NoCollector}
    BY <1>8 DEF Crash
  <2>2. /\ pc' = [pc EXCEPT ![c] = "crashed"] /\ batch' = [batch EXCEPT ![c] = NoRows]
    BY <1>8 DEF Crash
  <2> QED
    BY <2>1, <2>2, MoveStep
<1> QED
  BY <1>4, <1>5, <1>6, <1>7, <1>8

LEMMA OpenRunStep ==
  ASSUME RunsInv, NEW c \in Collectors, OpenRun(c)
  PROVE  RunsInv'
<1>1. /\ snapshots' = snapshots /\ deltas' = deltas /\ stored' = stored /\ holder' = holder
      /\ counter' = counter /\ identity' = identity /\ done' = done /\ restarts' = restarts
      /\ faults' = faults /\ batch' = batch /\ pc[c] = "locked"
  BY DEF OpenRun, poolVars
<1>2. \A d \in Collectors : pc[d] \in Working => holder = d
  BY DEF RunsInv, RunsSound, OneRunAtATime, Working
<1>3. CASE runs' = runs /\ todo' = todo /\ pc' = [pc EXCEPT ![c] = "unlocking"]
  BY <1>1, <1>2, <1>3, MoveStep DEF Working, RunsInv, RunsSound, TypeOK
<1>4. ASSUME NEW targets,
             runs' = Append(runs, [collector |-> c, status |-> "running"]),
             todo' = [todo EXCEPT ![c] = {ch \in Channels : PoolOf[ch] \in targets}],
             pc' = [pc EXCEPT ![c] = "polling"]
      PROVE  RunsInv'
  <2> DEFINE new == [collector |-> c, status |-> "running"]
  <2>2. new \in Run /\ new.collector = c /\ new.status = "running"
    BY DEF Run
  <2> HIDE DEF new
  <2>3. runs \in Seq(Run)
    BY DEF RunsInv, RunsSound, TypeOK, Run
  <2>4. /\ runs' \in Seq(Run) /\ Len(runs') = Len(runs) + 1 /\ runs'[Len(runs) + 1] = new
        /\ \A i \in 1 .. Len(runs) : runs'[i] = runs[i]
    BY <1>4, <2>2, <2>3 DEF new
  <2>5. todo' \in [Collectors -> SUBSET Channels]
    BY <1>4 DEF RunsInv, RunsSound, TypeOK
  <2>6. /\ pc'[c] = "polling" /\ \A d \in Collectors \ {c} : pc'[d] = pc[d]
        /\ pc' \in [Collectors -> {"idle", "started", "locked", "polling", "failing",
                              "unlocking", "skipped", "done", "crashed"}]
    BY <1>4 DEF RunsInv, RunsSound, TypeOK
  <2>7. \A i \in 1 .. Len(runs') : runs'[i].status = "success" =>
            i \in 1 .. Len(runs) /\ runs'[i] = runs[i]
    BY <2>2, <2>3, <2>4
  <2>8. TypeOK'
    BY <1>1, <2>4, <2>5, <2>6 DEF RunsInv, RunsSound, TypeOK, Run
  <2>9. OneRunAtATime'
    BY <1>1, <1>2, <2>6 DEF OneRunAtATime, Working
  <2>10. AllOrNothing'
    BY <1>1, <2>7 DEF RunsInv, RunsSound, AllOrNothing
  <2>11. BatchInv'
    BY <1>1, <2>6 DEF RunsInv, BatchInv
  <2>12. RowInv'
    <3>1. \E i \in 1 .. Len(runs') : runs'[i].collector = c
      BY <2>2, <2>3, <2>4
    <3>2. \A d \in Collectors : (\E i \in 1 .. Len(runs) : runs[i].collector = d)
                                  => \E i \in 1 .. Len(runs') : runs'[i].collector = d
      BY <2>3, <2>4
    <3> QED
      BY <1>1, <2>6, <3>1, <3>2 DEF RunsInv, RowInv
  <2> QED
    BY <2>8, <2>9, <2>10, <2>11, <2>12 DEF RunsInv, RunsSound
<1> QED
  BY <1>3, <1>4 DEF OpenRun

LEMMA PollStep ==
  ASSUME RunsInv, NEW c \in Collectors, NEW ch \in Channels, Poll(c, ch)
  PROVE  RunsInv'
<1> DEFINE snap == [channel |-> ch, work |-> counter[ch], at |-> c]
           new  == {d \in NewDeltas(c, ch) :
                      \A e \in deltas \cup batch[c].deltas : ~ SameKey(d, e)}
           rows == [snapshots |-> batch[c].snapshots \cup {snap},
                    deltas |-> batch[c].deltas \cup new]
<1>1. /\ snapshots' = snapshots /\ deltas' = deltas /\ runs' = runs /\ stored' = stored
      /\ counter' = counter /\ identity' = identity /\ done' = done /\ restarts' = restarts
      /\ pc' = pc /\ faults' = faults /\ pc[c] = "polling" /\ holder' = holder
      /\ todo' = [todo EXCEPT ![c] = @ \ {ch}]
      /\ batch' = batch \/ batch' = [batch EXCEPT ![c] = rows]
  BY DEF Poll, poolVars, tables
<1>2. batch[c] \in Batch /\ \A r \in batch[c].snapshots \cup batch[c].deltas : r.at = c
  BY DEF RunsInv, RunsSound, TypeOK, BatchInv
<1>3. snap \in Snapshot /\ snap.at = c
  BY DEF Snapshot, RunsInv, RunsSound, TypeOK
<1>4. new \subseteq Delta /\ \A d \in new : d.at = c
  <2>1. \A s \in Previous(c, ch) : s.work \in Nat
    BY <1>2 DEF Previous, VisibleSnapshots, RunsInv, RunsSound, TypeOK, Batch, Snapshot
  <2>2. ResolveNode(identity[ch]) \in Nodes \cup {NoNode}
    BY ResolveFacts DEF RunsInv, RunsSound, TypeOK
  <2>3. counter[ch] \in Nat
    BY DEF RunsInv, RunsSound, TypeOK
  <2>4. \A d \in NewDeltas(c, ch) : d \in Delta /\ d.at = c
    BY <2>1, <2>2, <2>3 DEF NewDeltas, Delta
  <2> QED
    BY <2>4
<1> HIDE DEF snap, new
<1>5. rows \in Batch /\ \A r \in rows.snapshots \cup rows.deltas : r.at = c
  BY <1>2, <1>3, <1>4 DEF Batch
<1> HIDE DEF rows
<1>6. TypeOK'
  BY <1>1, <1>5 DEF RunsInv, RunsSound, TypeOK
<1>7. BatchInv'
  BY <1>1, <1>5 DEF RunsInv, RunsSound, TypeOK, BatchInv
<1> QED
  BY <1>1, <1>6, <1>7 DEF RunsInv, RunsSound, OneRunAtATime, AllOrNothing, RowInv

\* What a step that ends the run of c with s has in common.
LEMMA EndFacts ==
  ASSUME RunsInv, NEW c \in Collectors, NEW s \in {"success", "failed"}, runs' = RunsWith(c, s),
         stored \subseteq stored', s = "success" => c \in stored'
  PROVE  /\ runs' \in Seq(Run)
         /\ \A i \in 1 .. Len(runs') : runs'[i].status = "success" => runs'[i].collector \in stored'
         /\ \A d \in Collectors : (\E i \in 1 .. Len(runs) : runs[i].collector = d)
                                    => \E i \in 1 .. Len(runs') : runs'[i].collector = d
<1>1. runs \in Seq(Run)
  BY DEF RunsInv, RunsSound, TypeOK, Run
<1>2. /\ runs' \in Seq(Run) /\ Len(runs') = Len(runs)
      /\ \A i \in 1 .. Len(runs) : runs'[i].collector = runs[i].collector
      /\ \A i \in 1 .. Len(runs) : runs[i].collector # c => runs'[i] = runs[i]
      /\ \A i \in 1 .. Len(runs) :
           runs[i].collector = c => runs'[i] = [collector |-> c, status |-> s]
  BY <1>1, RunsWithFacts
<1>3. ASSUME NEW i \in 1 .. Len(runs'), runs'[i].status = "success"
      PROVE  runs'[i].collector \in stored'
  <2>1. CASE runs[i].collector = c
    BY <1>2, <1>3, <2>1
  <2>2. CASE runs[i].collector # c
    <3>1. runs'[i] = runs[i] /\ i \in 1 .. Len(runs)
      BY <1>2, <2>2
    <3> QED
      BY <1>3, <3>1 DEF RunsInv, RunsSound, AllOrNothing
  <2> QED
    BY <2>1, <2>2
<1> QED
  BY <1>2, <1>3

LEMMA StoreStep ==
  ASSUME RunsInv, NEW c \in Collectors, Commit(c) \/ CommitUnanswered(c)
  PROVE  RunsInv'
<1>1. /\ counter' = counter /\ identity' = identity /\ done' = done
      /\ restarts' = restarts /\ todo' = todo /\ pc[c] = "polling"
      /\ snapshots' = snapshots \cup batch[c].snapshots
      /\ deltas' = deltas \cup batch[c].deltas /\ stored' = stored \cup {c}
      /\ runs' = RunsWith(c, "success") /\ batch' = [batch EXCEPT ![c] = NoRows]
  BY DEF Commit, CommitUnanswered, Store, poolVars
<1>2. PICK x \in {"unlocking", "failing"} : pc' = [pc EXCEPT ![c] = x]
  BY DEF Commit, CommitUnanswered
<1>3. faults' \in Nat /\ holder' \in Collectors \cup {NoCollector}
  BY DEF Commit, CommitUnanswered, RunsInv, RunsSound, TypeOK
<1>4. /\ runs' \in Seq(Run)
      /\ \A i \in 1 .. Len(runs') : runs'[i].status = "success" => runs'[i].collector \in stored'
      /\ \A d \in Collectors : (\E i \in 1 .. Len(runs) : runs[i].collector = d)
                                 => \E i \in 1 .. Len(runs') : runs'[i].collector = d
  <2>1. stored \subseteq stored' /\ c \in stored'
    BY <1>1
  <2> QED
    BY <1>1, <2>1, EndFacts
<1>5. batch[c] \in Batch /\ \A r \in batch[c].snapshots \cup batch[c].deltas : r.at = c
  BY DEF RunsInv, RunsSound, TypeOK, BatchInv
<1>6. NoRows \in Batch /\ NoRows.snapshots = {} /\ NoRows.deltas = {}
  BY DEF NoRows, Batch
<1>7. snapshots' \subseteq Snapshot /\ deltas' \subseteq Delta /\ stored' \subseteq Collectors
  BY <1>1, <1>5 DEF Batch, RunsInv, RunsSound, TypeOK
<1>8. TypeOK'
  BY <1>1, <1>2, <1>3, <1>4, <1>6, <1>7 DEF RunsInv, RunsSound, TypeOK, Run
<1>9. pc'[c] = x /\ \A d \in Collectors \ {c} : pc'[d] = pc[d] /\ batch'[d] = batch[d]
  BY <1>1, <1>2 DEF RunsInv, RunsSound, TypeOK
<1>10. OneRunAtATime'
  BY <1>1, <1>9, Alone DEF OneRunAtATime, Working
<1>11. AllOrNothing'
  BY <1>1, <1>4, <1>5 DEF RunsInv, RunsSound, AllOrNothing
<1>12. BatchInv'
  BY <1>1, <1>6, <1>9 DEF RunsInv, RunsSound, TypeOK, BatchInv
<1>13. RowInv'
  BY <1>1, <1>4, <1>9 DEF RunsInv, RowInv
<1> QED
  BY <1>8, <1>10, <1>11, <1>12, <1>13 DEF RunsInv, RunsSound

LEMMA FinishFailedStep ==
  ASSUME RunsInv, NEW c \in Collectors, FinishFailed(c)
  PROVE  RunsInv'
<1>1. /\ holder' = holder /\ counter' = counter /\ identity' = identity /\ done' = done
      /\ restarts' = restarts /\ todo' = todo /\ pc[c] = "failing" /\ faults' \in Nat
      /\ snapshots' = snapshots /\ deltas' = deltas /\ stored' = stored /\ batch' = batch
      /\ pc' = [pc EXCEPT ![c] = "unlocking"]
      /\ runs' = runs \/ runs' = RunsWith(c, "failed")
  BY DEF FinishFailed, poolVars, RunsInv, RunsSound, TypeOK
<1>2. \A d \in Collectors : pc[d] \in Working => holder = d
  BY DEF RunsInv, RunsSound, OneRunAtATime, Working
<1>3. CASE runs' = runs
  BY <1>1, <1>2, <1>3, MoveStep DEF RunsInv, RunsSound, TypeOK, Working
<1>4. CASE runs' = RunsWith(c, "failed")
  <2>1. /\ runs' \in Seq(Run)
        /\ \A i \in 1 .. Len(runs') : runs'[i].status = "success" => runs'[i].collector \in stored'
        /\ \A d \in Collectors : (\E i \in 1 .. Len(runs) : runs[i].collector = d)
                                   => \E i \in 1 .. Len(runs') : runs'[i].collector = d
    BY <1>1, <1>4, EndFacts
  <2>2. TypeOK'
    BY <1>1, <2>1 DEF RunsInv, RunsSound, TypeOK, Run
  <2>3. pc'[c] = "unlocking" /\ \A d \in Collectors \ {c} : pc'[d] = pc[d]
    BY <1>1 DEF RunsInv, RunsSound, TypeOK
  <2>4. OneRunAtATime'
    BY <1>1, <2>3 DEF RunsInv, RunsSound, OneRunAtATime
  <2>5. AllOrNothing'
    BY <1>1, <2>1 DEF RunsInv, RunsSound, AllOrNothing
  <2>6. BatchInv'
    BY <1>1, <2>3 DEF RunsInv, BatchInv
  <2>7. RowInv'
    BY <1>1, <2>1, <2>3 DEF RunsInv, RowInv
  <2> QED
    BY <2>2, <2>4, <2>5, <2>6, <2>7 DEF RunsInv, RunsSound
<1> QED
  BY <1>1, <1>3, <1>4

LEMMA RunsInit == Init => RunsInv
<1> SUFFICES ASSUME Init PROVE RunsInv
  OBVIOUS
<1>1. NoRows \in Batch /\ NoRows.snapshots = {} /\ NoRows.deltas = {}
  BY DEF NoRows, Batch
<1>2. TypeOK
  BY <1>1, ChannelsAssumption DEF Init, TypeOK
<1>3. \A c \in Collectors : pc[c] = "idle" /\ batch[c] = NoRows
  BY DEF Init
<1>4. OneRunAtATime /\ AllOrNothing /\ BatchInv
  BY <1>1, <1>3 DEF Init, OneRunAtATime, AllOrNothing, BatchInv
<1>5. RowInv
  BY <1>3 DEF Init, RowInv
<1> QED
  BY <1>2, <1>4, <1>5 DEF RunsInv, RunsSound

LEMMA RunsStep == RunsInv /\ [Next]_vars => RunsInv'
<1> SUFFICES ASSUME RunsInv, [Next]_vars PROVE RunsInv'
  OBVIOUS
<1>1. CASE UNCHANGED vars
  BY <1>1 DEF vars, poolVars, tables, locals, RunsInv, RunsSound, TypeOK, OneRunAtATime,
              AllOrNothing, BatchInv, RowInv
<1>2. CASE Next
  BY <1>2, PoolSteps, QuietSteps, OpenRunStep, PollStep, StoreStep, FinishFailedStep
     DEF Next, Collect
<1> QED
  BY <1>1, <1>2

\* The tables are well-formed, one run writes at a time, and a run stores all of
\* its rows or none, however collectors are started and wherever they fail.
THEOREM RunsStaySound == Spec => []RunsSound
<1>1. RunsInv => RunsSound
  BY DEF RunsInv
<1> QED
  BY <1>1, RunsInit, RunsStep, PTL DEF Spec

-----------------------------------------------------------------------------
(* What the rows account for.                                              *)

\* The latest snapshots of channel ch among S.
Latest(S, ch) ==
    {s \in S : s.channel = ch /\ \A o \in S : o.channel = ch => s.at >= o.at}

\* Work on counter k of channel ch since its latest snapshot, if there is one and
\* the counter is past it: the next delta.
Open(S, k, ch) ==
    IF \E s \in Latest(S, ch) : k > s.work
    THEN k - (CHOOSE s \in Latest(S, ch) : TRUE).work ELSE 0

\* ... and of the channels that node n owns now.
OpenOf(S, k, owner, n) ==
    [ch \in Channels |-> IF ResolveNode(owner[ch]) = n THEN Open(S, k[ch], ch) ELSE 0]

Tally(D, n) == SumOf({d \in D : d.node = n})

\* The deltas of a channel with counter k run from its first snapshot to its last.
Gapless(S, D, k, ch) ==
    LET rows == {s \in S : s.channel = ch}
        paid == {d \in D : d.channel = ch}
    IN IF rows = {} THEN paid = {}
       ELSE \E first, last \in rows :
               /\ \A o \in rows : /\ first.work <= o.work /\ o.work <= last.work
                                  /\ o.at <= last.at /\ (o.at = last.at => o = last)
               /\ last.work <= k
               /\ SumOf(paid) = last.work - first.work

\* Snapshots S and deltas D are right about counters k, owners and work done w.
Accounted(S, D, k, owner, w, restarted) ==
    /\ IsFiniteSet(D)
    /\ \A s, t \in S : s.channel = t.channel /\ s.at = t.at => s = t
    /\ \A n \in Nodes : Tally(D, n) + SumOver(OpenOf(S, k, owner, n), Channels) <= w[n]
    /\ ~ restarted => \A ch \in Channels : Gapless(S, D, k[ch], ch)

\* Everything that is stored was observed before c.
Latecomer(c) == \A s \in snapshots : s.at < c

\* The run of the collector that polls is the last one, and it has polled the
\* channels of its rows.
PollingRun ==
    \A c \in Collectors :
        /\ pc[c] = "polling" => Len(runs) > 0 /\ runs[Len(runs)].collector = c
        /\ \A r \in batch[c].snapshots \cup batch[c].deltas : r.channel \notin todo[c]

StoredRows ==
    InOrder => Accounted(snapshots, deltas, counter, identity, done, restarts > 0)

OpenRows ==
    \A c \in Collectors :
        pc[c] = "polling" /\ InOrder /\ Latecomer(c) =>
            Accounted(snapshots \cup batch[c].snapshots, deltas \cup batch[c].deltas,
                      counter, identity, done, restarts > 0)

CountInv == RunsInv /\ PollingRun /\ StoredRows /\ OpenRows

LEMMA ChannelsAreFinite == IsFiniteSet(Channels)
<1>1. PICK s : s = PollOrder
  OBVIOUS
<1>2. s \in Seq(Channels)
  BY <1>1, ChannelsAssumption
<1>3. Len(s) \in Nat /\ DOMAIN s = 1 .. Len(s)
  BY <1>2
<1>4. IsFiniteSet(DOMAIN s)
  BY <1>3, FS_Interval
<1>5. IsFiniteSet({s[i] : i \in DOMAIN s})
  BY <1>4, ImageIsFinite
<1>6. Channels \subseteq {s[i] : i \in DOMAIN s}
  BY <1>1, ChannelsAssumption
<1> QED
  BY <1>5, <1>6, FS_Subset

\* The deltas are numbers of units; one more delta adds its own.
LEMMA SumOfAdd ==
  ASSUME NEW D, IsFiniteSet(D), D \subseteq Delta, NEW d \in Delta, d \notin D
  PROVE  SumOf(D) \in Nat /\ SumOf(D \cup {d}) = SumOf(D) + (d.to - d.from)
<1> DEFINE f == [x \in D \cup {d} |-> x.to - x.from]
           g == [x \in D |-> x.to - x.from]
<1>1. \A x \in D \cup {d} : f[x] = x.to - x.from /\ f[x] \in Nat
  BY DEF Delta
<1>2. \A x \in D : g[x] = f[x] /\ g[x] \in Nat
  BY <1>1
<1>3. SumOf(D \cup {d}) = SumOver(f, D \cup {d}) /\ SumOf(D) = SumOver(g, D)
  BY DEF SumOf
<1>4. f[d] = d.to - d.from
  BY <1>1
<1> HIDE DEF f, g
<1>5. SumOver(f, D \cup {d}) = SumOver(f, D) + f[d]
  <2>1. \A x \in D \cup {d} : f[x] \in Int
    BY <1>1
  <2> QED
    BY <2>1, SumOverAdd
<1>6. SumOver(g, D) = SumOver(f, D)
  <2>1. \A x \in D : g[x] \in Int /\ g[x] = f[x]
    BY <1>2
  <2> QED
    BY <2>1, SumOverEqual
<1>7. SumOver(g, D) \in Nat
  BY <1>2, SumOverNat
<1> QED
  BY <1>3, <1>4, <1>5, <1>6, <1>7

LEMMA SumOfNothing == SumOf({}) = 0
  BY SumOverEmpty DEF SumOf

LEMMA SumOfType ==
  ASSUME NEW D, IsFiniteSet(D), D \subseteq Delta PROVE SumOf(D) \in Nat
<1> DEFINE f == [x \in D |-> x.to - x.from]
<1>1. \A x \in D : f[x] \in Nat
  BY DEF Delta
<1>2. SumOf(D) = SumOver(f, D)
  BY DEF SumOf
<1> HIDE DEF f
<1> QED
  BY <1>1, <1>2, SumOverNat

\* Snapshots of a channel are told apart by their times.
Distinct(S) == \A s, t \in S : s.channel = t.channel /\ s.at = t.at => s = t

\* A channel has at most one latest snapshot, and its next delta starts there.
LEMMA OpenFacts ==
  ASSUME NEW S, S \subseteq Snapshot, Distinct(S), NEW k \in Nat, NEW ch
  PROVE  /\ Open(S, k, ch) \in Nat
         /\ \A s \in Latest(S, ch) : /\ Latest(S, ch) = {s}
                                     /\ k > s.work => Open(S, k, ch) = k - s.work
                                     /\ ~ (k > s.work) => Open(S, k, ch) = 0
         /\ Latest(S, ch) = {} => Open(S, k, ch) = 0
<1>1. CASE Latest(S, ch) = {}
  BY <1>1 DEF Open
<1>2. ASSUME NEW s \in Latest(S, ch)
      PROVE  /\ Latest(S, ch) = {s} /\ Open(S, k, ch) \in Nat
             /\ k > s.work => Open(S, k, ch) = k - s.work
             /\ ~ (k > s.work) => Open(S, k, ch) = 0
  <2>1. ASSUME NEW t \in Latest(S, ch) PROVE t = s
    <3>1. s \in S /\ t \in S /\ s.channel = ch /\ t.channel = ch /\ s.at >= t.at /\ t.at >= s.at
      BY DEF Latest
    <3>2. s.at \in Nat /\ t.at \in Nat
      BY <3>1, ChannelsAssumption DEF Snapshot
    <3> QED
      BY <3>1, <3>2 DEF Distinct
  <2>2. Latest(S, ch) = {s}
    BY <2>1
  <2>3. (CHOOSE x \in Latest(S, ch) : TRUE) = s
    BY <2>2
  <2>4. s.work \in Nat
    BY DEF Latest, Snapshot
  <2> QED
    BY <2>2, <2>3, <2>4 DEF Open
<1> QED
  BY <1>1, <1>2

\* A channel that moves by a unit has at most a unit more to be stored.
LEMMA OpenGrows ==
  ASSUME NEW S, S \subseteq Snapshot, Distinct(S), NEW k \in Nat, NEW ch
  PROVE  Open(S, k + 1, ch) <= Open(S, k, ch) + 1
<1>1. CASE Latest(S, ch) = {}
  BY <1>1 DEF Open
<1>2. ASSUME NEW s \in Latest(S, ch) PROVE Open(S, k + 1, ch) <= Open(S, k, ch) + 1
  <2>1. s.work \in Nat /\ k + 1 \in Nat
    BY DEF Latest, Snapshot
  <2>2. /\ k > s.work => Open(S, k, ch) = k - s.work
        /\ ~ (k > s.work) => Open(S, k, ch) = 0
    BY OpenFacts
  <2>3. /\ k + 1 > s.work => Open(S, k + 1, ch) = k + 1 - s.work
        /\ ~ (k + 1 > s.work) => Open(S, k + 1, ch) = 0
    BY <2>1, OpenFacts
  <2> QED
    BY <2>1, <2>2, <2>3
<1> QED
  BY <1>1, <1>2

LEMMA OpenOfType ==
  ASSUME NEW S, S \subseteq Snapshot, Distinct(S), NEW k \in [Channels -> Nat], NEW owner, NEW n
  PROVE  /\ \A ch \in Channels : OpenOf(S, k, owner, n)[ch] \in Nat
         /\ SumOver(OpenOf(S, k, owner, n), Channels) \in Nat
<1>1. \A ch \in Channels : OpenOf(S, k, owner, n)[ch] \in Nat
  BY OpenFacts DEF OpenOf
<1>2. PICK f : f = OpenOf(S, k, owner, n)
  OBVIOUS
<1>3. SumOver(f, Channels) \in Nat
  BY <1>1, <1>2, ChannelsAreFinite, SumOverNat
<1> QED
  BY <1>1, <1>2, <1>3

-----------------------------------------------------------------------------
(* Work, restarts and polls keep the accounts.                             *)

LEMMA TallyType ==
  ASSUME NEW D, IsFiniteSet(D), D \subseteq Delta, NEW n PROVE Tally(D, n) \in Nat
<1>1. {d \in D : d.node = n} \subseteq D
  OBVIOUS
<1>2. IsFiniteSet({d \in D : d.node = n})
  BY <1>1, FS_Subset
<1> QED
  BY <1>1, <1>2, SumOfType DEF Tally

LEMMA WorkIsAccounted ==
  ASSUME NEW S, S \subseteq Snapshot, NEW D, D \subseteq Delta,
         NEW k \in [Channels -> Nat], NEW owner \in [Channels -> Identities],
         NEW w \in [Nodes \cup {NoNode} -> Nat], NEW r,
         Accounted(S, D, k, owner, w, r), NEW ch \in Channels
  PROVE  Accounted(S, D, [k EXCEPT ![ch] = @ + 1], owner,
                   [w EXCEPT ![ResolveNode(owner[ch])] = @ + 1], r)
<1> DEFINE m == ResolveNode(owner[ch])
           kk == [k EXCEPT ![ch] = @ + 1]
           ww == [w EXCEPT ![m] = @ + 1]
<1>1. Distinct(S) /\ IsFiniteSet(D)
  BY DEF Accounted, Distinct
<1>2. m \in Nodes \cup {NoNode}
  BY ResolveFacts
<1>3. /\ kk \in [Channels -> Nat] /\ kk[ch] = k[ch] + 1
      /\ \A x \in Channels \ {ch} : kk[x] = k[x]
  OBVIOUS
<1>4. /\ ww[m] = w[m] + 1 /\ \A n \in (Nodes \cup {NoNode}) \ {m} : ww[n] = w[n]
      /\ \A n \in Nodes : w[n] \in Nat
  BY <1>2
<1> HIDE DEF kk, ww, m
<1>5. ASSUME NEW n \in Nodes
      PROVE  Tally(D, n) + SumOver(OpenOf(S, kk, owner, n), Channels) <= ww[n]
  <2>1. PICK f, g : f = OpenOf(S, k, owner, n) /\ g = OpenOf(S, kk, owner, n)
    OBVIOUS
  <2>2. \A x \in Channels : f[x] \in Nat /\ g[x] \in Nat
    BY <1>1, <1>3, <2>1, OpenOfType
  <2>3. \A x \in Channels \ {ch} : g[x] = f[x]
    BY <1>3, <2>1 DEF OpenOf
  <2>4. g[ch] <= f[ch] + (IF n = m THEN 1 ELSE 0)
    <3>1. f[ch] = IF n = m THEN Open(S, k[ch], ch) ELSE 0
      BY <2>1 DEF OpenOf, m
    <3>2. g[ch] = IF n = m THEN Open(S, k[ch] + 1, ch) ELSE 0
      BY <1>3, <2>1 DEF OpenOf, m
    <3>3. Open(S, k[ch] + 1, ch) <= Open(S, k[ch], ch) + 1
      BY <1>1, OpenGrows
    <3> QED
      BY <3>1, <3>2, <3>3
  <2>5. SumOver(g, Channels) = SumOver(f, Channels) + (g[ch] - f[ch])
    <3>1. \A x \in Channels : f[x] \in Int /\ g[x] \in Int
      BY <2>2
    <3> QED
      BY <2>3, <3>1, ChannelsAreFinite, SumOverChange
  <2>6. SumOver(f, Channels) \in Nat /\ Tally(D, n) \in Nat
    BY <1>1, <2>1, OpenOfType, TallyType
  <2>7. Tally(D, n) + SumOver(f, Channels) <= w[n]
    BY <2>1 DEF Accounted
  <2>8. ww[n] = w[n] + (IF n = m THEN 1 ELSE 0) /\ w[n] \in Nat
    BY <1>2, <1>4
  <2>9. f[ch] \in Nat /\ g[ch] \in Nat
    BY <2>2
  <2>10. Tally(D, n) + SumOver(g, Channels) <= ww[n]
    BY <2>4, <2>5, <2>6, <2>7, <2>8, <2>9
  <2> QED
    BY <2>1, <2>10
<1>6. ASSUME ~ r, NEW x \in Channels PROVE Gapless(S, D, kk[x], x)
  <2>1. Gapless(S, D, k[x], x)
    BY <1>6 DEF Accounted
  <2>2. k[x] <= kk[x] /\ k[x] \in Nat /\ kk[x] \in Nat
    BY <1>3
  <2>3. \A s \in S : s.work \in Nat
    BY DEF Snapshot
  <2> QED
    BY <2>1, <2>2, <2>3 DEF Gapless
<1> QED
  BY <1>5, <1>6 DEF Accounted, kk, ww, m

LEMMA RestartIsAccounted ==
  ASSUME NEW S, S \subseteq Snapshot, NEW D, D \subseteq Delta,
         NEW k \in [Channels -> Nat], NEW owner, NEW w \in [Nodes \cup {NoNode} -> Nat], NEW r,
         Accounted(S, D, k, owner, w, r), NEW kk \in [Channels -> Nat], NEW new,
         \A ch \in Channels : kk[ch] = 0 \/ (kk[ch] = k[ch] /\ new[ch] = owner[ch])
  PROVE  Accounted(S, D, kk, new, w, TRUE)
<1>1. Distinct(S) /\ IsFiniteSet(D)
  BY DEF Accounted, Distinct
<1>2. ASSUME NEW n \in Nodes
      PROVE  Tally(D, n) + SumOver(OpenOf(S, kk, new, n), Channels) <= w[n]
  <2>1. PICK f, g : f = OpenOf(S, k, owner, n) /\ g = OpenOf(S, kk, new, n)
    OBVIOUS
  <2>2. \A x \in Channels : f[x] \in Nat /\ g[x] \in Nat
    BY <1>1, <2>1, OpenOfType
  <2>3. ASSUME NEW x \in Channels PROVE g[x] <= f[x]
    <3>1. CASE kk[x] = 0
      <4>1. Open(S, 0, x) = 0
        <5>1. \A s \in Latest(S, x) : ~ (0 > s.work)
          BY DEF Latest, Snapshot
        <5> QED
          BY <5>1 DEF Open
      <4>2. g[x] = 0
        BY <2>1, <3>1, <4>1 DEF OpenOf
      <4> QED
        BY <2>2, <4>2
    <3>2. CASE kk[x] = k[x] /\ new[x] = owner[x]
      <4>1. g[x] = f[x]
        BY <2>1, <3>2 DEF OpenOf
      <4> QED
        BY <2>2, <4>1
    <3> QED
      BY <3>1, <3>2
  <2>4. SumOver(g, Channels) <= SumOver(f, Channels)
    <3>1. \A x \in Channels : g[x] \in Int /\ f[x] \in Int /\ g[x] <= f[x]
      BY <2>2, <2>3
    <3> QED
      BY <3>1, ChannelsAreFinite, SumOverMonotone
  <2>5. SumOver(f, Channels) \in Nat /\ SumOver(g, Channels) \in Nat /\ Tally(D, n) \in Nat
    BY <1>1, <2>1, OpenOfType, TallyType
  <2>6. Tally(D, n) + SumOver(f, Channels) <= w[n] /\ w[n] \in Nat
    BY <2>1 DEF Accounted
  <2>7. Tally(D, n) + SumOver(g, Channels) <= w[n]
    BY <2>4, <2>5, <2>6
  <2> QED
    BY <2>1, <2>7
<1> QED
  BY <1>1, <1>2 DEF Accounted, Distinct

\* The row and the delta of a poll of channel ch, counter k, by collector c.
Snap(ch, k, c) == [channel |-> ch, work |-> k, at |-> c]

DeltasFrom(S, ch, k, c, n) ==
    {[channel |-> ch, from |-> s.work, to |-> k, at |-> c, node |-> n] :
     s \in {s \in Latest(S, ch) : k > s.work}}

\* c observes channel ch after everything in S, and has stored nothing of it in D.
FirstPoll(S, D, ch, c) ==
    /\ \A s \in S : s.channel = ch => s.at < c
    /\ \A d \in D : d.channel = ch => d.at # c

\* The rows S2 and D2 with what a poll adds to S and D.
PollsInto(S, D, S2, D2, ch, k, c, n) ==
    S2 = S \cup {Snap(ch, k, c)} /\ D2 = D \cup DeltasFrom(S, ch, k, c, n)

\* Channel ch has counter kk, and m is the node that owns it.
Holds(k, owner, ch, kk, m) == k[ch] = kk /\ ResolveNode(owner[ch]) = m

\* The delta of a poll, if there is one, is new and is what was open.
LEMMA PollDeltas ==
  ASSUME NEW S, S \subseteq Snapshot, NEW D, D \subseteq Delta, Distinct(S),
         NEW k \in Nat, NEW ch \in Channels, NEW c \in Collectors,
         NEW n \in Nodes \cup {NoNode}, FirstPoll(S, D, ch, c),
         NEW S2, NEW D2, PollsInto(S, D, S2, D2, ch, k, c, n)
  PROVE  \/ /\ D2 = D /\ Open(S, k, ch) = 0
            /\ \A s \in Latest(S, ch) : ~ (k > s.work)
         \/ \E d \in Delta : /\ D2 = D \cup {d} /\ d \notin D
                             /\ d.to - d.from = Open(S, k, ch) /\ d.node = n /\ d.channel = ch
                             /\ \E s \in Latest(S, ch) : k > s.work
<1>1. CASE \A s \in Latest(S, ch) : ~ (k > s.work)
  BY <1>1 DEF DeltasFrom, Open, PollsInto
<1>2. ASSUME NEW s \in Latest(S, ch), k > s.work
      PROVE  \E d \in Delta : /\ D2 = D \cup {d} /\ d \notin D
                              /\ d.to - d.from = Open(S, k, ch) /\ d.node = n /\ d.channel = ch
  <2> DEFINE d == [channel |-> ch, from |-> s.work, to |-> k, at |-> c, node |-> n]
  <2>1. Latest(S, ch) = {s} /\ Open(S, k, ch) = k - s.work
    BY <1>2, OpenFacts
  <2>2. D2 = D \cup {d}
    <3>1. {x \in {s} : k > x.work} = {s}
      BY <1>2
    <3> QED
      BY <2>1, <3>1 DEF DeltasFrom, PollsInto
  <2>3. s.work \in Nat
    BY DEF Latest, Snapshot
  <2>4. d \in Delta
    BY <1>2, <2>3 DEF Delta
  <2>5. d.to - d.from = Open(S, k, ch) /\ d.node = n /\ d.channel = ch /\ d.at = c
    BY <2>1
  <2>6. d \notin D
    BY <2>5 DEF FirstPoll
  <2> HIDE DEF d
  <2> QED
    BY <2>2, <2>4, <2>5, <2>6
<1> QED
  BY <1>1, <1>2

\* One more delta is tallied for its node and for no other.
LEMMA TallyAdd ==
  ASSUME NEW D, IsFiniteSet(D), D \subseteq Delta, NEW d \in Delta, d \notin D, NEW n
  PROVE  Tally(D \cup {d}, n) = Tally(D, n) + (IF d.node = n THEN d.to - d.from ELSE 0)
<1> DEFINE X == {x \in D : x.node = n}
<1>1. X \subseteq D /\ IsFiniteSet(X) /\ d \notin X
  <2>1. X \subseteq D
    OBVIOUS
  <2> QED
    BY <2>1, FS_Subset
<1>2. CASE d.node = n
  <2>1. {x \in D \cup {d} : x.node = n} = X \cup {d}
    BY <1>2
  <2> HIDE DEF X
  <2>2. SumOf(X \cup {d}) = SumOf(X) + (d.to - d.from)
    BY <1>1, SumOfAdd
  <2> QED
    BY <1>2, <2>1, <2>2 DEF Tally, X
<1>3. CASE d.node # n
  <2>1. {x \in D \cup {d} : x.node = n} = X
    BY <1>3
  <2>2. Tally(D \cup {d}, n) = SumOf(X) /\ Tally(D, n) = SumOf(X)
    BY <2>1, Zenon DEF Tally
  <2> HIDE DEF X
  <2>3. SumOf(X) \in Nat
    BY <1>1, SumOfType
  <2> QED
    BY <1>3, <2>2, <2>3
<1> QED
  BY <1>2, <1>3

\* After a poll nothing of its channel is open, and the others are as they were.
LEMMA PollLatest ==
  ASSUME NEW S, S \subseteq Snapshot, NEW k \in Nat, NEW ch \in Channels, NEW c \in Collectors,
         \A s \in S : s.channel = ch => s.at < c,
         NEW D, NEW S2, NEW D2, NEW n, PollsInto(S, D, S2, D2, ch, k, c, n)
  PROVE  /\ Open(S2, k, ch) = 0
         /\ \A x \in Channels \ {ch} : Latest(S2, x) = Latest(S, x)
<1> DEFINE e == Snap(ch, k, c)
<1>1. e.channel = ch /\ e.work = k /\ e.at = c /\ c \in Nat
  BY ChannelsAssumption DEF Snap
<1>0. S2 = S \cup {e}
  BY DEF PollsInto
<1> HIDE DEF e
<1>2. \A s \in S : s.at \in Nat
  BY ChannelsAssumption DEF Snapshot
<1>3. Latest(S2, ch) = {e}
  <2>1. e \in Latest(S2, ch)
    BY <1>0, <1>1, <1>2 DEF Latest
  <2>2. ASSUME NEW s \in Latest(S2, ch), s # e PROVE FALSE
    <3>1. s \in S /\ s.channel = ch /\ s.at >= e.at
      BY <1>0, <1>1, <2>2 DEF Latest
    <3> QED
      BY <1>1, <1>2, <3>1
  <2> QED
    BY <2>1, <2>2
<1>4. Open(S2, k, ch) = 0
  <2>1. \A s \in Latest(S2, ch) : ~ (k > s.work)
    BY <1>1, <1>3
  <2> QED
    BY <2>1 DEF Open
<1>5. \A x \in Channels \ {ch} : Latest(S2, x) = Latest(S, x)
  BY <1>0, <1>1 DEF Latest
<1> QED
  BY <1>4, <1>5

LEMMA SameLatest ==
  ASSUME NEW S, NEW S2, NEW ch, Latest(S2, ch) = Latest(S, ch)
  PROVE  \A k : Open(S2, k, ch) = Open(S, k, ch)
  BY DEF Open

\* The tally of the node m that owns ch takes what was open.
LEMMA PollTally ==
  ASSUME NEW S, S \subseteq Snapshot, NEW D, D \subseteq Delta, IsFiniteSet(D), Distinct(S),
         NEW k \in Nat, NEW ch \in Channels, NEW c \in Collectors,
         NEW m \in Nodes \cup {NoNode}, FirstPoll(S, D, ch, c),
         NEW S2, NEW D2, PollsInto(S, D, S2, D2, ch, k, c, m), NEW n
  PROVE  Tally(D2, n) = Tally(D, n) + (IF m = n THEN Open(S, k, ch) ELSE 0)
<1>1. Tally(D, n) \in Nat
  BY TallyType
<1>2. CASE D2 = D /\ Open(S, k, ch) = 0
  <2>1. Tally(D2, n) = Tally(D, n)
    BY <1>2, Zenon
  <2> QED
    BY <1>1, <1>2, <2>1
<1>3. ASSUME NEW d \in Delta, D2 = D \cup {d}, d \notin D,
             d.to - d.from = Open(S, k, ch), d.node = m
      PROVE  Tally(D2, n) = Tally(D, n) + (IF m = n THEN Open(S, k, ch) ELSE 0)
  <2>1. Tally(D \cup {d}, n) = Tally(D, n) + (IF d.node = n THEN d.to - d.from ELSE 0)
    BY <1>3, TallyAdd
  <2>2. Tally(D2, n) = Tally(D \cup {d}, n)
    BY <1>3, Zenon
  <2> QED
    BY <1>1, <1>3, <2>1, <2>2
<1> QED
  BY <1>2, <1>3, PollDeltas

\* What is open at ch moves to the tally of the node that owns ch.
LEMMA PollIsTallied ==
  ASSUME NEW S, S \subseteq Snapshot, NEW D, D \subseteq Delta, IsFiniteSet(D), Distinct(S),
         NEW k \in [Channels -> Nat], NEW owner, NEW x \in Nat, NEW n,
         Tally(D, n) + SumOver(OpenOf(S, k, owner, n), Channels) <= x,
         NEW ch \in Channels, NEW c \in Collectors, FirstPoll(S, D, ch, c),
         NEW kk \in Nat, NEW m \in Nodes \cup {NoNode}, Holds(k, owner, ch, kk, m),
         NEW S2, NEW D2, PollsInto(S, D, S2, D2, ch, kk, c, m)
  PROVE  Tally(D2, n) + SumOver(OpenOf(S2, k, owner, n), Channels) <= x
<1>1. PICK f, g : f = OpenOf(S, k, owner, n) /\ g = OpenOf(S2, k, owner, n)
  OBVIOUS
<1>2. /\ Open(S2, kk, ch) = 0
      /\ \A y \in Channels \ {ch} : Latest(S2, y) = Latest(S, y)
  <2>1. \A s \in S : s.channel = ch => s.at < c
    BY DEF FirstPoll
  <2>3. Open(S2, kk, ch) = 0
    BY <2>1, PollLatest
  <2>4. \A y \in Channels \ {ch} : Latest(S2, y) = Latest(S, y)
    BY <2>1, PollLatest
  <2> QED
    BY <2>3, <2>4
<1>3. g[ch] = 0 /\ \A y \in Channels \ {ch} : g[y] = f[y]
  <2>1. ASSUME NEW y \in Channels \ {ch} PROVE Open(S2, k[y], y) = Open(S, k[y], y)
    <3>1. Latest(S2, y) = Latest(S, y)
      BY <1>2
    <3> QED
      BY <3>1, SameLatest
  <2> QED
    BY <1>1, <1>2, <2>1 DEF OpenOf, Holds
<1>4. \A y \in Channels : f[y] \in Nat
  BY <1>1, OpenOfType
<1>5. SumOver(f, Channels) \in Nat /\ Tally(D, n) \in Nat
  BY <1>1, OpenOfType, TallyType
<1>6. SumOver(g, Channels) = SumOver(f, Channels) + (g[ch] - f[ch])
  <2>1. \A y \in Channels : f[y] \in Int /\ g[y] \in Int
    BY <1>3, <1>4
  <2> QED
    BY <1>3, <2>1, ChannelsAreFinite, SumOverChange
<1>7. f[ch] = (IF m = n THEN Open(S, kk, ch) ELSE 0) /\ f[ch] \in Nat
  BY <1>1, <1>4 DEF OpenOf, Holds
<1>8. Tally(D2, n) = Tally(D, n) + f[ch]
  BY <1>7, PollTally
<1>9. Tally(D, n) + SumOver(f, Channels) <= x
  BY <1>1
<1>10. Tally(D2, n) + SumOver(g, Channels) <= x
  BY <1>3, <1>5, <1>6, <1>7, <1>8, <1>9
<1> QED
  BY <1>1, <1>10

\* The deltas of ch still run from its first snapshot to its last, which is now
\* the one of the poll.
LEMMA PollIsGapless ==
  ASSUME NEW S, S \subseteq Snapshot, NEW D, D \subseteq Delta, IsFiniteSet(D), Distinct(S),
         NEW k \in Nat, NEW ch \in Channels, NEW c \in Collectors,
         NEW n \in Nodes \cup {NoNode}, Gapless(S, D, k, ch), FirstPoll(S, D, ch, c),
         NEW S2, NEW D2, PollsInto(S, D, S2, D2, ch, k, c, n)
  PROVE  Gapless(S2, D2, k, ch)
<1> DEFINE rows == {s \in S : s.channel = ch}
           paid == {d \in D : d.channel = ch}
           rows2 == {s \in S2 : s.channel = ch}
           paid2 == {d \in D2 : d.channel = ch}
           e == Snap(ch, k, c)
<1>1. e.channel = ch /\ e.work = k /\ e.at = c /\ c \in Nat
  BY ChannelsAssumption DEF Snap
<1>2. rows2 = rows \cup {e} /\ rows2 # {}
  BY <1>1 DEF PollsInto
<1> HIDE DEF e
<1>3. ASSUME NEW s \in rows PROVE s.at \in Nat /\ s.work \in Nat /\ s.at < c /\ s # e
  <2>1. s.at \in Nat /\ s.work \in Nat
    BY ChannelsAssumption DEF Snapshot
  <2>2. s.at < c
    BY DEF FirstPoll
  <2> QED
    BY <1>1, <2>1, <2>2
<1>4. CASE rows = {}
  <2>1. paid = {} /\ Latest(S, ch) = {}
    BY <1>4 DEF Gapless, Latest
  <2>2. paid2 = {}
    BY <2>1 DEF DeltasFrom, PollsInto
  <2>3. SumOf(paid2) = 0
    BY <2>2, SumOfNothing, Zenon
  <2>5. rows2 = {e}
    BY <1>2, <1>4
  <2> HIDE DEF rows2, paid2
  <2>6. e.work - e.work = 0
    BY <1>1
  <2>4. \E first, last \in rows2 :
            /\ \A o \in rows2 : /\ first.work <= o.work /\ o.work <= last.work
                                /\ o.at <= last.at /\ (o.at = last.at => o = last)
            /\ last.work <= k
            /\ SumOf(paid2) = last.work - first.work
    BY <1>1, <2>3, <2>5, <2>6
  <2> QED
    BY <1>2, <2>4 DEF Gapless, rows2, paid2
<1>5. CASE rows # {}
  <2>1. PICK first \in rows, last \in rows :
            /\ \A o \in rows : /\ first.work <= o.work /\ o.work <= last.work
                               /\ o.at <= last.at /\ (o.at = last.at => o = last)
            /\ last.work <= k
            /\ SumOf(paid) = last.work - first.work
    BY <1>5 DEF Gapless
  <2>2. last \in Latest(S, ch)
    BY <1>3, <2>1 DEF Latest
  <2>3. paid \subseteq D /\ IsFiniteSet(paid)
    <3>1. paid \subseteq D
      OBVIOUS
    <3> QED
      BY <3>1, FS_Subset
  <2>4. SumOf(paid2) = k - first.work
    <3>1. CASE /\ D2 = D
               /\ \A s \in Latest(S, ch) : ~ (k > s.work)
      <4>1. k = last.work
        BY <1>3, <2>1, <2>2, <3>1
      <4>2. paid2 = paid
        BY <3>1
      <4> QED
        BY <2>1, <4>1, <4>2
    <3>2. ASSUME NEW d \in Delta, D2 = D \cup {d}, d \notin D,
                 d.to - d.from = Open(S, k, ch), d.channel = ch,
                 \E s \in Latest(S, ch) : k > s.work
          PROVE  SumOf(paid2) = k - first.work
      <4>1. Open(S, k, ch) = k - last.work
        <5>1. Latest(S, ch) = {last} /\ (k > last.work => Open(S, k, ch) = k - last.work)
          BY <2>2, OpenFacts
        <5> QED
          BY <3>2, <5>1
      <4>2. paid2 = paid \cup {d} /\ d \notin paid
        BY <3>2
      <4> HIDE DEF paid, paid2
      <4>3. paid \subseteq Delta
        BY <2>3
      <4>4. SumOf(paid \cup {d}) = SumOf(paid) + (d.to - d.from)
        BY <2>3, <3>2, <4>2, <4>3, SumOfAdd
      <4> QED
        BY <1>3, <2>1, <3>2, <4>1, <4>2, <4>4
    <3> QED
      BY <3>1, <3>2, PollDeltas
  <2>5. \A o \in rows2 : /\ first.work <= o.work /\ o.work <= e.work
                         /\ o.at <= e.at /\ (o.at = e.at => o = e)
    BY <1>1, <1>2, <1>3, <2>1
  <2>6. first \in rows2 /\ e \in rows2 /\ e.work <= k /\ SumOf(paid2) = e.work - first.work
    BY <1>1, <1>2, <2>1, <2>4
  <2> QED
    BY <1>2, <2>5, <2>6 DEF Gapless
<1> QED
  BY <1>4, <1>5

LEMMA PollIsFinite ==
  ASSUME NEW S, S \subseteq Snapshot, NEW D, D \subseteq Delta, Distinct(S), IsFiniteSet(D),
         NEW k \in Nat, NEW ch \in Channels, NEW c \in Collectors,
         NEW n \in Nodes \cup {NoNode}, FirstPoll(S, D, ch, c),
         NEW S2, NEW D2, PollsInto(S, D, S2, D2, ch, k, c, n)
  PROVE  IsFiniteSet(D2) /\ \A d \in D2 \ D : d.channel = ch
<1>1. D2 = D \/ \E d \in Delta : D2 = D \cup {d} /\ d.channel = ch
  BY PollDeltas
<1>2. CASE D2 = D
  BY <1>2
<1>3. ASSUME NEW d, D2 = D \cup {d}, d.channel = ch
      PROVE  IsFiniteSet(D2) /\ \A x \in D2 \ D : x.channel = ch
  BY <1>3, FS_AddElement
<1> QED
  BY <1>1, <1>2, <1>3

LEMMA PollIsDistinct ==
  ASSUME NEW S, S \subseteq Snapshot, Distinct(S), NEW k, NEW ch \in Channels,
         NEW c \in Collectors, \A s \in S : s.channel = ch => s.at < c,
         NEW D, NEW S2, NEW D2, NEW n, PollsInto(S, D, S2, D2, ch, k, c, n)
  PROVE  Distinct(S2)
<1> DEFINE e == Snap(ch, k, c)
<1>1. S2 = S \cup {e}
  BY DEF PollsInto
<1>2. e.channel = ch /\ e.at = c /\ c \in Nat
  BY ChannelsAssumption DEF Snap
<1>3. \A s \in S : s.at \in Nat
  BY ChannelsAssumption DEF Snapshot
<1> QED
  BY <1>1, <1>2, <1>3 DEF Distinct

LEMMA PollIsAccounted ==
  ASSUME NEW S, S \subseteq Snapshot, NEW D, D \subseteq Delta,
         NEW k \in [Channels -> Nat], NEW owner,
         NEW w \in [Nodes \cup {NoNode} -> Nat], NEW r,
         Accounted(S, D, k, owner, w, r),
         NEW ch \in Channels, NEW c \in Collectors, FirstPoll(S, D, ch, c),
         NEW kk \in Nat, NEW m \in Nodes \cup {NoNode}, Holds(k, owner, ch, kk, m),
         NEW S2, NEW D2, PollsInto(S, D, S2, D2, ch, kk, c, m)
  PROVE  Accounted(S2, D2, k, owner, w, r)
<1>1. Distinct(S) /\ IsFiniteSet(D)
  BY DEF Accounted, Distinct
<1>2. IsFiniteSet(D2) /\ \A d \in D2 \ D : d.channel = ch
  BY <1>1, PollIsFinite
<1>3. Distinct(S2)
  BY <1>1, PollIsDistinct DEF FirstPoll
<1>4. ASSUME NEW n \in Nodes
      PROVE  Tally(D2, n) + SumOver(OpenOf(S2, k, owner, n), Channels) <= w[n]
  <2>1. Tally(D, n) + SumOver(OpenOf(S, k, owner, n), Channels) <= w[n] /\ w[n] \in Nat
    BY DEF Accounted
  <2> QED
    BY <1>1, <2>1, PollIsTallied
<1>5. ASSUME ~ r, NEW x \in Channels PROVE Gapless(S2, D2, k[x], x)
  <2>1. Gapless(S, D, k[x], x)
    BY <1>5 DEF Accounted
  <2>2. CASE x = ch
    BY <1>1, <2>1, <2>2, PollIsGapless DEF Holds
  <2>3. CASE x # ch
    <3>1. {s \in S2 : s.channel = x} = {s \in S : s.channel = x}
      BY <2>3 DEF Snap, PollsInto
    <3>2. {d \in D2 : d.channel = x} = {d \in D : d.channel = x}
      BY <1>2, <2>3 DEF PollsInto
    <3> QED
      BY <2>1, <3>1, <3>2 DEF Gapless
  <2> QED
    BY <2>2, <2>3
<1> QED
  BY <1>2, <1>3, <1>4, <1>5 DEF Accounted, Distinct

-----------------------------------------------------------------------------
(* The order of the runs.                                                  *)

LEMMA TurnFacts ==
  ASSUME NEW c \in Collectors, todo[c] \subseteq Channels, todo[c] # {}
  PROVE  Turn(c) \in todo[c]
<1> DEFINE I == {i \in DOMAIN PollOrder : PollOrder[i] \in todo[c]}
<1>1. I \subseteq Nat /\ I # {}
  BY ChannelsAssumption
<1>2. \A i \in I : PollOrder[i] \in todo[c]
  OBVIOUS
<1> HIDE DEF I
<1>3. PICK m \in I : \A i \in I : m <= i
  BY <1>1, LeastNumber
<1>4. Min(I) \in I
  BY <1>3 DEF Min
<1> QED
  BY <1>2, <1>4 DEF Turn, I

\* Rows of runs stay with their collectors, and what is stored stays stored.
LEMMA StoredRunsStay ==
  ASSUME RunsInv, Next
  PROVE  /\ Len(runs) \in Nat /\ Len(runs') \in Nat /\ Len(runs) <= Len(runs')
         /\ \A i \in 1 .. Len(runs) : runs'[i].collector = runs[i].collector
         /\ stored \subseteq stored'
<1>1. runs \in Seq(Run) /\ Len(runs) \in Nat
  BY DEF RunsInv, RunsSound, TypeOK, Run
<1>2. ASSUME runs' = runs
      PROVE  /\ Len(runs') = Len(runs)
             /\ \A i \in 1 .. Len(runs) : runs'[i].collector = runs[i].collector
  BY <1>2
<1>3. ASSUME NEW x \in Run, runs' = Append(runs, x)
      PROVE  /\ Len(runs') \in Nat /\ Len(runs) <= Len(runs')
             /\ \A i \in 1 .. Len(runs) : runs'[i].collector = runs[i].collector
  BY <1>1, <1>3
<1>4. ASSUME NEW c \in Collectors, NEW s \in {"running", "success", "failed"},
             runs' = RunsWith(c, s)
      PROVE  /\ Len(runs') = Len(runs)
             /\ \A i \in 1 .. Len(runs) : runs'[i].collector = runs[i].collector
  BY <1>1, <1>4, RunsWithFacts
<1>5. /\ stored \subseteq stored'
      /\ \/ runs' = runs
         \/ \E x \in Run : runs' = Append(runs, x)
         \/ \E c \in Collectors : \E s \in {"running", "success", "failed"} :
               runs' = RunsWith(c, s)
  <2>1. ASSUME NEW c \in Collectors, OpenRun(c)
        PROVE  stored' = stored /\ (runs' = runs \/ \E x \in Run : runs' = Append(runs, x))
    <3>1. [collector |-> c, status |-> "running"] \in Run
      BY DEF Run
    <3> QED
      BY <2>1, <3>1 DEF OpenRun
  <2>2. ASSUME NEW c \in Collectors, Commit(c) \/ CommitUnanswered(c) \/ FinishFailed(c)
        PROVE  /\ stored \subseteq stored'
               /\ runs' = runs \/ \E s \in {"running", "success", "failed"} : runs' = RunsWith(c, s)
    BY <2>2 DEF Commit, CommitUnanswered, Store, FinishFailed
  <2>3. ASSUME NEW c \in Collectors,
               \/ Start(c) \/ TryLock(c) \/ (\E ch \in Channels : Poll(c, ch))
               \/ Fail(c) \/ Release(c) \/ Crash(c)
        PROVE  runs' = runs /\ stored' = stored
    BY <2>3 DEF Start, TryLock, Poll, Fail, Release, Crash, tables
  <2>4. ASSUME (\E ch \in Channels : Share(ch)) \/ (\E p \in Pools : PoolRestart(p))
        PROVE  runs' = runs /\ stored' = stored
    BY <2>4 DEF Share, PoolRestart, tables
  <2>5. \/ (\E ch \in Channels : Share(ch)) \/ (\E p \in Pools : PoolRestart(p))
        \/ \E c \in Collectors :
              \/ OpenRun(c) \/ Commit(c) \/ CommitUnanswered(c) \/ FinishFailed(c)
              \/ Start(c) \/ TryLock(c) \/ (\E ch \in Channels : Poll(c, ch))
              \/ Fail(c) \/ Release(c) \/ Crash(c)
    BY DEF Next, Collect
  <2> QED
    BY <2>1, <2>2, <2>3, <2>4, <2>5
<1> QED
  BY <1>1, <1>2, <1>3, <1>4, <1>5

LEMMA OrderWas ==
  ASSUME RunsInv, Next, InOrder' PROVE InOrder
<1>1. /\ Len(runs) \in Nat /\ Len(runs') \in Nat /\ Len(runs) <= Len(runs')
      /\ \A i \in 1 .. Len(runs) : runs'[i].collector = runs[i].collector
      /\ stored \subseteq stored'
  BY StoredRunsStay
<1>2. ASSUME NEW i \in 1 .. Len(runs), NEW j \in 1 .. Len(runs), i < j,
             runs[i].collector \in stored, runs[j].collector \in stored
      PROVE  runs[i].collector < runs[j].collector
  <2>1. i \in 1 .. Len(runs') /\ j \in 1 .. Len(runs')
    BY <1>1
  <2>2. runs'[i].collector \in stored' /\ runs'[j].collector \in stored'
    BY <1>1, <1>2
  <2>3. runs'[i].collector < runs'[j].collector
    BY <1>2, <2>1, <2>2 DEF InOrder
  <2> QED
    BY <1>1, <2>3
<1> QED
  BY <1>2 DEF InOrder

\* A run that stores its rows in order observed after all that stored theirs.
LEMMA CommitIsLast ==
  ASSUME RunsInv, PollingRun, NEW c \in Collectors, Store(c), InOrder'
  PROVE  Latecomer(c)
<1>1. runs \in Seq(Run) /\ Len(runs) \in Nat /\ runs' = RunsWith(c, "success")
      /\ pc[c] = "polling" /\ stored' = stored \cup {c}
  BY DEF RunsInv, RunsSound, TypeOK, Run, Store
<1>2. /\ Len(runs') = Len(runs)
      /\ \A i \in 1 .. Len(runs) : runs'[i].collector = runs[i].collector
  BY <1>1, RunsWithFacts
<1>3. Len(runs) > 0 /\ runs[Len(runs)].collector = c /\ c \notin stored
  BY <1>1 DEF PollingRun, RunsInv, RowInv
<1> SUFFICES ASSUME NEW s \in snapshots PROVE s.at < c
  BY DEF Latecomer
<1>4. s.at \in stored /\ s.at \in Collectors
  BY DEF RunsInv, RunsSound, AllOrNothing, TypeOK
<1>5. PICK i \in 1 .. Len(runs) : runs[i].collector = s.at
  BY <1>4 DEF RunsInv, RowInv
<1>6. PICK l \in 1 .. Len(runs) : l = Len(runs)
  BY <1>1, <1>3
<1>7. runs[l].collector = c /\ i < l
  BY <1>1, <1>3, <1>4, <1>5, <1>6
<1>8. runs'[i].collector = s.at /\ runs'[l].collector = c /\ s.at \in stored' /\ c \in stored'
  BY <1>1, <1>2, <1>4, <1>5, <1>7
<1>9. runs'[i].collector < runs'[l].collector
  BY <1>2, <1>7, <1>8 DEF InOrder
<1> QED
  BY <1>8, <1>9

-----------------------------------------------------------------------------
(* The steps.                                                              *)

\* A step that stores nothing and whose polls are the ones before, or have no row.
LEMMA QuietCount ==
  ASSUME CountInv, RunsInv', PollingRun', Next,
         counter' = counter, identity' = identity, done' = done, restarts' = restarts,
         snapshots' = snapshots, deltas' = deltas,
         \A c \in Collectors : pc'[c] = "polling" =>
             \/ batch'[c] = NoRows
             \/ pc[c] = "polling" /\ batch'[c] = batch[c]
  PROVE  CountInv'
<1>1. InOrder' => InOrder
  BY OrderWas DEF CountInv
<1>2. StoredRows'
  BY <1>1 DEF CountInv, StoredRows
<1>3. ASSUME NEW c \in Collectors, pc'[c] = "polling", InOrder', Latecomer(c)'
      PROVE  Accounted(snapshots \cup batch'[c].snapshots, deltas \cup batch'[c].deltas,
                       counter, identity, done, restarts > 0)
  <2>1. CASE batch'[c] = NoRows
    <3>1. snapshots \cup batch'[c].snapshots = snapshots /\ deltas \cup batch'[c].deltas = deltas
      BY <2>1 DEF NoRows
    <3> QED
      BY <1>1, <1>3, <3>1 DEF CountInv, StoredRows
  <2>2. CASE pc[c] = "polling" /\ batch'[c] = batch[c]
    BY <1>1, <1>3, <2>2 DEF CountInv, OpenRows, Latecomer
  <2> QED
    BY <1>3, <2>1, <2>2
<1>4. OpenRows'
  BY <1>3 DEF OpenRows
<1> QED
  BY <1>2, <1>4 DEF CountInv

\* The rows of a run that polls, stored and its own.
LEMMA VisibleRows ==
  ASSUME RunsInv, NEW c \in Collectors
  PROVE  /\ snapshots \subseteq Snapshot /\ deltas \subseteq Delta
         /\ snapshots \cup batch[c].snapshots \subseteq Snapshot
         /\ deltas \cup batch[c].deltas \subseteq Delta
  BY DEF RunsInv, RunsSound, TypeOK, Batch

\* A step of the pools keeps the accounts of any rows, and moves nothing else.
LEMMA PoolCount ==
  ASSUME CountInv, RunsInv', Next,
         snapshots' = snapshots, deltas' = deltas, runs' = runs, pc' = pc, todo' = todo,
         batch' = batch,
         \A S \in SUBSET Snapshot : \A D \in SUBSET Delta :
            Accounted(S, D, counter, identity, done, restarts > 0)
              => Accounted(S, D, counter', identity', done', restarts' > 0)
  PROVE  CountInv'
<1>1. PollingRun'
  BY DEF CountInv, PollingRun
<1>2. InOrder' => InOrder
  BY OrderWas DEF CountInv
<1>3. StoredRows'
  <2>1. snapshots \subseteq Snapshot /\ deltas \subseteq Delta
    BY DEF CountInv, RunsInv, RunsSound, TypeOK
  <2> QED
    BY <1>2, <2>1 DEF CountInv, StoredRows
<1>4. ASSUME NEW c \in Collectors, pc'[c] = "polling", InOrder', Latecomer(c)'
      PROVE  Accounted(snapshots' \cup batch'[c].snapshots, deltas' \cup batch'[c].deltas,
                       counter', identity', done', restarts' > 0)
  <2>1. PICK S, D : S = snapshots \cup batch[c].snapshots /\ D = deltas \cup batch[c].deltas
    OBVIOUS
  <2>2. S \in SUBSET Snapshot /\ D \in SUBSET Delta
    BY <2>1, VisibleRows DEF CountInv
  <2>3. Accounted(S, D, counter, identity, done, restarts > 0)
    BY <1>2, <1>4, <2>1 DEF CountInv, OpenRows, Latecomer
  <2>4. Accounted(S, D, counter', identity', done', restarts' > 0)
    BY <2>2, <2>3
  <2> QED
    BY <2>1, <2>4
<1>5. OpenRows'
  BY <1>4 DEF OpenRows
<1> QED
  BY <1>1, <1>3, <1>5 DEF CountInv

LEMMA ShareCount ==
  ASSUME CountInv, RunsInv', Next, NEW ch \in Channels, Share(ch) PROVE CountInv'
<1>1. /\ snapshots' = snapshots /\ deltas' = deltas /\ runs' = runs /\ pc' = pc /\ todo' = todo
      /\ batch' = batch /\ identity' = identity /\ restarts' = restarts
      /\ counter' = [counter EXCEPT ![ch] = @ + 1]
      /\ done' = [done EXCEPT ![ResolveNode(identity[ch])] = @ + 1]
  BY DEF Share, tables, locals
<1>2. PICK k, owner, w, r : k = counter /\ owner = identity /\ w = done /\ r = (restarts > 0)
  OBVIOUS
<1>3. /\ k \in [Channels -> Nat] /\ owner \in [Channels -> Identities]
      /\ w \in [Nodes \cup {NoNode} -> Nat]
  BY <1>2 DEF CountInv, RunsInv, RunsSound, TypeOK
<1>4. ASSUME NEW S \in SUBSET Snapshot, NEW D \in SUBSET Delta,
             Accounted(S, D, counter, identity, done, restarts > 0)
      PROVE  Accounted(S, D, counter', identity', done', restarts' > 0)
  <2>1. S \subseteq Snapshot /\ D \subseteq Delta /\ Accounted(S, D, k, owner, w, r)
    BY <1>2, <1>4
  <2>2. Accounted(S, D, [k EXCEPT ![ch] = @ + 1], owner,
                  [w EXCEPT ![ResolveNode(owner[ch])] = @ + 1], r)
    BY <1>3, <2>1, WorkIsAccounted
  <2>3. /\ [k EXCEPT ![ch] = @ + 1] = counter' /\ owner = identity' /\ r = (restarts' > 0)
        /\ [w EXCEPT ![ResolveNode(owner[ch])] = @ + 1] = done'
    BY <1>1, <1>2
  <2> QED
    BY <2>2, <2>3
<1> QED
  BY <1>1, <1>4, PoolCount

LEMMA RestartCount ==
  ASSUME CountInv, RunsInv', Next, NEW p \in Pools, PoolRestart(p) PROVE CountInv'
<1>1. /\ snapshots' = snapshots /\ deltas' = deltas /\ runs' = runs /\ pc' = pc /\ todo' = todo
      /\ batch' = batch /\ done' = done /\ restarts' = restarts + 1
      /\ counter' = [ch \in Channels |-> IF PoolOf[ch] = p THEN 0 ELSE counter[ch]]
      /\ \A ch \in Channels : PoolOf[ch] # p => identity'[ch] = identity[ch]
  BY DEF PoolRestart, tables, locals
<1>2. PICK k, owner, w, r : k = counter /\ owner = identity /\ w = done /\ r = (restarts > 0)
  OBVIOUS
<1>3. PICK kk, new : kk = counter' /\ new = identity'
  OBVIOUS
<1>4. /\ k \in [Channels -> Nat] /\ w \in [Nodes \cup {NoNode} -> Nat]
  BY <1>2 DEF CountInv, RunsInv, RunsSound, TypeOK
<1>5. kk \in [Channels -> Nat] /\ restarts' > 0
  <2>1. restarts \in Nat /\ counter \in [Channels -> Nat]
    BY DEF CountInv, RunsInv, RunsSound, TypeOK
  <2> QED
    BY <1>1, <1>3, <2>1
<1>6. \A ch \in Channels : kk[ch] = 0 \/ (kk[ch] = k[ch] /\ new[ch] = owner[ch])
  BY <1>1, <1>2, <1>3
<1>7. ASSUME NEW S \in SUBSET Snapshot, NEW D \in SUBSET Delta,
             Accounted(S, D, counter, identity, done, restarts > 0)
      PROVE  Accounted(S, D, counter', identity', done', restarts' > 0)
  <2>1. S \subseteq Snapshot /\ D \subseteq Delta /\ Accounted(S, D, k, owner, w, r)
    BY <1>2, <1>7
  <2>2. Accounted(S, D, kk, new, w, TRUE)
    BY <1>4, <1>5, <1>6, <2>1, RestartIsAccounted
  <2>3. w = done' /\ (restarts' > 0) = TRUE
    BY <1>1, <1>2, <1>5
  <2> QED
    BY <1>3, <2>2, <2>3
<1> QED
  BY <1>1, <1>7, PoolCount

\* What c sees of a channel that is its turn is older than its poll.
LEMMA PollFacts ==
  ASSUME RunsInv, PollingRun, NEW c \in Collectors, NEW ch \in Channels, Poll(c, ch),
         NEW S, NEW D, S = snapshots \cup batch[c].snapshots, D = deltas \cup batch[c].deltas
  PROVE  /\ ch \in todo[c]
         /\ Latecomer(c) => FirstPoll(S, D, ch, c)
         /\ NewDeltas(c, ch) = DeltasFrom(S, ch, counter[ch], c, ResolveNode(identity[ch]))
<1>1. pc[c] = "polling" /\ todo[c] # {} /\ Turn(c) = ch
  BY DEF Poll
<1>2. ch \in todo[c]
  BY <1>1, TurnFacts DEF RunsInv, RunsSound, TypeOK
<1>3. Latecomer(c) => FirstPoll(S, D, ch, c)
  <2>1. ASSUME Latecomer(c), NEW s \in S, s.channel = ch PROVE s.at < c
    BY <1>2, <2>1 DEF Latecomer, PollingRun
  <2>2. ASSUME NEW d \in D, d.channel = ch PROVE d.at # c
    <3>1. d \in deltas
      BY <1>2, <2>2 DEF PollingRun
    <3>2. d.at \in stored
      BY <3>1 DEF RunsInv, RunsSound, AllOrNothing
    <3>3. c \notin stored
      BY <1>1 DEF RunsInv, RowInv
    <3> QED
      BY <3>2, <3>3
  <2> QED
    BY <2>1, <2>2 DEF FirstPoll
<1>4. Previous(c, ch) = Latest(S, ch)
  <2>1. \A s : s \in VisibleSnapshots(c, ch) <=> s \in S /\ s.channel = ch
    BY DEF VisibleSnapshots
  <2>2. \A s : s \in Previous(c, ch) <=> s \in Latest(S, ch)
    BY <2>1 DEF Previous, Latest
  <2> QED
    BY <2>2
<1>5. NewDeltas(c, ch) = DeltasFrom(S, ch, counter[ch], c, ResolveNode(identity[ch]))
  BY <1>4, Zenon DEF NewDeltas, DeltasFrom
<1> QED
  BY <1>2, <1>3, <1>5

LEMMA PollCount ==
  ASSUME CountInv, RunsInv', Next, NEW c \in Collectors, NEW ch \in Channels, Poll(c, ch)
  PROVE  CountInv'
<1> DEFINE new == {d \in NewDeltas(c, ch) :
                      \A o \in deltas \cup batch[c].deltas : ~ SameKey(d, o)}
           rows == [snapshots |-> batch[c].snapshots \cup {Snap(ch, counter[ch], c)},
                    deltas |-> batch[c].deltas \cup new]
<1>1. /\ snapshots' = snapshots /\ deltas' = deltas /\ runs' = runs /\ pc' = pc
      /\ counter' = counter /\ identity' = identity /\ done' = done /\ restarts' = restarts
      /\ todo' = [todo EXCEPT ![c] = @ \ {ch}] /\ pc[c] = "polling"
      /\ batch' = batch \/ batch' = [batch EXCEPT ![c] = rows]
  BY DEF Poll, poolVars, tables, Snap
<1>2. RunsInv /\ PollingRun /\ StoredRows /\ OpenRows
  BY DEF CountInv
<1>3. PICK S, D : S = snapshots \cup batch[c].snapshots /\ D = deltas \cup batch[c].deltas
  OBVIOUS
<1>4. /\ ch \in todo[c]
      /\ Latecomer(c) => FirstPoll(S, D, ch, c)
      /\ NewDeltas(c, ch) = DeltasFrom(S, ch, counter[ch], c, ResolveNode(identity[ch]))
  BY <1>2, <1>3, PollFacts
<1>5. /\ batch \in [Collectors -> Batch] /\ todo \in [Collectors -> SUBSET Channels]
      /\ counter \in [Channels -> Nat] /\ identity \in [Channels -> Identities]
      /\ done \in [Nodes \cup {NoNode} -> Nat]
  BY <1>2 DEF RunsInv, RunsSound, TypeOK
<1>6. \A d \in Collectors \ {c} : pc[d] # "polling" /\ batch'[d] = batch[d] /\ todo'[d] = todo[d]
  <2>1. \A d \in Collectors \ {c} : pc[d] # "polling"
    BY <1>1, <1>2, Alone DEF Working
  <2>2. \A d \in Collectors \ {c} : batch'[d] = batch[d] /\ todo'[d] = todo[d]
    BY <1>1, <1>5
  <2> QED
    BY <2>1, <2>2
<1>7. \A d \in new : d.channel = ch
  BY DEF NewDeltas
<1>8. PollingRun'
  <2>1. \A r \in rows.snapshots \cup rows.deltas :
            r.channel = ch \/ r \in batch[c].snapshots \cup batch[c].deltas
    BY <1>7 DEF Snap
  <2>2. todo'[c] = todo[c] \ {ch} /\ (batch'[c] = batch[c] \/ batch'[c] = rows)
    BY <1>1, <1>5
  <2> HIDE DEF rows
  <2>3. \A r \in batch'[c].snapshots \cup batch'[c].deltas :
            r.channel = ch \/ r \in batch[c].snapshots \cup batch[c].deltas
    BY <2>1, <2>2
  <2>4. \A r \in batch'[c].snapshots \cup batch'[c].deltas : r.channel \notin todo'[c]
    BY <1>2, <2>2, <2>3 DEF PollingRun
  <2> QED
    BY <1>1, <1>2, <1>6, <2>4 DEF PollingRun
<1>9. InOrder' => InOrder
  BY <1>2, OrderWas
<1>10. StoredRows'
  BY <1>1, <1>2, <1>9 DEF StoredRows
<1>11. ASSUME InOrder', Latecomer(c)'
       PROVE  Accounted(snapshots \cup batch'[c].snapshots, deltas \cup batch'[c].deltas,
                        counter, identity, done, restarts > 0)
  <2>1. Latecomer(c) /\ InOrder
    BY <1>1, <1>9, <1>11 DEF Latecomer
  <2>2. FirstPoll(S, D, ch, c) /\ S \subseteq Snapshot /\ D \subseteq Delta
    BY <1>2, <1>3, <1>4, <2>1, VisibleRows
  <2>3. PICK k, owner, w, r, kk, m :
            /\ k = counter /\ owner = identity /\ w = done /\ r = (restarts > 0)
            /\ kk = counter[ch] /\ m = ResolveNode(identity[ch])
    OBVIOUS
  <2>4. Accounted(S, D, k, owner, w, r)
    BY <1>1, <1>2, <1>3, <2>1, <2>3 DEF OpenRows
  <2>5. CASE batch' = batch
    BY <1>3, <2>3, <2>4, <2>5
  <2>6. CASE batch' = [batch EXCEPT ![c] = rows]
    <3>1. batch'[c] = rows
      BY <1>5, <2>6
    <3>2. new = DeltasFrom(S, ch, kk, c, m)
      <4>1. \A d \in NewDeltas(c, ch) : d.channel = ch /\ d.at = c
        BY DEF NewDeltas
      <4>2. \A d \in NewDeltas(c, ch) : \A o \in D : ~ SameKey(d, o)
        BY <2>2, <4>1 DEF FirstPoll, SameKey
      <4>3. new = NewDeltas(c, ch)
        BY <1>3, <4>2
      <4> QED
        BY <1>4, <2>3, <4>3
    <3>3. PICK S2, D2 : /\ S2 = snapshots \cup batch'[c].snapshots
                        /\ D2 = deltas \cup batch'[c].deltas
      OBVIOUS
    <3>4. S2 = S \cup {Snap(ch, kk, c)} /\ D2 = D \cup new
      <4>1. rows.snapshots = batch[c].snapshots \cup {Snap(ch, kk, c)}
            /\ rows.deltas = batch[c].deltas \cup new
        BY <2>3
      <4> HIDE DEF new, rows
      <4> QED
        BY <1>3, <3>1, <3>3, <4>1
    <3>5. PollsInto(S, D, S2, D2, ch, kk, c, m)
      BY <3>2, <3>4 DEF PollsInto
    <3>6. Holds(k, owner, ch, kk, m)
      BY <2>3 DEF Holds
    <3>7. /\ k \in [Channels -> Nat] /\ w \in [Nodes \cup {NoNode} -> Nat]
          /\ kk \in Nat /\ m \in Nodes \cup {NoNode}
      BY <1>5, <2>3, ResolveFacts
    <3>8. Accounted(S2, D2, k, owner, w, r)
      BY <2>2, <2>4, <3>5, <3>6, <3>7, PollIsAccounted
    <3> QED
      BY <2>3, <3>3, <3>8
  <2> QED
    BY <1>1, <2>5, <2>6
<1>12. OpenRows'
  <2>1. ASSUME NEW d \in Collectors, pc'[d] = "polling" PROVE d = c
    BY <1>1, <1>6, <2>1
  <2> HIDE DEF rows, new
  <2> QED
    BY <1>1, <1>11, <2>1 DEF OpenRows
<1> QED
  BY <1>8, <1>10, <1>12 DEF CountInv

LEMMA StoreCount ==
  ASSUME CountInv, RunsInv', Next, NEW c \in Collectors, Commit(c) \/ CommitUnanswered(c)
  PROVE  CountInv'
<1>1. /\ counter' = counter /\ identity' = identity /\ done' = done /\ restarts' = restarts
      /\ todo' = todo /\ pc[c] = "polling"
      /\ snapshots' = snapshots \cup batch[c].snapshots
      /\ deltas' = deltas \cup batch[c].deltas
      /\ batch' = [batch EXCEPT ![c] = NoRows] /\ Store(c)
      /\ \/ pc' = [pc EXCEPT ![c] = "unlocking"]
         \/ pc' = [pc EXCEPT ![c] = "failing"]
  BY DEF Commit, CommitUnanswered, Store, poolVars
<1>2. RunsInv /\ PollingRun /\ OpenRows
  BY DEF CountInv
<1>3. \A d \in Collectors : pc'[d] # "polling" /\ (batch'[d] = NoRows \/ batch'[d] = batch[d])
  <2>1. \A d \in Collectors \ {c} : pc[d] # "polling"
    BY <1>1, <1>2, Alone DEF Working
  <2>2. /\ batch \in [Collectors -> Batch]
        /\ pc \in [Collectors -> {"idle", "started", "locked", "polling", "failing",
                              "unlocking", "skipped", "done", "crashed"}]
    BY <1>2 DEF RunsInv, RunsSound, TypeOK
  <2> QED
    BY <1>1, <2>1, <2>2
<1>4. PollingRun'
  BY <1>1, <1>2, <1>3 DEF PollingRun, NoRows
<1>5. StoredRows'
  <2>1. ASSUME InOrder' PROVE InOrder /\ Latecomer(c)
    BY <1>1, <1>2, <2>1, OrderWas, CommitIsLast
  <2> QED
    BY <1>1, <1>2, <2>1 DEF StoredRows, OpenRows
<1>6. OpenRows'
  BY <1>3 DEF OpenRows
<1> QED
  BY <1>4, <1>5, <1>6 DEF CountInv

LEMMA QuietCountSteps ==
  ASSUME CountInv, RunsInv', Next, NEW c \in Collectors,
         Start(c) \/ TryLock(c) \/ OpenRun(c) \/ Fail(c) \/ FinishFailed(c) \/ Release(c) \/ Crash(c)
  PROVE  CountInv'
<1>1. /\ counter' = counter /\ identity' = identity /\ done' = done /\ restarts' = restarts
      /\ snapshots' = snapshots /\ deltas' = deltas
  BY DEF Start, TryLock, OpenRun, Fail, FinishFailed, Release, Crash, poolVars, tables
<1>2. RunsInv /\ PollingRun /\ runs \in Seq(Run)
  BY DEF CountInv, RunsInv, RunsSound, TypeOK, Run
<1>3. /\ batch \in [Collectors -> Batch] /\ todo \in [Collectors -> SUBSET Channels]
      /\ pc \in [Collectors -> {"idle", "started", "locked", "polling", "failing",
                              "unlocking", "skipped", "done", "crashed"}]
  BY <1>2 DEF RunsInv, RunsSound, TypeOK
<1>4. \A d \in Collectors : pc[d] # "polling" => batch[d] = NoRows
  BY <1>2 DEF RunsInv, BatchInv
<1>5. ASSUME Start(c) \/ TryLock(c) \/ Fail(c) \/ FinishFailed(c) \/ Release(c) \/ Crash(c)
      PROVE  /\ \A d \in Collectors : pc'[d] = "polling" => pc[d] = "polling" /\ batch'[d] = batch[d]
             /\ PollingRun'
  <2>1. /\ \A d \in Collectors : batch'[d] = batch[d] \/ batch'[d] = NoRows
        /\ \A d \in Collectors : pc'[d] = "polling" => pc[d] = "polling" /\ batch'[d] = batch[d]
        /\ \A d \in Collectors : todo'[d] = todo[d] \/ todo'[d] = {}
    BY <1>3, <1>5 DEF Start, TryLock, Fail, FinishFailed, Release, Crash
  <2>2. Len(runs') = Len(runs) /\ \A i \in 1 .. Len(runs) : runs'[i].collector = runs[i].collector
    <3>1. runs' = runs \/ runs' = RunsWith(c, "failed")
      BY <1>5 DEF Start, TryLock, Fail, FinishFailed, Release, Crash, tables
    <3> QED
      BY <1>2, <3>1, RunsWithFacts
  <2>3. \A d \in Collectors : pc'[d] = "polling" => Len(runs') > 0 /\ runs'[Len(runs')].collector = d
    BY <1>2, <2>1, <2>2 DEF PollingRun
  <2>4. \A d \in Collectors : \A r \in batch'[d].snapshots \cup batch'[d].deltas : r.channel \notin todo'[d]
    BY <1>2, <2>1 DEF PollingRun, NoRows
  <2> QED
    BY <2>1, <2>3, <2>4 DEF PollingRun
<1>6. CASE Start(c) \/ TryLock(c) \/ Fail(c) \/ FinishFailed(c) \/ Release(c) \/ Crash(c)
  BY <1>1, <1>5, <1>6, QuietCount
<1>7. CASE OpenRun(c)
  <2>1. pc[c] = "locked" /\ batch' = batch /\ batch[c] = NoRows
    BY <1>4, <1>7 DEF OpenRun
  <2>2. \A d \in Collectors \ {c} : pc'[d] # "polling" /\ todo'[d] = todo[d]
    <3>1. \A d \in Collectors \ {c} : pc[d] # "polling"
      BY <1>2, <2>1, Alone DEF Working
    <3> QED
      BY <1>3, <1>7, <3>1 DEF OpenRun
  <2>3. PollingRun'
    <3>1. pc'[c] = "polling" => Len(runs') > 0 /\ runs'[Len(runs')].collector = c
      <4>1. ASSUME pc'[c] = "polling"
            PROVE  runs' = Append(runs, [collector |-> c, status |-> "running"])
        BY <1>3, <1>7, <4>1 DEF OpenRun
      <4>2. [collector |-> c, status |-> "running"] \in Run
        BY DEF Run
      <4> QED
        BY <1>2, <4>1, <4>2
    <3>2. \A d \in Collectors : \A r \in batch'[d].snapshots \cup batch'[d].deltas : r.channel \notin todo'[d]
      BY <1>2, <2>1, <2>2 DEF PollingRun, NoRows
    <3> QED
      BY <2>2, <3>1, <3>2 DEF PollingRun
  <2>4. \A d \in Collectors : pc'[d] = "polling" => batch'[d] = NoRows
    BY <2>1, <2>2
  <2> QED
    BY <1>1, <2>3, <2>4, QuietCount
<1> QED
  BY <1>6, <1>7

LEMMA CountInit == Init => CountInv
<1> SUFFICES ASSUME Init PROVE CountInv
  OBVIOUS
<1>1. PICK k, owner, w, r : k = counter /\ owner = identity /\ w = done /\ r = (restarts > 0)
  OBVIOUS
<1>2. k \in [Channels -> Nat] /\ \A n \in Nodes : w[n] = 0
  BY <1>1 DEF Init
<1>3. Accounted({}, {}, k, owner, w, r)
  <2>1. ASSUME NEW n \in Nodes
        PROVE  Tally({}, n) + SumOver(OpenOf({}, k, owner, n), Channels) <= w[n]
    <3>1. PICK f : f = OpenOf({}, k, owner, n)
      OBVIOUS
    <3>2. \A ch \in Channels : f[ch] = 0
      BY <3>1 DEF OpenOf, Open, Latest
    <3>3. SumOver(f, Channels) = Cardinality(Channels) * 0
      BY <3>2, ChannelsAreFinite, SumOverConstant
    <3>4. SumOver(f, Channels) = 0
      BY <3>3, ChannelsAreFinite, FS_CardinalityType
    <3>5. Tally({}, n) = 0
      <4>1. {d \in {} : d.node = n} = {}
        OBVIOUS
      <4> QED
        BY <4>1, SumOfNothing, Zenon DEF Tally
    <3> QED
      BY <1>2, <3>1, <3>4, <3>5
  <2>2. \A ch \in Channels : Gapless({}, {}, k[ch], ch)
    BY DEF Gapless
  <2> QED
    BY <2>1, <2>2, FS_EmptySet DEF Accounted
<1>4. StoredRows
  BY <1>1, <1>3 DEF Init, StoredRows
<1>5. PollingRun /\ OpenRows
  BY DEF Init, PollingRun, OpenRows, NoRows
<1> QED
  BY <1>4, <1>5, RunsInit DEF CountInv

LEMMA CountStep == CountInv /\ [Next]_vars => CountInv'
<1> SUFFICES ASSUME CountInv, [Next]_vars PROVE CountInv'
  OBVIOUS
<1>1. RunsInv'
  BY RunsStep DEF CountInv
<1>2. CASE UNCHANGED vars
  BY <1>1, <1>2 DEF vars, poolVars, tables, locals, CountInv, PollingRun, StoredRows, OpenRows,
                    InOrder, Latecomer
<1>3. CASE Next
  <2>1. \/ \E ch \in Channels : Share(ch)
        \/ \E p \in Pools : PoolRestart(p)
        \/ \E c \in Collectors :
              \/ \E ch \in Channels : Poll(c, ch)
              \/ Commit(c) \/ CommitUnanswered(c)
              \/ Start(c) \/ TryLock(c) \/ OpenRun(c) \/ Fail(c) \/ FinishFailed(c)
                 \/ Release(c) \/ Crash(c)
    BY <1>3 DEF Next, Collect
  <2> QED
    BY <1>1, <1>3, <2>1, ShareCount, RestartCount, PollCount, StoreCount, QuietCountSteps
<1> QED
  BY <1>2, <1>3

\* The accounts hold in every state that is reached: as long as runs store in the
\* order of their observations, the rows that are stored, and the rows that the
\* run that polls would store next, credit no work twice and leave none out.
THEOREM RowsAreAccounted == Spec => []CountInv
  BY CountInit, CountStep, PTL DEF Spec

\* Work is credited once, to the node that did it: however often miners change
\* channels, pools restart and runs are skipped, fail or die, the deltas of a
\* node add up to no more than its work.
THEOREM CreditIsForWork == Spec => []CreditedWorkWasDone
<1>1. CountInv => CreditedWorkWasDone
  <2> SUFFICES ASSUME CountInv, InOrder, NEW n \in Nodes
               PROVE  SumOf({d \in deltas : d.node = n}) <= done[n]
    BY DEF CreditedWorkWasDone
  <2>1. Accounted(snapshots, deltas, counter, identity, done, restarts > 0)
    BY DEF CountInv, StoredRows
  <2>2. /\ snapshots \subseteq Snapshot /\ deltas \subseteq Delta
        /\ counter \in [Channels -> Nat] /\ done[n] \in Nat
    BY DEF CountInv, RunsInv, RunsSound, TypeOK
  <2>3. PICK S, D, k, owner : S = snapshots /\ D = deltas /\ k = counter /\ owner = identity
    OBVIOUS
  <2>4. /\ IsFiniteSet(D) /\ Distinct(S)
        /\ Tally(D, n) + SumOver(OpenOf(S, k, owner, n), Channels) <= done[n]
    BY <2>1, <2>3 DEF Accounted, Distinct
  <2>5. Tally(D, n) \in Nat /\ SumOver(OpenOf(S, k, owner, n), Channels) \in Nat
    BY <2>2, <2>3, <2>4, OpenOfType, TallyType
  <2>6. Tally(D, n) <= done[n]
    BY <2>2, <2>4, <2>5
  <2> QED
    BY <2>3, <2>6 DEF Tally
<1> QED
  BY <1>1, RowsAreAccounted, PTL

\* No work between two snapshots of a channel is lost to a run that failed: while
\* no pool restarts, the deltas of a channel run from its first to its last.
THEOREM WorkIsNotLost == Spec => []NothingLost
<1>1. CountInv => NothingLost
  <2> SUFFICES ASSUME CountInv, InOrder, restarts = 0, NEW ch \in Channels, SnapshotsOf(ch) # {},
                      NEW W, W = {s.work : s \in SnapshotsOf(ch)}
               PROVE  SumOf({d \in deltas : d.channel = ch}) = Max(W) - Min(W)
    BY DEF NothingLost
  <2>1. Gapless(snapshots, deltas, counter[ch], ch)
    BY DEF CountInv, StoredRows, Accounted
  <2>2. PICK first \in SnapshotsOf(ch), last \in SnapshotsOf(ch) :
            /\ \A o \in SnapshotsOf(ch) : first.work <= o.work /\ o.work <= last.work
            /\ SumOf({d \in deltas : d.channel = ch}) = last.work - first.work
    BY <2>1 DEF Gapless, SnapshotsOf
  <2>3. \A s \in SnapshotsOf(ch) : s.work \in Nat
    BY DEF CountInv, RunsInv, RunsSound, TypeOK, SnapshotsOf, Snapshot
  <2>4. /\ \A x \in W : x \in Nat /\ first.work <= x /\ x <= last.work
        /\ first.work \in W /\ last.work \in W
    BY <2>2, <2>3
  <2>5. Max(W) = last.work
    BY <2>4 DEF Max
  <2>6. Min(W) = first.work
    BY <2>4 DEF Min
  <2> QED
    BY <2>2, <2>5, <2>6
<1> QED
  BY <1>1, RowsAreAccounted, PTL
=============================================================================
