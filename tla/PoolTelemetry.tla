---------------------------- MODULE PoolTelemetry ----------------------------
(***************************************************************************)
(* The pool telemetry collector: a oneshot process that polls the work     *)
(* counters of every channel of every active pool and stores snapshots and *)
(* the deltas between them, under a session advisory lock.                 *)
(*                                                                         *)
(* A collector is one run of collector.app.main, by timer or by hand. Its    *)
(* time of observation, its number, is read before it connects and takes   *)
(* the lock. The transaction of its rows is committed once, after the last *)
(* pool: the per-pool conn.transaction() is a savepoint of the transaction *)
(* that the read of the identity mappings has opened.                      *)
(***************************************************************************)
EXTENDS Sequences, Sums

CONSTANTS
    Collectors,     \* runs of the collector, numbered in the order they start
    Pools,
    Channels,       \* channels of the pools: <<client, type, channel id>>
    PollOrder,      \* the channels, by pool, client and channel
    PoolOf,         \* channel -> its pool
    Registries,     \* what pool_instances may hold when a run reads it
    EnvPools,       \* POOL_INSTANCES: the pools of the environment
    Nodes, NoNode,
    FirstIdentity,  \* channel -> its owner at the start
    Identities,     \* user identities that miners give
    NativeNode,     \* identity -> node of az/scnode/<node>, or NoNode
    Mappings,       \* active rows of sc_node_identity_mappings
    MaxWork,        \* bound: units of work that all channels do
    MaxRestarts,    \* bound: restarts of pools
    MaxFaults       \* bound: crashes, failed requests, statements and answers

NoCollector == 0
MappingTypes == <<"exact", "prefix", "glob">>

ASSUME ChannelsAssumption ==
    /\ PoolOf \in [Channels -> Pools]
    /\ PollOrder \in Seq(Channels)
    /\ \A ch \in Channels : \E i \in DOMAIN PollOrder : PollOrder[i] = ch
    /\ Registries \subseteq SUBSET [pool : Pools, active : BOOLEAN,
                                   monitored : BOOLEAN, url : BOOLEAN]
    /\ EnvPools \subseteq Pools
    /\ NoNode \notin Nodes
    /\ FirstIdentity \in [Channels -> Identities]
    /\ NativeNode \in [Identities -> Nodes \cup {NoNode}]
    /\ Collectors \subseteq Nat \ {0}

\* rank: the length of a prefix, the alphabetical place of a glob.
ASSUME MappingsAssumption ==
    Mappings \subseteq [id : Nat, type : {"exact", "prefix", "glob"}, rank : Nat,
                        matches : SUBSET Identities, node : Nodes]

ASSUME TelemetryBounds == MaxWork \in Nat /\ MaxRestarts \in Nat /\ MaxFaults \in Nat

VARIABLES
    counter,        \* share_work_sum of each channel, since its pool started
    identity,       \* user identity that owns each channel
    done,           \* work each node has done, restarts or not (history)
    restarts,       \* restarts so far
    snapshots,      \* committed rows of pool_channel_snapshots
    deltas,         \* committed rows of pool_share_work_deltas
    runs,           \* pool_collector_runs in the order of their ids
    holder,         \* collector that holds the advisory lock
    pc,             \* where each collector is in collect_once
    todo,           \* channels it has yet to poll
    batch,          \* rows of its open transaction
    stored,         \* history: the collectors whose rows are committed
    faults          \* faults so far

poolVars == <<counter, identity, done, restarts>>
tables == <<snapshots, deltas, runs, stored>>
locals == <<pc, todo, batch>>
vars == <<poolVars, tables, holder, locals, faults>>

NoRows == [snapshots |-> {}, deltas |-> {}]
Snapshot == [channel : Channels, work : Nat, at : Collectors]
Delta == {d \in [channel : Channels, from : Nat, to : Nat, at : Collectors,
                node : Nodes \cup {NoNode}] : d.from < d.to}
Batch == [snapshots : SUBSET Snapshot, deltas : SUBSET Delta]

SumOfWork == SumOver(done, DOMAIN done)
SumOf(D) == SumOver([d \in D |-> d.to - d.from], D)

-----------------------------------------------------------------------------
(* The pools.                                                              *)

\* The first mapping of type t that applies to identity i: exact by the lowest
\* id, a prefix by its length and then its id, a glob by its text and its id.
Preferred(t, i) ==
    LET M == {m \in Mappings : m.type = t /\ i \in m.matches}
        Before(x, y) ==
            IF t = "prefix" THEN x.rank > y.rank \/ (x.rank = y.rank /\ x.id > y.id)
            ELSE IF t = "glob" THEN x.rank < y.rank \/ (x.rank = y.rank /\ x.id < y.id)
            ELSE x.id < y.id
    IN {m \in M : \A o \in M \ {m} : Before(m, o)}

\* resolve_sc_node_id: the native form, then mappings by type.
ResolveNode(i) ==
    LET types == {t \in 1 .. 3 : Preferred(MappingTypes[t], i) # {}}
    IN IF NativeNode[i] # NoNode THEN NativeNode[i]
       ELSE IF types = {} THEN NoNode
       ELSE (CHOOSE m \in Preferred(MappingTypes[Min(types)], i) : TRUE).node

\* The channel that c polls next.
Turn(c) == PollOrder[Min({i \in DOMAIN PollOrder : PollOrder[i] \in todo[c]})]

\* Nobody else looks at the counter of a channel: it is enough to let it move
\* while a collector is about to poll it.
Watched(ch) ==
    \E c \in Collectors : pc[c] = "polling" /\ todo[c] # {} /\ Turn(c) = ch

\* A share of channel ch is accepted.
Share(ch) ==
    /\ Watched(ch)
    /\ SumOfWork < MaxWork
    /\ counter' = [counter EXCEPT ![ch] = @ + 1]
    /\ done' = [done EXCEPT ![ResolveNode(identity[ch])] = @ + 1]
    /\ UNCHANGED <<identity, restarts, tables, holder, locals, faults>>

\* A pool restarts: its counters start at zero, and its client and channel
\* numbers are given to whoever connects first. (Without either it is no event.)
PoolRestart(p) ==
    /\ restarts < MaxRestarts
    /\ \E ch \in Channels : PoolOf[ch] = p /\ Watched(ch)
    /\ restarts' = restarts + 1
    /\ counter' = [ch \in Channels |-> IF PoolOf[ch] = p THEN 0 ELSE counter[ch]]
    /\ \E o \in [Channels -> Identities] :
          /\ \A ch \in Channels : PoolOf[ch] # p => o[ch] = identity[ch]
          /\ identity' = o
    /\ counter' # counter \/ identity' # identity
    /\ UNCHANGED <<done, tables, holder, locals, faults>>

-----------------------------------------------------------------------------
(* The collector.                                                          *)

\* collect_once begins: the time of observation, before connect.
Start(c) ==
    /\ pc[c] = "idle"
    /\ \A b \in Collectors : b < c => pc[b] # "idle"
    /\ pc' = [pc EXCEPT ![c] = "started"]
    /\ UNCHANGED <<poolVars, tables, holder, todo, batch, faults>>

\* pg_try_advisory_lock: never waits; without the lock the run is skipped.
TryLock(c) ==
    /\ pc[c] = "started"
    /\ IF holder = NoCollector
       THEN holder' = c /\ pc' = [pc EXCEPT ![c] = "locked"]
       ELSE pc' = [pc EXCEPT ![c] = "skipped"] /\ UNCHANGED holder
    /\ UNCHANGED <<poolVars, tables, todo, batch, faults>>

\* Pools of a registry that are active, monitored and have a base URL.
ActivePools(registry) ==
    {r.pool : r \in {r \in registry : r.active /\ r.monitored /\ r.url}}

\* The pools to poll: those of the environment when the registry has none.
PollTargets(active) == IF active # {} THEN active ELSE EnvPools

\* The registry is read and the row of the run committed. The operator edits
\* the registry at any time; with no active pool anywhere the run ends without
\* a row.
OpenRun(c) ==
    /\ pc[c] = "locked"
    /\ \E registry \in Registries :
          LET targets == PollTargets(ActivePools(registry))
          IN IF targets = {}
             THEN pc' = [pc EXCEPT ![c] = "unlocking"] /\ UNCHANGED <<runs, todo>>
             ELSE /\ runs' = Append(runs, [collector |-> c, status |-> "running"])
                  /\ todo' = [todo EXCEPT ![c] =
                         {ch \in Channels : PoolOf[ch] \in targets}]
                  /\ pc' = [pc EXCEPT ![c] = "polling"]
    /\ UNCHANGED <<poolVars, snapshots, deltas, stored, holder, batch, faults>>

\* Rows that the transaction of c can see.
VisibleSnapshots(c, ch) ==
    {s \in snapshots \cup batch[c].snapshots : s.channel = ch}

\* Mutant: ORDER BY observed_at, without DESC.
MutPrevious(c, ch) ==
    {s \in VisibleSnapshots(c, ch) : \A o \in VisibleSnapshots(c, ch) : s.at <= o.at}

\* fetch_previous_snapshot: the latest by time of observation, if there is one.
Previous(c, ch) ==
    {s \in VisibleSnapshots(c, ch) : \A o \in VisibleSnapshots(c, ch) : s.at >= o.at}

\* UNIQUE (idempotency_key): channel, sequence numbers, second of observation.
\* The sequence number of a channel moves with its work.
SameKey(d, e) ==
    d.channel = e.channel /\ d.from = e.from /\ d.to = e.to /\ d.at = e.at

\* compute_delta: nothing without a previous snapshot, when the counter stands,
\* or when it went back; the work goes to the present owner of the channel.
NewDeltas(c, ch) ==
    {[channel |-> ch, from |-> s.work, to |-> counter[ch], at |-> c,
      node |-> ResolveNode(identity[ch])] :
     s \in {s \in Previous(c, ch) : counter[ch] > s.work}}

\* Mutant: the snapshot is stored before the previous one is fetched.
MutPoll(c, ch) ==
    /\ pc[c] = "polling"
    /\ todo[c] # {} /\ Turn(c) = ch
    /\ todo' = [todo EXCEPT ![c] = @ \ {ch}]
    /\ batch' = [batch EXCEPT ![c].snapshots =
                    @ \cup {[channel |-> ch, work |-> counter[ch], at |-> c]}]
    /\ UNCHANGED <<poolVars, tables, holder, pc, faults>>

\* One channel answers and its snapshot and delta are written (ON CONFLICT DO
\* NOTHING), or the client list or the page limit leaves it out of this run.
Poll(c, ch) ==
    /\ pc[c] = "polling"
    /\ todo[c] # {} /\ Turn(c) = ch
    /\ todo' = [todo EXCEPT ![c] = @ \ {ch}]
    /\ \/ batch' = [batch EXCEPT ![c] =
              [snapshots |-> @.snapshots \cup
                  {[channel |-> ch, work |-> counter[ch], at |-> c]},
               deltas |-> @.deltas \cup
                  {d \in NewDeltas(c, ch) :
                      \A e \in deltas \cup batch[c].deltas : ~ SameKey(d, e)}]]
       \/ UNCHANGED batch
    /\ UNCHANGED <<poolVars, tables, holder, pc, faults>>

\* finish_collector_run on the row of c, which is the last that c inserted.
RunsWith(c, s) ==
    [i \in 1 .. Len(runs) |->
        IF runs[i].collector = c THEN [collector |-> c, status |-> s] ELSE runs[i]]

\* The rows and the end of the run are committed together.
Store(c) ==
    /\ pc[c] = "polling"
    /\ todo[c] = {}
    /\ snapshots' = snapshots \cup batch[c].snapshots
    /\ deltas' = deltas \cup batch[c].deltas
    /\ runs' = RunsWith(c, "success")
    /\ stored' = stored \cup {c}
    /\ batch' = [batch EXCEPT ![c] = NoRows]
    /\ UNCHANGED <<poolVars, todo>>

Commit(c) ==
    /\ Store(c)
    /\ pc' = [pc EXCEPT ![c] = "unlocking"]
    /\ UNCHANGED <<holder, faults>>

\* The connection breaks between the commit and its answer: the session and the
\* lock are gone, and the run is taken for one that failed.
CommitUnanswered(c) ==
    /\ Store(c)
    /\ faults < MaxFaults
    /\ faults' = faults + 1
    /\ holder' = NoCollector
    /\ pc' = [pc EXCEPT ![c] = "failing"]

\* Mutant: the transaction of each pool is committed on its own.
MutFail(c) ==
    /\ pc[c] = "polling"
    /\ faults < MaxFaults
    /\ faults' = faults + 1
    /\ snapshots' = snapshots \cup
          {s \in batch[c].snapshots : \A ch \in todo[c] : PoolOf[ch] # PoolOf[s.channel]}
    /\ batch' = [batch EXCEPT ![c] = NoRows]
    /\ pc' = [pc EXCEPT ![c] = "failing"]
    /\ UNCHANGED <<poolVars, deltas, runs, stored, holder, todo>>

\* A request of a pool or a statement fails, perhaps because the connection
\* breaks, and the session with it: the whole run fails.
Fail(c) ==
    /\ pc[c] = "polling"
    /\ faults < MaxFaults
    /\ faults' = faults + 1
    /\ batch' = [batch EXCEPT ![c] = NoRows]
    /\ todo' = [todo EXCEPT ![c] = {}]
    /\ pc' = [pc EXCEPT ![c] = "failing"]
    /\ holder' \in {holder, NoCollector}
    /\ UNCHANGED <<poolVars, tables>>

\* _finish_failed_run, on a connection of its own, before the lock is given back.
\* When that fails too the row stays as it is.
FinishFailed(c) ==
    /\ pc[c] = "failing"
    /\ \/ runs' = RunsWith(c, "failed") /\ UNCHANGED faults
       \/ faults < MaxFaults /\ faults' = faults + 1 /\ UNCHANGED runs
    /\ pc' = [pc EXCEPT ![c] = "unlocking"]
    /\ UNCHANGED <<poolVars, snapshots, deltas, stored, holder, todo, batch>>

\* Mutant: only a run that succeeded releases the lock.
MutRelease(c) ==
    /\ pc[c] = "unlocking"
    /\ c \in stored
    /\ holder' = IF holder = c THEN NoCollector ELSE holder
    /\ pc' = [pc EXCEPT ![c] = "done"]
    /\ UNCHANGED <<poolVars, tables, todo, batch, faults>>

\* The finally block, and the end of the session with the connection, if it has
\* not ended before.
Release(c) ==
    /\ pc[c] = "unlocking"
    /\ holder' = IF holder = c THEN NoCollector ELSE holder
    /\ pc' = [pc EXCEPT ![c] = "done"]
    /\ UNCHANGED <<poolVars, tables, todo, batch, faults>>

\* The process dies under the lock: its session ends, and with it transaction
\* and lock.
Crash(c) ==
    /\ pc[c] \in {"locked", "polling", "failing", "unlocking"}
    /\ faults < MaxFaults
    /\ faults' = faults + 1
    /\ holder' = IF holder = c THEN NoCollector ELSE holder
    /\ batch' = [batch EXCEPT ![c] = NoRows]
    /\ todo' = [todo EXCEPT ![c] = {}]
    /\ pc' = [pc EXCEPT ![c] = "crashed"]
    /\ UNCHANGED <<poolVars, tables>>

-----------------------------------------------------------------------------
Init ==
    /\ counter = [ch \in Channels |-> 0]
    /\ identity = FirstIdentity
    /\ done = [n \in Nodes \cup {NoNode} |-> 0]
    /\ restarts = 0 /\ faults = 0
    /\ snapshots = {} /\ deltas = {} /\ runs = <<>> /\ stored = {}
    /\ holder = NoCollector
    /\ pc = [c \in Collectors |-> "idle"]
    /\ todo = [c \in Collectors |-> {}]
    /\ batch = [c \in Collectors |-> NoRows]

\* What a live collector does by itself.
Collect(c) ==
    \/ TryLock(c) \/ OpenRun(c)
    \/ \E ch \in Channels : Poll(c, ch)
    \/ Commit(c) \/ FinishFailed(c) \/ Release(c)

Next ==
    \/ \E ch \in Channels : Share(ch)
    \/ \E p \in Pools : PoolRestart(p)
    \/ \E c \in Collectors : Start(c) \/ Collect(c) \/ Fail(c) \/ CommitUnanswered(c) \/ Crash(c)

Spec == Init /\ [][Next]_vars

\* A started process runs on; every request and statement of it has a timeout.
FairSpec == Spec /\ \A c \in Collectors : WF_vars(Collect(c))

-----------------------------------------------------------------------------
(* Properties.                                                             *)

\* Types of the tables and of the collectors' local state; a delta is positive.
TypeOK ==
    /\ counter \in [Channels -> Nat]
    /\ identity \in [Channels -> Identities]
    /\ done \in [Nodes \cup {NoNode} -> Nat]
    /\ restarts \in Nat /\ faults \in Nat
    /\ snapshots \subseteq Snapshot /\ deltas \subseteq Delta
    /\ runs \in Seq([collector : Collectors, status : {"running", "success", "failed"}])
    /\ stored \subseteq Collectors
    /\ holder \in Collectors \cup {NoCollector}
    /\ pc \in [Collectors -> {"idle", "started", "locked", "polling", "failing",
                              "unlocking", "skipped", "done", "crashed"}]
    /\ todo \in [Collectors -> SUBSET Channels]
    /\ batch \in [Collectors -> Batch]

\* Only one run executes at a time, however timer and operators start them
\* (docs/runbooks/pool-monitoring-collector.md:222): nobody else has the advisory
\* lock from a run's first read to its commit. (After it, the session may be gone.)
OneRunAtATime ==
    \A c \in Collectors : pc[c] \in {"locked", "polling"} => holder = c

\* A run stores all of its rows or none: whatever pool fails after others were
\* written, snapshots and deltas are those of runs that were committed, and a run
\* that ended in success was.
AllOrNothing ==
    /\ \A r \in snapshots \cup deltas : r.at \in stored
    /\ \A i \in 1 .. Len(runs) : runs[i].status = "success" => runs[i].collector \in stored

\* The tables are well-formed, one run writes at a time, and writes all or nothing.
RunsSound == TypeOK /\ OneRunAtATime /\ AllOrNothing

\* The runs that stored rows took the lock in the order of their observations.
\* The code does not see to it: the time is read before the lock is asked for.
InOrder ==
    \A i, j \in {k \in 1 .. Len(runs) : runs[k].collector \in stored} :
        i < j => runs[i].collector < runs[j].collector

\* Work is credited once, and to the node that did it: the deltas of a node add
\* up to no more than its work, across skipped, failed and crashed runs and
\* across restarts that hand its channels to others. (Runs that store out of
\* order do count work twice: the later one is not the previous snapshot.)
CreditedWorkWasDone ==
    InOrder => \A n \in Nodes : SumOf({d \in deltas : d.node = n}) <= done[n]

SnapshotsOf(ch) == {s \in snapshots : s.channel = ch}

\* Work between two snapshots of a channel is never lost, whatever runs failed
\* in between: without a restart the deltas of a channel add up to the counter
\* of its last snapshot less that of its first.
NothingLost ==
    InOrder /\ restarts = 0 =>
        \A ch \in Channels : SnapshotsOf(ch) # {} =>
            LET W == {s.work : s \in SnapshotsOf(ch)}
            IN SumOf({d \in deltas : d.channel = ch}) = Max(W) - Min(W)

\* A collector that has started ends, and gives the lock back: a run that is
\* never released would have all later ones skip in silence.
CollectorsEnd ==
    \A c \in Collectors :
        pc[c] = "started" ~>
            /\ pc[c] \in {"skipped", "done", "crashed"}
            /\ holder # c
=============================================================================
