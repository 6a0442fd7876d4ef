---------------------------- MODULE TemplatePoller ----------------------------
(***************************************************************************)
(* The poller of the template provider (templar): it asks the node for a   *)
(* block template at every tick and after every debounced ZMQ wakeup,      *)
(* decides whether the change is worth a push, and gives pushed templates  *)
(* an id. A push goes to the broadcast channel of the live sessions, then  *)
(* to the watch cell that new sessions read: two steps, with sessions      *)
(* running on other threads between them.                                  *)
(*                                                                         *)
(* A template is its tip (previous hash and height) and its transactions.  *)
(* curtime, version and the witness commitment, which are not part of the  *)
(* fingerprint, are left out; bits and target follow the tip, the coinbase *)
(* value the transactions.                                                 *)
(***************************************************************************)
EXTENDS Naturals, Sequences, FiniteSets, Functions, SequencesExt

CONSTANTS
    Sessions,        \* TCP connections of pools
    Mempools,        \* sequences of transactions a template may hold
    Fee,             \* transaction -> fee
    FeeThreshold,    \* fee_threshold
    MaxTransactions, \* max_template_transactions
    ChannelDepth,    \* TEMPLATE_BROADCAST_BUFFER_DEPTH (512 in the code)
    MaxChanges,      \* bound: changes of tip or mempool at the node
    NoSnapshot

Txs == UNION {Range(m) : m \in Mempools}

ASSUME PollerAssumption ==
    /\ Mempools \subseteq Seq(Txs)
    /\ Fee \in [Txs -> Nat]
    /\ FeeThreshold \in Nat /\ MaxTransactions \in Nat /\ MaxChanges \in Nat
    /\ ChannelDepth \in Nat \ {0}

Template == [tip : 0 .. MaxChanges, txs : Mempools]
Snapshot == [id : 1 .. MaxChanges + 1, template : Template]

ASSUME NoSnapshotAssumption == NoSnapshot \notin Snapshot

VARIABLES
    node,           \* template the node would answer with now
    changes,        \* changes of the node so far
    zmq,            \* "quiet", "pending" (pending_zmq), or "dropped" (not
                    \* zmq_alive), which is so from the start or never
    poller,         \* "idle", "asking", "publishing", or "hung" in a request
                    \* that the node does not answer
    nextId,         \* next_template_id
    lastBroadcast,  \* last_broadcast; its fingerprint is last_push_fp
    watch,          \* the watch cell new sessions read
    queue           \* subscribed session -> broadcasts it has not received

nodeVars == <<node, changes>>
pollerVars == <<poller, nextId, lastBroadcast, watch>>
pollVars == <<nodeVars, zmq, pollerVars, queue>>

PollerTypeOK ==
    /\ node \in Template /\ changes \in 0 .. MaxChanges
    /\ zmq \in {"quiet", "pending", "dropped"}
    /\ poller \in {"idle", "asking", "publishing", "hung"}
    /\ nextId \in 1 .. MaxChanges + 2
    /\ lastBroadcast \in Snapshot \cup {NoSnapshot}
    /\ watch \in Snapshot \cup {NoSnapshot}
    /\ DOMAIN queue \subseteq Sessions
    /\ \A s \in DOMAIN queue :
        queue[s] \in Seq(Snapshot) /\ Len(queue[s]) <= ChannelDepth

PollerInit ==
    /\ node \in [tip : {0}, txs : Mempools]
    /\ changes = 0
    /\ zmq \in {"quiet", "dropped"}
    /\ poller = "idle"
    /\ nextId = 1
    /\ lastBroadcast = NoSnapshot
    /\ watch = NoSnapshot
    /\ queue = <<>>

-----------------------------------------------------------------------------
(* The policy of pushes.                                                   *)

TotalFees(t) == FoldLeft(LAMBDA sum, tx : sum + Fee[tx], 0, t.txs)

SaturatingSub(a, b) == IF a > b THEN a - b ELSE 0

\* What a template is told from another by.
Fingerprint(t) == <<t.tip, t.txs>>

TipChanged(t) ==
    lastBroadcast = NoSnapshot \/ t.tip # lastBroadcast.template.tip

SameAsLastPush(t) ==
    /\ lastBroadcast # NoSnapshot
    /\ Fingerprint(t) = Fingerprint(lastBroadcast.template)

\* A change of the mempool alone must bring fees and fit the cap.
MempoolQualifies(t) ==
    /\ SaturatingSub(TotalFees(t), TotalFees(lastBroadcast.template)) >= FeeThreshold
    /\ Len(t.txs) <= MaxTransactions

\* MUTANT: a new block is held to the fee threshold as well.
MutDoPush(t) ==
    IF lastBroadcast = NoSnapshot THEN TRUE ELSE ~SameAsLastPush(t) /\ MempoolQualifies(t)

DoPush(t) == IF TipChanged(t) THEN TRUE ELSE ~SameAsLastPush(t) /\ MempoolQualifies(t)

-----------------------------------------------------------------------------
(* The node: a block arrives, or its mempool changes.                      *)

\* The subscriber thread may get the notice and wake the poller; notices are
\* lost when it has to reconnect. Wakeups merge into one.
MayWake == zmq' \in {zmq, IF zmq = "dropped" THEN zmq ELSE "pending"}

NodeChanges ==
    /\ changes < MaxChanges
    /\ changes' = changes + 1
    /\ \E tip \in {node.tip, node.tip + 1}, txs \in Mempools :
        /\ node' = [tip |-> tip, txs |-> txs]
        /\ node' # node
    /\ MayWake
    /\ UNCHANGED <<pollerVars, queue>>

-----------------------------------------------------------------------------
(* One refresh. The node answers with the template it has; that it may move *)
(* on before the answer is read is a change right after.                   *)

Tick ==
    /\ poller = "idle"
    /\ poller' = "asking"
    /\ UNCHANGED <<nodeVars, zmq, nextId, lastBroadcast, watch, queue>>

DebounceFires ==
    /\ poller = "idle"
    /\ zmq = "pending"
    /\ zmq' = "quiet"
    /\ poller' = "asking"
    /\ UNCHANGED <<nodeVars, nextId, lastBroadcast, watch, queue>>

GbtFails ==
    /\ poller = "asking"
    /\ poller' = "idle"
    /\ UNCHANGED <<nodeVars, zmq, nextId, lastBroadcast, watch, queue>>

\* The client has no timeout: the poller waits for the answer for ever.
GbtHangs ==
    /\ poller = "asking"
    /\ poller' = "hung"
    /\ UNCHANGED <<nodeVars, zmq, nextId, lastBroadcast, watch, queue>>

\* MUTANT: new sessions get the suppressed template under the last id.
MutSuppress ==
    /\ poller = "asking"
    /\ ~DoPush(node)
    /\ watch' = [lastBroadcast EXCEPT !.template = node]
    /\ poller' = "idle"
    /\ UNCHANGED <<nodeVars, zmq, nextId, lastBroadcast, queue>>

\* No push: sessions that join get the template pushed last, not the newer one.
Suppress ==
    /\ poller = "asking"
    /\ ~DoPush(node)
    /\ watch' = lastBroadcast
    /\ poller' = "idle"
    /\ UNCHANGED <<nodeVars, zmq, nextId, lastBroadcast, queue>>

\* MUTANT: a full channel refuses the new value.
MutEnqueue(q, x) == IF Len(q) = ChannelDepth THEN q ELSE Append(q, x)

\* A full channel drops its oldest value: the receiver is told it lagged.
Enqueue(q, x) == LET all == Append(q, x)
                 IN  IF Len(all) > ChannelDepth THEN Tail(all) ELSE all

\* A push: new id, broadcast. The watch cell still has the previous one. (A
\* push is never of the fingerprint pushed last: the tip is part of it.)
Broadcast ==
    /\ poller = "asking"
    /\ DoPush(node)
    /\ LET snapshot == [id |-> nextId, template |-> node]
       IN  /\ lastBroadcast' = snapshot
           /\ queue' = [s \in DOMAIN queue |-> Enqueue(queue[s], snapshot)]
    /\ nextId' = nextId + 1
    /\ poller' = "publishing"
    /\ UNCHANGED <<nodeVars, zmq, watch>>

PublishWatch ==
    /\ poller = "publishing"
    /\ watch' = lastBroadcast
    /\ poller' = "idle"
    /\ UNCHANGED <<nodeVars, zmq, nextId, lastBroadcast, queue>>

PollerNext ==
    \/ NodeChanges
    \/ Tick \/ DebounceFires \/ GbtFails \/ GbtHangs
    \/ Suppress \/ Broadcast \/ PublishWatch
=============================================================================
