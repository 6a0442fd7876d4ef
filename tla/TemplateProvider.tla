--------------------------- MODULE TemplateProvider ---------------------------
(***************************************************************************)
(* The sessions of the template provider, composed with its poller.        *)
(*                                                                         *)
(* A session sets up, sends the pool the template of the watch cell, and   *)
(* subscribes to the broadcasts after that. From then on a writer task     *)
(* sends pushed templates and answers, while a read loop serves the pool's *)
(* frames. Both use the session's cache of sent templates; the writer      *)
(* enters a template after it has sent it. A session whose setup was       *)
(* refused, or whose first frame was wrong, is read from but gets nothing. *)
(* The broadcast channel never closes: every session holds a sender.       *)
(***************************************************************************)
EXTENDS TemplatePoller, FiniteSetsExt

CONSTANTS
    Reserves,   \* what pools reserve: [size, sigops] of CoinbaseOutputConstraints
    TxSize, TxSigops,   \* transaction -> serialized bytes, sigops
    SizeLimit, SigopLimit,  \* sizelimit and sigoplimit of the node, 0: none
    CacheCap,   \* TEMPLATE_ID_CACHE_CAP (32 in the code)
    NoFrame

ASSUME SessionsAssumption ==
    /\ Reserves \subseteq [size : Nat, sigops : Nat]
    /\ TxSize \in [Txs -> Nat] /\ TxSigops \in [Txs -> Nat]
    /\ SizeLimit \in Nat /\ SigopLimit \in Nat
    /\ CacheCap \in Nat \ {0}

VARIABLES
    phase,      \* where the connection task of each session is
    writer,     \* its writer task: "none", "recv", "sending", "sent", "ended",
                \* or "stuck" in a write to a pool that has stopped reading
    reserve,    \* its constraints (session_constraints)
    latest,     \* the constraints the pool sent last (history)
    held,       \* template it is about to send or has just sent
    cache,      \* template_cache: the set of snapshots, by their ids
    frame,      \* frame of the pool in work: an answer that waits for the writer
                \* or a block at submitblock, with the snapshot found for its id
    sent,       \* templates the pool has been sent (history)
    seen        \* id of the last broadcast it owes nothing for: the last one it
                \* has considered, or the last one when it subscribed (history)

sessionVars == <<phase, writer, reserve, latest, held, cache, frame, sent, seen>>
vars == <<pollVars, sessionVars>>

Phases == {"connecting", "setup", "waiting", "sending", "sent", "initialised",
           "live", "idle", "closed"}
Writers == {"none", "recv", "sending", "sent", "stuck", "ended"}
Subscribed == {"recv", "sending", "sent", "stuck"}
Ids == 0 .. MaxChanges + 1
NoReserve == [size |-> 0, sigops |-> 0]
Frame == [kind : {"data", "solution"}, id : Ids, found : SUBSET Snapshot]

\* Types of all variables; ids are numbers the poller has given out.
TypeOK ==
    /\ PollerTypeOK
    /\ phase \in [Sessions -> Phases]
    /\ writer \in [Sessions -> Writers]
    /\ reserve \in [Sessions -> Reserves \cup {NoReserve}]
    /\ latest \in [Sessions -> Reserves \cup {NoReserve}]
    /\ held \in [Sessions -> Snapshot \cup {NoSnapshot}]
    /\ cache \in [Sessions -> SUBSET Snapshot]
    /\ \A s \in Sessions : Cardinality(cache[s]) <= CacheCap
    /\ frame \in [Sessions -> Frame \cup {NoFrame}]
    /\ sent \in [Sessions -> SUBSET Snapshot]
    /\ seen \in [Sessions -> Ids]
    /\ DOMAIN queue = {s \in Sessions : writer[s] \in Subscribed}

Init ==
    /\ PollerInit
    /\ phase = [s \in Sessions |-> "connecting"]
    /\ writer = [s \in Sessions |-> "none"]
    /\ reserve = [s \in Sessions |-> NoReserve]
    /\ latest = [s \in Sessions |-> NoReserve]
    /\ held = [s \in Sessions |-> NoSnapshot]
    /\ cache = [s \in Sessions |-> {}]
    /\ frame = [s \in Sessions |-> NoFrame]
    /\ sent = [s \in Sessions |-> {}]
    /\ seen = [s \in Sessions |-> 0]

LastId == IF lastBroadcast = NoSnapshot THEN 0 ELSE lastBroadcast.id
IdsOf(S) == {x.id : x \in S}

-----------------------------------------------------------------------------
(* Estimates of the block under the pool's reserve, in units.              *)

Total(f, txs) == FoldLeft(LAMBDA sum, tx : sum + f[tx], 0, txs)

\* Header, coinbase and fixed outputs, the same for all, are left out.
Fits(t, r) ==
    /\ SizeLimit # 0 => Total(TxSize, t.txs) + r.size <= SizeLimit
    /\ SigopLimit # 0 => Total(TxSigops, t.txs) + r.sigops <= SigopLimit

\* MUTANT: the highest id goes.
MutInsert(c, x) ==
    LET all == {y \in c : y.id # x.id} \cup {x}
    IN  IF Cardinality(all) > CacheCap
        THEN {y \in all : y.id # Max(IdsOf(all))} ELSE all

\* The cache with one snapshot more: the lowest id goes when it is full.
Insert(c, x) ==
    LET all == {y \in c : y.id # x.id} \cup {x}
    IN  IF Cardinality(all) > CacheCap
        THEN {y \in all : y.id # Min(IdsOf(all))} ELSE all

-----------------------------------------------------------------------------
(* Setup of a session.                                                     *)

Become(s, from, to) == phase[s] = from /\ phase' = [phase EXCEPT ![s] = to]

SetupAccepted(s) ==
    /\ Become(s, "connecting", "setup")
    /\ UNCHANGED <<pollVars, writer, reserve, latest, held, cache, frame, sent, seen>>

\* Another message, protocol or version: SetupConnectionError.
SetupRefused(s) ==
    /\ Become(s, "connecting", "idle")
    /\ UNCHANGED <<pollVars, writer, reserve, latest, held, cache, frame, sent, seen>>

StoreConstraints(s) ==
    /\ Become(s, "setup", "waiting")
    /\ \E r \in Reserves : /\ reserve' = [reserve EXCEPT ![s] = r]
                           /\ latest' = [latest EXCEPT ![s] = r]
    /\ UNCHANGED <<pollVars, writer, held, cache, frame, sent, seen>>

\* The first frame is not a CoinbaseOutputConstraints.
InitRefused(s) ==
    /\ Become(s, "setup", "idle")
    /\ UNCHANGED <<pollVars, writer, reserve, latest, held, cache, frame, sent, seen>>

\* The watch cell has a template: it is sent if it fits, else skipped.
ReadWatch(s) ==
    /\ watch # NoSnapshot
    /\ Become(s, "waiting", IF Fits(watch.template, reserve[s]) THEN "sending" ELSE "initialised")
    /\ held' = [held EXCEPT ![s] = watch]
    /\ UNCHANGED <<pollVars, writer, reserve, latest, cache, frame, sent, seen>>

SendFirst(s) ==
    /\ Become(s, "sending", "sent")
    /\ sent' = [sent EXCEPT ![s] = @ \cup {held[s]}]
    /\ UNCHANGED <<pollVars, writer, reserve, latest, held, cache, frame, seen>>

SendFirstFails(s) ==
    /\ Become(s, "sending", "idle")
    /\ UNCHANGED <<pollVars, writer, reserve, latest, held, cache, frame, sent, seen>>

CacheFirst(s) ==
    /\ Become(s, "sent", "initialised")
    /\ cache' = [cache EXCEPT ![s] = Insert(@, held[s])]
    /\ UNCHANGED <<pollVars, writer, reserve, latest, held, frame, sent, seen>>

Listen(s, q) ==
    queue' = [t \in DOMAIN queue \cup {s} |-> IF t = s THEN q ELSE queue[t]]

\* MUTANT: the receiver starts with what was broadcast last.
MutSubscribe(s) ==
    /\ Become(s, "initialised", "live")
    /\ Listen(s, <<lastBroadcast>>)
    /\ seen' = [seen EXCEPT ![s] = LastId]
    /\ writer' = [writer EXCEPT ![s] = "recv"]
    /\ UNCHANGED <<nodeVars, zmq, pollerVars, reserve, latest, held, cache, frame, sent>>

\* The stream is split, the writer task starts. A broadcast since the watch
\* cell was read is not in the queue of the new receiver.
Subscribe(s) ==
    /\ Become(s, "initialised", "live")
    /\ Listen(s, <<>>)
    /\ seen' = [seen EXCEPT ![s] = LastId]
    /\ writer' = [writer EXCEPT ![s] = "recv"]
    /\ UNCHANGED <<nodeVars, zmq, pollerVars, reserve, latest, held, cache, frame, sent>>

\* The pool hangs up, or a frame cannot be read: the connection task ends.
\* A writer task lives on until a write of its fails.
Disconnect(s) ==
    /\ phase[s] \in {"connecting", "setup", "live", "idle"}
    /\ frame[s] # NoFrame => frame[s].kind = "data"
    /\ phase' = [phase EXCEPT ![s] = "closed"]
    /\ UNCHANGED <<pollVars, writer, reserve, latest, held, cache, frame, sent, seen>>

-----------------------------------------------------------------------------
(* The writer task.                                                        *)

Writes(s, from, to) == writer[s] = from /\ writer' = [writer EXCEPT ![s] = to]

\* An answer that has not been sent is lost with the writer.
EndsWriter(s) ==
    /\ frame' = [frame EXCEPT ![s] =
          IF @ # NoFrame /\ @.kind = "data" THEN NoFrame ELSE @]
    /\ writer' = [writer EXCEPT ![s] = "ended"]
    /\ queue' = Restrict(queue, DOMAIN queue \ {s})
    /\ UNCHANGED <<nodeVars, zmq, pollerVars>>

\* All queued broadcasts are taken and the latest is considered.
TakeLatest(s) ==
    /\ writer[s] = "recv"
    /\ queue[s] # <<>>
    /\ LET newest == Last(queue[s])
       IN  /\ held' = [held EXCEPT ![s] = newest]
           /\ seen' = [seen EXCEPT ![s] = newest.id]
           /\ writer' = [writer EXCEPT ![s] =
                 IF Fits(newest.template, reserve[s]) THEN "sending" ELSE "recv"]
    /\ queue' = [queue EXCEPT ![s] = <<>>]
    /\ UNCHANGED <<nodeVars, zmq, pollerVars, phase, reserve, latest, cache, frame, sent>>

SendPair(s) ==
    /\ Writes(s, "sending", "sent")
    /\ sent' = [sent EXCEPT ![s] = @ \cup {held[s]}]
    /\ UNCHANGED <<pollVars, phase, reserve, latest, held, cache, frame, seen>>

\* The pool stops reading for good while a template or an answer is written to
\* it. A write has no timeout: this one ends only if the connection breaks.
WriteStalls(s) ==
    /\ \/ writer[s] = "sending"
       \/ writer[s] = "recv" /\ frame[s] # NoFrame /\ frame[s].kind = "data"
    /\ writer' = [writer EXCEPT ![s] = "stuck"]
    /\ UNCHANGED <<pollVars, phase, reserve, latest, held, cache, frame, sent, seen>>

SendPairFails(s) ==
    /\ writer[s] \in {"sending", "stuck"}
    /\ EndsWriter(s)
    /\ UNCHANGED <<phase, reserve, latest, held, cache, sent, seen>>

CacheSent(s) ==
    /\ Writes(s, "sent", "recv")
    /\ cache' = [cache EXCEPT ![s] = Insert(@, held[s])]
    /\ UNCHANGED <<pollVars, phase, reserve, latest, held, frame, sent, seen>>

SendReply(s) ==
    /\ writer[s] = "recv"
    /\ frame[s] # NoFrame /\ frame[s].kind = "data"
    /\ frame' = [frame EXCEPT ![s] = NoFrame]
    /\ UNCHANGED <<pollVars, phase, writer, reserve, latest, held, cache, sent, seen>>

SendReplyFails(s) ==
    /\ writer[s] = "recv"
    /\ frame[s] # NoFrame /\ frame[s].kind = "data"
    /\ EndsWriter(s)
    /\ UNCHANGED <<phase, reserve, latest, held, cache, sent, seen>>

-----------------------------------------------------------------------------
(* The read loop: frames of the pool, about any id it was sent.            *)

\* MUTANT: an id that is not cached stands for the latest template.
MutResolve(s, id) == IF \E x \in cache[s] : x.id = id
                     THEN {x \in cache[s] : x.id = id}
                     ELSE {[watch EXCEPT !.id = id]}

\* The snapshot a frame's template_id stands for, if the cache has it.
Resolve(s, id) == {x \in cache[s] : x.id = id}

\* The answer, or template-id-not-found, goes to the writer. A pool sends its
\* next frame when this one is done with (a bound). An idle session has no
\* writer, and gives no answer.
RequestTransactionData(s, id) ==
    /\ phase[s] = "live"
    /\ writer[s] # "ended"
    /\ frame[s] = NoFrame
    /\ frame' = [frame EXCEPT ![s] = [kind |-> "data", id |-> id, found |-> Resolve(s, id)]]
    /\ UNCHANGED <<pollVars, phase, writer, reserve, latest, held, cache, sent, seen>>

\* A solved block is put together from the cached snapshot and submitted. A
\* miss leaves nothing behind.
SubmitSolution(s, id) ==
    /\ phase[s] = "live"
    /\ frame[s] = NoFrame
    /\ Resolve(s, id) # {}
    /\ frame' = [frame EXCEPT ![s] = [kind |-> "solution", id |-> id, found |-> Resolve(s, id)]]
    /\ UNCHANGED <<pollVars, phase, writer, reserve, latest, held, cache, sent, seen>>

\* A later CoinbaseOutputConstraints is read and not handled: the session keeps
\* those of its setup. (An idle session does not handle it either.)
ReserveAgain(s) ==
    /\ phase[s] = "live"
    /\ \E r \in Reserves : latest' = [latest EXCEPT ![s] = r]
    /\ UNCHANGED <<pollVars, phase, writer, reserve, held, cache, frame, sent, seen>>

\* submitblock is answered, either way, or fails; the read loop goes on.
BlockSubmitted(s) ==
    /\ frame[s] # NoFrame /\ frame[s].kind = "solution"
    /\ frame' = [frame EXCEPT ![s] = NoFrame]
    /\ UNCHANGED <<pollVars, phase, writer, reserve, latest, held, cache, sent, seen>>

-----------------------------------------------------------------------------

PollerStep == PollerNext /\ UNCHANGED sessionVars

Setup(s) ==
    \/ SetupAccepted(s) \/ StoreConstraints(s) \/ ReadWatch(s) \/ SendFirst(s)
    \/ CacheFirst(s) \/ Subscribe(s)

Write(s) == TakeLatest(s) \/ SendPair(s) \/ CacheSent(s) \/ SendReply(s)

Failure(s) ==
    \/ SetupRefused(s) \/ InitRefused(s) \/ SendFirstFails(s) \/ SendPairFails(s)
    \/ SendReplyFails(s) \/ WriteStalls(s) \/ Disconnect(s)

Read(s) ==
    \/ \E id \in IdsOf(sent[s]) : RequestTransactionData(s, id) \/ SubmitSolution(s, id)
    \/ BlockSubmitted(s)
    \/ ReserveAgain(s)

Next == PollerStep \/ \E s \in Sessions : Setup(s) \/ Write(s) \/ Failure(s) \/ Read(s)

Spec == Init /\ [][Next]_vars

\* A write that has not stalled comes to its end.
WriteGoesOn(s) ==
    /\ writer[s] # "stuck"
    /\ SendPair(s) \/ CacheSent(s) \/ SendPairFails(s) \/ WriteStalls(s)

\* The runtime goes on running the poller and the writers, whose select picks
\* broadcasts and answers at random. A write ends, fails or stalls (WriteStalls),
\* a request to the node ends, fails or stays without an answer (GbtHangs), and
\* the node does not fail every request. Pools owe nothing.
FairSpec ==
    /\ Spec
    /\ WF_vars(PollerStep /\ (Tick \/ PublishWatch))
    /\ SF_vars(PollerStep /\ (Suppress \/ Broadcast))
    /\ \A s \in Sessions :
          /\ WF_vars(TakeLatest(s))
          /\ WF_vars(WriteGoesOn(s))

-----------------------------------------------------------------------------
(* The merkle path of NewTemplate, and the root the pool folds it to.      *)

Padded(leaves) == IF Len(leaves) % 2 = 1 THEN Append(leaves, Last(leaves)) ELSE leaves

\* One level up: hashes of pairs, here the pairs themselves.
Paired(leaves) == [i \in 1 .. Len(Padded(leaves)) \div 2 |->
                      <<Padded(leaves)[2 * i - 1], Padded(leaves)[2 * i]>>]

\* The level above the leaves by n, the coinbase the leftmost leaf.
Level(coinbase, txs) ==
    LET level[n \in 0 .. Len(txs)] ==
            IF n = 0 THEN <<coinbase>> \o txs
            ELSE IF Len(level[n - 1]) = 1 THEN level[n - 1] ELSE Paired(level[n - 1])
    IN  level

\* MUTANT: the sibling is taken before the level is padded.
MutMerklePath(txs) ==
    LET level == Level(<<"placeholder">>, txs)
        depth == Cardinality({n \in 0 .. Len(txs) : Len(level[n]) > 1})
    IN  [n \in 1 .. depth |-> Last(level[n - 1])]

\* The sibling of the leftmost node on every level below the root.
MerklePath(txs) ==
    LET level == Level(<<"placeholder">>, txs)
        depth == Cardinality({n \in 0 .. Len(txs) : Len(level[n]) > 1})
    IN  [n \in 1 .. depth |-> Padded(level[n - 1])[2]]

RootFromPath(coinbase, path) == FoldLeft(LAMBDA acc, h : <<acc, h>>, coinbase, path)
BlockRoot(coinbase, txs) == Level(coinbase, txs)[Len(txs)][1]

-----------------------------------------------------------------------------
(* Properties                                                              *)

Everywhere ==
    ({watch, lastBroadcast} \cup (UNION {Range(queue[s]) : s \in DOMAIN queue})
        \cup (UNION {cache[s] \cup sent[s] \cup {held[s]} : s \in Sessions})) \ {NoSnapshot}

\* An id stands for one template, wherever it is: sessions that join from the
\* watch cell and sessions that follow the broadcasts agree on it, also when
\* the node has moved on to templates that were not pushed.
IdNamesOneTemplate == \A x, y \in Everywhere : x.id = y.id => x = y

\* Poller and sessions are well-formed, caches bounded, and ids unambiguous.
TemplatesSound == TypeOK /\ IdNamesOneTemplate

\* A template that a pool has been sent can be resolved (SubmitSolution,
\* RequestTransactionData) until CacheCap later ones have been, but for the
\* moment between its send and its entry in the cache.
SentStaysAnswerable ==
    \A s \in Sessions : \A x \in sent[s] :
        \/ x \in cache[s]
        \/ held[s] = x /\ "sent" \in {phase[s], writer[s]}
        \/ Cardinality(cache[s]) = CacheCap /\ \A y \in cache[s] : y.id > x.id

\* No pool is sent a template whose block could not hold what it reserved when its
\* session was set up, also when broadcasts have piled up and only the latest is
\* sent. (What it reserves later is not looked at, see LatestReserveCounts.)
OnlyFittingSent == \A s \in Sessions : \A x \in sent[s] : Fits(x.template, reserve[s])

\* What a pool is sent it can use: its solution is found, and fits into a block with
\* what the pool reserved at setup.
SentIsUsable == SentStaysAnswerable /\ OnlyFittingSent

\* A session that has nothing left to receive has considered the last
\* broadcast, if there was one since it subscribed: lagging and coalescing
\* lose older templates only.
CaughtUpWhenQuiet ==
    \A s \in DOMAIN queue :
        writer[s] = "recv" /\ queue[s] = <<>> => seen[s] = LastId

\* A solved block is of the template whose id the solution gives: its merkle
\* root is the one the pool got from the path it was sent under that id, and
\* its tip is that template's, whatever has been pushed since. A data request
\* gets the transactions of that template or none.
FramesAreOfTheirJobs ==
    \A s \in Sessions : frame[s] # NoFrame =>
        \A y \in frame[s].found : \E x \in sent[s] :
            /\ x.id = frame[s].id
            /\ x.template.tip = y.template.tip
            /\ RootFromPath(<<"coinbase">>, MerklePath(x.template.txs))
                 = BlockRoot(<<"coinbase">>, y.template.txs)

\* A live session is sent each id once, in rising order, and never back to an
\* older tip: its receiver starts after the template it began with.
SendsMoveForward ==
    [][\A s \in Sessions :
        writer[s] = "sending" /\ writer'[s] = "sent" =>
            \A y \in sent[s] : y.id < held[s].id /\ y.template.tip <= held[s].template.tip]_vars

\* A new tip reaches the live sessions, whatever its fees and its number of
\* transactions: in the end the last broadcast has the node's tip, unless a request
\* to the node has hung, and each session with a writer that was subscribed by then
\* has considered it, unless its pool has stopped reading.
TipsReachSessions ==
    <>[](/\ \/ poller = "hung"
            \/ lastBroadcast # NoSnapshot /\ lastBroadcast.template.tip = node.tip
         /\ \A s \in DOMAIN queue : writer[s] = "stuck" \/ seen[s] = LastId)

\* A template that is pushed to a live session leaves room for what its pool has
\* reserved last ("The latest per-session CoinbaseOutputConstraints are persisted
\* and used to reject templates").
LatestReserveCounts ==
    [][\A s \in Sessions : writer[s] = "recv" /\ writer'[s] = "sending" =>
            Fits(held'[s].template, latest[s])]_vars
=============================================================================
