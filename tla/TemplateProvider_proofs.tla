----------------------- MODULE TemplateProvider_proofs -----------------------
(***************************************************************************)
(* What the poller and the sessions of the template provider keep, for any *)
(* number of sessions, any mempools and fees, any channel and cache.       *)
(*                                                                         *)
(* Of sizes, sigops and fees the proofs use only that a template fits      *)
(* under a reserve or does not, and is worth a push or is not.  What a     *)
(* pool makes of a merkle path is proved for templates of any length.      *)
(***************************************************************************)
EXTENDS TemplateProvider, Sums_proofs, TLAPS

\* Ids rise with the tips, and name templates.
InOrder(S) ==
    \A x, y \in S : /\ x.id = y.id => x = y
                    /\ x.id <= y.id => x.template.tip <= y.template.tip

-----------------------------------------------------------------------------
(* The cache.                                                              *)

LEMMA LeastId ==
  ASSUME NEW S \in SUBSET Nat, S # {}
  PROVE  Min(S) \in S /\ \A n \in S : Min(S) <= n
<1>1. \E least \in S : \A n \in S : least <= n
  BY LeastNumber
<1> QED
  BY <1>1 DEF Min

\* A snapshot that is not below the cached ones is cached next, and of the
\* others all that are not below the whole full cache.
LEMMA InsertFacts ==
  ASSUME NEW c \in SUBSET Snapshot, IsFiniteSet(c), Cardinality(c) <= CacheCap,
         NEW x \in Snapshot, InOrder(c \cup {x}), \A y \in c : y.id <= x.id
  PROVE  /\ Insert(c, x) \subseteq c \cup {x}
         /\ IsFiniteSet(Insert(c, x)) /\ Cardinality(Insert(c, x)) <= CacheCap
         /\ \A y \in c \cup {x} :
              \/ y \in Insert(c, x)
              \/ /\ Cardinality(Insert(c, x)) = CacheCap
                 /\ \A z \in Insert(c, x) : z.id > y.id
         /\ \A n \in Nat : n < x.id /\ Cardinality(c) = CacheCap /\ (\A y \in c : y.id > n) =>
              /\ Cardinality(Insert(c, x)) = CacheCap
              /\ \A z \in Insert(c, x) : z.id > n
<1> DEFINE all == {y \in c : y.id # x.id} \cup {x}
           least == Min(IdsOf(all))
           kept == {y \in all : y.id # least}
<1>1. all = c \cup {x}
  BY DEF InOrder
<1>2. /\ IsFiniteSet(all) /\ Cardinality(c) \in Nat /\ CacheCap \in Nat \ {0}
      /\ Cardinality(all) \in Cardinality(c) .. Cardinality(c) + 1
  BY <1>1, FS_AddElement, FS_CardinalityType, SessionsAssumption
<1>3. Insert(c, x) = IF Cardinality(all) > CacheCap THEN kept ELSE all
  BY DEF Insert
<1>4. \A y \in all : y.id \in Nat
  BY <1>1 DEF Snapshot
<1>5. IdsOf(all) \in SUBSET Nat /\ IdsOf(all) # {}
  BY <1>4 DEF IdsOf
<1>6. least \in IdsOf(all) /\ \A n \in IdsOf(all) : least <= n
  BY <1>5, LeastId
<1> HIDE DEF all, least
<1>7. PICK first \in all : first.id = least /\ \A y \in all : first.id <= y.id
  BY <1>6 DEF IdsOf
<1>8. kept = all \ {first}
  BY <1>1, <1>7 DEF InOrder
<1>9. IsFiniteSet(kept) /\ Cardinality(kept) = Cardinality(all) - 1
  BY <1>2, <1>8, FS_RemoveElement
<1>10. \A z \in kept : z.id > first.id
  BY <1>4, <1>7
<1>11. CASE Cardinality(all) <= CacheCap
  <2>1. Insert(c, x) = all
    BY <1>2, <1>3, <1>11
  <2>2. Cardinality(c) = CacheCap => Cardinality(all) = CacheCap
    BY <1>2, <1>11
  <2> QED
    BY <1>1, <1>2, <1>4, <1>11, <2>1, <2>2
<1>12. CASE Cardinality(all) > CacheCap
  <2>1. Insert(c, x) = kept /\ Cardinality(kept) = CacheCap
    BY <1>2, <1>3, <1>9, <1>12
  <2>2. \A n \in Nat : n < x.id /\ (\A y \in c : y.id > n) => \A z \in kept : z.id > n
    BY <1>1, <1>4, <1>8
  <2>3. kept \subseteq c \cup {x}
    BY <1>1
  <2>4. \A y \in c \cup {x} : y \in kept \/ y = first
    BY <1>1, <1>8
  <2> HIDE DEF kept
  <2>5. Cardinality(kept) <= CacheCap
    BY <1>2, <2>1
  <2>6. \A y \in c \cup {x} : y \in kept \/ (\A z \in kept : z.id > y.id)
    BY <1>10, <2>4
  <2> QED
    BY <1>9, <2>1, <2>2, <2>3, <2>5, <2>6
<1> QED
  BY <1>2, <1>11, <1>12

-----------------------------------------------------------------------------
(* The poller.                                                             *)

\* Every place a pushed template can be.
Places ==
    /\ \A x \in Everywhere :
        x \in Snapshot /\ x.id <= LastId /\ x.template.tip <= node.tip
    /\ InOrder(Everywhere)

\* An id is given out with a change of the node only, but for the first.
PollInv ==
    /\ node.tip <= changes
    /\ nextId = LastId + 1
    /\ nextId <= changes + 2
    /\ lastBroadcast = NoSnapshot \/ node # lastBroadcast.template => nextId <= changes + 1

\* What session s has been sent, while it is subscribed, is not above what it
\* has seen; what is queued for it is, up to the last broadcast.
QueueInv(s) ==
    /\ \A i \in DOMAIN queue[s] : queue[s][i].id > seen[s]
    /\ \A x \in sent[s] : x.id <= seen[s]
    /\ seen[s] <= LastId
    /\ IF queue[s] = <<>> THEN seen[s] = LastId ELSE Last(queue[s]) = lastBroadcast
    /\ writer[s] \notin {"recv", "stuck"} => held[s].id = seen[s]
    /\ writer[s] = "sending" => \A x \in sent[s] : x.id < seen[s]

Unsent == {"connecting", "setup", "waiting", "sending"}
Early == Unsent \cup {"sent", "initialised"}

Answerable(s, x) ==
    \/ x \in cache[s]
    \/ held[s] = x /\ "sent" \in {phase[s], writer[s]}
    \/ Cardinality(cache[s]) = CacheCap /\ \A y \in cache[s] : y.id > x.id

SessInv(s) ==
    /\ phase[s] \in Early => writer[s] = "none"
    /\ phase[s] \in Unsent => sent[s] = {}
    /\ "sending" \in {phase[s], writer[s]} =>
         held[s] # NoSnapshot /\ Fits(held[s].template, reserve[s])
    /\ "sent" \in {phase[s], writer[s]} => held[s] \in sent[s]
    /\ phase[s] = "sent" => sent[s] = {held[s]}
    /\ IsFiniteSet(cache[s]) /\ cache[s] \subseteq sent[s]
    /\ \A x \in sent[s] : Fits(x.template, reserve[s]) /\ Answerable(s, x)
    /\ writer[s] \in Subscribed => QueueInv(s)

ProviderInv == TypeOK /\ Places /\ PollInv /\ \A s \in Sessions : SessInv(s)

LEMMA EverywhereIs ==
  \A x : x \in Everywhere <=>
      /\ x # NoSnapshot
      /\ \/ x = watch \/ x = lastBroadcast
         \/ \E s \in DOMAIN queue : \E i \in DOMAIN queue[s] : x = queue[s][i]
         \/ \E s \in Sessions : x \in cache[s] \/ x \in sent[s] \/ x = held[s]
  BY DEF Everywhere, Range

LEMMA EverywhereNext ==
  \A x : x \in Everywhere' <=>
      /\ x # NoSnapshot
      /\ \/ x = watch' \/ x = lastBroadcast'
         \/ \E s \in DOMAIN queue' : \E i \in DOMAIN queue'[s] : x = queue'[s][i]
         \/ \E s \in Sessions : x \in cache'[s] \/ x \in sent'[s] \/ x = held'[s]
  BY DEF Everywhere, Range

LEMMA InitProvider == Init => ProviderInv
<1> SUFFICES ASSUME Init
             PROVE  ProviderInv
  OBVIOUS
<1> USE DEF Init, PollerInit
<1>1. PollerTypeOK
  BY PollerAssumption DEF PollerTypeOK, Template
<1>2. TypeOK
  <2>1. 0 \in Ids
    BY PollerAssumption DEF Ids
  <2> QED
    BY <1>1, <2>1, FS_EmptySet, SessionsAssumption DEF TypeOK, Phases, Writers, Subscribed
<1>3. Everywhere = {}
  BY EverywhereIs
<1>4. Places
  BY <1>3 DEF Places, InOrder
<1>5. PollInv
  BY DEF PollInv, LastId
<1>6. \A s \in Sessions : SessInv(s)
  BY FS_EmptySet DEF SessInv, Subscribed
<1> QED
  BY <1>2, <1>4, <1>5, <1>6 DEF ProviderInv

\* A step that gives out no id and moves templates to where some were.
LEMMA PlacesStep ==
  ASSUME Places, Everywhere' \subseteq Everywhere, lastBroadcast' = lastBroadcast,
         Everywhere \subseteq Snapshot, node.tip \in Nat, node'.tip \in Nat,
         node.tip <= node'.tip
  PROVE  Places'
<1>1. LastId' = LastId
  BY DEF LastId
<1>2. \A x \in Everywhere : x.template.tip \in Nat
  BY DEF Snapshot, Template
<1> QED
  BY <1>1, <1>2 DEF Places, InOrder

\* A step after which session s is as it was.
LEMMA SessFrame ==
  ASSUME NEW s \in Sessions, SessInv(s), lastBroadcast' = lastBroadcast,
         phase'[s] = phase[s], writer'[s] = writer[s], reserve'[s] = reserve[s],
         held'[s] = held[s], cache'[s] = cache[s], sent'[s] = sent[s],
         seen'[s] = seen[s], writer[s] \in Subscribed => queue'[s] = queue[s]
  PROVE  SessInv(s)'
<1>1. LastId' = LastId
  BY DEF LastId
<1> QED
  BY <1>1 DEF SessInv, QueueInv, Answerable

\* A step of the poller that broadcasts nothing.
LEMMA PollerQuiet ==
  ASSUME ProviderInv, UNCHANGED sessionVars, UNCHANGED <<queue, lastBroadcast, nextId>>,
         NodeChanges \/ Tick \/ DebounceFires \/ GbtFails \/ GbtHangs \/ Suppress
           \/ PublishWatch
  PROVE  ProviderInv'
<1> USE DEF ProviderInv
<1>1. /\ PollerTypeOK' /\ node'.tip <= changes' /\ node.tip <= node'.tip
      /\ changes' >= changes /\ (node' # node => changes' = changes + 1)
      /\ watch' \in {watch, lastBroadcast}
  <2>1. CASE NodeChanges
    BY <2>1, PollerAssumption
      DEF NodeChanges, MayWake, TypeOK, PollerTypeOK, Template, PollInv, pollerVars
  <2>2. CASE Tick \/ DebounceFires \/ GbtFails \/ GbtHangs \/ Suppress \/ PublishWatch
    BY <2>2, PollerAssumption DEF Tick, DebounceFires, GbtFails, GbtHangs, Suppress, PublishWatch,
      TypeOK, PollerTypeOK, Template, PollInv, nodeVars
  <2> QED
    BY <2>1, <2>2
<1>2. TypeOK'
  BY <1>1 DEF TypeOK, sessionVars
<1>3. Everywhere' \subseteq Everywhere
  BY <1>1, EverywhereIs, EverywhereNext DEF sessionVars
<1>4. Places'
  <2>1. node.tip \in Nat /\ node'.tip \in Nat
    BY <1>1 DEF TypeOK, PollerTypeOK, Template
  <2> QED
    BY <1>1, <1>3, <2>1, PlacesStep DEF Places
<1>5. PollInv'
  <2>1. LastId' = LastId
    BY DEF LastId
  <2>2. changes \in Nat /\ changes' \in Nat /\ nextId \in Nat
    BY <1>1, PollerAssumption DEF TypeOK, PollerTypeOK
  <2>3. nextId' = nextId /\ nextId = LastId + 1 /\ nextId <= changes + 2
    BY DEF PollInv
  <2>4. ASSUME lastBroadcast = NoSnapshot \/ node' # lastBroadcast.template
        PROVE  nextId <= changes' + 1
    <3>1. CASE node' = node
      BY <1>1, <2>2, <2>4, <3>1 DEF PollInv
    <3>2. CASE node' # node
      BY <1>1, <2>2, <2>3, <3>2
    <3> QED
      BY <3>1, <3>2
  <2> QED
    BY <1>1, <2>1, <2>2, <2>3, <2>4 DEF PollInv
<1>6. \A s \in Sessions : SessInv(s)'
  BY SessFrame DEF sessionVars
<1> QED
  BY <1>2, <1>4, <1>5, <1>6

LEMMA EnqueueFacts ==
  ASSUME NEW q \in Seq(Snapshot), Len(q) <= ChannelDepth, NEW x \in Snapshot
  PROVE  /\ Enqueue(q, x) \in Seq(Snapshot) /\ Len(Enqueue(q, x)) <= ChannelDepth
         /\ Enqueue(q, x) # <<>> /\ Last(Enqueue(q, x)) = x
         /\ \A i \in DOMAIN Enqueue(q, x) :
              Enqueue(q, x)[i] = x \/ \E j \in DOMAIN q : Enqueue(q, x)[i] = q[j]
<1> DEFINE all == Append(q, x)
<1>1. /\ all \in Seq(Snapshot) /\ Len(all) = Len(q) + 1 /\ Len(q) \in Nat
      /\ ChannelDepth \in Nat \ {0}
  BY PollerAssumption
<1>2. \A i \in 1 .. Len(all) : all[i] = IF i <= Len(q) THEN q[i] ELSE x
  OBVIOUS
<1>3. Enqueue(q, x) = IF Len(all) > ChannelDepth THEN Tail(all) ELSE all
  BY DEF Enqueue
<1> HIDE DEF all
<1>4. CASE Len(all) > ChannelDepth
  <2>1. /\ Tail(all) \in Seq(Snapshot) /\ Len(Tail(all)) = Len(q) /\ Len(q) = ChannelDepth
        /\ \A i \in 1 .. Len(q) : Tail(all)[i] = all[i + 1]
    BY <1>1, <1>4
  <2> QED
    BY <1>1, <1>2, <1>3, <1>4, <2>1 DEF Last
<1>5. CASE Len(all) <= ChannelDepth
  BY <1>1, <1>2, <1>3, <1>5 DEF Last
<1> QED
  BY <1>1, <1>4, <1>5

LEMMA PushIsNews ==
  ASSUME DoPush(node)
  PROVE  lastBroadcast = NoSnapshot \/ node # lastBroadcast.template
  BY DEF DoPush, TipChanged, SameAsLastPush, Fingerprint

LEMMA BroadcastKeeps ==
  ASSUME ProviderInv, UNCHANGED sessionVars, Broadcast
  PROVE  ProviderInv'
<1> DEFINE x == [id |-> nextId, template |-> node]
<1>1. /\ lastBroadcast' = x /\ nextId' = nextId + 1 /\ UNCHANGED <<node, changes, zmq, watch>>
      /\ queue' = [s \in DOMAIN queue |-> Enqueue(queue[s], x)]
      /\ poller' = "publishing"
  BY DEF Broadcast, nodeVars
<1>2. /\ nextId = LastId + 1 /\ nextId <= changes + 1 /\ nextId \in Nat /\ LastId \in Nat
      /\ changes \in 0 .. MaxChanges /\ MaxChanges \in Nat /\ node.tip <= changes
      /\ node \in Template
  <2>1. LastId \in Nat
    BY DEF ProviderInv, TypeOK, PollerTypeOK, Snapshot, LastId
  <2> QED
    BY <2>1, PushIsNews, PollerAssumption
      DEF ProviderInv, PollInv, TypeOK, PollerTypeOK, Broadcast
<1>3. x \in Snapshot /\ x.id = nextId /\ x.template = node
  BY <1>2 DEF Snapshot
<1> HIDE DEF x
<1>4. LastId' = nextId
  BY <1>1, <1>3, NoSnapshotAssumption DEF LastId
<1>5. /\ DOMAIN queue \subseteq Sessions
      /\ \A s \in DOMAIN queue : queue[s] \in Seq(Snapshot) /\ Len(queue[s]) <= ChannelDepth
  BY DEF ProviderInv, TypeOK, PollerTypeOK
<1>6. \A s \in DOMAIN queue :
         /\ queue'[s] \in Seq(Snapshot) /\ Len(queue'[s]) <= ChannelDepth
         /\ queue'[s] # <<>> /\ Last(queue'[s]) = x
         /\ \A i \in DOMAIN queue'[s] :
              queue'[s][i] = x \/ \E j \in DOMAIN queue[s] : queue'[s][i] = queue[s][j]
  BY <1>1, <1>3, <1>5, EnqueueFacts
<1>7. DOMAIN queue' = DOMAIN queue
  BY <1>1
<1>8. TypeOK'
  <2>1. PollerTypeOK'
    BY <1>1, <1>2, <1>3, <1>5, <1>6, <1>7 DEF PollerTypeOK, ProviderInv, TypeOK
  <2> QED
    BY <1>7, <2>1 DEF ProviderInv, TypeOK, sessionVars
<1>9. \A y \in Everywhere' : y = x \/ y \in Everywhere
  BY <1>1, <1>6, <1>7, EverywhereIs, EverywhereNext DEF sessionVars
<1>10. Places'
  <2>1. \A y \in Everywhere : /\ y \in Snapshot /\ y.id \in Nat /\ y.id < nextId
                              /\ y.template.tip \in Nat /\ y.template.tip <= node.tip
    BY <1>2 DEF ProviderInv, Places, Snapshot, Template
  <2>2. x.id = nextId /\ x.template.tip = node.tip /\ node.tip \in Nat
    BY <1>2, <1>3 DEF Template
  <2>3. \A y \in Everywhere' : y \in Snapshot /\ y.id <= nextId /\ y.template.tip <= node.tip
    BY <1>2, <1>3, <1>9, <2>1, <2>2
  <2>4. InOrder(Everywhere')
    BY <1>2, <1>9, <2>1, <2>2 DEF InOrder, ProviderInv, Places
  <2> QED
    BY <1>1, <1>4, <2>3, <2>4 DEF Places
<1>11. PollInv'
  BY <1>1, <1>2, <1>3, <1>4, NoSnapshotAssumption DEF PollInv
<1>12. ASSUME NEW s \in Sessions
       PROVE  SessInv(s)'
  <2>1. SessInv(s)
    BY DEF ProviderInv
  <2>2. ASSUME writer[s] \in Subscribed
        PROVE  QueueInv(s)'
    <3>1. s \in DOMAIN queue /\ QueueInv(s) /\ seen[s] \in Nat
      BY <2>1, <2>2 DEF ProviderInv, TypeOK, SessInv, Ids
    <3>2. \A i \in DOMAIN queue'[s] : queue'[s][i].id > seen[s]
      BY <1>2, <1>3, <1>6, <3>1 DEF QueueInv
    <3> QED
      BY <1>1, <1>2, <1>4, <1>6, <3>1, <3>2 DEF QueueInv, sessionVars
  <2> QED
    BY <2>1, <2>2 DEF SessInv, Answerable, sessionVars
<1> QED
  BY <1>8, <1>10, <1>11, <1>12 DEF ProviderInv

LEMMA PollerKeeps ==
  ASSUME ProviderInv, PollerStep
  PROVE  ProviderInv'
<1>1. CASE Broadcast
  BY <1>1, BroadcastKeeps DEF PollerStep
<1>2. CASE NodeChanges \/ Tick \/ DebounceFires \/ GbtFails \/ GbtHangs \/ Suppress
           \/ PublishWatch
  <2>1. UNCHANGED <<queue, lastBroadcast, nextId>>
    BY <1>2 DEF NodeChanges, Tick, DebounceFires, GbtFails, GbtHangs, Suppress, PublishWatch,
         pollerVars
  <2> QED
    BY <1>2, <2>1, PollerQuiet DEF PollerStep
<1> QED
  BY <1>1, <1>2 DEF PollerStep, PollerNext

-----------------------------------------------------------------------------
(* The sessions.                                                           *)

\* A step of session s alone. It empties its queue or leaves it.
Alone(s) ==
    /\ UNCHANGED <<node, changes, zmq, poller, nextId, lastBroadcast, watch>>
    /\ \A t \in Sessions \ {s} :
        /\ phase'[t] = phase[t] /\ writer'[t] = writer[t] /\ reserve'[t] = reserve[t]
        /\ held'[t] = held[t] /\ cache'[t] = cache[t] /\ sent'[t] = sent[t]
        /\ seen'[t] = seen[t]
        /\ t \in DOMAIN queue => queue'[t] = queue[t]
    /\ s \in DOMAIN queue' =>
         queue'[s] = <<>> \/ (s \in DOMAIN queue /\ queue'[s] = queue[s])

LEMMA SessionStep ==
  ASSUME ProviderInv, NEW s \in Sessions, Alone(s), TypeOK', SessInv(s)',
         \A x \in cache'[s] \cup sent'[s] \cup {held'[s]} :
            x = NoSnapshot \/ x \in Everywhere
  PROVE  ProviderInv'
<1> USE DEF Alone
<1>1. \A t \in Sessions \ {s} : t \in DOMAIN queue <=> t \in DOMAIN queue'
  BY DEF ProviderInv, TypeOK
<1>2. DOMAIN queue \subseteq Sessions /\ DOMAIN queue' \subseteq Sessions
  BY DEF ProviderInv, TypeOK, PollerTypeOK
<1>3. ASSUME NEW x \in Everywhere'
      PROVE  x \in Everywhere
  <2>1. CASE x = watch' \/ x = lastBroadcast'
    BY <1>3, <2>1, EverywhereIs, EverywhereNext
  <2>2. ASSUME NEW t \in DOMAIN queue', NEW i \in DOMAIN queue'[t], x = queue'[t][i]
        PROVE  x \in Everywhere
    <3>1. t \in DOMAIN queue /\ queue'[t] = queue[t]
      <4>1. CASE t = s
        <5>1. queue'[s] # <<>>
          BY <2>2, <4>1
        <5> QED
          BY <2>2, <4>1, <5>1
      <4>2. CASE t # s
        BY <1>1, <1>2, <2>2, <4>2
      <4> QED
        BY <4>1, <4>2
    <3> QED
      BY <1>3, <2>2, <3>1, EverywhereIs, EverywhereNext
  <2>3. ASSUME NEW t \in Sessions, x \in cache'[t] \/ x \in sent'[t] \/ x = held'[t]
        PROVE  x \in Everywhere
    <3>1. x # NoSnapshot
      BY <1>3, EverywhereNext
    <3>2. CASE t = s
      BY <2>3, <3>1, <3>2
    <3>3. CASE t # s
      BY <2>3, <3>1, <3>3, EverywhereIs
    <3> QED
      BY <3>2, <3>3
  <2> QED
    BY <1>3, <2>1, <2>2, <2>3, EverywhereNext
<1>4. Places'
  <2>1. node.tip \in Nat /\ node'.tip \in Nat
    BY DEF ProviderInv, TypeOK, PollerTypeOK, Template
  <2> QED
    BY <1>3, <2>1, PlacesStep DEF ProviderInv, Places
<1>5. PollInv'
  BY DEF ProviderInv, PollInv, LastId
<1>6. \A t \in Sessions : SessInv(t)'
  <2>1. ASSUME NEW t \in Sessions \ {s}
        PROVE  SessInv(t)'
    <3>1. SessInv(t) /\ (writer[t] \in Subscribed => t \in DOMAIN queue)
      BY DEF ProviderInv, TypeOK
    <3> QED
      BY <3>1, SessFrame
  <2> QED
    BY <2>1
<1> QED
  BY <1>4, <1>5, <1>6 DEF ProviderInv

\* A step of session s that leaves its queue, its sends and its cache.
LEMMA QuietStep ==
  ASSUME ProviderInv, NEW s \in Sessions, UNCHANGED <<pollVars, cache, sent, seen>>,
         TypeOK', Alone(s), SessInv(s)', held'[s] \in {held[s], watch}
  PROVE  ProviderInv'
<1>1. \A x \in cache'[s] \cup sent'[s] \cup {held'[s]} : x = NoSnapshot \/ x \in Everywhere
  BY EverywhereIs
<1> QED
  BY <1>1, SessionStep

LEMMA SetupKeeps ==
  ASSUME ProviderInv, NEW s \in Sessions,
         \/ SetupAccepted(s) \/ SetupRefused(s) \/ StoreConstraints(s) \/ InitRefused(s)
         \/ ReadWatch(s) \/ SendFirstFails(s) \/ Disconnect(s)
  PROVE  ProviderInv'
<1>1. TypeOK /\ SessInv(s)
  BY DEF ProviderInv
<1>2. /\ UNCHANGED <<pollVars, writer, cache, frame, sent, seen>>
      /\ phase' = [phase EXCEPT ![s] = phase'[s]] /\ phase'[s] \in Phases
      /\ reserve' = [reserve EXCEPT ![s] = reserve'[s]]
      /\ reserve'[s] \in Reserves \cup {NoReserve}
      /\ latest' = latest \/ \E r \in Reserves : latest' = [latest EXCEPT ![s] = r]
      /\ held' = [held EXCEPT ![s] = held'[s]] /\ held'[s] \in {held[s], watch}
  BY <1>1 DEF SetupAccepted, SetupRefused, StoreConstraints, InitRefused, ReadWatch,
      SendFirstFails, Disconnect, Become, TypeOK, Phases
<1>3. TypeOK'
  <2>1. PollerTypeOK'
    BY <1>1, <1>2 DEF TypeOK, PollerTypeOK, pollVars, nodeVars, pollerVars
  <2>2. /\ phase' \in [Sessions -> Phases]
        /\ reserve' \in [Sessions -> Reserves \cup {NoReserve}]
        /\ latest' \in [Sessions -> Reserves \cup {NoReserve}]
        /\ held' \in [Sessions -> Snapshot \cup {NoSnapshot}]
    BY <1>1, <1>2 DEF TypeOK, PollerTypeOK
  <2> QED
    BY <1>1, <1>2, <2>1, <2>2 DEF TypeOK, pollVars
<1>4. Alone(s)
  BY <1>1, <1>2 DEF Alone, TypeOK, pollVars, nodeVars, pollerVars
<1>5. SessInv(s)'
  <2>1. /\ phase[s] \notin {"sent"} /\ phase'[s] \notin {"sent"}
        /\ phase'[s] \in Early => phase[s] \in Early
        /\ phase'[s] \in Unsent => phase[s] \in Unsent
    BY <1>1 DEF SetupAccepted, SetupRefused, StoreConstraints, InitRefused, ReadWatch,
      SendFirstFails, Disconnect, Become, TypeOK, Early, Unsent
  <2>2. held'[s] # held[s] \/ reserve'[s] # reserve[s] => sent[s] = {} /\ writer[s] = "none"
    BY <1>1 DEF SetupAccepted, SetupRefused, StoreConstraints, InitRefused, ReadWatch,
      SendFirstFails, Disconnect, Become, TypeOK, Early, Unsent, SessInv
  <2>3. phase'[s] = "sending" => held'[s] # NoSnapshot /\ Fits(held'[s].template, reserve'[s])
    BY <1>1 DEF SetupAccepted, SetupRefused, StoreConstraints, InitRefused, ReadWatch,
      SendFirstFails, Disconnect, Become, TypeOK
  <2>4. ASSUME writer[s] \in Subscribed
        PROVE  QueueInv(s)'
    <3>1. QueueInv(s) /\ writer[s] # "none" /\ held'[s] = held[s] /\ LastId' = LastId
      BY <1>1, <1>2, <2>2, <2>4
        DEF SessInv, Subscribed, LastId, pollVars, pollerVars
    <3> QED
      BY <1>2, <3>1 DEF QueueInv, pollVars, pollerVars
  <2>5. \A x \in sent[s] : held'[s] = held[s] /\ reserve'[s] = reserve[s]
    BY <2>2
  <2>6. writer[s] # "none" => held'[s] = held[s] /\ reserve'[s] = reserve[s]
    BY <2>2
  <2>7. \A x \in sent'[s] : Fits(x.template, reserve'[s]) /\ Answerable(s, x)'
    BY <1>1, <1>2, <2>1, <2>5 DEF SessInv, Answerable
  <2>8. "sent" \in {phase'[s], writer'[s]} => held'[s] \in sent'[s]
    BY <1>1, <1>2, <2>1, <2>6 DEF SessInv
  <2>9. "sending" \in {phase'[s], writer'[s]} =>
           held'[s] # NoSnapshot /\ Fits(held'[s].template, reserve'[s])
    BY <1>1, <1>2, <2>3, <2>6 DEF SessInv
  <2> QED
    BY <1>1, <1>2, <2>1, <2>4, <2>7, <2>8, <2>9 DEF SessInv
<1> QED
  BY <1>2, <1>3, <1>4, <1>5, QuietStep

LEMMA SendKeeps ==
  ASSUME ProviderInv, NEW s \in Sessions, SendFirst(s) \/ SendPair(s)
  PROVE  ProviderInv'
<1>1. TypeOK /\ SessInv(s)
  BY DEF ProviderInv
<1>2. /\ UNCHANGED <<pollVars, reserve, latest, held, cache, frame, seen>>
      /\ sent' = [sent EXCEPT ![s] = @ \cup {held[s]}]
      /\ phase' = [phase EXCEPT ![s] = phase'[s]] /\ phase'[s] \in Phases
      /\ writer' = [writer EXCEPT ![s] = writer'[s]] /\ writer'[s] \in Writers
      /\ writer[s] \in Subscribed <=> writer'[s] \in Subscribed
  BY <1>1 DEF SendFirst, SendPair, Become, Writes, TypeOK, Phases, Writers, Subscribed
<1>3. /\ "sending" \in {phase[s], writer[s]} /\ "sent" \in {phase'[s], writer'[s]}
      /\ "sending" \notin {phase'[s], writer'[s]} /\ "sent" \notin {phase[s], writer[s]}
      /\ phase'[s] \notin Unsent
      /\ IF phase[s] = "sending" THEN phase'[s] = "sent" /\ writer' = writer
         ELSE phase' = phase /\ phase[s] \notin Early /\ writer'[s] = "sent"
      /\ writer'[s] \in Subscribed => writer[s] = "sending"
  BY <1>1 DEF SendFirst, SendPair, Become, Writes, TypeOK, SessInv, Early, Unsent, Subscribed
<1>4. held[s] \in Snapshot /\ held[s] # NoSnapshot /\ Fits(held[s].template, reserve[s])
  BY <1>1, <1>3 DEF SessInv, TypeOK
<1>5. TypeOK'
  <2>1. PollerTypeOK'
    BY <1>1, <1>2 DEF TypeOK, PollerTypeOK, pollVars, nodeVars, pollerVars
  <2>2. /\ phase' \in [Sessions -> Phases] /\ writer' \in [Sessions -> Writers]
        /\ sent' \in [Sessions -> SUBSET Snapshot]
    BY <1>1, <1>2, <1>4 DEF TypeOK
  <2>3. {t \in Sessions : writer'[t] \in Subscribed} = {t \in Sessions : writer[t] \in Subscribed}
    BY <1>1, <1>2 DEF TypeOK
  <2> QED
    BY <1>1, <1>2, <2>1, <2>2, <2>3 DEF TypeOK, pollVars
<1>6. Alone(s)
  BY <1>1, <1>2 DEF Alone, TypeOK, pollVars, nodeVars, pollerVars
<1>7. sent'[s] = sent[s] \cup {held[s]}
  BY <1>1, <1>2 DEF TypeOK
<1>8. SessInv(s)'
  <2>1. ASSUME writer'[s] \in Subscribed
        PROVE  QueueInv(s)'
    <3>1. /\ writer[s] = "sending" /\ writer'[s] = "sent" /\ QueueInv(s)
          /\ held[s].id = seen[s] /\ seen[s] \in Nat /\ LastId' = LastId
      BY <1>1, <1>2, <1>3, <2>1
        DEF SessInv, QueueInv, LastId, pollVars, pollerVars, TypeOK, Ids, Subscribed
    <3> QED
      BY <1>2, <1>7, <3>1 DEF QueueInv, pollVars, pollerVars
  <2>2. \A x \in sent'[s] : Fits(x.template, reserve'[s]) /\ Answerable(s, x)'
    BY <1>1, <1>2, <1>3, <1>4, <1>7 DEF SessInv, Answerable
  <2>3. phase'[s] = "sent" => sent'[s] = {held'[s]}
    BY <1>1, <1>2, <1>3, <1>7 DEF SessInv, Early, Unsent
  <2>4. phase'[s] \in Early => writer'[s] = "none"
    BY <1>1, <1>3 DEF SessInv, Early, Unsent
  <2>5. IsFiniteSet(cache'[s]) /\ cache'[s] \subseteq sent'[s] /\ held'[s] \in sent'[s]
    BY <1>1, <1>2, <1>7 DEF SessInv
  <2> QED
    BY <1>3, <2>1, <2>2, <2>3, <2>4, <2>5 DEF SessInv
<1>9. \A x \in cache'[s] \cup sent'[s] \cup {held'[s]} : x = NoSnapshot \/ x \in Everywhere
  BY <1>2, <1>7, EverywhereIs
<1> QED
  BY <1>5, <1>6, <1>8, <1>9, SessionStep

\* The cache after the template just sent.
LEMMA CacheKeeps ==
  ASSUME ProviderInv, NEW s \in Sessions, CacheFirst(s) \/ CacheSent(s)
  PROVE  ProviderInv'
<1>1. TypeOK /\ SessInv(s)
  BY DEF ProviderInv
<1>2. /\ UNCHANGED <<pollVars, reserve, latest, held, frame, sent, seen>>
      /\ cache' = [cache EXCEPT ![s] = Insert(@, held[s])]
      /\ phase' = [phase EXCEPT ![s] = phase'[s]] /\ phase'[s] \in Phases
      /\ writer' = [writer EXCEPT ![s] = writer'[s]] /\ writer'[s] \in Writers
      /\ writer[s] \in Subscribed <=> writer'[s] \in Subscribed
  BY <1>1 DEF CacheFirst, CacheSent, Become, Writes, TypeOK, Phases, Writers, Subscribed
<1>3. /\ "sent" \in {phase[s], writer[s]}
      /\ {"sending", "sent"} \cap {phase'[s], writer'[s]} = {}
      /\ phase'[s] \notin Unsent
      /\ IF phase[s] = "sent" THEN phase'[s] = "initialised" /\ writer' = writer
         ELSE phase' = phase /\ phase[s] \notin Early /\ writer'[s] = "recv"
      /\ writer'[s] \in Subscribed => writer[s] = "sent"
  BY <1>1 DEF CacheFirst, CacheSent, Become, Writes, TypeOK, SessInv, Early, Unsent, Subscribed
<1>4. held[s] \in sent[s] /\ held[s] \in Snapshot
  BY <1>1, <1>3 DEF SessInv, TypeOK
<1>5. cache'[s] = Insert(cache[s], held[s])
  BY <1>1, <1>2 DEF TypeOK
<1>6. \A x \in sent[s] : x \in Everywhere /\ x.id \in Nat /\ x.id <= held[s].id
  <2>1. ASSUME NEW x \in sent[s]
        PROVE  x \in Snapshot /\ x # NoSnapshot /\ x \in Everywhere
    BY <1>1, <2>1, NoSnapshotAssumption, EverywhereIs DEF TypeOK
  <2>2. CASE phase[s] = "sent"
    BY <1>1, <2>1, <2>2 DEF SessInv, Snapshot
  <2>3. CASE writer[s] = "sent"
    <3>1. QueueInv(s) /\ held[s].id = seen[s]
      BY <1>1, <2>3 DEF SessInv, QueueInv, Subscribed
    <3> QED
      BY <2>1, <3>1 DEF QueueInv, Snapshot
  <2> QED
    BY <1>3, <2>2, <2>3
<1>7. /\ cache[s] \in SUBSET Snapshot /\ IsFiniteSet(cache[s])
      /\ Cardinality(cache[s]) <= CacheCap /\ cache[s] \subseteq sent[s]
  BY <1>1 DEF TypeOK, SessInv
<1>8. InOrder(cache[s] \cup {held[s]})
  BY <1>4, <1>6, <1>7 DEF ProviderInv, Places, InOrder
<1> DEFINE C == cache[s]
           h == held[s]
<1>9. /\ cache'[s] \subseteq sent[s]
      /\ IsFiniteSet(cache'[s]) /\ Cardinality(cache'[s]) <= CacheCap
      /\ \A y \in C \cup {h} :
           \/ y \in cache'[s]
           \/ Cardinality(cache'[s]) = CacheCap /\ \A z \in cache'[s] : z.id > y.id
      /\ \A n \in Nat : n < h.id /\ Cardinality(C) = CacheCap /\ (\A y \in C : y.id > n) =>
           Cardinality(cache'[s]) = CacheCap /\ \A z \in cache'[s] : z.id > n
  <2>1. \A y \in C : y.id <= h.id
    BY <1>6, <1>7
  <2> QED
    BY <1>4, <1>5, <1>7, <1>8, <2>1, InsertFacts
<1>10. TypeOK'
  <2>1. PollerTypeOK'
    BY <1>1, <1>2 DEF TypeOK, PollerTypeOK, pollVars, nodeVars, pollerVars
  <2>2. cache'[s] \in SUBSET Snapshot
    BY <1>1, <1>9 DEF TypeOK
  <2>3. /\ phase' \in [Sessions -> Phases] /\ writer' \in [Sessions -> Writers]
        /\ cache' \in [Sessions -> SUBSET Snapshot]
        /\ \A t \in Sessions : t # s => cache'[t] = cache[t]
    BY <1>1, <1>2, <1>5, <2>2 DEF TypeOK
  <2>4. {t \in Sessions : writer'[t] \in Subscribed} = {t \in Sessions : writer[t] \in Subscribed}
    BY <1>1, <1>2 DEF TypeOK
  <2>5. \A t \in Sessions : Cardinality(cache'[t]) <= CacheCap
    BY <1>1, <1>9, <2>3 DEF TypeOK
  <2> QED
    BY <1>1, <1>2, <2>1, <2>3, <2>4, <2>5 DEF TypeOK, pollVars
<1>11. Alone(s)
  BY <1>1, <1>2 DEF Alone, TypeOK, pollVars, nodeVars, pollerVars
<1>12. SessInv(s)'
  <2>1. ASSUME writer'[s] \in Subscribed
        PROVE  QueueInv(s)'
    <3>1. QueueInv(s) /\ writer'[s] = "recv" /\ LastId' = LastId
      BY <1>1, <1>2, <1>3, <2>1 DEF SessInv, LastId, pollVars, pollerVars, Subscribed, Early
    <3> QED
      BY <1>2, <3>1 DEF QueueInv, pollVars, pollerVars
  <2>2. ASSUME NEW x \in sent[s]
        PROVE  Answerable(s, x)'
    <3>1. CASE x \in C \cup {h}
      BY <1>9, <3>1 DEF Answerable
    <3>2. CASE x \notin C \cup {h}
      <4>1. Cardinality(C) = CacheCap /\ \A y \in C : y.id > x.id
        BY <1>1, <2>2, <3>2 DEF SessInv, Answerable
      <4>2. x.id < h.id
        BY <1>4, <1>6, <2>2, <3>2 DEF ProviderInv, Places, InOrder, Snapshot
      <4> QED
        BY <1>6, <1>9, <4>1, <4>2 DEF Answerable
    <3> QED
      BY <3>1, <3>2
  <2>3. phase'[s] \in Early => writer'[s] = "none"
    BY <1>1, <1>3 DEF SessInv, Early, Unsent
  <2> QED
    BY <1>1, <1>2, <1>3, <1>9, <2>1, <2>2, <2>3 DEF SessInv
<1>13. \A x \in cache'[s] \cup sent'[s] \cup {held'[s]} : x = NoSnapshot \/ x \in Everywhere
  BY <1>2, <1>4, <1>6, <1>9
<1> QED
  BY <1>10, <1>11, <1>12, <1>13, SessionStep

LEMMA SubscribeKeeps ==
  ASSUME ProviderInv, NEW s \in Sessions, Subscribe(s)
  PROVE  ProviderInv'
<1>1. TypeOK /\ SessInv(s)
  BY DEF ProviderInv
<1>2. /\ UNCHANGED <<nodeVars, zmq, pollerVars, reserve, latest, held, cache, frame, sent>>
      /\ phase[s] = "initialised" /\ phase' = [phase EXCEPT ![s] = "live"]
      /\ writer' = [writer EXCEPT ![s] = "recv"]
      /\ seen' = [seen EXCEPT ![s] = LastId]
      /\ queue' = [t \in DOMAIN queue \cup {s} |-> IF t = s THEN <<>> ELSE queue[t]]
  BY DEF Subscribe, Become, Listen
<1>3. LastId \in Ids /\ LastId \in Nat /\ LastId' = LastId
  BY <1>1, <1>2, PollerAssumption
    DEF TypeOK, PollerTypeOK, LastId, Snapshot, Ids, pollerVars
<1>4. DOMAIN queue' = DOMAIN queue \cup {s} /\ queue'[s] = <<>>
  BY <1>2
<1>5. TypeOK'
  <2>0. \A t \in DOMAIN queue' : queue'[t] \in Seq(Snapshot) /\ Len(queue'[t]) <= ChannelDepth
    <3>1. <<>> \in Seq(Snapshot) /\ Len(<<>>) <= ChannelDepth
      BY PollerAssumption
    <3>2. \A t \in DOMAIN queue' : queue'[t] = <<>> \/ (t \in DOMAIN queue /\ queue'[t] = queue[t])
      BY <1>2, <1>4
    <3> QED
      BY <1>1, <3>1, <3>2 DEF TypeOK, PollerTypeOK
  <2>1. PollerTypeOK'
    BY <1>1, <1>2, <1>4, <2>0 DEF TypeOK, PollerTypeOK, nodeVars, pollerVars
  <2>2. /\ phase' \in [Sessions -> Phases] /\ writer' \in [Sessions -> Writers]
        /\ seen' \in [Sessions -> Ids]
    BY <1>1, <1>2, <1>3 DEF TypeOK, Phases, Writers
  <2>3. DOMAIN queue' = {t \in Sessions : writer'[t] \in Subscribed}
    BY <1>1, <1>2, <1>4 DEF TypeOK, Subscribed
  <2> QED
    BY <1>1, <1>2, <2>1, <2>2, <2>3 DEF TypeOK
<1>6. Alone(s)
  BY <1>1, <1>2, <1>4 DEF Alone, TypeOK, nodeVars, pollerVars
<1>7. SessInv(s)'
  <2>1. phase'[s] = "live" /\ writer'[s] = "recv" /\ seen'[s] = LastId /\ writer[s] = "none"
    BY <1>1, <1>2 DEF TypeOK, SessInv, Early
  <2>2. \A x \in sent[s] : x.id <= LastId
    <3>1. \A x \in sent[s] : x \in Everywhere
      BY <1>1, NoSnapshotAssumption, EverywhereIs DEF TypeOK
    <3> QED
      BY <3>1 DEF ProviderInv, Places
  <2>3. QueueInv(s)'
    BY <1>2, <1>3, <1>4, <2>1, <2>2 DEF QueueInv
  <2> QED
    BY <1>1, <1>2, <2>1, <2>3 DEF SessInv, Answerable, Early, Unsent
<1>8. \A x \in cache'[s] \cup sent'[s] \cup {held'[s]} : x = NoSnapshot \/ x \in Everywhere
  BY <1>2, EverywhereIs
<1> QED
  BY <1>5, <1>6, <1>7, <1>8, SessionStep

LEMMA TakeKeeps ==
  ASSUME ProviderInv, NEW s \in Sessions, TakeLatest(s)
  PROVE  ProviderInv'
<1>1. TypeOK /\ SessInv(s)
  BY DEF ProviderInv
<1> DEFINE newest == Last(queue[s])
           to == IF Fits(newest.template, reserve[s]) THEN "sending" ELSE "recv"
<1>2. /\ UNCHANGED <<nodeVars, zmq, pollerVars, phase, reserve, latest, cache, frame, sent>>
      /\ writer[s] = "recv" /\ queue[s] # <<>>
      /\ held' = [held EXCEPT ![s] = newest]
      /\ seen' = [seen EXCEPT ![s] = newest.id]
      /\ writer' = [writer EXCEPT ![s] = to]
      /\ queue' = [queue EXCEPT ![s] = <<>>]
  BY DEF TakeLatest
<1>3. s \in DOMAIN queue /\ QueueInv(s) /\ phase[s] \notin Early
  BY <1>1, <1>2 DEF TypeOK, SessInv, Subscribed, Early
<1>4. /\ newest = lastBroadcast /\ newest \in Snapshot /\ newest # NoSnapshot
      /\ newest.id \in Ids /\ newest.id \in Nat /\ LastId = newest.id /\ LastId' = LastId
      /\ newest.id > seen[s] /\ seen[s] \in Nat
  <2>1. queue[s] \in Seq(Snapshot) /\ Len(queue[s]) \in DOMAIN queue[s]
    BY <1>1, <1>2, <1>3 DEF TypeOK, PollerTypeOK
  <2>2. newest \in Snapshot /\ newest.id > seen[s]
    BY <1>3, <2>1 DEF QueueInv, Last
  <2>3. newest = lastBroadcast
    BY <1>2, <1>3 DEF QueueInv
  <2> QED
    BY <1>1, <1>2, <2>2, <2>3, NoSnapshotAssumption, PollerAssumption
      DEF Snapshot, Ids, LastId, pollerVars, TypeOK
<1>5. /\ to \in {"recv", "sending"}
      /\ to = "sending" => Fits(newest.template, reserve[s])
  OBVIOUS
<1> HIDE DEF newest, to
<1>6. /\ writer'[s] = to /\ held'[s] = newest /\ seen'[s] = newest.id /\ queue'[s] = <<>>
      /\ DOMAIN queue' = DOMAIN queue
  BY <1>1, <1>2, <1>3 DEF TypeOK
<1>7. TypeOK'
  <2>0. \A t \in DOMAIN queue' : queue'[t] \in Seq(Snapshot) /\ Len(queue'[t]) <= ChannelDepth
    <3>1. <<>> \in Seq(Snapshot) /\ Len(<<>>) <= ChannelDepth
      BY PollerAssumption
    <3>2. \A t \in DOMAIN queue' : queue'[t] = <<>> \/ (t \in DOMAIN queue /\ queue'[t] = queue[t])
      BY <1>2, <1>6
    <3> QED
      BY <1>1, <3>1, <3>2 DEF TypeOK, PollerTypeOK
  <2>1. PollerTypeOK'
    BY <1>1, <1>2, <1>6, <2>0 DEF TypeOK, PollerTypeOK, nodeVars, pollerVars
  <2>2. /\ writer' \in [Sessions -> Writers] /\ seen' \in [Sessions -> Ids]
        /\ held' \in [Sessions -> Snapshot \cup {NoSnapshot}]
    BY <1>1, <1>2, <1>4, <1>5 DEF TypeOK, Writers
  <2>3. DOMAIN queue' = {t \in Sessions : writer'[t] \in Subscribed}
    BY <1>1, <1>2, <1>3, <1>5, <1>6 DEF TypeOK, Subscribed
  <2> QED
    BY <1>1, <1>2, <2>1, <2>2, <2>3 DEF TypeOK
<1>8. Alone(s)
  BY <1>1, <1>2, <1>6 DEF Alone, TypeOK, PollerTypeOK, nodeVars, pollerVars
<1>9. SessInv(s)'
  <2>1. \A x \in sent[s] : x.id < newest.id
    <3>1. \A x \in sent[s] : x.id \in Nat /\ x.id <= seen[s]
      BY <1>1, <1>3 DEF QueueInv, TypeOK, Snapshot
    <3> QED
      BY <1>4, <3>1
  <2>2. \A x \in sent[s] : x.id <= newest.id
    BY <1>1, <1>4, <2>1 DEF TypeOK, Snapshot
  <2>3. QueueInv(s)'
    BY <1>2, <1>4, <1>6, <2>1, <2>2 DEF QueueInv
  <2>4. \A x \in sent'[s] : Fits(x.template, reserve'[s]) /\ Answerable(s, x)'
    BY <1>1, <1>2, <1>3 DEF SessInv, Answerable, Early
  <2> QED
    BY <1>1, <1>2, <1>3, <1>4, <1>5, <1>6, <2>3, <2>4 DEF SessInv, Early, Unsent
<1>10. \A x \in cache'[s] \cup sent'[s] \cup {held'[s]} : x = NoSnapshot \/ x \in Everywhere
  BY <1>2, <1>4, <1>6, EverywhereIs
<1> QED
  BY <1>7, <1>8, <1>9, <1>10, SessionStep

LEMMA EndKeeps ==
  ASSUME ProviderInv, NEW s \in Sessions, SendPairFails(s) \/ SendReplyFails(s)
  PROVE  ProviderInv'
<1>1. TypeOK /\ SessInv(s)
  BY DEF ProviderInv
<1>2. /\ UNCHANGED <<nodeVars, zmq, pollerVars, phase, reserve, latest, held, cache, sent, seen>>
      /\ writer[s] \in {"sending", "stuck", "recv"} /\ writer' = [writer EXCEPT ![s] = "ended"]
      /\ queue' = [t \in DOMAIN queue \ {s} |-> queue[t]]
      /\ frame' = [frame EXCEPT ![s] =
            IF @ # NoFrame /\ @.kind = "data" THEN NoFrame ELSE @]
  BY DEF SendPairFails, SendReplyFails, EndsWriter, Restrict
<1>3. TypeOK'
  <2>1. PollerTypeOK'
    BY <1>1, <1>2 DEF TypeOK, PollerTypeOK, nodeVars, pollerVars
  <2>2. writer' \in [Sessions -> Writers] /\ frame' \in [Sessions -> Frame \cup {NoFrame}]
    BY <1>1, <1>2 DEF TypeOK, Writers
  <2>3. DOMAIN queue' = {t \in Sessions : writer'[t] \in Subscribed}
    BY <1>1, <1>2 DEF TypeOK, Subscribed
  <2> QED
    BY <1>1, <1>2, <2>1, <2>2, <2>3 DEF TypeOK
<1>4. Alone(s)
  BY <1>1, <1>2 DEF Alone, TypeOK, nodeVars, pollerVars
<1>5. SessInv(s)'
  <2>1. writer'[s] = "ended" /\ phase[s] \notin Early
    BY <1>1, <1>2 DEF TypeOK, SessInv
  <2> QED
    BY <1>1, <1>2, <2>1 DEF SessInv, Answerable, Subscribed, Early, Unsent
<1>6. \A x \in cache'[s] \cup sent'[s] \cup {held'[s]} : x = NoSnapshot \/ x \in Everywhere
  BY <1>2, EverywhereIs
<1> QED
  BY <1>3, <1>4, <1>5, <1>6, SessionStep

LEMMA StallKeeps ==
  ASSUME ProviderInv, NEW s \in Sessions, WriteStalls(s)
  PROVE  ProviderInv'
<1>1. TypeOK /\ SessInv(s)
  BY DEF ProviderInv
<1>2. /\ UNCHANGED <<pollVars, phase, reserve, latest, held, cache, frame, sent, seen>>
      /\ writer[s] \in {"sending", "recv"} /\ writer' = [writer EXCEPT ![s] = "stuck"]
  BY DEF WriteStalls
<1>3. TypeOK'
  <2>1. PollerTypeOK'
    BY <1>1, <1>2 DEF TypeOK, PollerTypeOK, pollVars, nodeVars, pollerVars
  <2>2. writer' \in [Sessions -> Writers]
    BY <1>1, <1>2 DEF TypeOK, Writers
  <2>3. {t \in Sessions : writer'[t] \in Subscribed} = {t \in Sessions : writer[t] \in Subscribed}
    BY <1>1, <1>2 DEF TypeOK, Subscribed
  <2> QED
    BY <1>1, <1>2, <2>1, <2>2, <2>3 DEF TypeOK, pollVars
<1>4. Alone(s)
  BY <1>1, <1>2 DEF Alone, TypeOK, pollVars, nodeVars, pollerVars
<1>5. SessInv(s)'
  <2>1. writer'[s] = "stuck" /\ phase[s] \notin Early /\ writer[s] \in Subscribed
    BY <1>1, <1>2 DEF TypeOK, SessInv, Subscribed
  <2>2. QueueInv(s)'
    <3>1. QueueInv(s) /\ LastId' = LastId
      BY <1>1, <1>2, <2>1 DEF SessInv, LastId, pollVars, pollerVars
    <3> QED
      BY <1>2, <2>1, <3>1 DEF QueueInv, pollVars, pollerVars
  <2> QED
    BY <1>1, <1>2, <2>1, <2>2 DEF SessInv, Answerable, Early, Unsent
<1> QED
  BY <1>2, <1>3, <1>4, <1>5, QuietStep

\* Frames of the pool and their answers change nothing else, nor does what it
\* reserves after its setup.
LEMMA FrameKeeps ==
  ASSUME ProviderInv, NEW s \in Sessions,
         \/ \E id \in IdsOf(sent[s]) : RequestTransactionData(s, id) \/ SubmitSolution(s, id)
         \/ BlockSubmitted(s) \/ SendReply(s) \/ ReserveAgain(s)
  PROVE  ProviderInv'
<1>1. TypeOK /\ SessInv(s)
  BY DEF ProviderInv
<1>2. \A id \in IdsOf(sent[s]) : id \in Ids
  BY <1>1, PollerAssumption DEF IdsOf, TypeOK, Snapshot, Ids
<1>3. \A id \in Ids : /\ [kind |-> "data", id |-> id, found |-> Resolve(s, id)] \in Frame
                      /\ [kind |-> "solution", id |-> id, found |-> Resolve(s, id)] \in Frame
  <2>1. \A id \in Ids : Resolve(s, id) \in SUBSET Snapshot
    BY <1>1 DEF TypeOK, Resolve
  <2> QED
    BY <2>1 DEF Frame
<1>4. /\ UNCHANGED <<pollVars, phase, writer, reserve, held, cache, sent, seen>>
      /\ frame' = frame \/ \E x \in Frame \cup {NoFrame} : frame' = [frame EXCEPT ![s] = x]
      /\ latest' = latest \/ \E r \in Reserves : latest' = [latest EXCEPT ![s] = r]
  BY <1>2, <1>3 DEF RequestTransactionData, SubmitSolution, BlockSubmitted, SendReply,
    ReserveAgain
<1>5. TypeOK'
  <2>1. PollerTypeOK'
    BY <1>1, <1>4 DEF TypeOK, PollerTypeOK, pollVars, nodeVars, pollerVars
  <2>2. /\ frame' \in [Sessions -> Frame \cup {NoFrame}]
        /\ latest' \in [Sessions -> Reserves \cup {NoReserve}]
    BY <1>1, <1>4 DEF TypeOK
  <2> QED
    BY <1>1, <1>4, <2>1, <2>2 DEF TypeOK, pollVars
<1>6. Alone(s)
  BY <1>4 DEF Alone, pollVars, nodeVars, pollerVars
<1>7. SessInv(s)'
  <2>1. writer[s] \in Subscribed => s \in DOMAIN queue
    BY <1>1 DEF TypeOK
  <2> QED
    BY <1>1, <1>4, SessFrame DEF pollVars, pollerVars
<1> QED
  BY <1>4, <1>5, <1>6, <1>7, QuietStep

-----------------------------------------------------------------------------

LEMMA StepKeeps == ProviderInv /\ [Next]_vars => ProviderInv'
<1> SUFFICES ASSUME ProviderInv, [Next]_vars
             PROVE  ProviderInv'
  OBVIOUS
<1>1. CASE PollerStep
  BY <1>1, PollerKeeps
<1>2. ASSUME NEW s \in Sessions, Setup(s) \/ Write(s) \/ Failure(s) \/ Read(s)
      PROVE  ProviderInv'
  <2>1. CASE SetupAccepted(s) \/ StoreConstraints(s) \/ ReadWatch(s)
    BY <2>1, SetupKeeps
  <2>2. CASE SetupRefused(s) \/ InitRefused(s) \/ SendFirstFails(s) \/ Disconnect(s)
    BY <2>2, SetupKeeps
  <2>3. CASE SendFirst(s) \/ SendPair(s)
    BY <2>3, SendKeeps
  <2>4. CASE CacheFirst(s) \/ CacheSent(s)
    BY <2>4, CacheKeeps
  <2>5. CASE Subscribe(s)
    BY <2>5, SubscribeKeeps
  <2>6. CASE TakeLatest(s)
    BY <2>6, TakeKeeps
  <2>7. CASE SendPairFails(s) \/ SendReplyFails(s)
    BY <2>7, EndKeeps
  <2>8. CASE SendReply(s) \/ Read(s)
    BY <2>8, FrameKeeps DEF Read
  <2>9. CASE WriteStalls(s)
    BY <2>9, StallKeeps
  <2> QED
    BY <1>2, <2>1, <2>2, <2>3, <2>4, <2>5, <2>6, <2>7, <2>8, <2>9 DEF Setup, Write, Failure
<1>3. CASE UNCHANGED vars
  <2>1. PollerTypeOK' /\ TypeOK'
    BY <1>3 DEF ProviderInv, TypeOK, PollerTypeOK, vars, pollVars, nodeVars, pollerVars,
      sessionVars
  <2>2. LastId' = LastId /\ Everywhere' \subseteq Everywhere
    BY <1>3, EverywhereIs, EverywhereNext DEF LastId, vars, pollVars, pollerVars, sessionVars
  <2>3. Places'
    <3>1. node.tip \in Nat /\ node' = node /\ lastBroadcast' = lastBroadcast
      BY <1>3 DEF ProviderInv, TypeOK, PollerTypeOK, Template, vars, pollVars, nodeVars, pollerVars
    <3> QED
      BY <2>2, <3>1, PlacesStep DEF ProviderInv, Places
  <2>4. PollInv'
    BY <1>3, <2>2 DEF ProviderInv, PollInv, vars, pollVars, nodeVars, pollerVars
  <2>5. \A s \in Sessions : SessInv(s)'
    BY <1>3, SessFrame DEF ProviderInv, vars, pollVars, pollerVars, sessionVars
  <2> QED
    BY <2>1, <2>3, <2>4, <2>5 DEF ProviderInv
<1> QED
  BY <1>1, <1>2, <1>3 DEF Next

LEMMA ProviderInvariant == Spec => []ProviderInv
<1>1. Init => ProviderInv
  BY InitProvider
<1>2. ProviderInv /\ [Next]_vars => ProviderInv'
  BY StepKeeps
<1> QED
  BY <1>1, <1>2, PTL DEF Spec

\* Wherever a template is, in the watch cell, a queue, a cache or a pool, its
\* id is not above the last one given out and names no other.
THEOREM TemplatesStaySound == Spec => []TemplatesSound
<1>1. ProviderInv => TemplatesSound
  BY DEF ProviderInv, TemplatesSound, IdNamesOneTemplate, Places, InOrder
<1> QED
  BY <1>1, ProviderInvariant, PTL

\* A template that was sent fits with what its pool reserved at the setup of the
\* session (later constraints are not looked at), and its id is
\* resolved until CacheCap later templates have been sent.
THEOREM SentStaysUsable == Spec => []SentIsUsable
<1>1. ProviderInv => SentIsUsable
  BY DEF ProviderInv, SessInv, Answerable, SentIsUsable, SentStaysAnswerable, OnlyFittingSent
<1> QED
  BY <1>1, ProviderInvariant, PTL

\* A session that waits with an empty receiver has considered the last
\* broadcast: only older ones are lost to a full channel.
THEOREM QuietIsCaughtUp == Spec => []CaughtUpWhenQuiet
<1>1. ProviderInv => CaughtUpWhenQuiet
  BY DEF ProviderInv, TypeOK, PollerTypeOK, SessInv, QueueInv, CaughtUpWhenQuiet, Subscribed
<1> QED
  BY <1>1, ProviderInvariant, PTL

\* What a live session is sent is above all it has been sent, in id, and not
\* below in tip.
THEOREM SendsRise == Spec => SendsMoveForward
<1> DEFINE Rising ==
      \A s \in Sessions :
        writer[s] = "sending" /\ writer'[s] = "sent" =>
            \A y \in sent[s] : y.id < held[s].id /\ y.template.tip <= held[s].template.tip
<1>1. ProviderInv => Rising
  <2> SUFFICES ASSUME ProviderInv, NEW s \in Sessions, writer[s] = "sending", NEW y \in sent[s]
               PROVE  y.id < held[s].id /\ y.template.tip <= held[s].template.tip
    OBVIOUS
  <2>1. SessInv(s) /\ QueueInv(s) /\ sent[s] \subseteq Snapshot
    BY DEF ProviderInv, SessInv, Subscribed, TypeOK
  <2>2. y.id < held[s].id /\ held[s] # NoSnapshot
    BY <2>1 DEF QueueInv, SessInv
  <2>3. y \in Everywhere /\ held[s] \in Everywhere
    BY <2>1, <2>2, NoSnapshotAssumption, EverywhereIs
  <2>4. y.id <= held[s].id
    BY <2>2, <2>3 DEF ProviderInv, Places, Snapshot
  <2> QED
    BY <2>2, <2>3, <2>4 DEF ProviderInv, Places, InOrder
<1>2. Spec => [][Rising]_vars
  BY <1>1, ProviderInvariant, PTL DEF Spec
<1> QED
  BY <1>2 DEF SendsMoveForward
-----------------------------------------------------------------------------
(* The root that a pool folds its path to.                                 *)

RootStep(c, path, g, T) == IF T = {} THEN c ELSE <<g[T \ {Max(T)}], path[Max(T)]>>

\* The function on sets of positions that the fold's definition chooses.
RootTable(c, path) ==
    CHOOSE g : g = [T \in SUBSET DOMAIN path |-> RootStep(c, path, g, T)]

LEMMA RootUnfold ==
  ASSUME NEW c, NEW path PROVE RootFromPath(c, path) = RootTable(c, path)[DOMAIN path]
  BY DEF RootFromPath, FoldLeft, MapThenFoldSet, RootTable, RootStep

\* It exists.
LEMMA RootsExist ==
  ASSUME NEW c, NEW path, NEW m \in Nat, DOMAIN path = 1 .. m
  PROVE  \A T \in SUBSET DOMAIN path :
           RootTable(c, path)[T] = RootStep(c, path, RootTable(c, path), T)
<1>s. PICK S : S = DOMAIN path
  OBVIOUS
<1> DEFINE Upto(n) == {T \in SUBSET S : Cardinality(T) <= n}
           G == {n \in Nat : \E g : g = [T \in Upto(n) |-> RootStep(c, path, g, T)]}
<1>0. IsFiniteSet(S) /\ S \subseteq Int
  BY <1>s, FS_Interval
<1>1. \A T \in SUBSET S : IsFiniteSet(T) /\ Cardinality(T) \in Nat
  BY <1>0, FS_Subset, FS_CardinalityType
<1>2. \A T \in SUBSET S : Cardinality(T) = 0 <=> T = {}
  BY <1>1, FS_EmptySet
<1>3. 0 \in G
  <2> DEFINE g == [T \in Upto(0) |-> c]
  <2>1. \A T \in Upto(0) : T = {}
    BY <1>1, <1>2
  <2>2. g = [T \in Upto(0) |-> RootStep(c, path, g, T)]
    BY <2>1 DEF RootStep
  <2> HIDE DEF g
  <2> QED
    BY <2>2
<1>4. ASSUME NEW n \in Nat, n \in G PROVE n + 1 \in G
  <2>1. PICK g : g = [T \in Upto(n) |-> RootStep(c, path, g, T)]
    BY <1>4
  <2> DEFINE h == [T \in Upto(n + 1) |-> RootStep(c, path, g, T)]
  <2>2. \A T \in Upto(n) : T \in Upto(n + 1) /\ h[T] = g[T]
    BY <1>1, <2>1
  <2>3. ASSUME NEW T \in Upto(n + 1) PROVE RootStep(c, path, h, T) = RootStep(c, path, g, T)
    <3>1. CASE T = {}
      BY <3>1 DEF RootStep
    <3>2. CASE T # {}
      <4>1. PICK k : k = Max(T)
        OBVIOUS
      <4>2. k \in T
        BY <1>0, <1>1, <3>2, <4>1, MaxIsGreatest
      <4>3. Cardinality(T \ {k}) = Cardinality(T) - 1
        BY <1>1, <4>2, FS_RemoveElement
      <4>4. T \ {k} \in Upto(n)
        BY <1>1, <4>3
      <4> QED
        BY <2>2, <4>1, <4>4 DEF RootStep
    <3> QED
      BY <3>1, <3>2
  <2>4. h = [T \in Upto(n + 1) |-> RootStep(c, path, h, T)]
    BY <2>3
  <2> HIDE DEF h
  <2>5. \E f : f = [T \in Upto(n + 1) |-> RootStep(c, path, f, T)]
    BY <2>4, Zenon
  <2>6. n + 1 \in Nat
    OBVIOUS
  <2> QED
    BY <2>5, <2>6, Zenon
<1>5. Cardinality(S) \in G
  <2>1. Nat \subseteq G
    <3> HIDE DEF G
    <3> QED
      BY <1>3, <1>4, NumberInduction
  <2> QED
    BY <1>1, <2>1
<1>6. Upto(Cardinality(S)) = SUBSET S
  BY <1>0, <1>1, FS_Subset
<1>7. \E g : g = [T \in SUBSET S |-> RootStep(c, path, g, T)]
  BY <1>5, <1>6
<1>8. RootTable(c, path) = [T \in SUBSET S |-> RootStep(c, path, RootTable(c, path), T)]
  BY <1>7, <1>s, Zenon DEF RootTable
<1> QED
  BY <1>s, <1>8

\* What the first k nodes of the path make of c.
Folded(c, path, k) == RootTable(c, path)[1 .. k]

\* It adds one node of the path after the other.
LEMMA RootGrows ==
  ASSUME NEW c, NEW path, NEW m \in Nat, DOMAIN path = 1 .. m
  PROVE  /\ Folded(c, path, 0) = c
         /\ \A k \in 0 .. m - 1 : Folded(c, path, k + 1) = <<Folded(c, path, k), path[k + 1]>>
<1> DEFINE g == RootTable(c, path)
<1>1. \A T \in SUBSET DOMAIN path : g[T] = RootStep(c, path, g, T)
  BY RootsExist
<1> HIDE DEF g
<1>2. 1 .. 0 = {}
  OBVIOUS
<1>3. g[1 .. 0] = c
  BY <1>1, <1>2 DEF RootStep
<1>4. ASSUME NEW k \in 0 .. m - 1 PROVE g[1 .. k + 1] = <<g[1 .. k], path[k + 1]>>
  <2>1. PICK T : T = 1 .. k + 1
    OBVIOUS
  <2>2. k + 1 \in T /\ T \subseteq Int /\ \A n \in T : n <= k + 1
    BY <2>1
  <2>3. IsFiniteSet(T)
    <3>1. PICK a \in Int, b \in Int : a = 1 /\ b = k + 1
      OBVIOUS
    <3>2. IsFiniteSet(a .. b)
      BY FS_Interval
    <3> QED
      BY <2>1, <3>1, <3>2
  <2>4. Max(T) \in T /\ \A n \in T : n <= Max(T)
    <3>1. T # {}
      BY <2>2
    <3> QED
      BY <2>2, <2>3, <3>1, MaxIsGreatest
  <2>5. Max(T) = k + 1
    <3>1. PICK n : n = Max(T)
      OBVIOUS
    <3>2. n \in Int /\ n <= k + 1 /\ k + 1 <= n
      BY <2>2, <2>4, <3>1
    <3> QED
      BY <3>1, <3>2
  <2>6. T \ {k + 1} = 1 .. k
    BY <2>1
  <2>7. T \in SUBSET DOMAIN path /\ T # {}
    BY <2>1, <2>2
  <2>8. g[T] = <<g[T \ {Max(T)}], path[Max(T)]>>
    BY <1>1, <2>7 DEF RootStep
  <2> QED
    BY <2>1, <2>5, <2>6, <2>8
<1> QED
  BY <1>3, <1>4 DEF g, Folded
-----------------------------------------------------------------------------
(* The levels of the tree.                                                 *)

\* A sequence of m nodes.
List(f, m) == DOMAIN f = 1 .. m /\ f = [i \in 1 .. m |-> f[i]]

LEMMA ListLength == ASSUME NEW m \in Nat, NEW f, List(f, m) PROVE Len(f) = m
<1> DEFINE V == {f[i] : i \in 1 .. m}
<1>1. f \in [1 .. m -> V]
  BY DEF List
<1> HIDE DEF V
<1> QED
  BY <1>1

LEMMA ListAppend ==
  ASSUME NEW m \in Nat, NEW f, List(f, m), NEW x
  PROVE  /\ List(Append(f, x), m + 1)
         /\ \A i \in 1 .. m : Append(f, x)[i] = f[i]
         /\ Append(f, x)[m + 1] = x
<1> DEFINE V == {f[i] : i \in 1 .. m} \union {x}
<1>1. f \in [1 .. m -> V] /\ x \in V
  BY DEF List
<1> HIDE DEF V
<1>2. f \in Seq(V) /\ Len(f) = m
  BY <1>1
<1>3. Append(f, x) \in Seq(V) /\ Len(Append(f, x)) = m + 1
  BY <1>1, <1>2
<1>4. List(Append(f, x), m + 1)
  BY <1>3 DEF List
<1> QED
  BY <1>2, <1>4, <1>1

LEMMA HalfFacts ==
  ASSUME NEW m \in Nat, m > 1
  PROVE  /\ (m + 1) \div 2 \in Nat /\ (m + 1) \div 2 >= 1 /\ (m + 1) \div 2 <= m - 1
         /\ 2 * ((m + 1) \div 2) <= m \/ (2 * ((m + 1) \div 2) = m + 1 /\ m % 2 = 1)
  OBVIOUS

\* A level padded, and the one above it.
LEMMA PaddedFacts ==
  ASSUME NEW m \in Nat, m > 1, NEW f, List(f, m)
  PROVE  /\ \A i \in 1 .. m : Padded(f)[i] = f[i]
         /\ m % 2 = 1 => Padded(f)[m + 1] = f[m]
         /\ List(Padded(f), IF m % 2 = 1 THEN m + 1 ELSE m)
<1>1. Len(f) = m
  BY ListLength
<1>2. CASE m % 2 = 1
  <2>1. Padded(f) = Append(f, f[m])
    BY <1>1, <1>2 DEF Padded, Last
  <2>2. PICK x : x = f[m]
    OBVIOUS
  <2>3. /\ List(Append(f, x), m + 1)
        /\ \A i \in 1 .. m : Append(f, x)[i] = f[i]
        /\ Append(f, x)[m + 1] = x
    <3>1. List(Append(f, x), m + 1)
      BY ListAppend
    <3>2. \A i \in 1 .. m : Append(f, x)[i] = f[i]
      BY ListAppend
    <3>3. Append(f, x)[m + 1] = x
      BY ListAppend, ListLength
    <3> QED
      BY <3>1, <3>2, <3>3
  <2> QED
    BY <1>2, <2>1, <2>2, <2>3
<1>3. CASE m % 2 # 1
  BY <1>1, <1>3 DEF Padded
<1> QED
  BY <1>2, <1>3

LEMMA PairedFacts ==
  ASSUME NEW m \in Nat, m > 1, NEW f, List(f, m)
  PROVE  /\ List(Paired(f), (m + 1) \div 2)
         /\ \A i \in 1 .. (m + 1) \div 2 : Paired(f)[i] = <<Padded(f)[2 * i - 1], Padded(f)[2 * i]>>
<1> DEFINE k == IF m % 2 = 1 THEN m + 1 ELSE m
<1>1. k \in Nat /\ k \div 2 = (m + 1) \div 2
  OBVIOUS
<1>2. Len(Padded(f)) = k
  <2>1. PICK g : g = Padded(f)
    OBVIOUS
  <2>2. List(g, k)
    BY <2>1, PaddedFacts
  <2> HIDE DEF k
  <2> QED
    BY <1>1, <2>1, <2>2, ListLength
<1> HIDE DEF k
<1>3. Paired(f) = [i \in 1 .. (m + 1) \div 2 |-> <<Padded(f)[2 * i - 1], Padded(f)[2 * i]>>]
  BY <1>1, <1>2 DEF Paired
<1> QED
  BY <1>3 DEF List

LevelStep(c, txs, g, n) ==
    IF n = 0 THEN <<c>> \o txs
    ELSE IF Len(g[n - 1]) = 1 THEN g[n - 1] ELSE Paired(g[n - 1])

\* The levels exist.
LEMMA LevelsExist ==
  ASSUME NEW c, NEW txs, Len(txs) \in Nat
  PROVE  \A n \in 0 .. Len(txs) : Level(c, txs)[n] = LevelStep(c, txs, Level(c, txs), n)
<1> DEFINE G == {k \in Nat : \E g : g = [n \in 0 .. k |-> LevelStep(c, txs, g, n)]}
<1>1. 0 \in G
  <2> DEFINE g == [n \in 0 .. 0 |-> <<c>> \o txs]
  <2>1. g = [n \in 0 .. 0 |-> LevelStep(c, txs, g, n)]
    BY DEF LevelStep
  <2> HIDE DEF g
  <2> QED
    BY <2>1
<1>2. ASSUME NEW k \in Nat, k \in G PROVE k + 1 \in G
  <2>1. PICK g : g = [n \in 0 .. k |-> LevelStep(c, txs, g, n)]
    BY <1>2
  <2> DEFINE h == [n \in 0 .. k + 1 |-> LevelStep(c, txs, g, n)]
  <2>2. \A n \in 0 .. k : h[n] = g[n]
    BY <2>1
  <2>3. ASSUME NEW n \in 0 .. k + 1 PROVE LevelStep(c, txs, h, n) = LevelStep(c, txs, g, n)
    <3>1. CASE n = 0
      BY <3>1 DEF LevelStep
    <3>2. CASE n # 0
      <4>1. n - 1 \in 0 .. k
        BY <3>2
      <4>2. h[n - 1] = g[n - 1]
        BY <2>2, <4>1
      <4> HIDE DEF h
      <4> QED
        BY <4>2 DEF LevelStep
    <3> QED
      BY <3>1, <3>2
  <2>4. h = [n \in 0 .. k + 1 |-> LevelStep(c, txs, h, n)]
    BY <2>3
  <2> HIDE DEF h
  <2>5. \E f : f = [n \in 0 .. k + 1 |-> LevelStep(c, txs, f, n)]
    BY <2>4, Zenon
  <2>6. k + 1 \in Nat
    OBVIOUS
  <2> QED
    BY <2>5, <2>6, Zenon
<1>3. Nat \subseteq G
  <2> HIDE DEF G
  <2> QED
    BY <1>1, <1>2, NumberInduction
<1>4. \E g : g = [n \in 0 .. Len(txs) |-> LevelStep(c, txs, g, n)]
  BY <1>3
<1>5. Level(c, txs) = CHOOSE g : g = [n \in 0 .. Len(txs) |-> LevelStep(c, txs, g, n)]
  BY DEF Level, LevelStep
<1>6. Level(c, txs) = [n \in 0 .. Len(txs) |-> LevelStep(c, txs, Level(c, txs), n)]
  BY <1>4, <1>5, Zenon
<1> QED
  BY <1>6

LEMMA FirstLevel ==
  ASSUME NEW V, NEW txs \in Seq(V), NEW c
  PROVE  /\ List(<<c>> \o txs, Len(txs) + 1) /\ (<<c>> \o txs)[1] = c
         /\ \A i \in 2 .. Len(txs) + 1 : (<<c>> \o txs)[i] = txs[i - 1]
<1>1. PICK U : U = V \union {c}
  OBVIOUS
<1>2. <<c>> \in Seq(U) /\ txs \in Seq(U) /\ Len(<<c>>) = 1
  BY <1>1
<1>3. <<c>> \o txs \in Seq(U) /\ Len(<<c>> \o txs) = Len(txs) + 1
  BY <1>2
<1>4. List(<<c>> \o txs, Len(txs) + 1)
  BY <1>3 DEF List
<1>5. (<<c>> \o txs)[1] = c
  BY <1>2
<1>6. \A i \in 2 .. Len(txs) + 1 : (<<c>> \o txs)[i] = txs[i - 1]
  BY <1>2
<1> QED
  BY <1>4, <1>5, <1>6

\* A level half as wide as the one below it, until there is one node.
LEMMA LevelWidths ==
  ASSUME NEW V, NEW txs \in Seq(V), NEW c
  PROVE  /\ Level(c, txs)[0] = <<c>> \o txs
         /\ \A n \in 0 .. Len(txs) :
              /\ Len(Level(c, txs)[n]) \in 1 .. Len(txs) + 1 - n
              /\ List(Level(c, txs)[n], Len(Level(c, txs)[n]))
         /\ \A n \in 0 .. Len(txs) - 1 :
              Level(c, txs)[n + 1] = IF Len(Level(c, txs)[n]) = 1 THEN Level(c, txs)[n]
                                     ELSE Paired(Level(c, txs)[n])
<1> DEFINE L == Level(c, txs)
           P(n) == Len(L[n]) \in 1 .. Len(txs) + 1 - n /\ List(L[n], Len(L[n]))
           G == {n \in Nat : n <= Len(txs) => P(n)}
<1>1. Len(txs) \in Nat
  OBVIOUS
<1>2. /\ L[0] = <<c>> \o txs
      /\ \A n \in 0 .. Len(txs) - 1 :
           L[n + 1] = IF Len(L[n]) = 1 THEN L[n] ELSE Paired(L[n])
  <2>1. \A n \in 0 .. Len(txs) : L[n] = LevelStep(c, txs, L, n)
    BY <1>1, LevelsExist
  <2> HIDE DEF L
  <2>2. L[0] = <<c>> \o txs
    <3>1. 0 \in 0 .. Len(txs)
      BY <1>1
    <3> QED
      BY <2>1, <3>1 DEF LevelStep
  <2>3. ASSUME NEW n \in 0 .. Len(txs) - 1
        PROVE  L[n + 1] = IF Len(L[n]) = 1 THEN L[n] ELSE Paired(L[n])
    <3>1. n + 1 \in 0 .. Len(txs) /\ n + 1 # 0 /\ (n + 1) - 1 = n
      BY <1>1
    <3>2. L[n + 1] = LevelStep(c, txs, L, n + 1)
      BY <2>1, <3>1
    <3> QED
      BY <3>1, <3>2 DEF LevelStep
  <2> QED
    BY <2>2, <2>3
<1> HIDE DEF L
<1>3. 0 \in G
  <2>1. List(L[0], Len(txs) + 1)
    BY <1>2, FirstLevel
  <2>2. Len(L[0]) = Len(txs) + 1
    BY <1>1, <2>1, ListLength
  <2> QED
    BY <1>1, <2>1, <2>2
<1>4. ASSUME NEW n \in Nat, n \in G PROVE n + 1 \in G
  <2> SUFFICES ASSUME n + 1 <= Len(txs) PROVE P(n + 1)
    OBVIOUS
  <2>1. n \in 0 .. Len(txs) - 1 /\ P(n)
    BY <1>1, <1>4
  <2>2. PICK f, m : f = L[n] /\ m = Len(L[n])
    OBVIOUS
  <2>3. m \in Nat /\ m >= 1 /\ m <= Len(txs) + 1 - n /\ List(f, m)
    BY <1>1, <2>1, <2>2
  <2>4. CASE m = 1
    <3>1. L[n + 1] = f
      BY <1>2, <2>1, <2>2, <2>4
    <3>2. Len(f) = 1 /\ List(f, 1)
      BY <2>2, <2>3, <2>4
    <3>3. 1 \in 1 .. Len(txs) + 1 - (n + 1)
      BY <1>1, <2>1
    <3> QED
      BY <3>1, <3>2, <3>3
  <2>5. CASE m # 1
    <3>1. L[n + 1] = Paired(f)
      BY <1>2, <2>1, <2>2, <2>5
    <3>2. PICK g, k : g = Paired(f) /\ k = (m + 1) \div 2
      OBVIOUS
    <3>3. k \in Nat /\ k >= 1 /\ k <= m - 1
      BY <2>3, <2>5, <3>2, HalfFacts
    <3>4. List(g, k)
      BY <2>3, <2>5, <3>2, PairedFacts
    <3>5. Len(g) = k
      BY <3>3, <3>4, ListLength
    <3> QED
      BY <1>1, <2>3, <3>1, <3>2, <3>3, <3>4, <3>5
  <2> QED
    BY <2>4, <2>5
<1>5. Nat \subseteq G
  <2> HIDE DEF G
  <2> QED
    BY <1>3, <1>4, NumberInduction
<1>6. \A n \in 0 .. Len(txs) : P(n)
  BY <1>1, <1>5
<1> QED
  BY <1>2, <1>6 DEF L

\* Whatever the coinbase is, the levels are as wide and differ in the leftmost
\* node only.
LEMMA LevelTwins ==
  ASSUME NEW V, NEW txs \in Seq(V), NEW c, NEW d
  PROVE  \A n \in 0 .. Len(txs) :
           /\ Len(Level(d, txs)[n]) = Len(Level(c, txs)[n])
           /\ \A i \in 2 .. Len(Level(c, txs)[n]) : Level(d, txs)[n][i] = Level(c, txs)[n][i]
           /\ n # Len(txs) /\ Len(Level(c, txs)[n]) # 1 =>
                Level(c, txs)[n + 1][1] = <<Level(c, txs)[n][1], Padded(Level(d, txs)[n])[2]>>
<1>1. PICK N, A, B : N = Len(txs) /\ A = Level(c, txs) /\ B = Level(d, txs)
  OBVIOUS
<1>2. /\ N \in Nat /\ A[0] = <<c>> \o txs /\ B[0] = <<d>> \o txs
      /\ \A n \in 0 .. N : /\ Len(A[n]) \in 1 .. N + 1 - n /\ List(A[n], Len(A[n]))
                           /\ Len(B[n]) \in 1 .. N + 1 - n /\ List(B[n], Len(B[n]))
      /\ \A n \in 0 .. N - 1 : /\ A[n + 1] = IF Len(A[n]) = 1 THEN A[n] ELSE Paired(A[n])
                               /\ B[n + 1] = IF Len(B[n]) = 1 THEN B[n] ELSE Paired(B[n])
  <2>1. N \in Nat
    BY <1>1
  <2>2. /\ Level(c, txs)[0] = <<c>> \o txs
        /\ \A n \in 0 .. Len(txs) : /\ Len(Level(c, txs)[n]) \in 1 .. Len(txs) + 1 - n
                                    /\ List(Level(c, txs)[n], Len(Level(c, txs)[n]))
        /\ \A n \in 0 .. Len(txs) - 1 :
             Level(c, txs)[n + 1] = IF Len(Level(c, txs)[n]) = 1 THEN Level(c, txs)[n]
                                    ELSE Paired(Level(c, txs)[n])
    BY LevelWidths
  <2>3. /\ Level(d, txs)[0] = <<d>> \o txs
        /\ \A n \in 0 .. Len(txs) : /\ Len(Level(d, txs)[n]) \in 1 .. Len(txs) + 1 - n
                                    /\ List(Level(d, txs)[n], Len(Level(d, txs)[n]))
        /\ \A n \in 0 .. Len(txs) - 1 :
             Level(d, txs)[n + 1] = IF Len(Level(d, txs)[n]) = 1 THEN Level(d, txs)[n]
                                    ELSE Paired(Level(d, txs)[n])
    BY LevelWidths
  <2> QED
    BY <1>1, <2>1, <2>2, <2>3
<1> DEFINE P(n) == Len(B[n]) = Len(A[n]) /\ \A i \in 2 .. Len(A[n]) : B[n][i] = A[n][i]
           G == {n \in Nat : n <= N => P(n)}
<1>3. ASSUME NEW n \in 0 .. N, P(n), Len(A[n]) # 1, NEW m, m = Len(A[n])
      PROVE  /\ m \in Nat /\ m > 1 /\ List(A[n], m) /\ List(B[n], m)
             /\ \A i \in 2 .. m + 1 : i <= m \/ m % 2 = 1 => Padded(B[n])[i] = Padded(A[n])[i]
  <2>1. m \in Nat /\ m > 1 /\ List(A[n], m) /\ List(B[n], m)
    <3>1. /\ Len(A[n]) \in 1 .. N + 1 - n /\ List(A[n], Len(A[n]))
          /\ List(B[n], Len(B[n])) /\ Len(B[n]) = Len(A[n])
      BY <1>2, <1>3
    <3>2. m \in Nat /\ m >= 1 /\ m # 1
      BY <1>2, <1>3, <3>1
    <3>3. m = Len(A[n])
      BY <1>3
    <3>4. m > 1
      BY <3>2
    <3>5. List(A[n], m) /\ List(B[n], m)
      BY <3>1, <3>3, Zenon
    <3> QED
      BY <3>2, <3>4, <3>5
  <2>2. PICK f, g : f = A[n] /\ g = B[n]
    OBVIOUS
  <2>3. /\ \A i \in 1 .. m : Padded(f)[i] = f[i]
        /\ m % 2 = 1 => Padded(f)[m + 1] = f[m]
    BY <2>1, <2>2, PaddedFacts
  <2>4. /\ \A i \in 1 .. m : Padded(g)[i] = g[i]
        /\ m % 2 = 1 => Padded(g)[m + 1] = g[m]
    BY <2>1, <2>2, PaddedFacts
  <2>5. \A i \in 2 .. m : g[i] = f[i]
    BY <1>3, <2>2
  <2>6. ASSUME NEW i \in 2 .. m + 1, i <= m \/ m % 2 = 1 PROVE Padded(g)[i] = Padded(f)[i]
    <3>1. CASE i <= m
      BY <2>1, <2>3, <2>4, <2>5, <3>1
    <3>2. CASE ~(i <= m)
      <4>1. i = m + 1 /\ m \in 2 .. m /\ m % 2 = 1
        BY <2>1, <2>6, <3>2
      <4> QED
        BY <2>3, <2>4, <2>5, <4>1
    <3> QED
      BY <3>1, <3>2
  <2> QED
    BY <2>1, <2>2, <2>6
<1>4. ASSUME NEW n \in 0 .. N - 1, P(n), Len(A[n]) # 1
      PROVE  P(n + 1) /\ A[n + 1][1] = <<A[n][1], Padded(B[n])[2]>>
  <2>1. PICK m, k, f, g : m = Len(A[n]) /\ k = (m + 1) \div 2 /\ f = A[n] /\ g = B[n]
    OBVIOUS
  <2>2. /\ m \in Nat /\ m > 1 /\ List(f, m) /\ List(g, m)
        /\ \A i \in 2 .. m + 1 : i <= m \/ m % 2 = 1 => Padded(g)[i] = Padded(f)[i]
    <3>1. n \in 0 .. N
      BY <1>2
    <3> HIDE DEF P
    <3> QED
      BY <1>3, <1>4, <2>1, <3>1
  <2>3. k \in Nat /\ k >= 1 /\ (2 * k <= m \/ (2 * k = m + 1 /\ m % 2 = 1))
    BY <2>1, <2>2, HalfFacts
  <2>4. A[n + 1] = Paired(f) /\ B[n + 1] = Paired(g)
    BY <1>2, <1>4, <2>1
  <2>5. /\ List(Paired(f), k)
        /\ \A i \in 1 .. k : Paired(f)[i] = <<Padded(f)[2 * i - 1], Padded(f)[2 * i]>>
    BY <2>1, <2>2, PairedFacts
  <2>6. /\ List(Paired(g), k)
        /\ \A i \in 1 .. k : Paired(g)[i] = <<Padded(g)[2 * i - 1], Padded(g)[2 * i]>>
    BY <2>1, <2>2, PairedFacts
  <2>7. Len(A[n + 1]) = k /\ Len(B[n + 1]) = k
    BY <2>3, <2>4, <2>5, <2>6, ListLength
  <2>8. ASSUME NEW i \in 2 .. k PROVE Paired(g)[i] = Paired(f)[i]
    <3>1. PICK a, b : a = 2 * i - 1 /\ b = 2 * i
      OBVIOUS
    <3>2. a \in 2 .. m + 1 /\ b \in 2 .. m + 1 /\ a <= m /\ (b <= m \/ m % 2 = 1)
      BY <2>2, <2>3, <3>1
    <3>3. Padded(g)[a] = Padded(f)[a] /\ Padded(g)[b] = Padded(f)[b]
      BY <2>2, <3>2
    <3>4. i \in 1 .. k
      BY <2>3
    <3> QED
      BY <2>5, <2>6, <3>1, <3>3, <3>4
  <2>9. Paired(f)[1] = <<f[1], Padded(g)[2]>>
    <3>1. 1 \in 1 .. k /\ 1 \in 1 .. m /\ 2 \in 2 .. m + 1 /\ 2 <= m
      BY <2>2, <2>3
    <3>2. Paired(f)[1] = <<Padded(f)[1], Padded(f)[2]>>
      <4>1. 2 * 1 - 1 = 1 /\ 2 * 1 = 2
        OBVIOUS
      <4> QED
        BY <2>5, <3>1, <4>1
    <3>3. Padded(f)[1] = f[1]
      BY <2>2, <3>1, PaddedFacts
    <3>4. Padded(g)[2] = Padded(f)[2]
      BY <2>2, <3>1
    <3> QED
      BY <3>2, <3>3, <3>4
  <2> QED
    BY <2>1, <2>4, <2>7, <2>8, <2>9
<1>5. 0 \in G
  <2>1. \A i \in 2 .. N + 1 : B[0][i] = txs[i - 1] /\ A[0][i] = txs[i - 1]
    BY <1>1, <1>2, FirstLevel
  <2>2. Len(A[0]) = N + 1 /\ Len(B[0]) = N + 1
    <3>1. List(A[0], N + 1) /\ List(B[0], N + 1) /\ N + 1 \in Nat
      BY <1>1, <1>2, FirstLevel
    <3> QED
      BY <3>1, ListLength
  <2> QED
    BY <2>1, <2>2
<1>6. ASSUME NEW n \in Nat, n \in G PROVE n + 1 \in G
  <2> SUFFICES ASSUME n + 1 <= N PROVE P(n + 1)
    OBVIOUS
  <2>1. n \in 0 .. N - 1 /\ P(n)
    BY <1>2, <1>6
  <2>2. CASE Len(A[n]) = 1
    <3>1. A[n + 1] = A[n] /\ B[n + 1] = B[n]
      BY <1>2, <2>1, <2>2
    <3> QED
      BY <2>1, <3>1
  <2>3. CASE Len(A[n]) # 1
    BY <1>4, <2>1, <2>3
  <2> QED
    BY <2>2, <2>3
<1>7. Nat \subseteq G
  <2> HIDE DEF G
  <2> QED
    BY <1>5, <1>6, NumberInduction
<1>8. \A n \in 0 .. N : P(n)
  BY <1>2, <1>7
<1>9. ASSUME NEW n \in 0 .. N, n # N, Len(A[n]) # 1
      PROVE  A[n + 1][1] = <<A[n][1], Padded(B[n])[2]>>
  <2>1. n \in 0 .. N - 1 /\ P(n)
    BY <1>2, <1>8, <1>9
  <2> QED
    BY <1>4, <1>9, <2>1
<1> QED
  BY <1>1, <1>8, <1>9

\* The path has a node for every level below the root.
LEMMA PathFacts ==
  ASSUME NEW V, NEW txs \in Seq(V), NEW c
  PROVE  \E d \in 0 .. Len(txs) :
           /\ MerklePath(txs) = [n \in 1 .. d |-> Padded(Level(<<"placeholder">>, txs)[n - 1])[2]]
           /\ \A n \in 0 .. d - 1 : Len(Level(c, txs)[n]) # 1
           /\ Level(c, txs)[Len(txs)] = Level(c, txs)[d]
<1>1. PICK N, A, B : /\ N = Len(txs) /\ A = Level(c, txs)
                     /\ B = Level(<<"placeholder">>, txs)
  OBVIOUS
<1>2. /\ N \in Nat
      /\ \A n \in 0 .. N : Len(A[n]) \in 1 .. N + 1 - n
      /\ \A n \in 0 .. N - 1 : Len(A[n]) = 1 => A[n + 1] = A[n]
  <2>1. N \in Nat
    BY <1>1
  <2>2. \A n \in 0 .. Len(txs) : Len(Level(c, txs)[n]) \in 1 .. Len(txs) + 1 - n
    BY LevelWidths
  <2>3. \A n \in 0 .. Len(txs) - 1 :
          Level(c, txs)[n + 1] = IF Len(Level(c, txs)[n]) = 1 THEN Level(c, txs)[n]
                                 ELSE Paired(Level(c, txs)[n])
    BY LevelWidths
  <2> QED
    BY <1>1, <2>1, <2>2, <2>3
<1>3. \A n \in 0 .. N : Len(B[n]) = Len(A[n])
  <2>1. PICK d : d = <<"placeholder">>
    OBVIOUS
  <2>2. \A n \in 0 .. Len(txs) : Len(Level(d, txs)[n]) = Len(Level(c, txs)[n])
    BY LevelTwins
  <2> QED
    BY <1>1, <2>1, <2>2
<1>4. PICK d \in 0 .. N : Len(A[d]) = 1 /\ \A n \in 0 .. d - 1 : Len(A[n]) # 1
  <2> DEFINE W == {n \in 0 .. N : Len(A[n]) = 1}
  <2>1. N \in 0 .. N /\ N + 1 - N = 1
    BY <1>2
  <2>2. Len(A[N]) = 1
    <3>1. Len(A[N]) \in 1 .. N + 1 - N
      BY <1>2, <2>1
    <3>2. PICK w : w = Len(A[N])
      OBVIOUS
    <3>3. w \in 1 .. 1
      BY <2>1, <3>1, <3>2
    <3> QED
      BY <3>2, <3>3
  <2>3. W \subseteq Nat /\ W # {}
    BY <2>1, <2>2
  <2>4. PICK d \in W : \A n \in W : d <= n
    <3> HIDE DEF W
    <3> QED
      BY <2>3, LeastNumber
  <2>5. \A n \in 0 .. d - 1 : n \in 0 .. N /\ ~(d <= n)
    BY <1>2, <2>4
  <2> QED
    BY <2>4, <2>5
<1>5. \A n \in 0 .. N : d <= n => A[n] = A[d]
  <2> DEFINE G == {n \in Nat : n <= N /\ d <= n => A[n] = A[d]}
  <2>1. 0 \in G
    <3>1. d <= 0 => d = 0
      BY <1>4
    <3> QED
      BY <3>1
  <2>2. ASSUME NEW n \in Nat, n \in G PROVE n + 1 \in G
    <3> SUFFICES ASSUME n + 1 <= N, d <= n + 1 PROVE A[n + 1] = A[d]
      OBVIOUS
    <3>1. CASE d = n + 1
      BY <3>1
    <3>2. CASE d # n + 1
      <4>1. n <= N /\ d <= n /\ n \in 0 .. N - 1
        BY <1>2, <1>4, <3>2
      <4>2. A[n] = A[d]
        BY <2>2, <4>1
      <4>3. Len(A[n]) = 1 => A[n + 1] = A[n]
        BY <1>2, <4>1
      <4>4. Len(A[n]) = 1
        BY <1>4, <4>2
      <4> QED
        BY <4>2, <4>3, <4>4
    <3> QED
      BY <3>1, <3>2
  <2>3. Nat \subseteq G
    <3> HIDE DEF G
    <3> QED
      BY <2>1, <2>2, NumberInduction
  <2> QED
    BY <1>2, <2>3
<1>6. {n \in 0 .. N : Len(B[n]) > 1} = 0 .. d - 1
  <2>1. ASSUME NEW n \in 0 .. N PROVE Len(B[n]) > 1 <=> n < d
    <3>1. Len(B[n]) = Len(A[n]) /\ Len(A[n]) \in 1 .. N + 1 - n
      BY <1>2, <1>3
    <3>2. Len(B[n]) > 1 <=> Len(A[n]) # 1
      <4>1. PICK w : w = Len(A[n])
        OBVIOUS
      <4>2. w \in Nat /\ w >= 1
        BY <1>2, <3>1, <4>1
      <4>3. w > 1 <=> w # 1
        BY <4>2
      <4> QED
        BY <3>1, <4>1, <4>3
    <3>3. CASE n < d
      <4>1. n \in 0 .. d - 1
        BY <1>2, <1>4, <3>3
      <4> QED
        BY <1>4, <3>2, <3>3, <4>1
    <3>4. CASE ~(n < d)
      <4>1. d <= n
        BY <1>2, <1>4, <3>4
      <4>2. A[n] = A[d]
        BY <1>5, <4>1
      <4> QED
        BY <1>4, <3>2, <3>4, <4>2
    <3> QED
      BY <3>3, <3>4
  <2> QED
    BY <1>2, <1>4, <2>1
<1>7. Cardinality(0 .. d - 1) = d
  <2>1. PICK a \in Int, b \in Int : a = 0 /\ b = d - 1
    BY <1>2, <1>4
  <2>2. Cardinality(a .. b) = IF a > b THEN 0 ELSE b - a + 1
    BY FS_Interval
  <2> QED
    BY <1>4, <2>1, <2>2
<1>8. MerklePath(txs) = [n \in 1 .. d |-> Padded(B[n - 1])[2]]
  <2>1. Cardinality({n \in 0 .. N : Len(B[n]) > 1}) = d
    BY <1>6, <1>7
  <2> QED
    BY <1>1, <2>1 DEF MerklePath
<1>9. A[N] = A[d]
  <2>1. N \in 0 .. N /\ d <= N
    BY <1>2, <1>4
  <2> QED
    BY <1>5, <2>1
<1> QED
  BY <1>1, <1>4, <1>8, <1>9

\* A pool that hashes its coinbase with the nodes of the path it was sent gets
\* the merkle root of the block with that coinbase and the template's
\* transactions, whatever their number.
THEOREM PathsLeadToRoots ==
  ASSUME NEW V, NEW txs \in Seq(V), NEW c
  PROVE  RootFromPath(c, MerklePath(txs)) = BlockRoot(c, txs)
<1>1. PICK N, A, B : /\ N = Len(txs) /\ A = Level(c, txs)
                     /\ B = Level(<<"placeholder">>, txs)
  OBVIOUS
<1>2. PICK path : path = MerklePath(txs)
  OBVIOUS
<1>3. PICK d \in 0 .. N : /\ path = [n \in 1 .. d |-> Padded(B[n - 1])[2]]
                          /\ \A n \in 0 .. d - 1 : Len(A[n]) # 1
                          /\ A[N] = A[d]
  BY <1>1, <1>2, PathFacts
<1>4. N \in Nat /\ d \in Nat /\ DOMAIN path = 1 .. d
  BY <1>1, <1>3
<1>5. PICK R : R = [k \in 0 .. d |-> Folded(c, path, k)]
  OBVIOUS
<1>6. R[0] = c /\ \A k \in 0 .. d - 1 : R[k + 1] = <<R[k], path[k + 1]>>
  <2>1. Folded(c, path, 0) = c
    BY <1>4, RootGrows
  <2>2. ASSUME NEW k \in 0 .. d - 1
        PROVE  Folded(c, path, k + 1) = <<Folded(c, path, k), path[k + 1]>>
    <3>1. d \in Nat
      BY <1>4
    <3>2. DOMAIN path = 1 .. d
      BY <1>4
    <3>3. k \in 0 .. d - 1
      OBVIOUS
    <3> QED
      BY <3>1, <3>2, <3>3, RootGrows, Zenon
  <2>3. 0 \in 0 .. d /\ \A k \in 0 .. d - 1 : k \in 0 .. d /\ k + 1 \in 0 .. d
    BY <1>4
  <2> QED
    BY <1>5, <2>1, <2>2, <2>3
<1>7. A[0][1] = c
  <2>1. Level(c, txs)[0] = <<c>> \o txs
    BY LevelWidths
  <2>2. (<<c>> \o txs)[1] = c
    BY FirstLevel
  <2> QED
    BY <1>1, <2>1, <2>2
<1>8. \A k \in 0 .. d - 1 : A[k + 1][1] = <<A[k][1], Padded(B[k])[2]>>
  <2>1. PICK p : p = <<"placeholder">>
    OBVIOUS
  <2>2. \A n \in 0 .. Len(txs) : n # Len(txs) /\ Len(Level(c, txs)[n]) # 1 =>
          Level(c, txs)[n + 1][1] = <<Level(c, txs)[n][1], Padded(Level(p, txs)[n])[2]>>
    BY LevelTwins
  <2>3. \A k \in 0 .. d - 1 : k \in 0 .. N /\ k # N /\ Len(A[k]) # 1
    BY <1>3, <1>4
  <2> QED
    BY <1>1, <2>1, <2>2, <2>3
<1> DEFINE G == {k \in Nat : k <= d => R[k] = A[k][1]}
<1>9. 0 \in G
  BY <1>6, <1>7
<1>10. ASSUME NEW k \in Nat, k \in G PROVE k + 1 \in G
  <2> SUFFICES ASSUME k + 1 <= d PROVE R[k + 1] = A[k + 1][1]
    OBVIOUS
  <2>1. k \in 0 .. d - 1 /\ k <= d /\ k + 1 \in 1 .. d /\ (k + 1) - 1 = k
    BY <1>4
  <2>2. R[k] = A[k][1]
    BY <1>10, <2>1
  <2>3. path[k + 1] = Padded(B[k])[2]
    BY <1>3, <2>1
  <2> QED
    BY <1>6, <1>8, <2>1, <2>2, <2>3
<1>11. Nat \subseteq G
  <2> HIDE DEF G
  <2> QED
    BY <1>9, <1>10, NumberInduction
<1>12. R[d] = A[d][1]
  BY <1>4, <1>11
<1>13. RootFromPath(c, path) = R[d]
  <2>1. d \in 0 .. d
    BY <1>4
  <2> QED
    BY <1>4, <1>5, <2>1, RootUnfold DEF Folded
<1>14. BlockRoot(c, txs) = A[N][1]
  BY <1>1 DEF BlockRoot
<1> QED
  BY <1>2, <1>3, <1>12, <1>13, <1>14
-----------------------------------------------------------------------------
(* The frames of the pools.                                                *)

\* What was found for a frame is a template its session has sent under that id.
FrameInv(s) ==
    frame[s] # NoFrame => \A y \in frame[s].found : y \in sent[s] /\ y.id = frame[s].id

FramesInv == \A s \in Sessions : FrameInv(s)

\* A step after which no more is in work, and no less has been sent.
LEMMA FramesKept ==
  ASSUME FramesInv,
         \A s \in Sessions : /\ frame'[s] \in {frame[s], NoFrame}
                             /\ sent[s] \subseteq sent'[s]
  PROVE  FramesInv'
  BY DEF FramesInv, FrameInv

LEMMA NextFrames ==
  ASSUME ProviderInv, FramesInv, [Next]_vars
  PROVE  FramesInv'
<1>0. /\ frame \in [Sessions -> Frame \cup {NoFrame}]
      /\ sent \in [Sessions -> SUBSET Snapshot]
  BY DEF ProviderInv, TypeOK
<1>1. CASE PollerStep \/ UNCHANGED vars
  <2>1. frame' = frame /\ sent' = sent
    BY <1>1 DEF PollerStep, vars, sessionVars
  <2> QED
    BY <2>1, FramesKept
<1>2. ASSUME NEW s \in Sessions, Setup(s) \/ Write(s) \/ Failure(s) \/ Read(s)
      PROVE  FramesInv'
  <2>1. CASE \/ SetupAccepted(s) \/ StoreConstraints(s) \/ ReadWatch(s) \/ CacheFirst(s)
             \/ Subscribe(s) \/ TakeLatest(s) \/ CacheSent(s)
             \/ SetupRefused(s) \/ InitRefused(s) \/ SendFirstFails(s) \/ Disconnect(s)
             \/ WriteStalls(s) \/ ReserveAgain(s)
    <3>1. frame' = frame /\ sent' = sent
      BY <2>1 DEF SetupAccepted, StoreConstraints, ReadWatch, CacheFirst, Subscribe, TakeLatest,
         CacheSent, SetupRefused, InitRefused, SendFirstFails, Disconnect, WriteStalls,
         ReserveAgain
    <3> QED
      BY <3>1, FramesKept
  <2>2. CASE SendFirst(s) \/ SendPair(s)
    <3>1. frame' = frame /\ sent' = [sent EXCEPT ![s] = @ \cup {held[s]}]
      BY <2>2 DEF SendFirst, SendPair
    <3> QED
      BY <1>0, <3>1, FramesKept
  <2>3. CASE SendReply(s) \/ BlockSubmitted(s)
    <3>1. sent' = sent /\ frame' = [frame EXCEPT ![s] = NoFrame]
      BY <2>3 DEF SendReply, BlockSubmitted
    <3> QED
      BY <1>0, <3>1, FramesKept
  <2>4. CASE SendPairFails(s) \/ SendReplyFails(s)
    <3>1. /\ sent' = sent
          /\ frame' = [frame EXCEPT ![s] = IF @ # NoFrame /\ @.kind = "data" THEN NoFrame ELSE @]
      BY <2>4 DEF SendPairFails, SendReplyFails, EndsWriter
    <3> QED
      BY <1>0, <3>1, FramesKept
  <2>5. ASSUME NEW id, RequestTransactionData(s, id) \/ SubmitSolution(s, id)
        PROVE  FramesInv'
    <3>1. PICK kind, found : /\ found = Resolve(s, id) /\ sent' = sent
                             /\ frame' = [frame EXCEPT ![s] = [kind |-> kind, id |-> id, found |-> found]]
      BY <2>5 DEF RequestTransactionData, SubmitSolution
    <3>2. \A y \in found : y \in sent[s] /\ y.id = id
      BY <3>1 DEF Resolve, ProviderInv, SessInv
    <3>3. frame'[s].id = id /\ frame'[s].found = found
      BY <1>0, <3>1
    <3>4. \A t \in Sessions \ {s} : frame'[t] = frame[t]
      BY <1>0, <3>1
    <3> QED
      BY <3>1, <3>2, <3>3, <3>4 DEF FramesInv, FrameInv
  <2> QED
    BY <1>2, <2>1, <2>2, <2>3, <2>4, <2>5 DEF Setup, Write, Failure, Read
<1> QED
  BY <1>1, <1>2 DEF Next

\* A frame that was resolved is about a template its pool was sent under that id:
\* the merkle root of its block is the one of the path the pool was sent.
THEOREM FramesStayWithTheirJobs == Spec => []FramesAreOfTheirJobs
<1>1. Init => FramesInv
  BY DEF Init, FramesInv, FrameInv
<1>2. ProviderInv /\ FramesInv /\ [Next]_vars => FramesInv'
  BY NextFrames
<1>3. ProviderInv /\ FramesInv => FramesAreOfTheirJobs
  <2> SUFFICES ASSUME ProviderInv, FramesInv, NEW s \in Sessions, frame[s] # NoFrame,
                      NEW y \in frame[s].found
               PROVE  \E x \in sent[s] :
                        /\ x.id = frame[s].id
                        /\ x.template.tip = y.template.tip
                        /\ RootFromPath(<<"coinbase">>, MerklePath(x.template.txs))
                             = BlockRoot(<<"coinbase">>, y.template.txs)
    BY DEF FramesAreOfTheirJobs
  <2>1. y \in sent[s] /\ y.id = frame[s].id
    BY DEF FramesInv, FrameInv
  <2>2. y.template.txs \in Seq(Txs)
    <3>1. y \in Snapshot
      BY <2>1 DEF ProviderInv, TypeOK
    <3> QED
      BY <3>1, PollerAssumption DEF Snapshot, Template
  <2>3. PICK c, txs : c = <<"coinbase">> /\ txs = y.template.txs
    OBVIOUS
  <2>4. RootFromPath(c, MerklePath(txs)) = BlockRoot(c, txs)
    BY <2>2, <2>3, PathsLeadToRoots
  <2> QED
    BY <2>1, <2>3, <2>4
<1> QED
  BY <1>1, <1>2, <1>3, ProviderInvariant, PTL DEF Spec
=============================================================================
