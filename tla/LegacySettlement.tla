-------------------------- MODULE LegacySettlement --------------------------
(***************************************************************************)
(* The settlement cycle of the payout application (src/payouts/app), in    *)
(* the configuration its deployment plan ends with: Postgres is the primary*)
(* session, the settlement engine and the sender, rewards come from block  *)
(* events, and a window without a matured reward is deferred.              *)
(*                                                                         *)
(* A cycle samples the miners' counters, and when the payout interval has  *)
(* passed collects the blocks that matured and their rewards, opens the    *)
(* next settlement window, shares the reward by the work of the matured    *)
(* window, and links the blocks to the settlement.  Every statement of the *)
(* repository is a transaction of its own, so a cycle that fails leaves    *)
(* what it has written, and two cycles (the scheduler's, one at a time,    *)
(* and one that POST /settlements/run forces) interleave between any two   *)
(* statements: every action below is one statement, or reads only.         *)
(*                                                                         *)
(* Left out: totals and times that are only reported, the audit log, the   *)
(* writers of the shadow tables, the table of fetched rewards, which no    *)
(* cycle reads, and the status of a credit, which repeats its event's.     *)
(***************************************************************************)
EXTENDS SettlementAllocation

CONSTANTS
    Users,        \* the miners' users, naturals in the order of their names
    Blocks,       \* the pool's blocks
    Captured,     \* those the capture proxy wrote to the candidate table
    Finds,        \* the times at which the blocks may have been found
    Reward,       \* the coinbase reward of a block, in satoshis
    Counter,      \* a user's work counter, by the time it is sampled
    Sampled,      \* when it was sampled before the engine was switched on, at 0
    Interval,     \* payout_interval_minutes
    Maturity,     \* maturity_window_minutes
    Tolerance,    \* how long before its due time a cycle already settles
    MaxNow,       \* bound: the last time
    Forced,       \* bound: the times at which a cycle may be forced
    MaxTroubles   \* bound: forced cycles and cycles that stop half way, together

Scheduler == "scheduler"
Http      == "http"
Cycles    == {Scheduler, Http}

Statuses == {"pending", "deferred", "completed"}

ASSUME SettlementAssumption ==
    /\ Users \subseteq Nat /\ Users # {} /\ IsFiniteSet(Users) /\ IsFiniteSet(Blocks)
    /\ Captured \subseteq Blocks
    /\ Finds \subseteq [Blocks -> Nat]
    /\ Reward \in [Blocks -> Nat]
    /\ Interval \in Nat \ {0} /\ Maturity \in Nat \ {0} /\ Tolerance \in Nat
    /\ MaxNow \in Nat /\ Forced \subseteq Nat /\ MaxTroubles \in Nat
    /\ Sampled \subseteq Int /\ IsFiniteSet(Sampled)
    /\ Counter \in [Users -> [Sampled \union 0 .. MaxNow -> Nat]]

VARIABLES
    now,        \* the time
    foundAt,    \* when each block was found
    samples,    \* raw_miner_snapshots: the times of the samples
    known,      \* blocks_found
    links,      \* settlement_blocks: a linked block's settlement and reward
    windows,    \* settlement_windows, in the order of their ids
    rows,       \* settlement_user_work: work by settlement and user
    credits,    \* settlement_user_credits: satoshis by settlement and user
    events,     \* payout_events: status by settlement and user
    accrual,    \* work_accrual_bucket: the deferred work of a user
    carry,      \* carry_state: satoshis no window has paid
    job,        \* what each cycle is doing, and what it has read
    troubles,   \* forced cycles, and cycles that have stopped, so far
    aborted,    \* history: the steps of Midway at which a cycle has stopped
    overlapped, \* history: two cycles have run at the same time
    raced,      \* history: two have found no window, at different times
    funded      \* history: the blocks in the reward of a completed window

tables == <<samples, known, links, windows, rows, credits, events, accrual, carry>>
vars == <<now, foundAt, tables, job, troubles, aborted, overlapped, raced, funded>>

Steps == {"idle", "gather", "look", "check", "open", "weigh", "rows", "bucket",
          "add", "defer", "merge", "price", "credit", "clear", "carry",
          "complete", "link", "send"}

Nobody == [u \in Users |-> 0]

\* The steps between which what the tables say of money or blocks does not agree.
Midway == {"credit", "clear", "carry", "complete", "link"}

\* What a cycle holds before it has read anything.
Idle == [pc |-> "idle", at |-> 0, matured |-> {}, paid |-> {}, reward |-> 0,
         from |-> 0, sid |-> 0, work |-> Nobody, todo |-> {}, bucket |-> 0,
         pay |-> Nobody, left |-> 0]

Init ==
    /\ now = 0
    /\ foundAt \in Finds
    /\ samples = Sampled /\ known = {} /\ links = << >> /\ windows = << >>
    /\ rows = << >> /\ credits = << >> /\ events = << >>
    /\ accrual = Nobody /\ carry = 0
    /\ job = [p \in Cycles |-> Idle]
    /\ troubles = 0 /\ aborted = {} /\ overlapped = FALSE /\ raced = FALSE /\ funded = {}

-----------------------------------------------------------------------------
(***************************************************************************)
(* Reading the tables.                                                     *)
(***************************************************************************)

\* The window that ends last, the newer of two that end together.
LatestWindow ==
    CHOOSE i \in DOMAIN windows : \A j \in DOMAIN windows :
        windows[j].end < windows[i].end \/ (windows[j].end = windows[i].end /\ j <= i)

\* Mutant: the next window is due two intervals after the last one.
MutNextDue ==
    IF windows = << >> THEN Interval ELSE windows[LatestWindow].end + 2 * Interval

\* The service started at time 0; its first settlement is due one interval on.
NextDue == IF windows = << >> THEN Interval ELSE windows[LatestWindow].end + Interval

\* Mutant: also those that a settlement has.
MutMaturedBlocks(stored, w) == {b \in stored : InWindow(foundAt[b], w)}

\* The stored blocks of the matured window that no settlement has.
MaturedBlocks(stored, w) ==
    {b \in stored : InWindow(foundAt[b], w) /\ b \notin DOMAIN links}

\* The blocks of a settlement that had no reward when they were linked to it.
RetryBlocks(w) ==
    {b \in known \intersect DOMAIN links : foundAt[b] < w.end /\ links[b].sats = 0}

\* Windows by their range; two of them never have the same one.
OfRange(start) ==
    {i \in DOMAIN windows :
        windows[i].start = start /\ windows[i].end = start + Interval}

Window(start, status, reward) ==
    [start |-> start, end |-> start + Interval, status |-> status, reward |-> reward]

\* One row of a table, inserted or overwritten.
Upsert(table, key, value) ==
    [k \in DOMAIN table \union {key} |-> IF k = key THEN value ELSE table[k]]

First(S) == CHOOSE u \in S : \A v \in S : u <= v

Working(work) == {u \in Users : work[u] > 0}

MyWindow(p) == MaturedWindow(job[p].at, Interval, Maturity)

\* Cycle p goes on with the record r.
Goes(p, r) == job' = [job EXCEPT ![p] = r]

-----------------------------------------------------------------------------
(***************************************************************************)
(* The cycle.                                                              *)
(***************************************************************************)

\* A cycle begins: it samples the counters, and settles if it is forced or the
\* interval has passed, or else only sends.  The scheduler runs one cycle at a
\* time, and so do those who force one (a bound), from the first moment on.
Start(p) ==
    /\ job[p].pc = "idle"
    /\ p = Http => now \in Forced /\ troubles < MaxTroubles
    /\ samples' = samples \union {now}
    /\ Goes(p, [Idle EXCEPT
         !.at = now,
         !.pc = IF p = Http \/ now + Tolerance >= NextDue THEN "gather" ELSE "send"])
    /\ troubles' = IF p = Http THEN troubles + 1 ELSE troubles
    /\ overlapped' = (overlapped \/ \E q \in Cycles : job[q].pc # "idle")
    /\ UNCHANGED <<now, foundAt, known, links, windows, rows, credits, events,
                   accrual, carry, aborted, raced, funded>>

FoundIn(w) == {b \in Blocks : foundAt[b] <= now /\ InWindow(foundAt[b], w)}

\* fetch_blocks_found_in_window: what the translator gives for a window. A call
\* that fails is an answer without blocks.
FetchedBlocks(w) == {FoundIn(w), {}}

\* fetch_block_rewards_by_hashes: the blocks, of those asked for, that the chain's
\* API knows a reward of. A call that fails knows none.
KnownRewards(S) == SUBSET S

\* The blocks stored after those of a window were asked for: what the
\* translator gave, and what the candidate table has, but for rows that cannot
\* be read or stored.
StoredAfter(w) ==
    {known \union fetched \union promoted :
        fetched \in FetchedBlocks(w), promoted \in SUBSET (FoundIn(w) \intersect Captured)}

\* The rewards of the newly matured blocks and of the retried ones are asked
\* for.  One unknown among the newly matured and the settlement has no reward,
\* also not those of the retried blocks.
Gather(p) ==
    LET w == MyWindow(p)
    IN  /\ job[p].pc = "gather"
        /\ known' \in StoredAfter(w)
        /\ LET matured == MaturedBlocks(known', w)
           IN  \E rewarded \in KnownRewards(matured \union RetryBlocks(w)) :
                 Goes(p, [job[p] EXCEPT
                   !.pc = "look", !.matured = matured, !.paid = rewarded,
                   !.reward = IF matured \subseteq rewarded
                              THEN SumOver(Reward, rewarded) ELSE 0])
        /\ UNCHANGED <<now, foundAt, samples, links, windows, rows, credits, events,
                       accrual, carry, troubles, aborted, overlapped, raced, funded>>

\* Two cycles have found no window, and the periods they take for the first differ.
TwoFirsts(p) ==
    /\ windows = << >>
    /\ \E q \in Cycles \ {p} : /\ job[q].pc \in {"check", "open"}
                             /\ job[q].from # job[p].at - Interval

\* Mutant: before its end the latest settlement is weighed again.
MutLook(p) ==
    LET end == windows[LatestWindow].end
    IN  /\ job[p].pc = "look"
        /\ IF windows = << >>
           THEN Goes(p, [job[p] EXCEPT !.pc = "check", !.from = job[p].at - Interval])
           ELSE IF job[p].at < end + Interval
           THEN Goes(p, [job[p] EXCEPT !.pc = "weigh", !.sid = LatestWindow])
           ELSE Goes(p, [job[p] EXCEPT !.pc = "check", !.from = end])
        /\ raced' = (raced \/ TwoFirsts(p))
        /\ UNCHANGED <<now, foundAt, tables, troubles, aborted, overlapped, funded>>

\* The settlement period follows the latest window, or without one ends when the
\* cycle began.  Before the period's end the latest settlement is the result, and
\* the blocks will be linked to it.
Look(p) ==
    LET end == windows[LatestWindow].end
    IN  /\ job[p].pc = "look"
        /\ IF windows = << >>
           THEN Goes(p, [job[p] EXCEPT !.pc = "check", !.from = job[p].at - Interval])
           ELSE IF job[p].at < end + Interval
           THEN Goes(p, [job[p] EXCEPT !.pc = "link", !.sid = LatestWindow])
           ELSE Goes(p, [job[p] EXCEPT !.pc = "check", !.from = end])
        /\ raced' = (raced \/ TwoFirsts(p))
        /\ UNCHANGED <<now, foundAt, tables, troubles, aborted, overlapped, funded>>

\* A window of that range is another cycle's.  If it is still pending it is taken
\* for one that crashed: its work is added to the accrual again.
Check(p) ==
    /\ job[p].pc = "check"
    /\ IF OfRange(job[p].from) = {}
       THEN Goes(p, [job[p] EXCEPT !.pc = "open"])
       ELSE LET i == CHOOSE j \in OfRange(job[p].from) : TRUE
                work == Contributions(Counter, samples, MyWindow(p))
            IN  IF windows[i].status = "pending"
                THEN Goes(p, [job[p] EXCEPT !.sid = i, !.work = work, !.reward = 0,
                                !.todo = Working(work), !.pc = "bucket"])
                ELSE Goes(p, [job[p] EXCEPT !.sid = i, !.pc = "link"])
    /\ UNCHANGED <<now, foundAt, tables, troubles, aborted, overlapped, raced, funded>>

\* Mutant: the range is not looked for again.
MutOpenWindow(p) ==
    /\ job[p].pc = "open"
    /\ windows' = Append(windows, Window(job[p].from, "pending", 0))
    /\ Goes(p, [job[p] EXCEPT !.pc = "weigh", !.sid = Len(windows) + 1])
    /\ UNCHANGED <<now, foundAt, samples, known, links, rows, credits, events,
                   accrual, carry, troubles, aborted, overlapped, raced, funded>>

\* The window is inserted, or the one another cycle has just inserted is taken.
OpenWindow(p) ==
    LET from == job[p].from
        new  == Window(from, "pending", 0)
    IN  /\ job[p].pc = "open"
        /\ IF OfRange(from) = {}
           THEN /\ windows' = Append(windows, new)
                /\ Goes(p, [job[p] EXCEPT !.pc = "weigh", !.sid = Len(windows) + 1])
           ELSE \E i \in OfRange(from) :
                /\ windows' = [windows EXCEPT ![i] = new]
                /\ Goes(p, [job[p] EXCEPT !.pc = "weigh", !.sid = i])
        /\ UNCHANGED <<now, foundAt, samples, known, links, rows, credits, events,
                       accrual, carry, troubles, aborted, overlapped, raced, funded>>

\* The window's state, as set by the number the cycle holds.
SetWindow(p, status, reward) ==
    windows' = [windows EXCEPT
                  ![job[p].sid] = [@ EXCEPT !.status = status, !.reward = reward]]

\* The work of the matured window is read, and the window says what it will pay.
Weigh(p) ==
    LET work == Contributions(Counter, samples, MyWindow(p))
    IN  /\ job[p].pc = "weigh"
        /\ SetWindow(p, "pending", job[p].reward)
        /\ Goes(p, [job[p] EXCEPT
             !.work = work, !.todo = Working(work),
             !.pc = IF job[p].reward = 0 THEN "rows" ELSE "merge"])
        /\ UNCHANGED <<now, foundAt, samples, known, links, rows, credits, events,
                       accrual, carry, troubles, aborted, overlapped, raced, funded>>

\* The deferred work counts with the window's own: the buckets are read,
Merge(p) ==
    LET work == [u \in Users |-> job[p].work[u] + accrual[u]]
    IN  /\ job[p].pc = "merge"
        /\ Goes(p, [job[p] EXCEPT !.pc = "price", !.work = work, !.todo = Working(work)])
        /\ UNCHANGED <<now, foundAt, tables, troubles, aborted, overlapped, raced, funded>>

\* Mutant: the carry is not paid out and not carried on.
MutPrice(p) ==
    LET pay == Allocation(job[p].work, job[p].reward)
    IN  /\ job[p].pc = "price"
        /\ Goes(p, [job[p] EXCEPT !.pc = "rows", !.pay = pay,
                      !.left = job[p].reward - SumOver(pay, Users)])
        /\ UNCHANGED <<now, foundAt, tables, troubles, aborted, overlapped, raced, funded>>

\* then the carry, and what there is to pay is shared out.
Price(p) ==
    LET distributable == job[p].reward + carry
        pay == Allocation(job[p].work, distributable)
    IN  /\ job[p].pc = "price"
        /\ Goes(p, [job[p] EXCEPT !.pc = "rows", !.pay = pay,
                      !.left = distributable - SumOver(pay, Users)])
        /\ UNCHANGED <<now, foundAt, tables, troubles, aborted, overlapped, raced, funded>>

\* The work of every user is stored, one row at a time.
StoreWork(p) ==
    /\ job[p].pc = "rows"
    /\ IF job[p].todo = {}
       THEN /\ Goes(p, IF job[p].reward = 0
                       THEN [job[p] EXCEPT !.pc = "bucket", !.todo = Working(job[p].work)]
                       ELSE [job[p] EXCEPT !.pc = "credit", !.todo = Working(job[p].pay)])
            /\ UNCHANGED rows
       ELSE LET u == First(job[p].todo)
            IN  /\ rows' = Upsert(rows, <<job[p].sid, u>>, job[p].work[u])
                /\ Goes(p, [job[p] EXCEPT !.todo = @ \ {u}])
    /\ UNCHANGED <<now, foundAt, samples, known, links, windows, credits, events,
                   accrual, carry, troubles, aborted, overlapped, raced, funded>>

\* A deferred window's work goes to the buckets: each is read
ReadBucket(p) ==
    /\ job[p].pc = "bucket"
    /\ Goes(p, IF job[p].todo = {} THEN [job[p] EXCEPT !.pc = "defer"]
               ELSE [job[p] EXCEPT !.pc = "add", !.bucket = accrual[First(job[p].todo)]])
    /\ UNCHANGED <<now, foundAt, tables, troubles, aborted, overlapped, raced, funded>>

\* and then written, with the work added to what was read.
AddWork(p) ==
    LET u == First(job[p].todo)
    IN  /\ job[p].pc = "add"
        /\ accrual' = [accrual EXCEPT ![u] = job[p].bucket + job[p].work[u]]
        /\ Goes(p, [job[p] EXCEPT !.pc = "bucket", !.todo = @ \ {u}, !.bucket = 0])
        /\ UNCHANGED <<now, foundAt, samples, known, links, windows, rows, credits,
                       events, carry, troubles, aborted, overlapped, raced, funded>>

Defer(p) ==
    /\ job[p].pc = "defer"
    /\ SetWindow(p, "deferred", 0)
    /\ Goes(p, [job[p] EXCEPT !.pc = "link", !.work = Nobody])
    /\ UNCHANGED <<now, foundAt, samples, known, links, rows, credits, events,
                   accrual, carry, troubles, aborted, overlapped, raced, funded>>

\* A rewarded window's users are credited,
Credit(p) ==
    /\ job[p].pc = "credit"
    /\ IF job[p].todo = {}
       THEN /\ Goes(p, [job[p] EXCEPT !.pc = "clear", !.todo = Working(job[p].pay)])
            /\ UNCHANGED credits
       ELSE LET u == First(job[p].todo)
            IN  /\ credits' = Upsert(credits, <<job[p].sid, u>>, job[p].pay[u])
                /\ Goes(p, [job[p] EXCEPT !.todo = @ \ {u}])
    /\ UNCHANGED <<now, foundAt, samples, known, links, windows, rows, events,
                   accrual, carry, troubles, aborted, overlapped, raced, funded>>

\* and those who were lose their deferred work.
Clear(p) ==
    /\ job[p].pc = "clear"
    /\ IF job[p].todo = {}
       THEN /\ Goes(p, [job[p] EXCEPT !.pc = "carry"])
            /\ UNCHANGED accrual
       ELSE LET u == First(job[p].todo)
            IN  /\ accrual' = [accrual EXCEPT ![u] = 0]
                /\ Goes(p, [job[p] EXCEPT !.todo = @ \ {u}])
    /\ UNCHANGED <<now, foundAt, samples, known, links, windows, rows, credits,
                   events, carry, troubles, aborted, overlapped, raced, funded>>

\* What could not be shared out is carried over.
Carry(p) ==
    /\ job[p].pc = "carry"
    /\ carry' = job[p].left
    /\ Goes(p, [job[p] EXCEPT !.pc = "complete"])
    /\ UNCHANGED <<now, foundAt, samples, known, links, windows, rows, credits,
                   events, accrual, troubles, aborted, overlapped, raced, funded>>

Complete(p) ==
    /\ job[p].pc = "complete"
    /\ SetWindow(p, "completed", job[p].reward)
    /\ funded' = funded \union
         {[block |-> b, sid |-> job[p].sid, retried |-> b \notin job[p].matured] :
            b \in job[p].paid}
    /\ Goes(p, [job[p] EXCEPT !.pc = "link", !.work = Nobody, !.pay = Nobody])
    /\ UNCHANGED <<now, foundAt, samples, known, links, rows, credits, events,
                   accrual, carry, troubles, aborted, overlapped, raced>>

\* A block's settlement and the reward it had then; the first one stays.
LinkTo(b, sid, sats) ==
    links' = IF b \in DOMAIN links THEN links
             ELSE Upsert(links, b, [sid |-> sid, sats |-> sats])

\* The newly matured blocks are linked to the settlement, with the reward that
\* was found or none.
Link(p) ==
    /\ job[p].pc = "link"
    /\ IF job[p].matured = {}
       THEN /\ Goes(p, [job[p] EXCEPT !.pc = "send"])
            /\ UNCHANGED links
       ELSE \E b \in job[p].matured :
            /\ LinkTo(b, job[p].sid, IF b \in job[p].paid THEN Reward[b] ELSE 0)
            /\ Goes(p, [job[p] EXCEPT !.matured = @ \ {b}])
    /\ UNCHANGED <<now, foundAt, samples, known, windows, rows, credits, events,
                   accrual, carry, troubles, aborted, overlapped, raced, funded>>

\* The events that were not sent: those there are, not the credits without one.
PendingEvents == {k \in DOMAIN events : events[k] # "sent"}

\* The sender goes over the unsent events.  It makes the event of a credit that
\* has none, but comes to a credit only by its event, and nothing else makes any.
Send(p) ==
    /\ job[p].pc = "send"
    /\ \E sent \in SUBSET PendingEvents :
         events' = [k \in DOMAIN events |->
                      IF k \in sent THEN "sent"
                      ELSE IF k \in PendingEvents THEN "pending" ELSE events[k]]
    /\ Goes(p, Idle)
    /\ UNCHANGED <<now, foundAt, samples, known, links, windows, rows, credits,
                   accrual, carry, troubles, aborted, overlapped, raced, funded>>

\* A cycle stops between two steps: a statement or a request raises, and what
\* has been committed stays.
Abort(p) ==
    /\ job[p].pc # "idle"
    /\ troubles < MaxTroubles
    /\ troubles' = troubles + 1
    /\ aborted' = aborted \union ({job[p].pc} \intersect Midway)
    /\ Goes(p, Idle)
    /\ UNCHANGED <<now, foundAt, tables, overlapped, raced, funded>>

Tick ==
    /\ now < MaxNow
    /\ now' = now + 1
    /\ UNCHANGED <<foundAt, tables, job, troubles, aborted, overlapped, raced, funded>>

Step(p) ==
    \/ Gather(p) \/ Look(p) \/ Check(p) \/ OpenWindow(p) \/ Weigh(p) \/ Merge(p)
    \/ Price(p) \/ StoreWork(p) \/ ReadBucket(p) \/ AddWork(p) \/ Defer(p)
    \/ Credit(p) \/ Clear(p) \/ Carry(p) \/ Complete(p) \/ Link(p) \/ Send(p)

Next == Tick \/ \E p \in Cycles : Start(p) \/ Step(p) \/ Abort(p)

\* The scheduler's job comes round again and again, and its cycle goes on; a
\* forced cycle may hang for ever.
Fairness == WF_vars(Start(Scheduler) \/ Step(Scheduler))

Spec == Init /\ [][Next]_vars /\ Fairness

-----------------------------------------------------------------------------
Jobs == [pc : Steps, at : Nat, matured : SUBSET Blocks, paid : SUBSET Blocks,
         reward : Nat, from : Int, sid : Nat, work : [Users -> Nat],
         todo : SUBSET Users, bucket : Nat, pay : [Users -> Nat], left : Nat]

\* The tables hold what their columns say, every row names a window, and every
\* settlement a cycle has opened is one.
TypeOK ==
    /\ now \in 0 .. MaxNow /\ foundAt \in Finds
    /\ samples \subseteq Sampled \union 0 .. MaxNow /\ known \subseteq Blocks
    /\ DOMAIN links \subseteq Blocks
    /\ \A b \in DOMAIN links : links[b].sid \in DOMAIN windows /\ links[b].sats \in Nat
    /\ \A i \in DOMAIN windows :
         windows[i] \in [start : Int, end : Int, status : Statuses, reward : Nat]
    /\ DOMAIN rows \subseteq (DOMAIN windows) \X Users
    /\ DOMAIN credits \subseteq (DOMAIN windows) \X Users
    /\ DOMAIN events \subseteq DOMAIN credits
    /\ \A k \in DOMAIN rows : rows[k] \in Nat
    /\ \A k \in DOMAIN credits : credits[k] \in Nat
    /\ accrual \in [Users -> Nat] /\ carry \in Nat
    /\ job \in [Cycles -> Jobs]
    /\ \A p \in Cycles : job[p].pc \in {"weigh", "rows", "credit", "link"}
                            => job[p].sid \in DOMAIN windows
    /\ troubles \in 0 .. MaxTroubles /\ aborted \subseteq Midway /\ overlapped \in BOOLEAN
    /\ raced \in BOOLEAN

\* Two cycles that race for the next period, cycles that stop half way and
\* cycles that come late leave no period without a window and none with two:
\* every window begins where the one before it ends (postgres_settlement.py
\* reads the latest window, then looks for the range, then inserts, each in a
\* transaction of its own). The first period is the exception: without a window
\* it ends at the time of the cycle, and two cycles that both find none, at
\* different times, open windows that overlap or leave a gap.
WindowsAbut ==
    \A i \in DOMAIN windows :
        /\ windows[i].end = windows[i].start + Interval
        /\ ~raced /\ i + 1 \in DOMAIN windows => windows[i + 1].start = windows[i].end

Quiet == \A p \in Cycles : job[p].pc = "idle"

OfStatus(S) == {i \in DOMAIN windows : windows[i].status \in S}

\* Unless two cycles have overlapped, or one has stopped after its first credit
\* and before its window was completed, the satoshis credited and those carried
\* are together the rewards of the completed windows: nothing is lost in the
\* rounding or with a window nobody worked in, and no carry is paid twice.
BooksBalance ==
    Quiet /\ ~overlapped /\ aborted \intersect {"credit", "clear", "carry", "complete"} = {}
      => SumOver(credits, DOMAIN credits) + carry
           = SumOver([i \in DOMAIN windows |-> windows[i].reward], OfStatus({"completed"}))

\* The last window, of those with one of these statuses, that credited u.
LastCredit(u, S) ==
    LET paid == {i \in OfStatus(S) : <<i, u>> \in DOMAIN credits}
    IN  IF paid = {} THEN 0 ELSE CHOOSE i \in paid : \A j \in paid : j <= i

WorkAfter(u, i, S) ==
    SumOver(rows, {k \in DOMAIN rows : k[2] = u /\ k[1] > i /\ k[1] \in OfStatus(S)})

\* Unless two cycles have overlapped, the deferred work of a user is the work of
\* the windows deferred since the user was last credited: a window deferred is
\* not forgotten or added twice, and work that was paid is not paid again.
\* A cycle that stopped half way leaves a pending window, whose work is counted
\* in part.
AccrualIsTheDeferredWork ==
    Quiet /\ ~overlapped => \A u \in Users :
        /\ WorkAfter(u, LastCredit(u, Statuses), {"deferred"}) <= accrual[u]
        /\ accrual[u] <= WorkAfter(u, LastCredit(u, {"completed"}), {"deferred", "pending"})

\* The tables are well-formed, and money and deferred work are accounted for.
AccountsSound == TypeOK /\ BooksBalance /\ AccrualIsTheDeferredWork

\* Unless two cycles have overlapped, or one has stopped before it had linked
\* its blocks, a block brings its reward to the window in which it matured once:
\* the matured windows of late cycles overlap, and the link keeps the block out
\* of the second.
MaturesOnce ==
    ~overlapped /\ "link" \notin aborted =>
        \A f, g \in funded : f.block = g.block /\ ~f.retried /\ ~g.retried => f = g

\* A completed window stays as it is, with its credits, unless cycles overlap.
CompletedStays ==
    [][~overlapped' => \A i \in OfStatus({"completed"}) :
          /\ windows'[i] = windows[i]
          /\ \A u \in Users :
               /\ (<<i, u>> \in DOMAIN credits') = (<<i, u>> \in DOMAIN credits)
               /\ <<i, u>> \in DOMAIN credits =>
                    credits'[<<i, u>>] = credits[<<i, u>>]]_vars

\* However late the cycles come, wherever one of them stops, and also while a
\* forced one hangs, the windows catch up with the time: in the end the latest
\* has ended less than an interval ago.
CatchesUp ==
    <>[](now < Interval + (IF windows = << >> THEN 0 ELSE windows[LatestWindow].end))
=============================================================================
