---------------------------- MODULE CreditLedger ----------------------------
(***************************************************************************)
(* The credit ledger of the SC-nodes: mature rewards of the support wallet, *)
(* and the credit runs that divide them. A run covers a window of time,    *)
(* counts every mature reward in it (its header and its credits), and      *)
(* links the rewards it paid for, so that no other run takes them again.   *)
(*                                                                         *)
(* Two programs write runs, and no lock keeps them apart: the credit       *)
(* ledger CLI (write-draft, by an operator) and the fresh-cycle automation *)
(* (module PayoutCycle). A statement of either sees what is committed when *)
(* it starts (READ COMMITTED); no constraint makes a reward unique among   *)
(* the links, and only the check before the insert refuses a second link.  *)
(*                                                                         *)
(* Times are even numbers for the seconds of rewards: one more is the      *)
(* microsecond that the automation adds to the time of its last reward.    *)
(***************************************************************************)
EXTENDS Naturals, FiniteSets, FiniteSetsExt

CONSTANTS
    Rewards,        \* rewards of the support wallet
    Time,           \* reward -> its event_time
    Writers,        \* runs of write-draft by an operator
    Ticks,          \* processes of the automation
    Windows         \* coverage windows that an operator may give

ASSUME RewardsAssumption ==
    /\ IsFiniteSet(Rewards)
    /\ Time \in [Rewards -> Nat]
    /\ \A r \in Rewards : Time[r] % 2 = 0
    /\ IsFiniteSet(Writers) /\ IsFiniteSet(Ticks)
    /\ \A w \in Windows : w.start \in Nat /\ w.end \in Nat
    /\ Writers \cap Ticks = {}

VARIABLES
    matured,        \* rewards that the wallet reports as mature
    reported,       \* rewards that support_wallet_reward_events holds as mature
    runs,           \* committed credit runs: id -> run
    pc,             \* where each process is
    draft,          \* the run that each process prepares
    target,         \* id of the run that each process has inserted or found
    moved           \* rewards that changed since its first read (history)

ledger == <<matured, reported, runs>>
NoTarget == 0
ledgerVars == <<ledger, pc, draft, target, moved>>

Processes == Writers \cup Ticks
Preparing == {"windowed", "selected", "counted", "written"} \* have read, not committed
NoRun == [start |-> 0, end |-> 0, auto |-> FALSE, counted |-> {}, linked |-> {},
          saw |-> {}, moved |-> {}]

-----------------------------------------------------------------------------
(* What a statement reads.                                                 *)

\* An operator's window that begins where a run ended leaves out the boundary.
ExcludesStart(start) == \E i \in DOMAIN runs : runs[i].end = start

InCoverage(t, start, end, exclude) ==
    t < end /\ IF exclude THEN t > start ELSE t >= start

Eligible(start, end, exclude) ==
    {r \in reported : InCoverage(Time[r], start, end, exclude)}

LinkedBy(ids) == UNION {runs[i].linked : i \in ids}
Linked == LinkedBy(DOMAIN runs)

\* Ids come from a sequence; one that was rolled back is as good as new.
NewId ==
    LET taken == DOMAIN runs \cup {target[p] : p \in Processes}
    IN Min((1 .. Cardinality(taken) + 1) \ taken)

\* What the processes that prepare a run see move under them.
Moved(p, S) ==
    [q \in Processes |-> IF q = p THEN {}
                         ELSE IF pc[q] \in Preparing THEN moved[q] \cup S ELSE moved[q]]

\* The draft of p becomes visible. A run that ends at s takes the rewards of time
\* s out of the windows that start at s.
CommitRun(p) ==
    /\ runs' = [j \in DOMAIN runs \cup {target[p]} |->
                  IF j = target[p] THEN [draft[p] EXCEPT !.moved = moved[p]] ELSE runs[j]]
    /\ moved' = Moved(p, draft[p].linked \cup {r \in Rewards : Time[r] = draft[p].end})

\* The process goes to step s.
Goto(p, s) == pc' = [pc EXCEPT ![p] = s]

\* The process ends, or dies: what it had not committed is rolled back.
Leave(p, s) ==
    /\ Goto(p, s)
    /\ draft' = [draft EXCEPT ![p] = NoRun]
    /\ target' = [target EXCEPT ![p] = NoTarget]
    /\ moved' = [moved EXCEPT ![p] = {}]

-----------------------------------------------------------------------------
(* Rewards.                                                                *)

\* wallet_event_to_reward_event: what a scan makes of the wallet's list.
RewardsOfWallet == matured

\* Coinbases mature in the order of their blocks.
Mature(r) ==
    /\ r \notin matured
    /\ \A q \in Rewards : Time[q] < Time[r] => q \in matured
    /\ matured' = matured \cup {r}
    /\ UNCHANGED <<reported, runs, pc, draft, target, moved>>

\* build_upsert_reward_event_sql: the scan's row replaces the one that is there.
Upsert(rows) == reported' = rows

\* support_wallet_reward_events.py scan --write: the wallet is asked first, and
\* every row it gave is written, over what another scan may have written since.
ScanReads(p) ==
    /\ draft' = [draft EXCEPT ![p] = [NoRun EXCEPT !.counted = RewardsOfWallet]]
    /\ Goto(p, "scanned")
    /\ UNCHANGED <<ledger, target, moved>>

ScanWrites(p) ==
    /\ pc[p] = "scanned"
    /\ Upsert(draft[p].counted)
    /\ moved' = Moved(p, (reported \ draft[p].counted) \cup (draft[p].counted \ reported))
    /\ draft' = [draft EXCEPT ![p] = NoRun]
    /\ Goto(p, "load")
    /\ UNCHANGED <<matured, runs, target>>

-----------------------------------------------------------------------------
(* write-draft.                                                            *)

\* resolve_operator_coverage, evaluate_write_draft_coverage_refusal. (The default
\* window, of all telemetry and rewards, is one more that may be given.)
ValidWindow(w) == w.start < w.end

\* evaluate_allocation_refusal: there must be rewards. (Work to divide them by is
\* taken for granted.)
Allocatable(counted) == counted # {}

\* _load_preview: what the header and the credits will say.
Preview(p, w) ==
    LET counted == Eligible(w.start, w.end, ExcludesStart(w.start))
    IN /\ pc[p] = "idle"
       /\ ValidWindow(w)
       /\ Allocatable(counted)
       /\ draft' = [draft EXCEPT ![p] = [NoRun EXCEPT !.start = w.start, !.end = w.end,
                                                      !.counted = counted]]
       /\ Goto(p, "counted")
       /\ UNCHANGED <<ledger, target, moved>>

\* The rewards are read a second time, and these are the ones linked.
SecondRead(p) == Eligible(draft[p].start, draft[p].end, ExcludesStart(draft[p].start))

\* Drafts of an operator do not count as links.
MutAlreadyLinked(S) == S \cap LinkedBy({i \in DOMAIN runs : runs[i].auto}) # {}

\* A reward linked already, by whatever run, refuses the draft.
AlreadyLinked(S) == S \cap Linked # {}

\* The check, and the insert of the run.
CheckLinks(p) ==
    LET linked == SecondRead(p)
    IN /\ pc[p] = "counted"
       /\ ~ AlreadyLinked(linked)
       /\ draft' = [draft EXCEPT ![p].linked = linked, ![p].saw = DOMAIN runs]
       /\ target' = [target EXCEPT ![p] = NewId]
       /\ Goto(p, "written")
       /\ UNCHANGED <<ledger, moved>>

RefuseDuplicate(p) ==
    /\ pc[p] = "counted"
    /\ AlreadyLinked(SecondRead(p))
    /\ Leave(p, "done")
    /\ UNCHANGED ledger

\* The draft is committed.
WriteDraft(p) ==
    /\ pc[p] = "written"
    /\ CommitRun(p)
    /\ draft' = [draft EXCEPT ![p] = NoRun]
    /\ target' = [target EXCEPT ![p] = NoTarget]
    /\ Goto(p, "done")
    /\ UNCHANGED <<matured, reported>>

LedgerInit ==
    /\ matured = {}
    /\ reported = {}
    /\ runs = <<>>
    /\ draft = [p \in Processes |-> NoRun]
    /\ target = [p \in Processes |-> NoTarget]
    /\ moved = [p \in Processes |-> {}]

WriterStep(p) ==
    \/ \E w \in Windows : Preview(p, w)
    \/ CheckLinks(p)
    \/ RefuseDuplicate(p)
    \/ WriteDraft(p)

-----------------------------------------------------------------------------
(* Properties.                                                             *)

Run == [start : Nat, end : Nat, auto : BOOLEAN, counted : SUBSET Rewards,
        linked : SUBSET Rewards, saw : SUBSET Nat, moved : SUBSET Rewards]

\* Two runs link the same reward, and so pay it twice, only when neither could see
\* the other at its check: the check leaves that race alone, and no other.
LinkedOnceUnlessRacing ==
    \A i, j \in DOMAIN runs :
        i # j /\ runs[i].linked \cap runs[j].linked # {}
            => i \notin runs[j].saw /\ j \notin runs[i].saw

\* A run pays for exactly the rewards it links, a reward that changed while the
\* run was prepared apart, and one of the same second as a reward it links apart.
CountsWhatItLinks ==
    \A i \in DOMAIN runs : \A r \in Rewards :
        (r \in runs[i].counted) # (r \in runs[i].linked)
            => \/ r \in runs[i].moved
               \/ runs[i].auto /\ \E q \in runs[i].linked : q # r /\ Time[q] = Time[r]

=============================================================================
