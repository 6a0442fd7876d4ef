------------------------- MODULE PayoutCycle_proofs -------------------------
(***************************************************************************)
(* What the credit ledger and the fresh-cycle automation keep, for any     *)
(* rewards, balances, faults and numbers of processes.                     *)
(*                                                                         *)
(* Amounts are sums over sets, of which the provers know nothing: the      *)
(* proofs use only that a set of rewards is within the budget or is not.   *)
(***************************************************************************)
EXTENDS PayoutCycle, FiniteSetTheorems, TLAPS

-----------------------------------------------------------------------------
(* Least and greatest numbers.                                             *)

LEMMA LeastNumber ==
  ASSUME NEW S \in SUBSET Nat, S # {}
  PROVE  Min(S) \in S /\ \A n \in S : Min(S) <= n
<1> DEFINE less == {ss \in Nat \X Nat : ss[1] < ss[2]}
<1>1. IsWellFoundedOn(less, Nat)
  BY NatLessThanWellFounded, Zenon DEF OpToRel
<1>2. \A m, n \in Nat : m < n => <<m, n>> \in less
  OBVIOUS
<1> HIDE DEF less
<1>3. PICK least \in S : \A n \in S : ~ (<<n, least>> \in less)
  BY <1>1, WFMin
<1>4. ASSUME NEW n \in S
      PROVE  least <= n
  <2>1. ASSUME n < least
        PROVE  FALSE
    BY <1>2, <1>3, <2>1
  <2> QED
    BY <2>1
<1> QED
  BY <1>4 DEF Min

\* Of a finite set, those above a member are a smaller such set, if there are any.
LEMMA GreatestNumber ==
  ASSUME NEW S \in SUBSET Nat, IsFiniteSet(S), S # {}
  PROVE  Max(S) \in S /\ \A n \in S : n <= Max(S)
<1> DEFINE Tops == {U \in SUBSET S : U # {} /\ \A u \in U, n \in S : n > u => n \in U}
           less == StrictSubsetOrdering(S)
<1>1. IsWellFoundedOn(less, SUBSET S)
  BY FS_StrictSubsetOrderingWellFounded, FS_FiniteSubsetsOfFinite
<1>2. S \in Tops
  OBVIOUS
<1>3. Tops \subseteq SUBSET S /\ Tops # {}
  BY <1>2
<1>4. \A U, V \in SUBSET S : U \subseteq V /\ U # V => <<U, V>> \in less
  BY DEF StrictSubsetOrdering
<1> HIDE DEF less, Tops
<1>5. PICK top \in Tops : \A U \in Tops : ~ (<<U, top>> \in less)
  BY <1>1, <1>3, WFMin
<1> USE DEF Tops
<1>6. PICK greatest \in top : greatest \in S
  OBVIOUS
<1>7. ASSUME NEW n \in S, n > greatest
      PROVE  FALSE
  <2> DEFINE U == {m \in S : m > greatest}
  <2>1. U \in Tops
    <3>1. n \in U /\ U \in SUBSET S
      BY <1>7
    <3>2. \A u \in U, m \in S : m > u => m \in U
      BY <1>6
    <3> QED
      BY <3>1, <3>2
  <2>2. U \subseteq top
    BY <1>6
  <2>3. greatest \in Nat /\ greatest \notin U
    BY <1>6
  <2>4. U \in SUBSET S /\ U # top /\ top \in SUBSET S
    BY <1>6, <2>3
  <2> QED
    BY <1>4, <1>5, <2>1, <2>2, <2>4
<1>8. greatest \in S /\ \A n \in S : n <= greatest
  BY <1>6, <1>7
<1> QED
  BY <1>8 DEF Max

LEMMA ImageFinite ==
  ASSUME NEW D, IsFiniteSet(D), NEW f
  PROVE  IsFiniteSet({f[d] : d \in D})
<1> DEFINE T == {f[d] : d \in D}
           g == [d \in D |-> f[d]]
<1>1. g \in Surjection(D, T)
  BY DEF Surjection
<1> QED
  BY <1>1, FS_Surjection

-----------------------------------------------------------------------------
(* The invariant.                                                          *)

CycleSteps == {"idle", "scanned", "load", "windowed", "selected", "counted", "written",
               "committed", "restore", "done"}
WriterSteps == {"idle", "counted", "written", "done"}

\* With a reward, S has all rewards of earlier seconds.
OldFirst(S) == \A r \in S, q \in Rewards : Time[q] < Time[r] => q \in S

AllAuto == \A i \in DOMAIN runs : runs[i].auto

RunOK(i) ==
    /\ i \in Nat \ {0} /\ runs[i] \in Run /\ runs[i].start < runs[i].end
    /\ runs[i].saw \subseteq DOMAIN runs
    /\ \A r \in runs[i].linked : Time[r] < runs[i].end
    /\ runs[i].auto => runs[i].end % 2 = 1

\* Up to the end of a run, every second with rewards has a linked one.
Covered ==
    AllAuto => \A r \in Rewards, i \in DOMAIN runs :
        Baseline <= Time[r] /\ Time[r] < runs[i].end => \E q \in Linked : Time[q] = Time[r]

Shared ==
    /\ matured \subseteq Rewards /\ OldFirst(matured)
    /\ reported \subseteq matured /\ OldFirst(reported)
    /\ IsFiniteSet(DOMAIN runs)
    /\ \A i \in DOMAIN runs : RunOK(i)
    /\ LinkedOnceUnlessRacing /\ CountsWhatItLinks /\ Covered

Typed ==
    /\ pc \in [Processes -> CycleSteps]
    /\ \A p \in Writers : pc[p] \in WriterSteps
    /\ draft \in [Processes -> Run]
    /\ target \in [Processes -> Nat]
    /\ moved \in [Processes -> SUBSET Rewards]

EligibleFor(d) == Eligible(d.start, d.end, ExcludesStart(d.start))

\* A and B differ by rewards in m, or of the second of another that d links.
Apart(d, m, A, B) ==
    \A r \in Rewards : (r \in A <=> r \in B) \/ r \in m
        \/ (d.auto /\ \E q \in d.linked : q # r /\ Time[q] = Time[r])

\* A window of the automation begins where nothing before it is left.
Reaches(d) == d.start = Baseline \/ \E i \in DOMAIN runs : d.start <= runs[i].end

Fills(d) ==
    AllAuto => \A r \in Rewards : d.start <= Time[r] /\ Time[r] < d.end =>
                  \E q \in d.linked \cup Linked : Time[q] = Time[r]

Proper(d) == d.start < d.end /\ \A r \in d.linked : Time[r] < d.end

Chosen(d) == d.auto /\ d.end % 2 = 1 /\ Reaches(d) /\ Fills(d) /\ Proper(d)

\* The insert of p is not visible yet, and takes nothing that it saw linked.
Inserted(p) ==
    /\ target[p] \in Nat \ {0} /\ target[p] \notin DOMAIN runs
    /\ draft[p].saw \subseteq DOMAIN runs
    /\ \A j \in draft[p].saw : runs[j].linked \cap draft[p].linked = {}

Holds(p) ==
    /\ pc[p] = "scanned" => draft[p].counted \subseteq matured /\ OldFirst(draft[p].counted)
    /\ pc[p] = "windowed" =>
          /\ draft[p].auto /\ Reaches(draft[p]) /\ Baseline <= draft[p].start
          /\ \A i \in DOMAIN runs :
               runs[i].end <= draft[p].start \/ runs[i].linked \subseteq moved[p]
    /\ pc[p] = "selected" =>
          Chosen(draft[p]) /\ Apart(draft[p], moved[p], EligibleFor(draft[p]), draft[p].linked)
    /\ pc[p] = "counted" => IF p \in Ticks
          THEN Chosen(draft[p]) /\ Apart(draft[p], moved[p], draft[p].counted, draft[p].linked)
          ELSE /\ ~ draft[p].auto /\ draft[p].start < draft[p].end
               /\ Apart(draft[p], moved[p], draft[p].counted, EligibleFor(draft[p]))
    /\ pc[p] = "written" =>
          /\ Inserted(p) /\ Proper(draft[p]) /\ (draft[p].auto => Chosen(draft[p]))
          /\ p \in Ticks => draft[p].auto
          /\ Apart(draft[p], moved[p], draft[p].counted, draft[p].linked)
    /\ pc[p] = "committed" => target[p] \in DOMAIN runs /\ runs[target[p]].auto

Distinct ==
    \A p, q \in Processes :
        p # q /\ pc[p] = "written" /\ pc[q] = "written" => target[p] # target[q]

Outside ==
    /\ mode \in [Ticks -> Modes]
    /\ paid \subseteq DOMAIN runs /\ interrupted \subseteq DOMAIN runs
    /\ faults \in 0 .. MaxFaults
    /\ TargetIsCommitted

CycleInv == Typed /\ Shared /\ Distinct /\ Outside /\ \A p \in Processes : Holds(p)

-----------------------------------------------------------------------------
(* Facts about the definitions.                                            *)

LEMMA TimeFacts ==
  /\ IsFiniteSet(Rewards) /\ Time \in [Rewards -> Nat] /\ Baseline \in Nat
  /\ \A r \in Rewards : Time[r] % 2 = 0
  BY RewardsAssumption, CycleAssumption

LEMMA NoRunFacts ==
  /\ NoRun \in Run /\ NoRun.counted = {} /\ NoRun.linked = {} /\ NoRun.auto = FALSE
  /\ \A S \in SUBSET Rewards : /\ [NoRun EXCEPT !.counted = S] \in Run
                               /\ [NoRun EXCEPT !.counted = S].counted = S
  /\ \A n \in Nat : LET d == [NoRun EXCEPT !.start = n, !.auto = TRUE]
                    IN d \in Run /\ d.start = n /\ d.auto = TRUE
  /\ \A m, n \in Nat, S \in SUBSET Rewards :
        LET d == [NoRun EXCEPT !.start = m, !.end = n, !.counted = S]
        IN d \in Run /\ d.start = m /\ d.end = n /\ d.counted = S /\ d.auto = FALSE
             /\ d.linked = {}
  BY DEF NoRun, Run

LEMMA NewIdFacts ==
  ASSUME CycleInv
  PROVE  /\ NewId \in Nat \ {0} /\ NewId \notin DOMAIN runs
         /\ \A p \in Processes : NewId # target[p]
<1> DEFINE ids == {target[p] : p \in Processes}
           taken == DOMAIN runs \cup ids
           n == Cardinality(taken)
           free == (1 .. n + 1) \ taken
<1>1. IsFiniteSet(DOMAIN runs) /\ IsFiniteSet(ids)
  <2>1. IsFiniteSet(Processes)
    BY RewardsAssumption, FS_Union DEF Processes
  <2> QED
    BY <2>1, ImageFinite DEF CycleInv, Shared
<1> HIDE DEF ids
<1>2. IsFiniteSet(taken)
  BY <1>1, FS_Union
<1>3. n \in Nat
  BY <1>2, FS_CardinalityType
<1> HIDE DEF taken, n
<1>4. Cardinality(1 .. n + 1) = n + 1
  BY <1>3, FS_Interval
<1>5. free # {}
  <2>1. ~ (1 .. n + 1 \subseteq taken)
    <3>1. (1 .. n + 1) \in SUBSET taken => Cardinality(1 .. n + 1) <= Cardinality(taken)
      BY <1>2, FS_Subset
    <3>2. n = Cardinality(taken)
      BY DEF n
    <3> QED
      BY <1>3, <1>4, <3>1, <3>2
  <2> QED
    BY <2>1
<1>6. Min(free) \in free
  BY <1>3, <1>5, LeastNumber
<1>7. NewId = Min(free)
  BY DEF NewId, taken, ids, n
<1> HIDE DEF free
<1>8. NewId \in 1 .. n + 1 /\ NewId \notin taken
  BY <1>6, <1>7 DEF free
<1> QED
  BY <1>3, <1>8 DEF taken, ids

\* What the coverage of a selection is.
LEMMA EndFacts ==
  ASSUME NEW S \in SUBSET Rewards, S # {}
  PROVE  /\ CoverageEnd(S) \in Nat /\ CoverageEnd(S) % 2 = 1
         /\ \A r \in S : Time[r] < CoverageEnd(S)
         /\ \E q \in S : CoverageEnd(S) = Time[q] + 1
<1> DEFINE times == {Time[r] : r \in S}
<1>1. IsFiniteSet(S)
  BY FS_Subset, TimeFacts
<1>2. IsFiniteSet(times) /\ times # {} /\ times \in SUBSET Nat
  BY <1>1, ImageFinite, TimeFacts
<1> HIDE DEF times
<1>3. Max(times) \in times /\ \A n \in times : n <= Max(times)
  BY <1>2, GreatestNumber
<1>4. PICK q \in S : Max(times) = Time[q]
  BY <1>3 DEF times
<1>5. \A r \in S : Time[r] <= Time[q]
  BY <1>3, <1>4 DEF times
<1>6. CoverageEnd(S) = Time[q] + 1
  BY <1>4 DEF CoverageEnd, times
<1>7. Time[q] \in Nat /\ Time[q] % 2 = 0
  BY TimeFacts
<1>8. (Time[q] + 1) % 2 = 1
  BY <1>7
<1> QED
  BY <1>5, <1>6, <1>7, <1>8, TimeFacts

LEMMA LatestFacts ==
  ASSUME CycleInv
  PROVE  /\ LatestEnd \in Nat /\ LatestEnd \in {runs[i].end : i \in DOMAIN runs} \cup {0}
         /\ \A i \in DOMAIN runs : runs[i].end <= LatestEnd
<1> DEFINE f == [i \in DOMAIN runs |-> runs[i].end]
           ends == {f[i] : i \in DOMAIN runs}
<1>1. \A i \in DOMAIN runs : runs[i].end \in Nat
  BY DEF CycleInv, Shared, RunOK, Run
<1>2. ends = {runs[i].end : i \in DOMAIN runs}
  OBVIOUS
<1>3. IsFiniteSet(ends)
  BY ImageFinite DEF CycleInv, Shared
<1> HIDE DEF ends
<1>4. IsFiniteSet(ends \cup {0}) /\ ends \cup {0} \in SUBSET Nat
  BY <1>1, <1>2, <1>3, FS_AddElement
<1>5. LatestEnd = Max(ends \cup {0})
  BY <1>2 DEF LatestEnd
<1>6. LatestEnd \in ends \cup {0} /\ \A n \in ends \cup {0} : n <= LatestEnd
  BY <1>4, <1>5, GreatestNumber
<1> QED
  BY <1>2, <1>4, <1>6

LEMMA StartFacts ==
  ASSUME CycleInv
  PROVE  /\ CoverageStart \in Nat /\ Baseline <= CoverageStart
         /\ \A i \in DOMAIN runs : runs[i].end <= CoverageStart
         /\ CoverageStart = Baseline \/ \E i \in DOMAIN runs : CoverageStart <= runs[i].end
<1>1. \A i \in DOMAIN runs : runs[i].end \in Nat
  BY DEF CycleInv, Shared, RunOK, Run
<1>2. LatestEnd \in Nat /\ \A i \in DOMAIN runs : runs[i].end <= LatestEnd
  BY LatestFacts
<1>3. /\ CoverageStart \in {Baseline, LatestEnd}
      /\ Baseline <= CoverageStart /\ LatestEnd <= CoverageStart
  <2>1. IsFiniteSet({Baseline, LatestEnd})
    <3>1. {Baseline, LatestEnd} = {Baseline} \cup {LatestEnd}
      OBVIOUS
    <3>2. IsFiniteSet({Baseline})
      BY FS_Singleton
    <3>3. IsFiniteSet({Baseline} \cup {LatestEnd})
      BY <3>2, FS_AddElement
    <3> QED
      BY <3>1, <3>3
  <2>2. {Baseline, LatestEnd} \in SUBSET Nat
    BY <1>2, TimeFacts
  <2> QED
    BY <2>1, <2>2, GreatestNumber DEF CoverageStart
<1>4. LatestEnd = 0 \/ \E i \in DOMAIN runs : LatestEnd = runs[i].end
  BY LatestFacts
<1> QED
  BY <1>1, <1>2, <1>3, <1>4, TimeFacts

\* What is kept is fresh, and of the others nothing is of an earlier second.
LEMMA TrimFacts ==
  ASSUME NEW S \in SUBSET Rewards
  PROVE  /\ Trim(S) \subseteq S
         /\ \A r \in Trim(S), q \in S \ Trim(S) : Time[r] <= Time[q]
  BY TimeFacts DEF Trim, Before

-----------------------------------------------------------------------------
(* Steps.                                                                  *)

LEMMA InitCycle == Init => CycleInv
<1> SUFFICES ASSUME Init
             PROVE  CycleInv
  OBVIOUS
<1> USE DEF Init, LedgerInit
<1>1. Typed
  BY NoRunFacts DEF Typed, CycleSteps, WriterSteps, Processes, NoTarget
<1>2. Shared
  BY FS_EmptySet DEF Shared, OldFirst, LinkedOnceUnlessRacing, CountsWhatItLinks, Covered
<1>3. Distinct /\ \A p \in Processes : Holds(p)
  BY DEF Distinct, Holds
<1>4. Outside
  BY CycleAssumption DEF Outside, Modes, TargetIsCommitted, TargetSet
<1> QED
  BY <1>1, <1>2, <1>3, <1>4 DEF CycleInv

\* What process q is told of a step of another that moves rewards.
Noted(q) ==
    /\ moved[q] \subseteq moved'[q]
    /\ \A r \in Rewards : (r \in reported <=> r \in reported') \/ r \in moved'[q]
    /\ \A i \in DOMAIN runs' \ DOMAIN runs :
          /\ runs'[i].linked \subseteq moved'[q]
          /\ \A r \in Rewards : Time[r] = runs'[i].end => r \in moved'[q]

\* Committed runs stay as they are.
Grows == \A i \in DOMAIN runs : i \in DOMAIN runs' /\ runs'[i] = runs[i]

LEMMA GrowsFacts ==
  ASSUME Grows
  PROVE  /\ Linked \subseteq Linked' /\ (AllAuto' => AllAuto)
         /\ \A d : Reaches(d) => Reaches(d)'
         /\ \A d : Fills(d) => Fills(d)'
<1>1. \A r \in Linked : r \in Linked'
  BY DEF Grows, Linked, LinkedBy
<1>2. AllAuto' => AllAuto
  BY DEF Grows, AllAuto
<1>3. \A d : Reaches(d) => Reaches(d)'
  BY DEF Grows, Reaches
<1>4. \A d : Fills(d) => Fills(d)'
  BY <1>1, <1>2 DEF Fills
<1> QED
  BY <1>1, <1>2, <1>3, <1>4

\* What has moved for q apart, a window has the rewards it had.
LEMMA EligibleStable ==
  ASSUME Grows, NEW q, Noted(q), NEW d \in Run, reported \subseteq Rewards,
         reported' \subseteq Rewards
  PROVE  \A r \in Rewards : (r \in EligibleFor(d) <=> r \in EligibleFor(d)') \/ r \in moved'[q]
<1> SUFFICES ASSUME NEW r \in Rewards, r \notin moved'[q]
             PROVE  r \in EligibleFor(d) <=> r \in EligibleFor(d)'
  OBVIOUS
<1>1. r \in reported <=> r \in reported'
  BY DEF Noted
<1>2. Time[r] \in Nat /\ d.start \in Nat
  BY TimeFacts DEF Run
<1>3. ExcludesStart(d.start) => ExcludesStart(d.start)'
  BY DEF ExcludesStart, Grows
<1>4. ExcludesStart(d.start)' /\ ~ ExcludesStart(d.start) => Time[r] # d.start
  BY DEF ExcludesStart, Grows, Noted
<1> QED
  BY <1>1, <1>2, <1>3, <1>4 DEF EligibleFor, Eligible, InCoverage

LEMMA Bystander ==
  ASSUME Typed, Shared, Shared', NEW q \in Processes, Holds(q), Grows, matured \subseteq matured',
         pc'[q] = pc[q], draft'[q] = draft[q], target'[q] = target[q],
         pc[q] \in Preparing => Noted(q), pc[q] = "written" => target[q] \notin DOMAIN runs'
  PROVE  Holds(q)'
<1> DEFINE d == draft[q]
<1>1. d \in Run
  BY DEF Typed
<1>2. reported \subseteq Rewards /\ reported' \subseteq Rewards
  BY DEF Shared
<1>3. Chosen(d) => Chosen(d)'
  BY GrowsFacts DEF Chosen, Proper
<1>4. pc[q] \in Preparing => moved[q] \subseteq moved'[q]
  BY DEF Noted
<1>5. pc[q] \in Preparing => \A A, B : Apart(d, moved[q], A, B) => Apart(d, moved'[q], A, B)
  BY <1>4 DEF Apart
<1>6. pc[q] \in Preparing =>
        \A r \in Rewards : (r \in EligibleFor(d) <=> r \in EligibleFor(d)') \/ r \in moved'[q]
  BY <1>1, <1>2, EligibleStable
<1>7. pc[q] \in Preparing =>
        /\ Apart(d, moved[q], EligibleFor(d), d.linked) => Apart(d, moved'[q], EligibleFor(d)', d.linked)
        /\ Apart(d, moved[q], d.counted, EligibleFor(d)) => Apart(d, moved'[q], d.counted, EligibleFor(d)')
  BY <1>4, <1>6 DEF Apart
<1>8. CASE pc[q] = "windowed"
  <2>1. \A i \in DOMAIN runs' : runs'[i].end <= d.start \/ runs'[i].linked \subseteq moved'[q]
    BY <1>8 DEF Holds, Noted, Grows, Preparing
  <2> QED
    BY <1>8, <2>1, GrowsFacts DEF Holds
<1>9. CASE pc[q] = "selected"
  BY <1>3, <1>7, <1>9 DEF Holds, Preparing
<1>10. CASE pc[q] = "counted"
  BY <1>3, <1>5, <1>7, <1>10 DEF Holds, Preparing
<1>11. CASE pc[q] = "written"
  <2>1. Inserted(q)'
    BY <1>11 DEF Holds, Inserted, Grows
  <2>2. Proper(d)' <=> Proper(d)
    BY DEF Proper
  <2> QED
    BY <1>3, <1>5, <1>11, <2>1, <2>2 DEF Holds, Preparing
<1>12. CASE pc[q] = "committed"
  BY <1>12 DEF Holds, Grows
<1>13. CASE pc[q] = "scanned"
  BY <1>13 DEF Holds
<1>14. CASE pc[q] \notin Preparing \cup {"committed", "scanned"}
  BY <1>14 DEF Holds, Preparing
<1> QED
  BY <1>8, <1>9, <1>10, <1>11, <1>12, <1>13, <1>14 DEF Preparing

\* A step of p that changes neither rewards nor committed runs.
LEMMA QuietStep ==
  ASSUME CycleInv, NEW p \in Processes, UNCHANGED ledger,
         pc' = [pc EXCEPT ![p] = pc'[p]], pc'[p] \in CycleSteps,
         p \in Writers => pc'[p] \in WriterSteps,
         draft' = [draft EXCEPT ![p] = draft'[p]], draft'[p] \in Run,
         target' = [target EXCEPT ![p] = target'[p]], target'[p] \in Nat,
         moved' = [moved EXCEPT ![p] = moved'[p]], moved'[p] \in SUBSET Rewards,
         pc'[p] = "written" => (target'[p] = target[p] /\ pc[p] = "written") \/ target'[p] = NewId,
         Outside', Holds(p)'
  PROVE  CycleInv'
<1> USE DEF CycleInv, ledger
<1>1. Typed'
  <2>1. pc' \in [Processes -> CycleSteps]
    BY DEF Typed
  <2>2. draft' \in [Processes -> Run] /\ target' \in [Processes -> Nat]
    BY DEF Typed
  <2>3. moved' \in [Processes -> SUBSET Rewards]
    BY DEF Typed
  <2>4. \A w \in Writers : pc'[w] \in WriterSteps
    BY DEF Typed, Processes
  <2> QED
    BY <2>1, <2>2, <2>3, <2>4 DEF Typed
<1>2. Shared'
  BY DEF Shared, OldFirst, RunOK, LinkedOnceUnlessRacing, CountsWhatItLinks, Covered,
    AllAuto, Linked, LinkedBy
<1>3. \A q \in Processes \ {p} : /\ pc'[q] = pc[q] /\ draft'[q] = draft[q]
                                 /\ target'[q] = target[q] /\ moved'[q] = moved[q]
  BY DEF Typed
<1>4. \A q \in Processes : Holds(q)'
  <2>1. ASSUME NEW q \in Processes \ {p}
        PROVE  Holds(q)'
    <3>1. Grows /\ Noted(q)
      BY <1>3 DEF Grows, Noted
    <3>2. pc[q] = "written" => target[q] \notin DOMAIN runs'
      BY DEF Holds, Inserted
    <3> QED
      BY <1>2, <1>3, <3>1, <3>2, Bystander
  <2> QED
    BY <2>1
<1>5. Distinct'
  <2>1. ASSUME NEW q \in Processes \ {p}, pc'[p] = "written", pc'[q] = "written"
        PROVE  target'[p] # target'[q]
    BY <1>3, <2>1, NewIdFacts DEF Distinct
  <2> QED
    BY <1>3, <2>1 DEF Distinct
<1> QED
  BY <1>1, <1>2, <1>4, <1>5

LEMMA TicksAndWriters ==
  /\ Ticks \subseteq Processes /\ Writers \subseteq Processes /\ Timer \in Ticks
  /\ \A p \in Processes : p \in Ticks \/ p \in Writers
  /\ \A p \in Processes : ~ (p \in Ticks /\ p \in Writers)
  BY RewardsAssumption, CycleAssumption DEF Processes

\* Where a process ends, or has nothing yet, nothing has to hold.
Free == {"idle", "load", "restore", "done"}

LEMMA FreeHolds ==
  ASSUME NEW p, pc'[p] \in Free
  PROVE  Holds(p)'
  BY DEF Holds, Free

LEMMA LeaveFacts ==
  ASSUME CycleInv, NEW p \in Processes, NEW step \in Free, Leave(p, step)
  PROVE  /\ pc' = [pc EXCEPT ![p] = pc'[p]] /\ pc'[p] = step
         /\ draft' = [draft EXCEPT ![p] = draft'[p]] /\ draft'[p] \in Run
         /\ target' = [target EXCEPT ![p] = target'[p]] /\ target'[p] \in Nat
         /\ moved' = [moved EXCEPT ![p] = moved'[p]] /\ moved'[p] \in SUBSET Rewards
         /\ Holds(p)'
<1>1. /\ pc'[p] = step /\ draft'[p] = NoRun /\ target'[p] = 0 /\ moved'[p] = {}
  BY DEF Leave, Goto, CycleInv, Typed, NoTarget
<1>2. NoRun \in Run
  BY NoRunFacts
<1>3. pc' = [pc EXCEPT ![p] = pc'[p]] /\ draft' = [draft EXCEPT ![p] = draft'[p]]
  BY <1>1 DEF Leave, Goto
<1>4. target' = [target EXCEPT ![p] = target'[p]] /\ moved' = [moved EXCEPT ![p] = moved'[p]]
  BY <1>1 DEF Leave, NoTarget
<1> QED
  BY <1>1, <1>2, <1>3, <1>4, FreeHolds

\* Ticks and drafts that end, and what ends before it prepares a run.
LEMMA LeavingKeeps ==
  ASSUME CycleInv, NEW p \in Processes,
         p \in Ticks => \/ SafeSkip(p) \/ Refuse(p) \/ TickDies(p),
         p \in Writers => RefuseDuplicate(p) /\ UNCHANGED cycle
  PROVE  CycleInv'
<1>1. Outside'
  <2>1. runs' = runs /\ env' = env /\ mode' = mode /\ paid' = paid
    BY TicksAndWriters DEF SafeSkip, Refuse, TickDies, RefuseDuplicate, ledger, cycle
  <2>2. interrupted' \subseteq DOMAIN runs /\ faults' \in 0 .. MaxFaults
    <3>1. CASE p \in Ticks /\ TickDies(p)
      BY <3>1, CycleAssumption DEF TickDies, CycleInv, Outside, Holds
    <3>2. CASE ~ (p \in Ticks /\ TickDies(p))
      BY <3>2, TicksAndWriters DEF SafeSkip, Refuse, RefuseDuplicate, cycle, CycleInv, Outside
    <3> QED
      BY <3>1, <3>2
  <2> QED
    BY <2>1, <2>2 DEF CycleInv, Outside, TargetIsCommitted, TargetSet
<1>2. UNCHANGED ledger
  BY TicksAndWriters DEF SafeSkip, Refuse, TickDies, RefuseDuplicate
<1>3. PICK step \in Free : Leave(p, step) /\ (p \in Writers => step = "done")
  <2>1. CASE p \in Ticks
    <3>1. p \notin Writers
      BY <2>1, TicksAndWriters
    <3> QED
      BY <2>1, <3>1 DEF SafeSkip, Refuse, TickDies, Free, Ended
  <2>2. CASE p \in Writers
    BY <2>2 DEF RefuseDuplicate, Free
  <2> QED
    BY <2>1, <2>2, TicksAndWriters
<1>4. step \in CycleSteps /\ step # "written" /\ (p \in Writers => step \in WriterSteps)
  BY <1>3 DEF Free, CycleSteps, WriterSteps
<1> QED
  BY <1>1, <1>2, <1>3, <1>4, LeaveFacts, QuietStep

LEMMA StartKeeps ==
  ASSUME CycleInv, NEW t \in Ticks, NEW m \in Modes, StartTick(t, m)
  PROVE  CycleInv'
<1> DEFINE d == [NoRun EXCEPT !.counted = matured]
<1>1. t \in Processes /\ t \notin Writers
  BY TicksAndWriters
<1>2. matured \in SUBSET Rewards /\ OldFirst(matured)
  BY DEF CycleInv, Shared
<1>3. d \in Run /\ d.counted = matured
  BY <1>2, NoRunFacts
<1>4. /\ draft' = [draft EXCEPT ![t] = d] /\ pc' = [pc EXCEPT ![t] = "scanned"]
      /\ UNCHANGED <<ledger, target, moved, paid, interrupted, env, balance, faults>>
      /\ mode' = [mode EXCEPT ![t] = m]
  BY DEF StartTick, ScanReads, RewardsOfWallet, Goto
<1> HIDE DEF d
<1>5. draft'[t] = d /\ pc'[t] = "scanned" /\ target'[t] = target[t] /\ moved'[t] = moved[t]
  BY <1>1, <1>4 DEF CycleInv, Typed
<1>6. Outside'
  BY <1>4 DEF CycleInv, Outside, TargetIsCommitted, TargetSet, ledger
<1>7. Holds(t)'
  BY <1>2, <1>3, <1>4, <1>5 DEF Holds, ledger, OldFirst
<1>8. target[t] \in Nat /\ moved[t] \in SUBSET Rewards /\ "scanned" \in CycleSteps
      /\ target' = [target EXCEPT ![t] = target'[t]] /\ moved' = [moved EXCEPT ![t] = moved'[t]]
  BY <1>1, <1>4 DEF CycleInv, Typed, CycleSteps
<1> QED
  BY <1>1, <1>3, <1>4, <1>5, <1>6, <1>7, <1>8, QuietStep

LEMMA CycleSame ==
  ASSUME CycleInv, UNCHANGED <<ledger, cycle>>
  PROVE  Outside'
  BY DEF CycleInv, Outside, TargetIsCommitted, TargetSet, ledger, cycle

LEMMA LoadKeeps ==
  ASSUME CycleInv, NEW t \in Ticks, LoadLatestEnd(t)
  PROVE  CycleInv'
<1>1. t \in Processes /\ t \notin Writers
  BY TicksAndWriters
<1>2. PICK d \in Run : /\ d.start = CoverageStart /\ d.auto = TRUE
                       /\ draft' = [draft EXCEPT ![t] = d]
  BY NoRunFacts, StartFacts DEF LoadLatestEnd
<1>3. /\ pc' = [pc EXCEPT ![t] = "windowed"] /\ moved' = [moved EXCEPT ![t] = {}]
      /\ UNCHANGED <<ledger, target, cycle>>
  BY DEF LoadLatestEnd, Goto
<1>4. draft'[t] = d /\ pc'[t] = "windowed" /\ moved'[t] = {} /\ target'[t] = target[t]
  BY <1>1, <1>2, <1>3 DEF CycleInv, Typed
<1>5. Holds(t)'
  <2>1. /\ Baseline <= d.start /\ \A i \in DOMAIN runs : runs[i].end <= d.start
        /\ Reaches(d)
    BY <1>2, StartFacts DEF Reaches
  <2>2. runs' = runs
    BY <1>3 DEF ledger
  <2>3. Reaches(d)'
    BY <2>1, <2>2 DEF Reaches
  <2> QED
    BY <1>2, <1>4, <2>1, <2>2, <2>3 DEF Holds
<1>6. /\ target[t] \in Nat /\ "windowed" \in CycleSteps
      /\ target' = [target EXCEPT ![t] = target'[t]]
  BY <1>1, <1>3 DEF CycleInv, Typed, CycleSteps
<1> QED
  BY <1>1, <1>2, <1>3, <1>4, <1>5, <1>6, CycleSame, QuietStep

\* What is kept of a fresh selection, over the window it gives.
LEMMA SelectionFacts ==
  ASSUME CycleInv, NEW t \in Ticks, pc[t] = "windowed",
         NEW kept, kept = Trim(Fresh(draft[t].start)), kept # {},
         NEW d \in Run, d.linked = kept, d.end = CoverageEnd(kept), d.start = draft[t].start,
         d.auto = draft[t].auto
  PROVE  Chosen(d) /\ Apart(d, moved[t], EligibleFor(d), d.linked)
<1> DEFINE start == draft[t].start
           fresh == Fresh(start)
<1>1. /\ d.auto /\ Reaches(draft[t]) /\ Baseline <= start
      /\ \A i \in DOMAIN runs : runs[i].end <= start \/ runs[i].linked \subseteq moved[t]
  BY TicksAndWriters DEF CycleInv, Holds
<1>2. start \in Nat /\ d.end \in Nat
  BY TicksAndWriters DEF CycleInv, Typed, Run
<1>3. fresh \subseteq reported /\ reported \subseteq Rewards /\ fresh \in SUBSET Rewards
  BY DEF Fresh, Unlinked, CycleInv, Shared
<1>4. kept \subseteq fresh /\ \A r \in kept, q \in fresh \ kept : Time[r] <= Time[q]
  BY <1>3, TrimFacts
<1>5. /\ d.end % 2 = 1 /\ \A r \in kept : Time[r] < d.end
      /\ \E q \in kept : d.end = Time[q] + 1
  BY <1>3, <1>4, EndFacts
<1>6. PICK last \in kept : d.end = Time[last] + 1
  BY <1>5
<1>7. \A r \in Rewards : Time[r] \in Nat
  BY TimeFacts
<1>8. \A r \in fresh : start <= Time[r]
  BY <1>2, <1>3, <1>7 DEF Fresh, IsFresh
<1>9. Proper(d)
  BY <1>2, <1>3, <1>4, <1>5, <1>6, <1>7, <1>8 DEF Proper
<1>10. \A r \in fresh : Time[r] < d.end => r \in kept \/ (Time[r] = Time[last] /\ r # last)
  BY <1>2, <1>3, <1>4, <1>6, <1>7
<1>11. Fills(d)
  <2> SUFFICES ASSUME AllAuto, NEW r \in Rewards, start <= Time[r], Time[r] < d.end
               PROVE  \E q \in kept \cup Linked : Time[q] = Time[r]
    BY DEF Fills
  <2>1. CASE Time[r] = Time[last]
    BY <2>1
  <2>2. CASE Time[r] # Time[last]
    <3>1. r \in reported
      <4>1. Time[r] < Time[last] /\ last \in reported
        BY <1>3, <1>4, <1>6, <1>7, <2>2
      <4> QED
        BY <4>1 DEF CycleInv, Shared, OldFirst
    <3>2. IsFresh(r, start)
      <4>1. ExcludesStart(start) => Time[r] # start
        <5>1. \A i \in DOMAIN runs : runs[i].end % 2 = 1
          BY DEF AllAuto, CycleInv, Shared, RunOK
        <5> QED
          BY <5>1, TimeFacts DEF ExcludesStart
      <4> QED
        BY <1>2, <1>7, <4>1 DEF IsFresh
    <3>3. r \in Linked \/ r \in fresh
      BY <3>1, <3>2 DEF Fresh, Unlinked
    <3> QED
      BY <1>10, <2>2, <3>3
  <2> QED
    BY <2>1, <2>2
<1>12. Apart(d, moved[t], EligibleFor(d), d.linked)
  <2> SUFFICES ASSUME NEW r \in Rewards, r \notin moved[t]
               PROVE  \/ r \in EligibleFor(d) <=> r \in kept
                      \/ \E q \in kept : q # r /\ Time[q] = Time[r]
    BY <1>1 DEF Apart
  <2>1. r \in EligibleFor(d) <=> r \in reported /\ IsFresh(r, start) /\ Time[r] < d.end
    BY <1>2, <1>7 DEF EligibleFor, Eligible, InCoverage, IsFresh
  <2>2. CASE r \in kept
    <3>1. r \in reported /\ IsFresh(r, start) /\ Time[r] < d.end
      BY <1>4, <1>5, <2>2 DEF Fresh, Unlinked
    <3> QED
      BY <2>1, <2>2, <3>1
  <2>3. CASE r \in EligibleFor(d) /\ r \notin kept
    <3>1. r \notin Linked
      <4>1. ASSUME NEW i \in DOMAIN runs, r \in runs[i].linked
            PROVE  FALSE
        <5>1. runs[i].end <= start /\ Time[r] < runs[i].end /\ runs[i].end \in Nat
          BY <1>1, <4>1 DEF CycleInv, Shared, RunOK, Run
        <5>2. start <= Time[r]
          BY <1>2, <1>7, <2>1, <2>3 DEF IsFresh
        <5> QED
          BY <1>2, <1>7, <5>1, <5>2
      <4> QED
        BY <4>1 DEF Linked, LinkedBy
    <3>2. r \in fresh
      BY <2>1, <2>3, <3>1 DEF Fresh, Unlinked
    <3> QED
      BY <1>10, <2>1, <2>3, <3>2
  <2> QED
    BY <2>2, <2>3
<1>13. Reaches(d)
  BY <1>1 DEF Reaches
<1> QED
  BY <1>1, <1>5, <1>9, <1>11, <1>12, <1>13 DEF Chosen

LEMMA SelectKeeps ==
  ASSUME CycleInv, NEW t \in Ticks, LoadSelection(t)
  PROVE  CycleInv'
<1> DEFINE fresh == Fresh(draft[t].start)
           kept == Trim(fresh)
<1>1. t \in Processes /\ t \notin Writers
  BY TicksAndWriters
<1>2. kept \in SUBSET Rewards /\ kept # {}
  <2>1. fresh \in SUBSET Rewards
    BY DEF Fresh, Unlinked, CycleInv, Shared
  <2> HIDE DEF fresh
  <2>2. kept \subseteq fresh
    BY <2>1, TrimFacts
  <2>3. kept # {}
    BY DEF LoadSelection, fresh
  <2> QED
    BY <2>1, <2>2, <2>3
<1>3. draft[t] \in Run /\ pc[t] = "windowed" /\ CoverageEnd(kept) \in Nat
  BY <1>1, <1>2, EndFacts DEF CycleInv, Typed, LoadSelection
<1>4. /\ draft' = [draft EXCEPT ![t] = [draft[t] EXCEPT !.linked = kept, !.end = CoverageEnd(kept)]]
      /\ pc' = [pc EXCEPT ![t] = "selected"] /\ UNCHANGED <<ledger, target, moved, cycle>>
  BY <1>1 DEF LoadSelection, Goto, TrimmedEnd, CycleInv, Typed
<1>5. PICK d \in Run : /\ d.linked = kept /\ d.end = CoverageEnd(kept)
                       /\ d.start = draft[t].start /\ d.auto = draft[t].auto
                       /\ draft' = [draft EXCEPT ![t] = d]
  <2> DEFINE e == [draft[t] EXCEPT !.linked = kept, !.end = CoverageEnd(kept)]
  <2>1. draft' = [draft EXCEPT ![t] = e]
    BY <1>4
  <2>2. e \in Run /\ e.linked = kept /\ e.end = CoverageEnd(kept)
        /\ e.start = draft[t].start /\ e.auto = draft[t].auto
    <3> HIDE DEF kept
    <3> QED
      BY <1>2, <1>3 DEF e, Run
  <2> HIDE DEF e, kept
  <2> QED
    BY <2>1, <2>2
<1>6. Chosen(d) /\ Apart(d, moved[t], EligibleFor(d), d.linked)
  BY <1>2, <1>3, <1>5, SelectionFacts
<1> HIDE DEF kept
<1>7. draft'[t] = d /\ pc'[t] = "selected" /\ moved'[t] = moved[t] /\ target'[t] = target[t]
  BY <1>1, <1>4, <1>5 DEF CycleInv, Typed
<1>8. Holds(t)'
  <2>1. Chosen(d)'
    BY <1>4, <1>6 DEF Chosen, Reaches, Fills, Proper, AllAuto, Linked, LinkedBy, ledger
  <2>2. EligibleFor(d)' = EligibleFor(d)
    BY <1>4 DEF EligibleFor, Eligible, ExcludesStart, InCoverage, ledger
  <2>3. Apart(d, moved[t], EligibleFor(d)', d.linked)
    BY <1>6, <2>2 DEF Apart
  <2> QED
    BY <1>7, <2>1, <2>3 DEF Holds
<1>9. /\ target[t] \in Nat /\ moved[t] \in SUBSET Rewards /\ "selected" \in CycleSteps
      /\ target' = [target EXCEPT ![t] = target'[t]] /\ moved' = [moved EXCEPT ![t] = moved'[t]]
  BY <1>1, <1>4 DEF CycleInv, Typed, CycleSteps
<1> QED
  BY <1>1, <1>4, <1>5, <1>7, <1>8, <1>9, CycleSame, QuietStep

LEMMA PreviewCreditKeeps ==
  ASSUME CycleInv, NEW t \in Ticks, LoadCreditPreview(t)
  PROVE  CycleInv'
<1>1. t \in Processes /\ t \notin Writers
  BY TicksAndWriters
<1>2. /\ pc[t] = "selected" /\ draft[t] \in Run /\ target[t] \in Nat
      /\ moved[t] \in SUBSET Rewards /\ reported \subseteq Rewards
  BY <1>1 DEF LoadCreditPreview, CycleInv, Typed, Shared
<1>3. UNCHANGED <<ledger, cycle>>
  BY DEF LoadCreditPreview
<1>4. "committed" \in CycleSteps /\ "counted" \in CycleSteps
  BY DEF CycleSteps
<1>5. CASE SameWindow(t) # {}
  <2> DEFINE i == Max(SameWindow(t))
  <2>1. i \in SameWindow(t)
    <3>1. SameWindow(t) \in SUBSET DOMAIN runs /\ IsFiniteSet(DOMAIN runs)
      BY DEF SameWindow, CycleInv, Shared
    <3>2. SameWindow(t) \in SUBSET Nat
      BY <3>1 DEF CycleInv, Shared, RunOK
    <3>3. IsFiniteSet(SameWindow(t))
      BY <3>1, FS_Subset
    <3> QED
      BY <1>5, <3>2, <3>3, GreatestNumber
  <2> HIDE DEF i
  <2>2. i \in DOMAIN runs /\ runs[i].auto /\ i \in Nat
    BY <2>1 DEF SameWindow, CycleInv, Shared, RunOK
  <2>3. /\ draft' = [draft EXCEPT ![t] = NoRun] /\ pc' = [pc EXCEPT ![t] = "committed"]
        /\ target' = [target EXCEPT ![t] = i] /\ moved' = [moved EXCEPT ![t] = {}]
    BY <1>5 DEF LoadCreditPreview, Goto, i
  <2>4. draft'[t] = NoRun /\ pc'[t] = "committed" /\ moved'[t] = {} /\ target'[t] = i
    BY <1>1, <2>3 DEF CycleInv, Typed
  <2>5. Holds(t)'
    BY <1>3, <2>2, <2>4 DEF Holds, ledger
  <2> QED
    BY <1>1, <1>3, <1>4, <2>2, <2>3, <2>4, <2>5, NoRunFacts, CycleSame, QuietStep
<1>6. CASE SameWindow(t) = {}
  <2>1. EligibleFor(draft[t]) \in SUBSET Rewards
    BY <1>2 DEF EligibleFor, Eligible
  <2>2. PICK d \in Run : /\ d.counted = EligibleFor(draft[t]) /\ d.linked = draft[t].linked
                         /\ d.start = draft[t].start /\ d.end = draft[t].end
                         /\ d.auto = draft[t].auto /\ draft' = [draft EXCEPT ![t] = d]
    <3> DEFINE e == [draft[t] EXCEPT !.counted = EligibleFor(draft[t])]
    <3>1. draft' = [draft EXCEPT ![t] = e]
      BY <1>1, <1>6 DEF LoadCreditPreview, EligibleFor, CycleInv, Typed
    <3>2. /\ e \in Run /\ e.counted = EligibleFor(draft[t]) /\ e.linked = draft[t].linked
          /\ e.start = draft[t].start /\ e.end = draft[t].end /\ e.auto = draft[t].auto
      BY <1>2, <2>1 DEF e, Run
    <3> HIDE DEF e
    <3> QED
      BY <3>1, <3>2
  <2>3. pc' = [pc EXCEPT ![t] = "counted"] /\ UNCHANGED <<target, moved>>
    BY <1>6 DEF LoadCreditPreview, Goto
  <2>4. draft'[t] = d /\ pc'[t] = "counted" /\ moved'[t] = moved[t] /\ target'[t] = target[t]
    BY <1>1, <2>2, <2>3 DEF CycleInv, Typed
  <2>5. Chosen(d)'
    <3>1. Chosen(draft[t])
      BY <1>1, <1>2 DEF CycleInv, Holds
    <3> QED
      BY <1>3, <2>2, <3>1 DEF Chosen, Reaches, Fills, Proper, AllAuto, Linked, LinkedBy, ledger
  <2>6. Apart(d, moved[t], d.counted, d.linked)
    BY <1>1, <1>2, <2>2 DEF CycleInv, Holds, Apart
  <2>7. Holds(t)'
    BY <2>4, <2>5, <2>6 DEF Holds
  <2>8. target' = [target EXCEPT ![t] = target'[t]] /\ moved' = [moved EXCEPT ![t] = moved'[t]]
    BY <1>1, <2>3 DEF CycleInv, Typed
  <2> QED
    BY <1>1, <1>2, <1>3, <1>4, <2>2, <2>3, <2>4, <2>7, <2>8, CycleSame, QuietStep
<1> QED
  BY <1>5, <1>6

LEMMA WriteCreditKeeps ==
  ASSUME CycleInv, NEW t \in Ticks, WriteCreditRun(t)
  PROVE  CycleInv'
<1>1. t \in Processes /\ t \notin Writers
  BY TicksAndWriters
<1>2. /\ pc[t] = "counted" /\ draft[t] \in Run /\ moved[t] \in SUBSET Rewards
      /\ DOMAIN runs \in SUBSET Nat
  BY <1>1 DEF WriteCreditRun, CycleInv, Typed, Shared, RunOK
<1>3. UNCHANGED <<ledger, moved, cycle>> /\ pc' = [pc EXCEPT ![t] = "written"]
      /\ target' = [target EXCEPT ![t] = NewId]
  BY DEF WriteCreditRun, Goto
<1>4. PICK d \in Run : /\ d.saw = DOMAIN runs /\ d.counted = draft[t].counted
                       /\ d.linked = draft[t].linked /\ d.start = draft[t].start
                       /\ d.end = draft[t].end /\ d.auto = draft[t].auto
                       /\ draft' = [draft EXCEPT ![t] = d]
  <2> DEFINE e == [draft[t] EXCEPT !.saw = DOMAIN runs]
  <2>1. draft' = [draft EXCEPT ![t] = e]
    BY <1>1 DEF WriteCreditRun, CycleInv, Typed
  <2>2. /\ e \in Run /\ e.saw = DOMAIN runs /\ e.linked = draft[t].linked
        /\ e.start = draft[t].start /\ e.end = draft[t].end /\ e.auto = draft[t].auto
        /\ e.counted = draft[t].counted
    BY <1>2 DEF e, Run
  <2> HIDE DEF e
  <2> QED
    BY <2>1, <2>2
<1>5. NewId \in Nat \ {0} /\ NewId \notin DOMAIN runs
  BY NewIdFacts
<1>6. draft'[t] = d /\ pc'[t] = "written" /\ moved'[t] = moved[t] /\ target'[t] = NewId
  BY <1>1, <1>3, <1>4 DEF CycleInv, Typed
<1>7. Chosen(draft[t]) /\ Apart(draft[t], moved[t], draft[t].counted, draft[t].linked)
  BY <1>1, <1>2 DEF CycleInv, Holds
<1>8. Chosen(d)'
  BY <1>3, <1>4, <1>7 DEF Chosen, Reaches, Fills, Proper, AllAuto, Linked, LinkedBy, ledger
<1>9. Apart(d, moved[t], d.counted, d.linked)
  BY <1>4, <1>7 DEF Apart
<1>10. Inserted(t)'
  <2>1. \A j \in DOMAIN runs : runs[j].linked \cap d.linked = {}
    BY <1>4 DEF WriteCreditRun, AlreadyLinked, Linked, LinkedBy
  <2>2. runs' = runs
    BY <1>3 DEF ledger
  <2> QED
    BY <1>4, <1>5, <1>6, <2>1, <2>2 DEF Inserted
<1>11. Holds(t)'
  <2>1. Proper(d)
    BY <1>4, <1>7 DEF Chosen, Proper
  <2>2. d.auto
    BY <1>4, <1>7 DEF Chosen
  <2> QED
    BY <1>6, <1>8, <1>9, <1>10, <2>1, <2>2 DEF Holds, Proper
<1>12. "written" \in CycleSteps /\ moved' = [moved EXCEPT ![t] = moved'[t]]
  BY <1>1, <1>3 DEF CycleInv, Typed, CycleSteps
<1> QED
  BY <1>1, <1>2, <1>3, <1>4, <1>5, <1>6, <1>11, <1>12, CycleSame, QuietStep

\* A committed plan is named to the scheduler, paid, or left to an operator; the
\* scheduler is made safe.
LEMMA TargetKeeps ==
  ASSUME CycleInv, NEW t \in Ticks,
         \/ PublishTarget(t) \/ RunnerReplays(t) \/ RunnerPays(t) \/ RunnerFails(t)
         \/ RestoreScheduler(t)
  PROVE  CycleInv'
<1>1. t \in Processes /\ t \notin Writers
  BY TicksAndWriters
<1>2. pc[t] = "committed" => target[t] \in DOMAIN runs /\ runs[target[t]].auto
  BY <1>1 DEF CycleInv, Holds
<1>3. UNCHANGED <<ledger, draft, moved, mode, balance>>
  BY DEF PublishTarget, RunnerReplays, RunnerPays, RunnerFails, RestoreScheduler, cycle
<1>4. PICK step \in Free : pc' = [pc EXCEPT ![t] = step]
  BY DEF PublishTarget, RunnerReplays, RunnerPays, RunnerFails, RestoreScheduler, Goto, Ended, Free
<1>5. target' = target \/ target' = [target EXCEPT ![t] = 0]
  BY DEF PublishTarget, RunnerReplays, RunnerPays, RunnerFails, RestoreScheduler, NoTarget
<1>6. Outside'
  <2>1. runs' = runs
    BY <1>3 DEF ledger
  <2>2. paid' \subseteq DOMAIN runs
    BY <1>2 DEF PublishTarget, RunnerReplays, RunnerPays, RunnerFails, RestoreScheduler, cycle,
      CycleInv, Outside
  <2>3. interrupted' \subseteq DOMAIN runs
    BY <1>2 DEF PublishTarget, RunnerReplays, RunnerPays, RunnerFails, RestoreScheduler, cycle,
      CycleInv, Outside
  <2>4. faults' \in 0 .. MaxFaults
    BY CycleAssumption DEF PublishTarget, RunnerReplays, RunnerPays, RunnerFails,
      RestoreScheduler, cycle, CycleInv, Outside
  <2>5. env' # NoTarget => env' \in DOMAIN runs /\ runs[env'].auto
    BY <1>2 DEF PublishTarget, RunnerReplays, RunnerPays, RunnerFails, RestoreScheduler, cycle,
      WriteEnv, CycleInv, Outside, TargetIsCommitted, TargetSet
  <2>6. mode' \in [Ticks -> Modes]
    BY <1>3 DEF CycleInv, Outside
  <2> QED
    BY <2>1, <2>2, <2>3, <2>4, <2>5, <2>6 DEF Outside, TargetIsCommitted, TargetSet
<1>7. pc'[t] = step /\ step \in CycleSteps /\ step # "written"
  BY <1>1, <1>4 DEF CycleInv, Typed, Free, CycleSteps
<1>8. Holds(t)'
  BY <1>7, FreeHolds
<1>9. target'[t] \in Nat /\ target' = [target EXCEPT ![t] = target'[t]]
  BY <1>1, <1>5 DEF CycleInv, Typed
<1>10. /\ draft[t] \in Run /\ moved[t] \in SUBSET Rewards /\ draft'[t] = draft[t]
       /\ moved'[t] = moved[t] /\ draft' = [draft EXCEPT ![t] = draft'[t]]
       /\ moved' = [moved EXCEPT ![t] = moved'[t]]
  BY <1>1, <1>3 DEF CycleInv, Typed
<1> QED
  BY <1>1, <1>3, <1>4, <1>6, <1>7, <1>8, <1>9, <1>10, QuietStep

LEMMA PreviewKeeps ==
  ASSUME CycleInv, NEW p \in Writers, NEW w \in Windows, Preview(p, w), UNCHANGED cycle
  PROVE  CycleInv'
<1>1. p \in Processes /\ p \notin Ticks
  BY TicksAndWriters
<1> DEFINE counted == Eligible(w.start, w.end, ExcludesStart(w.start))
<1>2. counted \in SUBSET Rewards /\ w.start \in Nat /\ w.end \in Nat
  BY RewardsAssumption DEF Eligible, CycleInv, Shared
<1>3. /\ draft' = [draft EXCEPT ![p] = [NoRun EXCEPT !.start = w.start, !.end = w.end,
                                                     !.counted = counted]]
      /\ pc' = [pc EXCEPT ![p] = "counted"] /\ UNCHANGED <<ledger, target, moved>>
      /\ w.start < w.end
  BY DEF Preview, Goto, ValidWindow
<1>4. PICK d \in Run : /\ d.start = w.start /\ d.end = w.end /\ d.counted = counted
                       /\ d.auto = FALSE /\ d.linked = {} /\ draft' = [draft EXCEPT ![p] = d]
  <2> HIDE DEF counted
  <2> DEFINE e == [NoRun EXCEPT !.start = w.start, !.end = w.end, !.counted = counted]
  <2>1. draft' = [draft EXCEPT ![p] = e]
    BY <1>3
  <2>2. /\ e \in Run /\ e.start = w.start /\ e.end = w.end /\ e.counted = counted
        /\ e.auto = FALSE /\ e.linked = {}
    BY <1>2 DEF e, Run, NoRun
  <2> HIDE DEF e
  <2> QED
    BY <2>1, <2>2
<1>5. draft'[p] = d /\ pc'[p] = "counted" /\ moved'[p] = moved[p] /\ target'[p] = target[p]
  BY <1>1, <1>3, <1>4 DEF CycleInv, Typed
<1>6. Holds(p)'
  <2>1. EligibleFor(d)' = d.counted
    BY <1>3, <1>4 DEF EligibleFor, Eligible, ExcludesStart, InCoverage, ledger
  <2>2. Apart(d, moved[p], d.counted, EligibleFor(d)')
    BY <2>1 DEF Apart
  <2> QED
    BY <1>1, <1>3, <1>4, <1>5, <2>2 DEF Holds
<1>7. /\ target[p] \in Nat /\ moved[p] \in SUBSET Rewards
      /\ target' = [target EXCEPT ![p] = target'[p]] /\ moved' = [moved EXCEPT ![p] = moved'[p]]
  BY <1>1, <1>3 DEF CycleInv, Typed
<1>8. "counted" \in CycleSteps /\ "counted" \in WriterSteps
  BY DEF CycleSteps, WriterSteps
<1> QED
  BY <1>1, <1>3, <1>4, <1>5, <1>6, <1>7, <1>8, CycleSame, QuietStep

LEMMA CheckKeeps ==
  ASSUME CycleInv, NEW p \in Writers, CheckLinks(p), UNCHANGED cycle
  PROVE  CycleInv'
<1>1. p \in Processes /\ p \notin Ticks
  BY TicksAndWriters
<1> DEFINE linked == EligibleFor(draft[p])
<1>2. /\ pc[p] = "counted" /\ draft[p] \in Run /\ moved[p] \in SUBSET Rewards
      /\ DOMAIN runs \in SUBSET Nat /\ linked \in SUBSET Rewards
  BY <1>1 DEF CheckLinks, CycleInv, Typed, Shared, RunOK, EligibleFor, Eligible
<1>3. /\ UNCHANGED <<ledger, moved>> /\ pc' = [pc EXCEPT ![p] = "written"]
      /\ target' = [target EXCEPT ![p] = NewId]
  BY DEF CheckLinks, Goto
<1>4. PICK d \in Run : /\ d.saw = DOMAIN runs /\ d.counted = draft[p].counted
                       /\ d.linked = linked /\ d.start = draft[p].start
                       /\ d.end = draft[p].end /\ d.auto = draft[p].auto
                       /\ draft' = [draft EXCEPT ![p] = d]
  <2> DEFINE e == [draft[p] EXCEPT !.linked = linked, !.saw = DOMAIN runs]
  <2>1. draft' = [draft EXCEPT ![p] = e]
    BY <1>1 DEF CheckLinks, SecondRead, EligibleFor, CycleInv, Typed
  <2> HIDE DEF linked
  <2>2. /\ e \in Run /\ e.saw = DOMAIN runs /\ e.linked = linked
        /\ e.start = draft[p].start /\ e.end = draft[p].end /\ e.auto = draft[p].auto
        /\ e.counted = draft[p].counted
    BY <1>2 DEF e, Run
  <2> HIDE DEF e
  <2> QED
    BY <2>1, <2>2
<1>5. NewId \in Nat \ {0} /\ NewId \notin DOMAIN runs
  BY NewIdFacts
<1>6. draft'[p] = d /\ pc'[p] = "written" /\ moved'[p] = moved[p] /\ target'[p] = NewId
  BY <1>1, <1>3, <1>4 DEF CycleInv, Typed
<1>7. /\ ~ draft[p].auto /\ draft[p].start < draft[p].end
      /\ Apart(draft[p], moved[p], draft[p].counted, linked)
  BY <1>1, <1>2 DEF CycleInv, Holds
<1>8. Proper(d)
  <2>1. \A r \in linked : Time[r] < draft[p].end
    BY DEF EligibleFor, Eligible, InCoverage
  <2> QED
    BY <1>4, <1>7, <2>1 DEF Proper
<1>9. Apart(d, moved[p], d.counted, d.linked)
  BY <1>4, <1>7 DEF Apart
<1>10. Inserted(p)'
  <2>1. \A j \in DOMAIN runs : runs[j].linked \cap d.linked = {}
    BY <1>4 DEF CheckLinks, SecondRead, EligibleFor, AlreadyLinked, Linked, LinkedBy
  <2>2. runs' = runs
    BY <1>3 DEF ledger
  <2> QED
    BY <1>4, <1>5, <1>6, <2>1, <2>2 DEF Inserted
<1>11. Holds(p)'
  BY <1>1, <1>4, <1>6, <1>7, <1>8, <1>9, <1>10 DEF Holds, Proper
<1>12. /\ "written" \in CycleSteps /\ "written" \in WriterSteps
       /\ moved' = [moved EXCEPT ![p] = moved'[p]]
  BY <1>1, <1>3 DEF CycleInv, Typed, CycleSteps, WriterSteps
<1> QED
  BY <1>1, <1>2, <1>3, <1>4, <1>5, <1>6, <1>11, <1>12, CycleSame, QuietStep

LEMMA ScanKeeps ==
  ASSUME CycleInv, NEW t \in Ticks, ScanWrites(t), UNCHANGED cycle
  PROVE  CycleInv'
<1> DEFINE rows == draft[t].counted
           change == (reported \ rows) \cup (rows \ reported)
<1>1. t \in Processes /\ t \notin Writers
  BY TicksAndWriters
<1>2. rows \subseteq matured /\ OldFirst(rows) /\ matured \subseteq Rewards /\ reported \subseteq matured
  BY <1>1 DEF CycleInv, Holds, ScanWrites, Shared
<1>3. /\ reported' = rows /\ moved' = Moved(t, change) /\ UNCHANGED <<matured, runs, target>>
      /\ draft' = [draft EXCEPT ![t] = NoRun] /\ pc' = [pc EXCEPT ![t] = "load"]
  BY DEF ScanWrites, Upsert, Goto
<1>4. /\ moved'[t] = {} /\ pc'[t] = "load"
      /\ \A q \in Processes \ {t} :
           /\ moved'[q] = IF pc[q] \in Preparing THEN moved[q] \cup change ELSE moved[q]
           /\ pc'[q] = pc[q] /\ draft'[q] = draft[q] /\ target'[q] = target[q]
  BY <1>1, <1>3 DEF Moved, CycleInv, Typed
<1>5. Shared'
  <2>1. OldFirst(reported)' /\ OldFirst(matured)'
    BY <1>2, <1>3 DEF OldFirst, CycleInv, Shared
  <2>2. reported' \subseteq matured' /\ matured' \subseteq Rewards
    BY <1>2, <1>3
  <2> QED
    BY <1>3, <2>1, <2>2 DEF CycleInv, Shared, RunOK, LinkedOnceUnlessRacing, CountsWhatItLinks,
      Covered, AllAuto, Linked, LinkedBy
<1>6. Typed'
  <2>1. change \in SUBSET Rewards
    BY <1>2
  <2> HIDE DEF change
  <2>2. moved' \in [Processes -> SUBSET Rewards]
    BY <1>3, <2>1 DEF Moved, CycleInv, Typed
  <2>3. draft' \in [Processes -> Run]
    BY <1>3, NoRunFacts DEF CycleInv, Typed
  <2>4. pc' \in [Processes -> CycleSteps] /\ \A p \in Writers : pc'[p] \in WriterSteps
    BY <1>1, <1>3 DEF CycleInv, Typed, CycleSteps
  <2> QED
    BY <1>3, <2>2, <2>3, <2>4 DEF CycleInv, Typed
<1>7. \A p \in Processes : Holds(p)'
  <2>1. Holds(t)'
    BY <1>4, FreeHolds DEF Free
  <2>2. ASSUME NEW q \in Processes \ {t}
        PROVE  Holds(q)'
    <3>1. Grows
      BY <1>3 DEF Grows
    <3>2. pc[q] \in Preparing => Noted(q)
      BY <1>3, <1>4 DEF Noted
    <3>3. pc[q] = "written" => target[q] \notin DOMAIN runs'
      BY <1>3 DEF CycleInv, Holds, Inserted
    <3> QED
      BY <1>3, <1>4, <1>5, <3>1, <3>2, <3>3, Bystander DEF CycleInv
  <2> QED
    BY <2>1, <2>2
<1>8. Distinct'
  BY <1>4 DEF CycleInv, Distinct
<1>9. Outside'
  BY <1>3 DEF CycleInv, Outside, TargetIsCommitted, TargetSet, cycle
<1> QED
  BY <1>5, <1>6, <1>7, <1>8, <1>9 DEF CycleInv

\* A run of the draft of p becomes visible.
LEMMA CommitKeeps ==
  ASSUME CycleInv, NEW p \in Processes, pc[p] = "written", CommitRun(p),
         draft' = [draft EXCEPT ![p] = NoRun],
         UNCHANGED <<matured, reported, cycle>>,
         NEW step \in {"committed", "done"}, pc' = [pc EXCEPT ![p] = step],
         p \in Writers => step = "done",
         target' = IF step = "committed" THEN target ELSE [target EXCEPT ![p] = NoTarget]
  PROVE  CycleInv'
<1>0. PICK d \in Run, n \in Nat : d = draft[p] /\ n = target[p]
  BY DEF CycleInv, Typed
<1> DEFINE change == d.linked \cup {r \in Rewards : Time[r] = d.end}
<1>1. d \in Run /\ moved[p] \in SUBSET Rewards
  BY DEF CycleInv, Typed
<1>2. PICK new \in Run :
        /\ new.moved = moved[p] /\ new.saw = d.saw /\ new.linked = d.linked
        /\ new.counted = d.counted /\ new.start = d.start /\ new.end = d.end
        /\ new.auto = d.auto
        /\ runs' = [j \in DOMAIN runs \cup {n} |-> IF j = n THEN new ELSE runs[j]]
  <2> DEFINE e == [d EXCEPT !.moved = moved[p]]
  <2>1. runs' = [j \in DOMAIN runs \cup {n} |-> IF j = n THEN e ELSE runs[j]]
    BY <1>0 DEF CommitRun
  <2>2. /\ e \in Run /\ e.moved = moved[p] /\ e.saw = d.saw /\ e.linked = d.linked
        /\ e.counted = d.counted /\ e.start = d.start /\ e.end = d.end /\ e.auto = d.auto
    BY <1>1 DEF e, Run
  <2> HIDE DEF e
  <2> QED
    BY <2>1, <2>2
<1>3. /\ Inserted(p) /\ Proper(d) /\ (d.auto => Chosen(d)) /\ (p \in Ticks => d.auto)
      /\ Apart(d, moved[p], d.counted, d.linked)
  BY <1>0 DEF CycleInv, Holds
<1>4. /\ n \in Nat \ {0} /\ n \notin DOMAIN runs /\ d.saw \subseteq DOMAIN runs
      /\ \A j \in d.saw : runs[j].linked \cap d.linked = {}
  BY <1>0, <1>3 DEF Inserted
<1>5. /\ DOMAIN runs' = DOMAIN runs \cup {n} /\ runs'[n] = new
      /\ \A i \in DOMAIN runs : runs'[i] = runs[i]
  BY <1>2, <1>4
<1>6. Grows
  BY <1>5 DEF Grows
<1>7. d.linked \subseteq Linked' /\ Linked \subseteq Linked' /\ (AllAuto' => AllAuto /\ d.auto)
  <2>1. n \in DOMAIN runs' /\ runs'[n].linked = d.linked /\ runs'[n].auto = d.auto
    BY <1>2, <1>5
  <2>2. d.linked \subseteq Linked'
    BY <2>1 DEF Linked, LinkedBy
  <2>3. AllAuto' => d.auto
    BY <2>1 DEF AllAuto
  <2> QED
    BY <1>6, <2>2, <2>3, GrowsFacts
<1>8. \A i \in DOMAIN runs : /\ runs[i].saw \subseteq DOMAIN runs
                             /\ RunOK(i)
  BY DEF CycleInv, Shared, RunOK
<1>9. Shared'
  <2>1. IsFiniteSet(DOMAIN runs')
    <3>1. IsFiniteSet(DOMAIN runs)
      BY DEF CycleInv, Shared
    <3>2. IsFiniteSet(DOMAIN runs \cup {n})
      BY <3>1, FS_AddElement
    <3> QED
      BY <1>5, <3>2
  <2>2. \A i \in DOMAIN runs' : RunOK(i)'
    <3>1. RunOK(n)'
      BY <1>2, <1>3, <1>4, <1>5 DEF RunOK, Proper, Chosen
    <3>2. \A i \in DOMAIN runs : RunOK(i)'
      BY <1>5, <1>8 DEF RunOK
    <3> QED
      BY <1>5, <3>1, <3>2
  <2>3. LinkedOnceUnlessRacing'
    <3> SUFFICES ASSUME NEW i \in DOMAIN runs', NEW j \in DOMAIN runs', i # j,
                        runs'[i].linked \cap runs'[j].linked # {}
                 PROVE  i \notin runs'[j].saw /\ j \notin runs'[i].saw
      BY DEF LinkedOnceUnlessRacing
    <3>1. CASE i = n
      BY <1>2, <1>4, <1>5, <1>8, <3>1
    <3>2. CASE j = n
      BY <1>2, <1>4, <1>5, <1>8, <3>2
    <3>3. CASE i # n /\ j # n
      BY <1>5, <3>3 DEF CycleInv, Shared, LinkedOnceUnlessRacing
    <3> QED
      BY <3>1, <3>2, <3>3
  <2>4. CountsWhatItLinks'
    <3> SUFFICES ASSUME NEW i \in DOMAIN runs', NEW r \in Rewards,
                        (r \in runs'[i].counted) # (r \in runs'[i].linked)
                 PROVE  \/ r \in runs'[i].moved
                        \/ runs'[i].auto /\ \E q \in runs'[i].linked : q # r /\ Time[q] = Time[r]
      BY DEF CountsWhatItLinks
    <3>1. CASE i = n
      BY <1>2, <1>3, <1>5, <3>1 DEF Apart
    <3>2. CASE i # n
      BY <1>5, <3>2 DEF CycleInv, Shared, CountsWhatItLinks
    <3> QED
      BY <3>1, <3>2
  <2>5. Covered'
    <3> SUFFICES ASSUME AllAuto', NEW r \in Rewards, NEW i \in DOMAIN runs',
                        Baseline <= Time[r], Time[r] < runs'[i].end
                 PROVE  \E q \in Linked' : Time[q] = Time[r]
      BY DEF Covered
    <3>1. Covered /\ AllAuto /\ Chosen(d)
      BY <1>3, <1>7 DEF CycleInv, Shared
    <3>2. ASSUME NEW j \in DOMAIN runs, Time[r] < runs[j].end
          PROVE  \E q \in Linked' : Time[q] = Time[r]
      BY <1>7, <3>1, <3>2 DEF Covered
    <3>3. CASE i # n
      BY <1>5, <3>2, <3>3
    <3>4. CASE i = n
      <4>1. Time[r] < d.end
        BY <1>2, <1>5, <3>4
      <4>2. CASE d.start <= Time[r]
        BY <1>7, <3>1, <4>1, <4>2 DEF Chosen, Fills
      <4>3. CASE Time[r] < d.start
        <5>1. d.start \in Nat /\ Time[r] \in Nat /\ Baseline \in Nat
          BY <1>1, TimeFacts DEF Run
        <5>2. PICK j \in DOMAIN runs : d.start <= runs[j].end
          BY <3>1, <4>3, <5>1 DEF Chosen, Reaches
        <5>3. runs[j].end \in Nat
          BY <1>8 DEF RunOK, Run
        <5> QED
          BY <3>2, <4>3, <5>1, <5>2, <5>3
      <4> QED
        BY <1>1, <4>2, <4>3, TimeFacts DEF Run
    <3> QED
      BY <3>3, <3>4
  <2> QED
    BY <2>1, <2>2, <2>3, <2>4, <2>5 DEF CycleInv, Shared, OldFirst
<1>10. /\ moved'[p] = {} /\ pc'[p] = step
       /\ \A q \in Processes \ {p} :
            /\ moved'[q] = IF pc[q] \in Preparing THEN moved[q] \cup change ELSE moved[q]
            /\ pc'[q] = pc[q] /\ draft'[q] = draft[q] /\ target'[q] = target[q]
  BY <1>0 DEF CommitRun, Moved, CycleInv, Typed
<1>11. Typed'
  <2>1. change \in SUBSET Rewards
    BY <1>1 DEF Run
  <2>2. moved' = Moved(p, change)
    BY <1>0 DEF CommitRun
  <2> HIDE DEF change
  <2>3. moved' \in [Processes -> SUBSET Rewards]
    BY <2>1, <2>2 DEF Moved, CycleInv, Typed
  <2>4. draft' \in [Processes -> Run] /\ target' \in [Processes -> Nat]
    BY NoRunFacts DEF CycleInv, Typed, NoTarget
  <2>5. pc' \in [Processes -> CycleSteps] /\ \A w \in Writers : pc'[w] \in WriterSteps
    BY TicksAndWriters DEF CycleInv, Typed, CycleSteps, WriterSteps
  <2> QED
    BY <2>3, <2>4, <2>5 DEF Typed
<1>12. \A q \in Processes : Holds(q)'
  <2>1. Holds(p)'
    <3>1. CASE step = "done"
      BY <1>10, <3>1, FreeHolds DEF Free
    <3>2. CASE step = "committed"
      BY <1>0, <1>2, <1>3, <1>5, <1>10, <3>2, TicksAndWriters DEF Holds
    <3> QED
      BY <3>1, <3>2
  <2>2. ASSUME NEW q \in Processes \ {p}
        PROVE  Holds(q)'
    <3>1. pc[q] \in Preparing => Noted(q)
      <4> SUFFICES ASSUME pc[q] \in Preparing
                   PROVE  Noted(q)
        OBVIOUS
      <4>1. moved'[q] = moved[q] \cup change
        BY <1>10
      <4>2. DOMAIN runs' \ DOMAIN runs \subseteq {n} /\ runs'[n].linked = d.linked
            /\ runs'[n].end = d.end
        BY <1>2, <1>5
      <4>3. \A i \in DOMAIN runs' \ DOMAIN runs :
              /\ runs'[i].linked \subseteq moved'[q]
              /\ \A r \in Rewards : Time[r] = runs'[i].end => r \in moved'[q]
        BY <4>1, <4>2
      <4> QED
        BY <4>1, <4>3 DEF Noted
    <3>2. pc[q] = "written" => target[q] \notin DOMAIN runs'
      BY <1>0, <1>5 DEF CycleInv, Holds, Inserted, Distinct
    <3> QED
      BY <1>6, <1>9, <1>10, <3>1, <3>2, Bystander DEF CycleInv
  <2> QED
    BY <2>1, <2>2
<1>13. Distinct'
  BY <1>10 DEF CycleInv, Distinct
<1>14. Outside'
  BY <1>5 DEF CycleInv, Outside, TargetIsCommitted, TargetSet, cycle
<1> QED
  BY <1>9, <1>11, <1>12, <1>13, <1>14 DEF CycleInv

LEMMA MatureKeeps ==
  ASSUME CycleInv, NEW r \in Rewards, Mature(r), UNCHANGED cycle
  PROVE  CycleInv'
<1>1. /\ matured' = matured \cup {r} /\ UNCHANGED <<reported, runs, pc, draft, target, moved>>
      /\ \A q \in Rewards : Time[q] < Time[r] => q \in matured
  BY DEF Mature
<1>2. Shared'
  <2>1. OldFirst(matured)'
    BY <1>1 DEF CycleInv, Shared, OldFirst
  <2>2. OldFirst(reported)' /\ reported' \subseteq matured' /\ matured' \subseteq Rewards
    BY <1>1 DEF CycleInv, Shared, OldFirst
  <2> QED
    BY <1>1, <2>1, <2>2 DEF CycleInv, Shared, RunOK, LinkedOnceUnlessRacing, CountsWhatItLinks,
      Covered, AllAuto, Linked, LinkedBy
<1>3. \A q \in Processes : Holds(q)'
  <2>1. ASSUME NEW q \in Processes
        PROVE  Holds(q)'
    <3>1. Grows /\ Noted(q)
      BY <1>1 DEF Grows, Noted
    <3>2. pc[q] = "written" => target[q] \notin DOMAIN runs'
      BY <1>1 DEF CycleInv, Holds, Inserted
    <3> QED
      BY <1>1, <1>2, <3>1, <3>2, Bystander DEF CycleInv
  <2> QED
    BY <2>1
<1> QED
  BY <1>1, <1>2, <1>3 DEF CycleInv, Typed, Distinct, Outside, TargetIsCommitted, TargetSet, cycle

\* Payments by an operator or by the scheduler, and stuttering.
LEMMA ElseKeeps ==
  ASSUME CycleInv, UNCHANGED <<ledgerVars, mode, interrupted, env, faults>>,
         paid' \subseteq DOMAIN runs
  PROVE  CycleInv'
<1>1. UNCHANGED <<ledger, pc, draft, target, moved>>
  BY DEF ledgerVars
<1>2. Typed' /\ Distinct'
  BY <1>1 DEF CycleInv, Typed, Distinct
<1>3. Shared'
  BY <1>1 DEF CycleInv, Shared, OldFirst, RunOK, LinkedOnceUnlessRacing, CountsWhatItLinks,
    Covered, AllAuto, Linked, LinkedBy, ledger
<1>4. Outside'
  BY <1>1 DEF CycleInv, Outside, TargetIsCommitted, TargetSet, ledger
<1>5. \A q \in Processes : Holds(q)'
  <2>1. ASSUME NEW q \in Processes
        PROVE  Holds(q)'
    <3>1. Grows /\ Noted(q) /\ matured' = matured
      BY <1>1 DEF Grows, Noted, ledger
    <3>2. pc[q] = "written" => target[q] \notin DOMAIN runs'
      BY <1>1 DEF CycleInv, Holds, Inserted, ledger
    <3> QED
      BY <1>1, <1>3, <3>1, <3>2, Bystander DEF CycleInv
  <2> QED
    BY <2>1
<1> QED
  BY <1>2, <1>3, <1>4, <1>5 DEF CycleInv

LEMMA StepKeeps == CycleInv /\ [Next]_vars => CycleInv'
<1> SUFFICES ASSUME CycleInv, [Next]_vars
             PROVE  CycleInv'
  OBVIOUS
<1>1. ASSUME NEW r \in Rewards, Mature(r), UNCHANGED cycle
      PROVE  CycleInv'
  BY <1>1, MatureKeeps
<1>2. ASSUME NEW p \in Writers, WriterStep(p), UNCHANGED cycle
      PROVE  CycleInv'
  <2>1. CASE \E w \in Windows : Preview(p, w)
    BY <1>2, <2>1, PreviewKeeps
  <2>2. CASE CheckLinks(p)
    BY <1>2, <2>2, CheckKeeps
  <2>3. CASE RefuseDuplicate(p)
    <3>1. p \in Processes /\ p \notin Ticks
      BY TicksAndWriters
    <3> QED
      BY <1>2, <2>3, <3>1, LeavingKeeps
  <2>4. CASE WriteDraft(p)
    <3>1. p \in Processes
      BY TicksAndWriters
    <3>2. /\ pc[p] = "written" /\ CommitRun(p) /\ draft' = [draft EXCEPT ![p] = NoRun]
          /\ target' = [target EXCEPT ![p] = NoTarget] /\ pc' = [pc EXCEPT ![p] = "done"]
          /\ UNCHANGED <<matured, reported>>
      BY <2>4 DEF WriteDraft, Goto
    <3> QED
      BY <1>2, <3>1, <3>2, CommitKeeps
  <2> QED
    BY <1>2, <2>1, <2>2, <2>3, <2>4 DEF WriterStep
<1>3. ASSUME NEW t \in Ticks, NEW m \in Modes, StartTick(t, m)
      PROVE  CycleInv'
  BY <1>3, StartKeeps
<1>4. ASSUME NEW t \in Ticks, TickStep(t) \/ RunnerPays(t) \/ RunnerFails(t) \/ TickDies(t)
      PROVE  CycleInv'
  <2>1. t \in Processes /\ t \notin Writers
    BY TicksAndWriters
  <2>2. CASE ScanWrites(t) /\ UNCHANGED cycle
    BY <2>2, ScanKeeps
  <2>3. CASE LoadLatestEnd(t)
    BY <2>3, LoadKeeps
  <2>4. CASE LoadSelection(t)
    BY <2>4, SelectKeeps
  <2>5. CASE SafeSkip(t) \/ Refuse(t) \/ TickDies(t)
    BY <2>1, <2>5, LeavingKeeps
  <2>6. CASE LoadCreditPreview(t)
    BY <2>6, PreviewCreditKeeps
  <2>7. CASE WriteCreditRun(t)
    BY <2>7, WriteCreditKeeps
  <2>8. CASE CommitArtifacts(t)
    <3>1. /\ pc[t] = "written" /\ CommitRun(t) /\ draft' = [draft EXCEPT ![t] = NoRun]
          /\ target' = target /\ pc' = [pc EXCEPT ![t] = "committed"]
          /\ UNCHANGED <<matured, reported, cycle>>
      BY <2>8 DEF CommitArtifacts, Goto
    <3> QED
      BY <2>1, <3>1, CommitKeeps
  <2>9. CASE \/ PublishTarget(t) \/ RunnerReplays(t) \/ RunnerPays(t) \/ RunnerFails(t)
             \/ RestoreScheduler(t)
    BY <2>9, TargetKeeps
  <2> QED
    BY <1>4, <2>2, <2>3, <2>4, <2>5, <2>6, <2>7, <2>8, <2>9 DEF TickStep
<1>5. ASSUME NEW i \in DOMAIN runs, OperatorPays(i)
      PROVE  CycleInv'
  <2>1. UNCHANGED <<ledgerVars, mode, interrupted, env, faults>> /\ paid' \subseteq DOMAIN runs
    BY <1>5 DEF OperatorPays, CycleInv, Outside
  <2> QED
    BY <2>1, ElseKeeps
<1>6. CASE SchedulerPays
  <2>1. UNCHANGED <<ledgerVars, mode, interrupted, env, faults>> /\ paid' \subseteq DOMAIN runs
    BY <1>6 DEF SchedulerPays, CycleInv, Outside, TargetIsCommitted
  <2> QED
    BY <2>1, ElseKeeps
<1>7. CASE UNCHANGED vars
  <2>1. UNCHANGED <<ledgerVars, mode, interrupted, env, faults>> /\ paid' \subseteq DOMAIN runs
    BY <1>7 DEF vars, cycle, CycleInv, Outside
  <2> QED
    BY <2>1, ElseKeeps
<1> QED
  BY <1>1, <1>2, <1>3, <1>4, <1>5, <1>6, <1>7 DEF Next

\* Every reachable state has the invariant.
THEOREM CycleInvariant == Spec => []CycleInv
<1> QED
  BY InitCycle, StepKeeps, PTL DEF Spec

-----------------------------------------------------------------------------
(* Theorems.                                                               *)

\* Committed runs have their windows, rewards and ids right; no two that knew of
\* each other link one reward; and the scheduler's file, what is paid and what was
\* interrupted are always committed plans, the file's one of the automation.
THEOREM RunsAreSound == Spec => []CreditRunsSound
<1>1. CycleInv => CreditRunsSound
  BY DEF CycleInv, Typed, Shared, RunOK, Outside, CreditRunsSound, TypeOK
<1> QED
  BY <1>1, CycleInvariant, PTL

\* A run pays for the rewards it links, but for those that changed while it was
\* prepared and those of a second that the budget cut.
THEOREM CountedIsLinked == Spec => []CountsWhatItLinks
<1>1. CycleInv => CountsWhatItLinks
  BY DEF CycleInv, Shared
<1> QED
  BY <1>1, CycleInvariant, PTL

\* The automation alone passes no reward over: coverage_start never moves beyond a
\* second with rewards of which none is linked.
THEOREM NothingIsPassedOver == Spec => []NothingLeftBehind
<1>1. ASSUME CycleInv
      PROVE  NothingLeftBehind
  <2> SUFFICES ASSUME AllAuto, NEW r \in Unlinked, ~ Time[r] < Baseline, ~ Time[r] >= LatestEnd
               PROVE  \E q \in Linked : Time[q] = Time[r]
    BY DEF NothingLeftBehind, AllAuto
  <2>1. r \in Rewards /\ Time[r] \in Nat /\ Baseline \in Nat
    BY <1>1, TimeFacts DEF Unlinked, CycleInv, Shared
  <2>2. LatestEnd \in {runs[i].end : i \in DOMAIN runs} \cup {0}
    BY <1>1, LatestFacts
  <2>3. PICK i \in DOMAIN runs : Time[r] < runs[i].end
    <3>1. LatestEnd \in Nat
      BY <1>1, LatestFacts
    <3>2. Time[r] < LatestEnd
      BY <2>1, <3>1
    <3> QED
      BY <2>1, <2>2, <3>2
  <2> QED
    BY <1>1, <2>1, <2>3 DEF CycleInv, Shared, Covered
<1> QED
  BY <1>1, CycleInvariant, PTL
=============================================================================
