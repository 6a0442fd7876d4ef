---------------------- MODULE LegacySettlement_proofs ----------------------
(***************************************************************************)
(* What the settlement cycle keeps, for all users, blocks, intervals and   *)
(* numbers of cycles that stop: the windows follow each other without a    *)
(* gap, and unless two cycles overlap a completed window stays as it is,   *)
(* a block brings its reward once, the satoshis credited and carried are   *)
(* the rewards of the completed windows, and a user's bucket holds the     *)
(* work deferred since the user was last credited.                         *)
(*                                                                         *)
(* The invariants come in the order in which they need each other: the     *)
(* windows; one cycle at work and its window (SettledInv); types; what     *)
(* that cycle has written (FillInv); money (BooksInv); work (DueInv).      *)
(***************************************************************************)
EXTENDS LegacySettlement, Sums_proofs, TLAPS

Rewards == {SumOver(Reward, B) : B \in SUBSET Blocks} \union {0}

Shape == [start : Int, end : Int, status : Statuses, reward : Rewards]

\* What a cycle may hold.
Holds(r) ==
    /\ DOMAIN r = DOMAIN Idle
    /\ r.at \in Int /\ r.from \in Int /\ r.reward \in Rewards

\* Every window is an interval long.
Ranged(ws) == \A i \in DOMAIN ws : ws[i].end = ws[i].start + Interval

WindowsInv ==
    /\ now \in Int /\ known \subseteq Blocks
    /\ windows \in Seq(Shape) /\ Ranged(windows)
    /\ DOMAIN job = Cycles
    /\ \A p \in Cycles : Holds(job[p])

-----------------------------------------------------------------------------
(* The windows.                                                            *)

LEMMA IdleFacts ==
    /\ Idle.pc = "idle" /\ Idle.at = 0 /\ Idle.from = 0 /\ Idle.reward = 0
    /\ Idle.matured = {}
    /\ DOMAIN Idle = {"pc", "at", "matured", "paid", "reward", "from", "sid",
                      "work", "todo", "bucket", "pay", "left"}
  BY DEF Idle

LEMMA ZeroRewards == 0 \in Rewards
  BY DEF Rewards

LEMMA StateSet ==
  ASSUME NEW w \in Shape, NEW s \in Statuses, NEW x \in Rewards
  PROVE  /\ [w EXCEPT !.status = s, !.reward = x] \in Shape
         /\ [w EXCEPT !.status = s, !.reward = x].start = w.start
         /\ [w EXCEPT !.status = s, !.reward = x].end = w.end
  BY DEF Shape

\* Of finitely many numbered things with a value one has the greatest, the last by
\* number among equals.
LEMMA TopExists ==
  ASSUME NEW S, IsFiniteSet(S), S \subseteq Nat, S # {},
         NEW basis, \A u \in S : basis[u] \in Int
  PROVE  \E u \in S : \A v \in S : basis[v] < basis[u] \/ (basis[v] = basis[u] /\ v <= u)
<1> DEFINE Worked == {basis[u] : u \in S}
<1>1. IsFiniteSet(Worked) /\ Worked \subseteq Int /\ Worked # {}
  <2>1. IsFiniteSet({basis[u] : u \in S})
    BY ImageIsFinite, Zenon
  <2>2. Worked \subseteq Int
    OBVIOUS
  <2>3. Worked # {}
    OBVIOUS
  <2> QED
    BY <2>1, <2>2, <2>3, Zenon
<1> HIDE DEF Worked
<1>2. PICK m \in Worked : \A n \in Worked : n <= m
  BY <1>1, GreatestNumber
<1> DEFINE Best == {u \in S : basis[u] = m}
<1>3. IsFiniteSet(Best) /\ Best \subseteq Int
  <2>1. Best \in SUBSET S
    OBVIOUS
  <2> HIDE DEF Best
  <2>2. IsFiniteSet(Best)
    BY <2>1, FS_Subset, Zenon
  <2> QED
    BY <2>1, <2>2
<1>4. Best # {}
  BY <1>2 DEF Worked
<1> HIDE DEF Best
<1>5. PICK u \in Best : \A v \in Best : v <= u
  BY <1>3, <1>4, GreatestNumber
<1>6. u \in S /\ basis[u] = m
  BY <1>5 DEF Best
<1>7. ASSUME NEW v \in S PROVE basis[v] < basis[u] \/ (basis[v] = basis[u] /\ v <= u)
  <2>1. basis[v] \in Int /\ basis[u] \in Int /\ basis[v] <= basis[u]
    BY <1>2, <1>6 DEF Worked
  <2>2. basis[v] = basis[u] => v <= u
    BY <1>5, <1>6 DEF Best
  <2> QED
    BY <2>1, <2>2
<1> QED
  BY <1>6, <1>7

\* The latest window is one of them, and none ends later.
LEMMA LatestFacts ==
  ASSUME windows \in Seq(Shape), windows # << >>
  PROVE  /\ LatestWindow \in DOMAIN windows
         /\ \A j \in DOMAIN windows : windows[j].end <= windows[LatestWindow].end
<1> DEFINE basis == [i \in DOMAIN windows |-> windows[i].end]
<1>1. /\ DOMAIN windows = 1 .. Len(windows) /\ Len(windows) \in Nat /\ DOMAIN windows # {}
      /\ DOMAIN windows \subseteq Nat
  OBVIOUS
<1>2. IsFiniteSet(DOMAIN windows)
  BY <1>1, FS_Interval
<1>3. \A i \in DOMAIN windows : basis[i] = windows[i].end /\ basis[i] \in Int
  <2>1. \A i \in DOMAIN windows : windows[i] \in Shape
    OBVIOUS
  <2> QED
    BY <2>1 DEF Shape
<1> HIDE DEF basis
<1>4. \E i \in DOMAIN windows : \A j \in DOMAIN windows :
        basis[j] < basis[i] \/ (basis[j] = basis[i] /\ j <= i)
  BY <1>1, <1>2, <1>3, TopExists
<1>5. \E i \in DOMAIN windows : \A j \in DOMAIN windows :
        windows[j].end < windows[i].end \/ (windows[j].end = windows[i].end /\ j <= i)
  BY <1>3, <1>4
<1>6. /\ LatestWindow \in DOMAIN windows
      /\ \A j \in DOMAIN windows :
           \/ windows[j].end < windows[LatestWindow].end
           \/ windows[j].end = windows[LatestWindow].end /\ j <= LatestWindow
  BY <1>5, Zenon DEF LatestWindow
<1>7. \A j \in DOMAIN windows : windows[j].end \in Int
  BY <1>3
<1> QED
  BY <1>6, <1>7

\* A step that changes neither windows nor blocks, and leaves cycle p with a
\* record it may hold.
LEMMA JobStep ==
  ASSUME WindowsInv, NEW p \in Cycles, NEW r, Holds(r), Goes(p, r),
         windows' = windows, known' = known, now' = now
  PROVE  WindowsInv'
  BY DEF WindowsInv, Goes, Holds

\* The state of a window changes, its range does not.
LEMMA SetWindowFacts ==
  ASSUME windows \in Seq(Shape), Ranged(windows),
         NEW p \in Cycles, NEW s \in Statuses, NEW w \in Rewards, SetWindow(p, s, w)
  PROVE  /\ windows' \in Seq(Shape) /\ Ranged(windows')
         /\ DOMAIN windows' = DOMAIN windows
         /\ \A i \in DOMAIN windows :
              windows'[i].start = windows[i].start /\ windows'[i].end = windows[i].end
<1> DEFINE sid == job[p].sid
           new == [windows[sid] EXCEPT !.status = s, !.reward = w]
<1>1. windows' = [windows EXCEPT ![sid] = new]
  BY DEF SetWindow
<1>2. sid \in DOMAIN windows =>
        new \in Shape /\ new.start = windows[sid].start /\ new.end = windows[sid].end
  <2> SUFFICES ASSUME sid \in DOMAIN windows
               PROVE  new \in Shape /\ new.start = windows[sid].start
                        /\ new.end = windows[sid].end
    OBVIOUS
  <2>1. windows[sid] \in Shape
    OBVIOUS
  <2> QED
    BY <2>1, StateSet
<1> HIDE DEF new
<1>3. /\ windows' \in Seq(Shape) /\ DOMAIN windows' = DOMAIN windows
      /\ Len(windows') = Len(windows)
  <2>1. DOMAIN windows' = 1 .. Len(windows) /\ Len(windows) \in Nat
    BY <1>1
  <2>2. \A i \in 1 .. Len(windows) : windows'[i] \in Shape
    BY <1>1, <1>2
  <2>3. windows' = [i \in 1 .. Len(windows) |-> windows'[i]]
    BY <1>1, <2>1
  <2> QED
    BY <2>1, <2>2, <2>3
<1>4. \A i \in DOMAIN windows :
        windows'[i].start = windows[i].start /\ windows'[i].end = windows[i].end
  BY <1>1, <1>2
<1>5. Ranged(windows')
  BY <1>3, <1>4 DEF Ranged
<1> QED
  BY <1>3, <1>4, <1>5

LEMMA SetWindowStep ==
  ASSUME WindowsInv, NEW p \in Cycles, NEW s \in Statuses, NEW w \in Rewards,
         SetWindow(p, s, w), NEW r, Holds(r), Goes(p, r),
         known' = known, now' = now
  PROVE  WindowsInv'
<1>1. windows' \in Seq(Shape) /\ Ranged(windows')
  BY SetWindowFacts DEF WindowsInv
<1>2. \A q \in Cycles : Holds(job'[q])
  BY DEF WindowsInv, Goes
<1> QED
  BY <1>1, <1>2 DEF WindowsInv, Goes

\* A window is appended, or one of the same range set back.
LEMMA OpenWindowFacts ==
  ASSUME WindowsInv, NEW p \in Cycles, OpenWindow(p)
  PROVE  /\ windows' \in Seq(Shape)
         /\ \/ /\ OfRange(job[p].from) = {} /\ Len(windows') = Len(windows) + 1
               /\ \A i \in DOMAIN windows : windows'[i] = windows[i]
               /\ windows'[Len(windows) + 1].start = job[p].from
               /\ windows'[Len(windows) + 1].end = job[p].from + Interval
            \/ /\ OfRange(job[p].from) # {} /\ Len(windows') = Len(windows)
               /\ \A i \in DOMAIN windows :
                    windows'[i].start = windows[i].start /\ windows'[i].end = windows[i].end
<1> DEFINE from == job[p].from
           new == Window(from, "pending", 0)
<1>1. from \in Int
  BY DEF WindowsInv, Holds
<1>2. new \in Shape /\ new.start = from /\ new.end = from + Interval
  BY <1>1, ZeroRewards, SettlementAssumption DEF Window, Shape, Statuses
<1> HIDE DEF new
<1>3. CASE OfRange(from) = {}
  <2>1. windows' = Append(windows, new)
    BY <1>3 DEF OpenWindow, new
  <2> QED
    BY <1>2, <1>3, <2>1 DEF WindowsInv
<1>4. CASE OfRange(from) # {}
  <2>1. PICK i \in OfRange(from) : windows' = [windows EXCEPT ![i] = new]
    BY <1>4 DEF OpenWindow, new
  <2>2. i \in DOMAIN windows /\ windows[i].start = from /\ windows[i].end = from + Interval
    BY DEF OfRange
  <2> QED
    BY <1>2, <1>4, <2>1, <2>2 DEF WindowsInv
<1> QED
  BY <1>3, <1>4

LEMMA OpenWindowStep ==
  ASSUME WindowsInv, NEW p \in Cycles, OpenWindow(p)
  PROVE  WindowsInv'
<1>1. windows' \in Seq(Shape) /\ Ranged(windows')
  BY OpenWindowFacts DEF WindowsInv, Ranged
<1>2. PICK n : Goes(p, [job[p] EXCEPT !.pc = "weigh", !.sid = n])
  BY DEF OpenWindow
<1>3. Holds(job[p]) /\ Holds([job[p] EXCEPT !.pc = "weigh", !.sid = n])
  BY IdleFacts DEF WindowsInv, Holds
<1> QED
  BY <1>1, <1>2, <1>3 DEF WindowsInv, Goes, OpenWindow

-----------------------------------------------------------------------------
(* Every step keeps the windows' invariant.                                *)

\* A cycle that goes on beyond its look at the windows.
LEMMA HoldsKept ==
  ASSUME NEW r, NEW x, Holds(r), DOMAIN x = DOMAIN r, x.at = r.at, x.from = r.from,
         x.reward \in Rewards
  PROVE  Holds(x)
  BY DEF Holds

LEMMA StartKeeps ==
  ASSUME WindowsInv, NEW p \in Cycles, Start(p)
  PROVE  WindowsInv'
<1> DEFINE x == [Idle EXCEPT !.at = now,
      !.pc = IF p = Http \/ now + Tolerance >= NextDue THEN "gather" ELSE "send"]
<1>1. Goes(p, x) /\ windows' = windows /\ known' = known /\ now' = now
  BY DEF Start
<1>2. x.pc \in {"gather", "send"} /\ x.at = now /\ x.from = 0 /\ x.reward = 0
        /\ DOMAIN x = DOMAIN Idle
  BY IdleFacts
<1> HIDE DEF x
<1>3. Holds(x)
  BY <1>2, ZeroRewards DEF Holds, WindowsInv, Start
<1> QED
  BY <1>1, <1>3, JobStep

LEMMA AbortKeeps ==
  ASSUME WindowsInv, NEW p \in Cycles, Abort(p) \/ Send(p)
  PROVE  WindowsInv'
<1>1. Goes(p, Idle) /\ windows' = windows /\ known' = known /\ now' = now
  BY DEF Abort, Send, tables
<1>2. Holds(Idle)
  BY IdleFacts, ZeroRewards DEF Holds
<1> QED
  BY <1>1, <1>2, JobStep

LEMMA GatherKeeps ==
  ASSUME WindowsInv, NEW p \in Cycles, Gather(p)
  PROVE  WindowsInv'
<1>1. known' \subseteq Blocks
  <2>1. known' \in StoredAfter(MyWindow(p))
    BY DEF Gather, KnownRewards
  <2> QED
    BY <2>1, SettlementAssumption DEF StoredAfter, FetchedBlocks, FoundIn, WindowsInv
<1>2. MaturedBlocks(known', MyWindow(p)) \subseteq Blocks /\ RetryBlocks(MyWindow(p)) \subseteq Blocks
  BY <1>1 DEF MaturedBlocks, RetryBlocks, WindowsInv
<1>3. PICK rewarded \in SUBSET (MaturedBlocks(known', MyWindow(p)) \union RetryBlocks(MyWindow(p))) :
        Goes(p, [job[p] EXCEPT
                   !.pc = "look", !.matured = MaturedBlocks(known', MyWindow(p)),
                   !.paid = rewarded,
                   !.reward = IF MaturedBlocks(known', MyWindow(p)) \subseteq rewarded
                              THEN SumOver(Reward, rewarded) ELSE 0])
  BY DEF Gather, KnownRewards
<1> DEFINE sum == IF MaturedBlocks(known', MyWindow(p)) \subseteq rewarded
                  THEN SumOver(Reward, rewarded) ELSE 0
           x == [job[p] EXCEPT !.pc = "look", !.matured = MaturedBlocks(known', MyWindow(p)),
                               !.paid = rewarded, !.reward = sum]
<1>4. sum \in Rewards
  BY <1>2 DEF Rewards
<1> HIDE DEF sum
<1>5. Holds(job[p]) /\ job[p].pc = "gather"
  BY DEF WindowsInv, Gather
<1>6. /\ DOMAIN x = DOMAIN job[p] /\ x.at = job[p].at /\ x.from = job[p].from
      /\ x.reward = sum /\ x.pc = "look"
  BY <1>5, IdleFacts DEF Holds
<1>7. Goes(p, x)
  BY <1>3 DEF sum
<1> HIDE DEF x
<1>8. Holds(x)
  BY <1>4, <1>5, <1>6, HoldsKept
<1>9. windows' = windows /\ now' = now /\ DOMAIN job' = Cycles
      /\ \A q \in Cycles : Holds(job'[q])
  BY <1>7, <1>8 DEF Gather, Goes, WindowsInv
<1> QED
  BY <1>1, <1>9 DEF WindowsInv

LEMMA LookKeeps ==
  ASSUME WindowsInv, NEW p \in Cycles, Look(p)
  PROVE  WindowsInv'
<1> DEFINE end == windows[LatestWindow].end
<1>1. /\ windows' = windows /\ known' = known /\ now' = now
      /\ Holds(job[p]) /\ job[p].pc = "look"
  BY DEF WindowsInv, Look, tables
<1>2. CASE windows = << >>
  <2> DEFINE x == [job[p] EXCEPT !.pc = "check", !.from = job[p].at - Interval]
  <2>1. Goes(p, x)
    BY <1>2 DEF Look
  <2>2. /\ DOMAIN x = DOMAIN job[p] /\ x.at = job[p].at /\ x.from = job[p].at - Interval
        /\ x.reward = job[p].reward /\ x.pc = "check"
    BY <1>1, IdleFacts DEF Holds
  <2> HIDE DEF x
  <2>3. Holds(x)
    BY <1>1, <1>2, <2>2, SettlementAssumption DEF Holds
  <2> QED
    BY <1>1, <2>1, <2>3, JobStep
<1>3. CASE windows # << >> /\ job[p].at < end + Interval
  <2> DEFINE x == [job[p] EXCEPT !.pc = "link", !.sid = LatestWindow]
  <2>1. Goes(p, x)
    BY <1>3 DEF Look
  <2>2. /\ DOMAIN x = DOMAIN job[p] /\ x.at = job[p].at /\ x.from = job[p].from
        /\ x.reward = job[p].reward /\ x.pc = "link"
    BY <1>1, IdleFacts DEF Holds
  <2> HIDE DEF x
  <2>3. Holds(x)
    BY <1>1, <2>2, HoldsKept DEF Holds
  <2> QED
    BY <1>1, <2>1, <2>3, JobStep
<1>4. CASE windows # << >> /\ ~ (job[p].at < end + Interval)
  <2> DEFINE x == [job[p] EXCEPT !.pc = "check", !.from = end]
  <2>1. Goes(p, x)
    BY <1>4 DEF Look
  <2>2. /\ DOMAIN x = DOMAIN job[p] /\ x.at = job[p].at /\ x.from = end
        /\ x.reward = job[p].reward /\ x.pc = "check"
    BY <1>1, IdleFacts DEF Holds
  <2>3. LatestWindow \in DOMAIN windows /\ end \in Int
    <3>1. LatestWindow \in DOMAIN windows
      BY <1>4, LatestFacts DEF WindowsInv
    <3>2. windows[LatestWindow] \in Shape
      BY <3>1 DEF WindowsInv
    <3> QED
      BY <3>1, <3>2 DEF Shape
  <2> HIDE DEF x
  <2>4. Holds(x)
    BY <1>1, <1>4, <2>2, <2>3 DEF Holds
  <2> QED
    BY <1>1, <2>1, <2>4, JobStep
<1> QED
  BY <1>2, <1>3, <1>4

\* The engine looks for the range: the period to open is the one it looked up.
LEMMA CheckKeeps ==
  ASSUME WindowsInv, NEW p \in Cycles, Check(p)
  PROVE  WindowsInv'
<1>1. /\ windows' = windows /\ known' = known /\ now' = now
      /\ Holds(job[p]) /\ job[p].pc = "check"
  BY DEF WindowsInv, Check, tables
<1>2. CASE OfRange(job[p].from) = {}
  <2> DEFINE x == [job[p] EXCEPT !.pc = "open"]
  <2>1. Goes(p, x)
    BY <1>2 DEF Check
  <2>2. /\ DOMAIN x = DOMAIN job[p] /\ x.at = job[p].at /\ x.from = job[p].from
        /\ x.reward = job[p].reward /\ x.pc = "open"
    BY <1>1, IdleFacts DEF Holds
  <2> HIDE DEF x
  <2>3. Holds(x)
    BY <1>1, <2>2 DEF Holds
  <2> QED
    BY <1>1, <2>1, <2>3, JobStep
<1>3. CASE OfRange(job[p].from) # {}
  <2> DEFINE i == CHOOSE j \in OfRange(job[p].from) : TRUE
             work == Contributions(Counter, samples, MyWindow(p))
             x == [job[p] EXCEPT !.sid = i, !.work = work, !.reward = 0,
                                 !.todo = Working(work), !.pc = "bucket"]
             y == [job[p] EXCEPT !.sid = i, !.pc = "link"]
  <2>1. Goes(p, x) \/ Goes(p, y)
    BY <1>3 DEF Check
  <2> HIDE DEF i, work
  <2>2. /\ DOMAIN x = DOMAIN job[p] /\ x.at = job[p].at /\ x.from = job[p].from
        /\ x.reward = 0 /\ x.pc = "bucket"
    BY <1>1, IdleFacts DEF Holds
  <2>3. /\ DOMAIN y = DOMAIN job[p] /\ y.at = job[p].at /\ y.from = job[p].from
        /\ y.reward = job[p].reward /\ y.pc = "link"
    BY <1>1, IdleFacts DEF Holds
  <2> HIDE DEF x, y
  <2>4. Holds(x) /\ Holds(y)
    BY <1>1, <2>2, <2>3, HoldsKept, ZeroRewards DEF Holds
  <2> QED
    BY <1>1, <2>1, <2>4, JobStep
<1> QED
  BY <1>2, <1>3

\* The steps that fill a window and leave all windows alone, and the links.
Filling(p) ==
    \/ Merge(p) \/ Price(p) \/ StoreWork(p) \/ ReadBucket(p) \/ AddWork(p)
    \/ Credit(p) \/ Clear(p) \/ Carry(p) \/ Link(p)

\* The steps that write the state of a window.
Stating(p) == Weigh(p) \/ Defer(p) \/ Complete(p)

\* What of a cycle's record these steps leave alone.
Onward(r, x) ==
    /\ DOMAIN x = DOMAIN r /\ x.at = r.at /\ x.from = r.from
    /\ x.reward = r.reward /\ x.sid = r.sid
    /\ x.pc \in Steps \ {"idle", "gather", "look", "check", "open"}

LEMMA FillingFacts ==
  ASSUME DOMAIN job = Cycles, NEW p \in Cycles, DOMAIN job[p] = DOMAIN Idle, Filling(p)
  PROVE  /\ job[p].pc # "idle" /\ windows' = windows /\ known' = known /\ now' = now
         /\ Goes(p, job'[p]) /\ Onward(job[p], job'[p])
<1> USE IdleFacts DEF Goes, Onward, Steps
<1>1. CASE Merge(p)
  <2> DEFINE work == [u \in Users |-> job[p].work[u] + accrual[u]]
  <2> HIDE DEF work
  <2>1. job' = [job EXCEPT ![p] = [job[p] EXCEPT !.pc = "price", !.work = work, !.todo = Working(work)]]
    BY <1>1 DEF Merge, work
  <2> QED
    BY <1>1, <2>1 DEF Merge, tables
<1>2. CASE Price(p)
  <2>1. PICK pay, left : job' = [job EXCEPT ![p] = [job[p] EXCEPT !.pc = "rows", !.pay = pay, !.left = left]]
    BY <1>2 DEF Price
  <2> QED
    BY <1>2, <2>1 DEF Price, tables
<1>3. CASE StoreWork(p)
  <2> DEFINE rest == job[p].todo \ {First(job[p].todo)}
             back == Working(job[p].work)
             on   == Working(job[p].pay)
  <2>1. \/ job' = [job EXCEPT ![p] = [job[p] EXCEPT !.pc = "bucket", !.todo = back]]
        \/ job' = [job EXCEPT ![p] = [job[p] EXCEPT !.pc = "credit", !.todo = on]]
        \/ job' = [job EXCEPT ![p] = [job[p] EXCEPT !.todo = rest]]
    BY <1>3, Zenon DEF StoreWork
  <2> HIDE DEF rest, back, on
  <2>2. job[p].pc = "rows" /\ windows' = windows /\ known' = known /\ now' = now
    BY <1>3 DEF StoreWork
  <2>3. CASE job' = [job EXCEPT ![p] = [job[p] EXCEPT !.pc = "bucket", !.todo = back]]
    BY <2>2, <2>3
  <2>4. CASE job' = [job EXCEPT ![p] = [job[p] EXCEPT !.pc = "credit", !.todo = on]]
    BY <2>2, <2>4
  <2>5. CASE job' = [job EXCEPT ![p] = [job[p] EXCEPT !.todo = rest]]
    BY <2>2, <2>5
  <2> QED
    BY <2>1, <2>3, <2>4, <2>5
<1>4. CASE ReadBucket(p)
  BY <1>4 DEF ReadBucket, tables
<1>5. CASE AddWork(p)
  BY <1>5 DEF AddWork
<1>6. CASE Credit(p)
  <2>1. CASE job[p].todo = {}
    <3> DEFINE todo == Working(job[p].pay)
    <3>1. job' = [job EXCEPT ![p] = [job[p] EXCEPT !.pc = "clear", !.todo = todo]]
      BY <1>6, <2>1 DEF Credit
    <3> HIDE DEF todo
    <3> QED
      BY <1>6, <3>1 DEF Credit
  <2>2. CASE job[p].todo # {}
    BY <1>6, <2>2 DEF Credit
  <2> QED
    BY <2>1, <2>2
<1>7. CASE Clear(p)
  BY <1>7 DEF Clear
<1>8. CASE Carry(p)
  BY <1>8 DEF Carry
<1>9. CASE Link(p)
  <2>1. CASE job[p].matured = {}
    BY <1>9, <2>1 DEF Link
  <2>2. CASE job[p].matured # {}
    <3>1. PICK b \in job[p].matured : Goes(p, [job[p] EXCEPT !.matured = @ \ {b}])
      BY <1>9, <2>2 DEF Link
    <3> QED
      BY <1>9, <3>1 DEF Link
  <2> QED
    BY <2>1, <2>2
<1> QED
  BY <1>1, <1>2, <1>3, <1>4, <1>5, <1>6, <1>7, <1>8, <1>9 DEF Filling

LEMMA StatingFacts ==
  ASSUME DOMAIN job = Cycles, NEW p \in Cycles, DOMAIN job[p] = DOMAIN Idle,
         job[p].reward \in Rewards, Stating(p)
  PROVE  /\ job[p].pc # "idle" /\ known' = known /\ now' = now
         /\ Goes(p, job'[p]) /\ Onward(job[p], job'[p])
         /\ \E s \in Statuses, w \in Rewards : SetWindow(p, s, w)
<1> USE IdleFacts, ZeroRewards DEF Goes, Onward, Steps
<1>1. CASE Weigh(p)
  <2> DEFINE work == Contributions(Counter, samples, MyWindow(p))
             pc   == IF job[p].reward = 0 THEN "rows" ELSE "merge"
  <2>1. job' = [job EXCEPT ![p] = [job[p] EXCEPT !.work = work, !.todo = Working(work), !.pc = pc]]
    BY <1>1 DEF Weigh
  <2>2. pc \in {"rows", "merge"}
    OBVIOUS
  <2> HIDE DEF work, pc
  <2> QED
    BY <1>1, <2>1, <2>2 DEF Weigh, Statuses
<1>2. CASE Defer(p)
  BY <1>2 DEF Defer, Statuses
<1>3. CASE Complete(p)
  BY <1>3 DEF Complete, Statuses
<1> QED
  BY <1>1, <1>2, <1>3 DEF Stating

LEMMA StepKeeps ==
  ASSUME WindowsInv, NEW p \in Cycles, Step(p)
  PROVE  WindowsInv'
<1>1. Holds(job[p])
  BY DEF WindowsInv
<1>2. ASSUME NEW x, Onward(job[p], x) PROVE Holds(x)
  BY <1>1, <1>2, HoldsKept DEF Onward, Holds
<1>3. CASE Filling(p)
  BY <1>1, <1>2, <1>3, FillingFacts, JobStep DEF WindowsInv, Holds
<1>4. CASE Stating(p)
  BY <1>1, <1>2, <1>4, StatingFacts, SetWindowStep DEF WindowsInv, Holds
<1> QED
  BY <1>3, <1>4, GatherKeeps, LookKeeps, CheckKeeps, OpenWindowStep, AbortKeeps
     DEF Step, Filling, Stating

\* Every window is an interval long, and the cycles' records fit.
THEOREM WindowsInvariant == Spec => []WindowsInv
<1>1. Init => WindowsInv
  <2> SUFFICES ASSUME Init PROVE WindowsInv
    OBVIOUS
  <2>1. \A p \in Cycles : job[p] = Idle
    BY DEF Init
  <2>2. \A p \in Cycles : Holds(job[p])
    BY <2>1, IdleFacts, ZeroRewards DEF Holds
  <2> QED
    BY <2>2 DEF Init, WindowsInv, Ranged
<1>2. WindowsInv /\ [Next]_vars => WindowsInv'
  <2> SUFFICES ASSUME WindowsInv, [Next]_vars PROVE WindowsInv'
    OBVIOUS
  <2>1. CASE Tick
    BY <2>1 DEF Tick, tables, WindowsInv
  <2>2. ASSUME NEW p \in Cycles, Start(p) \/ Step(p) \/ Abort(p) PROVE WindowsInv'
    BY <2>2, StartKeeps, StepKeeps, AbortKeeps
  <2>3. CASE UNCHANGED vars
    BY <2>3 DEF vars, tables, WindowsInv
  <2> QED
    BY <2>1, <2>2, <2>3 DEF Next
<1> QED
  BY <1>1, <1>2, PTL DEF Spec

-----------------------------------------------------------------------------
(* The periods.                                                            *)

Abut(ws) == \A i \in DOMAIN ws : i + 1 \in DOMAIN ws => ws[i + 1].start = ws[i].end

\* The period of record r is that of the first window, or follows a window.
Follows(r, ws) == r.from = ws[1].start \/ \E i \in DOMAIN ws : r.from = ws[i].end

\* The steps at which a cycle has looked up its period and has no window yet.
Opening == {"check", "open"}

\* Unless cycles have raced for the first period, those that are to open a window
\* agree on it while there is none, and afterwards follow one.
FollowsInv ==
    ~raced =>
        /\ Abut(windows)
        /\ windows = << >> =>
             \A p, q \in Cycles : job[p].pc \in Opening /\ job[q].pc \in Opening
                                    => job[p].from = job[q].from
        /\ windows # << >> =>
             \A p \in Cycles : job[p].pc \in Opening => Follows(job[p], windows)

\* A step that changes no period and sends no cycle to open one.
LEMMA PeriodsKept ==
  ASSUME WindowsInv, FollowsInv, windows' \in Seq(Shape), Len(windows') = Len(windows),
         \A i \in DOMAIN windows :
             windows'[i].start = windows[i].start /\ windows'[i].end = windows[i].end,
         raced' = raced,
         \A q \in Cycles : job'[q].pc \in Opening =>
             job[q].pc \in Opening /\ job'[q].from = job[q].from
  PROVE  FollowsInv'
<1> SUFFICES ASSUME ~raced' PROVE FollowsInv'
  BY DEF FollowsInv
<1>1. DOMAIN windows' = DOMAIN windows /\ (windows = << >> <=> windows' = << >>)
  BY DEF WindowsInv
<1>2. Abut(windows')
  BY <1>1 DEF FollowsInv, Abut
<1>3. CASE windows = << >>
  BY <1>1, <1>2, <1>3 DEF FollowsInv
<1>4. CASE windows # << >>
  <2>1. 1 \in DOMAIN windows
    BY <1>4 DEF WindowsInv
  <2>2. ASSUME NEW q \in Cycles, job'[q].pc \in Opening PROVE Follows(job'[q], windows')
    BY <1>1, <1>4, <2>1, <2>2 DEF FollowsInv, Follows
  <2> QED
    BY <1>1, <1>2, <1>4, <2>2 DEF FollowsInv
<1> QED
  BY <1>3, <1>4

LEMMA LookFollows ==
  ASSUME WindowsInv, FollowsInv, NEW p \in Cycles, Look(p)
  PROVE  FollowsInv'
<1> DEFINE end == windows[LatestWindow].end
<1>1. /\ windows' = windows /\ raced' = (raced \/ TwoFirsts(p)) /\ job[p].pc = "look"
      /\ DOMAIN job = Cycles /\ DOMAIN job[p] = DOMAIN Idle
  BY DEF Look, tables, WindowsInv, Holds
<1> SUFFICES ASSUME ~raced' PROVE FollowsInv'
  BY DEF FollowsInv
<1>2. ~raced /\ ~TwoFirsts(p) /\ Abut(windows')
  BY <1>1 DEF FollowsInv
<1>3. CASE windows = << >>
  <2> DEFINE from == job[p].at - Interval
  <2>1. job' = [job EXCEPT ![p] = [job[p] EXCEPT !.pc = "check", !.from = from]]
    BY <1>3 DEF Look, Goes
  <2>2. \A q \in Cycles \ {p} : job[q].pc \in Opening => job[q].from = from
    BY <1>2, <1>3 DEF TwoFirsts, Opening
  <2> HIDE DEF from
  <2>3. job'[p].from = from /\ \A q \in Cycles \ {p} : job'[q] = job[q]
    BY <1>1, <2>1, IdleFacts
  <2>4. \A q \in Cycles : job'[q].pc \in Opening => job'[q].from = from
    BY <2>2, <2>3
  <2> QED
    BY <1>1, <1>2, <1>3, <2>4 DEF FollowsInv
<1>4. CASE windows # << >> /\ job[p].at < end + Interval
  <2> DEFINE sid == LatestWindow
  <2>1. job' = [job EXCEPT ![p] = [job[p] EXCEPT !.pc = "link", !.sid = sid]]
    BY <1>4 DEF Look, Goes
  <2> HIDE DEF sid
  <2>2. job'[p].pc = "link" /\ \A q \in Cycles \ {p} : job'[q] = job[q]
    BY <1>1, <2>1, IdleFacts
  <2> QED
    BY <1>1, <1>2, <1>4, <2>2, Zenon DEF FollowsInv, Opening
<1>5. CASE windows # << >> /\ ~(job[p].at < end + Interval)
  <2>1. job' = [job EXCEPT ![p] = [job[p] EXCEPT !.pc = "check", !.from = end]]
    BY <1>5 DEF Look, Goes
  <2>2. \E i \in DOMAIN windows : end = windows[i].end
    BY <1>5, LatestFacts DEF WindowsInv
  <2> HIDE DEF end
  <2>3. job'[p].from = end /\ \A q \in Cycles \ {p} : job'[q] = job[q]
    BY <1>1, <2>1, IdleFacts
  <2>4. Follows(job'[p], windows)
    BY <2>2, <2>3 DEF Follows
  <2>5. \A q \in Cycles : job'[q].pc \in Opening => Follows(job'[q], windows)
    BY <1>2, <1>5, <2>3, <2>4 DEF FollowsInv
  <2> QED
    BY <1>1, <1>2, <1>5, <2>5 DEF FollowsInv
<1> QED
  BY <1>3, <1>4, <1>5

\* The first window has the period on which those without a window agree; a
\* later one follows a window, and no other than the last, as the one after it
\* would have the range.
LEMMA OpenFollows ==
  ASSUME WindowsInv, FollowsInv, NEW p \in Cycles, OpenWindow(p)
  PROVE  FollowsInv'
<1> DEFINE from == job[p].from
           last == Len(windows)
<1>1. /\ raced' = raced /\ job[p].pc = "open" /\ from \in Int
      /\ DOMAIN job = Cycles /\ DOMAIN job[p] = DOMAIN Idle
      /\ windows \in Seq(Shape) /\ Ranged(windows)
  BY DEF OpenWindow, WindowsInv, Holds
<1>2. job'[p].pc = "weigh" /\ \A q \in Cycles \ {p} : job'[q] = job[q]
  <2>1. PICK n : job' = [job EXCEPT ![p] = [job[p] EXCEPT !.pc = "weigh", !.sid = n]]
    BY DEF OpenWindow, Goes
  <2> QED
    BY <1>1, <2>1, IdleFacts
<1>3. \A q \in Cycles : job'[q].pc \in Opening => job[q].pc \in Opening /\ job'[q] = job[q]
  BY <1>2 DEF Opening
<1>4. CASE OfRange(from) # {}
  BY <1>1, <1>3, <1>4, OpenWindowFacts, PeriodsKept
<1>5. CASE OfRange(from) = {}
  <2> SUFFICES ASSUME ~raced PROVE FollowsInv'
    BY <1>1 DEF FollowsInv
  <2>1. /\ windows' \in Seq(Shape) /\ Len(windows') = last + 1
        /\ \A i \in DOMAIN windows : windows'[i] = windows[i]
        /\ windows'[last + 1].start = from
    BY <1>5, OpenWindowFacts
  <2>2. /\ DOMAIN windows = 1 .. last /\ DOMAIN windows' = 1 .. last + 1 /\ last \in Nat
        /\ windows' # << >>
    BY <1>1, <2>1
  <2>3. CASE windows = << >>
    <3>1. last = 0
      BY <2>3
    <3>2. ASSUME NEW q \in Cycles, job'[q].pc \in Opening PROVE Follows(job'[q], windows')
      <4>1. job'[q].from = from
        BY <1>1, <1>3, <2>3, <3>2 DEF FollowsInv, Opening
      <4> QED
        BY <2>1, <3>1, <4>1 DEF Follows
    <3>3. Abut(windows')
      BY <2>2, <3>1 DEF Abut
    <3> QED
      BY <2>2, <3>2, <3>3 DEF FollowsInv
  <2>4. CASE windows # << >>
    <3>1. 1 \in DOMAIN windows /\ last \in DOMAIN windows
      BY <1>1, <2>2, <2>4
    <3>2. from # windows[1].start
      BY <1>1, <1>5, <3>1 DEF Ranged, OfRange
    <3>3. PICK i \in DOMAIN windows : from = windows[i].end
      BY <1>1, <2>4, <3>2 DEF FollowsInv, Follows, Opening
    <3>4. i + 1 \notin DOMAIN windows
      BY <1>1, <1>5, <3>3 DEF FollowsInv, Abut, Ranged, OfRange
    <3>5. from = windows[last].end
      BY <2>2, <3>3, <3>4
    <3>6. Abut(windows')
      BY <2>1, <2>2, <3>5 DEF FollowsInv, Abut
    <3>7. ASSUME NEW q \in Cycles, job'[q].pc \in Opening PROVE Follows(job'[q], windows')
      BY <1>3, <2>1, <2>2, <2>4, <3>1, <3>7 DEF FollowsInv, Follows
    <3> QED
      BY <2>2, <3>6, <3>7 DEF FollowsInv
  <2> QED
    BY <2>3, <2>4
<1> QED
  BY <1>4, <1>5

\* The other steps.
LEMMA StepFollows ==
  ASSUME WindowsInv, FollowsInv, NEW p \in Cycles, Start(p) \/ Step(p) \/ Abort(p)
  PROVE  FollowsInv'
<1> DEFINE Calm(x) == x.pc \in Opening => job[p].pc \in Opening /\ x.from = job[p].from
<1>1. /\ windows \in Seq(Shape) /\ DOMAIN job = Cycles /\ DOMAIN job[p] = DOMAIN Idle
      /\ job[p].reward \in Rewards
  BY DEF WindowsInv, Holds
<1>2. ASSUME NEW x, Goes(p, x), Calm(x), windows' = windows, raced' = raced PROVE FollowsInv'
  BY <1>1, <1>2, PeriodsKept DEF Goes
<1>3. CASE Start(p)
  <2>1. PICK pc \in {"gather", "send"} : Goes(p, [Idle EXCEPT !.at = now, !.pc = pc])
    BY <1>3 DEF Start
  <2> QED
    BY <1>2, <1>3, <2>1, IdleFacts DEF Start, Opening
<1>4. CASE Abort(p) \/ Send(p)
  BY <1>2, <1>4, IdleFacts DEF Abort, Send, tables, Opening
<1>5. CASE Gather(p)
  <2>1. PICK m, a, w : Goes(p, [job[p] EXCEPT !.pc = "look", !.matured = m, !.paid = a, !.reward = w])
    BY <1>5 DEF Gather
  <2> QED
    BY <1>1, <1>2, <1>5, <2>1, IdleFacts DEF Gather, Opening
<1>6. CASE Check(p)
  <2>1. \/ Goes(p, [job[p] EXCEPT !.pc = "open"])
        \/ \E i, k, t : Goes(p, [job[p] EXCEPT !.sid = i, !.work = k, !.reward = 0,
                                               !.todo = t, !.pc = "bucket"])
        \/ \E i : Goes(p, [job[p] EXCEPT !.sid = i, !.pc = "link"])
    BY <1>6 DEF Check
  <2>2. CASE Goes(p, [job[p] EXCEPT !.pc = "open"])
    BY <1>1, <1>2, <1>6, <2>2, IdleFacts DEF Check, tables, Opening
  <2>3. ASSUME NEW i, NEW k, NEW t, Goes(p, [job[p] EXCEPT !.sid = i, !.work = k, !.reward = 0,
                                               !.todo = t, !.pc = "bucket"])
        PROVE  FollowsInv'
    BY <1>1, <1>2, <1>6, <2>3, IdleFacts DEF Check, tables, Opening
  <2>4. ASSUME NEW i, Goes(p, [job[p] EXCEPT !.sid = i, !.pc = "link"]) PROVE FollowsInv'
    BY <1>1, <1>2, <1>6, <2>4, IdleFacts DEF Check, tables, Opening
  <2> QED
    BY <2>1, <2>2, <2>3, <2>4
<1>7. CASE Filling(p)
  <2>1. raced' = raced
    BY <1>7 DEF Filling, Merge, Price, StoreWork, ReadBucket, AddWork, Credit, Clear, Carry, Link
  <2> QED
    BY <1>1, <1>2, <1>7, <2>1, FillingFacts DEF Onward, Opening
<1>8. CASE Stating(p)
  <2>1. raced' = raced
    BY <1>8 DEF Stating, Weigh, Defer, Complete
  <2>2. /\ windows' \in Seq(Shape) /\ Len(windows') = Len(windows)
        /\ \A i \in DOMAIN windows :
             windows'[i].start = windows[i].start /\ windows'[i].end = windows[i].end
    BY <1>1, <1>8, StatingFacts, SetWindowFacts DEF WindowsInv
  <2>3. \A q \in Cycles : job'[q].pc \in Opening =>
             job[q].pc \in Opening /\ job'[q].from = job[q].from
    BY <1>1, <1>8, StatingFacts DEF Onward, Opening, Goes
  <2> QED
    BY <2>1, <2>2, <2>3, PeriodsKept
<1> QED
  BY <1>3, <1>4, <1>5, <1>6, <1>7, <1>8, LookFollows, OpenFollows DEF Step, Filling, Stating

\* Whatever cycles stop half way or come late, and however they race for a period,
\* every window begins where the one before it ends, unless two cycles found no
\* window at all and took different times for the end of the first period.
THEOREM EveryPeriodOnce == Spec => []WindowsAbut
<1>1. Init => FollowsInv
  <2> SUFFICES ASSUME Init PROVE FollowsInv
    OBVIOUS
  <2>1. windows = << >> /\ \A p \in Cycles : job[p] = Idle
    BY DEF Init
  <2> QED
    BY <2>1, IdleFacts DEF FollowsInv, Abut, Opening
<1>2. WindowsInv /\ FollowsInv /\ [Next]_vars => FollowsInv'
  <2> SUFFICES ASSUME WindowsInv, FollowsInv, [Next]_vars PROVE FollowsInv'
    OBVIOUS
  <2>1. CASE Tick \/ UNCHANGED vars
    BY <2>1 DEF Tick, vars, tables, FollowsInv
  <2>2. ASSUME NEW p \in Cycles, Start(p) \/ Step(p) \/ Abort(p) PROVE FollowsInv'
    BY <2>2, StepFollows
  <2> QED
    BY <2>1, <2>2 DEF Next
<1>3. WindowsInv /\ FollowsInv => WindowsAbut
  BY DEF WindowsInv, FollowsInv, Ranged, Abut, WindowsAbut
<1> QED
  BY <1>1, <1>2, <1>3, WindowsInvariant, PTL DEF Spec

-----------------------------------------------------------------------------
(* Cycles that do not overlap.                                             *)

\* The steps at which a cycle has a window that it is to fill.
Fill == {"weigh", "merge", "price", "rows", "bucket", "add", "defer", "credit",
         "clear", "carry", "complete"}

\* The steps at which a cycle has found blocks, and no settlement has them.
Found == {"look", "check", "open"} \union Fill

InRange(ws, from) ==
    {i \in DOMAIN ws : ws[i].start = from /\ ws[i].end = from + Interval}

\* While no two cycles have overlapped one at most is at work, it opens a range
\* that has no window, and it fills a pending one.
AloneInv ==
    ~overlapped =>
        /\ \A p, q \in Cycles : job[p].pc # "idle" /\ job[q].pc # "idle" => p = q
        /\ \A p \in Cycles : job[p].pc = "open" => InRange(windows, job[p].from) = {}
        /\ \A p \in Cycles : job[p].pc \in Fill =>
              job[p].sid \in DOMAIN windows /\ windows[job[p].sid].status = "pending"

\* And while none has stopped before it had linked its blocks, the blocks a cycle
\* has found are new, and those that were funded are linked or about to be.
FundedInv ==
    ~overlapped /\ "link" \notin aborted =>
        /\ \A p \in Cycles : job[p].pc \in Found => job[p].matured \intersect DOMAIN links = {}
        /\ \A f \in funded : ~f.retried =>
              f.block \in DOMAIN links
                \/ \E p \in Cycles : job[p].pc = "link" /\ f.block \in job[p].matured
        /\ \A f, g \in funded : f.block = g.block /\ ~f.retried /\ ~g.retried => f = g

\* A completed window and its credits after a step.
CompletedStep ==
    ~overlapped' => \A i \in OfStatus({"completed"}) :
        /\ windows'[i] = windows[i]
        /\ \A u \in Users :
             /\ (<<i, u>> \in DOMAIN credits') = (<<i, u>> \in DOMAIN credits)
             /\ <<i, u>> \in DOMAIN credits =>
                  credits'[<<i, u>>] = credits[<<i, u>>]

SettledInv == WindowsInv /\ AloneInv /\ FundedInv

\* What the step of a cycle at work has to see to.
LEMMA OwnStep ==
  ASSUME SettledInv, NEW p \in Cycles, job[p].pc # "idle", NEW x, Goes(p, x),
         overlapped' = overlapped, aborted \subseteq aborted',
         ~overlapped =>
           /\ x.pc = "open" => InRange(windows', x.from) = {}
           /\ x.pc \in Fill =>
                x.sid \in DOMAIN windows' /\ windows'[x.sid].status = "pending",
         ~overlapped /\ "link" \notin aborted' =>
           /\ x.pc \in Found => x.matured \intersect DOMAIN links' = {}
           /\ \A f \in funded' : ~f.retried =>
                f.block \in DOMAIN links' \/ (x.pc = "link" /\ f.block \in x.matured)
           /\ \A f, g \in funded' : f.block = g.block /\ ~f.retried /\ ~g.retried => f = g
  PROVE  AloneInv' /\ FundedInv'
<1>1. DOMAIN job = Cycles /\ job'[p] = x /\ \A q \in Cycles \ {p} : job'[q] = job[q]
  BY DEF SettledInv, WindowsInv, Goes
<1>2. ~overlapped => \A q \in Cycles \ {p} : job'[q].pc = "idle"
  BY <1>1 DEF SettledInv, AloneInv
<1>3. AloneInv'
  BY <1>1, <1>2 DEF AloneInv, Fill
<1>4. FundedInv'
  BY <1>1, <1>2 DEF FundedInv, Found, Fill
<1> QED
  BY <1>3, <1>4

\* What is known of the cycle at work, while it is alone.
LEMMA AloneFacts ==
  ASSUME SettledInv, NEW p \in Cycles, job[p].pc # "idle", ~overlapped
  PROVE  /\ job[p].pc = "open" => InRange(windows, job[p].from) = {}
         /\ job[p].pc \in Fill =>
              job[p].sid \in DOMAIN windows /\ windows[job[p].sid].status = "pending"
         /\ "link" \notin aborted =>
              /\ job[p].pc \in Found => job[p].matured \intersect DOMAIN links = {}
              /\ \A f \in funded : ~f.retried =>
                   f.block \in DOMAIN links
                     \/ (job[p].pc = "link" /\ f.block \in job[p].matured)
              /\ \A f, g \in funded : f.block = g.block /\ ~f.retried /\ ~g.retried => f = g
<1>1. \A q \in Cycles \ {p} : job[q].pc = "idle"
  BY DEF SettledInv, AloneInv
<1> QED
  BY <1>1 DEF SettledInv, AloneInv, FundedInv

LEMMA SameTables ==
  ASSUME windows' = windows, credits' = credits
  PROVE  CompletedStep
  BY DEF CompletedStep, OfStatus

\* A cycle that fills a window goes on filling it, for the same blocks.
LEMMA FillsOn ==
  ASSUME DOMAIN job = Cycles, NEW p \in Cycles, DOMAIN job[p] = DOMAIN Idle,
         Filling(p) \/ Weigh(p), job[p].pc \in Fill \ {"defer", "complete"}
  PROVE  job'[p].matured = job[p].matured /\ job'[p].pc \in Fill
<1> USE IdleFacts DEF Goes
<1>1. CASE Merge(p)
  <2> DEFINE work == [u \in Users |-> job[p].work[u] + accrual[u]]
             todo == Working(work)
  <2>1. job' = [job EXCEPT ![p] = [job[p] EXCEPT !.pc = "price", !.work = work, !.todo = todo]]
    BY <1>1 DEF Merge
  <2> HIDE DEF work, todo
  <2> QED
    BY <2>1 DEF Fill
<1>2. CASE Price(p)
  <2>1. PICK pay, left : job' = [job EXCEPT ![p] = [job[p] EXCEPT !.pc = "rows", !.pay = pay, !.left = left]]
    BY <1>2 DEF Price
  <2> QED
    BY <2>1 DEF Fill
<1>3. CASE StoreWork(p)
  <2> DEFINE rest == job[p].todo \ {First(job[p].todo)}
             back == Working(job[p].work)
             on   == Working(job[p].pay)
  <2>1. \/ job' = [job EXCEPT ![p] = [job[p] EXCEPT !.pc = "bucket", !.todo = back]]
        \/ job' = [job EXCEPT ![p] = [job[p] EXCEPT !.pc = "credit", !.todo = on]]
        \/ job' = [job EXCEPT ![p] = [job[p] EXCEPT !.todo = rest]]
    BY <1>3, Zenon DEF StoreWork
  <2> HIDE DEF rest, back, on
  <2>2. CASE job' = [job EXCEPT ![p] = [job[p] EXCEPT !.pc = "bucket", !.todo = back]]
    BY <2>2 DEF Fill
  <2>3. CASE job' = [job EXCEPT ![p] = [job[p] EXCEPT !.pc = "credit", !.todo = on]]
    BY <2>3 DEF Fill
  <2>4. CASE job' = [job EXCEPT ![p] = [job[p] EXCEPT !.todo = rest]]
    BY <2>4 DEF Fill
  <2> QED
    BY <2>1, <2>2, <2>3, <2>4
<1>4. CASE ReadBucket(p)
  <2> DEFINE bucket == accrual[First(job[p].todo)]
  <2>1. \/ job' = [job EXCEPT ![p] = [job[p] EXCEPT !.pc = "defer"]]
        \/ job' = [job EXCEPT ![p] = [job[p] EXCEPT !.pc = "add", !.bucket = bucket]]
    BY <1>4, Zenon DEF ReadBucket
  <2> HIDE DEF bucket
  <2> QED
    BY <2>1 DEF Fill
<1>5. CASE AddWork(p)
  <2> DEFINE todo == job[p].todo \ {First(job[p].todo)}
  <2>1. job' = [job EXCEPT ![p] = [job[p] EXCEPT !.pc = "bucket", !.todo = todo, !.bucket = 0]]
    BY <1>5 DEF AddWork
  <2> HIDE DEF todo
  <2> QED
    BY <2>1 DEF Fill
<1>6. CASE Credit(p)
  <2> DEFINE rest == job[p].todo \ {First(job[p].todo)}
             todo == Working(job[p].pay)
  <2>1. \/ job' = [job EXCEPT ![p] = [job[p] EXCEPT !.pc = "clear", !.todo = todo]]
        \/ job' = [job EXCEPT ![p] = [job[p] EXCEPT !.todo = rest]]
    BY <1>6, Zenon DEF Credit
  <2> HIDE DEF rest, todo
  <2> QED
    BY <2>1 DEF Fill
<1>7. CASE Clear(p)
  <2> DEFINE rest == job[p].todo \ {First(job[p].todo)}
  <2>1. \/ job' = [job EXCEPT ![p] = [job[p] EXCEPT !.pc = "carry"]]
        \/ job' = [job EXCEPT ![p] = [job[p] EXCEPT !.todo = rest]]
    BY <1>7, Zenon DEF Clear
  <2> HIDE DEF rest
  <2> QED
    BY <2>1 DEF Fill
<1>8. CASE Carry(p)
  BY <1>8 DEF Carry, Fill
<1>9. CASE Weigh(p)
  <2> DEFINE work == Contributions(Counter, samples, MyWindow(p))
             todo == Working(work)
             pc   == IF job[p].reward = 0 THEN "rows" ELSE "merge"
  <2>1. job' = [job EXCEPT ![p] = [job[p] EXCEPT !.work = work, !.todo = todo, !.pc = pc]]
    BY <1>9 DEF Weigh
  <2>2. pc \in {"rows", "merge"}
    OBVIOUS
  <2> HIDE DEF work, todo, pc
  <2> QED
    BY <2>1, <2>2 DEF Fill
<1>10. ~Link(p)
  BY DEF Link, Fill
<1> QED
  BY <1>1, <1>2, <1>3, <1>4, <1>5, <1>6, <1>7, <1>8, <1>9, <1>10 DEF Filling

LEMMA StartSettles ==
  ASSUME SettledInv, NEW p \in Cycles, Start(p)
  PROVE  AloneInv' /\ FundedInv' /\ CompletedStep
<1>1. /\ windows' = windows /\ links' = links /\ funded' = funded /\ aborted' = aborted
      /\ credits' = credits
  BY DEF Start
<1>2. ~overlapped' => ~overlapped /\ \A q \in Cycles : job[q].pc = "idle"
  BY DEF Start
<1>3. job'[p].pc \in {"gather", "send"} /\ \A q \in Cycles \ {p} : job'[q] = job[q]
  BY IdleFacts DEF Start, Goes, SettledInv, WindowsInv
<1>4. AloneInv'
  BY <1>1, <1>2, <1>3 DEF SettledInv, AloneInv, Fill
<1>5. FundedInv'
  BY <1>1, <1>2, <1>3 DEF SettledInv, FundedInv, Found, Fill
<1> QED
  BY <1>1, <1>4, <1>5, SameTables

LEMMA GatherSettles ==
  ASSUME SettledInv, NEW p \in Cycles, Gather(p)
  PROVE  AloneInv' /\ FundedInv' /\ CompletedStep
<1> DEFINE x == job'[p]
<1>1. /\ windows' = windows /\ links' = links /\ funded' = funded /\ aborted' = aborted
      /\ credits' = credits /\ overlapped' = overlapped /\ job[p].pc = "gather"
  BY DEF Gather, KnownRewards
<1>2. Goes(p, x) /\ x.pc = "look" /\ x.matured = MaturedBlocks(known', MyWindow(p))
  <2>1. DOMAIN job = Cycles /\ DOMAIN job[p] = DOMAIN Idle
    BY DEF SettledInv, WindowsInv, Holds
  <2>2. PICK rewarded, reward :
          Goes(p, [job[p] EXCEPT !.pc = "look", !.matured = MaturedBlocks(known', MyWindow(p)),
                                 !.paid = rewarded, !.reward = reward])
    BY DEF Gather, KnownRewards
  <2> QED
    BY <2>1, <2>2, IdleFacts DEF Goes
<1>3. x.matured \intersect DOMAIN links = {}
  BY <1>2 DEF MaturedBlocks
<1> HIDE DEF x
<1> QED
  BY <1>1, <1>2, <1>3, AloneFacts, OwnStep, SameTables DEF Fill

LEMMA LookSettles ==
  ASSUME SettledInv, NEW p \in Cycles, Look(p)
  PROVE  AloneInv' /\ FundedInv' /\ CompletedStep
<1> DEFINE x   == job'[p]
           end == windows[LatestWindow].end
<1>1. /\ windows' = windows /\ links' = links /\ funded' = funded /\ aborted' = aborted
      /\ credits' = credits /\ overlapped' = overlapped /\ job[p].pc = "look"
  BY DEF Look, tables
<1>2. Goes(p, x) /\ x.pc \in {"check", "link"} /\ x.matured = job[p].matured
  <2>1. DOMAIN job = Cycles /\ DOMAIN job[p] = DOMAIN Idle
    BY DEF SettledInv, WindowsInv, Holds
  <2>2. CASE windows = << >>
    <3>1. Goes(p, [job[p] EXCEPT !.pc = "check", !.from = job[p].at - Interval])
      BY <2>2 DEF Look
    <3> QED
      BY <2>1, <3>1, IdleFacts DEF Goes
  <2>3. CASE windows # << >> /\ job[p].at < end + Interval
    <3>1. Goes(p, [job[p] EXCEPT !.pc = "link", !.sid = LatestWindow])
      BY <2>3 DEF Look
    <3> QED
      BY <2>1, <3>1, IdleFacts DEF Goes
  <2>4. CASE windows # << >> /\ ~(job[p].at < end + Interval)
    <3>1. Goes(p, [job[p] EXCEPT !.pc = "check", !.from = end])
      BY <2>4 DEF Look
    <3> QED
      BY <2>1, <3>1, IdleFacts DEF Goes
  <2> QED
    BY <2>2, <2>3, <2>4
<1> HIDE DEF x, end
<1> QED
  BY <1>1, <1>2, AloneFacts, OwnStep, SameTables DEF Fill, Found

LEMMA CheckSettles ==
  ASSUME SettledInv, NEW p \in Cycles, Check(p)
  PROVE  AloneInv' /\ FundedInv' /\ CompletedStep
<1> DEFINE x == job'[p]
           R == OfRange(job[p].from)
           i == CHOOSE j \in R : TRUE
<1>1. /\ windows' = windows /\ links' = links /\ funded' = funded /\ aborted' = aborted
      /\ credits' = credits /\ overlapped' = overlapped /\ job[p].pc = "check"
  BY DEF Check, tables
<1>2. /\ Goes(p, x) /\ x.matured = job[p].matured
      /\ \/ x.pc = "open" /\ x.from = job[p].from /\ R = {}
         \/ x.pc = "bucket" /\ x.sid \in DOMAIN windows /\ windows[x.sid].status = "pending"
         \/ x.pc = "link"
  <2>1. DOMAIN job = Cycles /\ DOMAIN job[p] = DOMAIN Idle
    BY DEF SettledInv, WindowsInv, Holds
  <2>2. CASE R = {}
    <3>1. Goes(p, [job[p] EXCEPT !.pc = "open"])
      BY <2>2 DEF Check
    <3> QED
      BY <2>1, <2>2, <3>1, IdleFacts DEF Goes
  <2>3. CASE R # {} /\ windows[i].status = "pending"
    <3> DEFINE work == Contributions(Counter, samples, MyWindow(p))
               todo == Working(work)
    <3>1. Goes(p, [job[p] EXCEPT !.sid = i, !.work = work, !.reward = 0,
                                 !.todo = todo, !.pc = "bucket"])
      BY <2>3 DEF Check
    <3>2. i \in DOMAIN windows
      BY <2>3 DEF OfRange
    <3> HIDE DEF work, todo, i
    <3> QED
      BY <2>1, <2>3, <3>1, <3>2, IdleFacts DEF Goes
  <2>4. CASE R # {} /\ windows[i].status # "pending"
    <3>1. Goes(p, [job[p] EXCEPT !.sid = i, !.pc = "link"])
      BY <2>4 DEF Check
    <3> HIDE DEF i
    <3> QED
      BY <2>1, <3>1, IdleFacts DEF Goes
  <2> QED
    BY <2>2, <2>3, <2>4
<1>3. R = InRange(windows, job[p].from)
  BY DEF OfRange, InRange
<1> HIDE DEF x, R, i
<1> QED
  BY <1>1, <1>2, <1>3, AloneFacts, OwnStep, SameTables DEF Fill, Found

LEMMA OpenWindowSettles ==
  ASSUME SettledInv, NEW p \in Cycles, OpenWindow(p)
  PROVE  AloneInv' /\ FundedInv' /\ CompletedStep
<1> DEFINE x    == job'[p]
           from == job[p].from
           new  == Window(from, "pending", 0)
<1>1. /\ links' = links /\ funded' = funded /\ aborted' = aborted /\ credits' = credits
      /\ overlapped' = overlapped /\ job[p].pc = "open" /\ new.status = "pending"
      /\ DOMAIN job = Cycles /\ DOMAIN job[p] = DOMAIN Idle /\ windows \in Seq(Shape)
  BY DEF OpenWindow, Window, SettledInv, WindowsInv, Holds
<1> HIDE DEF new
<1>2. Goes(p, x) /\ x.pc = "weigh" /\ x.matured = job[p].matured
  <2>1. PICK sid : Goes(p, [job[p] EXCEPT !.pc = "weigh", !.sid = sid])
    <3>1. CASE OfRange(from) = {}
      BY <3>1 DEF OpenWindow
    <3>2. CASE OfRange(from) # {}
      BY <3>2 DEF OpenWindow
    <3> QED
      BY <3>1, <3>2
  <2> QED
    BY <1>1, <2>1, IdleFacts DEF Goes
<1>3. CASE overlapped
  BY <1>1, <1>2, <1>3, OwnStep DEF CompletedStep
<1>4. CASE ~overlapped
  <2>1. OfRange(from) = {}
    BY <1>1, <1>4, AloneFacts DEF OfRange, InRange
  <2>2. windows' = Append(windows, new) /\ Goes(p, [job[p] EXCEPT !.pc = "weigh", !.sid = Len(windows) + 1])
    BY <2>1 DEF OpenWindow, new
  <2>3. x.sid = Len(windows) + 1
    BY <1>1, <2>2, IdleFacts DEF Goes
  <2>4. /\ DOMAIN windows' = 1 .. Len(windows) + 1 /\ windows'[Len(windows) + 1] = new
        /\ \A i \in DOMAIN windows : windows'[i] = windows[i]
    BY <1>1, <2>2
  <2>5. x.sid \in DOMAIN windows' /\ windows'[x.sid].status = "pending"
    BY <1>1, <2>3, <2>4
  <2>6. CompletedStep
    BY <1>1, <2>4 DEF CompletedStep, OfStatus
  <2> HIDE DEF x
  <2> QED
    BY <1>1, <1>2, <2>5, <2>6, AloneFacts, OwnStep DEF Fill, Found
<1> QED
  BY <1>3, <1>4

\* The steps that fill a window and leave all windows alone.
LEMMA FillingSettles ==
  ASSUME SettledInv, NEW p \in Cycles, Filling(p), job[p].pc \in Fill \ {"defer", "complete"}
  PROVE  AloneInv' /\ FundedInv' /\ CompletedStep
<1> DEFINE x == job'[p]
<1>1. DOMAIN job = Cycles /\ DOMAIN job[p] = DOMAIN Idle
  BY DEF SettledInv, WindowsInv, Holds
<1>2. /\ windows' = windows /\ Goes(p, x) /\ x.sid = job[p].sid
      /\ x.matured = job[p].matured /\ x.pc \in Fill /\ job[p].pc # "idle"
  BY <1>1, FillingFacts, FillsOn DEF Onward
<1>3. links' = links /\ funded' = funded /\ aborted' = aborted /\ overlapped' = overlapped
  BY DEF Filling, Merge, Price, StoreWork, ReadBucket, AddWork, Credit, Clear, Carry,
         Link, Fill, tables
<1>4. CompletedStep
  <2>1. CASE Credit(p)
    <3>1. ~overlapped => windows[job[p].sid].status = "pending"
      BY <1>2, AloneFacts
    <3>2. CASE job[p].todo = {}
      BY <1>2, <2>1, <3>2, SameTables DEF Credit
    <3>3. CASE job[p].todo # {}
      <4> DEFINE u == First(job[p].todo)
      <4>1. credits' = Upsert(credits, <<job[p].sid, u>>, job[p].pay[u])
        BY <2>1, <3>3 DEF Credit
      <4> HIDE DEF u
      <4>2. \A k : k # <<job[p].sid, u>> =>
              /\ (k \in DOMAIN credits') = (k \in DOMAIN credits)
              /\ k \in DOMAIN credits => credits'[k] = credits[k]
        BY <4>1 DEF Upsert
      <4>3. ~overlapped => \A i \in OfStatus({"completed"}), v \in Users : <<i, v>> # <<job[p].sid, u>>
        BY <3>1 DEF OfStatus
      <4>4. ~overlapped' => ~overlapped
        BY <1>3
      <4> QED
        BY <1>2, <4>2, <4>3, <4>4 DEF CompletedStep
    <3> QED
      BY <3>2, <3>3
  <2>2. CASE ~Credit(p)
    <3>1. credits' = credits
      BY <2>2 DEF Filling, Merge, Price, StoreWork, ReadBucket, AddWork, Clear, Carry,
                  Link, Fill, tables
    <3> QED
      BY <1>2, <3>1, SameTables
  <2> QED
    BY <2>1, <2>2
<1> HIDE DEF x
<1> QED
  BY <1>2, <1>3, <1>4, AloneFacts, OwnStep DEF Fill, Found

\* Only the window a cycle fills changes its state, and it is pending.
LEMMA StateSettles ==
  ASSUME SettledInv, NEW p \in Cycles, job[p].pc \in Fill, NEW s, NEW w, SetWindow(p, s, w),
         credits' = credits, overlapped' = overlapped
  PROVE  /\ CompletedStep /\ DOMAIN windows' = DOMAIN windows
         /\ job[p].sid \in DOMAIN windows => windows'[job[p].sid].status = s
<1> DEFINE sid == job[p].sid
           new == [windows[sid] EXCEPT !.status = s, !.reward = w]
<1>1. windows' = [windows EXCEPT ![sid] = new]
  BY DEF SetWindow
<1>2. windows \in Seq(Shape)
  BY DEF SettledInv, WindowsInv
<1>3. sid \in DOMAIN windows => new.status = s
  <2> SUFFICES ASSUME sid \in DOMAIN windows PROVE new.status = s
    OBVIOUS
  <2>1. windows[sid] \in Shape
    BY <1>2
  <2> QED
    BY <2>1 DEF Shape
<1> HIDE DEF new
<1>4. DOMAIN windows' = DOMAIN windows
  BY <1>1, <1>2
<1>5. \A i \in DOMAIN windows : i # sid => windows'[i] = windows[i]
  BY <1>1, <1>2
<1>6. ~overlapped => windows[sid].status = "pending"
  BY AloneFacts DEF Fill
<1>7. CompletedStep
  BY <1>5, <1>6 DEF CompletedStep, OfStatus
<1>8. sid \in DOMAIN windows => windows'[sid] = new
  BY <1>1, <1>2
<1> QED
  BY <1>3, <1>4, <1>7, <1>8

LEMMA WeighSettles ==
  ASSUME SettledInv, NEW p \in Cycles, Weigh(p)
  PROVE  AloneInv' /\ FundedInv' /\ CompletedStep
<1> DEFINE x == job'[p]
<1>1. /\ DOMAIN job = Cycles /\ DOMAIN job[p] = DOMAIN Idle /\ job[p].reward \in Rewards
      /\ job[p].pc = "weigh" /\ SetWindow(p, "pending", job[p].reward)
      /\ links' = links /\ funded' = funded /\ aborted' = aborted
      /\ credits' = credits /\ overlapped' = overlapped
  BY DEF SettledInv, WindowsInv, Holds, Weigh
<1>2. Goes(p, x) /\ x.sid = job[p].sid
  BY <1>1, StatingFacts DEF Stating, Onward
<1>3. x.matured = job[p].matured /\ x.pc \in Fill
  BY <1>1, FillsOn DEF Fill
<1>4. /\ CompletedStep /\ DOMAIN windows' = DOMAIN windows
      /\ x.sid \in DOMAIN windows => windows'[x.sid].status = "pending"
  BY <1>1, <1>2, StateSettles DEF Fill
<1> HIDE DEF x
<1> QED
  BY <1>1, <1>2, <1>3, <1>4, AloneFacts, OwnStep DEF Fill, Found

LEMMA DeferSettles ==
  ASSUME SettledInv, NEW p \in Cycles, Defer(p)
  PROVE  AloneInv' /\ FundedInv' /\ CompletedStep
<1> DEFINE x == job'[p]
<1>1. /\ DOMAIN job = Cycles /\ DOMAIN job[p] = DOMAIN Idle
      /\ job[p].pc = "defer" /\ SetWindow(p, "deferred", 0)
      /\ links' = links /\ funded' = funded /\ aborted' = aborted
      /\ credits' = credits /\ overlapped' = overlapped
      /\ Goes(p, [job[p] EXCEPT !.pc = "link", !.work = Nobody])
  BY DEF SettledInv, WindowsInv, Holds, Defer
<1>2. Goes(p, x) /\ x.matured = job[p].matured /\ x.pc = "link"
  BY <1>1, IdleFacts DEF Goes
<1>3. CompletedStep
  BY <1>1, StateSettles DEF Fill
<1> HIDE DEF x
<1> QED
  BY <1>1, <1>2, <1>3, AloneFacts, OwnStep DEF Fill, Found

\* A completed window's blocks are about to be linked to it.
LEMMA CompleteSettles ==
  ASSUME SettledInv, NEW p \in Cycles, Complete(p)
  PROVE  AloneInv' /\ FundedInv' /\ CompletedStep
<1> DEFINE x   == job'[p]
           m   == job[p].matured
           new == {[block |-> b, sid |-> job[p].sid, retried |-> b \notin m] : b \in job[p].paid}
<1>1. /\ DOMAIN job = Cycles /\ DOMAIN job[p] = DOMAIN Idle
      /\ job[p].pc = "complete" /\ SetWindow(p, "completed", job[p].reward)
      /\ links' = links /\ aborted' = aborted /\ funded' = funded \union new
      /\ credits' = credits /\ overlapped' = overlapped
      /\ Goes(p, [job[p] EXCEPT !.pc = "link", !.work = Nobody, !.pay = Nobody])
  BY DEF SettledInv, WindowsInv, Holds, Complete
<1>2. Goes(p, x) /\ x.matured = m /\ x.pc = "link"
  BY <1>1, IdleFacts DEF Goes
<1>3. CompletedStep
  BY <1>1, StateSettles DEF Fill
<1> DEFINE Of(b) == [block |-> b, sid |-> job[p].sid, retried |-> b \notin m]
<1>4. \A f \in new : f = Of(f.block) /\ (~f.retried => f.block \in m)
  <2> SUFFICES ASSUME NEW b \in job[p].paid
               PROVE  Of(b) = Of(Of(b).block) /\ (~Of(b).retried => Of(b).block \in m)
    OBVIOUS
  <2>1. Of(b).block = b /\ (Of(b).retried <=> b \notin m)
    OBVIOUS
  <2> QED
    BY <2>1
<1> HIDE DEF Of
<1>5. \A f, g \in new : f.block = g.block => f = g
  BY <1>4
<1> HIDE DEF x, new, m
<1>6. ASSUME ~overlapped, "link" \notin aborted
      PROVE  /\ \A f \in funded' : ~f.retried =>
                  f.block \in DOMAIN links' \/ (x.pc = "link" /\ f.block \in x.matured)
             /\ \A f, g \in funded' : f.block = g.block /\ ~f.retried /\ ~g.retried => f = g
  <2>1. /\ m \intersect DOMAIN links = {}
        /\ \A f \in funded : ~f.retried => f.block \in DOMAIN links
        /\ \A f, g \in funded : f.block = g.block /\ ~f.retried /\ ~g.retried => f = g
    BY <1>1, <1>6, AloneFacts DEF Found, Fill, m
  <2>2. \A f \in funded, g \in new : f.block = g.block => f.retried \/ g.retried
    BY <2>1, <1>4
  <2> QED
    BY <1>1, <1>2, <1>4, <1>5, <2>1, <2>2
<1> QED
  BY <1>1, <1>2, <1>3, <1>6, OwnStep DEF Fill, Found

LEMMA LinkSettles ==
  ASSUME SettledInv, NEW p \in Cycles, Link(p)
  PROVE  AloneInv' /\ FundedInv' /\ CompletedStep
<1> DEFINE x == job'[p]
           m == job[p].matured
<1>1. /\ DOMAIN job = Cycles /\ DOMAIN job[p] = DOMAIN Idle /\ job[p].pc = "link"
      /\ windows' = windows /\ funded' = funded /\ aborted' = aborted
      /\ credits' = credits /\ overlapped' = overlapped
  BY DEF SettledInv, WindowsInv, Holds, Link
<1>2. /\ Goes(p, x) /\ x.pc \in {"link", "send"}
      /\ \A b \in m \union DOMAIN links : b \in DOMAIN links' \/ (x.pc = "link" /\ b \in x.matured)
  <2>1. CASE m = {}
    <3>1. links' = links /\ Goes(p, [job[p] EXCEPT !.pc = "send"])
      BY <2>1 DEF Link
    <3> QED
      BY <1>1, <2>1, <3>1, IdleFacts DEF Goes
  <2>2. CASE m # {}
    <3>1. PICK b \in m : /\ LinkTo(b, job[p].sid, IF b \in job[p].paid THEN Reward[b] ELSE 0)
                         /\ Goes(p, [job[p] EXCEPT !.matured = m \ {b}])
      BY <2>2 DEF Link
    <3>2. DOMAIN links' = DOMAIN links \union {b}
      BY <3>1 DEF LinkTo, Upsert
    <3>3. Goes(p, x) /\ x.pc = "link" /\ x.matured = m \ {b}
      BY <1>1, <3>1, IdleFacts DEF Goes
    <3> QED
      BY <3>2, <3>3
  <2> QED
    BY <2>1, <2>2
<1> HIDE DEF x
<1>3. ASSUME ~overlapped, "link" \notin aborted
      PROVE  /\ \A f \in funded' : ~f.retried =>
                  f.block \in DOMAIN links' \/ (x.pc = "link" /\ f.block \in x.matured)
             /\ \A f, g \in funded' : f.block = g.block /\ ~f.retried /\ ~g.retried => f = g
  BY <1>1, <1>2, <1>3, AloneFacts
<1> QED
  BY <1>1, <1>2, <1>3, OwnStep, SameTables DEF Fill, Found

LEMMA EndSettles ==
  ASSUME SettledInv, NEW p \in Cycles, Abort(p) \/ Send(p)
  PROVE  AloneInv' /\ FundedInv' /\ CompletedStep
<1>1. /\ Goes(p, Idle) /\ windows' = windows /\ links' = links /\ funded' = funded
      /\ credits' = credits /\ overlapped' = overlapped /\ job[p].pc # "idle"
      /\ aborted \subseteq aborted'
      /\ job[p].pc = "link" => "link" \in aborted'
  BY DEF Abort, Send, tables, Midway
<1> QED
  BY <1>1, IdleFacts, AloneFacts, OwnStep, SameTables DEF Fill, Found

LEMMA StepSettles ==
  ASSUME SettledInv, NEW p \in Cycles, Step(p)
  PROVE  AloneInv' /\ FundedInv' /\ CompletedStep
<1>1. ASSUME Merge(p) \/ Price(p) \/ StoreWork(p) \/ ReadBucket(p) \/ AddWork(p)
               \/ Credit(p) \/ Clear(p) \/ Carry(p)
      PROVE  Filling(p) /\ job[p].pc \in Fill \ {"defer", "complete"}
  BY <1>1 DEF Filling, Merge, Price, StoreWork, ReadBucket, AddWork, Credit, Clear, Carry, Fill
<1> QED
  BY <1>1, FillingSettles, GatherSettles, LookSettles, CheckSettles, OpenWindowSettles,
     WeighSettles, DeferSettles, CompleteSettles, LinkSettles, EndSettles DEF Step

LEMMA NextSettles ==
  ASSUME SettledInv, [Next]_vars
  PROVE  AloneInv' /\ FundedInv' /\ [CompletedStep]_vars
<1>1. CASE Tick \/ UNCHANGED vars
  <2>1. /\ windows' = windows /\ links' = links /\ funded' = funded /\ aborted' = aborted
        /\ credits' = credits /\ overlapped' = overlapped /\ job' = job
    BY <1>1 DEF Tick, vars, tables
  <2> QED
    BY <2>1, SameTables DEF SettledInv, AloneInv, FundedInv, InRange
<1>2. ASSUME NEW p \in Cycles, Start(p) \/ Step(p) \/ Abort(p)
      PROVE  AloneInv' /\ FundedInv' /\ CompletedStep
  BY <1>2, StartSettles, StepSettles, EndSettles
<1> QED
  BY <1>1, <1>2 DEF Next

\* Windows abut; unless two cycles overlap, one is at work, on the last window.
THEOREM SettledInvariant == Spec => []SettledInv
<1>1. Init => AloneInv /\ FundedInv
  <2> SUFFICES ASSUME Init PROVE AloneInv /\ FundedInv
    OBVIOUS
  <2>1. (\A p \in Cycles : job[p] = Idle) /\ funded = {}
    BY DEF Init
  <2> QED
    BY <2>1, IdleFacts DEF AloneInv, FundedInv, Fill, Found
<1>2. WindowsInv /\ AloneInv /\ FundedInv /\ [Next]_vars => AloneInv' /\ FundedInv'
  BY NextSettles DEF SettledInv
<1> QED
  BY <1>1, <1>2, WindowsInvariant, PTL DEF Spec, SettledInv

\* A completed window stays as it is, with its credits, unless cycles overlap.
THEOREM CompletedStay == Spec => CompletedStays
<1>1. SettledInv /\ [Next]_vars => [CompletedStep]_vars
  BY NextSettles
<1>2. CompletedStays <=> [][CompletedStep]_vars
  BY PTL DEF CompletedStays, CompletedStep
<1> QED
  BY <1>1, <1>2, SettledInvariant, PTL DEF Spec

\* A block brings its reward once, unless two cycles overlap or one stops while
\* it links its blocks.
THEOREM MatureOnce == Spec => []MaturesOnce
<1>1. SettledInv => MaturesOnce
  BY DEF SettledInv, FundedInv, MaturesOnce
<1> QED
  BY <1>1, SettledInvariant, PTL
-----------------------------------------------------------------------------
(* The arithmetic of a settlement.                                         *)

LEMMA FloorFacts ==
  ASSUME NEW total \in Nat, total > 0, NEW x \in Nat
  PROVE  x \div total \in Nat /\ total * (x \div total) <= x
  OBVIOUS

\* What is shared out is the whole, or nothing if nobody has worked.
THEOREM AllocationShares ==
  ASSUME NEW basis \in [Users -> Nat], NEW D \in Nat
  PROVE  /\ Allocation(basis, D) \in [Users -> Nat]
         /\ SumOver(Allocation(basis, D), Users) \in {0, D}
<1> DEFINE total == SumOver(basis, Users)
           floor == [u \in Users |-> (D * basis[u]) \div total]
           left  == D - SumOver(floor, Users)
           top   == CHOOSE u \in Users : \A v \in Users :
                      basis[v] < basis[u] \/ (basis[v] = basis[u] /\ v <= u)
           none  == [u \in Users |-> 0]
<1>1. IsFiniteSet(Users) /\ Users \subseteq Nat /\ Users # {} /\ DOMAIN basis = Users
  BY SettlementAssumption
<1>2. total \in Nat
  BY <1>1, SumOverNat
<1>3. Allocation(basis, D) = IF total = 0 \/ D = 0 THEN none ELSE [floor EXCEPT ![top] = @ + left]
  BY <1>1 DEF Allocation
<1>4. CASE total = 0 \/ D = 0
  <2>1. Allocation(basis, D) = none
    BY <1>3, <1>4
  <2>2. none \in [Users -> Nat] /\ SumOver(none, Users) = 0
    <3>1. SumOver(none, Users) = Cardinality(Users) * 0
      <4>1. 0 \in Int /\ \A u \in Users : none[u] = 0
        OBVIOUS
      <4> HIDE DEF none
      <4> QED
        BY <1>1, <4>1, SumOverConstant, Zenon
    <3>2. Cardinality(Users) \in Nat
      BY <1>1, FS_CardinalityType
    <3> QED
      BY <3>1, <3>2
  <2> QED
    BY <2>1, <2>2
<1>5. CASE total # 0 /\ D # 0
  <2>1. \A u \in Users : floor[u] \in Nat /\ total * floor[u] <= D * basis[u]
    <3>1. ASSUME NEW u \in Users PROVE floor[u] \in Nat /\ total * floor[u] <= D * basis[u]
      <4>1. PICK x \in Nat : x = D * basis[u]
        OBVIOUS
      <4>2. floor[u] = x \div total /\ total > 0
        BY <1>2, <1>5, <4>1
      <4> HIDE DEF floor, total
      <4> QED
        BY <1>2, <4>1, <4>2, FloorFacts
    <3> QED
      BY <3>1
  <2>2. top \in Users
    <3>0. \A u \in Users : basis[u] \in Int
      BY <1>1
    <3>1. \E u \in Users : \A v \in Users : basis[v] < basis[u] \/ (basis[v] = basis[u] /\ v <= u)
      BY <1>1, <3>0, TopExists
    <3> QED
      BY <3>1
  <2> HIDE DEF floor, top
  <2>3. SumOver(floor, Users) \in Nat
    BY <1>1, <2>1, SumOverNat
  <2>4. total * SumOver(floor, Users) <= D * total
    <3> DEFINE F == [u \in Users |-> total * floor[u]]
               B == [u \in Users |-> D * basis[u]]
    <3>1. SumOver(F, Users) = total * SumOver(floor, Users)
      <4>1. \A u \in Users : floor[u] \in Int /\ F[u] = total * floor[u]
        BY <2>1
      <4>2. total \in Int
        BY <1>2
      <4>3. IsFiniteSet(Users)
        BY <1>1
      <4> HIDE DEF F, total
      <4> QED
        BY <4>1, <4>2, <4>3, SumOverScale
    <3>2. SumOver(B, Users) = D * total
      <4>1. \A u \in Users : basis[u] \in Int /\ B[u] = D * basis[u]
        OBVIOUS
      <4>2. D \in Int
        OBVIOUS
      <4>3. IsFiniteSet(Users)
        BY <1>1
      <4> HIDE DEF B
      <4> QED
        BY <4>1, <4>2, <4>3, SumOverScale
    <3>3. SumOver(F, Users) <= SumOver(B, Users)
      <4>1. \A u \in Users : F[u] \in Int /\ B[u] \in Int /\ F[u] <= B[u]
        BY <1>2, <2>1
      <4> HIDE DEF F, B
      <4> QED
        BY <1>1, <4>1, SumOverMonotone
    <3> HIDE DEF F, B
    <3> QED
      BY <3>1, <3>2, <3>3
  <2>5. SumOver(floor, Users) <= D
    <3>1. PICK s \in Nat, t \in Nat : s = SumOver(floor, Users) /\ t = total
      BY <1>2, <2>3
    <3>2. t * s <= D * t /\ t > 0
      BY <1>5, <2>4, <3>1
    <3>3. s <= D
      BY <3>2
    <3> QED
      BY <3>1, <3>3
  <2>6. left \in Nat
    BY <2>3, <2>5
  <2> DEFINE pay == [floor EXCEPT ![top] = @ + left]
  <2>7. DOMAIN floor = Users
    BY DEF floor
  <2>8. /\ DOMAIN pay = Users /\ pay[top] = floor[top] + left
        /\ \A u \in Users \ {top} : pay[u] = floor[u]
    BY <2>2, <2>7
  <2>9. pay = Allocation(basis, D)
    BY <1>3, <1>5
  <2> HIDE DEF left
  <2>10. \A u \in Users : pay[u] \in Nat
    BY <2>1, <2>2, <2>6, <2>8
  <2>11. pay \in [Users -> Nat]
    BY <2>7, <2>10
  <2> HIDE DEF pay, total
  <2>12. SumOver(pay, Users) = SumOver(floor, Users) + (pay[top] - floor[top])
    <3>1. /\ \A u \in Users : floor[u] \in Int /\ pay[u] \in Int
          /\ \A u \in Users \ {top} : pay[u] = floor[u]
      BY <2>1, <2>8, <2>10
    <3> QED
      BY <1>1, <2>2, <3>1, SumOverChange, Zenon
  <2>13. SumOver(pay, Users) = D
    <3>1. floor[top] \in Nat
      BY <2>1, <2>2
    <3> QED
      BY <2>3, <2>6, <2>8, <2>12, <3>1 DEF left
  <2> QED
    BY <2>9, <2>11, <2>13
<1> QED
  BY <1>4, <1>5

\* Users without a share add nothing.
LEMMA WorkingSum ==
  ASSUME NEW pay \in [Users -> Nat]
  PROVE  SumOver(pay, Working(pay)) = SumOver(pay, Users)
<1> DEFINE rest == Users \ Working(pay)
<1>1. IsFiniteSet(Users) /\ Working(pay) \subseteq Users /\ rest \subseteq Users
  BY SettlementAssumption DEF Working
<1>2. IsFiniteSet(rest) /\ IsFiniteSet(Working(pay))
  BY <1>1, FS_Subset
<1>3. \A u \in rest : pay[u] = 0
  BY DEF Working
<1>4. /\ Working(pay) \cup rest = Users /\ Working(pay) \cap rest = {}
      /\ \A u \in Working(pay) \cup rest : pay[u] \in Int
  BY <1>1
<1> HIDE DEF rest
<1>5. SumOver(pay, rest) = Cardinality(rest) * 0
  BY <1>2, <1>3, SumOverConstant
<1>6. SumOver(pay, rest) = 0
  BY <1>2, <1>5, FS_CardinalityType
<1>7. SumOver(pay, Working(pay)) \in Int
  BY <1>2, <1>4, SumOverType
<1>8. SumOver(pay, Working(pay) \cup rest) = SumOver(pay, Working(pay)) + SumOver(pay, rest)
  BY <1>2, <1>4, SumOverUnion
<1>9. PICK s \in Int : s = SumOver(pay, Working(pay))
  BY <1>7
<1>10. SumOver(pay, Users) = s + 0
  BY <1>4, <1>6, <1>8, <1>9, Zenon
<1> QED
  BY <1>9, <1>10

\* The samples of a window are finitely many.
LEMMA MeasuringFacts ==
  ASSUME NEW times \in SUBSET Int, IsFiniteSet(times), NEW w
  PROVE  IsFiniteSet(Measuring(times, w)) /\ Measuring(times, w) \subseteq times
<1> DEFINE before == {t \in times : t < w.start}
<1>1. IsFiniteSet(before) /\ before \subseteq Int
  BY FS_Subset
<1>2. before # {} => Max(before) \in times
  <2>1. before # {} => Max(before) \in before
    BY <1>1, MaxIsGreatest
  <2> QED
    BY <2>1
<1>3. Measuring(times, w) \subseteq times
  BY <1>2 DEF Measuring
<1> QED
  BY <1>3, FS_Subset

LEMMA DeltaIsNatural ==
  ASSUME NEW times, IsFiniteSet(times), times \subseteq Int,
         NEW counter, \A t \in times : counter[t] \in Nat
  PROVE  CounterDelta(counter, times) \in Nat
<1>1. ASSUME NEW t \in times PROVE Rise(counter, times, t) \in Nat
  <2> DEFINE before == {s \in times : s < t}
  <2>1. IsFiniteSet(before) /\ before \subseteq Int
    BY FS_Subset
  <2>2. before # {} => Max(before) \in times
    <3>1. before # {} => Max(before) \in before
      BY <2>1, MaxIsGreatest
    <3> QED
      BY <3>1
  <2>3. PICK last : last = Max(before)
    OBVIOUS
  <2>4. Rise(counter, times, t) = IF before = {} \/ counter[t] < counter[last] THEN 0 ELSE counter[t] - counter[last]
    BY <2>3 DEF Rise
  <2>5. CASE before = {} \/ counter[t] < counter[last]
    BY <2>4, <2>5
  <2>6. CASE before # {} /\ ~(counter[t] < counter[last])
    <3>1. counter[last] \in Nat /\ counter[t] \in Nat
      BY <2>2, <2>3, <2>6
    <3>2. Rise(counter, times, t) = counter[t] - counter[last]
      BY <2>4, <2>6
    <3> QED
      BY <2>6, <3>1, <3>2
  <2> QED
    BY <2>5, <2>6
<1> DEFINE f == [t \in times |-> Rise(counter, times, t)]
<1>2. \A t \in times : f[t] \in Nat
  BY <1>1
<1> HIDE DEF f
<1>3. SumOver(f, times) \in Nat
  BY <1>2, SumOverNat
<1> QED
  BY <1>3 DEF CounterDelta, f

LEMMA SampleTimes == 
  /\ IsFiniteSet(Sampled \union 0 .. MaxNow) /\ Sampled \union 0 .. MaxNow \subseteq Int
<1>1. IsFiniteSet(0 .. MaxNow) /\ IsFiniteSet(Sampled) /\ Sampled \subseteq Int
  BY SettlementAssumption, FS_Interval
<1>2. IsFiniteSet(Sampled \union 0 .. MaxNow)
  BY <1>1, FS_Union, Zenon
<1>3. 0 .. MaxNow \subseteq Int
  BY SettlementAssumption
<1> QED
  BY <1>1, <1>2, <1>3

LEMMA ContributionsTyped ==
  ASSUME NEW times, times \subseteq Sampled \union 0 .. MaxNow, NEW w
  PROVE  Contributions(Counter, times, w) \in [Users -> Nat]
<1> DEFINE measured == Measuring(times, w)
<1>1. IsFiniteSet(times) /\ times \in SUBSET Int
  BY SampleTimes, FS_Subset
<1>2. IsFiniteSet(measured) /\ measured \subseteq times
  BY <1>1, MeasuringFacts
<1>3. Contributions(Counter, times, w) = [u \in Users |-> CounterDelta(Counter[u], measured)]
  BY SettlementAssumption DEF Contributions
<1> HIDE DEF measured
<1>4. ASSUME NEW u \in Users PROVE CounterDelta(Counter[u], measured) \in Nat
  <2>1. PICK c : c = Counter[u]
    OBVIOUS
  <2>2. \A t \in measured : c[t] \in Nat
    BY <1>2, <2>1, SettlementAssumption
  <2>3. CounterDelta(c, measured) \in Nat
    BY <1>1, <1>2, <2>2, DeltaIsNatural
  <2> QED
    BY <2>1, <2>3
<1> QED
  BY <1>3, <1>4
-----------------------------------------------------------------------------
(* Types.                                                                  *)

\* What cycle p holds while the windows are ws: the settlement it is at exists.
JobOK(r, ws) ==
    /\ r \in Jobs
    /\ r.pc \in Fill \union {"link"} => r.sid \in DOMAIN ws
    /\ r.pc = "add" => r.todo # {}

JobsTyped == job \in [Cycles -> Jobs] /\ \A p \in Cycles : JobOK(job[p], windows)

TablesTyped ==
    /\ now \in 0 .. MaxNow /\ foundAt \in Finds
    /\ samples \subseteq Sampled \union 0 .. MaxNow
    /\ DOMAIN links \subseteq Blocks
    /\ \A b \in DOMAIN links : links[b].sid \in DOMAIN windows /\ links[b].sats \in Nat
    /\ DOMAIN rows \subseteq (DOMAIN windows) \X Users
    /\ DOMAIN credits \subseteq (DOMAIN windows) \X Users
    /\ DOMAIN events \subseteq DOMAIN credits
    /\ \A k \in DOMAIN rows : rows[k] \in Nat
    /\ \A k \in DOMAIN credits : credits[k] \in Nat
    /\ accrual \in [Users -> Nat] /\ carry \in Nat
    /\ troubles \in 0 .. MaxTroubles /\ aborted \subseteq Midway /\ overlapped \in BOOLEAN
    /\ raced \in BOOLEAN

TypesInv == WindowsInv /\ TablesTyped /\ JobsTyped

LEMMA RewardsNatural == Rewards \subseteq Nat
<1>1. ASSUME NEW B \in SUBSET Blocks PROVE SumOver(Reward, B) \in Nat
  <2>1. IsFiniteSet(B) /\ \A b \in B : Reward[b] \in Nat
    BY SettlementAssumption, FS_Subset
  <2> QED
    BY <2>1, SumOverNat
<1> QED
  BY <1>1 DEF Rewards

LEMMA TypesAreOK == TypesInv => TypeOK
<1> SUFFICES ASSUME TypesInv PROVE TypeOK
  OBVIOUS
<1>1. \A i \in DOMAIN windows :
         windows[i] \in [start : Int, end : Int, status : Statuses, reward : Nat]
  <2>1. \A i \in DOMAIN windows : windows[i] \in Shape
    BY DEF TypesInv, WindowsInv
  <2> QED
    BY <2>1, RewardsNatural DEF Shape
<1>2. known \subseteq Blocks
  BY DEF TypesInv, WindowsInv
<1>3. job \in [Cycles -> Jobs] /\ \A p \in Cycles : job[p].pc \in {"weigh", "rows", "credit", "link"}
                            => job[p].sid \in DOMAIN windows
  BY DEF TypesInv, JobsTyped, JobOK, Fill
<1> QED
  BY <1>1, <1>2, <1>3 DEF TypesInv, TablesTyped, TypeOK

\* The records a cycle goes through.
LEMMA NobodyTyped == Nobody \in [Users -> Nat] /\ Working(Nobody) = {}
  BY DEF Nobody, Working

LEMMA IdleTyped == Idle \in Jobs
<1>1. Nobody \in [Users -> Nat]
  BY NobodyTyped
<1> QED
  BY <1>1 DEF Idle, Jobs, Steps

\* What most steps leave alone of a cycle's record.
Kept(r, x) ==
    /\ x.sid = r.sid /\ x.work = r.work /\ x.pay = r.pay /\ x.left = r.left
    /\ x.reward = r.reward

LEMMA PcUpdate ==
  ASSUME NEW r \in Jobs, NEW s \in Steps, NEW x, x = [r EXCEPT !.pc = s]
  PROVE  x \in Jobs /\ Kept(r, x) /\ x.pc = s /\ x.todo = r.todo /\ x.from = r.from
  BY DEF Jobs, Kept

LEMMA TodoUpdate ==
  ASSUME NEW r \in Jobs, NEW T \in SUBSET Users, NEW x, x = [r EXCEPT !.todo = T]
  PROVE  x \in Jobs /\ Kept(r, x) /\ x.pc = r.pc /\ x.todo = T
  BY DEF Jobs, Kept

\* Only cycle p has gone on.
Stepped(p) ==
    /\ job'[p] \in Jobs
    /\ job' \in [Cycles -> Jobs]
    /\ \A q \in Cycles \ {p} : job'[q] = job[q]

LEMMA RecordAfter ==
  ASSUME job \in [Cycles -> Jobs], NEW p \in Cycles, NEW x \in Jobs, Goes(p, x)
  PROVE  job'[p] = x /\ Stepped(p)
  BY DEF Goes, Stepped

LEMMA RecordTyped ==
  ASSUME TypesInv, NEW p \in Cycles
  PROVE  /\ job \in [Cycles -> Jobs] /\ job[p] \in Jobs
         /\ job[p].todo \in SUBSET Users /\ job[p].work \in [Users -> Nat]
         /\ job[p].pay \in [Users -> Nat] /\ job[p].reward \in Nat
         /\ job[p].left \in Nat /\ job[p].sid \in Nat /\ job[p].bucket \in Nat
         /\ accrual \in [Users -> Nat] /\ carry \in Nat
<1>1. job \in [Cycles -> Jobs] /\ accrual \in [Users -> Nat] /\ carry \in Nat
  BY DEF TypesInv, JobsTyped, TablesTyped
<1>2. PICK r \in Jobs : r = job[p]
  BY <1>1
<1>3. /\ r.todo \in SUBSET Users /\ r.work \in [Users -> Nat]
      /\ r.pay \in [Users -> Nat] /\ r.reward \in Nat
      /\ r.left \in Nat /\ r.sid \in Nat /\ r.bucket \in Nat
  BY DEF Jobs
<1> QED
  BY <1>1, <1>2, <1>3

LEMMA FirstIsOne ==
  ASSUME NEW T \in SUBSET Users, T # {}
  PROVE  First(T) \in T
<1>1. \E m \in T : \A n \in T : m <= n
  BY SettlementAssumption, LeastNumber
<1> QED
  BY <1>1 DEF First

LEMMA WorkingIsSubset == ASSUME NEW w PROVE Working(w) \in SUBSET Users
  BY DEF Working
-----------------------------------------------------------------------------
(* What each step does to the record of its cycle and to the tables.       *)

LEMMA StartEffect ==
  ASSUME TypesInv, NEW p \in Cycles, Start(p)
  PROVE  /\ job[p].pc = "idle" /\ Stepped(p) /\ job'[p].pc \in {"gather", "send"}
<1> DEFINE s == IF p = Http \/ now + Tolerance >= NextDue THEN "gather" ELSE "send"
           x == [Idle EXCEPT !.at = now, !.pc = s]
<1>1. s \in {"gather", "send"} /\ now \in Nat
  BY SettlementAssumption DEF TypesInv, TablesTyped
<1>2. Goes(p, x) /\ job[p].pc = "idle"
  BY DEF Start
<1> HIDE DEF s
<1>3. x \in Jobs /\ x.pc = s
  <2>1. PICK r : r = Idle
    OBVIOUS
  <2>2. r \in Jobs
    BY <2>1, IdleTyped
  <2>3. [r EXCEPT !.at = now, !.pc = s] \in Jobs /\ [r EXCEPT !.at = now, !.pc = s].pc = s
    BY <1>1, <2>2 DEF Jobs, Steps
  <2> QED
    BY <2>1, <2>3
<1> HIDE DEF x
<1> QED
  BY <1>1, <1>2, <1>3, RecordAfter, RecordTyped

LEMMA GatherEffect ==
  ASSUME TypesInv, NEW p \in Cycles, Gather(p)
  PROVE  /\ job[p].pc = "gather" /\ Stepped(p) /\ job'[p].pc = "look"
<1> DEFINE w == MyWindow(p)
           matured == MaturedBlocks(known', w)
<1>1. known' \in StoredAfter(w) /\ known \subseteq Blocks
  BY DEF Gather, TypesInv, WindowsInv
<1>2. known' \subseteq Blocks
  BY <1>1, SettlementAssumption DEF StoredAfter, FetchedBlocks, FoundIn
<1>3. matured \subseteq Blocks /\ RetryBlocks(w) \subseteq Blocks
  BY <1>1, <1>2 DEF MaturedBlocks, RetryBlocks
<1>4. PICK rewarded \in SUBSET (matured \union RetryBlocks(w)) :
        Goes(p, [job[p] EXCEPT
                   !.pc = "look", !.matured = matured, !.paid = rewarded,
                   !.reward = IF matured \subseteq rewarded
                              THEN SumOver(Reward, rewarded) ELSE 0])
  BY DEF Gather, KnownRewards
<1> DEFINE reward == IF matured \subseteq rewarded THEN SumOver(Reward, rewarded) ELSE 0
           x == [job[p] EXCEPT !.pc = "look", !.matured = matured, !.paid = rewarded, !.reward = reward]
<1> HIDE DEF matured
<1>5. rewarded \in SUBSET Blocks
  BY <1>3
<1>6. reward \in Nat
  BY <1>5, RewardsNatural DEF Rewards
<1>7. Goes(p, x) /\ job[p] \in Jobs /\ job[p].pc = "gather"
  BY <1>4, RecordTyped DEF Gather
<1> HIDE DEF reward
<1>8. x \in Jobs /\ x.pc = "look"
  BY <1>3, <1>5, <1>6, <1>7 DEF Jobs, Steps
<1> HIDE DEF x
<1> QED
  BY <1>7, <1>8, RecordAfter, RecordTyped

LEMMA LookEffect ==
  ASSUME TypesInv, NEW p \in Cycles, Look(p)
  PROVE  /\ job[p].pc = "look" /\ Stepped(p)
         /\ \/ job'[p].pc = "check" /\ windows = << >>
            \/ job'[p].pc = "check" /\ windows # << >> /\ job'[p].from = windows[LatestWindow].end
            \/ job'[p].pc = "link" /\ job'[p].sid \in DOMAIN windows
<1> DEFINE r   == job[p]
           end == windows[LatestWindow].end
<1>1. r \in Jobs /\ r.pc = "look" /\ job \in [Cycles -> Jobs]
  BY RecordTyped DEF Look
<1>2. windows # << >> => LatestWindow \in DOMAIN windows /\ LatestWindow \in Nat /\ end \in Int
  <2>1. windows # << >> => LatestWindow \in DOMAIN windows
    BY LatestFacts DEF TypesInv, WindowsInv
  <2>2. windows \in Seq(Shape)
    BY DEF TypesInv, WindowsInv
  <2>3. \A i \in DOMAIN windows : i \in Nat /\ windows[i] \in Shape
    BY <2>2
  <2>4. \A w \in Shape : w.end \in Int
    BY DEF Shape
  <2> QED
    BY <2>1, <2>3, <2>4
<1>3. CASE windows = << >>
  <2> DEFINE from == r.at - Interval
             x    == [r EXCEPT !.pc = "check", !.from = from]
  <2>1. Goes(p, x)
    BY <1>3 DEF Look
  <2>2. from \in Int
    BY <1>1, SettlementAssumption DEF Jobs
  <2> HIDE DEF from, r
  <2>3. x \in Jobs /\ x.pc = "check"
    BY <1>1, <2>2 DEF Jobs, Steps
  <2> HIDE DEF x
  <2> QED
    BY <1>1, <1>3, <2>1, <2>3, RecordAfter DEF r
<1>4. CASE windows # << >> /\ r.at < end + Interval
  <2> DEFINE sid == LatestWindow
             x   == [r EXCEPT !.pc = "link", !.sid = sid]
  <2>1. Goes(p, x)
    BY <1>4 DEF Look
  <2>2. sid \in Nat /\ sid \in DOMAIN windows
    BY <1>2, <1>4
  <2> HIDE DEF sid, r
  <2>3. x \in Jobs /\ x.pc = "link" /\ x.sid = sid
    BY <1>1, <2>2 DEF Jobs, Steps
  <2> HIDE DEF x
  <2> QED
    BY <1>1, <2>1, <2>2, <2>3, RecordAfter DEF r
<1>5. CASE windows # << >> /\ ~(r.at < end + Interval)
  <2> DEFINE x == [r EXCEPT !.pc = "check", !.from = end]
  <2>1. Goes(p, x)
    BY <1>5 DEF Look
  <2>2. end \in Int
    BY <1>2, <1>5
  <2> HIDE DEF end, r
  <2>3. x \in Jobs /\ x.pc = "check" /\ x.from = end
    BY <1>1, <2>2 DEF Jobs, Steps
  <2> HIDE DEF x
  <2> QED
    BY <1>1, <1>5, <2>1, <2>3, RecordAfter DEF r, end
<1> QED
  BY <1>3, <1>4, <1>5

LEMMA CheckEffect ==
  ASSUME TypesInv, NEW p \in Cycles, Check(p)
  PROVE  /\ job[p].pc = "check" /\ Stepped(p)
         /\ \/ /\ OfRange(job[p].from) = {}
               /\ job'[p].pc = "open" /\ job'[p].from = job[p].from
            \/ /\ OfRange(job[p].from) # {}
               /\ job'[p].pc \in {"bucket", "link"} /\ job'[p].sid \in DOMAIN windows
<1> DEFINE r == job[p]
           R == OfRange(r.from)
           i == CHOOSE j \in R : TRUE
           work == Contributions(Counter, samples, MyWindow(p))
           todo == Working(work)
<1>1. r \in Jobs /\ r.pc = "check" /\ job \in [Cycles -> Jobs]
  BY RecordTyped DEF Check
<1>2. R # {} => i \in R
  OBVIOUS
<1>3. \A j \in R : j \in DOMAIN windows /\ j \in Nat
  <2>1. windows \in Seq(Shape)
    BY DEF TypesInv, WindowsInv
  <2> QED
    BY <2>1 DEF OfRange
<1>4. work \in [Users -> Nat]
  BY ContributionsTyped DEF TypesInv, TablesTyped
<1>5. todo \in SUBSET Users
  BY WorkingIsSubset
<1>6. \/ R = {} /\ Goes(p, [r EXCEPT !.pc = "open"])
      \/ /\ R # {} /\ i \in R
         /\ \/ Goes(p, [r EXCEPT !.sid = i, !.work = work, !.reward = 0,
                            !.todo = todo, !.pc = "bucket"])
            \/ Goes(p, [r EXCEPT !.sid = i, !.pc = "link"])
  BY <1>2 DEF Check
<1> HIDE DEF r, R, i, work, todo
<1>7. CASE R = {} /\ Goes(p, [r EXCEPT !.pc = "open"])
  <2> DEFINE x == [r EXCEPT !.pc = "open"]
  <2>1. x \in Jobs /\ x.pc = "open" /\ x.from = r.from
    BY <1>1 DEF Jobs, Steps
  <2>2. Goes(p, x)
    BY <1>7
  <2> HIDE DEF x
  <2> QED
    BY <1>1, <1>7, <2>1, <2>2, RecordAfter DEF r, R
<1>8. ASSUME R # {}, i \in R, NEW x, Goes(p, x),
             \/ x = [r EXCEPT !.sid = i, !.work = work, !.reward = 0, !.todo = todo, !.pc = "bucket"]
             \/ x = [r EXCEPT !.sid = i, !.pc = "link"]
      PROVE  /\ job[p].pc = "check" /\ Stepped(p)
             /\ job'[p].pc \in {"bucket", "link"} /\ job'[p].sid \in DOMAIN windows
  <2>1. i \in DOMAIN windows /\ i \in Nat
    BY <1>3, <1>8
  <2>2. x \in Jobs /\ x.pc \in {"bucket", "link"} /\ x.sid = i
    <3>1. CASE x = [r EXCEPT !.sid = i, !.work = work, !.reward = 0, !.todo = todo, !.pc = "bucket"]
      BY <1>1, <1>4, <1>5, <2>1, <3>1 DEF Jobs, Steps
    <3>2. CASE x = [r EXCEPT !.sid = i, !.pc = "link"]
      BY <1>1, <2>1, <3>2 DEF Jobs, Steps
    <3> QED
      BY <1>8, <3>1, <3>2
  <2> QED
    BY <1>1, <1>8, <2>1, <2>2, RecordAfter DEF r
<1>9. CASE R # {}
  BY <1>6, <1>8, <1>9 DEF R, r
<1> QED
  BY <1>6, <1>7, <1>9

LEMMA OpenEffect ==
  ASSUME TypesInv, NEW p \in Cycles, OpenWindow(p)
  PROVE  /\ job[p].pc = "open" /\ Stepped(p) /\ job'[p].pc = "weigh"
         /\ \/ /\ OfRange(job[p].from) = {} /\ job'[p].sid = Len(windows) + 1
               /\ windows' = Append(windows, Window(job[p].from, "pending", 0))
            \/ /\ OfRange(job[p].from) # {} /\ job'[p].sid \in DOMAIN windows
               /\ windows' = [windows EXCEPT ![job'[p].sid] = Window(job[p].from, "pending", 0)]
<1> DEFINE r == job[p]
           new == Window(r.from, "pending", 0)
<1>1. r \in Jobs /\ r.pc = "open" /\ job \in [Cycles -> Jobs]
  BY RecordTyped DEF OpenWindow
<1>2. windows \in Seq(Shape)
  BY DEF TypesInv, WindowsInv
<1>3. \/ /\ OfRange(r.from) = {} /\ windows' = Append(windows, new)
         /\ Goes(p, [r EXCEPT !.pc = "weigh", !.sid = Len(windows) + 1])
      \/ \E i \in OfRange(r.from) :
            /\ windows' = [windows EXCEPT ![i] = new]
            /\ Goes(p, [r EXCEPT !.pc = "weigh", !.sid = i])
  BY DEF OpenWindow
<1> HIDE DEF new, r
<1>4. ASSUME NEW i \in Nat, NEW x, x = [r EXCEPT !.pc = "weigh", !.sid = i], Goes(p, x)
      PROVE  Stepped(p) /\ job'[p].pc = "weigh" /\ job'[p].sid = i
  <2>1. x \in Jobs /\ x.pc = "weigh" /\ x.sid = i
    BY <1>1, <1>4 DEF Jobs, Steps
  <2> QED
    BY <1>1, <1>4, <2>1, RecordAfter
<1>5. CASE /\ OfRange(r.from) = {} /\ windows' = Append(windows, new)
           /\ Goes(p, [r EXCEPT !.pc = "weigh", !.sid = Len(windows) + 1])
  <2>1. Len(windows) + 1 \in Nat
    BY <1>2
  <2> QED
    BY <1>1, <1>4, <1>5, <2>1 DEF r, new
<1>6. ASSUME NEW i \in OfRange(r.from), windows' = [windows EXCEPT ![i] = new],
             Goes(p, [r EXCEPT !.pc = "weigh", !.sid = i])
      PROVE  /\ Stepped(p) /\ job'[p].pc = "weigh"
             /\ OfRange(r.from) # {} /\ job'[p].sid \in DOMAIN windows
             /\ windows' = [windows EXCEPT ![job'[p].sid] = new]
  <2>1. i \in DOMAIN windows /\ i \in Nat
    BY <1>2, <1>6 DEF OfRange
  <2> QED
    BY <1>4, <1>6, <2>1
<1> QED
  BY <1>1, <1>3, <1>5, <1>6 DEF r, new

LEMMA WeighEffect ==
  ASSUME TypesInv, NEW p \in Cycles, Weigh(p)
  PROVE  /\ job[p].pc = "weigh" /\ Stepped(p)
         /\ job'[p].pc = IF job[p].reward = 0 THEN "rows" ELSE "merge"
         /\ job'[p].sid = job[p].sid /\ job'[p].reward = job[p].reward
         /\ job'[p].todo = Working(job'[p].work)
<1> DEFINE r    == job[p]
           work == Contributions(Counter, samples, MyWindow(p))
           todo == Working(work)
           pc   == IF r.reward = 0 THEN "rows" ELSE "merge"
           x    == [r EXCEPT !.work = work, !.todo = todo, !.pc = pc]
<1>1. r \in Jobs /\ r.pc = "weigh" /\ job \in [Cycles -> Jobs] /\ Goes(p, x)
  BY RecordTyped DEF Weigh
<1>2. work \in [Users -> Nat]
  BY ContributionsTyped DEF TypesInv, TablesTyped
<1>3. todo \in SUBSET Users
  BY WorkingIsSubset
<1>4. pc \in Steps
  BY DEF Steps
<1>5. todo = Working(work)
  OBVIOUS
<1> HIDE DEF r, work, todo, pc
<1>6. /\ x \in Jobs /\ x.pc = pc /\ x.sid = r.sid /\ x.reward = r.reward
      /\ x.work = work /\ x.todo = todo
  BY <1>1, <1>2, <1>3, <1>4 DEF Jobs
<1> HIDE DEF x
<1> QED
  BY <1>1, <1>5, <1>6, RecordAfter DEF r, pc

LEMMA MergeEffect ==
  ASSUME TypesInv, NEW p \in Cycles, Merge(p)
  PROVE  /\ job[p].pc = "merge" /\ Stepped(p) /\ job'[p].pc = "price"
         /\ job'[p].sid = job[p].sid /\ job'[p].reward = job[p].reward
         /\ job'[p].todo = Working(job'[p].work)
<1> DEFINE r    == job[p]
           work == [u \in Users |-> r.work[u] + accrual[u]]
           todo == Working(work)
           x    == [r EXCEPT !.pc = "price", !.work = work, !.todo = todo]
<1>1. r \in Jobs /\ r.pc = "merge" /\ job \in [Cycles -> Jobs] /\ Goes(p, x)
  BY RecordTyped DEF Merge
<1>2. work \in [Users -> Nat]
  BY RecordTyped
<1>3. todo \in SUBSET Users
  BY WorkingIsSubset
<1>4. todo = Working(work)
  OBVIOUS
<1> HIDE DEF r, work, todo
<1>5. /\ x \in Jobs /\ x.pc = "price" /\ x.sid = r.sid /\ x.reward = r.reward
      /\ x.work = work /\ x.todo = todo
  BY <1>1, <1>2, <1>3 DEF Jobs, Steps
<1> HIDE DEF x
<1> QED
  BY <1>1, <1>4, <1>5, RecordAfter DEF r

\* All there is to pay is shared out or left over.
LEMMA PriceEffect ==
  ASSUME TypesInv, NEW p \in Cycles, Price(p)
  PROVE  /\ job[p].pc = "price" /\ Stepped(p) /\ job'[p].pc = "rows"
         /\ job'[p].sid = job[p].sid /\ job'[p].reward = job[p].reward
         /\ job'[p].todo = job[p].todo /\ job'[p].work = job[p].work
         /\ SumOver(job'[p].pay, Users) + job'[p].left = carry + job'[p].reward
<1> DEFINE r    == job[p]
           D    == r.reward + carry
           pay  == Allocation(r.work, D)
           left == D - SumOver(pay, Users)
           x    == [r EXCEPT !.pc = "rows", !.pay = pay, !.left = left]
<1>1. r \in Jobs /\ r.pc = "price" /\ job \in [Cycles -> Jobs] /\ Goes(p, x)
  BY RecordTyped DEF Price
<1>2. r.work \in [Users -> Nat] /\ D \in Nat /\ r.reward \in Nat /\ carry \in Nat
  BY RecordTyped
<1>3. D = r.reward + carry
  OBVIOUS
<1> HIDE DEF r, D
<1>4. pay \in [Users -> Nat] /\ SumOver(pay, Users) \in {0, D}
  BY <1>2, AllocationShares
<1> HIDE DEF pay
<1>5. left \in Nat /\ SumOver(pay, Users) + left = carry + r.reward
  BY <1>2, <1>3, <1>4
<1> HIDE DEF left
<1>6. /\ x \in Jobs /\ x.pc = "rows" /\ x.sid = r.sid /\ x.reward = r.reward
      /\ x.work = r.work /\ x.todo = r.todo /\ x.pay = pay /\ x.left = left
  BY <1>1, <1>4, <1>5 DEF Jobs, Steps
<1> HIDE DEF x
<1> QED
  BY <1>1, <1>5, <1>6, RecordAfter DEF r

LEMMA StoreEffect ==
  ASSUME TypesInv, NEW p \in Cycles, StoreWork(p)
  PROVE  /\ job[p].pc = "rows" /\ Stepped(p) /\ Kept(job[p], job'[p])
         /\ \/ /\ job[p].todo = {} /\ rows' = rows
               /\ \/ /\ job[p].reward = 0 /\ job'[p].pc = "bucket"
                     /\ job'[p].todo = Working(job[p].work)
                  \/ /\ job[p].reward # 0 /\ job'[p].pc = "credit"
                     /\ job'[p].todo = Working(job[p].pay)
            \/ /\ job'[p].pc = "rows"
               /\ \E u \in job[p].todo :
                     /\ job'[p].todo = job[p].todo \ {u}
                     /\ rows' = Upsert(rows, <<job[p].sid, u>>, job[p].work[u])
<1> DEFINE r    == job[p]
           u    == First(r.todo)
           rest == r.todo \ {u}
           back == Working(r.work)
           on   == Working(r.pay)
<1>1. r \in Jobs /\ r.pc = "rows" /\ job \in [Cycles -> Jobs] /\ r.todo \in SUBSET Users
  BY RecordTyped DEF StoreWork
<1>2. \/ r.todo = {} /\ rows' = rows /\ r.reward = 0 /\ Goes(p, [r EXCEPT !.pc = "bucket", !.todo = back])
      \/ r.todo = {} /\ rows' = rows /\ r.reward # 0 /\ Goes(p, [r EXCEPT !.pc = "credit", !.todo = on])
      \/ /\ r.todo # {} /\ Goes(p, [r EXCEPT !.todo = rest])
         /\ rows' = Upsert(rows, <<r.sid, u>>, r.work[u])
  BY Zenon DEF StoreWork
<1>3. back \in SUBSET Users /\ on \in SUBSET Users /\ rest \in SUBSET Users
  BY <1>1, WorkingIsSubset
<1>4. r.todo # {} => u \in r.todo
  BY <1>1, FirstIsOne
<1>5. back = Working(r.work) /\ on = Working(r.pay) /\ rest = r.todo \ {u}
      /\ "bucket" \in Steps /\ "credit" \in Steps
  BY DEF Steps
<1> HIDE DEF r, u, rest, back, on
<1>6. ASSUME NEW s \in Steps, NEW T \in SUBSET Users, NEW x, x = [r EXCEPT !.pc = s, !.todo = T],
             Goes(p, x)
      PROVE  Stepped(p) /\ Kept(r, job'[p]) /\ job'[p].pc = s /\ job'[p].todo = T
  <2>2. x \in Jobs /\ Kept(r, x) /\ x.pc = s /\ x.todo = T
    BY <1>1, <1>6 DEF Jobs, Kept
  <2> QED
    BY <1>1, <1>6, <2>2, RecordAfter
<1>7. CASE /\ r.todo # {} /\ Goes(p, [r EXCEPT !.todo = rest])
           /\ rows' = Upsert(rows, <<r.sid, u>>, r.work[u])
  <2> DEFINE x == [r EXCEPT !.todo = rest]
  <2>1. x \in Jobs /\ Kept(r, x) /\ x.pc = r.pc /\ x.todo = rest
    BY <1>1, <1>3, TodoUpdate
  <2>2. Goes(p, x)
    BY <1>7
  <2> HIDE DEF x
  <2> QED
    BY <1>1, <1>4, <1>5, <1>7, <2>1, <2>2, RecordAfter DEF r
<1>8. CASE r.todo = {} /\ rows' = rows /\ r.reward = 0 /\ Goes(p, [r EXCEPT !.pc = "bucket", !.todo = back])
  BY <1>1, <1>3, <1>5, <1>6, <1>8 DEF r
<1>9. CASE r.todo = {} /\ rows' = rows /\ r.reward # 0 /\ Goes(p, [r EXCEPT !.pc = "credit", !.todo = on])
  BY <1>1, <1>3, <1>5, <1>6, <1>9 DEF r
<1> QED
  BY <1>2, <1>7, <1>8, <1>9

LEMMA ReadEffect ==
  ASSUME TypesInv, NEW p \in Cycles, ReadBucket(p)
  PROVE  /\ job[p].pc = "bucket" /\ Stepped(p) /\ Kept(job[p], job'[p])
         /\ job'[p].todo = job[p].todo
         /\ \/ job[p].todo = {} /\ job'[p].pc = "defer"
            \/ /\ job[p].todo # {} /\ job'[p].pc = "add"
               /\ job'[p].bucket = accrual[First(job[p].todo)]
<1> DEFINE r == job[p]
           b == accrual[First(r.todo)]
<1>1. r \in Jobs /\ r.pc = "bucket" /\ job \in [Cycles -> Jobs] /\ r.todo \in SUBSET Users
  BY RecordTyped DEF ReadBucket
<1>2. \/ r.todo = {} /\ Goes(p, [r EXCEPT !.pc = "defer"])
      \/ r.todo # {} /\ Goes(p, [r EXCEPT !.pc = "add", !.bucket = b])
  BY Zenon DEF ReadBucket
<1>3. r.todo # {} => b \in Nat
  <2>1. r.todo # {} => First(r.todo) \in Users
    BY <1>1, FirstIsOne
  <2> QED
    BY <2>1, RecordTyped
<1>4. b = accrual[First(r.todo)]
  OBVIOUS
<1> HIDE DEF r, b
<1>5. CASE r.todo = {} /\ Goes(p, [r EXCEPT !.pc = "defer"])
  <2> DEFINE x == [r EXCEPT !.pc = "defer"]
  <2>1. x \in Jobs /\ Kept(r, x) /\ x.pc = "defer" /\ x.todo = r.todo
    BY <1>1 DEF Jobs, Kept, Steps
  <2>2. Goes(p, x)
    BY <1>5
  <2> HIDE DEF x
  <2> QED
    BY <1>1, <1>5, <2>1, <2>2, RecordAfter DEF r
<1>6. CASE r.todo # {} /\ Goes(p, [r EXCEPT !.pc = "add", !.bucket = b])
  <2> DEFINE x == [r EXCEPT !.pc = "add", !.bucket = b]
  <2>1. x \in Jobs /\ Kept(r, x) /\ x.pc = "add" /\ x.todo = r.todo /\ x.bucket = b
    BY <1>1, <1>3, <1>6 DEF Jobs, Kept, Steps
  <2>2. Goes(p, x)
    BY <1>6
  <2> HIDE DEF x
  <2> QED
    BY <1>1, <1>4, <1>6, <2>1, <2>2, RecordAfter DEF r
<1> QED
  BY <1>2, <1>5, <1>6

LEMMA AddEffect ==
  ASSUME TypesInv, NEW p \in Cycles, AddWork(p)
  PROVE  /\ job[p].pc = "add" /\ Stepped(p) /\ Kept(job[p], job'[p])
         /\ job'[p].pc = "bucket"
         /\ First(job[p].todo) \in job[p].todo
         /\ job'[p].todo = job[p].todo \ {First(job[p].todo)}
         /\ accrual' = [accrual EXCEPT ![First(job[p].todo)] =
                           job[p].bucket + job[p].work[First(job[p].todo)]]
<1> DEFINE r    == job[p]
           u    == First(r.todo)
           rest == r.todo \ {u}
           x    == [r EXCEPT !.pc = "bucket", !.todo = rest, !.bucket = 0]
<1>1. /\ r \in Jobs /\ r.pc = "add" /\ job \in [Cycles -> Jobs] /\ r.todo \in SUBSET Users
      /\ r.todo # {}
  BY RecordTyped DEF AddWork, TypesInv, JobsTyped, JobOK
<1>2. Goes(p, x) /\ accrual' = [accrual EXCEPT ![u] = r.bucket + r.work[u]]
  BY DEF AddWork
<1>3. rest \in SUBSET Users /\ u \in r.todo
  BY <1>1, FirstIsOne
<1>4. u = First(r.todo) /\ rest = r.todo \ {u}
  OBVIOUS
<1> HIDE DEF r, u, rest
<1>5. x \in Jobs /\ Kept(r, x) /\ x.pc = "bucket" /\ x.todo = rest
  BY <1>1, <1>3 DEF Jobs, Kept, Steps
<1> HIDE DEF x
<1>6. job'[p] = x /\ Stepped(p)
  BY <1>1, <1>2, <1>5, RecordAfter
<1> QED
  BY <1>1, <1>2, <1>3, <1>4, <1>5, <1>6 DEF r, u

LEMMA DeferEffect ==
  ASSUME TypesInv, NEW p \in Cycles, Defer(p)
  PROVE  job[p].pc = "defer" /\ Stepped(p) /\ job'[p].pc = "link" /\ job'[p].sid = job[p].sid
<1> DEFINE r == job[p]
           none == Nobody
           x == [r EXCEPT !.pc = "link", !.work = none]
<1>1. r \in Jobs /\ r.pc = "defer" /\ job \in [Cycles -> Jobs] /\ Goes(p, x)
  BY RecordTyped DEF Defer
<1>2. none \in [Users -> Nat]
  BY NobodyTyped
<1> HIDE DEF r, none
<1>3. x \in Jobs /\ x.pc = "link" /\ x.sid = r.sid
  BY <1>1, <1>2 DEF Jobs, Steps
<1> HIDE DEF x
<1> QED
  BY <1>1, <1>3, RecordAfter DEF r

LEMMA CreditEffect ==
  ASSUME TypesInv, NEW p \in Cycles, Credit(p)
  PROVE  /\ job[p].pc = "credit" /\ Stepped(p) /\ Kept(job[p], job'[p])
         /\ \/ /\ job[p].todo = {} /\ credits' = credits /\ job'[p].pc = "clear"
               /\ job'[p].todo = Working(job[p].pay)
            \/ /\ job'[p].pc = "credit"
               /\ \E u \in job[p].todo :
                     /\ job'[p].todo = job[p].todo \ {u}
                     /\ credits' = Upsert(credits, <<job[p].sid, u>>, job[p].pay[u])
<1> DEFINE r    == job[p]
           u    == First(r.todo)
           rest == r.todo \ {u}
           on   == Working(r.pay)
<1>1. r \in Jobs /\ r.pc = "credit" /\ job \in [Cycles -> Jobs] /\ r.todo \in SUBSET Users
  BY RecordTyped DEF Credit
<1>2. \/ r.todo = {} /\ credits' = credits /\ Goes(p, [r EXCEPT !.pc = "clear", !.todo = on])
      \/ /\ r.todo # {} /\ Goes(p, [r EXCEPT !.todo = rest])
         /\ credits' = Upsert(credits, <<r.sid, u>>, r.pay[u])
  BY Zenon DEF Credit
<1>3. on \in SUBSET Users /\ rest \in SUBSET Users
  BY <1>1, WorkingIsSubset
<1>4. r.todo # {} => u \in r.todo
  BY <1>1, FirstIsOne
<1>5. on = Working(r.pay) /\ rest = r.todo \ {u} /\ "clear" \in Steps
  BY DEF Steps
<1> HIDE DEF r, u, rest, on
<1>6. CASE /\ r.todo # {} /\ Goes(p, [r EXCEPT !.todo = rest])
           /\ credits' = Upsert(credits, <<r.sid, u>>, r.pay[u])
  <2> DEFINE x == [r EXCEPT !.todo = rest]
  <2>1. x \in Jobs /\ Kept(r, x) /\ x.pc = r.pc /\ x.todo = rest
    BY <1>1, <1>3, TodoUpdate
  <2>2. Goes(p, x)
    BY <1>6
  <2> HIDE DEF x
  <2> QED
    BY <1>1, <1>4, <1>5, <1>6, <2>1, <2>2, RecordAfter DEF r
<1>7. CASE r.todo = {} /\ credits' = credits /\ Goes(p, [r EXCEPT !.pc = "clear", !.todo = on])
  <2> DEFINE x == [r EXCEPT !.pc = "clear", !.todo = on]
  <2>1. x \in Jobs /\ Kept(r, x) /\ x.pc = "clear" /\ x.todo = on
    BY <1>1, <1>3, <1>5 DEF Jobs, Kept
  <2>2. Goes(p, x)
    BY <1>7
  <2> HIDE DEF x
  <2> QED
    BY <1>1, <1>5, <1>7, <2>1, <2>2, RecordAfter DEF r
<1> QED
  BY <1>2, <1>6, <1>7

LEMMA ClearEffect ==
  ASSUME TypesInv, NEW p \in Cycles, Clear(p)
  PROVE  /\ job[p].pc = "clear" /\ Stepped(p) /\ Kept(job[p], job'[p])
         /\ \/ /\ job[p].todo = {} /\ accrual' = accrual /\ job'[p].pc = "carry"
               /\ job'[p].todo = job[p].todo
            \/ /\ job'[p].pc = "clear"
               /\ \E u \in job[p].todo :
                     /\ job'[p].todo = job[p].todo \ {u}
                     /\ accrual' = [accrual EXCEPT ![u] = 0]
<1> DEFINE r    == job[p]
           u    == First(r.todo)
           rest == r.todo \ {u}
<1>1. r \in Jobs /\ r.pc = "clear" /\ job \in [Cycles -> Jobs] /\ r.todo \in SUBSET Users
  BY RecordTyped DEF Clear
<1>2. \/ r.todo = {} /\ accrual' = accrual /\ Goes(p, [r EXCEPT !.pc = "carry"])
      \/ /\ r.todo # {} /\ Goes(p, [r EXCEPT !.todo = rest])
         /\ accrual' = [accrual EXCEPT ![u] = 0]
  BY Zenon DEF Clear
<1>3. rest \in SUBSET Users
  BY <1>1
<1>4. r.todo # {} => u \in r.todo
  BY <1>1, FirstIsOne
<1>5. rest = r.todo \ {u} /\ "carry" \in Steps
  BY DEF Steps
<1> HIDE DEF r, u, rest
<1>6. CASE /\ r.todo # {} /\ Goes(p, [r EXCEPT !.todo = rest])
           /\ accrual' = [accrual EXCEPT ![u] = 0]
  <2> DEFINE x == [r EXCEPT !.todo = rest]
  <2>1. x \in Jobs /\ Kept(r, x) /\ x.pc = r.pc /\ x.todo = rest
    BY <1>1, <1>3, TodoUpdate
  <2>2. Goes(p, x)
    BY <1>6
  <2> HIDE DEF x
  <2> QED
    BY <1>1, <1>4, <1>5, <1>6, <2>1, <2>2, RecordAfter DEF r
<1>7. CASE r.todo = {} /\ accrual' = accrual /\ Goes(p, [r EXCEPT !.pc = "carry"])
  <2> DEFINE x == [r EXCEPT !.pc = "carry"]
  <2>1. x \in Jobs /\ Kept(r, x) /\ x.pc = "carry" /\ x.todo = r.todo
    BY <1>1, <1>5, PcUpdate
  <2>2. Goes(p, x)
    BY <1>7
  <2> HIDE DEF x
  <2> QED
    BY <1>1, <1>7, <2>1, <2>2, RecordAfter DEF r
<1> QED
  BY <1>2, <1>6, <1>7

LEMMA CarryEffect ==
  ASSUME TypesInv, NEW p \in Cycles, Carry(p)
  PROVE  /\ job[p].pc = "carry" /\ Stepped(p) /\ Kept(job[p], job'[p])
         /\ job'[p].pc = "complete" /\ job'[p].todo = job[p].todo /\ carry' = job[p].left
<1> DEFINE r == job[p]
           x == [r EXCEPT !.pc = "complete"]
<1>1. /\ r \in Jobs /\ r.pc = "carry" /\ job \in [Cycles -> Jobs] /\ Goes(p, x)
      /\ carry' = r.left /\ "complete" \in Steps
  BY RecordTyped DEF Carry, Steps
<1> HIDE DEF r
<1>2. x \in Jobs /\ Kept(r, x) /\ x.pc = "complete" /\ x.todo = r.todo
  BY <1>1, PcUpdate
<1> HIDE DEF x
<1> QED
  BY <1>1, <1>2, RecordAfter DEF r

LEMMA CompleteEffect ==
  ASSUME TypesInv, NEW p \in Cycles, Complete(p)
  PROVE  job[p].pc = "complete" /\ Stepped(p) /\ job'[p].pc = "link" /\ job'[p].sid = job[p].sid
<1> DEFINE r == job[p]
           none == Nobody
           x == [r EXCEPT !.pc = "link", !.work = none, !.pay = none]
<1>1. r \in Jobs /\ r.pc = "complete" /\ job \in [Cycles -> Jobs] /\ Goes(p, x)
  BY RecordTyped DEF Complete
<1>2. none \in [Users -> Nat]
  BY NobodyTyped
<1> HIDE DEF r, none
<1>3. x \in Jobs /\ x.pc = "link" /\ x.sid = r.sid
  BY <1>1, <1>2 DEF Jobs, Steps
<1> HIDE DEF x
<1> QED
  BY <1>1, <1>3, RecordAfter DEF r

LEMMA LinkEffect ==
  ASSUME TypesInv, NEW p \in Cycles, Link(p)
  PROVE  /\ job[p].pc = "link" /\ Stepped(p) /\ job'[p].pc \in {"link", "send"}
         /\ job'[p].sid = job[p].sid
         /\ \/ links' = links
            \/ \E b \in Blocks, sats \in Nat :
                 links' = Upsert(links, b, [sid |-> job[p].sid, sats |-> sats])
<1> DEFINE r == job[p]
<1>1. /\ r \in Jobs /\ r.pc = "link" /\ job \in [Cycles -> Jobs]
      /\ "link" \in Steps /\ "send" \in Steps
  BY RecordTyped DEF Link, Steps
<1>2. r.matured \subseteq Blocks
  BY <1>1 DEF Jobs
<1>3. CASE r.matured = {}
  <2> DEFINE x == [r EXCEPT !.pc = "send"]
  <2>1. Goes(p, x) /\ links' = links
    BY <1>3 DEF Link
  <2> HIDE DEF r
  <2>2. x \in Jobs /\ Kept(r, x) /\ x.pc = "send"
    BY <1>1, PcUpdate
  <2> HIDE DEF x
  <2> QED
    BY <1>1, <2>1, <2>2, RecordAfter DEF r, Kept
<1>4. CASE r.matured # {}
  <2>1. PICK b \in r.matured :
          /\ LinkTo(b, r.sid, IF b \in r.paid THEN Reward[b] ELSE 0)
          /\ Goes(p, [r EXCEPT !.matured = @ \ {b}])
    BY <1>4 DEF Link
  <2> DEFINE sats == IF b \in r.paid THEN Reward[b] ELSE 0
             rest == r.matured \ {b}
             x == [r EXCEPT !.matured = rest]
  <2>2. b \in Blocks /\ sats \in Nat /\ rest \in SUBSET Blocks
    BY <1>2, SettlementAssumption
  <2>3. Goes(p, x) /\ LinkTo(b, r.sid, sats)
    BY <2>1
  <2> HIDE DEF r, rest, sats
  <2>4. x \in Jobs /\ x.pc = r.pc /\ x.sid = r.sid
    BY <1>1, <2>2 DEF Jobs
  <2> HIDE DEF x
  <2>5. links' = links \/ links' = Upsert(links, b, [sid |-> r.sid, sats |-> sats])
    BY <2>3, Zenon DEF LinkTo
  <2>6. job'[p] = x /\ Stepped(p)
    BY <1>1, <2>3, <2>4, RecordAfter
  <2> QED
    BY <1>1, <2>2, <2>4, <2>5, <2>6 DEF r
<1> QED
  BY <1>3, <1>4

LEMMA EndEffect ==
  ASSUME TypesInv, NEW p \in Cycles, Send(p) \/ Abort(p)
  PROVE  job[p].pc # "idle" /\ Stepped(p) /\ job'[p].pc = "idle"
<1>1. Goes(p, Idle) /\ job[p].pc # "idle"
  BY DEF Send, Abort
<1> QED
  BY <1>1, IdleTyped, IdleFacts, RecordTyped, RecordAfter
-----------------------------------------------------------------------------
(* Every step keeps the types.                                             *)

LEMMA UpsertFacts ==
  ASSUME NEW T, NEW k, NEW v
  PROVE  /\ DOMAIN Upsert(T, k, v) = DOMAIN T \union {k}
         /\ Upsert(T, k, v)[k] = v
         /\ \A x \in DOMAIN T \ {k} : Upsert(T, k, v)[x] = T[x]
  BY DEF Upsert

\* The settlements a cycle holds stay, and it goes on at one of them.
LEMMA JobsStep ==
  ASSUME TypesInv, NEW p \in Cycles, Stepped(p), DOMAIN windows \subseteq DOMAIN windows',
         job'[p].pc \in Fill \union {"link"} => job'[p].sid \in DOMAIN windows',
         job'[p].pc = "add" => job'[p].todo # {}
  PROVE  JobsTyped'
<1>1. job' \in [Cycles -> Jobs] /\ \A q \in Cycles : JobOK(job[q], windows)
  BY DEF Stepped, TypesInv, JobsTyped
<1>2. JobOK(job'[p], windows')
  BY DEF Stepped, JobOK
<1>3. ASSUME NEW q \in Cycles \ {p} PROVE JobOK(job'[q], windows')
  <2>1. job'[q] = job[q]
    BY DEF Stepped
  <2> QED
    BY <1>1, <2>1 DEF JobOK
<1> QED
  BY <1>1, <1>2, <1>3 DEF JobsTyped

LEMMA StatesKeepWindows ==
  ASSUME WindowsInv, NEW p \in Cycles, NEW s \in Statuses, NEW w \in Rewards, SetWindow(p, s, w)
  PROVE  DOMAIN windows' = DOMAIN windows
  BY SetWindowFacts DEF WindowsInv

\* No step takes a window away.
LEMMA WindowsStay ==
  ASSUME TypesInv, [Next]_vars
  PROVE  DOMAIN windows \subseteq DOMAIN windows'
<1>1. CASE UNCHANGED windows
  BY <1>1
<1>2. ASSUME NEW p \in Cycles, OpenWindow(p) PROVE DOMAIN windows \subseteq DOMAIN windows'
  <2>1. windows \in Seq(Shape)
    BY DEF TypesInv, WindowsInv
  <2>2. \/ windows' = Append(windows, Window(job[p].from, "pending", 0))
        \/ windows' = [windows EXCEPT ![job'[p].sid] = Window(job[p].from, "pending", 0)]
    BY <1>2, OpenEffect
  <2>3. PICK new : new = Window(job[p].from, "pending", 0)
    OBVIOUS
  <2>4. CASE windows' = Append(windows, new)
    BY <2>1, <2>4
  <2>5. CASE windows' = [windows EXCEPT ![job'[p].sid] = new]
    BY <2>5
  <2> QED
    BY <2>2, <2>3, <2>4, <2>5
<1>3. ASSUME NEW p \in Cycles, Weigh(p) \/ Defer(p) \/ Complete(p)
      PROVE  DOMAIN windows \subseteq DOMAIN windows'
  <2>1. job[p].reward \in Rewards /\ 0 \in Rewards /\ WindowsInv
    BY ZeroRewards DEF TypesInv, WindowsInv, Holds
  <2>2. {"pending", "deferred", "completed"} \subseteq Statuses
    BY DEF Statuses
  <2> QED
    BY <1>3, <2>1, <2>2, StatesKeepWindows DEF Weigh, Defer, Complete
<1>4. \/ UNCHANGED windows
      \/ \E p \in Cycles : OpenWindow(p)
      \/ \E p \in Cycles : Weigh(p) \/ Defer(p) \/ Complete(p)
  <2>1. Tick \/ UNCHANGED vars => UNCHANGED windows
    BY DEF Tick, vars, tables
  <2>2. ASSUME NEW p \in Cycles, Start(p) \/ Abort(p) PROVE UNCHANGED windows
    BY <2>2 DEF Start, Abort, tables
  <2>3. ASSUME NEW p \in Cycles, Gather(p) \/ Look(p) \/ Check(p) \/ Merge(p) \/ Price(p)
                 \/ StoreWork(p) \/ ReadBucket(p) \/ AddWork(p) \/ Credit(p)
                 \/ Clear(p) \/ Carry(p) \/ Link(p) \/ Send(p)
        PROVE  UNCHANGED windows
    BY <2>3 DEF Gather, Look, Check, Merge, Price, StoreWork, ReadBucket, AddWork, Credit,
                Clear, Carry, Link, Send, tables
  <2> QED
    BY <2>1, <2>2, <2>3, Zenon DEF Next, Step
<1> QED
  BY <1>1, <1>2, <1>3, <1>4

\* A cycle goes on at the settlement it was at, or at one it has just found.
LEMMA NextTypesJobs ==
  ASSUME TypesInv, WindowsInv', [Next]_vars
  PROVE  JobsTyped'
<1>1. DOMAIN windows \subseteq DOMAIN windows'
  BY WindowsStay
<1>2. \A q \in Cycles : JobOK(job[q], windows)
  BY DEF TypesInv, JobsTyped
<1>3. CASE Tick \/ UNCHANGED vars
  <2>1. job' = job
    BY <1>3 DEF Tick, vars
  <2> QED
    BY <1>1, <2>1 DEF TypesInv, JobsTyped, JobOK
<1>4. ASSUME NEW p \in Cycles, Start(p) \/ Gather(p) \/ Send(p) \/ Abort(p) PROVE JobsTyped'
  <2>1. Stepped(p) /\ job'[p].pc \in {"idle", "gather", "look", "send"}
    BY <1>4, StartEffect, GatherEffect, EndEffect
  <2> QED
    BY <1>1, <2>1, JobsStep DEF Fill
<1>5. ASSUME NEW p \in Cycles, Look(p) \/ Check(p) PROVE JobsTyped'
  <2>1. /\ Stepped(p) /\ job'[p].pc \in {"check", "open", "bucket", "link"}
        /\ job'[p].pc \in {"bucket", "link"} => job'[p].sid \in DOMAIN windows
    BY <1>5, LookEffect, CheckEffect
  <2> QED
    BY <1>1, <2>1, JobsStep DEF Fill
<1>6. ASSUME NEW p \in Cycles, OpenWindow(p) PROVE JobsTyped'
  <2>1. windows \in Seq(Shape)
    BY DEF TypesInv, WindowsInv
  <2>2. PICK new : new = Window(job[p].from, "pending", 0)
    OBVIOUS
  <2>3. /\ Stepped(p) /\ job'[p].pc = "weigh"
        /\ \/ job'[p].sid = Len(windows) + 1 /\ windows' = Append(windows, new)
           \/ job'[p].sid \in DOMAIN windows
    BY <1>6, <2>2, OpenEffect
  <2>4. job'[p].sid \in DOMAIN windows'
    BY <1>1, <2>1, <2>3
  <2> QED
    BY <1>1, <2>3, <2>4, JobsStep
<1>7. ASSUME NEW p \in Cycles, Weigh(p) \/ Merge(p) \/ Price(p) \/ Defer(p) \/ Complete(p)
      PROVE  JobsTyped'
  <2>1. /\ job[p].pc \in Fill /\ Stepped(p) /\ job'[p].pc # "add"
        /\ job'[p].sid = job[p].sid
    BY <1>7, WeighEffect, MergeEffect, PriceEffect, DeferEffect, CompleteEffect DEF Fill
  <2>2. job[p].sid \in DOMAIN windows
    BY <1>2, <2>1 DEF JobOK
  <2> QED
    BY <1>1, <2>1, <2>2, JobsStep
<1>8. ASSUME NEW p \in Cycles, StoreWork(p) \/ AddWork(p) \/ Credit(p) \/ Clear(p) \/ Carry(p)
      PROVE  JobsTyped'
  <2>1. /\ job[p].pc \in Fill /\ Stepped(p) /\ job'[p].pc # "add"
        /\ job'[p].sid = job[p].sid
    BY <1>8, StoreEffect, AddEffect, CreditEffect, ClearEffect, CarryEffect DEF Fill, Kept
  <2>2. job[p].sid \in DOMAIN windows
    BY <1>2, <2>1 DEF JobOK
  <2> QED
    BY <1>1, <2>1, <2>2, JobsStep
<1>9. ASSUME NEW p \in Cycles, ReadBucket(p) PROVE JobsTyped'
  <2>1. /\ job[p].pc \in Fill /\ Stepped(p) /\ job'[p].sid = job[p].sid
        /\ job'[p].pc = "add" => job'[p].todo # {}
    BY <1>9, ReadEffect DEF Fill, Kept
  <2>2. job[p].sid \in DOMAIN windows
    BY <1>2, <2>1 DEF JobOK
  <2> QED
    BY <1>1, <2>1, <2>2, JobsStep
<1>10. ASSUME NEW p \in Cycles, Link(p) PROVE JobsTyped'
  <2>1. /\ job[p].pc = "link" /\ Stepped(p) /\ job'[p].pc # "add"
        /\ job'[p].sid = job[p].sid
    BY <1>10, LinkEffect
  <2>2. job[p].sid \in DOMAIN windows
    BY <1>2, <2>1 DEF JobOK
  <2> QED
    BY <1>1, <2>1, <2>2, JobsStep
<1> QED
  BY <1>3, <1>4, <1>5, <1>6, <1>7, <1>8, <1>9, <1>10, Zenon DEF Next, Step

\* The tables that are kept while the windows grow.
LEMMA TablesKept ==
  ASSUME TablesTyped, DOMAIN windows \subseteq DOMAIN windows',
         now' \in 0 .. MaxNow, foundAt' = foundAt, samples' \subseteq Sampled \union 0 .. MaxNow,
         links' = links, rows' = rows, credits' = credits, events' = events,
         accrual' = accrual, carry' = carry, troubles' \in 0 .. MaxTroubles,
         aborted' \subseteq Midway, overlapped' \in BOOLEAN, raced' \in BOOLEAN
  PROVE  TablesTyped'
  BY DEF TablesTyped

LEMMA NextTypesTables ==
  ASSUME TypesInv, WindowsInv', [Next]_vars
  PROVE  TablesTyped'
<1>1. DOMAIN windows \subseteq DOMAIN windows' /\ TablesTyped
  BY WindowsStay DEF TypesInv
<1>2. CASE Tick \/ UNCHANGED vars
  <2>1. now' \in 0 .. MaxNow
    BY <1>1, <1>2, SettlementAssumption DEF Tick, vars, TablesTyped
  <2> QED
    BY <1>1, <1>2, <2>1, TablesKept DEF Tick, vars, tables, TablesTyped
<1>3. ASSUME NEW p \in Cycles, Start(p) PROVE TablesTyped'
  <2>1. troubles' \in 0 .. MaxTroubles
    <3>1. troubles \in 0 .. MaxTroubles
      BY <1>1 DEF TablesTyped
    <3>2. troubles' = troubles \/ (troubles' = troubles + 1 /\ troubles < MaxTroubles)
      BY <1>3 DEF Start
    <3> QED
      BY <3>1, <3>2, SettlementAssumption
  <2>2. samples' \subseteq Sampled \union 0 .. MaxNow
    BY <1>1, <1>3 DEF Start, TablesTyped
  <2>3. overlapped' \in BOOLEAN
    BY <1>1, <1>3 DEF Start, TablesTyped
  <2> QED
    BY <1>1, <1>3, <2>1, <2>2, <2>3, TablesKept DEF Start, TablesTyped
<1>4. ASSUME NEW p \in Cycles,
             Gather(p) \/ Look(p) \/ Check(p) \/ Merge(p) \/ Price(p) \/ ReadBucket(p)
      PROVE  TablesTyped'
  BY <1>1, <1>4, TablesKept DEF Gather, Look, Check, Merge, Price, ReadBucket, TablesTyped, tables
<1>5. ASSUME NEW p \in Cycles, OpenWindow(p) \/ Weigh(p) \/ Defer(p) \/ Complete(p)
      PROVE  TablesTyped'
  BY <1>1, <1>5, TablesKept DEF OpenWindow, Weigh, Defer, Complete, TablesTyped, tables
<1>6. ASSUME NEW p \in Cycles, Abort(p) PROVE TablesTyped'
  <2>1. aborted' \subseteq Midway
    BY <1>1, <1>6 DEF Abort, TablesTyped
  <2>2. troubles' \in 0 .. MaxTroubles
    <3>1. troubles \in 0 .. MaxTroubles /\ troubles' = troubles + 1 /\ troubles < MaxTroubles
      BY <1>1, <1>6 DEF Abort, TablesTyped
    <3> QED
      BY <3>1, SettlementAssumption
  <2> QED
    BY <1>1, <1>6, <2>1, <2>2, TablesKept DEF Abort, TablesTyped, tables
<1>7. ASSUME NEW p \in Cycles, StoreWork(p) \/ Credit(p) PROVE TablesTyped'
  <2>1. job[p].sid \in DOMAIN windows
    <3>1. job[p].pc \in Fill
      BY <1>7 DEF StoreWork, Credit, Fill
    <3> QED
      BY <3>1 DEF TypesInv, JobsTyped, JobOK
  <2>2. /\ windows' = windows /\ links' = links /\ events' = events /\ accrual' = accrual
        /\ carry' = carry /\ now' = now /\ foundAt' = foundAt /\ samples' = samples
        /\ troubles' = troubles /\ aborted' = aborted /\ overlapped' = overlapped
        /\ raced' = raced
        /\ StoreWork(p) => credits' = credits
        /\ Credit(p) => rows' = rows
    BY <1>7 DEF StoreWork, Credit
  <2>3. ASSUME NEW T, NEW T2, T2 = T \/ \E u \in job[p].todo, n \in Nat : T2 = Upsert(T, <<job[p].sid, u>>, n),
               DOMAIN T \subseteq (DOMAIN windows) \X Users, \A k \in DOMAIN T : T[k] \in Nat
        PROVE  /\ DOMAIN T \subseteq DOMAIN T2 /\ DOMAIN T2 \subseteq (DOMAIN windows) \X Users
               /\ \A k \in DOMAIN T2 : T2[k] \in Nat
    <3>1. CASE T2 = T
      BY <2>3, <3>1
    <3>2. ASSUME NEW u \in job[p].todo, NEW n \in Nat, T2 = Upsert(T, <<job[p].sid, u>>, n)
          PROVE  /\ DOMAIN T \subseteq DOMAIN T2 /\ DOMAIN T2 \subseteq (DOMAIN windows) \X Users
                 /\ \A k \in DOMAIN T2 : T2[k] \in Nat
      <4>1. u \in Users
        BY RecordTyped
      <4> QED
        BY <2>1, <2>3, <3>2, <4>1 DEF Upsert
    <3> QED
      BY <2>3, <3>1, <3>2
  <2>4. CASE StoreWork(p)
    <3>1. rows' = rows \/ \E u \in job[p].todo : rows' = Upsert(rows, <<job[p].sid, u>>, job[p].work[u])
      BY <2>4, StoreEffect
    <3>2. \A u \in job[p].todo : job[p].work[u] \in Nat
      BY RecordTyped
    <3>3. rows' = rows \/ \E u \in job[p].todo, n \in Nat : rows' = Upsert(rows, <<job[p].sid, u>>, n)
      BY <3>1, <3>2
    <3>4. DOMAIN rows' \subseteq (DOMAIN windows) \X Users /\ \A k \in DOMAIN rows' : rows'[k] \in Nat
      BY <1>1, <2>3, <3>3 DEF TablesTyped
    <3> QED
      BY <1>1, <2>2, <2>4, <3>4 DEF TablesTyped
  <2>5. CASE Credit(p)
    <3>1. credits' = credits \/ \E u \in job[p].todo : credits' = Upsert(credits, <<job[p].sid, u>>, job[p].pay[u])
      BY <2>5, CreditEffect
    <3>2. \A u \in job[p].todo : job[p].pay[u] \in Nat
      BY RecordTyped
    <3>3. credits' = credits \/ \E u \in job[p].todo, n \in Nat : credits' = Upsert(credits, <<job[p].sid, u>>, n)
      BY <3>1, <3>2
    <3>4. /\ DOMAIN credits \subseteq DOMAIN credits' /\ DOMAIN credits' \subseteq (DOMAIN windows) \X Users
          /\ \A k \in DOMAIN credits' : credits'[k] \in Nat
      BY <1>1, <2>3, <3>3 DEF TablesTyped
    <3> QED
      BY <1>1, <2>2, <2>5, <3>4 DEF TablesTyped
  <2> QED
    BY <1>7, <2>4, <2>5
<1>8. ASSUME NEW p \in Cycles, AddWork(p) \/ Clear(p) \/ Carry(p) PROVE TablesTyped'
  <2>1. accrual' \in [Users -> Nat] /\ carry' \in Nat
    <3>1. CASE AddWork(p)
      <4>1. PICK u : u = First(job[p].todo)
        OBVIOUS
      <4>2. u \in Users /\ accrual' = [accrual EXCEPT ![u] = job[p].bucket + job[p].work[u]] /\ carry' = carry
        BY <3>1, <4>1, AddEffect, RecordTyped DEF AddWork
      <4> QED
        BY <4>2, RecordTyped
    <3>2. CASE Clear(p)
      <4>1. carry' = carry /\ (accrual' = accrual \/ \E u \in job[p].todo : accrual' = [accrual EXCEPT ![u] = 0])
        BY <3>2, ClearEffect DEF Clear
      <4> QED
        BY <4>1, RecordTyped
    <3>3. CASE Carry(p)
      <4>1. carry' = job[p].left /\ accrual' = accrual
        BY <3>3 DEF Carry
      <4> QED
        BY <4>1, RecordTyped
    <3> QED
      BY <1>8, <3>1, <3>2, <3>3
  <2> QED
    BY <1>1, <1>8, <2>1 DEF AddWork, Clear, Carry, TablesTyped
<1>9. ASSUME NEW p \in Cycles, Link(p) PROVE TablesTyped'
  <2>1. job[p].sid \in DOMAIN windows
    BY <1>9 DEF Link, TypesInv, JobsTyped, JobOK
  <2>2. \/ links' = links
        \/ \E b \in Blocks, sats \in Nat :
              links' = Upsert(links, b, [sid |-> job[p].sid, sats |-> sats])
    BY <1>9, LinkEffect
  <2>3. DOMAIN links' \subseteq Blocks
    <3>1. DOMAIN links \subseteq Blocks
      BY <1>1 DEF TablesTyped
    <3> QED
      BY <2>2, <3>1 DEF Upsert
  <2>4. ASSUME NEW b \in DOMAIN links' PROVE links'[b].sid \in DOMAIN windows /\ links'[b].sats \in Nat
    <3>1. CASE links' = links
      BY <1>1, <3>1 DEF TablesTyped
    <3>2. ASSUME NEW c \in Blocks, NEW sats \in Nat, links' = Upsert(links, c, [sid |-> job[p].sid, sats |-> sats])
          PROVE  links'[b].sid \in DOMAIN windows /\ links'[b].sats \in Nat
      <4>1. links'[b] = [sid |-> job[p].sid, sats |-> sats] \/ (b \in DOMAIN links /\ links'[b] = links[b])
        BY <3>2 DEF Upsert
      <4> QED
        BY <1>1, <2>1, <4>1 DEF TablesTyped
    <3> QED
      BY <2>2, <3>1, <3>2
  <2> QED
    BY <1>1, <1>9, <2>3, <2>4 DEF Link, TablesTyped
<1>10. ASSUME NEW p \in Cycles, Send(p) PROVE TablesTyped'
  <2>1. DOMAIN events' = DOMAIN events
    BY <1>10 DEF Send
  <2> QED
    BY <1>1, <1>10, <2>1 DEF Send, TablesTyped
<1> QED
  BY <1>2, <1>3, <1>4, <1>5, <1>6, <1>7, <1>8, <1>9, <1>10, Zenon DEF Next, Step

\* The tables and the records of the cycles hold what they should, and the
\* settlement a cycle is at exists.
THEOREM TypesInvariant == Spec => []TypesInv
<1>1. Init => TablesTyped /\ JobsTyped
  <2> SUFFICES ASSUME Init PROVE TablesTyped /\ JobsTyped
    OBVIOUS
  <2>1. JobsTyped
    <3>1. \A p \in Cycles : job[p] = Idle
      BY DEF Init
    <3>2. Idle.pc = "idle" /\ Idle \in Jobs
      BY IdleFacts, IdleTyped
    <3>3. job \in [Cycles -> Jobs]
      BY <3>2 DEF Init
    <3> QED
      BY <3>1, <3>2, <3>3 DEF JobsTyped, JobOK, Fill
  <2>2. TablesTyped
    <3>1. /\ now = 0 /\ foundAt \in Finds /\ samples = Sampled /\ links = << >> /\ rows = << >>
          /\ credits = << >> /\ events = << >> /\ accrual = Nobody /\ carry = 0 /\ troubles = 0
          /\ aborted = {} /\ overlapped = FALSE /\ raced = FALSE
      BY DEF Init
    <3>2. Nobody \in [Users -> Nat]
      BY NobodyTyped
    <3>3. 0 \in 0 .. MaxNow /\ 0 \in 0 .. MaxTroubles
      BY SettlementAssumption
    <3>4. DOMAIN << >> = {}
      OBVIOUS
    <3> QED
      BY <3>1, <3>2, <3>3, <3>4 DEF TablesTyped
  <2> QED
    BY <2>1, <2>2
<1>2. WindowsInv /\ WindowsInv' /\ TablesTyped /\ JobsTyped /\ [Next]_vars => TablesTyped' /\ JobsTyped'
  BY NextTypesJobs, NextTypesTables DEF TypesInv
<1> QED
  BY <1>1, <1>2, WindowsInvariant, PTL DEF Spec, TypesInv
-----------------------------------------------------------------------------
(* What a cycle that is alone has written of the window it fills.          *)

\* The users whose work it has stored, and those it has credited.
Stored(r) ==
    CASE r.pc = "rows" -> Working(r.work) \ r.todo
      [] r.pc \in {"bucket", "add", "defer"} -> Working(r.work)
      [] OTHER -> {}

Credited(r) ==
    CASE r.pc = "credit" -> Working(r.pay) \ r.todo
      [] r.pc \in {"clear", "carry", "complete"} -> Working(r.pay)
      [] OTHER -> {}

\* The steps of a window with a reward, and of one without, that follow the rows.
Paying    == {"credit", "clear", "carry", "complete"}
Deferring == {"bucket", "add", "defer"}

\* What the tables have of the window that a cycle with record r fills.
FillOK(r, ws, cs, rs, buckets) ==
    /\ r.sid = Len(ws)
    /\ \A u \in Users : <<r.sid, u>> \in DOMAIN cs <=> u \in Credited(r)
    /\ r.pc \notin Paying => \A u \in Users :
          /\ <<r.sid, u>> \in DOMAIN rs <=> u \in Stored(r)
          /\ u \in Stored(r) => rs[<<r.sid, u>>] = r.work[u]
    /\ r.pc \in {"price", "rows"} \union Deferring => r.todo \subseteq Working(r.work)
    /\ r.pc = "price" => r.todo = Working(r.work)
    /\ r.pc \in {"credit", "clear"} => r.todo \subseteq Working(r.pay)
    /\ r.pc \in {"carry", "complete", "defer"} => r.todo = {}
    /\ r.pc = "add" => r.bucket = buckets[First(r.todo)]
    /\ r.pc \in Paying \union {"merge", "price"} => r.reward # 0
    /\ r.pc \in Deferring => r.reward = 0

FillInv ==
    ~overlapped => \A p \in Cycles :
        /\ job[p].pc = "check" => OfRange(job[p].from) = {}
        /\ job[p].pc \in Fill => FillOK(job[p], windows, credits, rows, accrual)
-----------------------------------------------------------------------------
(* The window a cycle fills.                                               *)

LEMMA WrittenFacts ==
  ASSUME NEW r
  PROVE  /\ r.pc = "rows" => Stored(r) = Working(r.work) \ r.todo
         /\ r.pc \in Deferring => Stored(r) = Working(r.work)
         /\ r.pc \notin Deferring \union {"rows"} => Stored(r) = {}
         /\ r.pc = "credit" => Credited(r) = Working(r.pay) \ r.todo
         /\ r.pc \in Paying \ {"credit"} => Credited(r) = Working(r.pay)
         /\ r.pc \notin Paying => Credited(r) = {}
  BY DEF Stored, Credited, Deferring, Paying

\* While cycles do not overlap, only the one at work matters.
LEMMA OwnFill ==
  ASSUME SettledInv, NEW p \in Cycles, job[p].pc # "idle", Stepped(p), overlapped' = overlapped,
         ~overlapped =>
           /\ job'[p].pc = "check" => OfRange(job[p].from)' = {}
           /\ job'[p].pc \in Fill => FillOK(job'[p], windows', credits', rows', accrual')
  PROVE  FillInv'
<1> SUFFICES ASSUME ~overlapped', NEW q \in Cycles
             PROVE  /\ job'[q].pc = "check" => OfRange(job[q].from)' = {}
                    /\ job'[q].pc \in Fill => FillOK(job'[q], windows', credits', rows', accrual')
  BY DEF FillInv
<1>1. CASE q = p
  BY <1>1
<1>2. CASE q # p
  <2>1. job[q].pc = "idle" /\ job'[q] = job[q]
    BY <1>2 DEF SettledInv, AloneInv, Stepped
  <2> QED
    BY <2>1 DEF Fill
<1> QED
  BY <1>1, <1>2

LEMMA StartFills ==
  ASSUME SettledInv, TypesInv, NEW p \in Cycles, Start(p)
  PROVE  FillInv'
<1> SUFFICES ASSUME ~overlapped', NEW q \in Cycles
             PROVE  job'[q].pc # "check" /\ job'[q].pc \notin Fill
  BY DEF FillInv
<1>1. \A o \in Cycles : job[o].pc = "idle"
  BY DEF Start
<1>2. /\ job'[p].pc \in {"gather", "send"} /\ \A o \in Cycles \ {p} : job'[o] = job[o]
  BY StartEffect DEF Stepped
<1>3. job'[q].pc \in {"gather", "send", "idle"}
  BY <1>1, <1>2
<1> QED
  BY <1>3 DEF Fill

\* Steps after which the cycle has no window to fill.
LEMMA OtherFills ==
  ASSUME SettledInv, TypesInv, NEW p \in Cycles,
         Gather(p) \/ Defer(p) \/ Complete(p) \/ Link(p) \/ Send(p) \/ Abort(p)
  PROVE  FillInv'
<1>1. /\ Stepped(p) /\ job[p].pc # "idle"
      /\ job'[p].pc \in {"look", "link", "send", "idle"}
  BY GatherEffect, DeferEffect, CompleteEffect, LinkEffect, EndEffect
<1>2. overlapped' = overlapped
  BY DEF Gather, Defer, Complete, Link, Send, Abort
<1> QED
  BY <1>1, <1>2, OwnFill DEF Fill

LEMMA EndsTyped ==
  ASSUME windows \in Seq(Shape)
  PROVE  \A j \in DOMAIN windows : /\ j \in 1 .. Len(windows) /\ windows[j].end \in Int
                                   /\ windows[j].reward \in Nat /\ windows[j].status \in Statuses
<1>1. \A j \in DOMAIN windows : j \in 1 .. Len(windows) /\ windows[j] \in Shape
  OBVIOUS
<1>2. \A w \in Shape : w.end \in Int /\ w.reward \in Nat /\ w.status \in Statuses
  BY RewardsNatural DEF Shape
<1> QED
  BY <1>1, <1>2

\* No window begins where the latest ends.
LEMMA LookFills ==
  ASSUME SettledInv, TypesInv, NEW p \in Cycles, Look(p)
  PROVE  FillInv'
<1>1. /\ Stepped(p) /\ job[p].pc = "look" /\ overlapped' = overlapped /\ windows' = windows
      /\ \/ job'[p].pc = "check" /\ windows = << >>
         \/ /\ job'[p].pc = "check" /\ windows # << >>
            /\ job'[p].from = windows[LatestWindow].end
         \/ job'[p].pc = "link"
  BY LookEffect DEF Look, tables
<1>2. OfRange(job[p].from)' = InRange(windows, job'[p].from)
  BY <1>1 DEF OfRange, InRange
<1>3. CASE job'[p].pc = "check" /\ windows = << >>
  <2>1. DOMAIN windows = {}
    BY <1>3
  <2>2. InRange(windows, job'[p].from) = {}
    BY <2>1 DEF InRange
  <2> QED
    BY <1>1, <1>2, <1>3, <2>2, OwnFill DEF Fill
<1>4. CASE job'[p].pc = "check" /\ windows # << >> /\ job'[p].from = windows[LatestWindow].end
  <2>1. /\ LatestWindow \in DOMAIN windows
        /\ \A j \in DOMAIN windows : windows[j].end <= windows[LatestWindow].end
    BY <1>4, LatestFacts DEF SettledInv, WindowsInv
  <2>2. \A j \in DOMAIN windows : windows[j].end \in Int
    <3>1. windows \in Seq(Shape)
      BY DEF SettledInv, WindowsInv
    <3> QED
      BY <3>1, EndsTyped
  <2>3. PICK e \in Int : e = windows[LatestWindow].end
    BY <2>1, <2>2
  <2>4. \A j \in DOMAIN windows : windows[j].end <= e
    BY <2>1, <2>3
  <2>5. InRange(windows, e) = {}
    <3>1. e + Interval > e /\ e + Interval \in Int
      BY SettlementAssumption
    <3>2. \A j \in DOMAIN windows : windows[j].end # e + Interval
      BY <2>2, <2>4, <3>1
    <3> QED
      BY <3>2 DEF InRange
  <2> QED
    BY <1>1, <1>2, <1>4, <2>3, <2>5, OwnFill DEF Fill
<1>5. CASE job'[p].pc = "link"
  BY <1>1, <1>5, OwnFill DEF Fill
<1> QED
  BY <1>1, <1>3, <1>4, <1>5

LEMMA CheckFills ==
  ASSUME SettledInv, TypesInv, FillInv, NEW p \in Cycles, Check(p)
  PROVE  FillInv'
<1>1. /\ Stepped(p) /\ job[p].pc = "check" /\ overlapped' = overlapped
      /\ OfRange(job[p].from) = {} => job'[p].pc = "open"
  BY CheckEffect DEF Check
<1>2. ~overlapped => job'[p].pc = "open"
  BY <1>1 DEF FillInv
<1> QED
  BY <1>1, <1>2, OwnFill DEF Fill

LEMMA OpenFills ==
  ASSUME SettledInv, TypesInv, NEW p \in Cycles, OpenWindow(p)
  PROVE  FillInv'
<1>1. /\ Stepped(p) /\ job[p].pc = "open" /\ overlapped' = overlapped
      /\ job'[p].pc = "weigh" /\ credits' = credits /\ rows' = rows
  BY OpenEffect DEF OpenWindow
<1> SUFFICES ASSUME ~overlapped PROVE FillOK(job'[p], windows', credits', rows', accrual')
  BY <1>1, OwnFill
<1>2. OfRange(job[p].from) = {}
  BY <1>1 DEF SettledInv, AloneInv, OfRange, InRange
<1>3. PICK new : new = Window(job[p].from, "pending", 0)
  OBVIOUS
<1>4. job'[p].sid = Len(windows) + 1 /\ windows' = Append(windows, new)
  BY <1>2, <1>3, OpenEffect
<1>5. windows \in Seq(Shape)
  BY DEF SettledInv, WindowsInv
<1>6. Len(windows') = Len(windows) + 1 /\ Len(windows) + 1 \notin DOMAIN windows
  BY <1>4, <1>5
<1>7. \A u \in Users : /\ <<job'[p].sid, u>> \notin DOMAIN credits
                       /\ <<job'[p].sid, u>> \notin DOMAIN rows
  BY <1>4, <1>6 DEF TypesInv, TablesTyped
<1>8. Stored(job'[p]) = {} /\ Credited(job'[p]) = {}
  BY <1>1, WrittenFacts DEF Deferring, Paying
<1> QED
  BY <1>1, <1>4, <1>6, <1>7, <1>8 DEF FillOK, Deferring, Paying

\* What is known of the window that a cycle fills while it is alone.
LEMMA FillFacts ==
  ASSUME SettledInv, FillInv, NEW p \in Cycles, job[p].pc \in Fill, ~overlapped
  PROVE  /\ FillOK(job[p], windows, credits, rows, accrual) /\ job[p].sid \in DOMAIN windows
         /\ windows[job[p].sid].status = "pending"
  BY DEF SettledInv, AloneInv, FillInv

LEMMA WeighFills ==
  ASSUME SettledInv, TypesInv, FillInv, NEW p \in Cycles, Weigh(p)
  PROVE  FillInv'
<1>1. /\ job[p].pc = "weigh" /\ Stepped(p) /\ overlapped' = overlapped
      /\ job'[p].pc = IF job[p].reward = 0 THEN "rows" ELSE "merge"
      /\ job'[p].sid = job[p].sid /\ job'[p].reward = job[p].reward
      /\ job'[p].todo = Working(job'[p].work)
      /\ credits' = credits /\ rows' = rows /\ accrual' = accrual
  BY WeighEffect DEF Weigh
<1> SUFFICES ASSUME ~overlapped PROVE FillOK(job'[p], windows', credits', rows', accrual')
  BY <1>1, OwnFill
<1>2. FillOK(job[p], windows, credits, rows, accrual)
  BY <1>1, FillFacts DEF Fill
<1>3. Len(windows') = Len(windows)
  <2>1. windows \in Seq(Shape) /\ windows' = [windows EXCEPT ![job[p].sid] = windows'[job[p].sid]]
    BY DEF SettledInv, WindowsInv, Weigh, SetWindow
  <2> QED
    BY <2>1
<1>4. /\ Stored(job'[p]) = {} /\ Credited(job'[p]) = {}
      /\ Stored(job[p]) = {} /\ Credited(job[p]) = {}
  BY <1>1, WrittenFacts DEF Deferring, Paying
<1>5. job'[p].pc \in {"rows", "merge"}
  BY <1>1
<1>6. /\ job'[p].sid = Len(windows')
      /\ \A u \in Users : /\ <<job'[p].sid, u>> \notin DOMAIN credits'
                          /\ <<job'[p].sid, u>> \notin DOMAIN rows'
  BY <1>1, <1>2, <1>3, <1>4 DEF FillOK, Paying
<1> QED
  BY <1>1, <1>4, <1>5, <1>6 DEF FillOK, Deferring, Paying

LEMMA MergeFills ==
  ASSUME SettledInv, TypesInv, FillInv, NEW p \in Cycles, Merge(p) \/ Price(p)
  PROVE  FillInv'
<1>1. /\ Stepped(p) /\ overlapped' = overlapped /\ windows' = windows
      /\ credits' = credits /\ rows' = rows /\ accrual' = accrual
      /\ job'[p].sid = job[p].sid /\ job'[p].reward = job[p].reward
      /\ \/ /\ job[p].pc = "merge" /\ job'[p].pc = "price"
            /\ job'[p].todo = Working(job'[p].work)
         \/ /\ job[p].pc = "price" /\ job'[p].pc = "rows"
            /\ job'[p].todo = job[p].todo /\ job'[p].work = job[p].work
  BY MergeEffect, PriceEffect DEF Merge, Price, tables
<1> SUFFICES ASSUME ~overlapped PROVE FillOK(job'[p], windows', credits', rows', accrual')
  BY <1>1, OwnFill DEF Fill
<1>2. FillOK(job[p], windows, credits, rows, accrual)
  BY <1>1, FillFacts DEF Fill
<1>3. job'[p].todo = Working(job'[p].work)
  BY <1>1, <1>2 DEF FillOK
<1>4. /\ Stored(job'[p]) = {} /\ Credited(job'[p]) = {}
      /\ Stored(job[p]) = {} /\ Credited(job[p]) = {}
  BY <1>1, <1>3, WrittenFacts DEF Deferring, Paying
<1>5. /\ job'[p].sid = Len(windows') /\ job'[p].reward # 0
      /\ \A u \in Users : /\ <<job'[p].sid, u>> \notin DOMAIN credits'
                          /\ <<job'[p].sid, u>> \notin DOMAIN rows'
  BY <1>1, <1>2, <1>4 DEF FillOK, Paying
<1> QED
  BY <1>1, <1>3, <1>4, <1>5 DEF FillOK, Deferring, Paying

LEMMA StoreFills ==
  ASSUME SettledInv, TypesInv, FillInv, NEW p \in Cycles, StoreWork(p)
  PROVE  FillInv'
<1>1. /\ job[p].pc = "rows" /\ Stepped(p) /\ Kept(job[p], job'[p]) /\ overlapped' = overlapped
      /\ windows' = windows /\ credits' = credits /\ accrual' = accrual
      /\ \/ /\ job[p].todo = {} /\ rows' = rows
            /\ \/ /\ job[p].reward = 0 /\ job'[p].pc = "bucket"
                  /\ job'[p].todo = Working(job[p].work)
               \/ /\ job[p].reward # 0 /\ job'[p].pc = "credit"
                  /\ job'[p].todo = Working(job[p].pay)
         \/ /\ job'[p].pc = "rows"
            /\ \E u \in job[p].todo :
                  /\ job'[p].todo = job[p].todo \ {u}
                  /\ rows' = Upsert(rows, <<job[p].sid, u>>, job[p].work[u])
  BY StoreEffect DEF StoreWork
<1> SUFFICES ASSUME ~overlapped PROVE FillOK(job'[p], windows', credits', rows', accrual')
  BY <1>1, OwnFill DEF Fill
<1>2. FillOK(job[p], windows, credits, rows, accrual)
  BY <1>1, FillFacts DEF Fill
<1>3. PICK r, x : r = job[p] /\ x = job'[p]
  OBVIOUS
<1>4. /\ r.pc = "rows" /\ r.sid = Len(windows)
      /\ Stored(r) = Working(r.work) \ r.todo /\ Credited(r) = {}
      /\ \A u \in Users : /\ <<r.sid, u>> \notin DOMAIN credits
                          /\ <<r.sid, u>> \in DOMAIN rows <=> u \in Stored(r)
                          /\ u \in Stored(r) => rows[<<r.sid, u>>] = r.work[u]
      /\ r.todo \subseteq Working(r.work)
  BY <1>1, <1>2, <1>3, WrittenFacts DEF FillOK, Paying
<1>5. x.sid = r.sid /\ x.work = r.work /\ x.pay = r.pay /\ x.reward = r.reward
  BY <1>1, <1>3 DEF Kept
<1>6. CASE r.todo = {} /\ rows' = rows /\ r.reward = 0 /\ x.pc = "bucket" /\ x.todo = Working(r.work)
  <2>1. Stored(x) = Working(x.work) /\ Credited(x) = {}
    BY <1>6, WrittenFacts DEF Deferring, Paying
  <2> QED
    BY <1>1, <1>3, <1>4, <1>5, <1>6, <2>1 DEF FillOK, Deferring, Paying
<1>7. CASE r.todo = {} /\ rows' = rows /\ r.reward # 0 /\ x.pc = "credit" /\ x.todo = Working(r.pay)
  <2>1. Credited(x) = {}
    BY <1>5, <1>7, WrittenFacts
  <2> QED
    BY <1>1, <1>3, <1>4, <1>5, <1>7, <2>1 DEF FillOK, Deferring, Paying
<1>8. ASSUME NEW u \in r.todo, x.pc = "rows", x.todo = r.todo \ {u},
             rows' = Upsert(rows, <<r.sid, u>>, r.work[u])
      PROVE  FillOK(job'[p], windows', credits', rows', accrual')
  <2>1. Stored(x) = Stored(r) \union {u} /\ Credited(x) = {}
    BY <1>4, <1>5, <1>8, WrittenFacts DEF Deferring, Paying
  <2>2. \A v \in Users : /\ <<r.sid, v>> \in DOMAIN rows' <=> v \in Stored(x)
                         /\ v \in Stored(x) => rows'[<<r.sid, v>>] = r.work[v]
    BY <1>4, <1>8, <2>1 DEF Upsert
  <2>3. x.todo \subseteq Working(x.work)
    BY <1>4, <1>5, <1>8
  <2>4. windows' = windows /\ credits' = credits
    BY <1>1
  <2>5. r.sid = Len(windows) /\ \A v \in Users : <<r.sid, v>> \notin DOMAIN credits
    BY <1>4
  <2>6. x.sid = Len(windows') /\ x.pc = "rows"
    BY <1>5, <1>8, <2>4, <2>5
  <2>7. \A v \in Users : <<x.sid, v>> \in DOMAIN credits' <=> v \in Credited(x)
    BY <1>5, <2>1, <2>4, <2>5
  <2>8. \A v \in Users : /\ <<x.sid, v>> \in DOMAIN rows' <=> v \in Stored(x)
                         /\ v \in Stored(x) => rows'[<<x.sid, v>>] = x.work[v]
    BY <1>5, <2>2
  <2> QED
    BY <1>3, <2>3, <2>6, <2>7, <2>8 DEF FillOK, Deferring, Paying
<1> QED
  BY <1>1, <1>3, <1>6, <1>7, <1>8

LEMMA BucketFills ==
  ASSUME SettledInv, TypesInv, FillInv, NEW p \in Cycles, ReadBucket(p) \/ AddWork(p)
  PROVE  FillInv'
<1>1. /\ Stepped(p) /\ Kept(job[p], job'[p]) /\ overlapped' = overlapped
      /\ windows' = windows /\ credits' = credits /\ rows' = rows
      /\ \/ /\ job[p].pc = "bucket" /\ accrual' = accrual /\ job'[p].todo = job[p].todo
            /\ \/ job[p].todo = {} /\ job'[p].pc = "defer"
               \/ job'[p].pc = "add" /\ job'[p].bucket = accrual[First(job[p].todo)]
         \/ /\ job[p].pc = "add" /\ job'[p].pc = "bucket"
            /\ job'[p].todo \subseteq job[p].todo
  BY ReadEffect, AddEffect DEF ReadBucket, AddWork, tables
<1> SUFFICES ASSUME ~overlapped PROVE FillOK(job'[p], windows', credits', rows', accrual')
  BY <1>1, OwnFill DEF Fill
<1>2. FillOK(job[p], windows, credits, rows, accrual)
  BY <1>1, FillFacts DEF Fill
<1>3. PICK r, x : r = job[p] /\ x = job'[p]
  OBVIOUS
<1>4. x.sid = r.sid /\ x.work = r.work /\ x.pay = r.pay /\ x.reward = r.reward
  BY <1>1, <1>3 DEF Kept
<1>5. r.pc \in Deferring /\ x.pc \in Deferring
  BY <1>1, <1>3 DEF Deferring
<1>6. /\ Stored(r) = Working(r.work) /\ Stored(x) = Working(x.work)
      /\ Credited(r) = {} /\ Credited(x) = {}
  BY <1>5, WrittenFacts DEF Deferring, Paying
<1>7. /\ r.sid = Len(windows) /\ r.reward = 0 /\ r.todo \subseteq Working(r.work)
      /\ \A u \in Users : /\ <<r.sid, u>> \notin DOMAIN credits
                          /\ <<r.sid, u>> \in DOMAIN rows <=> u \in Working(r.work)
                          /\ u \in Working(r.work) => rows[<<r.sid, u>>] = r.work[u]
  BY <1>2, <1>3, <1>5, <1>6 DEF FillOK, Paying, Deferring
<1> QED
  BY <1>1, <1>3, <1>4, <1>5, <1>6, <1>7 DEF FillOK, Deferring, Paying

LEMMA PayFills ==
  ASSUME SettledInv, TypesInv, FillInv, NEW p \in Cycles, Credit(p) \/ Clear(p) \/ Carry(p)
  PROVE  FillInv'
<1>1. /\ Stepped(p) /\ Kept(job[p], job'[p]) /\ overlapped' = overlapped
      /\ windows' = windows /\ job[p].pc \in Paying /\ job'[p].pc \in Paying
  BY CreditEffect, ClearEffect, CarryEffect DEF Credit, Clear, Carry, Paying
<1> SUFFICES ASSUME ~overlapped PROVE FillOK(job'[p], windows', credits', rows', accrual')
  BY <1>1, OwnFill DEF Fill, Paying
<1>2. FillOK(job[p], windows, credits, rows, accrual)
  BY <1>1, FillFacts DEF Fill, Paying
<1>3. PICK r, x : r = job[p] /\ x = job'[p]
  OBVIOUS
<1>4. x.sid = r.sid /\ x.work = r.work /\ x.pay = r.pay /\ x.reward = r.reward
  BY <1>1, <1>3 DEF Kept
<1>5. /\ r.sid = Len(windows) /\ r.reward # 0
      /\ \A u \in Users : <<r.sid, u>> \in DOMAIN credits <=> u \in Credited(r)
      /\ r.pc \in {"credit", "clear"} => r.todo \subseteq Working(r.pay)
  BY <1>1, <1>2, <1>3 DEF FillOK
<1>6. SUFFICES /\ \A u \in Users : <<x.sid, u>> \in DOMAIN credits' <=> u \in Credited(x)
               /\ x.pc \in {"credit", "clear"} => x.todo \subseteq Working(x.pay)
               /\ x.pc \in {"carry", "complete"} => x.todo = {}
  <2>1. x.sid = Len(windows') /\ x.reward # 0 /\ x.pc \in Paying /\ x = job'[p]
    BY <1>1, <1>3, <1>4, <1>5
  <2> QED
    BY <1>6, <2>1 DEF FillOK, Deferring, Paying
<1>7. CASE Credit(p)
  <2>1. /\ r.pc = "credit"
        /\ \/ /\ r.todo = {} /\ credits' = credits /\ x.pc = "clear" /\ x.todo = Working(r.pay)
           \/ /\ x.pc = "credit"
              /\ \E u \in r.todo : /\ x.todo = r.todo \ {u}
                                   /\ credits' = Upsert(credits, <<r.sid, u>>, r.pay[u])
    BY <1>3, <1>7, CreditEffect
  <2>2. Credited(r) = Working(r.pay) \ r.todo
    BY <2>1, WrittenFacts
  <2>3. CASE r.todo = {} /\ credits' = credits /\ x.pc = "clear" /\ x.todo = Working(r.pay)
    <3>1. Credited(x) = Working(x.pay)
      BY <2>3, WrittenFacts DEF Paying
    <3> QED
      BY <1>4, <1>5, <2>2, <2>3, <3>1
  <2>4. ASSUME NEW u \in r.todo, x.pc = "credit", x.todo = r.todo \ {u},
               credits' = Upsert(credits, <<r.sid, u>>, r.pay[u])
        PROVE  /\ \A v \in Users : <<x.sid, v>> \in DOMAIN credits' <=> v \in Credited(x)
               /\ x.todo \subseteq Working(x.pay)
    <3>1. Credited(x) = Working(x.pay) \ x.todo
      BY <2>4, WrittenFacts
    <3>2. r.todo \subseteq Working(r.pay)
      BY <1>5, <2>1
    <3>3. Credited(x) = Credited(r) \union {u}
      BY <1>4, <2>2, <2>4, <3>1, <3>2
    <3> QED
      BY <1>4, <1>5, <2>4, <3>2, <3>3 DEF Upsert
  <2> QED
    BY <2>1, <2>3, <2>4
<1>8. CASE Clear(p) \/ Carry(p)
  <2>1. /\ credits' = credits
        /\ \/ r.pc = "clear" /\ r.todo = {} /\ x.pc = "carry" /\ x.todo = r.todo
           \/ r.pc = "clear" /\ x.pc = "clear" /\ x.todo \subseteq r.todo
           \/ r.pc = "carry" /\ x.pc = "complete" /\ x.todo = r.todo
    BY <1>3, <1>8, ClearEffect, CarryEffect DEF Clear, Carry
  <2>2. Credited(r) = Working(r.pay) /\ Credited(x) = Working(x.pay)
    BY <2>1, WrittenFacts DEF Paying
  <2>3. r.pc = "carry" => r.todo = {}
    BY <1>2, <1>3 DEF FillOK
  <2> QED
    BY <1>4, <1>5, <2>1, <2>2, <2>3
<1> QED
  BY <1>7, <1>8

LEMMA NextFills ==
  ASSUME SettledInv, TypesInv, FillInv, [Next]_vars
  PROVE  FillInv'
<1>1. CASE Tick \/ UNCHANGED vars
  <2>1. /\ job' = job /\ windows' = windows /\ credits' = credits /\ rows' = rows
        /\ accrual' = accrual /\ overlapped' = overlapped
    BY <1>1 DEF Tick, vars, tables
  <2> QED
    BY <2>1 DEF FillInv, FillOK, OfRange
<1>2. ASSUME NEW p \in Cycles, Start(p) \/ Step(p) \/ Abort(p) PROVE FillInv'
  BY <1>2, StartFills, OtherFills, LookFills, CheckFills, OpenFills, WeighFills, MergeFills,
     StoreFills, BucketFills, PayFills, Zenon DEF Step
<1> QED
  BY <1>1, <1>2 DEF Next
-----------------------------------------------------------------------------
(* Money.                                                                  *)

Given == SumOver(credits, DOMAIN credits)
Owed  == SumOver([i \in DOMAIN windows |-> windows[i].reward], OfStatus({"completed"}))

\* The books of a cycle with record r, when G has been credited, O is the reward
\* of the completed windows and K is carried.
BooksOK(r, G, O, K) ==
    /\ r.pc \notin Paying => G + K = O
    /\ r.pc = "rows" /\ r.reward # 0 => SumOver(r.pay, Users) + r.left = K + r.reward
    /\ r.pc = "credit" => G + SumOver(r.pay, r.todo) + r.left = O + r.reward
    /\ r.pc \in {"clear", "carry"} => G + r.left = O + r.reward
    /\ r.pc = "complete" => G + K = O + r.reward

BooksInv ==
    ~overlapped /\ aborted \intersect Paying = {} =>
        /\ Quiet => Given + carry = Owed
        /\ \A p \in Cycles : job[p].pc # "idle" => BooksOK(job[p], Given, Owed, carry)

LEMMA UpsertSum ==
  ASSUME NEW T, IsFiniteSet(DOMAIN T), \A k \in DOMAIN T : T[k] \in Nat,
         NEW key, key \notin DOMAIN T, NEW v \in Nat
  PROVE  SumOver(Upsert(T, key, v), DOMAIN Upsert(T, key, v)) = SumOver(T, DOMAIN T) + v
<1> DEFINE new == Upsert(T, key, v)
<1>1. DOMAIN new = DOMAIN T \union {key} /\ new[key] = v /\ \A k \in DOMAIN T : new[k] = T[k]
  BY DEF Upsert
<1> HIDE DEF new
<1>2. PICK S : S = DOMAIN T
  OBVIOUS
<1>3. IsFiniteSet(S) /\ key \notin S /\ \A k \in S \cup {key} : new[k] \in Int
  BY <1>1, <1>2
<1>4. SumOver(new, S \cup {key}) = SumOver(new, S) + new[key]
  BY <1>3, SumOverAdd, Zenon
<1>5. SumOver(new, S) = SumOver(T, S)
  <2>1. \A k \in S : new[k] \in Int /\ new[k] = T[k]
    BY <1>1, <1>2, <1>3
  <2> QED
    BY <1>3, <2>1, SumOverEqual
<1> QED
  BY <1>1, <1>2, <1>4, <1>5 DEF new

LEMMA TablesFinite ==
  ASSUME TypesInv
  PROVE  /\ windows \in Seq(Shape) /\ IsFiniteSet(DOMAIN windows) /\ DOMAIN windows \subseteq Nat
         /\ IsFiniteSet(DOMAIN rows) /\ \A k \in DOMAIN rows : rows[k] \in Nat
         /\ IsFiniteSet(DOMAIN credits) /\ \A k \in DOMAIN credits : credits[k] \in Nat
<1>1. windows \in Seq(Shape)
  BY DEF TypesInv, WindowsInv
<1>2. PICK n \in Nat : n = Len(windows) /\ DOMAIN windows = 1 .. n
  BY <1>1
<1>3. IsFiniteSet(1 .. n)
  BY FS_Interval
<1>4. IsFiniteSet((DOMAIN windows) \X Users)
  BY <1>2, <1>3, FS_Product, SettlementAssumption
<1>5. IsFiniteSet(DOMAIN rows) /\ IsFiniteSet(DOMAIN credits)
  BY <1>4, FS_Subset DEF TypesInv, TablesTyped
<1> QED
  BY <1>1, <1>2, <1>3, <1>5 DEF TypesInv, TablesTyped

LEMMA SumsTyped == ASSUME TypesInv PROVE Given \in Nat /\ Owed \in Nat
<1> DEFINE reward == [i \in DOMAIN windows |-> windows[i].reward]
           done   == OfStatus({"completed"})
<1>1. IsFiniteSet(DOMAIN windows) /\ windows \in Seq(Shape)
  BY TablesFinite
<1>2. \A i \in DOMAIN windows : windows[i].reward \in Nat
  BY <1>1, EndsTyped
<1>3. IsFiniteSet(done) /\ \A i \in done : reward[i] \in Nat
  BY <1>1, <1>2, FS_Subset DEF OfStatus
<1> HIDE DEF reward, done
<1>4. SumOver(reward, done) \in Nat
  BY <1>3, SumOverNat
<1>5. SumOver(credits, DOMAIN credits) \in Nat
  BY TablesFinite, SumOverNat
<1> QED
  BY <1>4, <1>5 DEF Given, Owed, reward, done

\* What is owed depends on the completed windows.
LEMMA OwedKept ==
  ASSUME TypesInv, OfStatus({"completed"})' = OfStatus({"completed"}),
         \A i \in OfStatus({"completed"}) : windows'[i].reward = windows[i].reward
  PROVE  Owed' = Owed
<1> DEFINE reward == [i \in DOMAIN windows |-> windows[i].reward]
           after  == [i \in DOMAIN windows' |-> windows'[i].reward]
           done   == OfStatus({"completed"})
<1>1. IsFiniteSet(DOMAIN windows) /\ windows \in Seq(Shape)
  BY TablesFinite
<1>2. \A i \in DOMAIN windows : windows[i].reward \in Nat
  BY <1>1, EndsTyped
<1>3. IsFiniteSet(done)
  BY <1>1, FS_Subset DEF OfStatus
<1>4. \A i \in done : i \in DOMAIN windows /\ i \in DOMAIN windows'
  <2>1. \A i \in OfStatus({"completed"})' : i \in DOMAIN windows'
    BY DEF OfStatus
  <2> QED
    BY <2>1 DEF OfStatus
<1>5. \A i \in done : reward[i] \in Int /\ reward[i] = after[i]
  BY <1>2, <1>4
<1> HIDE DEF reward, after, done
<1>6. SumOver(reward, done) = SumOver(after, done)
  BY <1>3, <1>5, SumOverEqual
<1>7. Owed = SumOver(reward, done)
  BY DEF Owed, reward, done
<1>8. Owed' = SumOver(after, OfStatus({"completed"})')
  BY DEF Owed, after
<1> QED
  BY <1>6, <1>7, <1>8 DEF done

\* The reward of a window that is completed is owed with the others'.
LEMMA OwedGrows ==
  ASSUME TypesInv, NEW n \in DOMAIN windows, windows[n].status # "completed",
         DOMAIN windows' = DOMAIN windows, windows'[n].status = "completed",
         windows'[n].reward \in Nat,
         \A i \in DOMAIN windows \ {n} : windows'[i] = windows[i]
  PROVE  Owed' = Owed + windows'[n].reward
<1> DEFINE reward == [i \in DOMAIN windows |-> windows[i].reward]
           after  == [i \in DOMAIN windows' |-> windows'[i].reward]
           done   == OfStatus({"completed"})
<1>1. IsFiniteSet(DOMAIN windows) /\ windows \in Seq(Shape)
  BY TablesFinite
<1>2. \A i \in DOMAIN windows : windows[i].reward \in Nat
  BY <1>1, EndsTyped
<1>3. IsFiniteSet(done) /\ n \notin done
  BY <1>1, FS_Subset DEF OfStatus
<1>4. OfStatus({"completed"})' = done \cup {n}
  BY DEF OfStatus
<1>5. \A i \in done : reward[i] \in Int /\ reward[i] = after[i]
  BY <1>2, <1>3 DEF OfStatus
<1>6. after[n] = windows'[n].reward
  OBVIOUS
<1>7. Owed = SumOver(reward, done)
  BY DEF Owed
<1>8. Owed' = SumOver(after, OfStatus({"completed"})')
  BY DEF Owed
<1> HIDE DEF reward, after, done
<1>9. SumOver(reward, done) = SumOver(after, done)
  BY <1>3, <1>5, SumOverEqual
<1>10. \A i \in done \cup {n} : after[i] \in Int
  BY <1>5, <1>6
<1>11. SumOver(after, done \cup {n}) = SumOver(after, done) + after[n]
  BY <1>3, <1>10, SumOverAdd, Zenon
<1> QED
  BY <1>4, <1>6, <1>7, <1>8, <1>9, <1>11

LEMMA StateChange ==
  ASSUME TypesInv, NEW p \in Cycles, job[p].sid \in DOMAIN windows,
         NEW s, NEW w, SetWindow(p, s, w)
  PROVE  /\ DOMAIN windows' = DOMAIN windows
         /\ windows'[job[p].sid].status = s /\ windows'[job[p].sid].reward = w
         /\ \A i \in DOMAIN windows \ {job[p].sid} : windows'[i] = windows[i]
<1>1. PICK n : n = job[p].sid
  OBVIOUS
<1>2. n \in DOMAIN windows /\ windows[n] \in Shape
  BY <1>1, TablesFinite
<1> DEFINE new == [windows[n] EXCEPT !.status = s, !.reward = w]
<1>3. windows' = [windows EXCEPT ![n] = new]
  BY <1>1 DEF SetWindow
<1>4. new.status = s /\ new.reward = w
  BY <1>2 DEF Shape
<1> HIDE DEF new
<1> QED
  BY <1>1, <1>2, <1>3, <1>4

\* The window of a cycle that is alone is pending.
LEMMA SidPending ==
  ASSUME SettledInv, TypesInv, NEW p \in Cycles, job[p].pc \in Fill, ~overlapped
  PROVE  /\ job[p].sid \in DOMAIN windows /\ windows[job[p].sid].status = "pending"
         /\ job[p].sid \in Nat
  BY RecordTyped DEF SettledInv, AloneInv

\* Only completing a window changes what is owed.
LEMMA OwedStays ==
  ASSUME SettledInv, TypesInv, ~overlapped, NEW p \in Cycles, Step(p), ~Complete(p)
  PROVE  Owed' = Owed
<1>1. CASE windows' = windows
  <2>1. OfStatus({"completed"})' = OfStatus({"completed"})
    BY <1>1 DEF OfStatus
  <2> QED
    BY <1>1, <2>1, OwedKept
<1>2. CASE OpenWindow(p)
  <2>1. PICK new : new = Window(job[p].from, "pending", 0)
    OBVIOUS
  <2>2. new.status = "pending"
    BY <2>1 DEF Window
  <2>3. OfRange(job[p].from) = {}
    BY <1>2 DEF SettledInv, AloneInv, OfRange, InRange, OpenWindow
  <2>4. windows' = Append(windows, new) /\ windows \in Seq(Shape)
    BY <1>2, <2>1, <2>3, OpenEffect, TablesFinite
  <2>5. /\ DOMAIN windows' = DOMAIN windows \union {Len(windows) + 1}
        /\ Len(windows) + 1 \notin DOMAIN windows
        /\ \A i \in DOMAIN windows : windows'[i] = windows[i]
        /\ windows'[Len(windows) + 1] = new
    BY <2>4
  <2>6. OfStatus({"completed"})' = OfStatus({"completed"})
    BY <2>2, <2>5 DEF OfStatus
  <2>7. \A i \in OfStatus({"completed"}) : windows'[i].reward = windows[i].reward
    BY <2>5 DEF OfStatus
  <2> QED
    BY <2>6, <2>7, OwedKept
<1>3. CASE Weigh(p) \/ Defer(p)
  <2>1. job[p].pc \in Fill
    BY <1>3 DEF Weigh, Defer, Fill
  <2>2. PICK n : n = job[p].sid
    OBVIOUS
  <2>3. n \in DOMAIN windows /\ windows[n].status = "pending"
    BY <2>1, <2>2, SidPending
  <2>4. /\ DOMAIN windows' = DOMAIN windows
        /\ windows'[n].status \in {"pending", "deferred"}
        /\ \A i \in DOMAIN windows \ {n} : windows'[i] = windows[i]
    BY <1>3, <2>2, <2>3, StateChange DEF Weigh, Defer
  <2>5. OfStatus({"completed"})' = OfStatus({"completed"})
    BY <2>3, <2>4 DEF OfStatus
  <2>6. \A i \in OfStatus({"completed"}) : windows'[i].reward = windows[i].reward
    BY <2>3, <2>4 DEF OfStatus
  <2> QED
    BY <2>5, <2>6, OwedKept
<1>4. windows' = windows \/ OpenWindow(p) \/ Weigh(p) \/ Defer(p)
  <2>1. ASSUME Gather(p) \/ Look(p) \/ Check(p) \/ Merge(p) \/ Price(p)
                 \/ StoreWork(p) \/ ReadBucket(p) \/ AddWork(p) \/ Credit(p)
                 \/ Clear(p) \/ Carry(p) \/ Link(p) \/ Send(p)
        PROVE  windows' = windows
    BY <2>1 DEF Gather, Look, Check, Merge, Price, StoreWork, ReadBucket, AddWork, Credit,
                Clear, Carry, Link, Send, tables
  <2> QED
    BY <2>1 DEF Step
<1> QED
  BY <1>1, <1>2, <1>3, <1>4

\* While cycles do not overlap, only the books of the one at work matter.
LEMMA OwnBooks ==
  ASSUME SettledInv, TypesInv, NEW p \in Cycles, job[p].pc # "idle", Stepped(p),
         overlapped' = overlapped, aborted \subseteq aborted',
         ~overlapped /\ aborted' \intersect Paying = {} =>
           BooksOK(job'[p], Given', Owed', carry')
  PROVE  BooksInv'
<1> SUFFICES ASSUME ~overlapped', aborted' \intersect Paying = {}
             PROVE  /\ Quiet' => Given' + carry' = Owed'
                    /\ \A q \in Cycles : job'[q].pc # "idle" => BooksOK(job'[q], Given', Owed', carry')
  BY DEF BooksInv
<1>1. BooksOK(job'[p], Given', Owed', carry')
  OBVIOUS
<1>2. \A q \in Cycles \ {p} : job'[q].pc = "idle"
  BY DEF SettledInv, AloneInv, Stepped
<1>3. Quiet' => job'[p].pc = "idle"
  BY DEF Quiet
<1>4. job'[p].pc = "idle" => Given' + carry' = Owed'
  BY <1>1 DEF BooksOK, Paying
<1> QED
  BY <1>1, <1>2, <1>3, <1>4

LEMMA BookFacts ==
  ASSUME BooksInv, ~overlapped, aborted \intersect Paying = {}, NEW p \in Cycles, job[p].pc # "idle"
  PROVE  BooksOK(job[p], Given, Owed, carry)
  BY DEF BooksInv

LEMMA StartBooks ==
  ASSUME SettledInv, TypesInv, BooksInv, NEW p \in Cycles, Start(p)
  PROVE  BooksInv'
<1> SUFFICES ASSUME ~overlapped', aborted' \intersect Paying = {}
             PROVE  /\ Quiet' => Given' + carry' = Owed'
                    /\ \A q \in Cycles : job'[q].pc # "idle" => BooksOK(job'[q], Given', Owed', carry')
  BY DEF BooksInv
<1>1. /\ \A q \in Cycles : job[q].pc = "idle"
      /\ ~overlapped /\ aborted' = aborted /\ windows' = windows /\ credits' = credits /\ carry' = carry
  BY DEF Start
<1>2. job'[p].pc \in {"gather", "send"} /\ \A q \in Cycles \ {p} : job'[q] = job[q]
  BY StartEffect DEF Stepped
<1>3. Given' = Given /\ Owed' = Owed
  BY <1>1 DEF Given, Owed, OfStatus
<1>4. Given + carry = Owed
  BY <1>1 DEF BooksInv, Quiet
<1>5. BooksOK(job'[p], Given, Owed, carry)
  BY <1>2, <1>4 DEF BooksOK, Paying
<1> QED
  BY <1>1, <1>2, <1>3, <1>4, <1>5

\* Steps before anything is paid, and those after.
LEMMA EarlyBooks ==
  ASSUME SettledInv, TypesInv, FillInv, BooksInv, NEW p \in Cycles,
         Gather(p) \/ Look(p) \/ Check(p) \/ OpenWindow(p) \/ Weigh(p) \/ Merge(p)
           \/ ReadBucket(p) \/ AddWork(p) \/ Defer(p) \/ Link(p) \/ Send(p)
  PROVE  BooksInv'
<1>1. /\ Stepped(p) /\ job[p].pc # "idle" /\ job[p].pc \notin Paying /\ job'[p].pc \notin Paying
      /\ job'[p].pc # "rows" \/ job'[p].reward = 0
  <2>1. ASSUME Gather(p) \/ Look(p) \/ Check(p) \/ OpenWindow(p)
        PROVE  /\ Stepped(p) /\ job[p].pc \in {"gather", "look", "check", "open"}
               /\ job'[p].pc \in {"look", "check", "open", "weigh", "bucket", "link"}
    BY <2>1, GatherEffect, LookEffect, CheckEffect, OpenEffect
  <2>2. ASSUME Weigh(p) \/ Merge(p)
        PROVE  /\ Stepped(p) /\ job[p].pc \in {"weigh", "merge"}
               /\ job'[p].pc \in {"rows", "merge", "price"}
               /\ job'[p].pc # "rows" \/ job'[p].reward = 0
    BY <2>2, WeighEffect, MergeEffect
  <2>3. ASSUME ReadBucket(p) \/ AddWork(p) \/ Defer(p) \/ Link(p) \/ Send(p)
        PROVE  /\ Stepped(p) /\ job[p].pc \in {"bucket", "add", "defer", "link", "send"}
               /\ job'[p].pc \in {"bucket", "add", "defer", "link", "send", "idle"}
    BY <2>3, ReadEffect, AddEffect, DeferEffect, LinkEffect, EndEffect DEF Send
  <2> QED
    BY <2>1, <2>2, <2>3 DEF Paying
<1>2. /\ overlapped' = overlapped /\ aborted' = aborted /\ credits' = credits /\ carry' = carry
  BY DEF Gather, Look, Check, OpenWindow, Weigh, Merge, ReadBucket, AddWork, Defer, Link, Send, tables
<1>3. ~Complete(p) /\ Step(p)
  <2>1. ~Complete(p)
    BY <1>1 DEF Complete, Paying
  <2> QED
    BY <2>1 DEF Step
<1>4. ASSUME ~overlapped, aborted' \intersect Paying = {}
      PROVE  BooksOK(job'[p], Given', Owed', carry')
  <2>1. Given' = Given /\ Owed' = Owed
    BY <1>2, <1>3, <1>4, OwedStays DEF Given
  <2>2. Given + carry = Owed
    BY <1>1, <1>2, <1>4, BookFacts DEF BooksOK
  <2> QED
    BY <1>1, <1>2, <2>1, <2>2 DEF BooksOK, Paying
<1> QED
  BY <1>1, <1>2, <1>4, OwnBooks

\* A cycle that stops before it has credited anybody leaves the books alone.
LEMMA AbortBooks ==
  ASSUME SettledInv, TypesInv, FillInv, BooksInv, NEW p \in Cycles, Abort(p)
  PROVE  BooksInv'
<1>1. /\ Stepped(p) /\ job[p].pc # "idle" /\ job'[p].pc = "idle" /\ overlapped' = overlapped
      /\ aborted' = aborted \union ({job[p].pc} \intersect Midway) /\ windows' = windows /\ credits' = credits
      /\ carry' = carry
  BY EndEffect DEF Abort, tables
<1>2. ASSUME ~overlapped, aborted' \intersect Paying = {}
      PROVE  BooksOK(job'[p], Given', Owed', carry')
  <2>1. Given' = Given /\ Owed' = Owed
    BY <1>1 DEF Given, Owed, OfStatus
  <2>2. job[p].pc \notin Paying /\ aborted \intersect Paying = {}
    BY <1>1, <1>2 DEF Midway, Paying
  <2>3. Given + carry = Owed
    BY <1>1, <1>2, <2>2, BookFacts DEF BooksOK
  <2> QED
    BY <1>1, <2>1, <2>3 DEF BooksOK, Paying
<1> QED
  BY <1>1, <1>2, OwnBooks

LEMMA PriceBooks ==
  ASSUME SettledInv, TypesInv, FillInv, BooksInv, NEW p \in Cycles, Price(p)
  PROVE  BooksInv'
<1>1. /\ Stepped(p) /\ job[p].pc = "price" /\ job'[p].pc = "rows"
      /\ SumOver(job'[p].pay, Users) + job'[p].left = carry + job'[p].reward
      /\ overlapped' = overlapped /\ aborted' = aborted /\ windows' = windows
      /\ credits' = credits /\ carry' = carry
  BY PriceEffect DEF Price, tables
<1>2. ASSUME ~overlapped, aborted' \intersect Paying = {}
      PROVE  BooksOK(job'[p], Given', Owed', carry')
  <2>1. Given' = Given /\ Owed' = Owed
    BY <1>1 DEF Given, Owed, OfStatus
  <2>2. Given + carry = Owed
    BY <1>1, <1>2, BookFacts DEF BooksOK, Paying
  <2> QED
    BY <1>1, <2>1, <2>2 DEF BooksOK
<1> QED
  BY <1>1, <1>2, OwnBooks

LEMMA StoreBooks ==
  ASSUME SettledInv, TypesInv, FillInv, BooksInv, NEW p \in Cycles, StoreWork(p)
  PROVE  BooksInv'
<1>1. /\ Stepped(p) /\ job[p].pc = "rows" /\ Kept(job[p], job'[p])
      /\ overlapped' = overlapped /\ aborted' = aborted /\ windows' = windows
      /\ credits' = credits /\ carry' = carry
      /\ \/ job[p].reward = 0 /\ job'[p].pc = "bucket"
         \/ job[p].reward # 0 /\ job'[p].pc = "credit" /\ job'[p].todo = Working(job[p].pay)
         \/ job'[p].pc = "rows"
  BY StoreEffect DEF StoreWork
<1>2. ASSUME ~overlapped, aborted' \intersect Paying = {}
      PROVE  BooksOK(job'[p], Given', Owed', carry')
  <2>1. Given' = Given /\ Owed' = Owed
    BY <1>1 DEF Given, Owed, OfStatus
  <2>2. BooksOK(job[p], Given, Owed, carry)
    BY <1>1, <1>2, BookFacts
  <2>3. PICK r, x : r = job[p] /\ x = job'[p]
    OBVIOUS
  <2>4. x.pay = r.pay /\ x.left = r.left /\ x.reward = r.reward
    BY <1>1, <2>3 DEF Kept
  <2>5. /\ r.pc = "rows" /\ Given + carry = Owed
        /\ r.reward # 0 => SumOver(r.pay, Users) + r.left = carry + r.reward
    BY <1>1, <2>2, <2>3 DEF BooksOK, Paying
  <2>6. CASE x.pc \in {"bucket", "rows"}
    <3>1. BooksOK(x, Given, Owed, carry)
      BY <2>4, <2>5, <2>6 DEF BooksOK, Paying
    <3> QED
      BY <1>1, <2>1, <2>3, <3>1
  <2>7. CASE r.reward # 0 /\ x.pc = "credit" /\ x.todo = Working(r.pay)
    <3>1. r.pay \in [Users -> Nat] /\ r.left \in Nat /\ r.reward \in Nat /\ carry \in Nat
      BY <2>3, RecordTyped
    <3>2. SumOver(x.pay, x.todo) = SumOver(r.pay, Users)
      BY <2>4, <2>7, <3>1, WorkingSum
    <3>3. SumOver(r.pay, Users) \in Nat
      BY <3>1, SumOverNat, SettlementAssumption
    <3>4. Given \in Nat /\ Owed \in Nat
      BY SumsTyped
    <3>5. Given + SumOver(x.pay, x.todo) + x.left = Owed + x.reward
      BY <2>4, <2>5, <2>7, <3>1, <3>2, <3>3, <3>4
    <3>6. BooksOK(x, Given, Owed, carry)
      BY <2>7, <3>5 DEF BooksOK, Paying
    <3> QED
      BY <1>1, <2>1, <2>3, <3>6
  <2> QED
    BY <1>1, <2>3, <2>6, <2>7
<1> QED
  BY <1>1, <1>2, OwnBooks

\* What is credited to a user is no longer to be.
LEMMA CreditBooks ==
  ASSUME SettledInv, TypesInv, FillInv, BooksInv, NEW p \in Cycles, Credit(p)
  PROVE  BooksInv'
<1>1. /\ Stepped(p) /\ job[p].pc = "credit" /\ Kept(job[p], job'[p])
      /\ overlapped' = overlapped /\ aborted' = aborted /\ windows' = windows /\ carry' = carry
      /\ \/ job[p].todo = {} /\ credits' = credits /\ job'[p].pc = "clear"
         \/ /\ job'[p].pc = "credit"
            /\ \E u \in job[p].todo :
                  /\ job'[p].todo = job[p].todo \ {u}
                  /\ credits' = Upsert(credits, <<job[p].sid, u>>, job[p].pay[u])
  BY CreditEffect DEF Credit
<1>2. ASSUME ~overlapped, aborted' \intersect Paying = {}
      PROVE  BooksOK(job'[p], Given', Owed', carry')
  <2>1. Owed' = Owed
    BY <1>1 DEF Owed, OfStatus
  <2>2. BooksOK(job[p], Given, Owed, carry) /\ FillOK(job[p], windows, credits, rows, accrual)
    BY <1>1, <1>2, BookFacts, FillFacts DEF Fill
  <2>3. PICK r, x : r = job[p] /\ x = job'[p]
    OBVIOUS
  <2>4. x.pay = r.pay /\ x.left = r.left /\ x.reward = r.reward
    BY <1>1, <2>3 DEF Kept
  <2>5. r.pc = "credit" /\ Given + SumOver(r.pay, r.todo) + r.left = Owed + r.reward
    BY <1>1, <2>2, <2>3 DEF BooksOK, Paying
  <2>6. /\ r.pay \in [Users -> Nat] /\ r.left \in Nat /\ r.reward \in Nat /\ carry \in Nat
        /\ r.todo \in SUBSET Users /\ Given \in Nat /\ Owed \in Nat
    BY <2>3, RecordTyped, SumsTyped
  <2>7. IsFiniteSet(r.todo) /\ \A u \in r.todo : r.pay[u] \in Nat
    BY <2>6, FS_Subset, SettlementAssumption
  <2>8. CASE r.todo = {} /\ credits' = credits /\ x.pc = "clear"
    <3>1. SumOver(r.pay, r.todo) = 0 /\ Given' = Given
      BY <2>8, SumOverEmpty DEF Given
    <3>2. Given + x.left = Owed + x.reward
      BY <2>4, <2>5, <2>6, <3>1
    <3>3. BooksOK(x, Given, Owed, carry)
      BY <2>8, <3>2 DEF BooksOK, Paying
    <3> QED
      BY <1>1, <2>1, <2>3, <3>1, <3>3
  <2>9. ASSUME NEW u \in r.todo, x.pc = "credit", x.todo = r.todo \ {u},
               credits' = Upsert(credits, <<r.sid, u>>, r.pay[u])
        PROVE  BooksOK(job'[p], Given', Owed', carry')
    <3>1. <<r.sid, u>> \notin DOMAIN credits
      <4>1. Credited(r) = Working(r.pay) \ r.todo
        BY <2>5, WrittenFacts
      <4>2. u \in Users /\ u \notin Credited(r)
        BY <2>6, <2>9, <4>1
      <4> QED
        BY <2>2, <2>3, <4>2 DEF FillOK
    <3>2. Given' = Given + r.pay[u]
      <4>1. r.pay[u] \in Nat /\ IsFiniteSet(DOMAIN credits) /\ \A k \in DOMAIN credits : credits[k] \in Nat
        BY <2>7, <2>9, TablesFinite
      <4>2. PICK key, v, new : key = <<r.sid, u>> /\ v = r.pay[u] /\ new = Upsert(credits, key, v)
        OBVIOUS
      <4>3. SumOver(new, DOMAIN new) = SumOver(credits, DOMAIN credits) + v
        BY <3>1, <4>1, <4>2, UpsertSum
      <4> QED
        BY <2>9, <4>2, <4>3 DEF Given
    <3>3. SumOver(r.pay, r.todo) = r.pay[u] + SumOver(r.pay, x.todo)
      <4>1. \A v \in r.todo : r.pay[v] \in Int
        BY <2>7
      <4>2. SumOver(r.pay, r.todo) = r.pay[u] + SumOver(r.pay, r.todo \ {u})
        BY <2>7, <2>9, <4>1, SumOverRemove
      <4> QED
        BY <2>9, <4>2
    <3>4. SumOver(r.pay, x.todo) \in Nat /\ r.pay[u] \in Nat
      <4>1. IsFiniteSet(x.todo) /\ \A v \in x.todo : r.pay[v] \in Nat
        BY <2>7, <2>9, FS_Subset
      <4> QED
        BY <2>7, <2>9, <4>1, SumOverNat
    <3>5. Given' + SumOver(x.pay, x.todo) + x.left = Owed + x.reward
      BY <2>4, <2>5, <2>6, <3>2, <3>3, <3>4
    <3>6. BooksOK(x, Given', Owed, carry)
      BY <2>9, <3>5 DEF BooksOK, Paying
    <3> QED
      BY <1>1, <2>1, <2>3, <3>6
  <2> QED
    BY <1>1, <2>3, <2>8, <2>9
<1> QED
  BY <1>1, <1>2, OwnBooks

LEMMA CarryBooks ==
  ASSUME SettledInv, TypesInv, FillInv, BooksInv, NEW p \in Cycles, Clear(p) \/ Carry(p)
  PROVE  BooksInv'
<1>1. /\ Stepped(p) /\ Kept(job[p], job'[p])
      /\ overlapped' = overlapped /\ aborted' = aborted /\ windows' = windows /\ credits' = credits
      /\ \/ job[p].pc = "clear" /\ job'[p].pc \in {"clear", "carry"} /\ carry' = carry
         \/ job[p].pc = "carry" /\ job'[p].pc = "complete" /\ carry' = job[p].left
  BY ClearEffect, CarryEffect DEF Clear, Carry
<1>2. ASSUME ~overlapped, aborted' \intersect Paying = {}
      PROVE  BooksOK(job'[p], Given', Owed', carry')
  <2>1. Given' = Given /\ Owed' = Owed
    BY <1>1 DEF Given, Owed, OfStatus
  <2>2. BooksOK(job[p], Given, Owed, carry)
    BY <1>1, <1>2, BookFacts
  <2> QED
    BY <1>1, <2>1, <2>2 DEF BooksOK, Paying, Kept
<1> QED
  BY <1>1, <1>2, OwnBooks

LEMMA CompleteBooks ==
  ASSUME SettledInv, TypesInv, FillInv, BooksInv, NEW p \in Cycles, Complete(p)
  PROVE  BooksInv'
<1>1. /\ Stepped(p) /\ job[p].pc = "complete" /\ job'[p].pc = "link"
      /\ overlapped' = overlapped /\ aborted' = aborted /\ credits' = credits /\ carry' = carry
      /\ SetWindow(p, "completed", job[p].reward)
  BY CompleteEffect DEF Complete
<1>2. ASSUME ~overlapped, aborted' \intersect Paying = {}
      PROVE  BooksOK(job'[p], Given', Owed', carry')
  <2>1. Given' = Given /\ job[p].reward \in Nat
    BY <1>1, RecordTyped DEF Given
  <2>2. Given + carry = Owed + job[p].reward
    BY <1>1, <1>2, BookFacts DEF BooksOK
  <2>3. PICK n : n = job[p].sid
    OBVIOUS
  <2>4. n \in DOMAIN windows /\ windows[n].status = "pending"
    BY <1>1, <1>2, <2>3, SidPending DEF Fill
  <2>5. /\ DOMAIN windows' = DOMAIN windows
        /\ windows'[n].status = "completed" /\ windows'[n].reward = job[p].reward
        /\ \A i \in DOMAIN windows \ {n} : windows'[i] = windows[i]
    BY <1>1, <2>3, <2>4, StateChange
  <2>6. Owed' = Owed + job[p].reward
    BY <2>1, <2>4, <2>5, OwedGrows
  <2> QED
    BY <1>1, <2>1, <2>2, <2>6 DEF BooksOK, Paying
<1> QED
  BY <1>1, <1>2, OwnBooks

LEMMA NextBooks ==
  ASSUME SettledInv, TypesInv, FillInv, BooksInv, [Next]_vars
  PROVE  BooksInv'
<1>1. CASE Tick \/ UNCHANGED vars
  <2>1. /\ job' = job /\ windows' = windows /\ credits' = credits /\ carry' = carry
        /\ overlapped' = overlapped /\ aborted' = aborted
    BY <1>1 DEF Tick, vars, tables
  <2> QED
    BY <2>1 DEF BooksInv, Given, Owed, OfStatus, Quiet
<1>2. ASSUME NEW p \in Cycles, Start(p) \/ Step(p) \/ Abort(p) PROVE BooksInv'
  BY <1>2, StartBooks, EarlyBooks, AbortBooks, PriceBooks, StoreBooks, CreditBooks, CarryBooks,
     CompleteBooks, Zenon DEF Step
<1> QED
  BY <1>1, <1>2 DEF Next
-----------------------------------------------------------------------------
(* Deferred work.                                                          *)

\* The windows whose work a user is owed: those deferred since the user was last
\* credited, and those not completed since the user was last credited by one that was.
Deferred(ws, cs, u) ==
    {i \in DOMAIN ws : /\ ws[i].status = "deferred"
                       /\ \A j \in DOMAIN ws : <<j, u>> \in DOMAIN cs => j < i}

Open(ws, cs, u) ==
    {i \in DOMAIN ws : /\ ws[i].status \in {"deferred", "pending"}
                       /\ \A j \in DOMAIN ws :
                            ws[j].status = "completed" /\ <<j, u>> \in DOMAIN cs => j < i}

WorkOf(rs, u, A) == SumOver(rs, {k \in DOMAIN rs : k[2] = u /\ k[1] \in A})

\* What a cycle has put in the bucket of u, and the users whose bucket it has emptied.
Added(r, u) == IF r.pc \in Deferring /\ u \notin r.todo THEN r.work[u] ELSE 0

Cleared(r) ==
    CASE r.pc = "clear" -> Working(r.pay) \ r.todo
      [] r.pc \in {"carry", "complete"} -> Working(r.pay)
      [] OTHER -> {}

\* The bucket of u, when it holds n.
Due(n, u, ws, cs, rs) ==
    WorkOf(rs, u, Deferred(ws, cs, u)) <= n /\ n <= WorkOf(rs, u, Open(ws, cs, u))

\* And while a cycle with record r fills a window, whose work is not due yet.
DueOK(n, u, ws, cs, rs, r) ==
    /\ WorkOf(rs, u, Deferred(ws, cs, u)) + Added(r, u) <= n
    /\ n <= WorkOf(rs, u, Open(ws, cs, u) \ {r.sid}) + Added(r, u)
    /\ u \in Cleared(r) => n = 0

DueInv ==
    ~overlapped => \A u \in Users :
        /\ Due(accrual[u], u, windows, credits, rows)
        /\ \A p \in Cycles : job[p].pc \in Fill =>
              DueOK(accrual[u], u, windows, credits, rows, job[p])

Table(rs) ==
    /\ IsFiniteSet(DOMAIN rs)
    /\ \A k \in DOMAIN rs : rs[k] \in Nat /\ k = <<k[1], k[2]>>

LEMMA WorkNat ==
  ASSUME NEW rs, Table(rs), NEW u, NEW A PROVE WorkOf(rs, u, A) \in Nat
<1> DEFINE K == {k \in DOMAIN rs : k[2] = u /\ k[1] \in A}
<1>1. IsFiniteSet(K) /\ \A k \in K : rs[k] \in Nat
  BY FS_Subset DEF Table
<1> HIDE DEF K
<1>2. SumOver(rs, K) \in Nat
  BY <1>1, SumOverNat
<1> QED
  BY <1>2 DEF WorkOf, K

LEMMA WorkEmpty == ASSUME NEW rs, NEW u PROVE WorkOf(rs, u, {}) = 0
<1>1. {k \in DOMAIN rs : k[2] = u /\ k[1] \in {}} = {}
  OBVIOUS
<1> QED
  BY <1>1, SumOverEmpty DEF WorkOf

LEMMA WorkMonotone ==
  ASSUME NEW rs, Table(rs), NEW u, NEW B, NEW A \in SUBSET B
  PROVE  WorkOf(rs, u, A) <= WorkOf(rs, u, B)
<1> DEFINE K == {k \in DOMAIN rs : k[2] = u /\ k[1] \in A}
           L == {k \in DOMAIN rs : k[2] = u /\ k[1] \in B}
<1>1. IsFiniteSet(L) /\ (\A k \in L : rs[k] \in Nat) /\ K \in SUBSET L
  BY FS_Subset DEF Table
<1> HIDE DEF K, L
<1>2. SumOver(rs, K) <= SumOver(rs, L)
  BY <1>1, SumOverSubset
<1> QED
  BY <1>2 DEF WorkOf, K, L

\* The work a window stored for u.
RowOf(rs, n, u) == IF <<n, u>> \in DOMAIN rs THEN rs[<<n, u>>] ELSE 0

LEMMA WorkGrows ==
  ASSUME NEW rs, Table(rs), NEW u, NEW A, NEW n, n \notin A
  PROVE  WorkOf(rs, u, A \union {n}) = WorkOf(rs, u, A) + RowOf(rs, n, u)
<1> DEFINE K == {k \in DOMAIN rs : k[2] = u /\ k[1] \in A}
           L == {k \in DOMAIN rs : k[2] = u /\ k[1] \in A \union {n}}
           key == <<n, u>>
<1>1. IsFiniteSet(K) /\ key \notin K /\ \A k \in K : rs[k] \in Nat
  BY FS_Subset DEF Table
<1>2. SumOver(rs, K) \in Nat
  <2> HIDE DEF K
  <2> QED
    BY <1>1, SumOverNat
<1>3. CASE key \in DOMAIN rs
  <2>1. L = K \cup {key}
    BY <1>3 DEF Table
  <2>2. rs[key] \in Nat
    BY <1>3 DEF Table
  <2> HIDE DEF K, L, key
  <2>3. \A k \in K \cup {key} : rs[k] \in Int
    BY <1>1, <2>2
  <2>4. SumOver(rs, K \cup {key}) = SumOver(rs, K) + rs[key]
    BY <1>1, <2>3, SumOverAdd, Zenon
  <2>5. RowOf(rs, n, u) = rs[key]
    BY <1>3 DEF RowOf, key
  <2> QED
    BY <2>1, <2>4, <2>5 DEF WorkOf, K, L
<1>4. CASE key \notin DOMAIN rs
  <2>1. L = K
    BY <1>4 DEF Table
  <2>2. RowOf(rs, n, u) = 0
    BY <1>4 DEF RowOf
  <2>3. WorkOf(rs, u, A) = SumOver(rs, K) /\ WorkOf(rs, u, A \union {n}) = SumOver(rs, L)
    BY DEF WorkOf
  <2> HIDE DEF K, L
  <2> QED
    BY <1>2, <2>1, <2>2, <2>3
<1> QED
  BY <1>3, <1>4

\* A row of another window changes nothing.
LEMMA WorkKept ==
  ASSUME NEW rs, Table(rs), NEW u, NEW A, NEW n, n \notin A, NEW v, NEW x
  PROVE  WorkOf(Upsert(rs, <<n, v>>, x), u, A) = WorkOf(rs, u, A)
<1> DEFINE new == Upsert(rs, <<n, v>>, x)
           K == {k \in DOMAIN rs : k[2] = u /\ k[1] \in A}
           L == {k \in DOMAIN new : k[2] = u /\ k[1] \in A}
<1>1. DOMAIN new = DOMAIN rs \union {<<n, v>>} /\ \A k \in DOMAIN rs \ {<<n, v>>} : new[k] = rs[k]
  BY DEF Upsert
<1> HIDE DEF new
<1>2. L = K
  BY <1>1
<1>3. IsFiniteSet(K) /\ \A k \in K : rs[k] \in Int /\ rs[k] = new[k]
  BY <1>1, FS_Subset DEF Table
<1>4. WorkOf(rs, u, A) = SumOver(rs, K) /\ WorkOf(new, u, A) = SumOver(new, L)
  BY DEF WorkOf
<1> HIDE DEF K, L
<1>5. SumOver(rs, K) = SumOver(new, K)
  BY <1>3, SumOverEqual
<1> QED
  BY <1>2, <1>4, <1>5 DEF new

LEMMA RowsAreTable ==
  ASSUME NEW ws \in Seq(Shape), NEW rs, DOMAIN rs \subseteq (DOMAIN ws) \X Users,
         \A k \in DOMAIN rs : rs[k] \in Nat
  PROVE  Table(rs)
<1>1. PICK n \in Nat : n = Len(ws) /\ DOMAIN ws = 1 .. n
  OBVIOUS
<1>2. IsFiniteSet(1 .. n)
  BY FS_Interval
<1>3. IsFiniteSet((DOMAIN ws) \X Users)
  BY <1>1, <1>2, FS_Product, SettlementAssumption
<1>4. IsFiniteSet(DOMAIN rs)
  BY <1>3, FS_Subset
<1> QED
  BY <1>4 DEF Table

LEMMA AddedFacts ==
  ASSUME NEW r, NEW u \in Users, r.work \in [Users -> Nat]
  PROVE  /\ Added(r, u) \in Nat
         /\ r.pc \notin Deferring => Added(r, u) = 0
         /\ u \in r.todo => Added(r, u) = 0
         /\ r.pc \in Deferring /\ u \notin r.todo => Added(r, u) = r.work[u]
         /\ u \notin Working(r.work) => Added(r, u) = 0
  BY DEF Added, Working

LEMMA ClearedFacts ==
  ASSUME NEW r
  PROVE  /\ r.pc = "clear" => Cleared(r) = Working(r.pay) \ r.todo
         /\ r.pc \in {"carry", "complete"} => Cleared(r) = Working(r.pay)
         /\ r.pc \notin {"clear", "carry", "complete"} => Cleared(r) = {}
  BY DEF Cleared

\* The sets of windows when the last window, n, is filled.
LEMMA LastOpen ==
  ASSUME NEW ws \in Seq(Shape), NEW cs, NEW u, NEW n \in DOMAIN ws, n = Len(ws),
         ws[n].status = "pending"
  PROVE  /\ n \in Open(ws, cs, u) /\ n \notin Deferred(ws, cs, u)
         /\ <<n, u>> \in DOMAIN cs => Deferred(ws, cs, u) = {}
<1>1. \A j \in DOMAIN ws : j \in Nat /\ j <= n
  OBVIOUS
<1>2. n \in Nat /\ n \notin Deferred(ws, cs, u)
  BY <1>1 DEF Deferred
<1>3. n \in Open(ws, cs, u)
  <2>1. \A j \in DOMAIN ws : ws[j].status = "completed" => j < n
    BY <1>1
  <2> QED
    BY <2>1 DEF Open
<1>4. <<n, u>> \in DOMAIN cs => Deferred(ws, cs, u) = {}
  BY <1>1 DEF Deferred
<1> QED
  BY <1>2, <1>3, <1>4

\* What is added to a bucket is in a row of the window.
LEMMA AddedIsStored ==
  ASSUME NEW r, r.work \in [Users -> Nat], r.pc \in Fill,
         NEW ws, NEW cs, NEW rs, NEW acc, Table(rs), FillOK(r, ws, cs, rs, acc), NEW u \in Users
  PROVE  /\ RowOf(rs, r.sid, u) \in Nat /\ Added(r, u) <= RowOf(rs, r.sid, u)
         /\ r.pc = "defer" => Added(r, u) = r.work[u] /\ RowOf(rs, r.sid, u) = r.work[u]
<1>1. RowOf(rs, r.sid, u) \in Nat /\ r.work[u] \in Nat
  BY DEF RowOf, Table
<1>2. CASE r.pc \in Deferring
  <2>1. r.pc \notin Paying /\ Stored(r) = Working(r.work)
    BY <1>2, WrittenFacts DEF Deferring, Paying
  <2>2. /\ <<r.sid, u>> \in DOMAIN rs <=> u \in Working(r.work)
        /\ u \in Working(r.work) => rs[<<r.sid, u>>] = r.work[u]
    BY <2>1 DEF FillOK
  <2>3. RowOf(rs, r.sid, u) = r.work[u]
    BY <1>1, <2>2 DEF RowOf, Working
  <2>4. Added(r, u) <= r.work[u]
    BY <1>1 DEF Added
  <2>5. r.pc = "defer" => r.todo = {}
    BY DEF FillOK
  <2>6. r.pc = "defer" => Added(r, u) = r.work[u]
    BY <1>2, <2>5 DEF Added
  <2> QED
    BY <1>1, <2>3, <2>4, <2>6
<1>3. CASE r.pc \notin Deferring
  <2>1. Added(r, u) = 0 /\ r.pc # "defer"
    BY <1>3, AddedFacts DEF Deferring
  <2> QED
    BY <1>1, <2>1
<1> QED
  BY <1>2, <1>3

\* A cycle that stops leaves its window pending.
LEMMA DueWhileFilled ==
  ASSUME NEW r, r.work \in [Users -> Nat], r.pc \in Fill,
         NEW ws \in Seq(Shape), NEW cs, NEW rs, NEW acc, Table(rs), FillOK(r, ws, cs, rs, acc),
         r.sid \in DOMAIN ws, ws[r.sid].status = "pending",
         NEW u \in Users, NEW n \in Nat, DueOK(n, u, ws, cs, rs, r)
  PROVE  Due(n, u, ws, cs, rs)
<1> DEFINE D == Deferred(ws, cs, u)
           O == Open(ws, cs, u)
<1>1. r.sid = Len(ws)
  BY DEF FillOK
<1>2. r.sid \in O
  BY <1>1, LastOpen
<1>3. /\ WorkOf(rs, u, D) \in Nat /\ WorkOf(rs, u, O \ {r.sid}) \in Nat
      /\ Added(r, u) \in Nat
  BY WorkNat, AddedFacts
<1>4. WorkOf(rs, u, O) = WorkOf(rs, u, O \ {r.sid}) + RowOf(rs, r.sid, u)
  <2>1. PICK A : A = O \ {r.sid}
    OBVIOUS
  <2>2. r.sid \notin A /\ O = A \union {r.sid}
    BY <1>2, <2>1
  <2> HIDE DEF O
  <2> QED
    BY <2>1, <2>2, WorkGrows
<1>5. RowOf(rs, r.sid, u) \in Nat /\ Added(r, u) <= RowOf(rs, r.sid, u)
  BY AddedIsStored
<1>6. /\ WorkOf(rs, u, D) + Added(r, u) <= n
      /\ n <= WorkOf(rs, u, O \ {r.sid}) + Added(r, u)
  BY DEF DueOK
<1> HIDE DEF D, O
<1>7. WorkOf(rs, u, D) <= n /\ n <= WorkOf(rs, u, O)
  BY <1>3, <1>4, <1>5, <1>6
<1> QED
  BY <1>7 DEF Due, D, O
-----------------------------------------------------------------------------
(* Every step keeps the deferred work due.                                 *)

\* While cycles do not overlap, only the one at work matters.
LEMMA OwnDue ==
  ASSUME SettledInv, TypesInv, SettledInv', TypesInv', FillInv',
         NEW p \in Cycles, job[p].pc # "idle", Stepped(p), overlapped' = overlapped,
         ~overlapped => \A u \in Users :
            IF job'[p].pc \in Fill
            THEN DueOK(accrual'[u], u, windows', credits', rows', job'[p])
            ELSE Due(accrual'[u], u, windows', credits', rows')
  PROVE  DueInv'
<1> SUFFICES ASSUME ~overlapped', NEW u \in Users
             PROVE  /\ Due(accrual'[u], u, windows', credits', rows')
                    /\ \A q \in Cycles : job'[q].pc \in Fill =>
                         DueOK(accrual'[u], u, windows', credits', rows', job'[q])
  BY DEF DueInv
<1>1. \A q \in Cycles \ {p} : job'[q].pc = "idle"
  BY DEF SettledInv, AloneInv, Stepped
<1>2. \A q \in Cycles : job'[q].pc \in Fill => q = p
  BY <1>1 DEF Fill
<1>3. job'[p].pc \in Fill => DueOK(accrual'[u], u, windows', credits', rows', job'[p])
  OBVIOUS
<1>4. job'[p].pc \notin Fill => Due(accrual'[u], u, windows', credits', rows')
  OBVIOUS
<1>5. CASE job'[p].pc \in Fill
  <2>1. /\ FillOK(job'[p], windows', credits', rows', accrual')
        /\ job'[p].sid \in DOMAIN windows' /\ windows'[job'[p].sid].status = "pending"
    BY <1>5 DEF FillInv, SettledInv, AloneInv
  <2>2. /\ windows' \in Seq(Shape) /\ DOMAIN rows' \subseteq (DOMAIN windows') \X Users
        /\ \A k \in DOMAIN rows' : rows'[k] \in Nat
        /\ accrual' \in [Users -> Nat]
    BY DEF TypesInv, TablesTyped, WindowsInv
  <2>3. job'[p].work \in [Users -> Nat]
    <3>1. job'[p] \in Jobs
      BY DEF Stepped
    <3> QED
      BY <3>1 DEF Jobs
  <2>4. Table(rows')
    BY <2>2, RowsAreTable
  <2>5. PICK r, ws, cs, rs, acc : /\ r = job'[p] /\ ws = windows' /\ cs = credits'
                                  /\ rs = rows' /\ acc = accrual'
    OBVIOUS
  <2>6. /\ r.work \in [Users -> Nat] /\ r.pc \in Fill /\ ws \in Seq(Shape) /\ Table(rs)
        /\ FillOK(r, ws, cs, rs, acc) /\ r.sid \in DOMAIN ws /\ ws[r.sid].status = "pending"
        /\ acc[u] \in Nat /\ DueOK(acc[u], u, ws, cs, rs, r)
    BY <1>3, <1>5, <2>1, <2>2, <2>3, <2>4, <2>5
  <2>7. Due(acc[u], u, ws, cs, rs)
    BY <2>6, DueWhileFilled
  <2> QED
    BY <1>2, <1>3, <1>5, <2>5, <2>7
<1> QED
  BY <1>2, <1>4, <1>5

\* What is known of the buckets, and of the tables, while cycles do not overlap.
LEMMA DueFacts ==
  ASSUME SettledInv, TypesInv, FillInv, DueInv, ~overlapped, NEW p \in Cycles
  PROVE  /\ Table(rows) /\ windows \in Seq(Shape) /\ accrual \in [Users -> Nat]
         /\ job[p].work \in [Users -> Nat]
         /\ \A u \in Users : Due(accrual[u], u, windows, credits, rows)
         /\ job[p].pc \in Fill =>
              /\ FillOK(job[p], windows, credits, rows, accrual)
              /\ job[p].sid \in DOMAIN windows /\ windows[job[p].sid].status = "pending"
              /\ \A u \in Users : DueOK(accrual[u], u, windows, credits, rows, job[p])
<1>1. /\ windows \in Seq(Shape) /\ DOMAIN rows \subseteq (DOMAIN windows) \X Users
      /\ \A k \in DOMAIN rows : rows[k] \in Nat
  BY TablesFinite DEF TypesInv, TablesTyped
<1>2. Table(rows)
  BY <1>1, RowsAreTable
<1> QED
  BY <1>1, <1>2, RecordTyped, FillFacts DEF DueInv

LEMMA StartDues ==
  ASSUME SettledInv, TypesInv, DueInv, NEW p \in Cycles, Start(p)
  PROVE  DueInv'
<1>1. /\ windows' = windows /\ credits' = credits /\ rows' = rows /\ accrual' = accrual
      /\ ~overlapped' => ~overlapped /\ \A q \in Cycles : job[q].pc = "idle"
  BY DEF Start
<1>2. job'[p].pc \in {"gather", "send"} /\ \A q \in Cycles \ {p} : job'[q] = job[q]
  BY StartEffect DEF Stepped
<1>3. ~overlapped' => \A q \in Cycles : job'[q].pc \in {"gather", "send", "idle"}
  BY <1>1, <1>2
<1>4. ~overlapped' => \A q \in Cycles : job'[q].pc \notin Fill
  BY <1>3 DEF Fill
<1> QED
  BY <1>1, <1>4 DEF DueInv

\* Steps that leave the tables of work alone, and no window to fill.
LEMMA IdleDues ==
  ASSUME SettledInv, TypesInv, SettledInv', TypesInv', FillInv, FillInv', DueInv, NEW p \in Cycles,
         Gather(p) \/ Look(p) \/ Check(p) \/ Link(p) \/ Send(p) \/ Abort(p)
  PROVE  DueInv'
<1>1. /\ windows' = windows /\ credits' = credits /\ rows' = rows /\ accrual' = accrual
      /\ overlapped' = overlapped
  BY DEF Gather, Look, Check, Link, Send, Abort, tables
<1>2. /\ Stepped(p) /\ job[p].pc # "idle"
      /\ ~overlapped => job'[p].pc \in {"look", "check", "open", "link", "send", "idle"}
  <2>1. CASE Gather(p) \/ Look(p) \/ Link(p) \/ Send(p) \/ Abort(p)
    BY <2>1, GatherEffect, LookEffect, LinkEffect, EndEffect
  <2>2. CASE Check(p)
    BY <2>2, CheckEffect DEF FillInv
  <2> QED
    BY <2>1, <2>2
<1>3. ~overlapped => \A u \in Users : Due(accrual'[u], u, windows', credits', rows')
  BY <1>1 DEF DueInv
<1>4. ~overlapped => job'[p].pc \notin Fill
  BY <1>2 DEF Fill
<1> QED
  BY <1>1, <1>2, <1>3, <1>4, OwnDue

\* Steps that leave the tables of work alone while a window is filled.
LEMMA QuietDues ==
  ASSUME SettledInv, TypesInv, SettledInv', TypesInv', FillInv, FillInv', DueInv, NEW p \in Cycles,
         job[p].pc \in Fill, Stepped(p), overlapped' = overlapped, job'[p].sid = job[p].sid,
         windows' = windows, credits' = credits, rows' = rows, accrual' = accrual,
         ~overlapped => \A u \in Users : /\ Added(job'[p], u) = Added(job[p], u)
                                         /\ u \in Cleared(job'[p]) => u \in Cleared(job[p])
  PROVE  DueInv'
<1>1. ASSUME ~overlapped, NEW u \in Users
      PROVE  /\ DueOK(accrual'[u], u, windows', credits', rows', job'[p])
             /\ Due(accrual'[u], u, windows', credits', rows')
  <2>1. /\ DueOK(accrual[u], u, windows, credits, rows, job[p])
        /\ Due(accrual[u], u, windows, credits, rows)
    BY <1>1, DueFacts
  <2>2. /\ Added(job'[p], u) = Added(job[p], u)
        /\ u \in Cleared(job'[p]) => u \in Cleared(job[p])
    BY <1>1
  <2> QED
    BY <2>1, <2>2 DEF DueOK
<1>2. job[p].pc # "idle"
  BY DEF Fill
<1> QED
  BY <1>1, <1>2, OwnDue

\* Until the rows are stored, and once it pays, a cycle adds nothing to a bucket.
LEMMA MergeDues ==
  ASSUME SettledInv, TypesInv, SettledInv', TypesInv', FillInv, FillInv', DueInv, NEW p \in Cycles,
         Merge(p) \/ Price(p)
  PROVE  DueInv'
<1>1. /\ windows' = windows /\ credits' = credits /\ rows' = rows /\ accrual' = accrual
      /\ overlapped' = overlapped
  BY DEF Merge, Price, tables
<1>2. /\ Stepped(p) /\ job'[p].sid = job[p].sid /\ job[p].pc \in {"merge", "price"}
      /\ job'[p].pc \in {"price", "rows"}
  BY MergeEffect, PriceEffect
<1>3. job[p].work \in [Users -> Nat] /\ job'[p].work \in [Users -> Nat]
  <2>1. job'[p] \in Jobs /\ job[p] \in Jobs
    BY <1>2, RecordTyped DEF Stepped
  <2> QED
    BY <2>1 DEF Jobs
<1>4. \A u \in Users : Added(job'[p], u) = 0 /\ Added(job[p], u) = 0
  BY <1>2, <1>3, AddedFacts DEF Deferring
<1>5. Cleared(job'[p]) = {}
  BY <1>2, ClearedFacts
<1>6. job[p].pc \in Fill
  BY <1>2 DEF Fill
<1> QED
  BY <1>1, <1>2, <1>4, <1>5, <1>6, QuietDues

LEMMA BucketDues ==
  ASSUME SettledInv, TypesInv, SettledInv', TypesInv', FillInv, FillInv', DueInv, NEW p \in Cycles,
         ReadBucket(p) \/ Carry(p)
  PROVE  DueInv'
<1>1. /\ windows' = windows /\ credits' = credits /\ rows' = rows /\ accrual' = accrual
      /\ overlapped' = overlapped
  BY DEF ReadBucket, Carry, tables
<1>2. /\ Stepped(p) /\ Kept(job[p], job'[p]) /\ job'[p].todo = job[p].todo
      /\ \/ job[p].pc = "bucket" /\ job'[p].pc \in {"add", "defer"}
         \/ job[p].pc = "carry" /\ job'[p].pc = "complete"
  BY ReadEffect, CarryEffect
<1>3. PICK r, x : r = job[p] /\ x = job'[p]
  OBVIOUS
<1>4. x.sid = r.sid /\ x.work = r.work /\ x.pay = r.pay /\ x.todo = r.todo
  BY <1>2, <1>3 DEF Kept
<1>5. r.pc \in Deferring <=> x.pc \in Deferring
  BY <1>2, <1>3 DEF Deferring
<1>6. \A u \in Users : Added(x, u) = Added(r, u)
  BY <1>4, <1>5 DEF Added
<1>7. Cleared(x) = Cleared(r)
  BY <1>2, <1>3, <1>4, ClearedFacts
<1>8. r.pc \in Fill
  BY <1>2, <1>3 DEF Fill
<1> QED
  BY <1>1, <1>2, <1>3, <1>4, <1>6, <1>7, <1>8, QuietDues

\* A new window, still pending and without rows, is open to everybody.
LEMMA OpenDues ==
  ASSUME SettledInv, TypesInv, SettledInv', TypesInv', FillInv, FillInv', DueInv, NEW p \in Cycles,
         OpenWindow(p)
  PROVE  DueInv'
<1>1. /\ Stepped(p) /\ job[p].pc = "open" /\ overlapped' = overlapped
      /\ job'[p].pc = "weigh" /\ credits' = credits /\ rows' = rows /\ accrual' = accrual
  BY OpenEffect DEF OpenWindow
<1>2. ASSUME ~overlapped, NEW u \in Users
      PROVE  DueOK(accrual'[u], u, windows', credits', rows', job'[p])
  <2>1. OfRange(job[p].from) = {}
    BY <1>1, <1>2 DEF SettledInv, AloneInv, OfRange, InRange
  <2>2. PICK new : new = Window(job[p].from, "pending", 0)
    OBVIOUS
  <2>3. /\ job'[p].sid = Len(windows) + 1 /\ windows' = Append(windows, new)
        /\ new.status = "pending"
    BY <2>1, <2>2, OpenEffect DEF Window
  <2>4. PICK ws, cs, n : ws = windows /\ cs = credits /\ n = Len(windows) + 1
    OBVIOUS
  <2>5. ws \in Seq(Shape) /\ DOMAIN cs \subseteq (DOMAIN ws) \X Users
    BY <2>4 DEF TypesInv, WindowsInv, TablesTyped
  <2>6. PICK ws2 : ws2 = windows'
    OBVIOUS
  <2>7. /\ DOMAIN ws2 = DOMAIN ws \union {n} /\ n \notin DOMAIN ws
        /\ \A i \in DOMAIN ws : ws2[i] = ws[i]
        /\ ws2[n] = new
    BY <2>3, <2>4, <2>5, <2>6
  <2>8. <<n, u>> \notin DOMAIN cs
    BY <2>5, <2>7
  <2>9. Deferred(ws2, cs, u) = Deferred(ws, cs, u)
    BY <2>3, <2>7, <2>8 DEF Deferred
  <2>10. Open(ws2, cs, u) \ {n} = Open(ws, cs, u)
    <3>1. \A i \in DOMAIN ws : i \in Open(ws2, cs, u) <=> i \in Open(ws, cs, u)
      BY <2>7, <2>8 DEF Open
    <3>2. Open(ws2, cs, u) \subseteq DOMAIN ws \union {n} /\ Open(ws, cs, u) \subseteq DOMAIN ws
      BY <2>7 DEF Open
    <3> QED
      BY <2>7, <3>1, <3>2
  <2>11. Added(job'[p], u) = 0 /\ Cleared(job'[p]) = {}
    BY <1>1, ClearedFacts DEF Added, Deferring
  <2>12. /\ Table(rows) /\ accrual \in [Users -> Nat]
         /\ Due(accrual[u], u, ws, cs, rows)
    BY <1>2, <2>4, DueFacts
  <2>13. WorkOf(rows, u, Deferred(ws, cs, u)) \in Nat /\ WorkOf(rows, u, Open(ws, cs, u)) \in Nat
    BY <2>12, WorkNat
  <2>14. DueOK(accrual[u], u, ws2, cs, rows, job'[p])
    <3>1. job'[p].sid = n
      BY <2>3, <2>4
    <3> QED
      BY <2>9, <2>10, <2>11, <2>12, <2>13, <3>1 DEF DueOK, Due
  <2> QED
    BY <1>1, <2>4, <2>6, <2>14
<1> QED
  BY <1>1, <1>2, OwnDue DEF Fill

\* A window's reward does not matter.
LEMMA WeighDues ==
  ASSUME SettledInv, TypesInv, SettledInv', TypesInv', FillInv, FillInv', DueInv, NEW p \in Cycles,
         Weigh(p)
  PROVE  DueInv'
<1>1. /\ Stepped(p) /\ job[p].pc = "weigh" /\ overlapped' = overlapped
      /\ job'[p].pc \in {"rows", "merge"} /\ job'[p].sid = job[p].sid
      /\ credits' = credits /\ rows' = rows /\ accrual' = accrual
      /\ SetWindow(p, "pending", job[p].reward)
  BY WeighEffect DEF Weigh
<1>2. ASSUME ~overlapped, NEW u \in Users
      PROVE  DueOK(accrual'[u], u, windows', credits', rows', job'[p])
  <2>1. job[p].pc \in Fill
    BY <1>1 DEF Fill
  <2>2. /\ job[p].sid \in DOMAIN windows /\ windows[job[p].sid].status = "pending"
        /\ DueOK(accrual[u], u, windows, credits, rows, job[p])
        /\ job[p].work \in [Users -> Nat]
    BY <1>2, <2>1, DueFacts
  <2>3. /\ DOMAIN windows' = DOMAIN windows
        /\ windows'[job[p].sid].status = "pending"
        /\ \A i \in DOMAIN windows \ {job[p].sid} : windows'[i] = windows[i]
    BY <1>1, <2>2, StateChange
  <2>4. \A i \in DOMAIN windows : windows'[i].status = windows[i].status
    BY <2>2, <2>3
  <2>5. /\ Deferred(windows', credits, u) = Deferred(windows, credits, u)
        /\ Open(windows', credits, u) = Open(windows, credits, u)
    BY <2>3, <2>4 DEF Deferred, Open
  <2>6. Added(job'[p], u) = 0 /\ Cleared(job'[p]) = {} /\ Added(job[p], u) = 0
    BY <1>1, ClearedFacts DEF Added, Deferring
  <2> QED
    BY <1>1, <2>2, <2>5, <2>6 DEF DueOK
<1> QED
  BY <1>1, <1>2, OwnDue DEF Fill

\* A row of the window that is filled is not due yet.
LEMMA StoreDues ==
  ASSUME SettledInv, TypesInv, SettledInv', TypesInv', FillInv, FillInv', DueInv, NEW p \in Cycles,
         StoreWork(p)
  PROVE  DueInv'
<1>1. /\ windows' = windows /\ credits' = credits /\ accrual' = accrual /\ overlapped' = overlapped
      /\ job[p].pc = "rows" /\ Stepped(p) /\ Kept(job[p], job'[p])
      /\ \/ /\ rows' = rows
            /\ \/ job'[p].pc = "bucket" /\ job'[p].todo = Working(job[p].work)
               \/ job'[p].pc = "credit"
         \/ /\ job'[p].pc = "rows"
            /\ \E u \in job[p].todo : rows' = Upsert(rows, <<job[p].sid, u>>, job[p].work[u])
  BY StoreEffect DEF StoreWork
<1>2. ASSUME ~overlapped, NEW u \in Users
      PROVE  DueOK(accrual'[u], u, windows', credits', rows', job'[p])
  <2>1. PICK r, x : r = job[p] /\ x = job'[p]
    OBVIOUS
  <2>2. x.sid = r.sid /\ x.work = r.work
    BY <1>1, <2>1 DEF Kept
  <2>3. /\ Table(rows) /\ windows \in Seq(Shape) /\ r.work \in [Users -> Nat]
        /\ FillOK(r, windows, credits, rows, accrual) /\ r.sid \in DOMAIN windows
        /\ windows[r.sid].status = "pending"
        /\ DueOK(accrual[u], u, windows, credits, rows, r)
    BY <1>1, <1>2, <2>1, DueFacts DEF Fill
  <2>4. Added(r, u) = 0 /\ Added(x, u) = 0 /\ Cleared(x) = {}
    <3>1. Added(r, u) = 0
      BY <1>1, <2>1 DEF Added, Deferring
    <3>2. x.pc \in {"bucket", "credit", "rows"}
      BY <1>1, <2>1
    <3>3. Added(x, u) = 0
      BY <1>1, <2>1, <2>2, <2>3, <3>2, AddedFacts DEF Deferring
    <3> QED
      BY <3>1, <3>2, <3>3, ClearedFacts
  <2>5. /\ WorkOf(rows', u, Deferred(windows, credits, u)) = WorkOf(rows, u, Deferred(windows, credits, u))
        /\ WorkOf(rows', u, Open(windows, credits, u) \ {r.sid})
             = WorkOf(rows, u, Open(windows, credits, u) \ {r.sid})
    <3>1. CASE rows' = rows
      BY <3>1
    <3>2. ASSUME NEW v, NEW y, rows' = Upsert(rows, <<r.sid, v>>, y)
          PROVE  /\ WorkOf(rows', u, Deferred(windows, credits, u)) = WorkOf(rows, u, Deferred(windows, credits, u))
                 /\ WorkOf(rows', u, Open(windows, credits, u) \ {r.sid})
                      = WorkOf(rows, u, Open(windows, credits, u) \ {r.sid})
      <4>1. PICK A, B : A = Deferred(windows, credits, u) /\ B = Open(windows, credits, u) \ {r.sid}
        OBVIOUS
      <4>2. r.sid \notin A /\ r.sid \notin B
        BY <2>3, <4>1 DEF Deferred
      <4>3. PICK rs, n : rs = rows /\ n = r.sid
        OBVIOUS
      <4>4. Table(rs) /\ n \notin A /\ n \notin B
        BY <2>3, <4>2, <4>3
      <4>5. /\ WorkOf(Upsert(rs, <<n, v>>, y), u, A) = WorkOf(rs, u, A)
            /\ WorkOf(Upsert(rs, <<n, v>>, y), u, B) = WorkOf(rs, u, B)
        BY <4>4, WorkKept
      <4> QED
        BY <3>2, <4>1, <4>3, <4>5
    <3> QED
      BY <1>1, <2>1, <3>1, <3>2
  <2>6. DueOK(accrual[u], u, windows, credits, rows', x)
    BY <2>2, <2>3, <2>4, <2>5 DEF DueOK
  <2> QED
    BY <1>1, <2>1, <2>6
<1>3. job[p].pc # "idle" /\ job'[p].pc \in Fill
  BY <1>1 DEF Fill
<1> QED
  BY <1>1, <1>2, <1>3, OwnDue

\* What is added to a bucket is what will be due.
LEMMA AddDues ==
  ASSUME SettledInv, TypesInv, SettledInv', TypesInv', FillInv, FillInv', DueInv, NEW p \in Cycles,
         AddWork(p)
  PROVE  DueInv'
<1>1. PICK v : v = First(job[p].todo)
  OBVIOUS
<1>2. /\ windows' = windows /\ credits' = credits /\ rows' = rows /\ overlapped' = overlapped
      /\ job[p].pc = "add" /\ Stepped(p) /\ Kept(job[p], job'[p])
      /\ job'[p].pc = "bucket" /\ v \in job[p].todo /\ job'[p].todo = job[p].todo \ {v}
      /\ accrual' = [accrual EXCEPT ![v] = job[p].bucket + job[p].work[v]]
  BY <1>1, AddEffect DEF AddWork
<1>3. ASSUME ~overlapped, NEW u \in Users
      PROVE  DueOK(accrual'[u], u, windows', credits', rows', job'[p])
  <2>1. PICK r, x : r = job[p] /\ x = job'[p]
    OBVIOUS
  <2>2. x.sid = r.sid /\ x.work = r.work /\ x.pay = r.pay /\ x.todo = r.todo \ {v}
    BY <1>2, <2>1 DEF Kept
  <2>3. /\ Table(rows) /\ r.work \in [Users -> Nat] /\ accrual \in [Users -> Nat]
        /\ FillOK(r, windows, credits, rows, accrual)
        /\ DueOK(accrual[u], u, windows, credits, rows, r)
    BY <1>2, <1>3, <2>1, DueFacts DEF Fill
  <2>4. r.pc = "add" /\ x.pc = "bucket" /\ r.pc \in Deferring /\ x.pc \in Deferring
    BY <1>2, <2>1 DEF Deferring
  <2>5. Cleared(x) = {}
    BY <2>4, ClearedFacts
  <2>6. /\ WorkOf(rows, u, Deferred(windows, credits, u)) \in Nat
        /\ WorkOf(rows, u, Open(windows, credits, u) \ {r.sid}) \in Nat
    BY <2>3, WorkNat
  <2>7. CASE u = v
    <3>1. u \in r.todo /\ u \notin x.todo
      BY <1>2, <2>1, <2>2, <2>7
    <3>2. Added(r, u) = 0 /\ Added(x, u) = r.work[u]
      BY <2>2, <2>4, <3>1 DEF Added
    <3>3. accrual'[u] = accrual[u] + r.work[u]
      <4>1. r.bucket = accrual[u]
        BY <1>1, <2>1, <2>3, <2>4, <2>7 DEF FillOK
      <4>2. accrual'[u] = r.bucket + r.work[u]
        BY <1>2, <2>1, <2>3, <2>7
      <4> QED
        BY <4>1, <4>2
    <3>4. r.work[u] \in Nat /\ accrual[u] \in Nat
      BY <2>3
    <3>5. DueOK(accrual[u] + r.work[u], u, windows, credits, rows, x)
      BY <2>2, <2>3, <2>5, <2>6, <3>2, <3>4 DEF DueOK
    <3> QED
      BY <1>2, <2>1, <3>3, <3>5
  <2>8. CASE u # v
    <3>1. u \in r.todo <=> u \in x.todo
      BY <2>2, <2>8
    <3>2. Added(r, u) = Added(x, u)
      BY <2>2, <2>4, <3>1 DEF Added
    <3>3. accrual'[u] = accrual[u]
      BY <1>2, <2>3, <2>8
    <3>4. DueOK(accrual[u], u, windows, credits, rows, x)
      BY <2>2, <2>3, <2>5, <3>2 DEF DueOK
    <3> QED
      BY <1>2, <2>1, <3>3, <3>4
  <2> QED
    BY <2>7, <2>8
<1>4. job[p].pc # "idle" /\ job'[p].pc \in Fill
  BY <1>2 DEF Fill
<1> QED
  BY <1>2, <1>3, <1>4, OwnDue

\* A user who is credited is owed nothing more.
LEMMA CreditDues ==
  ASSUME SettledInv, TypesInv, SettledInv', TypesInv', FillInv, FillInv', DueInv, NEW p \in Cycles,
         Credit(p)
  PROVE  DueInv'
<1>1. /\ windows' = windows /\ rows' = rows /\ accrual' = accrual /\ overlapped' = overlapped
      /\ job[p].pc = "credit" /\ Stepped(p) /\ Kept(job[p], job'[p])
  BY CreditEffect DEF Credit
<1>2. job[p].pc # "idle" /\ job[p].pc \in Fill /\ job[p].pc \notin Deferring
  BY <1>1 DEF Fill, Deferring
<1>3. job[p].work \in [Users -> Nat] /\ job'[p].work \in [Users -> Nat]
  <2>1. job'[p] \in Jobs /\ job[p] \in Jobs
    BY <1>1, RecordTyped DEF Stepped
  <2> QED
    BY <2>1 DEF Jobs
<1>4. CASE /\ credits' = credits /\ job'[p].pc = "clear"
           /\ job'[p].todo = Working(job[p].pay)
  <2>1. Cleared(job'[p]) = {}
    <3>1. job'[p].pay = job[p].pay
      BY <1>1 DEF Kept
    <3> QED
      BY <1>4, <3>1, ClearedFacts
  <2>2. \A u \in Users : Added(job'[p], u) = 0 /\ Added(job[p], u) = 0
    BY <1>2, <1>3, <1>4, AddedFacts DEF Deferring
  <2>3. job'[p].sid = job[p].sid
    BY <1>1 DEF Kept
  <2> QED
    BY <1>1, <1>2, <1>4, <2>1, <2>2, <2>3, QuietDues
<1>5. ASSUME NEW v \in job[p].todo, job'[p].pc = "credit",
             credits' = Upsert(credits, <<job[p].sid, v>>, job[p].pay[v])
      PROVE  DueInv'
  <2>1. ASSUME ~overlapped, NEW u \in Users
        PROVE  DueOK(accrual'[u], u, windows', credits', rows', job'[p])
    <3>1. PICK r, x, ws, cs, new, rs, n : /\ r = job[p] /\ x = job'[p] /\ ws = windows
                                          /\ cs = credits /\ new = credits' /\ rs = rows
                                          /\ n = accrual[u]
      OBVIOUS
    <3>2. x.sid = r.sid
      BY <1>1, <3>1 DEF Kept
    <3>3. /\ Table(rs) /\ ws \in Seq(Shape) /\ r.work \in [Users -> Nat] /\ n \in Nat
          /\ FillOK(r, ws, cs, rs, accrual) /\ r.sid \in DOMAIN ws
          /\ ws[r.sid].status = "pending" /\ DueOK(n, u, ws, cs, rs, r)
      BY <1>2, <2>1, <3>1, DueFacts
    <3>4. Added(r, u) = 0 /\ Added(x, u) = 0 /\ Cleared(x) = {}
      BY <1>2, <1>3, <1>5, <3>1, AddedFacts, ClearedFacts DEF Deferring
    <3>5. DOMAIN new = DOMAIN cs \union {<<r.sid, v>>}
      BY <1>5, <3>1 DEF Upsert
    <3>6. Open(ws, new, u) = Open(ws, cs, u)
      <4>1. ASSUME NEW j \in DOMAIN ws, ws[j].status = "completed"
            PROVE  <<j, u>> \in DOMAIN new <=> <<j, u>> \in DOMAIN cs
        BY <3>3, <3>5, <4>1
      <4> QED
        BY <4>1 DEF Open
    <3>7. WorkOf(rs, u, Deferred(ws, new, u)) <= n
      <4>1. CASE u = v
        <5>1. <<r.sid, u>> \in DOMAIN new /\ r.sid = Len(ws)
          BY <3>3, <3>5, <4>1 DEF FillOK
        <5>2. Deferred(ws, new, u) = {}
          BY <3>3, <5>1, LastOpen
        <5> QED
          BY <3>3, <5>2, WorkEmpty
      <4>2. CASE u # v
        <5>1. \A j \in DOMAIN ws : <<j, u>> \in DOMAIN new <=> <<j, u>> \in DOMAIN cs
          BY <3>5, <4>2
        <5>2. Deferred(ws, new, u) = Deferred(ws, cs, u)
          BY <5>1 DEF Deferred
        <5>3. WorkOf(rs, u, Deferred(ws, cs, u)) \in Nat
          BY <3>3, WorkNat
        <5> QED
          BY <3>3, <3>4, <5>2, <5>3 DEF DueOK
      <4> QED
        BY <4>1, <4>2
    <3>8. WorkOf(rs, u, Deferred(ws, new, u)) \in Nat
      BY <3>3, WorkNat
    <3>9. DueOK(n, u, ws, new, rs, x)
      BY <3>2, <3>3, <3>4, <3>6, <3>7, <3>8 DEF DueOK
    <3> QED
      BY <1>1, <3>1, <3>9
  <2>2. job'[p].pc \in Fill
    BY <1>5 DEF Fill
  <2> QED
    BY <1>1, <1>2, <2>1, <2>2, OwnDue
<1> QED
  BY <1>4, <1>5, CreditEffect

\* Nothing is due to a user whose bucket is emptied.
LEMMA ClearDues ==
  ASSUME SettledInv, TypesInv, SettledInv', TypesInv', FillInv, FillInv', DueInv, NEW p \in Cycles,
         Clear(p)
  PROVE  DueInv'
<1>1. /\ windows' = windows /\ rows' = rows /\ credits' = credits /\ overlapped' = overlapped
      /\ job[p].pc = "clear" /\ Stepped(p) /\ Kept(job[p], job'[p])
  BY ClearEffect DEF Clear
<1>2. job[p].pc # "idle" /\ job[p].pc \in Fill /\ job[p].pc \notin Deferring
  BY <1>1 DEF Fill, Deferring
<1>3. job[p].work \in [Users -> Nat] /\ job'[p].work \in [Users -> Nat]
  <2>1. job'[p] \in Jobs /\ job[p] \in Jobs
    BY <1>1, RecordTyped DEF Stepped
  <2> QED
    BY <2>1 DEF Jobs
<1>4. CASE /\ job[p].todo = {} /\ accrual' = accrual /\ job'[p].pc = "carry"
  <2>1. Cleared(job'[p]) = Cleared(job[p])
    <3>1. job'[p].pay = job[p].pay
      BY <1>1 DEF Kept
    <3>2. Cleared(job[p]) = Working(job[p].pay) \ job[p].todo
      BY <1>1, ClearedFacts
    <3>3. Cleared(job'[p]) = Working(job'[p].pay)
      BY <1>4, ClearedFacts
    <3> QED
      BY <1>4, <3>1, <3>2, <3>3
  <2>2. \A u \in Users : Added(job'[p], u) = 0 /\ Added(job[p], u) = 0
    BY <1>2, <1>3, <1>4, AddedFacts DEF Deferring
  <2>3. job'[p].sid = job[p].sid
    BY <1>1 DEF Kept
  <2> QED
    BY <1>1, <1>2, <1>4, <2>1, <2>2, <2>3, QuietDues
<1>5. ASSUME NEW v \in job[p].todo, job'[p].pc = "clear", job'[p].todo = job[p].todo \ {v},
             accrual' = [accrual EXCEPT ![v] = 0]
      PROVE  DueInv'
  <2>1. ASSUME ~overlapped, NEW u \in Users
        PROVE  DueOK(accrual'[u], u, windows', credits', rows', job'[p])
    <3>1. PICK r, x, ws, cs, rs, n, m : /\ r = job[p] /\ x = job'[p] /\ ws = windows
                                        /\ cs = credits /\ rs = rows
                                        /\ n = accrual[u] /\ m = accrual'[u]
      OBVIOUS
    <3>2. x.sid = r.sid /\ x.pay = r.pay
      BY <1>1, <3>1 DEF Kept
    <3>3. /\ Table(rs) /\ ws \in Seq(Shape) /\ r.work \in [Users -> Nat] /\ n \in Nat
          /\ FillOK(r, ws, cs, rs, accrual) /\ r.sid \in DOMAIN ws
          /\ ws[r.sid].status = "pending" /\ DueOK(n, u, ws, cs, rs, r)
      BY <1>2, <2>1, <3>1, DueFacts
    <3>4. Added(r, u) = 0 /\ Added(x, u) = 0
      BY <1>2, <1>3, <1>5, <3>1, AddedFacts DEF Deferring
    <3>5. /\ Cleared(r) = Working(r.pay) \ r.todo /\ Cleared(x) = Working(r.pay) \ x.todo
          /\ x.todo = r.todo \ {v}
      BY <1>1, <1>5, <3>1, <3>2, ClearedFacts
    <3>6. /\ WorkOf(rs, u, Deferred(ws, cs, u)) \in Nat
          /\ WorkOf(rs, u, Open(ws, cs, u) \ {r.sid}) \in Nat
      BY <3>3, WorkNat
    <3>7. ASSUME u = v PROVE DueOK(m, u, ws, cs, rs, x)
      <4>1. m = 0
        BY <1>5, <3>1, <3>7, RecordTyped
      <4>2. u \in Working(r.pay)
        BY <1>1, <3>1, <3>3, <3>7 DEF FillOK
      <4>3. Credited(r) = Working(r.pay)
        BY <1>1, <3>1, WrittenFacts DEF Paying
      <4>4. <<r.sid, u>> \in DOMAIN cs /\ r.sid = Len(ws)
        BY <3>3, <4>2, <4>3 DEF FillOK
      <4>5. Deferred(ws, cs, u) = {}
        BY <3>3, <4>4, LastOpen
      <4>6. WorkOf(rs, u, Deferred(ws, cs, u)) = 0
        BY <4>5, WorkEmpty
      <4> QED
        BY <3>2, <3>4, <3>6, <4>1, <4>6 DEF DueOK
    <3>8. ASSUME u # v PROVE DueOK(m, u, ws, cs, rs, x)
      <4>1. m = n
        BY <1>5, <3>1, <3>8, RecordTyped
      <4>2. u \in Cleared(x) => u \in Cleared(r)
        BY <3>5, <3>8
      <4> QED
        BY <3>2, <3>3, <3>4, <4>1, <4>2 DEF DueOK
    <3>9. DueOK(m, u, ws, cs, rs, x)
      BY <3>7, <3>8
    <3> QED
      BY <1>1, <3>1, <3>9
  <2>2. job'[p].pc \in Fill
    BY <1>5 DEF Fill
  <2> QED
    BY <1>1, <1>2, <2>1, <2>2, OwnDue
<1> QED
  BY <1>4, <1>5, ClearEffect

\* The work of a deferred window is due from then on.
LEMMA DeferDues ==
  ASSUME SettledInv, TypesInv, SettledInv', TypesInv', FillInv, FillInv', DueInv, NEW p \in Cycles,
         Defer(p)
  PROVE  DueInv'
<1>1. /\ Stepped(p) /\ job[p].pc = "defer" /\ overlapped' = overlapped
      /\ job'[p].pc = "link"
      /\ credits' = credits /\ rows' = rows /\ accrual' = accrual
      /\ SetWindow(p, "deferred", 0)
  BY DeferEffect DEF Defer
<1>2. job[p].pc # "idle" /\ job[p].pc \in Fill /\ job'[p].pc \notin Fill
  BY <1>1 DEF Fill
<1>3. ASSUME ~overlapped, NEW u \in Users
      PROVE  Due(accrual'[u], u, windows', credits', rows')
  <2>1. PICK r, ws, cs, rs, n, k, after : /\ r = job[p] /\ ws = windows /\ cs = credits
                                          /\ rs = rows /\ n = accrual[u] /\ k = job[p].sid
                                          /\ after = windows'
    OBVIOUS
  <2>2. /\ Table(rs) /\ ws \in Seq(Shape) /\ r.work \in [Users -> Nat] /\ n \in Nat
        /\ FillOK(r, ws, cs, rs, accrual) /\ k \in DOMAIN ws /\ r.sid = k
        /\ ws[k].status = "pending" /\ DueOK(n, u, ws, cs, rs, r)
    BY <1>2, <1>3, <2>1, DueFacts
  <2>3. /\ DOMAIN after = DOMAIN ws /\ after[k].status = "deferred"
        /\ \A i \in DOMAIN ws \ {k} : after[i] = ws[i]
    BY <1>1, <2>1, <2>2, StateChange
  <2>4. k = Len(ws) /\ <<k, u>> \notin DOMAIN cs
    <3>1. Credited(r) = {}
      BY <1>1, <2>1, WrittenFacts DEF Paying
    <3> QED
      BY <2>2, <3>1 DEF FillOK
  <2>5. Deferred(after, cs, u) = Deferred(ws, cs, u) \union {k}
    <3>1. \A i \in DOMAIN ws \ {k} : i \in Deferred(after, cs, u) <=> i \in Deferred(ws, cs, u)
      BY <2>3 DEF Deferred
    <3>2. k \in Deferred(after, cs, u)
      <4>1. \A j \in DOMAIN ws : <<j, u>> \in DOMAIN cs => j < k
        BY <2>2, <2>4
      <4> QED
        BY <2>2, <2>3, <4>1 DEF Deferred
    <3>3. Deferred(after, cs, u) \subseteq DOMAIN ws /\ Deferred(ws, cs, u) \subseteq DOMAIN ws
      BY <2>3 DEF Deferred
    <3> QED
      BY <3>1, <3>2, <3>3
  <2>6. Open(after, cs, u) = Open(ws, cs, u)
    <3>1. \A i \in DOMAIN ws : /\ after[i].status \in {"deferred", "pending"}
                                    <=> ws[i].status \in {"deferred", "pending"}
                               /\ after[i].status = "completed" <=> ws[i].status = "completed"
      BY <2>2, <2>3
    <3> QED
      BY <2>3, <3>1 DEF Open
  <2>7. k \notin Deferred(ws, cs, u) /\ k \in Open(ws, cs, u)
    BY <2>2, <2>4, LastOpen
  <2>8. WorkOf(rs, u, Deferred(ws, cs, u) \union {k}) = WorkOf(rs, u, Deferred(ws, cs, u)) + RowOf(rs, k, u)
    BY <2>2, <2>7, WorkGrows
  <2>9. WorkOf(rs, u, Open(ws, cs, u)) = WorkOf(rs, u, Open(ws, cs, u) \ {k}) + RowOf(rs, k, u)
    <3>1. PICK A, B : A = Open(ws, cs, u) \ {k} /\ B = Open(ws, cs, u)
      OBVIOUS
    <3>2. k \notin A /\ B = A \union {k}
      BY <2>7, <3>1
    <3> QED
      BY <2>2, <3>1, <3>2, WorkGrows
  <2>10. Added(r, u) = RowOf(rs, k, u) /\ RowOf(rs, k, u) \in Nat
    <3>1. r.pc \in Fill /\ r.pc = "defer"
      BY <1>1, <1>2, <2>1
    <3>2. PICK acc : acc = accrual
      OBVIOUS
    <3>3. FillOK(r, ws, cs, rs, acc)
      BY <2>2, <3>2
    <3> QED
      BY <2>2, <3>1, <3>3, AddedIsStored
  <2>11. /\ WorkOf(rs, u, Deferred(ws, cs, u)) \in Nat
         /\ WorkOf(rs, u, Open(ws, cs, u) \ {k}) \in Nat
    BY <2>2, WorkNat
  <2>12. Due(n, u, after, cs, rs)
    BY <2>2, <2>5, <2>6, <2>8, <2>9, <2>10, <2>11 DEF DueOK, Due
  <2> QED
    BY <1>1, <2>1, <2>12
<1> QED
  BY <1>1, <1>2, <1>3, OwnDue

\* A completed window ends what its users were due.
LEMMA CompleteDues ==
  ASSUME SettledInv, TypesInv, SettledInv', TypesInv', FillInv, FillInv', DueInv, NEW p \in Cycles,
         Complete(p)
  PROVE  DueInv'
<1>1. /\ Stepped(p) /\ job[p].pc = "complete" /\ overlapped' = overlapped
      /\ job'[p].pc = "link"
      /\ credits' = credits /\ rows' = rows /\ accrual' = accrual
      /\ SetWindow(p, "completed", job[p].reward)
  BY CompleteEffect DEF Complete
<1>2. job[p].pc # "idle" /\ job[p].pc \in Fill /\ job'[p].pc \notin Fill
  BY <1>1 DEF Fill
<1>3. ASSUME ~overlapped, NEW u \in Users
      PROVE  Due(accrual'[u], u, windows', credits', rows')
  <2>1. PICK r, ws, cs, rs, n, k, after : /\ r = job[p] /\ ws = windows /\ cs = credits
                                          /\ rs = rows /\ n = accrual[u] /\ k = job[p].sid
                                          /\ after = windows'
    OBVIOUS
  <2>2. /\ Table(rs) /\ ws \in Seq(Shape) /\ r.work \in [Users -> Nat] /\ n \in Nat
        /\ FillOK(r, ws, cs, rs, accrual) /\ k \in DOMAIN ws /\ r.sid = k
        /\ ws[k].status = "pending" /\ DueOK(n, u, ws, cs, rs, r)
    BY <1>2, <1>3, <2>1, DueFacts
  <2>3. /\ DOMAIN after = DOMAIN ws /\ after[k].status = "completed"
        /\ \A i \in DOMAIN ws \ {k} : after[i] = ws[i]
    BY <1>1, <2>1, <2>2, StateChange
  <2>4. Deferred(after, cs, u) = Deferred(ws, cs, u)
    <3>1. \A i \in DOMAIN ws : after[i].status = "deferred" <=> ws[i].status = "deferred"
      BY <2>2, <2>3
    <3> QED
      BY <2>3, <3>1 DEF Deferred
  <2>5. Added(r, u) = 0 /\ Cleared(r) = Working(r.pay) /\ Credited(r) = Working(r.pay)
    BY <1>1, <2>1, <2>2, AddedFacts, ClearedFacts, WrittenFacts DEF Deferring, Paying
  <2>6. /\ WorkOf(rs, u, Deferred(ws, cs, u)) \in Nat
        /\ WorkOf(rs, u, Open(after, cs, u)) \in Nat
    BY <2>2, WorkNat
  <2>7. n <= WorkOf(rs, u, Open(after, cs, u))
    <3>1. CASE u \in Working(r.pay)
      <4>1. n = 0
        BY <2>2, <2>5, <3>1 DEF DueOK
      <4> QED
        BY <2>6, <4>1
    <3>2. CASE u \notin Working(r.pay)
      <4>1. <<k, u>> \notin DOMAIN cs
        BY <2>2, <2>5, <3>2 DEF FillOK
      <4>2. Open(after, cs, u) = Open(ws, cs, u) \ {k}
        <5>1. k \notin Open(after, cs, u)
          BY <2>3 DEF Open
        <5>2. \A j \in DOMAIN ws : after[j].status = "completed" /\ <<j, u>> \in DOMAIN cs
                                     <=> ws[j].status = "completed" /\ <<j, u>> \in DOMAIN cs
          BY <2>3, <4>1
        <5>3. \A i \in DOMAIN ws \ {k} : i \in Open(after, cs, u) <=> i \in Open(ws, cs, u)
          BY <2>3, <5>2 DEF Open
        <5>4. Open(after, cs, u) \subseteq DOMAIN ws /\ Open(ws, cs, u) \subseteq DOMAIN ws
          BY <2>3 DEF Open
        <5> QED
          BY <5>1, <5>3, <5>4
      <4>3. n <= WorkOf(rs, u, Open(ws, cs, u) \ {k}) + 0
        BY <2>2, <2>5 DEF DueOK
      <4> QED
        BY <2>6, <4>2, <4>3
    <3> QED
      BY <3>1, <3>2
  <2>8. WorkOf(rs, u, Deferred(ws, cs, u)) + 0 <= n
    BY <2>2, <2>5 DEF DueOK
  <2>9. Due(n, u, after, cs, rs)
    BY <2>2, <2>4, <2>6, <2>7, <2>8 DEF Due
  <2> QED
    BY <1>1, <2>1, <2>9
<1> QED
  BY <1>1, <1>2, <1>3, OwnDue

LEMMA NextDues ==
  ASSUME SettledInv, TypesInv, SettledInv', TypesInv', FillInv, FillInv', DueInv, [Next]_vars
  PROVE  DueInv'
<1>1. CASE Tick \/ UNCHANGED vars
  <2>1. /\ job' = job /\ windows' = windows /\ credits' = credits /\ rows' = rows
        /\ accrual' = accrual /\ overlapped' = overlapped
    BY <1>1 DEF Tick, vars, tables
  <2> QED
    BY <2>1 DEF DueInv
<1>2. ASSUME NEW p \in Cycles, Start(p) \/ Step(p) \/ Abort(p) PROVE DueInv'
  BY <1>2, StartDues, IdleDues, OpenDues, WeighDues, MergeDues, StoreDues, BucketDues, AddDues,
     DeferDues, CreditDues, ClearDues, CompleteDues, Zenon DEF Step
<1> QED
  BY <1>1, <1>2 DEF Next
-----------------------------------------------------------------------------
(* The accounts.                                                           *)

AccountsInv == FillInv /\ BooksInv /\ DueInv

LEMMA InitAccounts == ASSUME Init PROVE AccountsInv
<1>1. /\ windows = << >> /\ rows = << >> /\ credits = << >> /\ carry = 0
      /\ accrual = Nobody /\ \A p \in Cycles : job[p] = Idle
  BY DEF Init
<1>2. \A p \in Cycles : job[p].pc = "idle"
  BY <1>1, IdleFacts
<1>3. DOMAIN windows = {} /\ DOMAIN credits = {} /\ DOMAIN rows = {}
  BY <1>1
<1>4. FillInv
  BY <1>2 DEF FillInv, Fill
<1>5. BooksInv
  <2>1. OfStatus({"completed"}) = {}
    BY <1>3 DEF OfStatus
  <2>2. Given = 0 /\ Owed = 0
    BY <1>3, <2>1, SumOverEmpty DEF Given, Owed
  <2> QED
    BY <1>1, <1>2, <2>2 DEF BooksInv
<1>6. DueInv
  <2> SUFFICES ASSUME NEW u \in Users PROVE Due(accrual[u], u, windows, credits, rows)
    BY <1>2 DEF DueInv, Fill
  <2>1. Deferred(windows, credits, u) = {} /\ Open(windows, credits, u) = {}
    BY <1>3 DEF Deferred, Open
  <2>2. accrual[u] = 0
    BY <1>1 DEF Nobody
  <2> QED
    BY <2>1, <2>2, WorkEmpty DEF Due
<1> QED
  BY <1>4, <1>5, <1>6 DEF AccountsInv

\* Unless two cycles overlap, the tables have what the cycle at work has written,
\* the books balance at each of its steps, and the buckets hold what is due.
THEOREM AccountsInvariant == Spec => []AccountsInv
<1>1. Init => AccountsInv
  BY InitAccounts
<1>2. SettledInv /\ TypesInv /\ SettledInv' /\ TypesInv' /\ AccountsInv /\ [Next]_vars => AccountsInv'
  <2> SUFFICES ASSUME SettledInv, TypesInv, SettledInv', TypesInv', FillInv, BooksInv, DueInv,
                      [Next]_vars
               PROVE  FillInv' /\ BooksInv' /\ DueInv'
    BY DEF AccountsInv
  <2>1. FillInv'
    BY NextFills
  <2>2. BooksInv'
    BY NextBooks
  <2>3. DueInv'
    BY <2>1, NextDues
  <2> QED
    BY <2>1, <2>2, <2>3
<1> QED
  BY <1>1, <1>2, SettledInvariant, TypesInvariant, PTL DEF Spec

LEMMA BooksAreBalanced == ASSUME BooksInv PROVE BooksBalance
  BY DEF BooksInv, BooksBalance, Given, Owed, Paying

\* The windows after the last that credited a user are those after all of them.
LEMMA AfterLastCredit ==
  ASSUME TypesInv, NEW u, NEW S, NEW i \in DOMAIN windows
  PROVE  i > LastCredit(u, S) <=>
           \A j \in DOMAIN windows : windows[j].status \in S /\ <<j, u>> \in DOMAIN credits => j < i
<1> DEFINE paid == {j \in OfStatus(S) : <<j, u>> \in DOMAIN credits}
<1>1. /\ paid \subseteq DOMAIN windows /\ IsFiniteSet(paid)
      /\ \A j \in DOMAIN windows : j \in Nat /\ j > 0
  <2>1. windows \in Seq(Shape) /\ IsFiniteSet(DOMAIN windows)
    BY TablesFinite
  <2>2. paid \subseteq DOMAIN windows
    BY DEF OfStatus
  <2>3. \A j \in DOMAIN windows : j \in Nat /\ j > 0
    BY <2>1
  <2> QED
    BY <2>1, <2>2, <2>3, FS_Subset
<1>2. (\A j \in DOMAIN windows : windows[j].status \in S /\ <<j, u>> \in DOMAIN credits => j < i)
        <=> \A j \in paid : j < i
  BY DEF OfStatus
<1>3. /\ paid = {} => LastCredit(u, S) = 0
      /\ paid # {} => LastCredit(u, S) = CHOOSE l \in paid : \A j \in paid : j <= l
  BY DEF LastCredit
<1> HIDE DEF paid
<1>4. CASE paid = {}
  BY <1>1, <1>2, <1>3, <1>4
<1>5. CASE paid # {}
  <2>1. \E l \in paid : \A j \in paid : j <= l
    <3>1. paid \subseteq Int
      BY <1>1
    <3> QED
      BY <1>1, <1>5, <3>1, GreatestNumber
  <2>2. PICK m : m = LastCredit(u, S)
    OBVIOUS
  <2>3. m \in paid /\ \A j \in paid : j <= m
    BY <1>3, <1>5, <2>1, <2>2
  <2>4. i \in Nat /\ \A j \in paid : j \in Nat
    BY <1>1
  <2>5. i > m <=> \A j \in paid : j < i
    BY <2>3, <2>4
  <2> QED
    BY <1>2, <2>2, <2>5
<1> QED
  BY <1>4, <1>5

LEMMA BucketsAreDue == ASSUME TypesInv, DueInv PROVE AccrualIsTheDeferredWork
<1> SUFFICES ASSUME ~overlapped, NEW u \in Users
             PROVE  /\ WorkAfter(u, LastCredit(u, Statuses), {"deferred"}) <= accrual[u]
                    /\ accrual[u] <= WorkAfter(u, LastCredit(u, {"completed"}), {"deferred", "pending"})
  BY DEF AccrualIsTheDeferredWork
<1>1. Due(accrual[u], u, windows, credits, rows)
  BY DEF DueInv
<1>2. windows \in Seq(Shape) /\ \A j \in DOMAIN windows : windows[j].status \in Statuses
  BY TablesFinite, EndsTyped
<1>3. \A i \in DOMAIN windows : i > LastCredit(u, Statuses) <=>
          \A j \in DOMAIN windows : <<j, u>> \in DOMAIN credits => j < i
  <2> TAKE i \in DOMAIN windows
  <2>1. i > LastCredit(u, Statuses) <=>
          \A j \in DOMAIN windows : windows[j].status \in Statuses /\ <<j, u>> \in DOMAIN credits => j < i
    BY AfterLastCredit
  <2> QED
    BY <1>2, <2>1
<1>4. \A i \in DOMAIN windows : i > LastCredit(u, {"completed"}) <=>
          \A j \in DOMAIN windows :
            windows[j].status \in {"completed"} /\ <<j, u>> \in DOMAIN credits => j < i
  BY AfterLastCredit
<1>5. WorkAfter(u, LastCredit(u, Statuses), {"deferred"})
        = WorkOf(rows, u, Deferred(windows, credits, u))
  <2>1. PICK l : l = LastCredit(u, Statuses)
    OBVIOUS
  <2>2. \A i : i > l /\ i \in OfStatus({"deferred"}) <=> i \in Deferred(windows, credits, u)
    BY <1>3, <2>1 DEF OfStatus, Deferred
  <2>3. {k \in DOMAIN rows : k[2] = u /\ k[1] > l /\ k[1] \in OfStatus({"deferred"})}
          = {k \in DOMAIN rows : k[2] = u /\ k[1] \in Deferred(windows, credits, u)}
    BY <2>2
  <2> QED
    BY <2>1, <2>3 DEF WorkAfter, WorkOf
<1>6. WorkAfter(u, LastCredit(u, {"completed"}), {"deferred", "pending"})
        = WorkOf(rows, u, Open(windows, credits, u))
  <2>1. PICK l : l = LastCredit(u, {"completed"})
    OBVIOUS
  <2>2. \A i : i > l /\ i \in OfStatus({"deferred", "pending"}) <=> i \in Open(windows, credits, u)
    BY <1>4, <2>1 DEF OfStatus, Open
  <2>3. {k \in DOMAIN rows : k[2] = u /\ k[1] > l /\ k[1] \in OfStatus({"deferred", "pending"})}
          = {k \in DOMAIN rows : k[2] = u /\ k[1] \in Open(windows, credits, u)}
    BY <2>2
  <2> QED
    BY <2>1, <2>3 DEF WorkAfter, WorkOf
<1> QED
  BY <1>1, <1>5, <1>6 DEF Due

\* The tables are well-formed, and money and deferred work are accounted for.
THEOREM AccountsAreSound == Spec => []AccountsSound
<1>1. TypesInv /\ AccountsInv => AccountsSound
  BY TypesAreOK, BooksAreBalanced, BucketsAreDue DEF AccountsInv, AccountsSound
<1> QED
  BY <1>1, TypesInvariant, AccountsInvariant, PTL
=============================================================================
