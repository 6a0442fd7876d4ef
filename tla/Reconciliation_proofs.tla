------------------------- MODULE Reconciliation_proofs -------------------------
(***************************************************************************)
(* Theorems of Reconciliation for all commands, executions, ledgers and    *)
(* receiver files. ReconciliationInv is the inductive invariant: types,    *)
(* what a command has done by where it is, what it has seen, what it       *)
(* locks, and the chain of reconciliations.                                *)
(*                                                                         *)
(* Then those of CycleReadiness, for all readers too: ReadersInv says what *)
(* a reader that has found a reconciliation knows of it.                   *)
(***************************************************************************)
EXTENDS CycleReadiness, SequenceTheorems, TLAPS

\* A command in one of these has asked the wallet about all its transactions.
Decided == {"querying", "locking", "inserting", "replacing", "recorded"}

\* What a command has done by where it is.
CommandProgress(c) ==
    /\ pc[c] = "idle" => args[c] = NoArgs /\ asked[c] = 0 /\ seen[c] = {}
    /\ pc[c] = "reading" => asked[c] < Len(Sources(args[c]))
    /\ pc[c] \in Decided => asked[c] = Len(Sources(args[c]))
    /\ pc[c] \notin {"idle", "ended"} => Loads(args[c])
    /\ recorded[c] # "none" <=> pc[c] = "recorded"

Progress ==
    /\ \A e \in chunksDone : IsChunked(e)
    /\ \A c \in Commands : CommandProgress(c)

\* The transactions a command has asked about so far.
Asked(c) == {Sources(args[c])[i] : i \in 1 .. asked[c]}

\* What a command has seen is so, and it asked for it.
EvidenceSound ==
    \A c \in Commands : /\ seen[c] \subseteq mined
                        /\ seen[c] \subseteq Asked(c)
                        /\ args[c].file.receives \subseteq received

\* A command that was told to supersede a reconciliation has seen, of what it
\* has asked, at least what that one had seen.
EvidenceNewer ==
    \A c \in Commands : args[c].supersede # NoCommand =>
        /\ recorded[args[c].supersede] # "none"
        /\ seen[args[c].supersede] \cap Asked(c) \subseteq seen[c]

\* The reconciliation a command waits for, or has marked.
CommandLocks(c) ==
    /\ pc[c] \in {"locking", "replacing"} =>
          /\ target[c] \in Commands
          /\ recorded[target[c]] # "none"
          /\ SameSubject(target[c], c)
    /\ pc[c] = "replacing" =>
          /\ recorded[target[c]] = "current"
          /\ args[c].supersede = target[c]
          /\ ~ Matched(target[c])
          /\ \A d \in Commands : pc[d] = "replacing" /\ target[d] = target[c] => d = c

Locks == \A c \in Commands : CommandLocks(c)

ReconciliationInv ==
    /\ TypeOK
    /\ Progress
    /\ EvidenceSound
    /\ EvidenceNewer
    /\ Locks
    /\ HistoryIsChain
    /\ EvidenceMovesOn

-----------------------------------------------------------------------------
(* Command lines and what they make a command ask.                         *)

\* The parts of a command line.
LEMMA CommandLineFacts ==
    ASSUME NEW a \in CommandLine
    PROVE  /\ a.kind \in {Single, Chunked}
           /\ a.execution \in Executions
           /\ a.supersede \in Commands \cup {NoCommand}
           /\ a.file.receives \subseteq Txs
<1>1. /\ a.kind \in {Single, Chunked} /\ a.execution \in Executions
      /\ a.supersede \in Commands \cup {NoCommand} /\ a.file \in Exports
  BY DEF CommandLine
<1>2. a.file \in Export
  BY <1>1, ExportsAssumption
<1> QED
  BY <1>1, <1>2 DEF Export

\* The command line that stands for none is one, and supersedes nothing.
LEMMA NoArgsFacts ==
    NoArgs \in CommandLine /\ NoArgs.supersede = NoCommand /\ NoArgs.file.receives = {}
<1> DEFINE e0 == CHOOSE e \in Executions : TRUE
<1>1. e0 \in Executions
  BY CommandsAssumption
<1>2. NoArgs = [kind |-> Single, execution |-> e0, supersede |-> NoCommand, file |-> NoFile]
  BY DEF NoArgs
<1> HIDE DEF e0
<1>3. NoFile \in Exports /\ NoFile.receives = {}
  BY ExportsAssumption DEF NoFile
<1>4. NoArgs \in [kind : {Single}, execution : Executions, supersede : {NoCommand},
                  file : Exports]
  BY <1>1, <1>2, <1>3
<1> QED
  BY <1>2, <1>3, <1>4 DEF CommandLine

\* A command asks about wallet transactions, and about one at least if it
\* is about a single execution or an execution with chunks.
LEMMA SourcesFacts ==
    ASSUME NEW a \in CommandLine
    PROVE  /\ Sources(a) \in Seq(Txs)
           /\ Len(Sources(a)) \in Nat
           /\ DOMAIN Sources(a) = 1 .. Len(Sources(a))
           /\ \A i \in 1 .. Len(Sources(a)) : Sources(a)[i] \in Txs
           /\ a.kind = Chunked => Len(Sources(a)) = Len(Ledger[a.execution].chunks)
           /\ a.kind = Single \/ IsChunked(a.execution) => 0 < Len(Sources(a))
<1> DEFINE L == Ledger[a.execution].chunks
<1>1. /\ a.kind \in {Single, Chunked}
      /\ Ledger[a.execution].txid \in Txs
      /\ L \in Seq(Line)
  BY CommandLineFacts, LedgerAssumption
<1>2. CASE a.kind = Single
  BY <1>1, <1>2 DEF Sources, Single, Chunked
<1>3. CASE a.kind = Chunked
  <2> DEFINE S == [i \in DOMAIN L |-> L[i].tx]
  <2>1. Sources(a) = S
    BY <1>3 DEF Sources, Single, Chunked
  <2>2. Len(L) \in Nat /\ DOMAIN L = 1 .. Len(L) /\ \A i \in 1 .. Len(L) : L[i].tx \in Txs
    <3>1. L \in [1 .. Len(L) -> Line] /\ Len(L) \in Nat
      BY <1>1, LenProperties
    <3>2. \A i \in 1 .. Len(L) : L[i] \in Line
      BY <3>1
    <3> QED
      BY <3>1, <3>2 DEF Line
  <2>3. S \in [1 .. Len(L) -> Txs]
    BY <2>2
  <2>4. S \in Seq(Txs) /\ Len(S) = Len(L)
    BY <2>2, <2>3, SeqDef, LenProperties
  <2>5. IsChunked(a.execution) => 0 < Len(L)
    BY <1>1, <2>2, EmptySeq DEF IsChunked
  <2> QED
    BY <1>3, <2>1, <2>2, <2>3, <2>4, <2>5 DEF Single, Chunked
<1> QED
  BY <1>1, <1>2, <1>3

-----------------------------------------------------------------------------
(* What a step leaves alone.                                               *)

\* A verdict depends on what its command was given and saw.
LEMMA MatchedKept ==
    ASSUME NEW c, args'[c] = args[c], seen'[c] = seen[c]
    PROVE  Matched(c)' <=> Matched(c)
BY DEF Matched, ReconciliationStatus

\* The chain is kept by a step that writes no reconciliation and leaves what
\* the commands that recorded one were given and saw.
LEMMA ChainKept ==
    ASSUME TypeOK, HistoryIsChain, EvidenceMovesOn,
           recorded' = recorded, successor' = successor,
           \A c \in Commands : recorded[c] # "none" =>
               args'[c] = args[c] /\ seen'[c] = seen[c]
    PROVE  HistoryIsChain' /\ EvidenceMovesOn'
<1>1. ASSUME NEW c \in Commands, NEW d \in Commands,
             recorded[c] # "none", recorded[d] # "none"
      PROVE  SameSubject(c, d)' <=> SameSubject(c, d)
  BY <1>1 DEF SameSubject
<1>2. ASSUME NEW c \in Commands, NEW d \in Commands,
             recorded'[c] = "current", recorded'[d] = "current", SameSubject(c, d)'
      PROVE  c = d
  BY <1>1, <1>2 DEF HistoryIsChain
<1>3. ASSUME NEW c \in Commands, recorded'[c] # "none"
      PROVE  Current(c)' # {}
  <2>1. PICK r \in Commands : recorded[r] = "current" /\ SameSubject(r, c)
    BY <1>3 DEF HistoryIsChain, Current
  <2>2. recorded'[r] = "current" /\ SameSubject(r, c)'
    BY <1>1, <1>3, <2>1
  <2> QED
    BY <2>2 DEF Current
<1>4. ASSUME NEW r \in Commands, recorded'[r] = "superseded"
      PROVE  /\ successor'[r] \in Commands
             /\ recorded'[successor'[r]] # "none" /\ SameSubject(r, successor[r])'
             /\ \A q \in Commands \ {r} :
                   recorded'[q] = "superseded" => successor'[q] # successor'[r]
             /\ seen'[r] \subseteq seen'[successor'[r]]
  <2>1. /\ successor[r] \in Commands /\ recorded[successor[r]] # "none"
        /\ SameSubject(r, successor[r]) /\ seen[r] \subseteq seen[successor[r]]
        /\ \A q \in Commands \ {r} : recorded[q] = "superseded" => successor[q] # successor[r]
    BY <1>4 DEF HistoryIsChain, EvidenceMovesOn
  <2>2. SameSubject(r, successor[r])'
    BY <1>4, <2>1 DEF SameSubject
  <2> QED
    BY <1>4, <2>1, <2>2
<1>5. HistoryIsChain'
  BY <1>2, <1>3, <1>4 DEF HistoryIsChain
<1> QED
  BY <1>4, <1>5 DEF EvidenceMovesOn

\* A command keeps its lock on a reconciliation when the step leaves both alone.
LEMMA LockKept ==
    ASSUME NEW c \in Commands, CommandLocks(c),
           pc'[c] = pc[c], target'[c] = target[c], args'[c] = args[c],
           pc[c] \in {"locking", "replacing"} =>
               /\ recorded'[target[c]] # "none"
               /\ args'[target[c]] = args[target[c]]
               /\ seen'[target[c]] = seen[target[c]],
           pc[c] = "replacing" =>
               /\ recorded'[target[c]] = "current"
               /\ \A d \in Commands :
                     pc'[d] = "replacing" /\ target'[d] = target[c] => d = c
    PROVE  CommandLocks(c)'
<1>1. pc[c] \in {"locking", "replacing"} => SameSubject(target[c], c)'
  BY DEF CommandLocks, SameSubject
<1>2. pc[c] = "replacing" => ~ Matched(target[c])'
  BY MatchedKept DEF CommandLocks
<1> QED
  BY <1>1, <1>2 DEF CommandLocks

-----------------------------------------------------------------------------
(* The environment.                                                        *)

\* What was confirmed, mined or received stays so, and what is recorded and
\* what the commands know is left alone.
LEMMA WorldGrows ==
    ASSUME TypeOK, Progress, World
    PROVE  /\ UNCHANGED <<pc, readVars, target, tableVars>>
           /\ mined \subseteq mined' /\ received \subseteq received'
           /\ mined' \subseteq Txs /\ received' \subseteq Txs
           /\ chunksDone \subseteq chunksDone' /\ chunksDone' \subseteq Executions
           /\ \A e \in chunksDone' : IsChunked(e)
           /\ status' \in [Executions ->
                  {"draft", "sent", "confirmed", "refused", "partial_sent"}]
           /\ \A e \in Executions : status[e] = "confirmed" => status'[e] = "confirmed"
<1> USE DEF TypeOK, Progress
<1>1. CASE \E t \in Txs : Mine(t)
  BY <1>1 DEF Mine
<1>2. CASE \E t \in Txs : Receive(t)
  BY <1>2 DEF Receive
<1>3. CASE \E e \in Executions : FinishSends(e)
  BY <1>3 DEF FinishSends
<1>4. CASE \E e \in Executions : Confirm(e)
  BY <1>4 DEF Confirm
<1>5. CASE \E e \in Executions : ConfirmChunks(e)
  BY <1>5 DEF ConfirmChunks
<1> QED
  BY <1>1, <1>2, <1>3, <1>4, <1>5 DEF World

LEMMA WorldKeepsInv ==
    ASSUME ReconciliationInv, World
    PROVE  ReconciliationInv'
<1> USE DEF ReconciliationInv
<1>1. UNCHANGED <<pc, readVars, target, tableVars>>
  BY WorldGrows
<1>2. args' = args /\ asked' = asked /\ seen' = seen
  BY <1>1 DEF readVars
<1>3. recorded' = recorded /\ successor' = successor
  BY <1>1 DEF tableVars
<1>4. TypeOK'
  BY <1>1, <1>2, <1>3, WorldGrows DEF TypeOK
<1>5. Progress'
  <2>1. ASSUME NEW c \in Commands, Loads(args[c])
        PROVE  Loads(args[c])'
    <3>1. args[c].execution \in Executions
      BY CommandLineFacts DEF TypeOK
    <3> QED
      BY <1>2, <2>1, <3>1, WorldGrows DEF Loads
  <2> QED
    BY <1>1, <1>2, <1>3, <2>1, WorldGrows DEF Progress, CommandProgress
<1>6. EvidenceSound'
  BY <1>2, WorldGrows DEF EvidenceSound, Asked
<1>7. EvidenceNewer'
  BY <1>2, <1>3 DEF EvidenceNewer, Asked
<1>8. Locks'
  BY <1>1, <1>2, <1>3, LockKept DEF Locks, CommandLocks
<1>9. HistoryIsChain' /\ EvidenceMovesOn'
  BY <1>2, <1>3, ChainKept
<1> QED
  BY <1>4, <1>5, <1>6, <1>7, <1>8, <1>9

-----------------------------------------------------------------------------
(* A command starts, and asks the wallet.                                  *)

LEMMA LaunchKeepsInv ==
    ASSUME ReconciliationInv, NEW c \in Commands, NEW a \in CommandLine, Launch(c, a)
    PROVE  ReconciliationInv'
<1> USE DEF ReconciliationInv
<1>1. /\ pc[c] = "idle" /\ recorded[c] = "none" /\ asked[c] = 0 /\ seen[c] = {}
      /\ a.file.receives \subseteq received
      /\ a.supersede # NoCommand => recorded[a.supersede] # "none"
  BY DEF Launch, Progress, CommandProgress
<1>2. /\ UNCHANGED <<worldVars, asked, seen, target, tableVars>>
      /\ args' = [args EXCEPT ![c] = a]
      /\ pc' = [pc EXCEPT ![c] = IF Loads(a) THEN "reading" ELSE "ended"]
  BY DEF Launch
<1>3. /\ status' = status /\ chunksDone' = chunksDone /\ mined' = mined
      /\ received' = received /\ recorded' = recorded /\ successor' = successor
      /\ asked' = asked /\ seen' = seen /\ target' = target
  BY <1>2 DEF worldVars, tableVars
<1>4. /\ args'[c] = a /\ pc'[c] = IF Loads(a) THEN "reading" ELSE "ended"
      /\ \A d \in Commands \ {c} : args'[d] = args[d] /\ pc'[d] = pc[d]
  BY <1>2 DEF TypeOK
<1>5. Loads(a) => 0 < Len(Sources(a))
  BY CommandLineFacts, SourcesFacts DEF Loads, Progress
<1>6. TypeOK'
  <2>1. args' \in [Commands -> CommandLine] /\ pc' \in [Commands ->
              {"idle", "reading", "querying", "locking", "inserting",
               "replacing", "recorded", "ended"}]
    BY <1>2 DEF TypeOK
  <2>2. \A d \in Commands \ {c} : asked'[d] <= Len(Sources(args'[d]))
    BY <1>3, <1>4 DEF TypeOK
  <2>3. asked'[c] <= Len(Sources(args'[c]))
    <3>1. Len(Sources(a)) \in Nat /\ asked'[c] = 0 /\ args'[c] = a
      BY <1>1, <1>3, <1>4, SourcesFacts
    <3> QED
      BY <3>1
  <2> QED
    BY <1>3, <2>1, <2>2, <2>3 DEF TypeOK
<1>7. Progress'
  <2>1. CommandProgress(c)'
    BY <1>1, <1>3, <1>4, <1>5 DEF CommandProgress, Loads, Decided
  <2>2. ASSUME NEW d \in Commands \ {c}
        PROVE  CommandProgress(d)'
    BY <1>3, <1>4 DEF Progress, CommandProgress, Loads
  <2> QED
    BY <1>3, <2>1, <2>2 DEF Progress
<1>8. EvidenceSound'
  BY <1>1, <1>3, <1>4 DEF EvidenceSound, Asked
<1>9. EvidenceNewer'
  BY <1>1, <1>3, <1>4 DEF EvidenceNewer, Asked
<1>10. Locks'
  <2>1. CommandLocks(c)'
    BY <1>4 DEF CommandLocks
  <2>2. ASSUME NEW d \in Commands \ {c}
        PROVE  CommandLocks(d)'
    <3>1. CommandLocks(d)
      BY DEF Locks
    <3>2. pc[d] \in {"locking", "replacing"} => target[d] \in Commands \ {c}
      BY <1>1, <3>1 DEF CommandLocks
    <3>3. \A w \in Commands : pc'[w] = "replacing" => pc[w] = "replacing"
      BY <1>4
    <3> QED
      BY <1>3, <1>4, <3>1, <3>2, <3>3, LockKept DEF CommandLocks
  <2> QED
    BY <2>1, <2>2 DEF Locks
<1>11. HistoryIsChain' /\ EvidenceMovesOn'
  BY <1>1, <1>3, <1>4, ChainKept
<1> QED
  BY <1>6, <1>7, <1>8, <1>9, <1>10, <1>11

LEMMA ReadSourceKeepsInv ==
    ASSUME ReconciliationInv, NEW c \in Commands, ReadSource(c)
    PROVE  ReconciliationInv'
<1> DEFINE S == Sources(args[c])
           t == S[asked[c] + 1]
<1> USE DEF ReconciliationInv
<1>1. /\ pc[c] = "reading" /\ recorded[c] = "none" /\ asked[c] < Len(S)
      /\ Loads(args[c])
  BY DEF ReadSource, Progress, CommandProgress
<1>2. /\ UNCHANGED <<worldVars, args, target, tableVars>>
      /\ asked' = [asked EXCEPT ![c] = asked[c] + 1]
      /\ seen' = [seen EXCEPT ![c] = IF t \in mined THEN seen[c] \cup {t} ELSE seen[c]]
      /\ pc' = [pc EXCEPT ![c] = IF asked[c] + 1 = Len(S) THEN "querying" ELSE "reading"]
  BY DEF ReadSource
<1>3. /\ status' = status /\ chunksDone' = chunksDone /\ mined' = mined
      /\ received' = received /\ recorded' = recorded /\ successor' = successor
      /\ args' = args /\ target' = target
  BY <1>2 DEF worldVars, tableVars
<1>4. /\ asked'[c] = asked[c] + 1
      /\ seen'[c] = IF t \in mined THEN seen[c] \cup {t} ELSE seen[c]
      /\ pc'[c] = IF asked[c] + 1 = Len(S) THEN "querying" ELSE "reading"
      /\ \A d \in Commands \ {c} :
            asked'[d] = asked[d] /\ seen'[d] = seen[d] /\ pc'[d] = pc[d]
  BY <1>2 DEF TypeOK
<1>5. asked[c] \in Nat /\ Len(S) \in Nat /\ asked[c] + 1 \in 1 .. Len(S) /\ t \in Txs
  <2>1. args[c] \in CommandLine /\ asked[c] \in Nat
    BY DEF TypeOK
  <2>2. Len(S) \in Nat /\ \A i \in 1 .. Len(S) : S[i] \in Txs
    BY <2>1, SourcesFacts
  <2> QED
    BY <1>1, <2>1, <2>2
<1> HIDE DEF t
<1>6. Asked(c)' = Asked(c) \cup {t}
  <2>1. 1 .. asked[c] + 1 = (1 .. asked[c]) \cup {asked[c] + 1}
    BY <1>5
  <2> QED
    BY <1>3, <1>4, <2>1 DEF Asked, t
<1>7. TypeOK'
  <2>1. asked' \in [Commands -> Nat] /\ seen' \in [Commands -> SUBSET Txs]
    BY <1>2, <1>5 DEF TypeOK
  <2>2. pc' \in [Commands -> {"idle", "reading", "querying", "locking", "inserting",
                              "replacing", "recorded", "ended"}]
    BY <1>2 DEF TypeOK
  <2>3. \A d \in Commands \ {c} : asked'[d] <= Len(Sources(args'[d]))
    BY <1>3, <1>4 DEF TypeOK
  <2>4. asked'[c] <= Len(Sources(args'[c]))
    BY <1>3, <1>4, <1>5
  <2> QED
    BY <1>3, <2>1, <2>2, <2>3, <2>4 DEF TypeOK
<1>8. Progress'
  <2>1. CommandProgress(c)'
    BY <1>1, <1>3, <1>4, <1>5 DEF CommandProgress, Loads, Decided
  <2>2. ASSUME NEW d \in Commands \ {c}
        PROVE  CommandProgress(d)'
    BY <1>3, <1>4 DEF Progress, CommandProgress, Loads
  <2> QED
    BY <1>3, <2>1, <2>2 DEF Progress
<1>9. \A d \in Commands \ {c} : Asked(d)' = Asked(d)
  BY <1>3, <1>4 DEF Asked
<1>10. EvidenceSound'
  BY <1>3, <1>4, <1>6, <1>9 DEF EvidenceSound
<1>11. EvidenceNewer'
  <2>1. ASSUME NEW d \in Commands, args[d].supersede # NoCommand
        PROVE  seen'[args[d].supersede] \cap Asked(d)' \subseteq seen'[d]
    <3> DEFINE r == args[d].supersede
    <3>1. r \in Commands \ {c} /\ recorded[r] # "none"
      BY <1>1, <2>1, CommandLineFacts DEF EvidenceNewer, TypeOK
    <3>2. seen'[r] = seen[r] /\ seen[r] \subseteq mined
      BY <1>4, <3>1 DEF EvidenceSound
    <3>3. seen[r] \cap Asked(d) \subseteq seen[d]
      BY <2>1 DEF EvidenceNewer
    <3>4. CASE d = c
      BY <1>4, <1>6, <3>2, <3>3, <3>4
    <3>5. CASE d # c
      BY <1>4, <1>9, <3>2, <3>3, <3>5
    <3> QED
      BY <3>4, <3>5
  <2> QED
    BY <1>3, <2>1 DEF EvidenceNewer
<1>12. Locks'
  <2>1. CommandLocks(c)'
    BY <1>4 DEF CommandLocks
  <2>2. ASSUME NEW d \in Commands \ {c}
        PROVE  CommandLocks(d)'
    <3>1. CommandLocks(d)
      BY DEF Locks
    <3>2. pc[d] \in {"locking", "replacing"} => target[d] \in Commands \ {c}
      BY <1>1, <3>1 DEF CommandLocks
    <3>3. \A w \in Commands : pc'[w] = "replacing" => pc[w] = "replacing"
      BY <1>4
    <3> QED
      BY <1>3, <1>4, <3>1, <3>2, <3>3, LockKept DEF CommandLocks
  <2> QED
    BY <2>1, <2>2 DEF Locks
<1>13. HistoryIsChain' /\ EvidenceMovesOn'
  BY <1>1, <1>3, <1>4, ChainKept
<1> QED
  BY <1>7, <1>8, <1>10, <1>11, <1>12, <1>13

-----------------------------------------------------------------------------
(* A command moves on without writing.                                     *)

\* The command that moves holds what it has to hold where it goes.
LEMMA MoveKeepsInv ==
    ASSUME ReconciliationInv, NEW c \in Commands,
           NEW p \in {"inserting", "locking", "replacing", "ended"},
           pc[c] \notin {"idle", "recorded"},
           p # "ended" => pc[c] \in Decided,
           pc' = [pc EXCEPT ![c] = p],
           target' \in [Commands -> Commands \cup {NoCommand}],
           \A d \in Commands \ {c} : target'[d] = target[d],
           p \in {"locking", "replacing"} =>
               /\ target'[c] \in Commands
               /\ recorded[target'[c]] # "none" /\ SameSubject(target'[c], c),
           p = "replacing" =>
               /\ recorded[target'[c]] = "current" /\ args[c].supersede = target'[c]
               /\ ~ Matched(target'[c])
               /\ ~ \E d \in Commands : pc[d] = "replacing" /\ target[d] = target'[c],
           UNCHANGED <<worldVars, readVars, tableVars>>
    PROVE  ReconciliationInv'
<1> USE DEF ReconciliationInv
<1>1. /\ status' = status /\ chunksDone' = chunksDone /\ mined' = mined
      /\ received' = received /\ recorded' = recorded /\ successor' = successor
      /\ args' = args /\ asked' = asked /\ seen' = seen
  BY DEF worldVars, readVars, tableVars
<1>2. pc'[c] = p /\ \A d \in Commands \ {c} : pc'[d] = pc[d]
  BY DEF TypeOK
<1>3. TypeOK'
  <2>1. pc' \in [Commands -> {"idle", "reading", "querying", "locking", "inserting",
                              "replacing", "recorded", "ended"}]
    BY DEF TypeOK
  <2> QED
    BY <1>1, <2>1 DEF TypeOK
<1>4. Progress'
  BY <1>1, <1>2 DEF Progress, CommandProgress, Loads, Decided
<1>5. EvidenceSound'
  BY <1>1 DEF EvidenceSound, Asked
<1>6. EvidenceNewer'
  BY <1>1 DEF EvidenceNewer, Asked
<1>7. Locks'
  <2>1. CommandLocks(c)'
    <3>1. p \in {"locking", "replacing"} => SameSubject(target[c], c)'
      BY <1>1 DEF SameSubject
    <3>2. p = "replacing" => ~ Matched(target[c])'
      BY <1>1 DEF Matched, ReconciliationStatus
    <3>3. p = "replacing" =>
             \A d \in Commands : pc'[d] = "replacing" /\ target'[d] = target'[c] => d = c
      BY <1>2
    <3> QED
      BY <1>1, <1>2, <3>1, <3>2, <3>3 DEF CommandLocks
  <2>2. ASSUME NEW d \in Commands \ {c}
        PROVE  CommandLocks(d)'
    <3>1. CommandLocks(d)
      BY DEF Locks
    <3>2. pc[d] = "replacing" =>
             \A w \in Commands : pc'[w] = "replacing" /\ target'[w] = target[d] => w = d
      BY <1>2, <3>1 DEF CommandLocks
    <3> QED
      BY <1>1, <1>2, <3>1, <3>2, LockKept DEF CommandLocks
  <2> QED
    BY <2>1, <2>2 DEF Locks
<1>8. HistoryIsChain' /\ EvidenceMovesOn'
  BY <1>1, ChainKept
<1> QED
  BY <1>3, <1>4, <1>5, <1>6, <1>7, <1>8

LEMMA QueryKeepsInv ==
    ASSUME ReconciliationInv, NEW c \in Commands, QueryCurrent(c)
    PROVE  ReconciliationInv'
<1> USE DEF ReconciliationInv
<1>1. pc[c] = "querying" /\ UNCHANGED <<worldVars, readVars, tableVars>>
      /\ target \in [Commands -> Commands \cup {NoCommand}]
  BY DEF QueryCurrent, TypeOK
<1>2. CASE pc' = [pc EXCEPT ![c] = "inserting"] /\ target' = target
  BY <1>1, <1>2, MoveKeepsInv DEF Decided
<1>3. CASE pc' = [pc EXCEPT ![c] = "ended"] /\ target' = target
  BY <1>1, <1>3, MoveKeepsInv DEF Decided
<1>4. CASE /\ \E r \in Current(c) : target' = [target EXCEPT ![c] = r]
           /\ pc' = [pc EXCEPT ![c] = "locking"]
  <2>1. PICK r \in Current(c) : target' = [target EXCEPT ![c] = r]
    BY <1>4
  <2>2. r \in Commands /\ recorded[r] = "current" /\ SameSubject(r, c)
    BY DEF Current
  <2>3. /\ target' \in [Commands -> Commands \cup {NoCommand}] /\ target'[c] = r
        /\ \A d \in Commands \ {c} : target'[d] = target[d]
    BY <1>1, <2>1, <2>2
  <2> QED
    BY <1>1, <1>4, <2>2, <2>3, MoveKeepsInv DEF Decided
<1> QED
  BY <1>2, <1>3, <1>4 DEF QueryCurrent, Ends

LEMMA LockKeepsInv ==
    ASSUME ReconciliationInv, NEW c \in Commands, LockCurrent(c)
    PROVE  ReconciliationInv'
<1> USE DEF ReconciliationInv
<1>1. /\ pc[c] = "locking" /\ target' = target
      /\ target \in [Commands -> Commands \cup {NoCommand}]
      /\ UNCHANGED <<worldVars, readVars, tableVars>>
  BY DEF LockCurrent, TypeOK
<1>2. CASE pc' = [pc EXCEPT ![c] = "inserting"]
  BY <1>1, <1>2, MoveKeepsInv DEF Decided
<1>3. CASE pc' = [pc EXCEPT ![c] = "ended"]
  BY <1>1, <1>3, MoveKeepsInv DEF Decided
<1>4. CASE /\ recorded[target[c]] = "current" /\ SupersedeRequested(c)
           /\ pc' = [pc EXCEPT ![c] = "replacing"]
  <2>1. ~ \E d \in Commands : pc[d] = "replacing" /\ target[d] = target'[c]
    BY <1>1 DEF LockCurrent, RowLocked
  <2>2. target[c] \in Commands /\ SameSubject(target[c], c)
    BY <1>1 DEF Locks, CommandLocks
  <2>3. args[c].supersede = target[c] /\ ~ Matched(target[c])
    BY <1>4 DEF SupersedeRequested, AllowsSupersede
  <2> QED
    BY <1>1, <1>4, <2>1, <2>2, <2>3, MoveKeepsInv DEF Decided
<1> QED
  BY <1>2, <1>3, <1>4 DEF LockCurrent, Ends

\* A command that ends early, and a replacement that is rolled back.
LEMMA EndingKeepsInv ==
    ASSUME ReconciliationInv, NEW c \in Commands, Abort(c) \/ ReplaceFails(c)
    PROVE  ReconciliationInv'
<1>1. /\ pc[c] \notin {"idle", "recorded"} /\ pc' = [pc EXCEPT ![c] = "ended"]
      /\ target' = target /\ UNCHANGED <<worldVars, readVars, tableVars>>
  BY DEF Abort, ReplaceFails, Ends
<1>2. target \in [Commands -> Commands \cup {NoCommand}]
  BY DEF ReconciliationInv, TypeOK
<1> QED
  BY <1>1, <1>2, MoveKeepsInv

-----------------------------------------------------------------------------
(* A reconciliation is written.                                            *)

\* What holds whatever becomes of the reconciliation that is replaced, if the
\* command that writes held no lock on what others hold.
LEMMA WriteKeepsRest ==
    ASSUME ReconciliationInv, NEW c \in Commands,
           pc[c] \in {"inserting", "replacing"},
           pc' = [pc EXCEPT ![c] = "recorded"],
           recorded' \in [Commands -> {"none", "current", "superseded"}],
           successor' \in [Commands -> Commands \cup {NoCommand}],
           recorded'[c] = "current",
           \A r \in Commands \ {c} :
               \/ recorded'[r] = recorded[r]
               \/ pc[c] = "replacing" /\ r = target[c] /\ recorded'[r] = "superseded",
           UNCHANGED <<worldVars, readVars, target>>
    PROVE  TypeOK' /\ Progress' /\ EvidenceSound' /\ EvidenceNewer' /\ Locks'
<1> USE DEF ReconciliationInv
<1>1. /\ status' = status /\ chunksDone' = chunksDone /\ mined' = mined
      /\ received' = received /\ args' = args /\ asked' = asked /\ seen' = seen
      /\ target' = target
  BY DEF worldVars, readVars
<1>2. pc'[c] = "recorded" /\ \A d \in Commands \ {c} : pc'[d] = pc[d]
  BY DEF TypeOK
<1>3. recorded[c] = "none" /\ CommandLocks(c)
  BY DEF Progress, CommandProgress, Locks
<1>4. \A r \in Commands : recorded[r] # "none" => recorded'[r] # "none" /\ r # c
  BY <1>3
<1>5. TypeOK'
  <2>1. pc' \in [Commands -> {"idle", "reading", "querying", "locking", "inserting",
                              "replacing", "recorded", "ended"}]
    BY DEF TypeOK
  <2> QED
    BY <1>1, <2>1 DEF TypeOK
<1>6. Progress'
  <2>1. CommandProgress(c)'
    BY <1>1, <1>2 DEF Progress, CommandProgress, Loads, Decided
  <2>2. ASSUME NEW d \in Commands \ {c}
        PROVE  CommandProgress(d)'
    <3>1. recorded'[d] # "none" <=> recorded[d] # "none"
      BY <1>3 DEF CommandLocks
    <3> QED
      BY <1>1, <1>2, <3>1 DEF Progress, CommandProgress, Loads
  <2> QED
    BY <1>1, <2>1, <2>2 DEF Progress
<1>7. EvidenceSound'
  BY <1>1 DEF EvidenceSound, Asked
<1>8. EvidenceNewer'
  <2>1. ASSUME NEW d \in Commands, args[d].supersede # NoCommand
        PROVE  recorded'[args[d].supersede] # "none"
    BY <1>4, <2>1, CommandLineFacts DEF EvidenceNewer, TypeOK
  <2> QED
    BY <1>1, <2>1 DEF EvidenceNewer, Asked
<1>9. Locks'
  <2>1. CommandLocks(c)'
    BY <1>2 DEF CommandLocks
  <2>2. ASSUME NEW d \in Commands \ {c}
        PROVE  CommandLocks(d)'
    <3>1. CommandLocks(d)
      BY DEF Locks
    <3>2. pc[d] \in {"locking", "replacing"} => recorded'[target[d]] # "none"
      BY <1>4, <3>1 DEF CommandLocks
    <3>3. pc[d] = "replacing" => recorded'[target[d]] = "current"
      BY <1>3, <3>1 DEF CommandLocks
    <3>4. \A w \in Commands : pc'[w] = "replacing" => pc[w] = "replacing"
      BY <1>2
    <3> QED
      BY <1>1, <1>2, <3>1, <3>2, <3>3, <3>4, LockKept DEF CommandLocks
  <2> QED
    BY <2>1, <2>2 DEF Locks
<1> QED
  BY <1>5, <1>6, <1>7, <1>8, <1>9

LEMMA InsertKeepsInv ==
    ASSUME ReconciliationInv, NEW c \in Commands, Insert(c)
    PROVE  ReconciliationInv'
<1> USE DEF ReconciliationInv
<1>1. /\ pc[c] = "inserting" /\ target' = target /\ successor' = successor
      /\ UNCHANGED <<worldVars, readVars>>
      /\ target \in [Commands -> Commands \cup {NoCommand}]
      /\ recorded \in [Commands -> {"none", "current", "superseded"}]
      /\ successor \in [Commands -> Commands \cup {NoCommand}]
  BY DEF Insert, TypeOK
<1>2. CASE recorded' = recorded /\ pc' = [pc EXCEPT ![c] = "ended"]
  BY <1>1, <1>2, MoveKeepsInv DEF tableVars
<1>3. CASE /\ Current(c) = {}
           /\ recorded' = [recorded EXCEPT ![c] = "current"]
           /\ pc' = [pc EXCEPT ![c] = "recorded"]
  <2>1. /\ recorded' \in [Commands -> {"none", "current", "superseded"}]
        /\ recorded'[c] = "current"
        /\ \A r \in Commands \ {c} : recorded'[r] = recorded[r]
    BY <1>1, <1>3
  <2>2. TypeOK' /\ Progress' /\ EvidenceSound' /\ EvidenceNewer' /\ Locks'
    BY <1>1, <1>3, <2>1, WriteKeepsRest
  <2>3. recorded[c] = "none" /\ args' = args /\ seen' = seen
    BY <1>1 DEF Progress, CommandProgress, readVars
  <2>4. \A r \in Commands : recorded[r] = "current" => ~ SameSubject(r, c)
    BY <1>3 DEF Current
  <2>5. HistoryIsChain'
    <3>1. \A p, q \in Commands :
             recorded'[p] = "current" /\ recorded'[q] = "current" /\ SameSubject(p, q)'
             => p = q
      BY <2>1, <2>3, <2>4 DEF HistoryIsChain, SameSubject
    <3>2. ASSUME NEW p \in Commands, recorded'[p] # "none"
          PROVE  Current(p)' # {}
      <4>1. CASE p = c
        BY <2>1, <4>1 DEF Current, SameSubject
      <4>2. CASE p # c
        <5>1. PICK r \in Commands : recorded[r] = "current" /\ SameSubject(r, p)
          BY <2>1, <3>2, <4>2 DEF HistoryIsChain, Current
        <5>2. recorded'[r] = "current" /\ SameSubject(r, p)'
          BY <2>1, <2>3, <5>1 DEF SameSubject
        <5> QED
          BY <5>2 DEF Current
      <4> QED
        BY <4>1, <4>2
    <3>3. ASSUME NEW r \in Commands, recorded'[r] = "superseded"
          PROVE  /\ successor'[r] \in Commands
                 /\ recorded'[successor'[r]] # "none" /\ SameSubject(r, successor[r])'
                 /\ \A q \in Commands \ {r} :
                       recorded'[q] = "superseded" => successor'[q] # successor'[r]
      <4>1. r # c /\ recorded[r] = "superseded"
        BY <2>1, <3>3
      <4>2. /\ successor[r] \in Commands /\ recorded[successor[r]] # "none"
            /\ SameSubject(r, successor[r])
            /\ \A q \in Commands \ {r} :
                  recorded[q] = "superseded" => successor[q] # successor[r]
        BY <4>1 DEF HistoryIsChain
      <4>3. SameSubject(r, successor[r])'
        BY <1>1, <2>3, <4>2 DEF SameSubject
      <4>4. \A q \in Commands : recorded'[q] = "superseded" => recorded[q] = "superseded"
        BY <2>1
      <4> QED
        BY <1>1, <2>1, <4>2, <4>3, <4>4
    <3> QED
      BY <1>1, <3>1, <3>2, <3>3 DEF HistoryIsChain
  <2>6. EvidenceMovesOn'
    BY <1>1, <2>1, <2>3 DEF EvidenceMovesOn
  <2> QED
    BY <2>2, <2>5, <2>6
<1> QED
  BY <1>2, <1>3 DEF Insert, Ends

\* A command that replaces r has seen all that r had seen: it was told to
\* supersede r, which asked about the same transactions.
LEMMA ReplacementIsNewer ==
    ASSUME ReconciliationInv, NEW c \in Commands, pc[c] = "replacing"
    PROVE  seen[target[c]] \subseteq seen[c]
<1> DEFINE r == target[c]
<1> USE DEF ReconciliationInv
<1>1. /\ r \in Commands /\ recorded[r] = "current" /\ SameSubject(r, c)
      /\ args[c].supersede = r
  BY DEF Locks, CommandLocks
<1>2. pc[r] \in Decided /\ pc[c] \in Decided
  BY <1>1 DEF Progress, CommandProgress, Decided
<1>3. Sources(args[r]) = Sources(args[c])
  BY <1>1 DEF SameSubject, Sources
<1>4. asked[r] = asked[c]
  BY <1>1, <1>2, <1>3 DEF Progress, CommandProgress
<1>5. seen[r] \subseteq Asked(c)
  BY <1>1, <1>3, <1>4 DEF EvidenceSound, Asked
<1>6. seen[r] \cap Asked(c) \subseteq seen[c]
  BY <1>1, CommandsAssumption DEF EvidenceNewer
<1> QED
  BY <1>5, <1>6

LEMMA ReplaceKeepsInv ==
    ASSUME ReconciliationInv, NEW c \in Commands, Replace(c)
    PROVE  ReconciliationInv'
<1> DEFINE t == target[c]
<1> USE DEF ReconciliationInv
<1>1. /\ pc[c] = "replacing" /\ pc' = [pc EXCEPT ![c] = "recorded"]
      /\ recorded' = [recorded EXCEPT ![t] = "superseded", ![c] = "current"]
      /\ successor' = [successor EXCEPT ![t] = c]
      /\ UNCHANGED <<worldVars, readVars, target>>
      /\ recorded \in [Commands -> {"none", "current", "superseded"}]
      /\ successor \in [Commands -> Commands \cup {NoCommand}]
  BY DEF Replace, TypeOK
<1>2. t \in Commands /\ recorded[t] = "current" /\ SameSubject(t, c)
  BY <1>1 DEF Locks, CommandLocks
<1>3. recorded[c] = "none" /\ c # t
  BY <1>1, <1>2 DEF Progress, CommandProgress
<1>4. /\ recorded' \in [Commands -> {"none", "current", "superseded"}]
      /\ recorded'[c] = "current" /\ recorded'[t] = "superseded"
      /\ \A r \in Commands \ {c, t} : recorded'[r] = recorded[r]
      /\ successor' \in [Commands -> Commands \cup {NoCommand}]
      /\ successor'[t] = c
      /\ \A r \in Commands \ {t} : successor'[r] = successor[r]
  <2> HIDE DEF t
  <2> QED
    BY <1>1, <1>2, <1>3
<1>5. TypeOK' /\ Progress' /\ EvidenceSound' /\ EvidenceNewer' /\ Locks'
  BY <1>1, <1>4, WriteKeepsRest
<1>6. args' = args /\ seen' = seen
  BY <1>1 DEF readVars
<1>7. \A p, q \in Commands : SameSubject(p, q)' <=> SameSubject(p, q)
  BY <1>6 DEF SameSubject
<1>8. seen[t] \subseteq seen[c]
  BY <1>1, ReplacementIsNewer
<1> HIDE DEF t
<1>9. ASSUME NEW p \in Commands, NEW q \in Commands,
             recorded'[p] = "current", recorded'[q] = "current", SameSubject(p, q)
      PROVE  p = q
  <2>1. \A r \in Commands \ {c} : recorded'[r] = "current" => ~ SameSubject(r, c)
    BY <1>2, <1>4 DEF HistoryIsChain, SameSubject
  <2>2. CASE p = c \/ q = c
    BY <1>9, <2>1, <2>2 DEF SameSubject
  <2>3. CASE p # c /\ q # c
    BY <1>4, <1>9, <2>3 DEF HistoryIsChain
  <2> QED
    BY <2>2, <2>3
<1>10. ASSUME NEW p \in Commands, recorded'[p] # "none"
       PROVE  Current(p)' # {}
  <2>1. CASE SameSubject(c, p)
    BY <1>4, <1>7, <2>1 DEF Current
  <2>2. CASE ~ SameSubject(c, p)
    <3>1. p # c /\ recorded[p] # "none"
      BY <1>2, <1>4, <1>10, <2>2 DEF SameSubject
    <3>2. PICK r \in Commands : recorded[r] = "current" /\ SameSubject(r, p)
      BY <3>1 DEF HistoryIsChain, Current
    <3>3. r # c /\ r # t
      BY <1>2, <2>2, <3>2 DEF SameSubject
    <3> QED
      BY <1>4, <1>7, <3>2, <3>3 DEF Current
  <2> QED
    BY <2>1, <2>2
<1>11. ASSUME NEW r \in Commands, recorded'[r] = "superseded"
       PROVE  /\ successor'[r] \in Commands
              /\ recorded'[successor'[r]] # "none" /\ SameSubject(r, successor'[r])
              /\ \A q \in Commands \ {r} :
                    recorded'[q] = "superseded" => successor'[q] # successor'[r]
              /\ seen[r] \subseteq seen[successor'[r]]
  <2>1. \A q \in Commands \ {t} : recorded'[q] = "superseded" => recorded[q] = "superseded"
    BY <1>4
  <2>2. \A q \in Commands : recorded[q] = "superseded" =>
            successor[q] \in Commands \ {c} /\ recorded[successor[q]] # "none"
    BY <1>3 DEF HistoryIsChain
  <2>3. CASE r = t
    BY <1>2, <1>4, <1>8, <2>1, <2>2, <2>3
  <2>4. CASE r # t
    <3>1. recorded[r] = "superseded"
      BY <1>11, <2>1, <2>4
    <3>2. /\ successor[r] \in Commands \ {c} /\ recorded[successor[r]] # "none"
          /\ SameSubject(r, successor[r]) /\ seen[r] \subseteq seen[successor[r]]
      BY <2>2, <3>1 DEF HistoryIsChain, EvidenceMovesOn
    <3>3. \A q \in Commands \ {r, t} : recorded'[q] = "superseded" =>
              successor[q] # successor[r]
      BY <2>1, <3>1 DEF HistoryIsChain
    <3>4. recorded'[successor[r]] # "none"
      BY <1>4, <3>2
    <3> QED
      BY <1>4, <2>4, <3>2, <3>3, <3>4
  <2> QED
    BY <2>3, <2>4
<1>12. HistoryIsChain'
  <2>1. \A p, q \in Commands :
           recorded'[p] = "current" /\ recorded'[q] = "current" /\ SameSubject(p, q)' => p = q
    BY <1>7, <1>9
  <2>2. \A r \in Commands : recorded'[r] = "superseded" => SameSubject(r, successor[r])'
    BY <1>6, <1>11 DEF SameSubject
  <2> QED
    BY <1>10, <1>11, <2>1, <2>2 DEF HistoryIsChain
<1>13. EvidenceMovesOn'
  BY <1>6, <1>11 DEF EvidenceMovesOn
<1> QED
  BY <1>5, <1>12, <1>13

-----------------------------------------------------------------------------
(* The inductive invariant.                                                *)

\* The initial states satisfy it.
LEMMA InitInv == Init => ReconciliationInv
<1> SUFFICES ASSUME Init PROVE ReconciliationInv
  OBVIOUS
<1> USE DEF Init
<1>1. \A c \in Commands : /\ args[c] = NoArgs /\ pc[c] = "idle" /\ asked[c] = 0
                          /\ seen[c] = {} /\ recorded[c] = "none"
  OBVIOUS
<1>2. TypeOK
  <2>1. 0 <= Len(Sources(NoArgs))
    BY NoArgsFacts, SourcesFacts
  <2>2. args \in [Commands -> CommandLine]
    BY NoArgsFacts
  <2>3. \A c \in Commands : asked[c] <= Len(Sources(args[c]))
    BY <1>1, <2>1
  <2> QED
    BY <2>2, <2>3 DEF TypeOK
<1>3. Progress
  BY <1>1 DEF Progress, CommandProgress, Decided
<1>4. EvidenceSound /\ EvidenceNewer
  BY <1>1, NoArgsFacts DEF EvidenceSound, EvidenceNewer
<1>5. Locks
  BY <1>1 DEF Locks, CommandLocks
<1>6. HistoryIsChain /\ EvidenceMovesOn
  BY <1>1 DEF HistoryIsChain, EvidenceMovesOn
<1> QED
  BY <1>2, <1>3, <1>4, <1>5, <1>6 DEF ReconciliationInv

\* A step that changes nothing keeps it.
LEMMA StutterKeepsInv ==
    ASSUME ReconciliationInv, UNCHANGED vars
    PROVE  ReconciliationInv'
<1> USE DEF ReconciliationInv
<1>1. /\ status' = status /\ chunksDone' = chunksDone /\ mined' = mined
      /\ received' = received /\ args' = args /\ asked' = asked /\ seen' = seen
      /\ target' = target /\ pc' = pc /\ recorded' = recorded /\ successor' = successor
  BY DEF vars, worldVars, readVars, tableVars
<1>2. TypeOK' /\ Progress' /\ EvidenceSound' /\ EvidenceNewer'
  BY <1>1 DEF TypeOK, Progress, CommandProgress, Loads, EvidenceSound, EvidenceNewer, Asked
<1>3. Locks'
  BY <1>1, LockKept DEF Locks, CommandLocks
<1>4. HistoryIsChain' /\ EvidenceMovesOn'
  BY <1>1, ChainKept
<1> QED
  BY <1>2, <1>3, <1>4

\* Every step keeps it.
LEMMA NextKeepsInv == ReconciliationInv /\ [Next]_vars => ReconciliationInv'
<1> SUFFICES ASSUME ReconciliationInv, [Next]_vars PROVE ReconciliationInv'
  OBVIOUS
<1>1. CASE UNCHANGED vars
  BY <1>1, StutterKeepsInv
<1>2. CASE World
  BY <1>2, WorldKeepsInv
<1>3. ASSUME NEW c \in Commands, NEW a \in CommandLine, Launch(c, a)
      PROVE  ReconciliationInv'
  BY <1>3, LaunchKeepsInv
<1>4. ASSUME NEW c \in Commands, Step(c) \/ Abort(c)
      PROVE  ReconciliationInv'
  BY <1>4, ReadSourceKeepsInv, QueryKeepsInv, LockKeepsInv, InsertKeepsInv,
     ReplaceKeepsInv, EndingKeepsInv DEF Step
<1> QED
  BY <1>1, <1>2, <1>3, <1>4 DEF Next

\* ReconciliationInv is an invariant: by induction, from the lemmas on each step.
THEOREM ReconciliationInvariant == Spec => []ReconciliationInv
<1> QED
  BY InitInv, NextKeepsInv, PTL DEF Spec

-----------------------------------------------------------------------------
(* What a matched reconciliation means.                                    *)

LEMMA SingleMatched ==
    ASSUME NEW e \in Executions, NEW file, NEW confirmed, confirmed \subseteq mined,
           file.receives \subseteq received,
           SingleStatus(e, file, confirmed) = "matched"
    PROVE  Settled(Single, e)
<1> DEFINE L == Ledger[e].rows
           t == Ledger[e].txid
<1>1. /\ t \in confirmed
      /\ \A i \in DOMAIN L : RowMatches(e, file, i)
  BY DEF SingleStatus
<1>2. \A i \in DOMAIN L : /\ L[i].tx = t /\ t \in file.receives
                          /\ Paid[t].address = L[i].address
                          /\ Paid[t].amount = ComparisonAmount(L, i)
  BY <1>1 DEF RowMatches
<1>3. L # <<>> /\ L \in Seq(Line)
  BY LedgerAssumption
<1>4. 1 \in DOMAIN L
  BY <1>3, EmptySeq, LenProperties
<1>5. \A i \in DOMAIN L : Paid[t].address = L[1].address
  BY <1>2, <1>4
<1>6. Lines(Single, e) = L /\ \A i \in DOMAIN L : AmountDue(Single, e, i) = ComparisonAmount(L, i)
  BY DEF Lines, AmountDue
<1> QED
  BY <1>1, <1>2, <1>5, <1>6 DEF Settled

LEMMA ChunkedMatched ==
    ASSUME NEW e \in Executions, NEW file, NEW confirmed, confirmed \subseteq mined,
           file.receives \subseteq received,
           ChunkedStatus(e, file, confirmed) = "matched"
    PROVE  Settled(Chunked, e)
<1> DEFINE L == Ledger[e].chunks
<1>1. file.given /\ \A i \in DOMAIN L : ChunkMatches(e, file, confirmed, i)
  BY DEF ChunkedStatus
<1>2. \A i \in DOMAIN L : /\ L[i].tx \in confirmed /\ L[i].tx \in file.receives
                          /\ Paid[L[i].tx].address = L[1].address
                          /\ Paid[L[i].tx].amount = L[i].amount
  BY <1>1 DEF ChunkMatches
<1>3. Lines(Chunked, e) = L /\ \A i \in DOMAIN L : AmountDue(Chunked, e, i) = L[i].amount
  BY DEF Lines, AmountDue, Single, Chunked
<1> QED
  BY <1>2, <1>3 DEF Settled

\* A matched reconciliation: its execution is confirmed, with its chunks if it
\* is about them, and its lines are settled.
LEMMA MatchedFacts ==
    ASSUME ReconciliationInv, NEW c \in Commands, recorded[c] # "none", Matched(c)
    PROVE  /\ Loads(args[c])
           /\ args[c].kind = Single \/ args[c].kind = Chunked
           /\ args[c].execution \in Executions
           /\ Settled(args[c].kind, args[c].execution)
<1> USE DEF ReconciliationInv
<1>1. pc[c] = "recorded" /\ Loads(args[c])
  BY DEF Progress, CommandProgress
<1>2. args[c].kind \in {Single, Chunked} /\ args[c].execution \in Executions
  BY CommandLineFacts DEF TypeOK
<1>3. seen[c] \subseteq mined /\ args[c].file.receives \subseteq received
  BY DEF EvidenceSound
<1>4. CASE args[c].kind = Single
  BY <1>1, <1>2, <1>3, <1>4, SingleMatched DEF Matched, ReconciliationStatus
<1>5. CASE args[c].kind = Chunked
  <2>1. ChunkedStatus(args[c].execution, args[c].file, seen[c]) = "matched"
    BY <1>5 DEF Matched, ReconciliationStatus, Single, Chunked
  <2> QED
    BY <1>1, <1>2, <1>3, <1>5, <2>1, ChunkedMatched
<1> QED
  BY <1>2, <1>4, <1>5

\* A step that supersedes a reconciliation is the replacement of one that did
\* not match.
LEMMA MatchedStays ==
    ASSUME ReconciliationInv, [Next]_vars, NEW c \in Commands,
           recorded[c] = "current", Matched(c)
    PROVE  recorded'[c] = "current"
<1>1. ASSUME NEW d \in Commands, Insert(d) PROVE recorded'[c] = "current"
  BY <1>1 DEF Insert, ReconciliationInv, TypeOK
<1>2. ASSUME NEW d \in Commands, Replace(d) PROVE recorded'[c] = "current"
  <2>1. /\ pc[d] = "replacing"
        /\ recorded' = [recorded EXCEPT ![target[d]] = "superseded", ![d] = "current"]
    BY <1>2 DEF Replace
  <2>2. ~ Matched(target[d])
    BY <2>1 DEF ReconciliationInv, Locks, CommandLocks
  <2>3. c # target[d]
    BY <2>2
  <2> QED
    BY <2>1, <2>3 DEF ReconciliationInv, TypeOK
<1>3. CASE recorded' = recorded
  BY <1>3
<1>4. CASE World
  BY <1>4, WorldGrows DEF tableVars, ReconciliationInv
<1>5. ASSUME NEW d \in Commands, (\E a \in CommandLine : Launch(d, a)) \/ Step(d) \/ Abort(d)
      PROVE  recorded'[c] = "current"
  BY <1>1, <1>2, <1>3, <1>5 DEF Launch, Step, ReadSource, QueryCurrent, LockCurrent,
     ReplaceFails, Abort, tableVars
<1> QED
  BY <1>3, <1>4, <1>5 DEF Next, vars, tableVars

-----------------------------------------------------------------------------
(* The theorems.                                                           *)

\* The tables and the commands' local state keep their types (migrations 012,
\* 014 and 015), and no command asks the wallet about more than its transactions.
THEOREM ReconciliationTypes == Spec => []TypeOK
<1>1. ReconciliationInv => TypeOK
  BY DEF ReconciliationInv
<1> QED
  BY <1>1, ReconciliationInvariant, PTL

\* However many record commands race, the reconciliations of an execution form
\* a chain with one current end.
THEOREM Chain == Spec => []HistoryIsChain
<1>1. ReconciliationInv => HistoryIsChain
  BY DEF ReconciliationInv
<1> QED
  BY <1>1, ReconciliationInvariant, PTL

\* No reconciliation is superseded by one that rests on older evidence.
THEOREM EvidenceGrows == Spec => []EvidenceMovesOn
<1>1. ReconciliationInv => EvidenceMovesOn
  BY DEF ReconciliationInv
<1> QED
  BY <1>1, ReconciliationInvariant, PTL

\* What is recorded as matched was paid in full and received.
THEOREM MatchedWasPaid == Spec => []MatchedIsTrue
<1>1. ReconciliationInv => MatchedIsTrue
  BY MatchedFacts DEF MatchedIsTrue, Loads
<1> QED
  BY <1>1, ReconciliationInvariant, PTL

\* No step supersedes a matched reconciliation.
THEOREM MatchedStaysCurrent == Spec => MatchedIsFinal
<1> DEFINE Keeps == \A c \in Commands :
              recorded[c] = "current" /\ Matched(c) => recorded'[c] = "current"
<1>1. ReconciliationInv /\ [Next]_vars => [Keeps]_vars
  BY MatchedStays
<1>2. MatchedIsFinal <=> [][Keeps]_vars
  BY PTL DEF MatchedIsFinal
<1> QED
  BY <1>1, <1>2, ReconciliationInvariant, PTL DEF Spec

\* What the record commands keep of the reconciliations, together.
THEOREM History == Spec => []HistorySound
  BY ReconciliationTypes, Chain, EvidenceGrows, PTL DEF HistorySound

-----------------------------------------------------------------------------
(* The readers of the reconciliations.                                     *)

\* What a reader has found: a reconciliation of its execution, which is still
\* current if it matched, and which closes the cycle if the verdict is CLOSED.
FoundRight(R) ==
    /\ R.pc # "idle" => R.execution \in Executions
    /\ R.pc \in {"idle", "chunks", "reconciliation"} => R.found = NoCommand
    /\ R.found # NoCommand =>
          /\ recorded[R.found] # "none"
          /\ args[R.found].execution = R.execution
          /\ Matched(R.found) => recorded[R.found] = "current"
    /\ R.verdict = "CLOSED" =>
          /\ R.pc = "done"
          /\ Closes(R.execution, R.found) /\ Matched(R.found)
          /\ CountsAligned(R.execution, R.found)

ReadersInv ==
    /\ ReconciliationInv
    /\ ReaderTypeOK
    /\ \A v \in Readers : FoundRight(reader[v])

-----------------------------------------------------------------------------
(* What a recorded reconciliation keeps.                                   *)

LEMMA RecordedStays ==
    ASSUME ReconciliationInv, [Next]_vars, NEW r \in Commands, recorded[r] # "none"
    PROVE  recorded'[r] # "none" /\ args'[r] = args[r] /\ seen'[r] = seen[r]
<1> USE DEF ReconciliationInv
<1>1. pc[r] = "recorded"
  BY DEF Progress, CommandProgress
<1>2. CASE UNCHANGED vars \/ World
  <2>1. UNCHANGED <<readVars, tableVars>>
    BY <1>2, WorldGrows DEF vars
  <2> QED
    BY <2>1 DEF readVars, tableVars
<1>3. ASSUME NEW c \in Commands, NEW a \in CommandLine, Launch(c, a)
      PROVE  recorded'[r] # "none" /\ args'[r] = args[r] /\ seen'[r] = seen[r]
  BY <1>1, <1>3 DEF Launch, tableVars, TypeOK
<1>4. ASSUME NEW c \in Commands, ReadSource(c)
      PROVE  recorded'[r] # "none" /\ args'[r] = args[r] /\ seen'[r] = seen[r]
  BY <1>1, <1>4 DEF ReadSource, tableVars, TypeOK
<1>5. ASSUME NEW c \in Commands,
             QueryCurrent(c) \/ LockCurrent(c) \/ ReplaceFails(c) \/ Abort(c)
      PROVE  recorded'[r] # "none" /\ args'[r] = args[r] /\ seen'[r] = seen[r]
  BY <1>5 DEF QueryCurrent, LockCurrent, ReplaceFails, Abort, tableVars, readVars
<1>6. ASSUME NEW c \in Commands, Insert(c) \/ Replace(c)
      PROVE  recorded'[r] # "none" /\ args'[r] = args[r] /\ seen'[r] = seen[r]
  BY <1>6 DEF Insert, Replace, readVars, TypeOK
<1> QED
  BY <1>2, <1>3, <1>4, <1>5, <1>6 DEF Next, Step

\* The current reconciliation of a kind is one of that kind and execution.
LEMMA CurrentOfFacts ==
    ASSUME NEW e, NEW kind
    PROVE  \/ CurrentOf(e, kind) = NoCommand
           \/ /\ CurrentOf(e, kind) \in Commands
              /\ recorded[CurrentOf(e, kind)] = "current"
              /\ args[CurrentOf(e, kind)].kind = kind
              /\ args[CurrentOf(e, kind)].execution = e
<1> DEFINE S == {r \in Commands : /\ recorded[r] = "current"
                                  /\ args[r].kind = kind /\ args[r].execution = e}
<1>1. CurrentOf(e, kind) = IF S = {} THEN NoCommand ELSE CHOOSE r \in S : TRUE
  BY DEF CurrentOf
<1>2. S # {} => (CHOOSE r \in S : TRUE) \in S
  OBVIOUS
<1> QED
  BY <1>1, <1>2

\* There is one such reconciliation at most, and the report finds it.
LEMMA CurrentIsFound ==
    ASSUME ReconciliationInv, NEW r \in Commands, recorded[r] = "current"
    PROVE  CurrentOf(args[r].execution, args[r].kind) = r
<1> DEFINE q == CurrentOf(args[r].execution, args[r].kind)
           S == {p \in Commands : /\ recorded[p] = "current" /\ args[p].kind = args[r].kind
                                  /\ args[p].execution = args[r].execution}
<1>1. r \in S
  OBVIOUS
<1>2. \A p \in S : p = r
  BY DEF ReconciliationInv, HistoryIsChain, SameSubject
<1>3. (CHOOSE p \in S : TRUE) \in S
  BY <1>1
<1>4. q = CHOOSE p \in S : TRUE
  BY <1>1 DEF CurrentOf
<1> QED
  BY <1>2, <1>3, <1>4

-----------------------------------------------------------------------------
(* The inductive invariant.                                                *)

LEMMA ReadinessTyped ==
    ASSUME NEW e, NEW st, NEW chunks, NEW r
    PROVE  Readiness(e, st, chunks, r) \in {"CLOSED", "READY", "NEEDS_EVIDENCE", "HALT"}
BY DEF Readiness

\* Nothing is reported CLOSED without a matched reconciliation that closes it.
LEMMA ClosedNeeds ==
    ASSUME NEW e, NEW st, NEW chunks, NEW r, Readiness(e, st, chunks, r) = "CLOSED"
    PROVE  Closes(e, r) /\ Matched(r) /\ CountsAligned(e, r)
BY DEF Readiness, Halts, Closes

\* A step of the commands leaves a reader right about what it found.
LEMMA FoundStays ==
    ASSUME ReconciliationInv, [Next]_vars, NEW R \in Reader, FoundRight(R)
    PROVE  FoundRight(R)'
<1> DEFINE r == R.found
<1>1. r \in Commands \cup {NoCommand}
  BY DEF Reader
<1>2. CASE r = NoCommand
  BY <1>2 DEF FoundRight, Closes
<1>3. CASE r # NoCommand
  <2>1. r \in Commands /\ recorded[r] # "none"
    BY <1>1, <1>3 DEF FoundRight
  <2>2. recorded'[r] # "none" /\ args'[r] = args[r] /\ seen'[r] = seen[r]
    BY <2>1, RecordedStays
  <2>3. Matched(r)' <=> Matched(r)
    BY <2>2, MatchedKept
  <2>4. Matched(r) => recorded'[r] = "current"
    BY <1>3, <2>1, MatchedStays DEF FoundRight
  <2>5. /\ Closes(R.execution, r)' <=> Closes(R.execution, r)
        /\ CountsAligned(R.execution, r)' <=> CountsAligned(R.execution, r)
    BY <2>2 DEF Closes, CountsAligned
  <2> QED
    BY <1>3, <2>2, <2>3, <2>4, <2>5 DEF FoundRight
<1> QED
  BY <1>2, <1>3

\* A read leaves the reader right about what it found.
LEMMA ReadKeepsInv ==
    ASSUME ReadersInv, NEW v \in Readers, Read(v)
    PROVE  ReadersInv'
<1> DEFINE R == reader[v]
<1>1. UNCHANGED vars
  BY DEF Read, ReadExecution, ReadChunks, ReadReconciliation, ReadSingle
<1>2. /\ status' = status /\ chunksDone' = chunksDone /\ mined' = mined
      /\ received' = received /\ args' = args /\ asked' = asked /\ seen' = seen
      /\ target' = target /\ pc' = pc /\ recorded' = recorded /\ successor' = successor
  BY <1>1 DEF vars, worldVars, readVars, tableVars
<1>3. ReconciliationInv'
  BY <1>1, StutterKeepsInv DEF ReadersInv
<1>4. R \in Reader /\ FoundRight(R) /\ reader \in [Readers -> Reader]
  BY DEF ReadersInv, ReaderTypeOK
<1>5. ASSUME NEW N \in Reader, reader' = [reader EXCEPT ![v] = N], FoundRight(N)
      PROVE  ReadersInv'
  <2>1. ReaderTypeOK'
    BY <1>4, <1>5 DEF ReaderTypeOK
  <2>2. \A u \in Readers : FoundRight(reader'[u])
    BY <1>4, <1>5 DEF ReadersInv
  <2>3. \A u \in Readers : FoundRight(reader[u])'
    BY <1>2, <2>2 DEF FoundRight, Closes, CountsAligned, Matched, ReconciliationStatus
  <2> QED
    BY <1>3, <2>1, <2>3 DEF ReadersInv
<1> HIDE DEF R
\* Whatever it finds and says, it stays right.
<1>6. ASSUME NEW N \in Reader, N.execution = R.execution, R.pc # "idle",
             N.pc \notin {"idle", "chunks"},
             N.pc = "reconciliation" => N.found = NoCommand,
             N.found # NoCommand /\ N.found # R.found =>
                 /\ N.found \in Commands /\ recorded[N.found] = "current"
                 /\ args[N.found].execution = R.execution,
             N.verdict = "CLOSED" =>
                 /\ N.pc = "done"
                 /\ Closes(R.execution, N.found) /\ Matched(N.found)
                 /\ CountsAligned(R.execution, N.found)
      PROVE  FoundRight(N)
  BY <1>4, <1>6 DEF FoundRight
<1>7. ASSUME NEW e \in Executions, ReadExecution(v, e) PROVE ReadersInv'
  <2> DEFINE N == [R EXCEPT !.pc = "chunks", !.execution = e, !.status = status[e]]
  <2>1. reader' = [reader EXCEPT ![v] = N] /\ R.pc = "idle"
    BY <1>7 DEF ReadExecution, Goes, R
  <2>2. status[e] \in {"none", "draft", "sent", "confirmed", "refused", "partial_sent"}
    BY <1>7 DEF ReadersInv, ReconciliationInv, TypeOK
  <2>3. /\ N \in Reader /\ N.pc = "chunks" /\ N.execution = e
        /\ N.found = R.found /\ N.verdict = R.verdict
    BY <1>4, <2>2 DEF Reader
  <2> HIDE DEF N
  <2>4. FoundRight(N)
    BY <1>4, <2>1, <2>3 DEF FoundRight
  <2> QED
    BY <1>5, <2>1, <2>3, <2>4
<1>8. CASE ReadChunks(v)
  <2> DEFINE N == [R EXCEPT !.pc = "reconciliation", !.chunks = ChunkState(R.execution)]
  <2>1. reader' = [reader EXCEPT ![v] = N] /\ R.pc = "chunks"
    BY <1>8 DEF ReadChunks, Goes, R
  <2>2. ChunkState(R.execution) \in {"none", "sent", "confirmed", "refused"}
    BY DEF ChunkState
  <2>3. /\ N \in Reader /\ N.pc = "reconciliation" /\ N.execution = R.execution
        /\ N.found = R.found /\ N.verdict = R.verdict
    BY <1>4, <2>2 DEF Reader
  <2> HIDE DEF N
  <2>4. FoundRight(N)
    BY <1>4, <2>1, <2>3 DEF FoundRight
  <2> QED
    BY <1>5, <2>1, <2>3, <2>4
<1>9. CASE ReadReconciliation(v)
  <2> DEFINE f == CurrentOf(R.execution, Chunked)
             N == [R EXCEPT !.pc = "single", !.found = f]
  <2>1. reader' = [reader EXCEPT ![v] = N] /\ R.pc = "reconciliation"
    BY <1>9 DEF ReadReconciliation, Goes, R
  <2>2. /\ f \in Commands \cup {NoCommand}
        /\ f # NoCommand => recorded[f] = "current" /\ args[f].execution = R.execution
    BY CurrentOfFacts
  <2> HIDE DEF f
  <2>3. /\ N \in Reader /\ N.pc = "single" /\ N.execution = R.execution
        /\ N.found = f /\ N.verdict = R.verdict
    BY <1>4, <2>2 DEF Reader
  <2> HIDE DEF N
  <2>4. R.verdict # "CLOSED"
    BY <1>4, <2>1 DEF FoundRight
  <2>5. FoundRight(N)
    BY <1>6, <2>1, <2>2, <2>3, <2>4
  <2> QED
    BY <1>5, <2>1, <2>3, <2>5
<1>10. CASE ReadSingle(v)
  <2> DEFINE f == IF R.found # NoCommand THEN R.found ELSE CurrentOf(R.execution, Single)
             w == Readiness(R.execution, R.status, R.chunks, f)
             N == [R EXCEPT !.pc = "done", !.found = f, !.verdict = w]
  <2>1. reader' = [reader EXCEPT ![v] = N] /\ R.pc = "single"
    BY <1>10 DEF ReadSingle, Goes, R
  <2>2. R.found \in Commands \cup {NoCommand}
    BY <1>4 DEF Reader
  <2>3. /\ f \in Commands \cup {NoCommand}
        /\ f # NoCommand /\ f # R.found =>
              recorded[f] = "current" /\ args[f].execution = R.execution
    BY <2>2, CurrentOfFacts
  <2> HIDE DEF f
  <2>4. /\ w \in {"none", "CLOSED", "READY", "NEEDS_EVIDENCE", "HALT"}
        /\ w = "CLOSED" =>
              Closes(R.execution, f) /\ Matched(f) /\ CountsAligned(R.execution, f)
    BY ReadinessTyped, ClosedNeeds
  <2> HIDE DEF w
  <2>5. /\ N \in Reader /\ N.pc = "done" /\ N.execution = R.execution
        /\ N.found = f /\ N.verdict = w
    BY <1>4, <2>3, <2>4 DEF Reader
  <2> HIDE DEF N
  <2>6. FoundRight(N)
    BY <1>6, <2>1, <2>3, <2>4, <2>5
  <2> QED
    BY <1>5, <2>1, <2>5, <2>6
<1> QED
  BY <1>7, <1>8, <1>9, <1>10 DEF Read

LEMMA ReadinessStepKeepsInv ==
    ReadersInv /\ [ReadinessNext]_<<vars, reader>> => ReadersInv'
<1> SUFFICES ASSUME ReadersInv, [ReadinessNext]_<<vars, reader>> PROVE ReadersInv'
  OBVIOUS
<1>1. CASE [Next]_vars /\ reader' = reader
  <2>1. ReconciliationInv'
    BY <1>1, NextKeepsInv DEF ReadersInv
  <2>2. \A v \in Readers : reader[v] \in Reader /\ FoundRight(reader[v])
    BY DEF ReadersInv, ReaderTypeOK
  <2>3. \A v \in Readers : FoundRight(reader[v])'
    <3> SUFFICES ASSUME NEW v \in Readers PROVE FoundRight(reader[v])'
      OBVIOUS
    <3>1. ReconciliationInv /\ reader[v] \in Reader /\ FoundRight(reader[v])
      BY <2>2 DEF ReadersInv
    <3>2. \A R \in Reader : FoundRight(R) => FoundRight(R)'
      BY <1>1, <3>1, FoundStays
    <3> QED
      BY <1>1, <3>1, <3>2 DEF FoundRight
  <2> QED
    BY <1>1, <2>1, <2>3 DEF ReadersInv, ReaderTypeOK
<1>2. ASSUME NEW v \in Readers, Read(v) PROVE ReadersInv'
  BY <1>2, ReadKeepsInv
<1> QED
  BY <1>1, <1>2 DEF ReadinessNext

\* ReadersInv is an invariant: by induction, from the lemmas on each step.
THEOREM ReadersInvariant == ReadinessSpec => []ReadersInv
<1>1. ReadinessInit => ReadersInv
  <2> SUFFICES ASSUME ReadinessInit PROVE ReadersInv
    OBVIOUS
  <2>1. ReconciliationInv
    BY InitInv DEF ReadinessInit
  <2> QED
    BY <2>1 DEF ReadinessInit, ReadersInv, ReaderTypeOK, Reader, FoundRight
<1> QED
  BY <1>1, ReadinessStepKeepsInv, PTL DEF ReadinessSpec

-----------------------------------------------------------------------------
(* The theorems.                                                           *)

\* The verdict on a confirmed execution whose current reconciliation is one
\* that matched and closes it, with counts that align.
LEMMA ClosedNow ==
    ASSUME ReadersInv, NEW v \in Readers, reader[v].verdict = "CLOSED"
    PROVE  ReadinessNow(reader[v].execution) = "CLOSED"
<1> DEFINE e == reader[v].execution
           r == reader[v].found
<1> USE DEF ReadersInv
<1>1. FoundRight(reader[v]) /\ reader[v] \in Reader
  BY DEF ReaderTypeOK
<1>2. /\ Closes(e, r) /\ Matched(r) /\ CountsAligned(e, r) /\ e \in Executions
  BY <1>1 DEF FoundRight
<1>3. r \in Commands /\ recorded[r] = "current" /\ args[r].execution = e
  BY <1>1, <1>2 DEF FoundRight, Closes, Reader
<1>4. /\ status[e] = "confirmed"
      /\ args[r].kind = Chunked => e \in chunksDone
      /\ args[r].kind = Single \/ args[r].kind = Chunked
  BY <1>2, <1>3, MatchedFacts DEF Loads
<1> HIDE DEF e, r
<1>5. FoundNow(e) = r
  <2>1. CASE args[r].kind = Chunked
    <3>1. CurrentOf(e, Chunked) = r
      BY <1>3, <2>1, CurrentIsFound
    <3> QED
      BY <1>3, <3>1, CommandsAssumption DEF FoundNow
  <2>2. CASE args[r].kind = Single
    <3>1. ~ IsChunked(e)
      BY <1>2, <2>2 DEF Closes, Single, Chunked
    <3>2. CurrentOf(e, Chunked) = NoCommand
      <4> DEFINE q == CurrentOf(e, Chunked)
      <4>1. SUFFICES ASSUME q # NoCommand PROVE FALSE
        OBVIOUS
      <4>2. q \in Commands /\ recorded[q] = "current" /\ args[q].kind = Chunked
            /\ args[q].execution = e
        BY <4>1, CurrentOfFacts
      <4> HIDE DEF q
      <4>3. e \in chunksDone
        BY <4>2 DEF ReconciliationInv, Progress, CommandProgress, Loads
      <4> QED
        BY <3>1, <4>3 DEF ReconciliationInv, Progress
    <3>3. CurrentOf(e, Single) = r
      BY <1>3, <2>2, CurrentIsFound
    <3> QED
      BY <3>2, <3>3 DEF FoundNow
  <2> QED
    BY <1>4, <2>1, <2>2
<1>6. ~ BadChunks(status[e], ChunkState(e))
  <2>1. IsChunked(e) => e \in chunksDone
    BY <1>2, <1>4 DEF Closes
  <2>2. ChunkState(e) \in {"none", "confirmed"}
    BY <2>1 DEF ChunkState
  <2> QED
    BY <2>2 DEF BadChunks
<1>7. ~ Halts(status[e], ChunkState(e), r)
  BY <1>2, <1>4, <1>6 DEF Halts
<1>8. Readiness(e, status[e], ChunkState(e), r) = "CLOSED"
  BY <1>2, <1>4, <1>7 DEF Readiness
<1> QED
  BY <1>5, <1>8 DEF ReadinessNow, e

\* A reader keeps its types: what it reads of the tables is what they can hold.
THEOREM ReadinessTypes == ReadinessSpec => []ReaderTypeOK
<1>1. ReadersInv => ReaderTypeOK
  BY DEF ReadersInv
<1> QED
  BY <1>1, ReadersInvariant, PTL

\* A cycle reported CLOSED was paid and received in full.
THEOREM ClosedWasPaid == ReadinessSpec => []ClosedIsPaid
<1>1. ASSUME ReadersInv, NEW v \in Readers, reader[v].verdict = "CLOSED"
      PROVE  LET e == reader[v].execution
             IN  Settled(IF IsChunked(e) THEN Chunked ELSE Single, e)
  <2> DEFINE e == reader[v].execution
             r == reader[v].found
  <2>1. FoundRight(reader[v]) /\ reader[v] \in Reader
    BY <1>1 DEF ReadersInv, ReaderTypeOK
  <2>2. Closes(e, r) /\ Matched(r)
    BY <1>1, <2>1 DEF FoundRight
  <2>3. r \in Commands /\ recorded[r] = "current" /\ args[r].execution = e
    BY <2>1, <2>2 DEF FoundRight, Closes, Reader
  <2>4. Settled(args[r].kind, e) /\ (args[r].kind = Single \/ args[r].kind = Chunked)
    BY <1>1, <2>2, <2>3, MatchedFacts DEF ReadersInv
  <2> QED
    BY <2>2, <2>4 DEF Closes, Single, Chunked
<1>2. ReadersInv => ClosedIsPaid
  BY <1>1 DEF ClosedIsPaid
<1> QED
  BY <1>2, ReadersInvariant, PTL

\* A cycle reported CLOSED stays CLOSED.
THEOREM ClosedStaysClosed == ReadinessSpec => []ClosedIsForGood
<1>1. ReadersInv => ClosedIsForGood
  BY ClosedNow DEF ClosedIsForGood
<1> QED
  BY <1>1, ReadersInvariant, PTL

\* What a report has read is well-formed, and what it calls CLOSED was paid.
THEOREM Reports == ReadinessSpec => []ReportSound
  BY ReadinessTypes, ClosedWasPaid, PTL DEF ReportSound
=============================================================================
