----------------------------- MODULE Reconciliation -----------------------------
(***************************************************************************)
(* Reconciliation of confirmed production executions: the record commands  *)
(* of the single and the chunked reconciliation script.                    *)
(*                                                                         *)
(* A command is one invocation of record. It loads a confirmed execution,  *)
(* asks the source wallet about its transactions, compares them and an     *)
(* optional export of the receiving wallet with the ledger, and records    *)
(* the result. It records at most one reconciliation, which bears its name *)
(* and whose columns are functions of what the command was given and saw.  *)
(* The chunked script may supersede an earlier reconciliation, in one      *)
(* transaction. Executions, the chain and the receiving wallet are the     *)
(* environment.                                                            *)
(***************************************************************************)
EXTENDS Integers, Sequences, FiniteSets, FiniteSetsExt

CONSTANTS
    Commands, NoCommand,    \* record invocations, and reconciliations
    Executions,
    Txs,                    \* wallet transactions
    Ledger,                 \* execution -> its header txid, total, rows, chunks
    Paid,                   \* transaction -> the address and amount it pays
    WalletQuant,            \* database amount units per wallet amount unit
    Exports                 \* receiver files an operator may pass

Single == "single"
Chunked == "chunked"

\* An execution row or chunk: the transaction, address and amount recorded.
Line == [tx : Txs, address : STRING, amount : Nat]

\* A receiver file, if one is given: the transactions whose first entry is one
\* of receiving, and those it lists in another category (spent, with a negative
\* amount). Later entries of a transaction are not looked at.
Export == [given : BOOLEAN, receives : SUBSET Txs, sends : SUBSET Txs]

ASSUME LedgerAssumption ==
    /\ Ledger \in [Executions -> [txid : Txs, planned : Nat,
                                  rows : Seq(Line), chunks : Seq(Line)]]
    /\ \A e \in Executions : Ledger[e].rows # <<>>

ASSUME PaidAssumption ==
    /\ Paid \in [Txs -> [address : STRING, amount : Nat]]
    /\ WalletQuant \in Nat \ {0}
    /\ \A t \in Txs : Paid[t].amount % WalletQuant = 0

NoFile == [given |-> FALSE, receives |-> {}, sends |-> {}]

\* The file is optional.
ASSUME ExportsAssumption ==
    /\ Exports \subseteq Export /\ NoFile \in Exports
    /\ \A file \in Exports : file.receives \cap file.sends = {}

ASSUME CommandsAssumption == NoCommand \notin Commands /\ Executions # {}

\* Only the chunked script can supersede: it takes the id and a reason.
CommandLine ==
    [kind : {Single}, execution : Executions, supersede : {NoCommand}, file : Exports]
    \cup
    [kind : {Chunked}, execution : Executions,
     supersede : Commands \cup {NoCommand}, file : Exports]

VARIABLES
    status,         \* execution -> sc_node_payout_production_executions.status
    chunksDone,     \* executions whose chunks are all confirmed
    mined,          \* transactions with at least one confirmation
    received,       \* transactions the receiving wallet lists
    pc,             \* where each command is in _cmd_record
    args,           \* command line of each command
    asked,          \* how many transactions it has asked the wallet about
    seen,           \* transactions the wallet told it are confirmed
    target,         \* the reconciliation it found current, and locks
    recorded,       \* its reconciliation: "none", "current", "superseded"
    successor       \* reconciliation -> superseded_by_reconciliation_id

worldVars == <<status, chunksDone, mined, received>>
readVars == <<args, asked, seen>>
tableVars == <<recorded, successor>>
vars == <<worldVars, pc, readVars, target, tableVars>>

IsChunked(e) == Ledger[e].chunks # <<>>

TxsOf(L) == {L[i].tx : i \in DOMAIN L}

Lines(kind, e) == IF kind = Single THEN Ledger[e].rows ELSE Ledger[e].chunks
LinesOf(a) == Lines(a.kind, a.execution)

\* The transactions gettransaction is asked about.
Sources(a) ==
    IF a.kind = Single THEN <<Ledger[a.execution].txid>>
    ELSE [i \in DOMAIN Ledger[a.execution].chunks |-> Ledger[a.execution].chunks[i].tx]

-----------------------------------------------------------------------------
(* The comparison.                                                         *)

SumLines(L, I) == MapThenSumSet(LAMBDA i : L[i].amount, I)

WalletAmount(x) == x - (x % WalletQuant)

Listed(file) == file.receives \cup file.sends

\* The execution rows that row i shares its transaction and address with.
Group(L, i) == {j \in DOMAIN L : L[j].tx = L[i].tx /\ L[j].address = L[i].address}

\* What the transfer has to be: the rounded total of several rows, or the
\* amount of one row as it stands.
ComparisonAmount(L, i) ==
    IF Group(L, i) # {i} THEN WalletAmount(SumLines(L, Group(L, i))) ELSE L[i].amount

\* Mutant: an entry of any category will do.
MutRowMatches(e, file, i) ==
    LET L == Ledger[e].rows
        t == Ledger[e].txid
    IN
    /\ L[i].tx = t
    /\ Paid[t].address = L[i].address
    /\ Paid[t].amount = ComparisonAmount(L, i)

\* _compare_row: the receiver entry is always that of the header transaction.
RowMatches(e, file, i) ==
    LET L == Ledger[e].rows
        t == Ledger[e].txid
    IN
    /\ L[i].tx = t
    /\ t \in file.receives
    /\ Paid[t].address = L[i].address
    /\ Paid[t].amount = ComparisonAmount(L, i)

\* compare_reconciliation.
SingleStatus(e, file, confirmed) ==
    LET t == Ledger[e].txid IN
    IF \/ t \notin confirmed
       \/ t \in Listed(file) /\ \E i \in DOMAIN Ledger[e].rows : ~ RowMatches(e, file, i)
    THEN "mismatch"
    ELSE IF t \in Listed(file) THEN "matched" ELSE "draft"

\* Mutant: a transaction without confirmations is good enough.
MutChunkMatches(e, file, confirmed, i) ==
    LET c == Ledger[e].chunks[i] IN
    /\ Paid[c.tx].amount = c.amount
    /\ file.given => /\ c.tx \in file.receives
                     /\ Paid[c.tx].address = Ledger[e].chunks[1].address

\* _compare_chunk.
ChunkMatches(e, file, confirmed, i) ==
    LET c == Ledger[e].chunks[i] IN
    /\ c.tx \in confirmed
    /\ Paid[c.tx].amount = c.amount
    /\ file.given => /\ c.tx \in file.receives
                     /\ Paid[c.tx].address = Ledger[e].chunks[1].address

\* build_chunked_reconciliation_preview.
ChunkedStatus(e, file, confirmed) ==
    LET L == Ledger[e].chunks IN
    IF \/ SumLines(L, DOMAIN L) # Ledger[e].planned
       \/ \E i \in DOMAIN L : ~ ChunkMatches(e, file, confirmed, i)
    THEN "mismatch"
    ELSE IF file.given THEN "matched" ELSE "source_only"

\* reconciliation_status of the preview, and of the row it becomes.
ReconciliationStatus(c) ==
    IF args[c].kind = Single
    THEN SingleStatus(args[c].execution, args[c].file, seen[c])
    ELSE ChunkedStatus(args[c].execution, args[c].file, seen[c])

Matched(c) == ReconciliationStatus(c) = "matched"

ListedLines(L, S) == {i \in DOMAIN L : L[i].tx \in S}

PaidTotal(T) == MapThenSumSet(LAMBDA t : Paid[t].amount, T)

\* The receiver columns of a chunked reconciliation.
ReceiverCount(a) == Cardinality(ListedLines(LinesOf(a), Listed(a.file)))
ReceiverTotal(a) ==
    PaidTotal(TxsOf(LinesOf(a)) \cap a.file.receives)
        - PaidTotal(TxsOf(LinesOf(a)) \cap a.file.sends)

\* preview_matches_existing_reconciliation and its chunked counterpart: the
\* columns that a second record of the same execution can differ in.
SameEvidence(c, r) ==
    LET a == args[c]
        b == args[r]
        t == Ledger[a.execution].txid
    IN
    /\ ReconciliationStatus(c) = ReconciliationStatus(r)
    /\ a.kind = Single => /\ t \in a.file.receives <=> t \in b.file.receives
                          /\ t \in a.file.sends <=> t \in b.file.sends
    /\ a.kind = Chunked => /\ a.file.given = b.file.given
                           /\ a.file.given => /\ ReceiverCount(a) = ReceiverCount(b)
                                              /\ ReceiverTotal(a) = ReceiverTotal(b)

-----------------------------------------------------------------------------
(* The record command.                                                     *)

\* Two commands about the same table and execution.
SameSubject(c, d) ==
    args[c].kind = args[d].kind /\ args[c].execution = args[d].execution

Current(c) == {r \in Commands : recorded[r] = "current" /\ SameSubject(r, c)}

Ends(c) == pc' = [pc EXCEPT ![c] = "ended"]

\* Only a confirmed execution is loaded, and only its confirmed chunks.
Loads(a) ==
    /\ status[a.execution] = "confirmed"
    /\ a.kind = Chunked => a.execution \in chunksDone

\* The receiver file was exported earlier from the receiving wallet, and a
\* reconciliation to supersede has been seen in the table.
Launch(c, a) ==
    /\ pc[c] = "idle"
    /\ a.file.receives \subseteq received
    /\ a.supersede # NoCommand => /\ recorded[a.supersede] # "none"
                                  /\ args[a.supersede].kind = Chunked
    /\ args' = [args EXCEPT ![c] = a]
    /\ pc' = [pc EXCEPT ![c] = IF Loads(a) THEN "reading" ELSE "ended"]
    /\ UNCHANGED <<worldVars, asked, seen, target, tableVars>>

\* One gettransaction call.
ReadSource(c) ==
    LET t == Sources(args[c])[asked[c] + 1] IN
    /\ pc[c] = "reading"
    /\ asked' = [asked EXCEPT ![c] = @ + 1]
    /\ seen' = [seen EXCEPT ![c] = IF t \in mined THEN @ \cup {t} ELSE @]
    /\ pc' = [pc EXCEPT ![c] = IF asked[c] + 1 = Len(Sources(args[c]))
                               THEN "querying" ELSE "reading"]
    /\ UNCHANGED <<worldVars, args, target, tableVars>>

\* The single script selects the reconciliation of this execution and header
\* transaction, and inserts in another transaction. The chunked script selects
\* FOR UPDATE: this is the moment its statement takes its snapshot.
QueryCurrent(c) ==
    /\ pc[c] = "querying"
    /\ \/ /\ Current(c) = {}
          /\ pc' = [pc EXCEPT ![c] = "inserting"]
          /\ UNCHANGED target
       \/ /\ Current(c) # {} /\ args[c].kind = Single
          /\ Ends(c)
          /\ UNCHANGED target
       \/ /\ args[c].kind = Chunked
          /\ \E r \in Current(c) : target' = [target EXCEPT ![c] = r]
          /\ pc' = [pc EXCEPT ![c] = "locking"]
    /\ UNCHANGED <<worldVars, readVars, tableVars>>

\* A command that has marked r superseded holds its row until it commits.
RowLocked(r) == \E d \in Commands : pc[d] = "replacing" /\ target[d] = r

\* Mutant: any reconciliation may be superseded.
MutAllowsSupersede(r) == TRUE

\* validate_reconciliation_allows_supersede; the UPDATE repeats it.
AllowsSupersede(r) == ~ Matched(r)

\* Mutant: the id on the command line is not compared.
MutSupersedeRequested(c) ==
    args[c].supersede # NoCommand /\ AllowsSupersede(target[c])

\* validate_chunked_reconciliation_supersede_request with an active row.
SupersedeRequested(c) ==
    args[c].supersede = target[c] /\ AllowsSupersede(target[c])

\* The row is locked once nobody else holds it. A row that was superseded in
\* the meantime no longer satisfies the WHERE clause, and its successor is not
\* in the snapshot: the query finds nothing.
LockCurrent(c) ==
    /\ pc[c] = "locking"
    /\ ~ RowLocked(target[c])
    /\ \/ /\ recorded[target[c]] = "superseded"
          /\ pc' = [pc EXCEPT ![c] = "inserting"]
       \/ /\ recorded[target[c]] = "current"
          /\ ~ SameEvidence(c, target[c]) /\ SupersedeRequested(c)
          /\ pc' = [pc EXCEPT ![c] = "replacing"]
       \/ /\ recorded[target[c]] = "current"
          /\ SameEvidence(c, target[c]) \/ ~ SupersedeRequested(c)
          /\ Ends(c)
    /\ UNCHANGED <<worldVars, readVars, target, tableVars>>

\* An open transaction that is replacing the current reconciliation.
Replacing(c) == \E d \in Commands : pc[d] = "replacing" /\ SameSubject(c, d)

\* Mutant: there is no unique index, the insert relies on the query.
MutInsert(c) ==
    /\ pc[c] = "inserting"
    /\ recorded' = [recorded EXCEPT ![c] = "current"]
    /\ pc' = [pc EXCEPT ![c] = "recorded"]
    /\ UNCHANGED <<worldVars, readVars, target, successor>>

\* Mutant: the insert waits for the current reconciliation to go away.
MutInsertWaits(c) ==
    /\ pc[c] = "inserting"
    /\ Current(c) = {}
    /\ recorded' = [recorded EXCEPT ![c] = "current"]
    /\ pc' = [pc EXCEPT ![c] = "recorded"]
    /\ UNCHANGED <<worldVars, readVars, target, successor>>

\* Insert and commit. The unique index makes the insert wait for a transaction
\* that is replacing the current row, and fail when there is a current row.
Insert(c) ==
    /\ pc[c] = "inserting"
    /\ ~ Replacing(c)
    /\ \/ /\ Current(c) = {}
          /\ recorded' = [recorded EXCEPT ![c] = "current"]
          /\ pc' = [pc EXCEPT ![c] = "recorded"]
       \/ /\ Current(c) # {}
          /\ Ends(c)
          /\ UNCHANGED recorded
    /\ UNCHANGED <<worldVars, readVars, target, successor>>

\* Insert the replacement, link the superseded row to it, commit.
Replace(c) ==
    /\ pc[c] = "replacing"
    /\ recorded' = [recorded EXCEPT ![target[c]] = "superseded", ![c] = "current"]
    /\ successor' = [successor EXCEPT ![target[c]] = c]
    /\ pc' = [pc EXCEPT ![c] = "recorded"]
    /\ UNCHANGED <<worldVars, readVars, target>>

\* The insert raises: the transaction, with its mark, is rolled back.
ReplaceFails(c) ==
    /\ pc[c] = "replacing"
    /\ Ends(c)
    /\ UNCHANGED <<worldVars, readVars, target, tableVars>>

\* The wallet command fails, the database does, or the process dies.
Abort(c) ==
    /\ pc[c] \in {"reading", "querying", "locking", "inserting"}
    /\ Ends(c)
    /\ UNCHANGED <<worldVars, readVars, target, tableVars>>

-----------------------------------------------------------------------------
(* The environment.                                                        *)

Broadcast(t) ==
    \E e \in Executions : /\ status[e] \in {"sent", "confirmed"}
                          /\ t \in TxsOf(Ledger[e].rows) \cup TxsOf(Ledger[e].chunks)

Mine(t) ==
    /\ t \notin mined /\ Broadcast(t)
    /\ mined' = mined \cup {t}
    /\ UNCHANGED <<status, chunksDone, received, pc, readVars, target, tableVars>>

Receive(t) ==
    /\ t \notin received /\ Broadcast(t)
    /\ received' = received \cup {t}
    /\ UNCHANGED <<status, chunksDone, mined, pc, readVars, target, tableVars>>

\* The send loop of the single executor ends.
FinishSends(e) ==
    /\ status[e] = "draft"
    /\ \E s \in {"sent", "refused"} : status' = [status EXCEPT ![e] = s]
    /\ UNCHANGED <<chunksDone, mined, received, pc, readVars, target, tableVars>>

\* mark-confirmed of the single executor: the header transaction is confirmed.
\* It takes chunked executions too, and leaves their chunks as they are.
Confirm(e) ==
    /\ status[e] = "sent"
    /\ Ledger[e].txid \in mined
    /\ status' = [status EXCEPT ![e] = "confirmed"]
    /\ UNCHANGED <<chunksDone, mined, received, pc, readVars, target, tableVars>>

\* mark-confirmed of the chunked executor: it does not ask the wallet.
ConfirmChunks(e) ==
    /\ status[e] = "sent" /\ IsChunked(e)
    /\ status' = [status EXCEPT ![e] = "confirmed"]
    /\ chunksDone' = chunksDone \cup {e}
    /\ UNCHANGED <<mined, received, pc, readVars, target, tableVars>>

-----------------------------------------------------------------------------

\* Stands for the command line of a command that has not been launched.
NoArgs == [kind |-> Single, execution |-> CHOOSE e \in Executions : TRUE,
           supersede |-> NoCommand, file |-> NoFile]

Init ==
    /\ status \in [Executions -> {"draft", "sent", "partial_sent"}]
    /\ \A e \in Executions : status[e] = "draft" <=> ~ IsChunked(e)
    /\ chunksDone = {} /\ mined = {} /\ received = {}
    /\ pc = [c \in Commands |-> "idle"]
    /\ args = [c \in Commands |-> NoArgs]
    /\ asked = [c \in Commands |-> 0]
    /\ seen = [c \in Commands |-> {}]
    /\ target = [c \in Commands |-> NoCommand]
    /\ recorded = [c \in Commands |-> "none"]
    /\ successor = [c \in Commands |-> NoCommand]

Step(c) ==
    \/ ReadSource(c) \/ QueryCurrent(c) \/ LockCurrent(c)
    \/ Insert(c) \/ Replace(c) \/ ReplaceFails(c)

World ==
    \/ \E t \in Txs : Mine(t) \/ Receive(t)
    \/ \E e \in Executions : FinishSends(e) \/ Confirm(e) \/ ConfirmChunks(e)

Next ==
    \/ World
    \/ \E c \in Commands : \/ \E a \in CommandLine : Launch(c, a)
                           \/ Step(c) \/ Abort(c)

Spec == Init /\ [][Next]_vars

\* A started command is scheduled, and the wallet and the database answer it.
FairSpec == Spec /\ \A c \in Commands : WF_vars(Step(c))

-----------------------------------------------------------------------------
(* Properties.                                                             *)

\* Types of the tables and of the commands' local state; what a command has
\* seen confirmed are transactions it asks about, as many as it has asked.
TypeOK ==
    /\ status \in [Executions -> {"draft", "sent", "confirmed", "refused", "partial_sent"}]
    /\ chunksDone \subseteq Executions
    /\ mined \subseteq Txs /\ received \subseteq Txs
    /\ pc \in [Commands -> {"idle", "reading", "querying", "locking", "inserting",
                             "replacing", "recorded", "ended"}]
    /\ args \in [Commands -> CommandLine]
    /\ asked \in [Commands -> Nat]
    /\ \A c \in Commands : asked[c] <= Len(Sources(args[c]))
    /\ seen \in [Commands -> SUBSET Txs]
    /\ target \in [Commands -> Commands \cup {NoCommand}]
    /\ recorded \in [Commands -> {"none", "current", "superseded"}]
    /\ successor \in [Commands -> Commands \cup {NoCommand}]

\* However many record commands of one execution race, the reconciliations they
\* leave form a chain: one is current, every superseded one is linked to the
\* reconciliation of the same execution that replaced it, and no two to the
\* same (migration 015, and the transaction of _cmd_record).
HistoryIsChain ==
    /\ \A c, d \in Commands :
          recorded[c] = "current" /\ recorded[d] = "current" /\ SameSubject(c, d) => c = d
    /\ \A c \in Commands : recorded[c] # "none" => Current(c) # {}
    /\ \A r \in Commands : recorded[r] = "superseded" =>
          /\ successor[r] \in Commands
          /\ recorded[successor[r]] # "none" /\ SameSubject(r, successor[r])
          /\ \A q \in Commands \ {r} : recorded[q] = "superseded" => successor[q] # successor[r]

\* A replacement never rests on older evidence than what it replaces: every
\* transaction that the superseded reconciliation saw confirmed, its successor
\* saw confirmed too. A command names the row it supersedes when it starts, so
\* it asked the wallet after that row was written.
EvidenceMovesOn ==
    \A r \in Commands : recorded[r] = "superseded" => seen[r] \subseteq seen[successor[r]]

\* The reconciliations are well-formed, and a chain of ever newer evidence.
HistorySound == TypeOK /\ HistoryIsChain /\ EvidenceMovesOn

\* What the transaction of a line has to pay: a chunk is paid by itself.
AmountDue(kind, e, i) ==
    IF kind = Single THEN ComparisonAmount(Ledger[e].rows, i) ELSE Ledger[e].chunks[i].amount

\* The lines of an execution are settled: the transaction of each is confirmed,
\* the receiving wallet has it, and it pays the one address what is due.
Settled(kind, e) ==
    LET L == Lines(kind, e) IN
    \A i \in DOMAIN L :
        /\ L[i].tx \in mined \cap received
        /\ Paid[L[i].tx].address = L[1].address
        /\ Paid[L[i].tx].amount = AmountDue(kind, e, i)

\* What is recorded as matched was paid, in full, and the execution is
\* confirmed, although mark-confirmed of the chunked executor asks no wallet and
\* the record command reads the execution and the wallet long before it writes.
MatchedIsTrue ==
    \A c \in Commands : recorded[c] # "none" /\ Matched(c) =>
        /\ status[args[c].execution] = "confirmed"
        /\ Settled(args[c].kind, args[c].execution)

\* A matched reconciliation is final: no step supersedes it.
MatchedIsFinal ==
    [][\A c \in Commands :
         recorded[c] = "current" /\ Matched(c) => recorded'[c] = "current"]_vars

\* No record command waits for another for ever.
CommandsEnd ==
    \A c \in Commands :
        pc[c] \notin {"idle", "ended", "recorded"} ~> pc[c] \in {"ended", "recorded"}
=============================================================================
