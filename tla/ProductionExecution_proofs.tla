--------------------- MODULE ProductionExecution_proofs ---------------------
(***************************************************************************)
(* The executors, proved for all plans, command lines and interleavings:   *)
(* a plan row is paid once per key by the single executor (SendInv), the   *)
(* records say what the wallet did and keep saying it (RecordInv), the     *)
(* executions of a key implement one payment order, a run started when its *)
(* plan has an active execution sends nothing (ActiveInv), what a run pays *)
(* adds up to its plan, and what it leaves of the balance is at least half *)
(* of what it read, but for the payments of other runs (BalanceSound).     *)
(***************************************************************************)
EXTENDS ProductionRefinement, Sums_proofs, TLAPS

\* Facts about the operators.

\* Rows are numbered from 1.
LEMMA RowIdsType == ASSUME NEW p \in Plans PROVE RowIds(p) \subseteq Nat
  BY PlanRowsAssumption DEF RowIds

\* What a run sends are pieces: of an address group, or of a row.
LEMMA PiecesType == ASSUME NEW a \in Invocations PROVE Pieces(a) \subseteq Piece
  <1>1. a.plan \in Plans /\ a.kind \in {Single, Chunked}
    BY InvocationsAssumption DEF CommandLine
  <1>2. RowIds(a.plan) \subseteq Nat
    BY <1>1, RowIdsType
  <1>3. GroupPieces(a.plan) \subseteq Piece
    BY <1>2 DEF GroupPieces, Piece
  <1>4. ChunkPieces(a.plan, a.chunk_amount) \subseteq Piece
    BY <1>2 DEF ChunkPieces, Piece
  <1> QED BY <1>3, <1>4 DEF Pieces

\* The address groups of a plan do not share rows.
LEMMA GroupsAreDisjoint ==
  ASSUME NEW p \in Plans, NEW c \in GroupPieces(p), NEW d \in GroupPieces(p),
         NEW n \in SameAddress(p, c.row), n \in SameAddress(p, d.row)
  PROVE  c = d
  <1>1. RowIds(p) \subseteq Nat
    BY RowIdsType
  <1>2. PICK i \in RowIds(p) : /\ c = [row |-> i, index |-> 1]
                               /\ \A m \in SameAddress(p, i) : i <= m
    BY DEF GroupPieces
  <1>3. PICK j \in RowIds(p) : /\ d = [row |-> j, index |-> 1]
                               /\ \A m \in SameAddress(p, j) : j <= m
    BY DEF GroupPieces
  <1>4. c.row = i /\ d.row = j
    BY <1>2, <1>3
  <1>5. PlanRows[p][i].address = PlanRows[p][j].address
    BY <1>4 DEF SameAddress
  <1>6. i \in SameAddress(p, j) /\ j \in SameAddress(p, i)
    BY <1>5 DEF SameAddress
  <1>7. i <= j /\ j <= i
    BY <1>2, <1>3, <1>6
  <1> QED BY <1>1, <1>2, <1>3, <1>7

\* A new record with all lines in one status.
LEMMA NewExecutionType ==
  ASSUME NEW a, NEW h \in ExecutionStatus, NEW x \in LineStatus, NEW y \in LineStatus
  PROVE  NewExecution(a, h, x, y) \in ExecutionType(a)
  BY DEF NewExecution, ExecutionType, Line, LineType

LEMMA NoExecutionType == ASSUME NEW a PROVE NoExecution(a) \in ExecutionType(a)
  BY NewExecutionType DEF NoExecution, ExecutionStatus, LineStatus

\* mark-confirmed keeps the type of an execution's lines.
LEMMA ConfirmSentLinesType ==
  ASSUME NEW S, NEW f \in [S -> LineType]
  PROVE  ConfirmSentLines(f) \in [S -> LineType]
  BY DEF ConfirmSentLines, Line, LineType, LineStatus

-----------------------------------------------------------------------------
(* Type correctness.                                                       *)

LEMMA InitType == Init => TypeOK
  <1> SUFFICES ASSUME Init PROVE TypeOK
    OBVIOUS
  <1>1. \A r \in Runs : NoExecution(args[r]) \in ExecutionType(args[r])
    BY NoExecutionType
  <1>2. executions = [r \in Runs |-> NoExecution(args[r])]
        /\ pending = [r \in Runs |-> NoExecution(args[r])]
    BY DEF Init
  <1>3. /\ DOMAIN executions = Runs
        /\ \A r \in Runs : executions[r] \in ExecutionType(args[r])
        /\ DOMAIN pending = Runs
        /\ \A r \in Runs : pending[r] \in ExecutionType(args[r])
    BY <1>1, <1>2
  <1>4. /\ ledger \in Seq([run : Runs, piece : Piece])
        /\ mined \subseteq Nat
        /\ inflight \in [Runs -> [piece : Piece, txid : Nat, first : Nat]]
        /\ failures \in Nat
    BY DEF Init, Piece
  <1>5. /\ planStatus \in [Plans -> {"approved", "cancelled"}]
        /\ drifted \subseteq Plans
        /\ args \in [Runs -> Invocations]
        /\ pc \in [Runs -> ControlState]
        /\ DOMAIN todo = Runs
        /\ \A r \in Runs : todo[r] \subseteq Pieces(args[r])
        /\ \A r \in Runs : pc[r] \notin {"recording", "failing"}
    BY DEF Init, ControlState
  <1>6. atStart \in [Runs -> [sent : Nat, active : BOOLEAN]]
    BY DEF Init
  <1> QED BY <1>3, <1>4, <1>5, <1>6 DEF TypeOK

LEMMA LaunchType ==
  ASSUME TypeOK, NEW r \in Runs, Launch(r) PROVE TypeOK'
  <1>1. Len(ledger) \in Nat /\ ActiveForPlan(r, ActiveFor(r)) \in BOOLEAN
    BY DEF TypeOK, ActiveForPlan
  <1> QED BY <1>1 DEF TypeOK, Launch, tables, wallet, ControlState

LEMMA LoadType ==
  ASSUME TypeOK, NEW r \in Runs, LoadAndDecide(r) \/ ChunkedLoadAndDecide(r)
  PROVE  TypeOK'
  <1>1. LoadedPieces(r) \subseteq Pieces(args[r])
    BY DEF LoadedPieces
  <1>2. /\ todo' = [todo EXCEPT ![r] = LoadedPieces(r)]
        /\ \E s \in {"done", "failed", "refusing", "inserting"} : pc' = [pc EXCEPT ![r] = s]
        /\ UNCHANGED <<planStatus, drifted, executions, ledger, mined, args,
                       atStart, inflight, pending, failures>>
    BY DEF LoadAndDecide, ChunkedLoadAndDecide, tables, wallet
  <1>3. DOMAIN todo' = Runs /\ \A q \in Runs : todo'[q] \subseteq Pieces(args[q])
    BY <1>1, <1>2 DEF TypeOK
  <1>4. pc' \in [Runs -> ControlState]
        /\ \A q \in Runs : pc'[q] \in {"recording", "failing"} =>
                              inflight[q].piece \in todo'[q]
    BY <1>2 DEF TypeOK, ControlState, Finished
  <1> QED BY <1>2, <1>3, <1>4 DEF TypeOK

\* Every action that only replaces r's committed execution and moves r's pc.
LEMMA ExecutionReplacedType ==
  ASSUME TypeOK, NEW r \in Runs, NEW x \in ExecutionType(args[r]),
         NEW s \in ControlState \ {"recording", "failing"},
         executions' = [executions EXCEPT ![r] = x],
         pc' = [pc EXCEPT ![r] = s] \/ pc' = pc,
         UNCHANGED <<planStatus, drifted, wallet, args, atStart, todo,
                     inflight, pending, failures>>
  PROVE  TypeOK'
  <1>1. DOMAIN executions' = Runs
        /\ \A q \in Runs : executions'[q] \in ExecutionType(args[q])
    BY DEF TypeOK
  <1>2. pc' \in [Runs -> ControlState]
        /\ \A q \in Runs : pc'[q] \in {"recording", "failing"} => pc'[q] = pc[q]
    BY DEF TypeOK
  <1> QED BY <1>1, <1>2 DEF TypeOK, wallet

LEMMA PieceOfRun ==
  ASSUME TypeOK, NEW r \in Runs, NEW c \in todo[r]
  PROVE  c \in Pieces(args[r]) /\ c \in Piece
  BY PiecesType DEF TypeOK

\* An action that starts or ends a wallet call: r's inflight piece is c.
LEMMA SendType ==
  ASSUME TypeOK, NEW r \in Runs,
         SendAccepted(r) \/ SendReplyLost(r) \/ SendRejected(r)
  PROVE  TypeOK'
  <1>1. PICK c \in todo[r], e \in [piece : Piece, txid : Nat, first : Nat] :
          /\ e.piece = c
          /\ inflight' = [inflight EXCEPT ![r] = e]
          /\ ledger' = ledger \/ ledger' = Append(ledger, [run |-> r, piece |-> c])
          /\ pc' = [pc EXCEPT ![r] = "recording"] \/ pc' = [pc EXCEPT ![r] = "failing"]
          /\ failures' = failures \/ failures' = failures + 1
          /\ UNCHANGED <<tables, mined, args, atStart, todo, pending>>
    <2>1. inflight \in [Runs -> [piece : Piece, txid : Nat, first : Nat]]
          /\ Len(ledger) \in Nat
          /\ \A c \in todo[r] : c \in Piece
      BY PieceOfRun DEF TypeOK
    <2>2. CASE SendAccepted(r)
      <3>1. PICK c \in todo[r] :
              /\ ledger' = Append(ledger, [run |-> r, piece |-> c])
              /\ inflight' = [inflight EXCEPT
                   ![r] = [piece |-> c, txid |-> Len(ledger) + 1,
                           first |-> IF @.first = 0 THEN Len(ledger) + 1 ELSE @.first]]
        BY <2>2 DEF SendAccepted
      <3> DEFINE e == [piece |-> c, txid |-> Len(ledger) + 1,
                       first |-> IF inflight[r].first = 0 THEN Len(ledger) + 1
                                 ELSE inflight[r].first]
      <3>2. e \in [piece : Piece, txid : Nat, first : Nat] /\ e.piece = c
        BY <2>1
      <3>3. inflight' = [inflight EXCEPT ![r] = e]
        BY <3>1
      <3>4. /\ pc' = [pc EXCEPT ![r] = "recording"]
            /\ UNCHANGED <<tables, mined, args, atStart, todo, pending, failures>>
        BY <2>2 DEF SendAccepted
      <3> HIDE DEF e
      <3> QED BY <3>1, <3>2, <3>3, <3>4
    <2>3. ASSUME NEW c \in todo[r],
                 inflight' = [inflight EXCEPT
                    ![r] = [piece |-> c, txid |-> 0, first |-> @.first]]
          PROVE  \E e \in [piece : Piece, txid : Nat, first : Nat] :
                    e.piece = c /\ inflight' = [inflight EXCEPT ![r] = e]
      <3> DEFINE e == [piece |-> c, txid |-> 0, first |-> inflight[r].first]
      <3>1. e \in [piece : Piece, txid : Nat, first : Nat] /\ e.piece = c
        BY <2>1
      <3>2. inflight' = [inflight EXCEPT ![r] = e]
        BY <2>3
      <3> HIDE DEF e
      <3> QED BY <3>1, <3>2
    <2>4. CASE SendReplyLost(r)
      BY <2>3, <2>4 DEF SendReplyLost
    <2>5. CASE SendRejected(r)
      <3>1. PICK c \in todo[r] :
              /\ inflight' = [inflight EXCEPT
                   ![r] = [piece |-> c, txid |-> 0, first |-> @.first]]
              /\ failures' = failures \/ failures' = failures + 1
        BY <2>5 DEF SendRejected
      <3>2. /\ pc' = [pc EXCEPT ![r] = "failing"]
            /\ UNCHANGED <<tables, ledger, mined, args, atStart, todo, pending>>
        BY <2>5 DEF SendRejected, wallet
      <3> QED BY <2>3, <3>1, <3>2
    <2> QED BY <2>2, <2>4, <2>5
  <1>2. c \in Piece /\ r \in Runs
    BY PieceOfRun
  <1>3. ledger' \in Seq([run : Runs, piece : Piece])
    <2> DEFINE entry == [run |-> r, piece |-> c]
               Entry == [run : Runs, piece : Piece]
    <2>1. entry \in Entry /\ ledger \in Seq(Entry)
      BY <1>2 DEF TypeOK
    <2>2. ledger' = ledger \/ ledger' = Append(ledger, entry)
      BY <1>1
    <2> HIDE DEF entry, Entry
    <2>3. ledger' \in Seq(Entry)
      BY <2>1, <2>2
    <2> QED BY <2>3 DEF Entry
  <1>4. inflight' \in [Runs -> [piece : Piece, txid : Nat, first : Nat]]
    BY <1>1, <1>2 DEF TypeOK
  <1>5. pc' \in [Runs -> ControlState]
        /\ \A q \in Runs : pc'[q] \in {"recording", "failing"} =>
                              inflight'[q].piece \in todo'[q]
    BY <1>1 DEF TypeOK, ControlState
  <1>6. failures' \in Nat
    BY <1>1 DEF TypeOK
  <1> QED BY <1>1, <1>3, <1>4, <1>5, <1>6 DEF TypeOK, tables

LEMMA CrashType == ASSUME TypeOK, NEW r \in Runs, Crash(r) PROVE TypeOK'
  <1>1. DOMAIN pending' = Runs
        /\ \A q \in Runs : pending'[q] \in ExecutionType(args[q])
    BY NoExecutionType DEF TypeOK, Crash
  <1>2. pc' \in [Runs -> ControlState]
        /\ \A q \in Runs : pc'[q] \in {"recording", "failing"} => pc'[q] = pc[q]
    BY DEF TypeOK, Crash, ControlState, Finished
  <1>3. failures' \in Nat
    BY DEF TypeOK, Crash
  <1> QED BY <1>1, <1>2, <1>3 DEF TypeOK, Crash, tables, wallet

LEMMA RecordRefusalType ==
  ASSUME TypeOK, NEW r \in Runs, RecordRefusal(r) PROVE TypeOK'
  <1> DEFINE x == NewExecution(args[r], "refused",
                               IF todo[r] = {} THEN "none" ELSE "refused", "none")
  <1>1. x \in ExecutionType(args[r])
    BY NewExecutionType DEF ExecutionStatus, LineStatus
  <1>2. CASE ExistingByKey(r)
    <2>1. pc' = [pc EXCEPT ![r] = "failed"] /\ UNCHANGED executions
      BY <1>2 DEF RecordRefusal
    <2> QED BY <2>1 DEF RecordRefusal, TypeOK, ControlState, Finished, wallet
  <1>3. CASE ~ ExistingByKey(r)
    <2>1. executions' = [executions EXCEPT ![r] = x] /\ pc' = [pc EXCEPT ![r] = "done"]
      BY <1>3 DEF RecordRefusal
    <2> QED BY <1>1, <2>1, ExecutionReplacedType
            DEF RecordRefusal, ControlState, Finished
  <1> QED BY <1>2, <1>3

\* Updates of one execution record keep its type.
LEMMA RowsUpdateType ==
  ASSUME NEW a, NEW x \in ExecutionType(a), NEW f \in [RowIds(a.plan) -> LineType]
  PROVE  [x EXCEPT !.rows = f] \in ExecutionType(a)
  BY DEF ExecutionType

LEMMA ChunksUpdateType ==
  ASSUME NEW a, NEW x \in ExecutionType(a), NEW g \in [ChunkIds(a) -> LineType]
  PROVE  [x EXCEPT !.chunks = g] \in ExecutionType(a)
  BY DEF ExecutionType

LEMMA StatusUpdateType ==
  ASSUME NEW a, NEW x \in ExecutionType(a), NEW h \in ExecutionStatus
  PROVE  /\ [x EXCEPT !.status = h] \in ExecutionType(a)
         /\ [x EXCEPT !.status = h].status = h
  BY DEF ExecutionType

LEMMA TxidUpdateType ==
  ASSUME NEW a, NEW x \in ExecutionType(a), NEW t \in Nat
  PROVE  [x EXCEPT !.txid = t] \in ExecutionType(a)
  BY DEF ExecutionType

\* The record that a run has, committed or in its transaction.
LEMMA RecordType ==
  ASSUME TypeOK, NEW r \in Runs
  PROVE  /\ executions[r] \in ExecutionType(args[r])
         /\ pending[r] \in ExecutionType(args[r])
         /\ executions[r].rows \in [RowIds(args[r].plan) -> LineType]
         /\ executions[r].chunks \in [ChunkIds(args[r]) -> LineType]
         /\ pending[r].rows \in [RowIds(args[r].plan) -> LineType]
         /\ pending[r].chunks \in [ChunkIds(args[r]) -> LineType]
         /\ inflight[r].piece \in Piece
         /\ inflight[r].txid \in Nat
         /\ inflight[r].first \in Nat
  BY DEF TypeOK, ExecutionType

LEMMA StatusSet ==
  ASSUME TypeOK, NEW r \in Runs, NEW h \in ExecutionStatus
  PROVE  /\ [executions[r] EXCEPT !.status = h] \in ExecutionType(args[r])
         /\ [executions[r] EXCEPT !.status = h].status = h
  <1>1. executions[r] \in ExecutionType(args[r])
    BY RecordType
  <1> QED BY <1>1, StatusUpdateType

LEMMA InsertDraftType ==
  ASSUME TypeOK, NEW r \in Runs, InsertDraft(r) PROVE TypeOK'
  <1> DEFINE x == NewExecution(args[r], "draft", "draft", "none")
  <1>1. x \in ExecutionType(args[r])
    BY NewExecutionType DEF ExecutionStatus, LineStatus
  <1>2. CASE ExistingByKey(r)
    <2>1. pc' = [pc EXCEPT ![r] = "failed"] /\ UNCHANGED executions
      BY <1>2 DEF InsertDraft
    <2> QED BY <2>1 DEF InsertDraft, TypeOK, ControlState, Finished, wallet
  <1>3. CASE ~ ExistingByKey(r)
    <2>1. executions' = [executions EXCEPT ![r] = x] /\ pc' = [pc EXCEPT ![r] = "sending"]
      BY <1>3 DEF InsertDraft
    <2> QED BY <1>1, <2>1, ExecutionReplacedType DEF InsertDraft, ControlState
  <1> QED BY <1>2, <1>3

LEMMA RecordRowsSentType ==
  ASSUME TypeOK, NEW r \in Runs, RecordRowsSent(r) PROVE TypeOK'
  <1> DEFINE sent == inflight[r].piece
             rows == executions[r].rows
             f == [n \in DOMAIN rows |->
                     IF n \in PieceRows(args[r], sent) /\ rows[n].status = "draft"
                     THEN Line("sent", inflight[r].txid) ELSE rows[n]]
             x == [executions[r] EXCEPT !.rows = f]
  <1>1. rows \in [RowIds(args[r].plan) -> LineType] /\ inflight[r].txid \in Nat
    BY RecordType
  <1>2. f \in [RowIds(args[r].plan) -> LineType]
    BY <1>1 DEF Line, LineType, LineStatus
  <1>3. x \in ExecutionType(args[r])
    <2> HIDE DEF f
    <2> QED BY <1>2, RecordType, RowsUpdateType
  <1>4. executions' = [executions EXCEPT ![r] = x]
    BY DEF RecordRowsSent
  <1>5. /\ todo' = [todo EXCEPT ![r] = todo[r] \ {sent}]
        /\ \E s \in {"finishing", "sending"} : pc' = [pc EXCEPT ![r] = s]
        /\ UNCHANGED <<planStatus, drifted, ledger, mined, args, atStart,
                       inflight, pending, failures>>
    BY DEF RecordRowsSent, wallet
  <1>6. DOMAIN executions' = Runs
        /\ \A q \in Runs : executions'[q] \in ExecutionType(args[q])
    BY <1>3, <1>4 DEF TypeOK
  <1>7. DOMAIN todo' = Runs /\ \A q \in Runs : todo'[q] \subseteq Pieces(args[q])
    BY <1>5 DEF TypeOK
  <1>8. pc' \in [Runs -> ControlState]
        /\ \A q \in Runs : pc'[q] \in {"recording", "failing"} =>
                              inflight[q].piece \in todo'[q]
    BY <1>5 DEF TypeOK, ControlState
  <1> QED BY <1>5, <1>6, <1>7, <1>8 DEF TypeOK

LEMMA MarkRefusedType ==
  ASSUME TypeOK, NEW r \in Runs, MarkRefused(r) PROVE TypeOK'
  <1> DEFINE rows == executions[r].rows
             f == [n \in DOMAIN rows |-> IF rows[n].status = "sent" THEN rows[n]
                                         ELSE Line("refused", 0)]
             y == [executions[r] EXCEPT !.status = "refused"]
             x == [y EXCEPT !.rows = f]
  <1>1. rows \in [RowIds(args[r].plan) -> LineType]
    BY RecordType
  <1>2. f \in [RowIds(args[r].plan) -> LineType]
    BY <1>1 DEF Line, LineType, LineStatus
  <1>3. x \in ExecutionType(args[r])
    <2>1. y \in ExecutionType(args[r])
      BY RecordType, StatusUpdateType DEF ExecutionStatus
    <2> HIDE DEF y, f
    <2> QED BY <1>2, <2>1, RowsUpdateType
  <1>4. executions' = [executions EXCEPT ![r] = x]
    BY DEF MarkRefused
  <1>5. pc' = [pc EXCEPT ![r] = "done"]
    BY DEF MarkRefused
  <1> QED BY <1>3, <1>4, <1>5, ExecutionReplacedType
          DEF MarkRefused, ControlState, Finished

LEMMA MarkSentType ==
  ASSUME TypeOK, NEW r \in Runs, MarkSent(r) PROVE TypeOK'
  <1> DEFINE y == [executions[r] EXCEPT !.status = "sent"]
             x == [y EXCEPT !.txid = inflight[r].first]
  <1>1. x \in ExecutionType(args[r])
    <2>1. y \in ExecutionType(args[r])
      BY RecordType, StatusUpdateType DEF ExecutionStatus
    <2> HIDE DEF y
    <2> QED BY <2>1, RecordType, TxidUpdateType
  <1>2. executions' = [executions EXCEPT ![r] = x] /\ pc' = [pc EXCEPT ![r] = "done"]
    BY DEF MarkSent
  <1> QED BY <1>1, <1>2, ExecutionReplacedType DEF MarkSent, ControlState, Finished

LEMMA MarkConfirmedType ==
  ASSUME TypeOK, NEW q \in Runs, MarkConfirmed(q) PROVE TypeOK'
  <1> DEFINE f == ConfirmSentLines(executions[q].rows)
             y == [executions[q] EXCEPT !.status = "confirmed"]
             x == [y EXCEPT !.rows = f]
  <1>1. f \in [RowIds(args[q].plan) -> LineType]
    BY RecordType, ConfirmSentLinesType
  <1>2. x \in ExecutionType(args[q])
    <2>1. y \in ExecutionType(args[q])
      BY RecordType, StatusUpdateType DEF ExecutionStatus
    <2> HIDE DEF y, f
    <2> QED BY <1>1, <2>1, RowsUpdateType
  <1>3. executions' = [executions EXCEPT ![q] = x]
    BY DEF MarkConfirmed
  <1>4. UNCHANGED <<planStatus, drifted, ledger, mined, pc, args, atStart, todo,
                    inflight, pending, failures>>
    BY DEF MarkConfirmed, wallet, process
  <1>5. DOMAIN executions' = Runs
        /\ \A r \in Runs : executions'[r] \in ExecutionType(args[r])
    BY <1>2, <1>3 DEF TypeOK
  <1> QED BY <1>4, <1>5 DEF TypeOK

\* Every action that only replaces what r's transaction wrote.
LEMMA PendingReplacedType ==
  ASSUME TypeOK, NEW r \in Runs, NEW x \in ExecutionType(args[r]),
         pending' = [pending EXCEPT ![r] = x]
  PROVE  DOMAIN pending' = Runs
         /\ \A q \in Runs : pending'[q] \in ExecutionType(args[q])
  BY DEF TypeOK

LEMMA InsertChunkedType ==
  ASSUME TypeOK, NEW r \in Runs, InsertChunked(r) PROVE TypeOK'
  <1> DEFINE x == NewExecution(args[r], "draft", "draft", "draft")
             refused == ExistingByKey(r) \/ \E c \in todo[r] : PieceAmount(args[r], c) = 0
  <1>1. x \in ExecutionType(args[r])
    BY NewExecutionType DEF ExecutionStatus, LineStatus
  <1>2. UNCHANGED <<planStatus, drifted, executions, ledger, mined, args,
                    atStart, todo, inflight, failures>>
    BY DEF InsertChunked, tables, wallet
  <1>3. CASE refused
    <2>1. pc' = [pc EXCEPT ![r] = "failed"] /\ UNCHANGED pending
      BY <1>3 DEF InsertChunked
    <2> QED BY <1>2, <2>1 DEF TypeOK, ControlState, Finished
  <1>4. CASE ~ refused
    <2>1. pending' = [pending EXCEPT ![r] = x] /\ pc' = [pc EXCEPT ![r] = "sending"]
      BY <1>4 DEF InsertChunked
    <2>2. DOMAIN pending' = Runs
          /\ \A q \in Runs : pending'[q] \in ExecutionType(args[q])
      BY <1>1, <2>1, PendingReplacedType
    <2> QED BY <1>2, <2>1, <2>2 DEF TypeOK, ControlState
  <1> QED BY <1>3, <1>4

LEMMA RecordChunkSentType ==
  ASSUME TypeOK, NEW r \in Runs, RecordChunkSent(r) PROVE TypeOK'
  <1> DEFINE sent == inflight[r].piece
             g == [pending[r].chunks EXCEPT ![sent] = Line("sent", inflight[r].txid)]
             x == [pending[r] EXCEPT !.chunks = g]
  <1>1. g \in [ChunkIds(args[r]) -> LineType]
    BY RecordType DEF Line, LineType, LineStatus
  <1>2. x \in ExecutionType(args[r])
    <2> HIDE DEF g
    <2> QED BY <1>1, RecordType, ChunksUpdateType
  <1>3. pending' = [pending EXCEPT ![r] = x]
    BY DEF RecordChunkSent
  <1>4. /\ todo' = [todo EXCEPT ![r] = todo[r] \ {sent}]
        /\ \E s \in {"finishing", "sending"} : pc' = [pc EXCEPT ![r] = s]
        /\ UNCHANGED <<planStatus, drifted, executions, ledger, mined, args,
                       atStart, inflight, failures>>
    BY DEF RecordChunkSent, tables, wallet
  <1>5. DOMAIN pending' = Runs
        /\ \A q \in Runs : pending'[q] \in ExecutionType(args[q])
    <2> HIDE DEF x
    <2> QED BY <1>2, <1>3, PendingReplacedType
  <1>6. DOMAIN todo' = Runs /\ \A q \in Runs : todo'[q] \subseteq Pieces(args[q])
    BY <1>4 DEF TypeOK
  <1>7. pc' \in [Runs -> ControlState]
        /\ \A q \in Runs : pc'[q] \in {"recording", "failing"} =>
                              inflight[q].piece \in todo'[q]
    BY <1>4 DEF TypeOK, ControlState
  <1> QED BY <1>4, <1>5, <1>6, <1>7 DEF TypeOK

LEMMA CommitType ==
  ASSUME TypeOK, NEW r \in Runs, NEW x \in ExecutionType(args[r]), Commit(r, x)
  PROVE  TypeOK'
  <1>1. DOMAIN pending' = Runs
        /\ \A q \in Runs : pending'[q] \in ExecutionType(args[q])
    BY PendingReplacedType, NoExecutionType DEF Commit
  <1>2. DOMAIN executions' = Runs
        /\ \A q \in Runs : executions'[q] \in ExecutionType(args[q])
    BY DEF TypeOK, Commit
  <1>3. pc' \in [Runs -> ControlState]
        /\ \A q \in Runs : pc'[q] \in {"recording", "failing"} => pc'[q] = pc[q]
    BY DEF TypeOK, Commit, ControlState, Finished
  <1> QED BY <1>1, <1>2, <1>3 DEF TypeOK, Commit, wallet

LEMMA CommitPartialSentType ==
  ASSUME TypeOK, NEW r \in Runs, CommitPartialSent(r) PROVE TypeOK'
  <1> DEFINE y == [pending[r] EXCEPT !.status = "partial_sent"]
             g == [pending[r].chunks EXCEPT ![inflight[r].piece] = Line("refused", 0)]
             x == [y EXCEPT !.chunks = g]
  <1>1. g \in [ChunkIds(args[r]) -> LineType]
    BY RecordType DEF Line, LineType, LineStatus
  <1>2. y \in ExecutionType(args[r])
    BY RecordType, StatusUpdateType DEF ExecutionStatus
  <1>3. x \in ExecutionType(args[r])
    <2> HIDE DEF y, g
    <2> QED BY <1>1, <1>2, ChunksUpdateType
  <1>4. y.chunks = pending[r].chunks
    BY RecordType DEF ExecutionType
  <1>5. Commit(r, x)
    BY <1>4 DEF CommitPartialSent
  <1> QED BY <1>3, <1>5, CommitType

LEMMA CommitSentType ==
  ASSUME TypeOK, NEW r \in Runs, CommitSent(r) PROVE TypeOK'
  <1> DEFINE txid == inflight[r].first
             y == [pending[r] EXCEPT !.status = "sent"]
             z == [y EXCEPT !.txid = txid]
             f == [n \in DOMAIN pending[r].rows |-> Line("sent", txid)]
             x == [z EXCEPT !.rows = f]
  <1>1. f \in [RowIds(args[r].plan) -> LineType]
    BY RecordType DEF Line, LineType, LineStatus
  <1>2. y \in ExecutionType(args[r])
    BY RecordType, StatusUpdateType DEF ExecutionStatus
  <1>3. z \in ExecutionType(args[r])
    <2> HIDE DEF y
    <2> QED BY <1>2, RecordType, TxidUpdateType
  <1>4. x \in ExecutionType(args[r])
    <2> HIDE DEF z, f
    <2> QED BY <1>1, <1>3, RowsUpdateType
  <1>5. z.rows = pending[r].rows
    BY RecordType DEF ExecutionType
  <1>6. Commit(r, x)
    BY <1>5 DEF CommitSent
  <1> QED BY <1>4, <1>6, CommitType

LEMMA MarkChunkedConfirmedType ==
  ASSUME TypeOK, NEW q \in Runs, MarkChunkedConfirmed(q) PROVE TypeOK'
  <1> DEFINE f == ConfirmSentLines(executions[q].rows)
             g == ConfirmSentLines(executions[q].chunks)
             y == [executions[q] EXCEPT !.status = "confirmed"]
             z == [y EXCEPT !.rows = f]
             x == [z EXCEPT !.chunks = g]
  <1>1. f \in [RowIds(args[q].plan) -> LineType] /\ g \in [ChunkIds(args[q]) -> LineType]
    BY RecordType, ConfirmSentLinesType
  <1>2. y \in ExecutionType(args[q])
    BY RecordType, StatusUpdateType DEF ExecutionStatus
  <1>3. z \in ExecutionType(args[q])
    <2> HIDE DEF y, f
    <2> QED BY <1>1, <1>2, RowsUpdateType
  <1>4. x \in ExecutionType(args[q])
    <2> HIDE DEF z, g
    <2> QED BY <1>1, <1>3, ChunksUpdateType
  <1>5. executions' = [executions EXCEPT ![q] = x]
    BY DEF MarkChunkedConfirmed
  <1>6. UNCHANGED <<planStatus, drifted, ledger, mined, pc, args, atStart, todo,
                    inflight, pending, failures>>
    BY DEF MarkChunkedConfirmed, wallet, process
  <1>7. DOMAIN executions' = Runs
        /\ \A r \in Runs : executions'[r] \in ExecutionType(args[r])
    BY <1>4, <1>5 DEF TypeOK
  <1> QED BY <1>6, <1>7 DEF TypeOK

LEMMA EnvironmentType == ASSUME TypeOK, Environment PROVE TypeOK'
  <1>1. ASSUME NEW p \in Plans, CancelPlan(p) PROVE TypeOK'
    BY <1>1 DEF TypeOK, CancelPlan, wallet, process
  <1>2. ASSUME NEW p \in Plans, ChangeAddress(p) PROVE TypeOK'
    BY <1>2 DEF TypeOK, ChangeAddress, wallet, process
  <1>3. ASSUME NEW t \in DOMAIN ledger, Mine(t) PROVE TypeOK'
    <2>1. t \in Nat
      BY DEF TypeOK
    <2> QED BY <1>3, <2>1 DEF TypeOK, Mine, tables, process
  <1> QED BY <1>1, <1>2, <1>3 DEF Environment

LEMMA NextType == TypeOK /\ [Next]_vars => TypeOK'
  <1> SUFFICES ASSUME TypeOK, [Next]_vars PROVE TypeOK'
    OBVIOUS
  <1>1. ASSUME NEW r \in Runs,
               \/ Launch(r) \/ RecordRefusal(r) \/ Crash(r)
               \/ SendAccepted(r) \/ SendReplyLost(r) \/ SendRejected(r)
        PROVE  TypeOK'
    BY <1>1, LaunchType, RecordRefusalType, CrashType, SendType
  <1>2. CASE SingleNext
    BY <1>2, LoadType, InsertDraftType, RecordRowsSentType, MarkRefusedType,
       MarkSentType, MarkConfirmedType DEF SingleNext
  <1>3. CASE ChunkedNext
    BY <1>3, LoadType, InsertChunkedType, RecordChunkSentType, CommitPartialSentType,
       CommitSentType, MarkChunkedConfirmedType DEF ChunkedNext
  <1>4. CASE Environment
    BY <1>4, EnvironmentType
  <1>5. CASE UNCHANGED vars
    BY <1>5 DEF vars, tables, wallet, process, TypeOK
  <1> QED BY <1>1, <1>2, <1>3, <1>4, <1>5 DEF Next, WalletNext

\* TypeOK is an invariant: the tables keep their CHECK constraints, a process
\* that records or gives up a send does so for a piece it has yet to send.
THEOREM TypeCorrect == Spec => []TypeOK
  <1> QED BY InitType, NextType, PTL DEF Spec

-----------------------------------------------------------------------------
(* The inductive invariant SendInv.                                        *)

Early == {"idle", "loading", "refusing", "inserting"}

LEMMA LedgerType ==
  ASSUME TypeOK, NEW t \in DOMAIN ledger
  PROVE  /\ ledger[t].run \in Runs /\ ledger[t].piece \in Piece
         /\ DOMAIN ledger = 1 .. Len(ledger) /\ Len(ledger) \in Nat /\ t \in Nat
  <1> DEFINE Entry == [run : Runs, piece : Piece]
  <1>1. ledger \in Seq(Entry)
    BY DEF TypeOK
  <1>2. ledger[t] \in Entry
    <2> HIDE DEF Entry
    <2> QED BY <1>1
  <1>3. DOMAIN ledger = 1 .. Len(ledger) /\ Len(ledger) \in Nat
    <2> HIDE DEF Entry
    <2> QED BY <1>1
  <1> QED BY <1>2, <1>3

\* A step of run r that broadcasts nothing keeps SendInv if r keeps or newly
\* takes its key, has an execution when it may send, does not go back before
\* its insert, and resumes sending only without the pieces it has broadcast.
LEMMA LocalStep ==
  ASSUME SendInv, TypeOK', NEW r \in Runs, UNCHANGED <<args, ledger>>,
         \A q \in Runs \ {r} : /\ executions'[q].status = executions[q].status
                               /\ pending'[q].status = pending[q].status
                               /\ pc'[q] = pc[q]
                               /\ todo'[q] = todo[q]
                               /\ inflight'[q] = inflight[q],
         executions[r].status # "none" => executions'[r].status # "none",
         executions'[r].status # "none" \/ pending'[r].status # "none" =>
            \/ HoldsKey(r)
            \/ \A q \in Runs \ {r} : SamePlanKey(q, r) => ~ HoldsKey(q),
         pc'[r] \in Sending => IF args[r].kind = Single
                               THEN executions'[r].status # "none"
                               ELSE pending'[r].status # "none",
         pc[r] \notin Early => pc'[r] \notin Early,
         \/ pc'[r] = pc[r] /\ todo'[r] = todo[r] /\ inflight'[r] = inflight[r]
         \/ /\ pc'[r] # "recording"
            /\ pc'[r] = "sending" =>
                  \A t \in DOMAIN ledger : ledger[t].run = r =>
                      ledger[t].piece \notin todo'[r]
  PROVE  SendInv'
  <1>1. SendersHaveExecution'
    <2> SUFFICES ASSUME NEW q \in Runs, pc'[q] \in Sending
                 PROVE  IF args[q].kind = Single THEN executions'[q].status # "none"
                        ELSE pending'[q].status # "none"
      BY DEF SendersHaveExecution, InTransaction
    <2>1. CASE q = r
      BY <2>1
    <2>2. CASE q # r
      BY <2>2 DEF SendInv, SendersHaveExecution, InTransaction
    <2> QED BY <2>1, <2>2
  <1>2. \A t \in DOMAIN ledger : ledger[t].run \in Runs
    BY LedgerType DEF SendInv
  <1>3. LedgerRunsStarted'
    <2> SUFFICES ASSUME NEW t \in DOMAIN ledger
                 PROVE  pc'[ledger[t].run] \notin Early
      BY DEF LedgerRunsStarted, Early
    <2>1. pc[ledger[t].run] \notin Early
      BY DEF SendInv, LedgerRunsStarted, Early
    <2>2. CASE ledger[t].run = r
      BY <2>1, <2>2
    <2>3. CASE ledger[t].run # r
      BY <1>2, <2>1, <2>3
    <2> QED BY <2>2, <2>3
  <1>4. AuditBeforeSend'
    BY <1>2 DEF SendInv, AuditBeforeSend, IsSingle
  <1>5. KeyHeldOnce'
    <2> SUFFICES ASSUME NEW p \in Runs, NEW q \in Runs,
                        HoldsKey(p)', HoldsKey(q)', SamePlanKey(p, q)
                 PROVE  p = q
      BY DEF KeyHeldOnce, SamePlanKey
    <2>1. \A s \in Runs \ {r} : HoldsKey(s)' => HoldsKey(s)
      BY DEF HoldsKey, InTransaction
    <2>2. HoldsKey(r)' => \/ HoldsKey(r)
                          \/ \A s \in Runs \ {r} : SamePlanKey(s, r) => ~ HoldsKey(s)
      BY DEF HoldsKey, InTransaction
    <2>3. SamePlanKey(q, p)
      BY DEF SamePlanKey
    <2> QED BY <2>1, <2>2, <2>3 DEF SendInv, KeyHeldOnce
  <1>6. PiecesSentOnce'
    <2> SUFFICES ASSUME NEW t \in DOMAIN ledger
                 PROVE  LET s == ledger[t].run
                            c == ledger[t].piece
                        IN /\ c \in Pieces(args[s])
                           /\ pc'[s] = "sending" => c \notin todo'[s]
                           /\ pc'[s] = "recording" /\ c \in todo'[s] => c = inflight'[s].piece
                           /\ \A u \in DOMAIN ledger :
                                 u # t /\ ledger[u].run = s => ledger[u].piece # c
      BY DEF PiecesSentOnce
    <2> DEFINE s == ledger[t].run
               c == ledger[t].piece
    <2>1. /\ s \in Runs
          /\ c \in Pieces(args[s])
          /\ pc[s] = "sending" => c \notin todo[s]
          /\ pc[s] = "recording" /\ c \in todo[s] => c = inflight[s].piece
          /\ \A u \in DOMAIN ledger : u # t /\ ledger[u].run = s => ledger[u].piece # c
      BY <1>2 DEF SendInv, PiecesSentOnce
    <2>2. CASE s = r
      BY <2>1, <2>2
    <2>3. CASE s # r
      BY <2>1, <2>3
    <2> QED BY <2>1, <2>2, <2>3
  <1> QED BY <1>1, <1>3, <1>4, <1>5, <1>6 DEF SendInv

LEMMA LaunchStep ==
  ASSUME SendInv, TypeOK', NEW r \in Runs, Launch(r) PROVE SendInv'
  <1>1. /\ pc' = [pc EXCEPT ![r] = "loading"]
        /\ UNCHANGED <<executions, ledger, args, todo, inflight, pending>>
        /\ pc[r] = "idle"
    BY DEF Launch, tables, wallet
  <1>2. pc'[r] = "loading" /\ \A q \in Runs \ {r} : pc'[q] = pc[q]
    BY <1>1 DEF SendInv, TypeOK
  <1> QED BY <1>1, <1>2, LocalStep DEF HoldsKey, InTransaction, Sending, Early

LEMMA LoadStep ==
  ASSUME SendInv, TypeOK', NEW r \in Runs,
         LoadAndDecide(r) \/ ChunkedLoadAndDecide(r)
  PROVE  SendInv'
  <1>1. PICK s \in {"done", "failed", "refusing", "inserting"} :
          /\ pc' = [pc EXCEPT ![r] = s]
          /\ todo' = [todo EXCEPT ![r] = LoadedPieces(r)]
          /\ UNCHANGED <<executions, ledger, args, inflight, pending>>
          /\ pc[r] = "loading"
    BY DEF LoadAndDecide, ChunkedLoadAndDecide, tables, wallet
  <1>2. pc'[r] = s /\ \A q \in Runs \ {r} : pc'[q] = pc[q] /\ todo'[q] = todo[q]
    BY <1>1 DEF SendInv, TypeOK
  <1> QED BY <1>1, <1>2, LocalStep DEF HoldsKey, InTransaction, Sending, Early

\* What the insert of r establishes: nobody else holds its plan and key.
LEMMA KeyIsFree ==
  ASSUME NEW r \in Runs, ~ KeyIsLocked(r), ~ ExistingByKey(r)
  PROVE  \A q \in Runs \ {r} : SamePlanKey(q, r) => ~ HoldsKey(q)
  BY DEF KeyIsLocked, ExistingByKey, HoldsKey

LEMMA RecordRefusalStep ==
  ASSUME SendInv, TypeOK', NEW r \in Runs, RecordRefusal(r) PROVE SendInv'
  <1>1. /\ pc[r] = "refusing"
        /\ UNCHANGED <<ledger, args, todo, inflight, pending>>
    BY DEF RecordRefusal, wallet
  <1>2. CASE ExistingByKey(r)
    <2>1. pc' = [pc EXCEPT ![r] = "failed"] /\ UNCHANGED executions
      BY <1>2 DEF RecordRefusal
    <2>2. pc'[r] = "failed" /\ \A q \in Runs \ {r} : pc'[q] = pc[q]
      BY <2>1 DEF SendInv, TypeOK
    <2> QED BY <1>1, <2>1, <2>2, LocalStep DEF HoldsKey, InTransaction, Sending, Early
  <1>3. CASE ~ ExistingByKey(r)
    <2> DEFINE x == NewExecution(args[r], "refused",
                                 IF todo[r] = {} THEN "none" ELSE "refused", "none")
    <2>1. pc' = [pc EXCEPT ![r] = "done"] /\ executions' = [executions EXCEPT ![r] = x]
      BY <1>3 DEF RecordRefusal
    <2>2. x.status = "refused"
      BY DEF NewExecution
    <2> HIDE DEF x
    <2>3. pc'[r] = "done" /\ executions'[r] = x
          /\ \A q \in Runs \ {r} : pc'[q] = pc[q] /\ executions'[q] = executions[q]
      BY <2>1 DEF SendInv, TypeOK
    <2>4. \A q \in Runs \ {r} : SamePlanKey(q, r) => ~ HoldsKey(q)
      BY <1>3, KeyIsFree DEF RecordRefusal
    <2> QED BY <1>1, <2>2, <2>3, <2>4, LocalStep DEF Sending, Early
  <1> QED BY <1>2, <1>3

LEMMA CrashStep ==
  ASSUME SendInv, TypeOK', NEW r \in Runs, Crash(r) PROVE SendInv'
  <1>1. /\ pc' = [pc EXCEPT ![r] = "crashed"]
        /\ pending' = [pending EXCEPT ![r] = NoExecution(args[r])]
        /\ UNCHANGED <<executions, ledger, args, todo, inflight>>
    BY DEF Crash, tables, wallet
  <1>2. NoExecution(args[r]).status = "none"
    BY DEF NoExecution, NewExecution
  <1>3. pc'[r] = "crashed" /\ pending'[r] = NoExecution(args[r])
        /\ \A q \in Runs \ {r} : pc'[q] = pc[q] /\ pending'[q] = pending[q]
    BY <1>1 DEF SendInv, TypeOK
  <1> QED BY <1>1, <1>2, <1>3, LocalStep DEF HoldsKey, Sending, Early

LEMMA InsertDraftStep ==
  ASSUME SendInv, TypeOK', NEW r \in Runs, InsertDraft(r) PROVE SendInv'
  <1>1. /\ pc[r] = "inserting" /\ args[r].kind = Single
        /\ UNCHANGED <<ledger, args, todo, inflight, pending>>
    BY DEF InsertDraft, wallet
  <1>2. \A t \in DOMAIN ledger : ledger[t].run # r
    BY <1>1 DEF SendInv, LedgerRunsStarted
  <1>3. CASE ExistingByKey(r)
    <2>1. pc' = [pc EXCEPT ![r] = "failed"] /\ UNCHANGED executions
      BY <1>3 DEF InsertDraft
    <2>2. pc'[r] = "failed" /\ \A q \in Runs \ {r} : pc'[q] = pc[q]
      BY <2>1 DEF SendInv, TypeOK
    <2> QED BY <1>1, <2>1, <2>2, LocalStep DEF HoldsKey, InTransaction, Sending, Early
  <1>4. CASE ~ ExistingByKey(r)
    <2> DEFINE x == NewExecution(args[r], "draft", "draft", "none")
    <2>1. pc' = [pc EXCEPT ![r] = "sending"] /\ executions' = [executions EXCEPT ![r] = x]
      BY <1>4 DEF InsertDraft
    <2>2. x.status = "draft"
      BY DEF NewExecution
    <2> HIDE DEF x
    <2>3. pc'[r] = "sending" /\ executions'[r] = x
          /\ \A q \in Runs \ {r} : pc'[q] = pc[q] /\ executions'[q] = executions[q]
      BY <2>1 DEF SendInv, TypeOK
    <2>4. \A q \in Runs \ {r} : SamePlanKey(q, r) => ~ HoldsKey(q)
      BY <1>4, KeyIsFree DEF InsertDraft
    <2> QED BY <1>1, <1>2, <2>2, <2>3, <2>4, LocalStep DEF Sending, Early
  <1> QED BY <1>3, <1>4

\* Recording a broadcast takes its piece, the only one of r's that was both
\* broadcast and still to do, off the list.
LEMMA BroadcastPieceIsDone ==
  ASSUME SendInv, NEW r \in Runs, pc[r] = "recording",
         todo' = [todo EXCEPT ![r] = todo[r] \ {inflight[r].piece}]
  PROVE  \A t \in DOMAIN ledger : ledger[t].run = r =>
            ledger[t].piece \notin todo'[r]
  <1>1. todo'[r] = todo[r] \ {inflight[r].piece}
    BY DEF SendInv, TypeOK
  <1> QED BY <1>1 DEF SendInv, PiecesSentOnce

LEMMA RecordRowsSentStep ==
  ASSUME SendInv, TypeOK', NEW r \in Runs, RecordRowsSent(r) PROVE SendInv'
  <1> DEFINE sent == inflight[r].piece
             rows == executions[r].rows
             f == [n \in DOMAIN rows |->
                     IF n \in PieceRows(args[r], sent) /\ rows[n].status = "draft"
                     THEN Line("sent", inflight[r].txid) ELSE rows[n]]
             x == [executions[r] EXCEPT !.rows = f]
  <1>1. PICK s \in {"finishing", "sending"} :
          /\ pc' = [pc EXCEPT ![r] = s]
          /\ todo' = [todo EXCEPT ![r] = todo[r] \ {sent}]
          /\ executions' = [executions EXCEPT ![r] = x]
          /\ UNCHANGED <<ledger, args, inflight, pending>>
          /\ pc[r] = "recording" /\ args[r].kind = Single
    BY DEF RecordRowsSent, wallet
  <1>2. executions[r].status # "none"
    BY <1>1 DEF SendInv, SendersHaveExecution, Sending
  <1>3. x.status = executions[r].status
    <2> HIDE DEF f
    <2> QED BY RecordType DEF SendInv, ExecutionType
  <1> HIDE DEF x
  <1>4. pc'[r] = s /\ executions'[r] = x
        /\ \A q \in Runs \ {r} : /\ pc'[q] = pc[q]
                                 /\ executions'[q] = executions[q]
                                 /\ todo'[q] = todo[q]
    BY <1>1 DEF SendInv, TypeOK
  <1>5. \A t \in DOMAIN ledger : ledger[t].run = r =>
            ledger[t].piece \notin todo'[r]
    BY <1>1, BroadcastPieceIsDone
  <1> QED BY <1>1, <1>2, <1>3, <1>4, <1>5, LocalStep
          DEF HoldsKey, InTransaction, Sending, Early

\* Steps of r after which it sends no more, or never sent, and after which its
\* execution is still there.
LEMMA ClosingStep ==
  ASSUME SendInv, TypeOK', NEW r \in Runs, pc[r] \in {"failing", "finishing"},
         args[r].kind = Single,
         NEW x, x.status # "none", executions' = [executions EXCEPT ![r] = x],
         pc' = [pc EXCEPT ![r] = "done"],
         UNCHANGED <<ledger, args, todo, inflight, pending>>
  PROVE  SendInv'
  <1>1. executions[r].status # "none"
    BY DEF SendInv, SendersHaveExecution, Sending
  <1>2. pc'[r] = "done" /\ executions'[r] = x
        /\ \A q \in Runs \ {r} : pc'[q] = pc[q] /\ executions'[q] = executions[q]
    BY DEF SendInv, TypeOK
  <1> QED BY <1>1, <1>2, LocalStep DEF HoldsKey, InTransaction, Sending, Early

LEMMA MarkRefusedStep ==
  ASSUME SendInv, TypeOK', NEW r \in Runs, MarkRefused(r) PROVE SendInv'
  <1> DEFINE rows == executions[r].rows
             f == [n \in DOMAIN rows |-> IF rows[n].status = "sent" THEN rows[n]
                                         ELSE Line("refused", 0)]
             y == [executions[r] EXCEPT !.status = "refused"]
             x == [y EXCEPT !.rows = f]
  <1>1. executions' = [executions EXCEPT ![r] = x] /\ pc' = [pc EXCEPT ![r] = "done"]
    BY DEF MarkRefused
  <1>2. y \in ExecutionType(args[r]) /\ y.status = "refused"
    BY StatusSet DEF SendInv, ExecutionStatus
  <1>3. x.status = "refused"
    <2> HIDE DEF y, f
    <2> QED BY <1>2 DEF ExecutionType
  <1> HIDE DEF x
  <1> QED BY <1>1, <1>3, ClosingStep DEF MarkRefused, wallet

LEMMA MarkSentStep ==
  ASSUME SendInv, TypeOK', NEW r \in Runs, MarkSent(r) PROVE SendInv'
  <1> DEFINE y == [executions[r] EXCEPT !.status = "sent"]
             x == [y EXCEPT !.txid = inflight[r].first]
  <1>1. executions' = [executions EXCEPT ![r] = x] /\ pc' = [pc EXCEPT ![r] = "done"]
    BY DEF MarkSent
  <1>2. y \in ExecutionType(args[r]) /\ y.status = "sent"
    BY StatusSet DEF SendInv, ExecutionStatus
  <1>3. x.status = "sent"
    <2> HIDE DEF y
    <2> QED BY <1>2 DEF ExecutionType
  <1> HIDE DEF x
  <1> QED BY <1>1, <1>3, ClosingStep DEF MarkSent, wallet

\* mark-confirmed changes an execution that is there, whatever its run does.
LEMMA ConfirmStep ==
  ASSUME SendInv, TypeOK', NEW q \in Runs, MarkConfirmed(q) \/ MarkChunkedConfirmed(q)
  PROVE  SendInv'
  <1>1. executions[q].status = "sent"
        /\ UNCHANGED <<ledger, pc, args, todo, inflight, pending>>
    BY DEF MarkConfirmed, MarkChunkedConfirmed, wallet, process
  <1>2. PICK x : x.status = "confirmed" /\ executions' = [executions EXCEPT ![q] = x]
    <2> DEFINE f == ConfirmSentLines(executions[q].rows)
               g == ConfirmSentLines(executions[q].chunks)
               w == [executions[q] EXCEPT !.status = "confirmed"]
               y == [w EXCEPT !.rows = f]
               z == [y EXCEPT !.chunks = g]
    <2>1. executions' = [executions EXCEPT ![q] = y]
          \/ executions' = [executions EXCEPT ![q] = z]
      BY DEF MarkConfirmed, MarkChunkedConfirmed
    <2>2. w \in ExecutionType(args[q]) /\ w.status = "confirmed"
      BY StatusSet DEF SendInv, ExecutionStatus
    <2>3. f \in [RowIds(args[q].plan) -> LineType]
      BY RecordType, ConfirmSentLinesType DEF SendInv
    <2>4. y \in ExecutionType(args[q]) /\ y.status = "confirmed"
      <3> HIDE DEF w, f
      <3> QED BY <2>2, <2>3, RowsUpdateType DEF ExecutionType
    <2>5. z.status = "confirmed"
      <3> HIDE DEF y, g
      <3> QED BY <2>4 DEF ExecutionType
    <2> HIDE DEF y, z
    <2> QED BY <2>1, <2>4, <2>5
  <1>3. executions'[q] = x /\ \A r \in Runs \ {q} : executions'[r] = executions[r]
    BY <1>2 DEF SendInv, TypeOK
  <1>4. pc[q] \in Sending => IF args[q].kind = Single THEN executions'[q].status # "none"
                             ELSE pending[q].status # "none"
    BY <1>2, <1>3 DEF SendInv, SendersHaveExecution, InTransaction
  <1> QED BY <1>1, <1>2, <1>3, <1>4, LocalStep DEF HoldsKey

LEMMA InsertChunkedStep ==
  ASSUME SendInv, TypeOK', NEW r \in Runs, InsertChunked(r) PROVE SendInv'
  <1> DEFINE refused == ExistingByKey(r) \/ \E c \in todo[r] : PieceAmount(args[r], c) = 0
             x == NewExecution(args[r], "draft", "draft", "draft")
  <1>1. /\ pc[r] = "inserting" /\ args[r].kind # Single
        /\ UNCHANGED <<executions, ledger, args, todo, inflight>>
    BY DEF InsertChunked, tables, wallet, Single, Chunked
  <1>2. \A t \in DOMAIN ledger : ledger[t].run # r
    BY <1>1 DEF SendInv, LedgerRunsStarted
  <1>3. CASE refused
    <2>1. pc' = [pc EXCEPT ![r] = "failed"] /\ UNCHANGED pending
      BY <1>3 DEF InsertChunked
    <2>2. pc'[r] = "failed" /\ \A q \in Runs \ {r} : pc'[q] = pc[q]
      BY <2>1 DEF SendInv, TypeOK
    <2> QED BY <1>1, <2>1, <2>2, LocalStep DEF HoldsKey, InTransaction, Sending, Early
  <1>4. CASE ~ refused
    <2>1. pc' = [pc EXCEPT ![r] = "sending"] /\ pending' = [pending EXCEPT ![r] = x]
      BY <1>4 DEF InsertChunked
    <2>2. x.status = "draft"
      BY DEF NewExecution
    <2> HIDE DEF x
    <2>3. pc'[r] = "sending" /\ pending'[r] = x
          /\ \A q \in Runs \ {r} : pc'[q] = pc[q] /\ pending'[q] = pending[q]
      BY <2>1 DEF SendInv, TypeOK
    <2>4. \A q \in Runs \ {r} : SamePlanKey(q, r) => ~ HoldsKey(q)
      BY <1>4, KeyIsFree DEF InsertChunked
    <2> QED BY <1>1, <1>2, <2>2, <2>3, <2>4, LocalStep DEF Sending, Early
  <1> QED BY <1>3, <1>4

LEMMA RecordChunkSentStep ==
  ASSUME SendInv, TypeOK', NEW r \in Runs, RecordChunkSent(r) PROVE SendInv'
  <1> DEFINE sent == inflight[r].piece
             g == [pending[r].chunks EXCEPT ![sent] = Line("sent", inflight[r].txid)]
             x == [pending[r] EXCEPT !.chunks = g]
  <1>1. PICK s \in {"finishing", "sending"} :
          /\ pc' = [pc EXCEPT ![r] = s]
          /\ todo' = [todo EXCEPT ![r] = todo[r] \ {sent}]
          /\ pending' = [pending EXCEPT ![r] = x]
          /\ UNCHANGED <<executions, ledger, args, inflight>>
          /\ pc[r] = "recording" /\ args[r].kind # Single
    BY DEF RecordChunkSent, tables, wallet, Single, Chunked
  <1>2. pending[r].status # "none"
    BY <1>1 DEF SendInv, SendersHaveExecution, InTransaction, Sending
  <1>3. x.status = pending[r].status
    <2> HIDE DEF g
    <2> QED BY RecordType DEF SendInv, ExecutionType
  <1> HIDE DEF x
  <1>4. pc'[r] = s /\ pending'[r] = x
        /\ \A q \in Runs \ {r} : /\ pc'[q] = pc[q]
                                 /\ pending'[q] = pending[q]
                                 /\ todo'[q] = todo[q]
    BY <1>1 DEF SendInv, TypeOK
  <1>5. \A t \in DOMAIN ledger : ledger[t].run = r =>
            ledger[t].piece \notin todo'[r]
    BY <1>1, BroadcastPieceIsDone
  <1> QED BY <1>1, <1>2, <1>3, <1>4, <1>5, LocalStep
          DEF HoldsKey, InTransaction, Sending, Early

\* A committed transaction hands its plan and key on to the execution.
LEMMA CommitStep ==
  ASSUME SendInv, TypeOK', NEW r \in Runs, NEW x, x.status # "none",
         args[r].kind # Single, pc[r] \in Sending, Commit(r, x)
  PROVE  SendInv'
  <1>1. HoldsKey(r)
    BY DEF SendInv, SendersHaveExecution, HoldsKey
  <1>2. /\ executions' = [executions EXCEPT ![r] = x]
        /\ pending' = [pending EXCEPT ![r] = NoExecution(args[r])]
        /\ pc' = [pc EXCEPT ![r] = "done"]
        /\ UNCHANGED <<ledger, args, todo, inflight>>
    BY DEF Commit, wallet
  <1>3. pc'[r] = "done" /\ executions'[r] = x
        /\ \A q \in Runs \ {r} : /\ pc'[q] = pc[q]
                                 /\ executions'[q] = executions[q]
                                 /\ pending'[q] = pending[q]
    BY <1>2 DEF SendInv, TypeOK
  <1> QED BY <1>1, <1>2, <1>3, LocalStep DEF Sending, Early

LEMMA CommitPartialSentStep ==
  ASSUME SendInv, TypeOK', NEW r \in Runs, CommitPartialSent(r) PROVE SendInv'
  <1> DEFINE y == [pending[r] EXCEPT !.status = "partial_sent"]
             g == [pending[r].chunks EXCEPT ![inflight[r].piece] = Line("refused", 0)]
             x == [y EXCEPT !.chunks = g]
  <1>1. pending[r] \in ExecutionType(args[r])
    BY RecordType DEF SendInv
  <1>2. y \in ExecutionType(args[r]) /\ y.status = "partial_sent"
    BY <1>1, StatusUpdateType DEF ExecutionStatus
  <1>3. y.chunks = pending[r].chunks
    BY <1>1 DEF ExecutionType
  <1>4. x.status = "partial_sent"
    <2> HIDE DEF y, g
    <2> QED BY <1>2 DEF ExecutionType
  <1>5. Commit(r, x) /\ args[r].kind # Single /\ pc[r] \in Sending
    BY <1>3 DEF CommitPartialSent, Single, Chunked, Sending
  <1> HIDE DEF x
  <1> QED BY <1>4, <1>5, CommitStep

LEMMA CommitSentStep ==
  ASSUME SendInv, TypeOK', NEW r \in Runs, CommitSent(r) PROVE SendInv'
  <1> DEFINE txid == inflight[r].first
             y == [pending[r] EXCEPT !.status = "sent"]
             z == [y EXCEPT !.txid = txid]
             f == [n \in DOMAIN pending[r].rows |-> Line("sent", txid)]
             x == [z EXCEPT !.rows = f]
  <1>1. pending[r] \in ExecutionType(args[r]) /\ inflight[r].first \in Nat
    BY RecordType DEF SendInv
  <1>2. y \in ExecutionType(args[r]) /\ y.status = "sent" /\ y.rows = pending[r].rows
    BY <1>1, StatusUpdateType DEF ExecutionStatus, ExecutionType
  <1>3. z \in ExecutionType(args[r]) /\ z.status = "sent" /\ z.rows = pending[r].rows
    <2> HIDE DEF y
    <2> QED BY <1>1, <1>2, TxidUpdateType DEF ExecutionType
  <1>4. x.status = "sent"
    <2> HIDE DEF z, f
    <2> QED BY <1>3 DEF ExecutionType
  <1>5. Commit(r, x) /\ args[r].kind # Single /\ pc[r] \in Sending
    BY <1>3 DEF CommitSent, Single, Chunked, Sending
  <1> HIDE DEF x
  <1> QED BY <1>4, <1>5, CommitStep

LEMMA SendRejectedStep ==
  ASSUME SendInv, TypeOK', NEW r \in Runs, SendRejected(r) PROVE SendInv'
  <1>1. PICK c : inflight' = [inflight EXCEPT
                                ![r] = [piece |-> c, txid |-> 0, first |-> @.first]]
    BY DEF SendRejected
  <1>2. /\ pc' = [pc EXCEPT ![r] = "failing"] /\ pc[r] = "sending"
        /\ UNCHANGED <<executions, ledger, args, todo, pending>>
    BY DEF SendRejected, tables, wallet
  <1>3. pc'[r] = "failing"
        /\ \A q \in Runs \ {r} : pc'[q] = pc[q] /\ inflight'[q] = inflight[q]
    BY <1>1, <1>2 DEF SendInv, TypeOK
  <1> QED BY <1>2, <1>3, LocalStep
          DEF SendInv, SendersHaveExecution, HoldsKey, InTransaction, Sending, Early

\* A broadcast: the new transaction pays a piece of r that was still to do, so
\* no earlier transaction of r paid it.
LEMMA BroadcastStep ==
  ASSUME SendInv, TypeOK', NEW r \in Runs, SendAccepted(r) \/ SendReplyLost(r)
  PROVE  SendInv'
  <1>1. PICK c \in todo[r], s \in {"recording", "failing"} :
          /\ ledger' = Append(ledger, [run |-> r, piece |-> c])
          /\ \E e : e.piece = c /\ inflight' = [inflight EXCEPT ![r] = e]
          /\ pc' = [pc EXCEPT ![r] = s]
          /\ pc[r] = "sending"
          /\ UNCHANGED <<executions, args, todo, pending>>
    <2>1. CASE SendAccepted(r)
      <3>1. PICK c \in todo[r] :
              /\ ledger' = Append(ledger, [run |-> r, piece |-> c])
              /\ inflight' = [inflight EXCEPT
                   ![r] = [piece |-> c, txid |-> Len(ledger) + 1,
                           first |-> IF @.first = 0 THEN Len(ledger) + 1 ELSE @.first]]
        BY <2>1 DEF SendAccepted
      <3>2. \E e : e.piece = c /\ inflight' = [inflight EXCEPT ![r] = e]
        <4> DEFINE e == [piece |-> c, txid |-> Len(ledger) + 1,
                         first |-> IF inflight[r].first = 0 THEN Len(ledger) + 1
                                   ELSE inflight[r].first]
        <4>1. e.piece = c /\ inflight' = [inflight EXCEPT ![r] = e]
          BY <3>1
        <4> HIDE DEF e
        <4> QED BY <4>1
      <3> QED BY <2>1, <3>1, <3>2 DEF SendAccepted, tables
    <2>2. CASE SendReplyLost(r)
      <3>1. PICK c \in todo[r] :
              /\ ledger' = Append(ledger, [run |-> r, piece |-> c])
              /\ inflight' = [inflight EXCEPT
                   ![r] = [piece |-> c, txid |-> 0, first |-> @.first]]
        BY <2>2 DEF SendReplyLost
      <3>2. \E e : e.piece = c /\ inflight' = [inflight EXCEPT ![r] = e]
        <4> DEFINE e == [piece |-> c, txid |-> 0, first |-> inflight[r].first]
        <4>1. e.piece = c /\ inflight' = [inflight EXCEPT ![r] = e]
          BY <3>1
        <4> HIDE DEF e
        <4> QED BY <4>1
      <3> QED BY <2>2, <3>1, <3>2 DEF SendReplyLost, tables
    <2> QED BY <2>1, <2>2
  <1> DEFINE new == Len(ledger) + 1
             entry == [run |-> r, piece |-> c]
             Entry == [run : Runs, piece : Piece]
  <1>2. /\ DOMAIN ledger' = DOMAIN ledger \cup {new}
        /\ new \notin DOMAIN ledger
        /\ ledger'[new] = entry
        /\ \A t \in DOMAIN ledger : ledger'[t] = ledger[t] /\ ledger[t].run \in Runs
    <2>1. ledger \in Seq(Entry)
      BY DEF SendInv, TypeOK
    <2>2. \A t \in DOMAIN ledger : ledger[t].run \in Runs
      BY LedgerType DEF SendInv
    <2>3. ledger' = Append(ledger, entry)
      BY <1>1
    <2> HIDE DEF entry, Entry
    <2> QED BY <2>1, <2>2, <2>3
  <1>3. pc'[r] = s /\ inflight'[r].piece = c
        /\ \A q \in Runs \ {r} : pc'[q] = pc[q] /\ inflight'[q] = inflight[q]
    BY <1>1 DEF SendInv, TypeOK
  <1>4. c \in Pieces(args[r])
    BY PieceOfRun DEF SendInv
  <1>5. entry.run = r /\ entry.piece = c
    OBVIOUS
  <1> HIDE DEF new, entry
  <1>6. SendersHaveExecution'
    <2> SUFFICES ASSUME NEW q \in Runs, pc'[q] \in Sending
                 PROVE  IF args[q].kind = Single THEN executions[q].status # "none"
                        ELSE InTransaction(q)
      BY <1>1 DEF SendersHaveExecution, InTransaction
    <2>1. pc[q] \in Sending
      BY <1>1, <1>3 DEF Sending
    <2> QED BY <2>1 DEF SendInv, SendersHaveExecution
  <1>7. LedgerRunsStarted'
    <2> SUFFICES ASSUME NEW t \in DOMAIN ledger'
                 PROVE  pc'[ledger'[t].run] \notin Early
      BY DEF LedgerRunsStarted, Early
    <2>1. CASE ledger'[t].run = r
      BY <1>1, <1>3, <2>1 DEF Early
    <2>2. CASE ledger'[t].run # r
      BY <1>2, <1>3, <1>5, <2>2 DEF SendInv, LedgerRunsStarted, Early
    <2> QED BY <2>1, <2>2
  <1>8. AuditBeforeSend'
    <2> SUFFICES ASSUME NEW t \in DOMAIN ledger', args[ledger'[t].run].kind = Single
                 PROVE  executions[ledger'[t].run].status # "none"
      BY <1>1 DEF AuditBeforeSend, IsSingle
    <2>1. CASE t = new
      BY <1>1, <1>2, <1>5, <2>1 DEF SendInv, SendersHaveExecution, Sending
    <2>2. CASE t # new
      BY <1>2, <2>2 DEF SendInv, AuditBeforeSend, IsSingle
    <2> QED BY <2>1, <2>2
  <1>9. KeyHeldOnce'
    BY <1>1 DEF SendInv, KeyHeldOnce, HoldsKey, InTransaction, SamePlanKey
  <1>10. PiecesSentOnce'
    <2> SUFFICES ASSUME NEW t \in DOMAIN ledger'
                 PROVE  LET q == ledger'[t].run
                            d == ledger'[t].piece
                        IN /\ d \in Pieces(args[q])
                           /\ pc'[q] = "sending" => d \notin todo[q]
                           /\ pc'[q] = "recording" /\ d \in todo[q] =>
                                 d = inflight'[q].piece
                           /\ \A u \in DOMAIN ledger' :
                                 u # t /\ ledger'[u].run = q => ledger'[u].piece # d
      BY <1>1 DEF PiecesSentOnce
    <2>1. \A u \in DOMAIN ledger :
            ledger[u].run = r => ledger[u].piece \notin todo[r]
      BY <1>1 DEF SendInv, PiecesSentOnce
    <2>2. CASE t = new
      BY <1>1, <1>2, <1>3, <1>4, <1>5, <2>1, <2>2
    <2>3. CASE t # new
      <3> DEFINE q == ledger[t].run
                 d == ledger[t].piece
      <3>1. t \in DOMAIN ledger /\ ledger'[t] = ledger[t] /\ q \in Runs
        BY <1>2, <2>3
      <3>2. /\ d \in Pieces(args[q])
            /\ pc[q] = "sending" => d \notin todo[q]
            /\ pc[q] = "recording" /\ d \in todo[q] => d = inflight[q].piece
            /\ \A u \in DOMAIN ledger : u # t /\ ledger[u].run = q => ledger[u].piece # d
        BY <3>1 DEF SendInv, PiecesSentOnce
      <3>3. q = r => d \notin todo[r]
        BY <2>1, <3>1
      <3>4. \A u \in DOMAIN ledger' :
                u # t /\ ledger'[u].run = q => ledger'[u].piece # d
        BY <1>2, <1>5, <3>2, <3>3
      <3>5. CASE q = r
        BY <1>1, <1>3, <3>1, <3>2, <3>3, <3>4, <3>5
      <3>6. CASE q # r
        BY <1>3, <3>1, <3>2, <3>4, <3>6
      <3> QED BY <3>5, <3>6
    <2> QED BY <2>2, <2>3
  <1> QED BY <1>6, <1>7, <1>8, <1>9, <1>10 DEF SendInv

LEMMA EnvironmentStep ==
  ASSUME SendInv, TypeOK', UNCHANGED <<executions, ledger, pc, args, todo, inflight, pending>>
  PROVE  SendInv'
  BY DEF SendInv, SendersHaveExecution, LedgerRunsStarted, AuditBeforeSend, KeyHeldOnce,
         PiecesSentOnce, HoldsKey, InTransaction, SamePlanKey, IsSingle

LEMMA InitSend == Init => SendInv
  <1> SUFFICES ASSUME Init PROVE SendInv
    OBVIOUS
  <1>1. TypeOK
    BY InitType
  <1>2. /\ ledger = <<>> /\ DOMAIN ledger = {}
        /\ \A r \in Runs : /\ pc[r] = "idle"
                           /\ executions[r] = NoExecution(args[r])
                           /\ pending[r] = NoExecution(args[r])
    BY DEF Init
  <1>3. \A r \in Runs : executions[r].status = "none" /\ pending[r].status = "none"
    <2>1. \A r \in Runs : NoExecution(args[r]).status = "none"
      BY DEF NoExecution, NewExecution
    <2> QED BY <1>2, <2>1
  <1>4. SendersHaveExecution
    BY <1>2 DEF SendersHaveExecution, Sending
  <1>5. KeyHeldOnce
    BY <1>3 DEF KeyHeldOnce, HoldsKey, InTransaction
  <1>6. LedgerRunsStarted /\ AuditBeforeSend /\ PiecesSentOnce
    BY <1>2 DEF LedgerRunsStarted, AuditBeforeSend, PiecesSentOnce
  <1> QED BY <1>1, <1>4, <1>5, <1>6 DEF SendInv

LEMMA NextSend == SendInv /\ [Next]_vars => SendInv'
  <1> SUFFICES ASSUME SendInv, [Next]_vars PROVE SendInv'
    OBVIOUS
  <1>1. TypeOK'
    BY NextType DEF SendInv
  <1>2. ASSUME NEW r \in Runs,
               \/ Launch(r) \/ RecordRefusal(r) \/ Crash(r)
               \/ SendAccepted(r) \/ SendReplyLost(r) \/ SendRejected(r)
        PROVE  SendInv'
    BY <1>1, <1>2, LaunchStep, RecordRefusalStep, CrashStep, BroadcastStep, SendRejectedStep
  <1>3. CASE SingleNext
    BY <1>1, <1>3, LoadStep, InsertDraftStep, RecordRowsSentStep, MarkRefusedStep,
       MarkSentStep, ConfirmStep DEF SingleNext
  <1>4. CASE ChunkedNext
    BY <1>1, <1>4, LoadStep, InsertChunkedStep, RecordChunkSentStep,
       CommitPartialSentStep, CommitSentStep, ConfirmStep DEF ChunkedNext
  <1>5. CASE Environment \/ UNCHANGED vars
    <2>1. UNCHANGED <<executions, ledger, pc, args, todo, inflight, pending>>
      BY <1>5 DEF Environment, CancelPlan, ChangeAddress, Mine, vars, tables, wallet, process
    <2> QED BY <1>1, <2>1, EnvironmentStep
  <1> QED BY <1>2, <1>3, <1>4, <1>5 DEF Next, WalletNext

\* The inductive invariant of all broadcasts, under every interleaving.
THEOREM SendInvariant == Spec => []SendInv
  <1> QED BY InitSend, NextSend, PTL DEF Spec

\* No broadcast without an audit record: every transaction of the single
\* executor belongs to an execution that was committed before it.
THEOREM AuditBeforeEverySend == Spec => []AuditBeforeSend
  <1>1. SendInv => AuditBeforeSend
    BY DEF SendInv
  <1> QED BY <1>1, SendInvariant, PTL

\* A piece of a plan is broadcast once by the one execution of its key.
LEMMA SendInvPaysOnce == SendInv => KeySendsOnce
  <1> SUFFICES ASSUME SendInv,
                      NEW t \in DOMAIN ledger, NEW u \in DOMAIN ledger, t # u,
                      IsSingle(t), IsSingle(u),
                      SamePlanKey(ledger[t].run, ledger[u].run)
               PROVE  RowsPaidBy(t) \cap RowsPaidBy(u) = {}
    BY DEF KeySendsOnce
  <1> DEFINE r == ledger[t].run
             p == args[r].plan
  <1>1. r \in Runs /\ ledger[u].run \in Runs
    BY LedgerType DEF SendInv
  <1>2. HoldsKey(r) /\ HoldsKey(ledger[u].run)
    BY DEF SendInv, AuditBeforeSend, HoldsKey
  <1>3. ledger[u].run = r
    BY <1>1, <1>2 DEF SendInv, KeyHeldOnce
  <1>4. /\ ledger[t].piece # ledger[u].piece
        /\ ledger[t].piece \in Pieces(args[r])
        /\ ledger[u].piece \in Pieces(args[r])
    BY <1>3 DEF SendInv, PiecesSentOnce
  <1>5. args[r].kind = Single /\ p \in Plans
    BY <1>1, InvocationsAssumption DEF IsSingle, SendInv, TypeOK, CommandLine
  <1>6. ledger[t].piece \in GroupPieces(p) /\ ledger[u].piece \in GroupPieces(p)
    BY <1>4, <1>5 DEF Pieces
  <1>7. RowsPaidBy(t) = SameAddress(p, ledger[t].piece.row)
        /\ RowsPaidBy(u) = SameAddress(p, ledger[u].piece.row)
    BY <1>3, <1>5 DEF RowsPaidBy, PieceRows
  <1> QED BY <1>4, <1>5, <1>6, <1>7, GroupsAreDisjoint

\* For any plans, keys, command lines and number of processes, interleaved or
\* killed anywhere, the single executor pays a plan row at most once per key.
THEOREM KeyPaysEachRowOnce == Spec => []KeySendsOnce
  BY SendInvPaysOnce, SendInvariant, PTL

-----------------------------------------------------------------------------
(* The records: what one execution record says, as the ledger grows and as *)
(* its run works on it.                                                    *)

LEMMA LedgerGrows ==
  ASSUME NEW L, NEW M, DOMAIN L \subseteq DOMAIN M, \A t \in DOMAIN L : M[t] = L[t],
         NEW r, NEW a, NEW x, NEW T
  PROVE  /\ \A c, t : PaidWith(L, r, c, t) => PaidWith(M, r, c, t)
         /\ RecordTrue(L, r, a, x) => RecordTrue(M, r, a, x)
         /\ PrefixSent(L, r, x) => PrefixSent(M, r, x)
         /\ Progress(L, r, a, x, T) => Progress(M, r, a, x, T)
  <1>1. \A c, t : PaidWith(L, r, c, t) => PaidWith(M, r, c, t)
    BY DEF PaidWith
  <1>2. \A c : Recorded(L, r, a, x, c) => Recorded(M, r, a, x, c)
    BY <1>1 DEF Recorded
  <1>3. RecordTrue(L, r, a, x) => RecordTrue(M, r, a, x)
    BY <1>2 DEF RecordTrue
  <1>4. PrefixSent(L, r, x) => PrefixSent(M, r, x)
    BY <1>1 DEF PrefixSent
  <1>5. Progress(L, r, a, x, T) => Progress(M, r, a, x, T)
    BY <1>2 DEF Progress
  <1> QED BY <1>1, <1>3, <1>4, <1>5

\* The lines of a piece are lines of the record.
LEMMA LinesOfPiece ==
  ASSUME NEW a \in Invocations, NEW c \in Pieces(a)
  PROVE  /\ a.kind = Single => /\ PieceRows(a, c) \subseteq RowIds(a.plan)
                               /\ \A x : LinesFor(a, x, c) =
                                            {x.rows[n] : n \in PieceRows(a, c)}
         /\ a.kind # Single => /\ a.kind = Chunked /\ c \in ChunkIds(a)
                               /\ \A x : LinesFor(a, x, c) = {x.chunks[c]}
  <1>1. a.kind \in {Single, Chunked} /\ Single # Chunked
    BY InvocationsAssumption DEF CommandLine, Single, Chunked
  <1> QED BY <1>1 DEF PieceRows, SameAddress, LinesFor, ChunkIds

\* The single executor's pieces, row by row.
LEMMA RowsOfPiece ==
  ASSUME NEW a \in Invocations, a.kind = Single, NEW c \in Pieces(a), NEW x, NEW L, NEW r
  PROVE  /\ Recorded(L, r, a, x, c) <=>
               \A n \in PieceRows(a, c) :
                  x.rows[n].status \in Paid /\ PaidWith(L, r, c, x.rows[n].txid)
         /\ \A s : (\A line \in LinesFor(a, x, c) : line.status = s) <=>
                      (\A n \in PieceRows(a, c) : x.rows[n].status = s)
  <1>1. LinesFor(a, x, c) = {x.rows[n] : n \in PieceRows(a, c)}
    BY LinesOfPiece
  <1>2. Recorded(L, r, a, x, c) <=>
               \A n \in PieceRows(a, c) :
                  x.rows[n].status \in Paid /\ PaidWith(L, r, c, x.rows[n].txid)
    BY <1>1 DEF Recorded
  <1> QED BY <1>1, <1>2

\* The pieces of a run of the single executor do not share rows.
LEMMA PiecesAreDisjoint ==
  ASSUME NEW a \in Invocations, a.kind = Single, NEW c \in Pieces(a), NEW d \in Pieces(a),
         NEW n \in PieceRows(a, c), n \in PieceRows(a, d)
  PROVE  c = d
  <1>1. a.plan \in Plans
    BY InvocationsAssumption DEF CommandLine
  <1> QED BY <1>1, GroupsAreDisjoint DEF Pieces, PieceRows

\* A record in which every line has one status that is not paid.
LEMMA BlankRecord ==
  ASSUME NEW L, NEW r, NEW a \in Invocations,
         NEW h \in {"none", "draft", "refused"}, NEW u \in {"none", "draft", "refused"},
         NEW v \in {"none", "draft", "refused"}
  PROVE  LET x == NewExecution(a, h, u, v)
         IN /\ RecordTrue(L, r, a, x) /\ PrefixSent(L, r, x) /\ TxidsBelongToPaid(x)
            /\ x.status = h
  <1> DEFINE x == NewExecution(a, h, u, v)
  <1>1. /\ x.status = h /\ x.txid = 0
        /\ DOMAIN x.rows = RowIds(a.plan) /\ DOMAIN x.chunks = ChunkIds(a)
        /\ \A n \in RowIds(a.plan) : x.rows[n].status = u /\ x.rows[n].txid = 0
        /\ \A c \in ChunkIds(a) : x.chunks[c].status = v /\ x.chunks[c].txid = 0
    BY DEF NewExecution, Line
  <1> HIDE DEF x
  <1>2. \A c \in Pieces(a) : \A line \in LinesFor(a, x, c) : line.status \in {u, v}
    <2> SUFFICES ASSUME NEW c \in Pieces(a), NEW line \in LinesFor(a, x, c)
                 PROVE  line.status \in {u, v}
      OBVIOUS
    <2> QED BY <1>1, LinesOfPiece
  <1>3. RecordTrue(L, r, a, x)
    BY <1>1, <1>2 DEF RecordTrue, Paid
  <1>4. PrefixSent(L, r, x) /\ TxidsBelongToPaid(x)
    BY <1>1 DEF PrefixSent, TxidsBelongToPaid
  <1> QED BY <1>1, <1>3, <1>4 DEF x

\* The record a run inserts: everything is still to do.
LEMMA NewDraft ==
  ASSUME NEW L, NEW r, NEW a \in Invocations,
         NEW v \in {"none", "draft"}, v = IF a.kind = Single THEN "none" ELSE "draft"
  PROVE  Progress(L, r, a, NewExecution(a, "draft", "draft", v), Pieces(a))
  <1> DEFINE x == NewExecution(a, "draft", "draft", v)
  <1>1. /\ x.status = "draft"
        /\ DOMAIN x.rows = RowIds(a.plan) /\ DOMAIN x.chunks = ChunkIds(a)
        /\ \A n \in RowIds(a.plan) : x.rows[n].status = "draft"
        /\ \A c \in ChunkIds(a) : x.chunks[c].status = v
    BY DEF NewExecution, Line
  <1>2. TxidsBelongToPaid(x)
    BY BlankRecord
  <1> HIDE DEF x
  <1>3. a.kind = Single => ChunkIds(a) = {}
    BY DEF ChunkIds, Single, Chunked
  <1>4. \A c \in Pieces(a) : \A line \in LinesFor(a, x, c) : line.status = "draft"
    <2> SUFFICES ASSUME NEW c \in Pieces(a), NEW line \in LinesFor(a, x, c)
                 PROVE  line.status = "draft"
      OBVIOUS
    <2> QED BY <1>1, LinesOfPiece
  <1>5. Progress(L, r, a, x, Pieces(a))
    BY <1>1, <1>2, <1>3, <1>4 DEF Progress
  <1> QED BY <1>5 DEF x

\* While a run works, its record claims only what was paid.
LEMMA ProgressIsTrue ==
  ASSUME NEW L, NEW r, NEW a, NEW x, NEW T, Progress(L, r, a, x, T)
  PROVE  RecordTrue(L, r, a, x) /\ PrefixSent(L, r, x) /\ LinesSound(a, x)
  BY DEF Progress, RecordTrue, PrefixSent, LinesSound, Paid

\* A record keeps what it says, and one that is not there says nothing.
LEMMA NothingToKeep ==
  ASSUME NEW x, NEW y, NEW a
  PROVE  Settled(x, x) /\ Settled(NoExecution(a), y)
  <1>1. Settled(x, x)
    BY DEF Settled
  <1> DEFINE z == NoExecution(a)
  <1>2. /\ z.status = "none" /\ z.txid = 0
        /\ \A n \in DOMAIN z.rows : z.rows[n].status = "none" /\ z.rows[n].txid = 0
        /\ \A c \in DOMAIN z.chunks : z.chunks[c].status = "none" /\ z.chunks[c].txid = 0
    BY DEF NoExecution, NewExecution, Line
  <1> HIDE DEF z
  <1>3. Settled(z, y)
    BY <1>2 DEF Settled, Paid
  <1> QED BY <1>1, <1>3 DEF z

\* Recording the rows of the first piece to do.
LEMMA RowsRecorded ==
  ASSUME NEW L, NEW r, NEW a \in Invocations, a.kind = Single, NEW x, NEW y,
         NEW T, T \subseteq Pieces(a), NEW c \in T, IsFirst(c, T),
         NEW t, PaidWith(L, r, c, t), Progress(L, r, a, x, T),
         x.rows \in [RowIds(a.plan) -> LineType],
         y.status = x.status, y.txid = x.txid, y.chunks = x.chunks,
         y.rows = [n \in RowIds(a.plan) |->
                     IF n \in PieceRows(a, c) /\ x.rows[n].status = "draft"
                     THEN Line("sent", t) ELSE x.rows[n]]
  PROVE  Progress(L, r, a, y, T \ {c}) /\ Settled(x, y)
  <1>1. /\ DOMAIN x.rows = RowIds(a.plan) /\ DOMAIN y.rows = RowIds(a.plan)
        /\ Line("sent", t).status = "sent" /\ Line("sent", t).txid = t
    BY DEF Line
  <1>2. \A d \in T : \A n \in PieceRows(a, d) : x.rows[n].status = "draft"
    BY LinesOfPiece DEF Progress
  <1>3. \A d \in Pieces(a) \ T : \A n \in PieceRows(a, d) :
            x.rows[n].status \in Paid /\ PaidWith(L, r, d, x.rows[n].txid)
    BY LinesOfPiece DEF Progress, Recorded
  <1>4. ASSUME NEW d \in Pieces(a) \ {c}, NEW n \in PieceRows(a, d)
        PROVE  y.rows[n] = x.rows[n]
    BY <1>4, PiecesAreDisjoint, LinesOfPiece
  <1>5. ASSUME NEW n \in PieceRows(a, c) PROVE y.rows[n] = Line("sent", t)
    BY <1>2, LinesOfPiece
  <1>6. y.status = "draft" /\ TxidsBelongToPaid(y)
    BY <1>1 DEF Progress, TxidsBelongToPaid, Paid
  <1>7. /\ \A n \in DOMAIN y.rows : y.rows[n].status \in {"draft", "sent"}
        /\ \A d \in DOMAIN y.chunks : y.chunks[d].status \in {"draft", "sent"}
    BY <1>1 DEF Progress
  <1>8. ASSUME NEW d \in Pieces(a) \ (T \ {c}) PROVE Recorded(L, r, a, y, d)
    <2>1. CASE d = c
      <3>1. \A n \in PieceRows(a, c) :
               y.rows[n].status \in Paid /\ PaidWith(L, r, c, y.rows[n].txid)
        BY <1>1, <1>5 DEF Paid
      <3> QED BY <2>1, <3>1, RowsOfPiece
    <2>2. CASE d # c
      <3>1. \A n \in PieceRows(a, d) :
               y.rows[n].status \in Paid /\ PaidWith(L, r, d, y.rows[n].txid)
        BY <1>3, <1>4, <2>2
      <3> QED BY <3>1, RowsOfPiece
    <2> QED BY <2>1, <2>2
  <1>9. ASSUME NEW d \in T \ {c}, NEW line \in LinesFor(a, y, d) PROVE line.status = "draft"
    <2>1. \A n \in PieceRows(a, d) : y.rows[n].status = "draft"
      BY <1>2, <1>4
    <2> QED BY <2>1, RowsOfPiece
  <1>10. \A d \in Pieces(a) \ (T \ {c}) : \A e \in T \ {c} : Before(d, e)
    BY DEF Progress, IsFirst
  <1>11. Settled(x, y)
    BY <1>1 DEF Progress, TxidsBelongToPaid, Settled, Paid
  <1> QED BY <1>6, <1>7, <1>8, <1>9, <1>10, <1>11 DEF Progress

\* Recording the chunk of the first piece to do.
LEMMA ChunkRecorded ==
  ASSUME NEW L, NEW r, NEW a \in Invocations, a.kind # Single, NEW x, NEW y,
         NEW T, T \subseteq Pieces(a), NEW c \in T, IsFirst(c, T),
         NEW t, PaidWith(L, r, c, t), Progress(L, r, a, x, T),
         x.chunks \in [ChunkIds(a) -> LineType],
         y.status = x.status, y.txid = x.txid, y.rows = x.rows,
         y.chunks = [x.chunks EXCEPT ![c] = Line("sent", t)]
  PROVE  Progress(L, r, a, y, T \ {c})
  <1>1. /\ DOMAIN x.chunks = ChunkIds(a) /\ DOMAIN y.chunks = ChunkIds(a)
        /\ Line("sent", t).status = "sent" /\ Line("sent", t).txid = t
    BY DEF Line
  <1>2. y.chunks[c] = Line("sent", t) /\ \A d \in Pieces(a) \ {c} : y.chunks[d] = x.chunks[d]
    BY LinesOfPiece
  <1>3. \A d \in Pieces(a) : /\ LinesFor(a, x, d) = {x.chunks[d]}
                             /\ LinesFor(a, y, d) = {y.chunks[d]}
    BY LinesOfPiece
  <1>6. y.status = "draft" /\ TxidsBelongToPaid(y)
    BY <1>1 DEF Progress, TxidsBelongToPaid, Paid
  <1>7. /\ \A n \in DOMAIN y.rows : y.rows[n].status \in {"draft", "sent"}
        /\ \A d \in DOMAIN y.chunks : y.chunks[d].status \in {"draft", "sent"}
    BY <1>1 DEF Progress
  <1>8. ASSUME NEW d \in Pieces(a) \ (T \ {c}) PROVE Recorded(L, r, a, y, d)
    <2>1. CASE d = c
      BY <1>1, <1>2, <1>3, <2>1 DEF Recorded, Paid
    <2>2. CASE d # c
      BY <1>2, <1>3, <2>2 DEF Recorded, Progress
    <2> QED BY <2>1, <2>2
  <1>9. ASSUME NEW d \in T \ {c}, NEW line \in LinesFor(a, y, d) PROVE line.status = "draft"
    BY <1>2, <1>3 DEF Progress
  <1>10. \A d \in Pieces(a) \ (T \ {c}) : \A e \in T \ {c} : Before(d, e)
    BY DEF Progress, IsFirst
  <1> QED BY <1>6, <1>7, <1>8, <1>9, <1>10 DEF Progress

\* Giving up: the header and the rows that are not sent are refused.
LEMMA RowsRefused ==
  ASSUME NEW L, NEW r, NEW a \in Invocations, a.kind = Single, NEW x, NEW y,
         NEW T, Progress(L, r, a, x, T), x.rows \in [RowIds(a.plan) -> LineType],
         y.status = "refused", y.txid = x.txid, y.chunks = x.chunks,
         y.rows = [n \in RowIds(a.plan) |->
                     IF x.rows[n].status = "sent" THEN x.rows[n] ELSE Line("refused", 0)]
  PROVE  /\ RecordTrue(L, r, a, y) /\ PrefixSent(L, r, y) /\ LinesSound(a, y)
         /\ Settled(x, y)
  <1>1. /\ DOMAIN x.rows = RowIds(a.plan) /\ DOMAIN y.rows = RowIds(a.plan)
        /\ Line("refused", 0).status = "refused" /\ Line("refused", 0).txid = 0
        /\ x.txid = 0
    BY DEF Line, Progress, TxidsBelongToPaid, Paid
  <1>2. LinesSound(a, y) /\ PrefixSent(L, r, y)
    BY <1>1 DEF LinesSound, PrefixSent, Progress, TxidsBelongToPaid, Paid
  <1>3. ASSUME NEW c \in Pieces(a), NEW n \in PieceRows(a, c), y.rows[n].status \in Paid
        PROVE  Recorded(L, r, a, y, c)
    <2>1. n \in RowIds(a.plan) /\ x.rows[n].status = "sent"
      BY <1>1, <1>3, LinesOfPiece DEF Paid
    <2>2. c \notin T
      BY <2>1, LinesOfPiece DEF Progress
    <2>3. \A m \in PieceRows(a, c) :
             x.rows[m].status \in Paid /\ PaidWith(L, r, c, x.rows[m].txid)
      BY <2>2, RowsOfPiece DEF Progress
    <2>4. \A m \in PieceRows(a, c) : m \in RowIds(a.plan) /\ x.rows[m].status = "sent"
      BY <1>1, <2>3, LinesOfPiece DEF Progress, Paid
    <2>5. \A m \in PieceRows(a, c) : y.rows[m] = x.rows[m]
      BY <2>4
    <2> QED BY <2>3, <2>5, RowsOfPiece
  <1>4. RecordTrue(L, r, a, y)
    BY <1>3, LinesOfPiece DEF RecordTrue, Paid
  <1>5. Settled(x, y)
    BY <1>1 DEF Progress, TxidsBelongToPaid, Settled, Paid
  <1> QED BY <1>2, <1>4, <1>5

\* Nothing is left to do: every piece is recorded, and stays so under a new
\* header, and under new rows if the pieces are chunks.
LEMMA AllRecorded ==
  ASSUME NEW L, NEW r, NEW a \in Invocations, NEW x, NEW y, NEW t,
         Progress(L, r, a, x, {}), y.status = "sent", y.txid = t, y.chunks = x.chunks,
         \/ y.rows = x.rows
         \/ a.kind # Single /\ \A n \in DOMAIN y.rows : y.rows[n] = Line("sent", t)
  PROVE  /\ RecordTrue(L, r, a, y) /\ PrefixSent(L, r, y) /\ LinesSound(a, y)
         /\ y.rows = x.rows => Settled(x, y)
  <1>1. LinesSound(a, y) /\ PrefixSent(L, r, y)
    BY DEF LinesSound, PrefixSent, Progress, TxidsBelongToPaid, Paid, Line
  <1>2. ASSUME NEW c \in Pieces(a) PROVE Recorded(L, r, a, y, c)
    <2>1. Recorded(L, r, a, x, c)
      BY DEF Progress
    <2>2. LinesFor(a, x, c) = LinesFor(a, y, c)
      <3>1. CASE a.kind = Single
        BY <3>1, Single # Chunked DEF LinesFor, Single, Chunked
      <3>2. CASE a.kind # Single
        <4>1. /\ LinesFor(a, x, c) = {x.chunks[c]}
              /\ LinesFor(a, y, c) = {y.chunks[c]}
          BY <3>2, LinesOfPiece
        <4> QED BY <4>1
      <3> QED BY <3>1, <3>2
    <2> QED BY <2>1, <2>2 DEF Recorded
  <1>3. y.rows = x.rows => Settled(x, y)
    BY DEF Progress, TxidsBelongToPaid, Settled, Paid
  <1> QED BY <1>1, <1>2, <1>3 DEF RecordTrue

\* A chunk could not be sent: those before it are recorded.
LEMMA ChunkRefused ==
  ASSUME NEW L, NEW r, NEW a \in Invocations, a.kind # Single, NEW x, NEW y,
         NEW T, T \subseteq Pieces(a), NEW c \in T, IsFirst(c, T),
         Progress(L, r, a, x, T), x.chunks \in [ChunkIds(a) -> LineType],
         y.status = "partial_sent", y.txid = x.txid, y.rows = x.rows,
         y.chunks = [x.chunks EXCEPT ![c] = Line("refused", 0)]
  PROVE  RecordTrue(L, r, a, y) /\ PrefixSent(L, r, y) /\ LinesSound(a, y)
  <1>1. /\ DOMAIN x.chunks = ChunkIds(a) /\ DOMAIN y.chunks = ChunkIds(a)
        /\ Line("refused", 0).status = "refused" /\ Line("refused", 0).txid = 0
        /\ x.txid = 0
    BY DEF Line, Progress, TxidsBelongToPaid, Paid
  <1>2. LinesSound(a, y)
    BY <1>1 DEF LinesSound, Progress, TxidsBelongToPaid, Paid
  <1>3. /\ ChunkIds(a) = Pieces(a)
        /\ y.chunks[c] = Line("refused", 0)
        /\ \A d \in Pieces(a) \ {c} : y.chunks[d] = x.chunks[d]
        /\ \A d \in Pieces(a) : /\ LinesFor(a, x, d) = {x.chunks[d]}
                                /\ LinesFor(a, y, d) = {y.chunks[d]}
    BY LinesOfPiece DEF ChunkIds
  <1>4. ASSUME NEW d \in Pieces(a) \ T
        PROVE  /\ y.chunks[d] = x.chunks[d] /\ y.chunks[d].status = "sent"
               /\ PaidWith(L, r, d, y.chunks[d].txid) /\ Before(d, c)
    <2>1. x.chunks[d].status \in Paid /\ PaidWith(L, r, d, x.chunks[d].txid) /\ Before(d, c)
      BY <1>3 DEF Progress, Recorded
    <2> QED BY <1>1, <1>3, <2>1 DEF Progress, Paid
  <1>5. ASSUME NEW d \in T \ {c}
        PROVE  y.chunks[d].status = "draft" /\ Before(c, d)
    BY <1>3 DEF Progress, IsFirst
  <1>6. c.row \in Nat /\ c.index \in Nat
        /\ \A d \in T : d.row \in Nat /\ d.index \in Nat /\ (Before(c, d) => ~ Before(d, c))
    BY PiecesType DEF Piece, Before
  <1>7. PrefixSent(L, r, y)
    BY <1>1, <1>3, <1>4, <1>5, <1>6 DEF PrefixSent
  <1>8. RecordTrue(L, r, a, y)
    <2>1. \A d \in T : y.chunks[d].status \notin Paid
      BY <1>1, <1>3, <1>5 DEF Paid
    <2> QED BY <1>3, <1>4, <2>1 DEF RecordTrue, Recorded, Paid
  <1> QED BY <1>2, <1>7, <1>8

\* mark-confirmed keeps the transactions that the lines name.
LEMMA LinesConfirmed ==
  ASSUME NEW L, NEW r, NEW a \in Invocations, NEW x, NEW y,
         x \in ExecutionType(a), RecordTrue(L, r, a, x), LinesSound(a, x), x.status = "sent",
         y.status = "confirmed", y.txid = x.txid, y.rows = ConfirmSentLines(x.rows),
         y.chunks = x.chunks \/ y.chunks = ConfirmSentLines(x.chunks)
  PROVE  /\ RecordTrue(L, r, a, y) /\ PrefixSent(L, r, y) /\ LinesSound(a, y)
         /\ Settled(x, y)
  <1>1. /\ DOMAIN y.rows = DOMAIN x.rows /\ DOMAIN y.chunks = DOMAIN x.chunks
        /\ DOMAIN x.rows = RowIds(a.plan) /\ DOMAIN x.chunks = ChunkIds(a)
    BY DEF ConfirmSentLines, ExecutionType
  <1>2. /\ \A n \in DOMAIN x.rows : /\ y.rows[n].txid = x.rows[n].txid
                                    /\ x.rows[n].status \in Paid => y.rows[n].status \in Paid
        /\ \A c \in DOMAIN x.chunks :
              /\ y.chunks[c].txid = x.chunks[c].txid
              /\ x.chunks[c].status \in Paid => y.chunks[c].status \in Paid
    BY <1>1 DEF ConfirmSentLines, Line, Paid
  <1>3. LinesSound(a, y) /\ PrefixSent(L, r, y)
    BY <1>1, <1>2 DEF LinesSound, PrefixSent, TxidsBelongToPaid, Paid
  <1>4. ASSUME NEW c \in Pieces(a) PROVE Recorded(L, r, a, y, c)
    <2>1. Recorded(L, r, a, x, c)
      BY DEF RecordTrue, Paid
    <2>2. CASE a.kind = Single
      BY <1>1, <1>2, <2>1, <2>2, LinesOfPiece DEF Recorded
    <2>3. CASE a.kind # Single
      BY <1>1, <1>2, <2>1, <2>3, LinesOfPiece DEF Recorded
    <2> QED BY <2>2, <2>3
  <1>5. Settled(x, y)
    BY <1>1, <1>2 DEF Settled
  <1> QED BY <1>3, <1>4, <1>5 DEF RecordTrue

-----------------------------------------------------------------------------
(* The inductive invariant RecordInv.                                      *)

\* What RecordInv says of one run.
RunTrue(r) ==
    /\ RecordTrue(ledger, r, args[r], executions[r])
    /\ PrefixSent(ledger, r, executions[r])
    /\ RunSound(r)

KeepsSettled == \A q \in Runs : Settled(executions[q], executions'[q])

\* Only the execution of r changes.
LEMMA OthersSettled ==
  ASSUME NEW r \in Runs, \A q \in Runs \ {r} : executions'[q] = executions[q],
         Settled(executions[r], executions'[r])
  PROVE  KeepsSettled
  BY NothingToKeep DEF KeepsSettled

\* The first execution of a run.
LEMMA FirstRecordSettled ==
  ASSUME NEW r \in Runs, RunTrue(r), executions[r].status = "none", NEW y
  PROVE  Settled(executions[r], y)
  <1>1. executions[r] = NoExecution(args[r])
    BY DEF RunTrue, RunSound, LinesSound
  <1> QED BY <1>1, NothingToKeep

LEMMA RecordInvParts ==
  /\ RecordInv <=> SendInv /\ AtMostOneUnrecorded /\ \A r \in Runs : RunTrue(r)
  /\ RecordInv' <=> SendInv' /\ AtMostOneUnrecorded' /\ \A r \in Runs : RunTrue(r)'
  BY DEF RecordInv, RecordsSound, RecordIsTrue, PartialSentPrefix, RunTrue

LEMMA ArgsType ==
  ASSUME TypeOK, NEW r \in Runs
  PROVE  args[r] \in Invocations /\ args[r].kind \in {Single, Chunked} /\ Single # Chunked
  BY InvocationsAssumption DEF TypeOK, CommandLine, Single, Chunked

\* A run that takes no step, while others may broadcast.
LEMMA OtherRun ==
  ASSUME NEW q \in Runs, RunTrue(q), args' = args,
         DOMAIN ledger \subseteq DOMAIN ledger', \A t \in DOMAIN ledger : ledger'[t] = ledger[t],
         executions'[q] = executions[q], pending'[q] = pending[q], pc'[q] = pc[q],
         todo'[q] = todo[q], inflight'[q] = inflight[q]
  PROVE  RunTrue(q)'
  <1>1. PICK L, M : L = ledger /\ M = ledger'
    OBVIOUS
  <1>2. PICK a, x, y, T, f, p :
          /\ a = args[q] /\ x = executions[q] /\ T = todo[q] /\ f = inflight[q] /\ p = pc[q]
          /\ y = WorkRecord(q)
    OBVIOUS
  <1>3. a = args'[q] /\ x = executions'[q] /\ T = todo'[q] /\ f = inflight'[q]
        /\ p = pc'[q] /\ y = WorkRecord(q)'
    BY <1>2 DEF WorkRecord
  <1>4. /\ \A c, t : PaidWith(L, q, c, t) => PaidWith(M, q, c, t)
        /\ RecordTrue(L, q, a, x) => RecordTrue(M, q, a, x)
        /\ PrefixSent(L, q, x) => PrefixSent(M, q, x)
        /\ Progress(L, q, a, y, T) => Progress(M, q, a, y, T)
    BY <1>1, LedgerGrows
  <1>5. RecordTrue(M, q, a, x) /\ PrefixSent(M, q, x) /\ LinesSound(a, x)
    BY <1>1, <1>2, <1>4 DEF RunTrue, RunSound
  <1>6. ProgressSound(q)'
    BY <1>1, <1>2, <1>3, <1>4 DEF RunTrue, RunSound, ProgressSound
  <1>7. InflightSound(q)'
    BY <1>1, <1>2, <1>3, <1>4 DEF RunTrue, RunSound, InflightSound
  <1> QED BY <1>1, <1>3, <1>5, <1>6, <1>7 DEF RunTrue, RunSound

\* A step of r to a state in which it does not send.
LEMMA RunStops ==
  ASSUME NEW r \in Runs, ledger' = ledger, args' = args,
         pc'[r] \notin Sending, pc'[r] # "inserting",
         RecordTrue(ledger, r, args[r], executions'[r]),
         PrefixSent(ledger, r, executions'[r]), LinesSound(args[r], executions'[r])
  PROVE  RunTrue(r)'
  BY DEF RunTrue, RunSound, ProgressSound, InflightSound, Sending

\* ... and leaves its execution alone.
LEMMA RunStopsUnchanged ==
  ASSUME NEW r \in Runs, RunTrue(r), ledger' = ledger, args' = args,
         pc'[r] \notin Sending, pc'[r] # "inserting", executions'[r] = executions[r]
  PROVE  RunTrue(r)'
  BY RunStops DEF RunTrue, RunSound

\* The transactions of a sending run whose pieces are done are in its rows.
LEMMA RecordedTransaction ==
  ASSUME SendInv, NEW t \in DOMAIN ledger, IsSingle(t), RunTrue(ledger[t].run),
         pc[ledger[t].run] \in Sending, ledger[t].piece \notin todo[ledger[t].run],
         NEW n \in RowsPaidBy(t)
  PROVE  executions[ledger[t].run].rows[n].txid = t
  <1> DEFINE r == ledger[t].run
             c == ledger[t].piece
             x == executions[r]
  <1>1. r \in Runs /\ args[r].kind = Single /\ args[r] \in Invocations
    BY LedgerType, ArgsType DEF SendInv, IsSingle
  <1>2. c \in Pieces(args[r])
    BY DEF SendInv, PiecesSentOnce
  <1>3. Recorded(ledger, r, args[r], x, c)
    BY <1>1, <1>2 DEF RunTrue, RunSound, ProgressSound, Progress, WorkRecord
  <1>4. n \in PieceRows(args[r], c)
    BY DEF RowsPaidBy
  <1>5. PaidWith(ledger, r, c, x.rows[n].txid)
    BY <1>1, <1>2, <1>3, <1>4, RowsOfPiece
  <1> QED BY <1>5 DEF PaidWith, SendInv, PiecesSentOnce

\* A step of r that broadcasts nothing.
LEMMA UnrecordedStep ==
  ASSUME SendInv, AtMostOneUnrecorded, NEW r \in Runs, UNCHANGED <<args, ledger>>,
         \A q \in Runs \ {r} : executions'[q] = executions[q] /\ pc'[q] = pc[q],
         \A t \in DOMAIN ledger :
            /\ ledger[t].run = r /\ IsSingle(t)
            /\ \E n \in RowsPaidBy(t) : executions'[r].rows[n].txid # t
            => /\ \E n \in RowsPaidBy(t) : executions[r].rows[n].txid # t
               /\ \/ pc'[r] \in {"recording", "failing", "crashed"}
                  \/ pc'[r] = "done" /\ executions'[r].status = "refused"
  PROVE  AtMostOneUnrecorded'
  <1> SUFFICES ASSUME NEW t \in DOMAIN ledger, IsSingle(t),
                      \E n \in RowsPaidBy(t) : executions'[ledger[t].run].rows[n].txid # t
               PROVE  /\ \A u \in DOMAIN ledger : ledger[u].run = ledger[t].run => u <= t
                      /\ \/ pc'[ledger[t].run] \in {"recording", "failing", "crashed"}
                         \/ /\ pc'[ledger[t].run] = "done"
                            /\ executions'[ledger[t].run].status = "refused"
    BY DEF AtMostOneUnrecorded, IsSingle, RowsPaidBy
  <1>1. ledger[t].run \in Runs
    BY LedgerType DEF SendInv
  <1>2. CASE ledger[t].run = r
    BY <1>2 DEF AtMostOneUnrecorded
  <1>3. CASE ledger[t].run # r
    BY <1>1, <1>3 DEF AtMostOneUnrecorded
  <1> QED BY <1>2, <1>3

\* Nothing of a run is unrecorded before it sends, nor when it is about to
\* send or has sent everything.
LEMMA NothingUnrecorded ==
  ASSUME SendInv, AtMostOneUnrecorded, NEW r \in Runs,
         pc[r] \in {"idle", "loading", "refusing", "inserting", "sending", "finishing"},
         NEW t \in DOMAIN ledger, ledger[t].run = r, IsSingle(t)
  PROVE  \A n \in RowsPaidBy(t) : executions[r].rows[n].txid = t
  BY DEF AtMostOneUnrecorded

-----------------------------------------------------------------------------
(* Its steps, one lemma for each.                                          *)

\* Launch, Load, the refused inserts and the end of a crash: r stops, or goes on
\* to its insert with all its pieces, and its execution is as it was.
LEMMA LaunchRecord ==
  ASSUME RecordInv, NEW r \in Runs, Launch(r), SendInv' PROVE RecordInv'
  <1>1. /\ pc' = [pc EXCEPT ![r] = "loading"] /\ pc[r] = "idle"
        /\ UNCHANGED <<executions, ledger, args, todo, inflight, pending>>
    BY DEF Launch, tables, wallet
  <1>2. pc'[r] = "loading" /\ \A q \in Runs \ {r} : pc'[q] = pc[q]
    BY <1>1 DEF RecordInv, SendInv, TypeOK
  <1>3. SendInv /\ AtMostOneUnrecorded /\ \A q \in Runs : RunTrue(q)
    BY RecordInvParts
  <1>4. \A q \in Runs \ {r} : RunTrue(q)'
    BY <1>1, <1>2, <1>3, OtherRun
  <1>5. RunTrue(r)'
    BY <1>1, <1>2, <1>3, RunStopsUnchanged DEF Sending
  <1>6. AtMostOneUnrecorded'
    BY <1>1, <1>2, <1>3, NothingUnrecorded, UnrecordedStep
  <1> QED BY <1>4, <1>5, <1>6, RecordInvParts

LEMMA LoadRecord ==
  ASSUME RecordInv, NEW r \in Runs, LoadAndDecide(r) \/ ChunkedLoadAndDecide(r), SendInv'
  PROVE  RecordInv'
  <1>1. PICK s \in {"done", "failed", "refusing", "inserting"} :
          /\ pc' = [pc EXCEPT ![r] = s]
          /\ todo' = [todo EXCEPT ![r] = LoadedPieces(r)]
          /\ UNCHANGED <<executions, ledger, args, inflight, pending>>
          /\ pc[r] = "loading"
          /\ s = "inserting" => ~ PreviewRefused(r)
    BY DEF LoadAndDecide, ChunkedLoadAndDecide, tables, wallet, SingleRefused, ChunkedRefused
  <1>2. pc'[r] = s /\ todo'[r] = LoadedPieces(r)
        /\ \A q \in Runs \ {r} : pc'[q] = pc[q] /\ todo'[q] = todo[q]
    BY <1>1 DEF RecordInv, SendInv, TypeOK
  <1>3. SendInv /\ AtMostOneUnrecorded /\ \A q \in Runs : RunTrue(q)
    BY RecordInvParts
  <1>4. \A q \in Runs \ {r} : RunTrue(q)'
    BY <1>1, <1>2, <1>3, OtherRun
  <1>5. RunTrue(r)'
    <2>1. CASE s # "inserting"
      BY <1>1, <1>2, <1>3, <2>1, RunStopsUnchanged DEF Sending
    <2>2. CASE s = "inserting"
      <3>1. todo'[r] = Pieces(args[r])
        BY <1>1, <1>2, <2>2 DEF PreviewRefused, LoadedPieces
      <3> QED BY <1>1, <1>2, <1>3, <2>2, <3>1
              DEF RunTrue, RunSound, ProgressSound, InflightSound, Sending
    <2> QED BY <2>1, <2>2
  <1>6. AtMostOneUnrecorded'
    BY <1>1, <1>2, <1>3, NothingUnrecorded, UnrecordedStep
  <1> QED BY <1>4, <1>5, <1>6, RecordInvParts

LEMMA RecordRefusalRecord ==
  ASSUME RecordInv, NEW r \in Runs, RecordRefusal(r), SendInv'
  PROVE  RecordInv' /\ KeepsSettled
  <1> DEFINE x == NewExecution(args[r], "refused",
                               IF todo[r] = {} THEN "none" ELSE "refused", "none")
  <1>1. /\ pc[r] = "refusing"
        /\ UNCHANGED <<ledger, args, todo, inflight, pending>>
    BY DEF RecordRefusal, wallet
  <1>2. \/ pc' = [pc EXCEPT ![r] = "failed"] /\ UNCHANGED executions
        \/ /\ pc' = [pc EXCEPT ![r] = "done"] /\ executions' = [executions EXCEPT ![r] = x]
           /\ executions[r].status = "none"
    BY DEF RecordRefusal, ExistingByKey, SamePlanKey
  <1>3. SendInv /\ AtMostOneUnrecorded /\ \A q \in Runs : RunTrue(q)
    BY RecordInvParts
  <1>4. /\ RecordTrue(ledger, r, args[r], x) /\ PrefixSent(ledger, r, x)
        /\ LinesSound(args[r], x)
    <2>1. PICK L, a : L = ledger /\ a = args[r] /\ a \in Invocations
      BY <1>3, ArgsType DEF SendInv
    <2>2. PICK u \in {"none", "refused"} : u = IF todo[r] = {} THEN "none" ELSE "refused"
      OBVIOUS
    <2>3. LET y == NewExecution(a, "refused", u, "none")
          IN /\ RecordTrue(L, r, a, y) /\ PrefixSent(L, r, y) /\ TxidsBelongToPaid(y)
             /\ y.status = "refused"
      BY <2>1, BlankRecord
    <2> QED BY <2>1, <2>2, <2>3 DEF LinesSound
  <1> HIDE DEF x
  <1>5. /\ pc'[r] \in {"failed", "done"}
        /\ \/ executions'[r] = executions[r]
           \/ executions'[r] = x /\ executions[r].status = "none"
        /\ \A q \in Runs \ {r} : pc'[q] = pc[q] /\ executions'[q] = executions[q]
    BY <1>2, <1>3 DEF SendInv, TypeOK
  <1>6. \A q \in Runs \ {r} : RunTrue(q)'
    BY <1>1, <1>3, <1>5, OtherRun
  <1>7. RunTrue(r)'
    BY <1>1, <1>3, <1>4, <1>5, RunStops, RunStopsUnchanged DEF Sending
  <1>8. \A t \in DOMAIN ledger : ledger[t].run # r
    BY <1>1, <1>3 DEF SendInv, LedgerRunsStarted
  <1>9. AtMostOneUnrecorded'
    BY <1>1, <1>3, <1>5, <1>8, UnrecordedStep
  <1>10. KeepsSettled
    <2>1. Settled(executions[r], executions'[r])
      BY <1>3, <1>5, FirstRecordSettled, NothingToKeep
    <2> QED BY <1>5, <2>1, OthersSettled
  <1> QED BY <1>6, <1>7, <1>9, <1>10, RecordInvParts

LEMMA CrashRecord ==
  ASSUME RecordInv, NEW r \in Runs, Crash(r), SendInv' PROVE RecordInv'
  <1>1. /\ pc' = [pc EXCEPT ![r] = "crashed"] /\ pc[r] \notin Finished
        /\ pending' = [pending EXCEPT ![r] = NoExecution(args[r])]
        /\ UNCHANGED <<executions, ledger, args, todo, inflight>>
    BY DEF Crash, tables, wallet, Alive
  <1>2. pc'[r] = "crashed"
        /\ \A q \in Runs \ {r} : pc'[q] = pc[q] /\ pending'[q] = pending[q]
    BY <1>1 DEF RecordInv, SendInv, TypeOK
  <1>3. SendInv /\ AtMostOneUnrecorded /\ \A q \in Runs : RunTrue(q)
    BY RecordInvParts
  <1>4. \A q \in Runs \ {r} : RunTrue(q)'
    BY <1>1, <1>2, <1>3, OtherRun
  <1>5. RunTrue(r)'
    BY <1>1, <1>2, <1>3, RunStopsUnchanged DEF Sending
  <1>6. AtMostOneUnrecorded'
    BY <1>1, <1>2, <1>3, UnrecordedStep
  <1> QED BY <1>4, <1>5, <1>6, RecordInvParts

LEMMA EnvironmentRecord ==
  ASSUME RecordInv, SendInv',
         UNCHANGED <<executions, ledger, pc, args, todo, inflight, pending>>
  PROVE  RecordInv'
  <1>1. SendInv /\ AtMostOneUnrecorded /\ \A q \in Runs : RunTrue(q)
    BY RecordInvParts
  <1>2. \A q \in Runs : RunTrue(q)'
    BY <1>1, OtherRun
  <1>3. AtMostOneUnrecorded'
    BY <1>1 DEF AtMostOneUnrecorded, IsSingle, RowsPaidBy
  <1> QED BY <1>2, <1>3, RecordInvParts

\* The insert of a run: r holds nothing yet, and starts with all its pieces.
LEMMA InsertRecord ==
  ASSUME RecordInv, NEW r \in Runs, InsertDraft(r) \/ InsertChunked(r), SendInv'
  PROVE  RecordInv' /\ KeepsSettled
  <1> DEFINE v == IF args[r].kind = Single THEN "none" ELSE "draft"
             x == NewExecution(args[r], "draft", "draft", v)
  <1>1. SendInv /\ AtMostOneUnrecorded /\ \A q \in Runs : RunTrue(q)
    BY RecordInvParts
  <1>2. /\ pc[r] = "inserting"
        /\ UNCHANGED <<ledger, args, todo, inflight>>
    BY DEF InsertDraft, InsertChunked, wallet, tables
  <1>3. \/ pc' = [pc EXCEPT ![r] = "failed"] /\ UNCHANGED <<executions, pending>>
        \/ /\ args[r].kind = Single /\ ~ ExistingByKey(r)
           /\ pc' = [pc EXCEPT ![r] = "sending"]
           /\ executions' = [executions EXCEPT ![r] = x] /\ UNCHANGED pending
        \/ /\ args[r].kind # Single /\ ~ ExistingByKey(r)
           /\ pc' = [pc EXCEPT ![r] = "sending"]
           /\ pending' = [pending EXCEPT ![r] = x] /\ UNCHANGED executions
    <2>1. Single # Chunked
      BY DEF Single, Chunked
    <2>2. CASE InsertDraft(r)
      BY <2>2 DEF InsertDraft
    <2>3. CASE InsertChunked(r)
      BY <2>1, <2>3 DEF InsertChunked, tables
    <2> QED BY <2>2, <2>3
  <1>4. PICK L, a : L = ledger /\ a = args[r] /\ a \in Invocations
    BY <1>1, ArgsType DEF SendInv
  <1>5. /\ RecordTrue(ledger, r, args[r], x) /\ PrefixSent(ledger, r, x)
        /\ LinesSound(args[r], x)
        /\ Progress(ledger, r, args[r], x, Pieces(args[r]))
    <2>1. PICK w \in {"none", "draft"} : w = IF a.kind = Single THEN "none" ELSE "draft"
      OBVIOUS
    <2>2. LET y == NewExecution(a, "draft", "draft", w)
          IN /\ RecordTrue(L, r, a, y) /\ PrefixSent(L, r, y) /\ TxidsBelongToPaid(y)
             /\ y.status = "draft"
      BY <1>4, BlankRecord
    <2>3. Progress(L, r, a, NewExecution(a, "draft", "draft", w), Pieces(a))
      BY <1>4, <2>1, NewDraft
    <2> QED BY <1>4, <2>1, <2>2, <2>3 DEF LinesSound
  <1>6. todo[r] = Pieces(args[r])
    BY <1>1, <1>2 DEF RunTrue, RunSound, InflightSound
  <1>7. ~ ExistingByKey(r) => executions[r].status = "none"
    BY DEF ExistingByKey, SamePlanKey
  <1> HIDE DEF x
  <1>8. \A q \in Runs \ {r} : /\ pc'[q] = pc[q] /\ executions'[q] = executions[q]
                              /\ pending'[q] = pending[q]
    BY <1>1, <1>3 DEF SendInv, TypeOK
  <1>9. \A q \in Runs \ {r} : RunTrue(q)'
    BY <1>1, <1>2, <1>8, OtherRun
  <1>10. RunTrue(r)'
    <2>1. CASE pc' = [pc EXCEPT ![r] = "failed"] /\ UNCHANGED <<executions, pending>>
      <3>1. pc'[r] = "failed"
        BY <1>1, <2>1 DEF SendInv, TypeOK
      <3> QED BY <1>1, <1>2, <2>1, <3>1, RunStopsUnchanged DEF Sending
    <2>2. CASE /\ args[r].kind = Single
               /\ pc' = [pc EXCEPT ![r] = "sending"]
               /\ executions' = [executions EXCEPT ![r] = x]
      <3>1. pc'[r] = "sending" /\ executions'[r] = x /\ Single # Chunked
        BY <1>1, <2>2 DEF SendInv, TypeOK, Single, Chunked
      <3> QED BY <1>2, <1>5, <1>6, <2>2, <3>1
              DEF RunTrue, RunSound, ProgressSound, InflightSound, WorkRecord
    <2>3. CASE /\ args[r].kind # Single /\ ~ ExistingByKey(r)
               /\ pc' = [pc EXCEPT ![r] = "sending"]
               /\ pending' = [pending EXCEPT ![r] = x] /\ UNCHANGED executions
      <3>1. pc'[r] = "sending" /\ pending'[r] = x
        BY <1>1, <2>3 DEF SendInv, TypeOK
      <3> QED BY <1>1, <1>2, <1>5, <1>6, <1>7, <2>3, <3>1
              DEF RunTrue, RunSound, ProgressSound, InflightSound, WorkRecord
    <2> QED BY <1>3, <2>1, <2>2, <2>3
  <1>11. \A t \in DOMAIN ledger : ledger[t].run # r
    BY <1>1, <1>2 DEF SendInv, LedgerRunsStarted
  <1>12. AtMostOneUnrecorded'
    BY <1>1, <1>2, <1>8, <1>11, UnrecordedStep
  <1>13. KeepsSettled
    <2>1. executions[r].status = "none" \/ executions' = executions
      BY <1>3, <1>7
    <2>2. Settled(executions[r], executions'[r])
      BY <1>1, <2>1, FirstRecordSettled, NothingToKeep
    <2> QED BY <1>8, <2>2, OthersSettled
  <1> QED BY <1>9, <1>10, <1>12, <1>13, RecordInvParts

\* What a wallet call leaves of a run: its pieces are as they were, the first one
\* is inflight, and recorded is what the wallet has answered.
LEMMA CallRecord ==
  ASSUME NEW r \in Runs, RunTrue(r), pc[r] = "sending", args' = args,
         DOMAIN ledger \subseteq DOMAIN ledger', \A t \in DOMAIN ledger : ledger'[t] = ledger[t],
         UNCHANGED <<executions, pending, todo>>,
         NEW c \in todo[r], IsFirst(c, todo[r]), inflight'[r].piece = c,
         \/ pc'[r] = "failing"
         \/ pc'[r] = "recording" /\ PaidWith(ledger', r, c, inflight'[r].txid)
  PROVE  RunTrue(r)'
  <1>1. PICK L, M, a, x, y, T : /\ L = ledger /\ M = ledger' /\ a = args[r]
                                /\ x = executions[r] /\ T = todo[r] /\ y = WorkRecord(r)
    OBVIOUS
  <1>2. y = WorkRecord(r)'
    BY <1>1 DEF WorkRecord
  <1>3. /\ RecordTrue(L, r, a, x) => RecordTrue(M, r, a, x)
        /\ PrefixSent(L, r, x) => PrefixSent(M, r, x)
        /\ Progress(L, r, a, y, T) => Progress(M, r, a, y, T)
    BY <1>1, LedgerGrows
  <1>4. RecordTrue(M, r, a, x) /\ PrefixSent(M, r, x) /\ LinesSound(a, x)
    BY <1>1, <1>3 DEF RunTrue, RunSound
  <1>5. ProgressSound(r)'
    BY <1>1, <1>2, <1>3 DEF RunTrue, RunSound, ProgressSound, Sending
  <1>6. InflightSound(r)'
    BY DEF InflightSound
  <1> QED BY <1>1, <1>4, <1>5, <1>6 DEF RunTrue, RunSound

LEMMA SendRejectedRecord ==
  ASSUME RecordInv, NEW r \in Runs, SendRejected(r), SendInv' PROVE RecordInv'
  <1>1. SendInv /\ AtMostOneUnrecorded /\ \A q \in Runs : RunTrue(q)
    BY RecordInvParts
  <1>2. PICK c \in todo[r] :
          /\ IsFirst(c, todo[r])
          /\ inflight' = [inflight EXCEPT
                            ![r] = [piece |-> c, txid |-> 0, first |-> @.first]]
    BY DEF SendRejected
  <1>3. /\ pc' = [pc EXCEPT ![r] = "failing"] /\ pc[r] = "sending"
        /\ UNCHANGED <<executions, ledger, args, todo, pending>>
    BY DEF SendRejected, tables, wallet
  <1>4. pc'[r] = "failing" /\ inflight'[r].piece = c
        /\ \A q \in Runs \ {r} : pc'[q] = pc[q] /\ inflight'[q] = inflight[q]
    BY <1>1, <1>2, <1>3 DEF SendInv, TypeOK
  <1>5. \A q \in Runs \ {r} : RunTrue(q)'
    BY <1>1, <1>3, <1>4, OtherRun
  <1>6. RunTrue(r)'
    BY <1>1, <1>2, <1>3, <1>4, CallRecord
  <1>7. AtMostOneUnrecorded'
    BY <1>1, <1>3, <1>4, NothingUnrecorded, UnrecordedStep
  <1> QED BY <1>5, <1>6, <1>7, RecordInvParts

LEMMA BroadcastRecord ==
  ASSUME RecordInv, NEW r \in Runs, SendAccepted(r) \/ SendReplyLost(r), SendInv'
  PROVE  RecordInv'
  <1>1. SendInv /\ AtMostOneUnrecorded /\ \A q \in Runs : RunTrue(q)
    BY RecordInvParts
  <1>2. PICK c \in todo[r], s \in {"recording", "failing"} :
          /\ IsFirst(c, todo[r])
          /\ ledger' = Append(ledger, [run |-> r, piece |-> c])
          /\ \E e : /\ e.piece = c /\ inflight' = [inflight EXCEPT ![r] = e]
                    /\ s = "recording" => e.txid = Len(ledger) + 1
          /\ pc' = [pc EXCEPT ![r] = s]
          /\ pc[r] = "sending"
          /\ UNCHANGED <<executions, args, todo, pending>>
    <2>1. CASE SendAccepted(r)
      <3>1. PICK c \in todo[r] :
              /\ IsFirst(c, todo[r])
              /\ ledger' = Append(ledger, [run |-> r, piece |-> c])
              /\ inflight' = [inflight EXCEPT
                   ![r] = [piece |-> c, txid |-> Len(ledger) + 1,
                           first |-> IF @.first = 0 THEN Len(ledger) + 1 ELSE @.first]]
        BY <2>1 DEF SendAccepted
      <3>2. \E e : /\ e.piece = c /\ inflight' = [inflight EXCEPT ![r] = e]
                   /\ e.txid = Len(ledger) + 1
        <4> DEFINE e == [piece |-> c, txid |-> Len(ledger) + 1,
                         first |-> IF inflight[r].first = 0 THEN Len(ledger) + 1
                                   ELSE inflight[r].first]
        <4>1. e.piece = c /\ e.txid = Len(ledger) + 1
              /\ inflight' = [inflight EXCEPT ![r] = e]
          BY <3>1
        <4> HIDE DEF e
        <4> QED BY <4>1
      <3> QED BY <2>1, <3>1, <3>2 DEF SendAccepted, tables
    <2>2. CASE SendReplyLost(r)
      <3>1. PICK c \in todo[r] :
              /\ IsFirst(c, todo[r])
              /\ ledger' = Append(ledger, [run |-> r, piece |-> c])
              /\ inflight' = [inflight EXCEPT
                   ![r] = [piece |-> c, txid |-> 0, first |-> @.first]]
        BY <2>2 DEF SendReplyLost
      <3>2. \E e : e.piece = c /\ inflight' = [inflight EXCEPT ![r] = e]
        <4> DEFINE e == [piece |-> c, txid |-> 0, first |-> inflight[r].first]
        <4>1. e.piece = c /\ inflight' = [inflight EXCEPT ![r] = e]
          BY <3>1
        <4> HIDE DEF e
        <4> QED BY <4>1
      <3> QED BY <2>2, <3>1, <3>2 DEF SendReplyLost, tables
    <2> QED BY <2>1, <2>2
  <1> DEFINE new == Len(ledger) + 1
             entry == [run |-> r, piece |-> c]
             Entry == [run : Runs, piece : Piece]
  <1>3. /\ DOMAIN ledger' = DOMAIN ledger \cup {new}
        /\ new \notin DOMAIN ledger
        /\ ledger'[new] = entry
        /\ \A t \in DOMAIN ledger : ledger'[t] = ledger[t] /\ ledger[t].run \in Runs
                                    /\ t <= new
    <2>1. ledger \in Seq(Entry)
      BY <1>1 DEF SendInv, TypeOK
    <2>2. \A t \in DOMAIN ledger : ledger[t].run \in Runs
      BY <1>1, LedgerType DEF SendInv
    <2>3. ledger' = Append(ledger, entry)
      BY <1>2
    <2> HIDE DEF entry, Entry
    <2> QED BY <2>1, <2>2, <2>3
  <1>4. pc'[r] = s /\ inflight'[r].piece = c
        /\ (s = "recording" => inflight'[r].txid = new)
        /\ \A q \in Runs \ {r} : pc'[q] = pc[q] /\ inflight'[q] = inflight[q]
    BY <1>1, <1>2 DEF SendInv, TypeOK
  <1>5. PaidWith(ledger', r, c, new)
    BY <1>3 DEF PaidWith
  <1>6. entry.run = r
    OBVIOUS
  <1>7. new \in Nat /\ new <= new
    BY <1>1 DEF SendInv, TypeOK
  <1> HIDE DEF new, entry
  <1>8. \A q \in Runs \ {r} : RunTrue(q)'
    BY <1>1, <1>2, <1>3, <1>4, OtherRun
  <1>9. RunTrue(r)'
    BY <1>1, <1>2, <1>3, <1>4, <1>5, CallRecord
  <1>10. AtMostOneUnrecorded'
    <2> SUFFICES ASSUME NEW t \in DOMAIN ledger', args[ledger'[t].run].kind = Single,
                        \E n \in PieceRows(args[ledger'[t].run], ledger'[t].piece) :
                            executions[ledger'[t].run].rows[n].txid # t
                 PROVE  /\ \A u \in DOMAIN ledger' : ledger'[u].run = ledger'[t].run => u <= t
                        /\ \/ pc'[ledger'[t].run] \in {"recording", "failing", "crashed"}
                           \/ /\ pc'[ledger'[t].run] = "done"
                              /\ executions[ledger'[t].run].status = "refused"
      BY <1>2 DEF AtMostOneUnrecorded, IsSingle, RowsPaidBy
    <2>1. CASE t = new
      BY <1>2, <1>3, <1>4, <1>6, <1>7, <2>1
    <2>2. CASE t # new
      <3>1. t \in DOMAIN ledger /\ ledger'[t] = ledger[t] /\ ledger[t].run \in Runs
            /\ IsSingle(t)
        BY <1>3, <2>2 DEF IsSingle
      <3>2. \E n \in RowsPaidBy(t) : executions[ledger[t].run].rows[n].txid # t
        BY <3>1 DEF RowsPaidBy
      <3>3. ledger[t].run # r
        BY <1>1, <1>2, <3>1, <3>2, NothingUnrecorded
      <3> QED BY <1>1, <1>3, <1>4, <1>6, <3>1, <3>2, <3>3 DEF AtMostOneUnrecorded
    <2> QED BY <2>1, <2>2
  <1> QED BY <1>8, <1>9, <1>10, RecordInvParts

\* Changing one field of an execution record, whatever is put into it.
Fields == {"status", "txid", "rows", "chunks"}

LEMMA FieldUpdate ==
  ASSUME NEW x, DOMAIN x = Fields, NEW v
  PROVE  /\ LET y == [x EXCEPT !.status = v]
            IN /\ DOMAIN y = Fields /\ y.status = v
               /\ y.txid = x.txid /\ y.rows = x.rows /\ y.chunks = x.chunks
         /\ LET y == [x EXCEPT !.txid = v]
            IN /\ DOMAIN y = Fields /\ y.txid = v
               /\ y.status = x.status /\ y.rows = x.rows /\ y.chunks = x.chunks
         /\ LET y == [x EXCEPT !.rows = v]
            IN /\ DOMAIN y = Fields /\ y.rows = v
               /\ y.status = x.status /\ y.txid = x.txid /\ y.chunks = x.chunks
         /\ LET y == [x EXCEPT !.chunks = v]
            IN /\ DOMAIN y = Fields /\ y.chunks = v
               /\ y.status = x.status /\ y.txid = x.txid /\ y.rows = x.rows
  BY DEF Fields

LEMMA ExecutionFields ==
  ASSUME NEW a, NEW x \in ExecutionType(a)
  PROVE  /\ DOMAIN x = Fields
         /\ x.rows \in [RowIds(a.plan) -> LineType]
         /\ x.chunks \in [ChunkIds(a) -> LineType]
  BY DEF ExecutionType, Fields

\* A transaction whose piece a record has is in its rows.
LEMMA PieceRecorded ==
  ASSUME SendInv, NEW t \in DOMAIN ledger, IsSingle(t), NEW y, NEW r, r = ledger[t].run,
         Recorded(ledger, r, args[r], y, ledger[t].piece), NEW n \in RowsPaidBy(t)
  PROVE  y.rows[n].txid = t
  <1>1. r \in Runs /\ args[r].kind = Single /\ args[r] \in Invocations
    BY LedgerType, ArgsType DEF SendInv, IsSingle
  <1>2. PaidWith(ledger, r, ledger[t].piece, y.rows[n].txid)
    BY <1>1, RowsOfPiece DEF RowsPaidBy, SendInv, PiecesSentOnce
  <1> QED BY <1>2 DEF PaidWith, SendInv, PiecesSentOnce

\* A step of r after which it goes on sending, or has sent everything.
LEMMA RunWorks ==
  ASSUME NEW r \in Runs, ledger' = ledger, args' = args,
         pc'[r] \in {"sending", "finishing"}, pc'[r] = "finishing" => todo'[r] = {},
         Progress(ledger, r, args[r], WorkRecord(r)', todo'[r]),
         args[r].kind = Chunked => /\ RunTrue(r) /\ executions'[r] = executions[r]
                                   /\ executions[r].status = "none",
         args[r].kind \in {Single, Chunked}
  PROVE  RunTrue(r)'
  <1>1. /\ RecordTrue(ledger, r, args[r], executions'[r])
        /\ PrefixSent(ledger, r, executions'[r]) /\ LinesSound(args[r], executions'[r])
    <2>1. CASE args[r].kind = Single
      <3>1. PICK L, a, T, x : /\ L = ledger /\ a = args[r] /\ T = todo'[r]
                              /\ x = WorkRecord(r)'
        OBVIOUS
      <3>2. x = executions'[r]
        BY <2>1, <3>1 DEF WorkRecord
      <3>3. Progress(L, r, a, x, T)
        BY <3>1
      <3> QED BY <3>1, <3>2, <3>3, ProgressIsTrue
    <2>2. CASE args[r].kind = Chunked
      BY <2>2 DEF RunTrue, RunSound
    <2> QED BY <2>1, <2>2
  <1>2. ProgressSound(r)'
    BY DEF ProgressSound
  <1>3. InflightSound(r)'
    BY DEF InflightSound
  <1> QED BY <1>1, <1>2, <1>3 DEF RunTrue, RunSound

LEMMA RecordRowsSentRecord ==
  ASSUME RecordInv, NEW r \in Runs, RecordRowsSent(r), SendInv'
  PROVE  RecordInv' /\ KeepsSettled
  <1> DEFINE c == inflight[r].piece
             t == inflight[r].txid
             rows == executions[r].rows
             f == [n \in DOMAIN rows |->
                     IF n \in PieceRows(args[r], c) /\ rows[n].status = "draft"
                     THEN Line("sent", t) ELSE rows[n]]
             y == [executions[r] EXCEPT !.rows = f]
             T == todo[r] \ {c}
  <1>1. SendInv /\ AtMostOneUnrecorded /\ \A q \in Runs : RunTrue(q)
    BY RecordInvParts
  <1>2. /\ pc[r] = "recording" /\ args[r].kind = Single
        /\ executions' = [executions EXCEPT ![r] = y]
        /\ todo' = [todo EXCEPT ![r] = T]
        /\ pc' = [pc EXCEPT ![r] = IF T = {} THEN "finishing" ELSE "sending"]
        /\ UNCHANGED <<ledger, args, inflight, pending>>
    BY DEF RecordRowsSent, wallet
  <1>3. /\ args[r] \in Invocations /\ executions[r] \in ExecutionType(args[r])
        /\ todo[r] \subseteq Pieces(args[r]) /\ c \in todo[r]
    BY <1>1, <1>2, ArgsType DEF SendInv, TypeOK
  <1>4. /\ IsFirst(c, todo[r]) /\ PaidWith(ledger, r, c, t)
        /\ Progress(ledger, r, args[r], executions[r], todo[r])
    BY <1>1, <1>2 DEF RunTrue, RunSound, InflightSound, ProgressSound, WorkRecord, Sending
  <1>5. /\ DOMAIN executions[r] = Fields /\ rows \in [RowIds(args[r].plan) -> LineType]
        /\ DOMAIN rows = RowIds(args[r].plan)
    BY <1>3, ExecutionFields
  <1>6. /\ y.status = executions[r].status /\ y.txid = executions[r].txid
        /\ y.chunks = executions[r].chunks /\ y.rows = f
    <2> HIDE DEF f
    <2> QED BY <1>5, FieldUpdate
  <1>7. Progress(ledger, r, args[r], y, T) /\ Settled(executions[r], y)
    <2>1. PICK L, a, x, z, d, S, u :
            /\ L = ledger /\ a = args[r] /\ x = executions[r] /\ z = y /\ d = c
            /\ S = todo[r] /\ u = t
      OBVIOUS
    <2>2. z.rows = [n \in RowIds(a.plan) |->
                     IF n \in PieceRows(a, d) /\ x.rows[n].status = "draft"
                     THEN Line("sent", u) ELSE x.rows[n]]
      BY <1>5, <1>6, <2>1, Zenon
    <2>3. z.status = x.status /\ z.txid = x.txid /\ z.chunks = x.chunks
      BY <1>6, <2>1
    <2>4. Progress(L, r, a, z, S \ {d}) /\ Settled(x, z)
      <3>1. /\ a \in Invocations /\ a.kind = Single /\ S \subseteq Pieces(a) /\ d \in S
            /\ IsFirst(d, S) /\ PaidWith(L, r, d, u) /\ Progress(L, r, a, x, S)
            /\ x.rows \in [RowIds(a.plan) -> LineType]
        BY <1>2, <1>3, <1>4, <1>5, <2>1
      <3> QED BY <2>2, <2>3, <3>1, RowsRecorded
    <2> QED BY <2>1, <2>4
  <1> HIDE DEF y
  <1>8. /\ executions'[r] = y /\ todo'[r] = T
        /\ pc'[r] = IF T = {} THEN "finishing" ELSE "sending"
        /\ \A q \in Runs \ {r} : /\ pc'[q] = pc[q] /\ executions'[q] = executions[q]
                                 /\ todo'[q] = todo[q]
    BY <1>1, <1>2 DEF SendInv, TypeOK
  <1>9. \A q \in Runs \ {r} : RunTrue(q)'
    BY <1>1, <1>2, <1>8, OtherRun
  <1>10. RunTrue(r)'
    <2>1. WorkRecord(r)' = y /\ Single # Chunked
      BY <1>2, <1>8 DEF WorkRecord, Single, Chunked
    <2>2. /\ ledger' = ledger /\ args' = args /\ pc'[r] \in {"sending", "finishing"}
          /\ pc'[r] = "finishing" => todo'[r] = {}
      BY <1>2, <1>8
    <2>3. Progress(ledger, r, args[r], WorkRecord(r)', todo'[r])
      BY <1>7, <1>8, <2>1
    <2> QED BY <1>2, <2>1, <2>2, <2>3, RunWorks
  <1>11. AtMostOneUnrecorded'
    <2>1. ASSUME NEW u \in DOMAIN ledger, ledger[u].run = r, IsSingle(u),
                 NEW n \in RowsPaidBy(u)
          PROVE  y.rows[n].txid = u
      <3>1. ledger[u].piece \in Pieces(args[r]) /\ ledger[u].piece \notin T
        BY <1>1, <1>2, <2>1 DEF SendInv, PiecesSentOnce
      <3>2. Recorded(ledger, r, args[r], y, ledger[u].piece)
        BY <1>7, <3>1 DEF Progress
      <3> QED BY <1>1, <2>1, <3>2, PieceRecorded
    <2> QED BY <1>1, <1>2, <1>8, <2>1, UnrecordedStep
  <1>12. KeepsSettled
    BY <1>7, <1>8, OthersSettled
  <1> QED BY <1>9, <1>10, <1>11, <1>12, RecordInvParts

LEMMA RecordChunkSentRecord ==
  ASSUME RecordInv, NEW r \in Runs, RecordChunkSent(r), SendInv' PROVE RecordInv'
  <1> DEFINE c == inflight[r].piece
             t == inflight[r].txid
             f == [pending[r].chunks EXCEPT ![c] = Line("sent", t)]
             y == [pending[r] EXCEPT !.chunks = f]
             T == todo[r] \ {c}
  <1>1. SendInv /\ AtMostOneUnrecorded /\ \A q \in Runs : RunTrue(q)
    BY RecordInvParts
  <1>2. /\ pc[r] = "recording" /\ args[r].kind = Chunked
        /\ pending' = [pending EXCEPT ![r] = y]
        /\ todo' = [todo EXCEPT ![r] = T]
        /\ pc' = [pc EXCEPT ![r] = IF T = {} THEN "finishing" ELSE "sending"]
        /\ UNCHANGED <<ledger, args, inflight, executions>>
    BY DEF RecordChunkSent, wallet, tables
  <1>3. /\ args[r] \in Invocations /\ pending[r] \in ExecutionType(args[r])
        /\ todo[r] \subseteq Pieces(args[r]) /\ c \in todo[r] /\ args[r].kind # Single
    BY <1>1, <1>2, ArgsType DEF SendInv, TypeOK
  <1>4. /\ IsFirst(c, todo[r]) /\ PaidWith(ledger, r, c, t)
        /\ Progress(ledger, r, args[r], pending[r], todo[r])
        /\ executions[r].status = "none"
    BY <1>1, <1>2, <1>3 DEF RunTrue, RunSound, InflightSound, ProgressSound, WorkRecord, Sending
  <1>5. DOMAIN pending[r] = Fields /\ pending[r].chunks \in [ChunkIds(args[r]) -> LineType]
    BY <1>3, ExecutionFields
  <1>6. /\ y.status = pending[r].status /\ y.txid = pending[r].txid
        /\ y.rows = pending[r].rows /\ y.chunks = f
    <2> HIDE DEF f
    <2> QED BY <1>5, FieldUpdate
  <1>7. Progress(ledger, r, args[r], y, T)
    <2>1. PICK L, a, x, z, d, S, u :
            /\ L = ledger /\ a = args[r] /\ x = pending[r] /\ z = y /\ d = c
            /\ S = todo[r] /\ u = t
      OBVIOUS
    <2>2. /\ a \in Invocations /\ a.kind # Single /\ S \subseteq Pieces(a) /\ d \in S
          /\ IsFirst(d, S) /\ PaidWith(L, r, d, u) /\ Progress(L, r, a, x, S)
          /\ x.chunks \in [ChunkIds(a) -> LineType]
          /\ z.status = x.status /\ z.txid = x.txid /\ z.rows = x.rows
          /\ z.chunks = [x.chunks EXCEPT ![d] = Line("sent", u)]
      BY <1>3, <1>4, <1>5, <1>6, <2>1, Zenon
    <2>3. Progress(L, r, a, z, S \ {d})
      BY <2>2, ChunkRecorded
    <2> QED BY <2>1, <2>3
  <1> HIDE DEF y
  <1>8. /\ pending'[r] = y /\ todo'[r] = T
        /\ pc'[r] = IF T = {} THEN "finishing" ELSE "sending"
        /\ \A q \in Runs \ {r} : /\ pc'[q] = pc[q] /\ pending'[q] = pending[q]
                                 /\ todo'[q] = todo[q]
    BY <1>1, <1>2 DEF SendInv, TypeOK
  <1>9. \A q \in Runs \ {r} : RunTrue(q)'
    BY <1>1, <1>2, <1>8, OtherRun
  <1>10. RunTrue(r)'
    <2>1. WorkRecord(r)' = y
      BY <1>2, <1>3, <1>8 DEF WorkRecord
    <2>2. /\ ledger' = ledger /\ args' = args /\ pc'[r] \in {"sending", "finishing"}
          /\ pc'[r] = "finishing" => todo'[r] = {}
          /\ RunTrue(r) /\ executions'[r] = executions[r]
      BY <1>1, <1>2, <1>8
    <2>3. Progress(ledger, r, args[r], WorkRecord(r)', todo'[r])
      BY <1>7, <1>8, <2>1
    <2> QED BY <1>2, <1>4, <2>2, <2>3, RunWorks
  <1>11. AtMostOneUnrecorded'
    <2>1. \A t_1 \in DOMAIN ledger : ledger[t_1].run = r => ~ IsSingle(t_1)
      BY <1>2, <1>3 DEF IsSingle
    <2> QED BY <1>1, <1>2, <1>8, <2>1, UnrecordedStep
  <1> QED BY <1>9, <1>10, <1>11, RecordInvParts

LEMMA MarkRefusedRecord ==
  ASSUME RecordInv, NEW r \in Runs, MarkRefused(r), SendInv'
  PROVE  RecordInv' /\ KeepsSettled
  <1> DEFINE rows == executions[r].rows
             f == [n \in DOMAIN rows |-> IF rows[n].status = "sent" THEN rows[n]
                                         ELSE Line("refused", 0)]
             w == [executions[r] EXCEPT !.status = "refused"]
             y == [w EXCEPT !.rows = f]
  <1>1. SendInv /\ AtMostOneUnrecorded /\ \A q \in Runs : RunTrue(q)
    BY RecordInvParts
  <1>2. /\ pc[r] = "failing" /\ args[r].kind = Single
        /\ executions' = [executions EXCEPT ![r] = y]
        /\ pc' = [pc EXCEPT ![r] = "done"]
        /\ UNCHANGED <<ledger, args, todo, inflight, pending>>
    BY DEF MarkRefused, wallet
  <1>3. args[r] \in Invocations /\ executions[r] \in ExecutionType(args[r])
    BY <1>1, ArgsType DEF SendInv, TypeOK
  <1>4. Progress(ledger, r, args[r], executions[r], todo[r])
    BY <1>1, <1>2 DEF RunTrue, RunSound, ProgressSound, WorkRecord, Sending
  <1>5. /\ DOMAIN executions[r] = Fields /\ rows \in [RowIds(args[r].plan) -> LineType]
        /\ DOMAIN rows = RowIds(args[r].plan)
    BY <1>3, ExecutionFields
  <1>6. /\ y.status = "refused" /\ y.txid = executions[r].txid
        /\ y.chunks = executions[r].chunks /\ y.rows = f
    <2> HIDE DEF f
    <2>1. /\ DOMAIN w = Fields /\ w.status = "refused" /\ w.txid = executions[r].txid
          /\ w.chunks = executions[r].chunks
      BY <1>5, FieldUpdate
    <2> HIDE DEF w
    <2> QED BY <2>1, FieldUpdate
  <1> HIDE DEF y, w
  <1>7. /\ RecordTrue(ledger, r, args[r], y) /\ PrefixSent(ledger, r, y)
        /\ LinesSound(args[r], y) /\ Settled(executions[r], y)
    <2>1. PICK L, a, x, z, S :
            L = ledger /\ a = args[r] /\ x = executions[r] /\ z = y /\ S = todo[r]
      OBVIOUS
    <2>2. z.rows = [n \in RowIds(a.plan) |->
                     IF x.rows[n].status = "sent" THEN x.rows[n] ELSE Line("refused", 0)]
      BY <1>5, <1>6, <2>1, Zenon
    <2>3. /\ a \in Invocations /\ a.kind = Single /\ Progress(L, r, a, x, S)
          /\ x.rows \in [RowIds(a.plan) -> LineType]
          /\ z.status = "refused" /\ z.txid = x.txid /\ z.chunks = x.chunks
      BY <1>2, <1>3, <1>4, <1>5, <1>6, <2>1
    <2>4. /\ RecordTrue(L, r, a, z) /\ PrefixSent(L, r, z) /\ LinesSound(a, z)
          /\ Settled(x, z)
      BY <2>2, <2>3, RowsRefused
    <2> QED BY <2>1, <2>4
  <1>8. /\ executions'[r] = y /\ pc'[r] = "done"
        /\ \A q \in Runs \ {r} : pc'[q] = pc[q] /\ executions'[q] = executions[q]
    BY <1>1, <1>2 DEF SendInv, TypeOK
  <1>9. \A q \in Runs \ {r} : RunTrue(q)'
    BY <1>1, <1>2, <1>8, OtherRun
  <1>10. RunTrue(r)'
    BY <1>2, <1>7, <1>8, RunStops DEF Sending
  <1>11. ASSUME NEW t \in DOMAIN ledger, ledger[t].run = r, IsSingle(t),
                NEW n \in RowsPaidBy(t), rows[n].txid = t
         PROVE  y.rows[n].txid = t
    <2>1. t # 0 /\ n \in RowIds(args[r].plan)
      <3>1. n \in PieceRows(args[r], ledger[t].piece)
        BY <1>11 DEF RowsPaidBy
      <3>2. ledger[t].piece \in Pieces(args[r])
        BY <1>1, <1>11 DEF SendInv, PiecesSentOnce
      <3>3. n \in RowIds(args[r].plan)
        BY <1>2, <1>3, <3>1, <3>2, LinesOfPiece
      <3>4. t # 0
        BY <1>1 DEF SendInv, TypeOK
      <3> QED BY <3>3, <3>4
    <2>2. rows[n].status = "sent"
      BY <1>4, <1>5, <1>11, <2>1 DEF Progress, TxidsBelongToPaid, Paid
    <2> QED BY <1>5, <1>6, <1>11, <2>1, <2>2
  <1>12. ASSUME NEW t \in DOMAIN ledger, ledger[t].run = r, IsSingle(t),
                \E n \in RowsPaidBy(t) : executions'[r].rows[n].txid # t
         PROVE  \E n \in RowsPaidBy(t) : executions[r].rows[n].txid # t
    BY <1>8, <1>11, <1>12
  <1>13. AtMostOneUnrecorded'
    <2>1. pc'[r] = "done" /\ executions'[r].status = "refused"
      BY <1>6, <1>8
    <2> HIDE DEF f
    <2> QED BY <1>1, <1>2, <1>8, <1>12, <2>1, UnrecordedStep
  <1>14. KeepsSettled
    BY <1>7, <1>8, OthersSettled
  <1> QED BY <1>9, <1>10, <1>13, <1>14, RecordInvParts

LEMMA MarkSentRecord ==
  ASSUME RecordInv, NEW r \in Runs, MarkSent(r), SendInv'
  PROVE  RecordInv' /\ KeepsSettled
  <1> DEFINE w == [executions[r] EXCEPT !.status = "sent"]
             y == [w EXCEPT !.txid = inflight[r].first]
  <1>1. SendInv /\ AtMostOneUnrecorded /\ \A q \in Runs : RunTrue(q)
    BY RecordInvParts
  <1>2. /\ pc[r] = "finishing" /\ args[r].kind = Single
        /\ executions' = [executions EXCEPT ![r] = y]
        /\ pc' = [pc EXCEPT ![r] = "done"]
        /\ UNCHANGED <<ledger, args, todo, inflight, pending>>
    BY DEF MarkSent, wallet
  <1>3. args[r] \in Invocations /\ DOMAIN executions[r] = Fields
    BY <1>1, ArgsType, ExecutionFields DEF SendInv, TypeOK
  <1>4. Progress(ledger, r, args[r], executions[r], {})
    BY <1>1, <1>2 DEF RunTrue, RunSound, ProgressSound, InflightSound, WorkRecord, Sending
  <1>5. /\ y.status = "sent" /\ y.txid = inflight[r].first
        /\ y.chunks = executions[r].chunks /\ y.rows = executions[r].rows
    <2>1. /\ DOMAIN w = Fields /\ w.status = "sent" /\ w.rows = executions[r].rows
          /\ w.chunks = executions[r].chunks
      BY <1>3, FieldUpdate
    <2> HIDE DEF w
    <2> QED BY <2>1, FieldUpdate
  <1> HIDE DEF y, w
  <1>6. /\ RecordTrue(ledger, r, args[r], y) /\ PrefixSent(ledger, r, y)
        /\ LinesSound(args[r], y) /\ Settled(executions[r], y)
    <2>1. PICK L, a, x, z, t : /\ L = ledger /\ a = args[r] /\ x = executions[r] /\ z = y
                               /\ t = inflight[r].first
      OBVIOUS
    <2>2. /\ a \in Invocations /\ Progress(L, r, a, x, {})
          /\ z.status = "sent" /\ z.txid = t /\ z.chunks = x.chunks /\ z.rows = x.rows
      BY <1>3, <1>4, <1>5, <2>1
    <2>3. /\ RecordTrue(L, r, a, z) /\ PrefixSent(L, r, z) /\ LinesSound(a, z)
          /\ Settled(x, z)
      BY <2>2, AllRecorded
    <2> QED BY <2>1, <2>3
  <1>7. /\ executions'[r] = y /\ pc'[r] = "done"
        /\ \A q \in Runs \ {r} : pc'[q] = pc[q] /\ executions'[q] = executions[q]
    BY <1>1, <1>2 DEF SendInv, TypeOK
  <1>8. \A q \in Runs \ {r} : RunTrue(q)'
    BY <1>1, <1>2, <1>7, OtherRun
  <1>9. RunTrue(r)'
    BY <1>2, <1>6, <1>7, RunStops DEF Sending
  <1>10. \A t \in DOMAIN ledger : ledger[t].run = r /\ IsSingle(t) =>
             \A n \in RowsPaidBy(t) : y.rows[n].txid = t
    BY <1>1, <1>2, <1>5, NothingUnrecorded
  <1>11. AtMostOneUnrecorded'
    BY <1>1, <1>2, <1>7, <1>10, UnrecordedStep
  <1>12. KeepsSettled
    BY <1>6, <1>7, OthersSettled
  <1> QED BY <1>8, <1>9, <1>11, <1>12, RecordInvParts

\* The end of a transaction of the chunked executor.
LEMMA CommitRecord ==
  ASSUME RecordInv, NEW r \in Runs, NEW y, Commit(r, y), SendInv', args[r].kind = Chunked,
         pc[r] \in Sending,
         RecordTrue(ledger, r, args[r], y), PrefixSent(ledger, r, y), LinesSound(args[r], y)
  PROVE  RecordInv' /\ KeepsSettled
  <1>1. SendInv /\ AtMostOneUnrecorded /\ \A q \in Runs : RunTrue(q)
    BY RecordInvParts
  <1>2. /\ executions' = [executions EXCEPT ![r] = y]
        /\ pc' = [pc EXCEPT ![r] = "done"]
        /\ pending' = [pending EXCEPT ![r] = NoExecution(args[r])]
        /\ UNCHANGED <<ledger, args, todo, inflight>>
    BY DEF Commit, wallet
  <1>3. /\ executions'[r] = y /\ pc'[r] = "done"
        /\ \A q \in Runs \ {r} : /\ pc'[q] = pc[q] /\ executions'[q] = executions[q]
                                 /\ pending'[q] = pending[q]
    BY <1>1, <1>2 DEF SendInv, TypeOK
  <1>4. \A q \in Runs \ {r} : RunTrue(q)'
    BY <1>1, <1>2, <1>3, OtherRun
  <1>5. RunTrue(r)'
    BY <1>2, <1>3, RunStops DEF Sending
  <1>6. \A t \in DOMAIN ledger : ledger[t].run = r => ~ IsSingle(t)
    BY DEF IsSingle, Single, Chunked
  <1>7. AtMostOneUnrecorded'
    BY <1>1, <1>2, <1>3, <1>6, UnrecordedStep
  <1>8. KeepsSettled
    <2>1. executions[r].status = "none"
      BY <1>1 DEF RunTrue, RunSound, ProgressSound
    <2> QED BY <1>1, <1>3, <2>1, FirstRecordSettled, OthersSettled
  <1> QED BY <1>4, <1>5, <1>7, <1>8, RecordInvParts

LEMMA CommitSentRecord ==
  ASSUME RecordInv, NEW r \in Runs, CommitSent(r), SendInv'
  PROVE  RecordInv' /\ KeepsSettled
  <1> DEFINE t == inflight[r].first
             rows == pending[r].rows
             f == [n \in DOMAIN rows |-> Line("sent", t)]
             w == [pending[r] EXCEPT !.status = "sent"]
             v == [w EXCEPT !.txid = t]
             y == [v EXCEPT !.rows = f]
  <1>1. SendInv /\ AtMostOneUnrecorded /\ \A q \in Runs : RunTrue(q)
    BY RecordInvParts
  <1>2. pc[r] = "finishing" /\ args[r].kind = Chunked /\ Commit(r, y)
    BY DEF CommitSent
  <1>3. /\ args[r] \in Invocations /\ DOMAIN pending[r] = Fields /\ args[r].kind # Single
    BY <1>1, <1>2, ArgsType, ExecutionFields DEF SendInv, TypeOK
  <1>4. Progress(ledger, r, args[r], pending[r], {})
    BY <1>1, <1>2, <1>3
       DEF RunTrue, RunSound, ProgressSound, InflightSound, WorkRecord, Sending
  <1>5. /\ y.status = "sent" /\ y.txid = t
        /\ y.chunks = pending[r].chunks /\ y.rows = f
    <2> HIDE DEF f
    <2>1. /\ DOMAIN w = Fields /\ w.status = "sent" /\ w.chunks = pending[r].chunks
      BY <1>3, FieldUpdate
    <2> HIDE DEF w
    <2>2. /\ DOMAIN v = Fields /\ v.status = "sent" /\ v.chunks = pending[r].chunks
          /\ v.txid = t
      BY <2>1, FieldUpdate
    <2> HIDE DEF v
    <2> QED BY <2>2, FieldUpdate
  <1>6. \A n \in DOMAIN f : f[n] = Line("sent", t)
    OBVIOUS
  <1> HIDE DEF y, w, v, f
  <1>7. /\ RecordTrue(ledger, r, args[r], y) /\ PrefixSent(ledger, r, y)
        /\ LinesSound(args[r], y)
    <2>1. PICK L, a, x, z, u : /\ L = ledger /\ a = args[r] /\ x = pending[r] /\ z = y
                               /\ u = t
      OBVIOUS
    <2>2. /\ a \in Invocations /\ Progress(L, r, a, x, {}) /\ a.kind # Single
          /\ z.status = "sent" /\ z.txid = u /\ z.chunks = x.chunks
          /\ \A n \in DOMAIN z.rows : z.rows[n] = Line("sent", u)
      BY <1>3, <1>4, <1>5, <1>6, <2>1
    <2>3. RecordTrue(L, r, a, z) /\ PrefixSent(L, r, z) /\ LinesSound(a, z)
      BY <2>2, AllRecorded
    <2> QED BY <2>1, <2>3
  <1> QED BY <1>2, <1>7, CommitRecord DEF Sending

LEMMA CommitPartialSentRecord ==
  ASSUME RecordInv, NEW r \in Runs, CommitPartialSent(r), SendInv'
  PROVE  RecordInv' /\ KeepsSettled
  <1> DEFINE c == inflight[r].piece
             f == [pending[r].chunks EXCEPT ![c] = Line("refused", 0)]
             w == [pending[r] EXCEPT !.status = "partial_sent"]
             y == [w EXCEPT !.chunks = f]
  <1>1. SendInv /\ AtMostOneUnrecorded /\ \A q \in Runs : RunTrue(q)
    BY RecordInvParts
  <1>2. pc[r] = "failing" /\ args[r].kind = Chunked
    BY DEF CommitPartialSent
  <1>3. /\ args[r] \in Invocations /\ pending[r] \in ExecutionType(args[r])
        /\ args[r].kind # Single /\ todo[r] \subseteq Pieces(args[r]) /\ c \in todo[r]
    BY <1>1, <1>2, ArgsType DEF SendInv, TypeOK
  <1>4. /\ DOMAIN pending[r] = Fields
        /\ pending[r].chunks \in [ChunkIds(args[r]) -> LineType]
    BY <1>3, ExecutionFields
  <1>5. /\ w.status = "partial_sent" /\ w.txid = pending[r].txid /\ w.rows = pending[r].rows
        /\ w.chunks = pending[r].chunks /\ DOMAIN w = Fields
    BY <1>4, FieldUpdate
  <1>6. Commit(r, y)
    BY <1>5 DEF CommitPartialSent
  <1>7. /\ Progress(ledger, r, args[r], pending[r], todo[r]) /\ IsFirst(c, todo[r])
    BY <1>1, <1>2, <1>3
       DEF RunTrue, RunSound, ProgressSound, InflightSound, WorkRecord, Sending
  <1>8. /\ y.status = "partial_sent" /\ y.txid = pending[r].txid
        /\ y.rows = pending[r].rows /\ y.chunks = f
    <2> HIDE DEF f, w
    <2> QED BY <1>5, FieldUpdate
  <1> HIDE DEF y, w
  <1>9. /\ RecordTrue(ledger, r, args[r], y) /\ PrefixSent(ledger, r, y)
        /\ LinesSound(args[r], y)
    <2>1. PICK L, a, x, z, d, S : /\ L = ledger /\ a = args[r] /\ x = pending[r] /\ z = y
                                  /\ d = c /\ S = todo[r]
      OBVIOUS
    <2>2. /\ a \in Invocations /\ a.kind # Single /\ S \subseteq Pieces(a) /\ d \in S
          /\ IsFirst(d, S) /\ Progress(L, r, a, x, S)
          /\ x.chunks \in [ChunkIds(a) -> LineType]
          /\ z.status = "partial_sent" /\ z.txid = x.txid /\ z.rows = x.rows
          /\ z.chunks = [x.chunks EXCEPT ![d] = Line("refused", 0)]
      BY <1>3, <1>4, <1>7, <1>8, <2>1, Zenon
    <2>3. RecordTrue(L, r, a, z) /\ PrefixSent(L, r, z) /\ LinesSound(a, z)
      BY <2>2, ChunkRefused
    <2> QED BY <2>1, <2>3
  <1> QED BY <1>2, <1>6, <1>9, CommitRecord DEF Sending

\* mark-confirmed: only an execution whose run has ended is sent.
LEMMA ConfirmRecord ==
  ASSUME RecordInv, NEW q \in Runs, MarkConfirmed(q) \/ MarkChunkedConfirmed(q), SendInv'
  PROVE  RecordInv' /\ KeepsSettled
  <1> DEFINE f == ConfirmSentLines(executions[q].rows)
             g == ConfirmSentLines(executions[q].chunks)
             w == [executions[q] EXCEPT !.status = "confirmed"]
             y == [w EXCEPT !.rows = f]
             z == [y EXCEPT !.chunks = g]
  <1>1. SendInv /\ AtMostOneUnrecorded /\ \A r \in Runs : RunTrue(r)
    BY RecordInvParts
  <1>2. executions[q].status = "sent"
        /\ UNCHANGED <<ledger, pc, args, todo, inflight, pending>>
    BY DEF MarkConfirmed, MarkChunkedConfirmed, wallet, process
  <1>3. /\ args[q] \in Invocations /\ executions[q] \in ExecutionType(args[q])
        /\ args[q].kind \in {Single, Chunked}
    BY <1>1, ArgsType DEF SendInv, TypeOK
  <1>4. DOMAIN executions[q] = Fields
    BY <1>3, ExecutionFields
  <1>5. /\ w.status = "confirmed" /\ w.txid = executions[q].txid
        /\ w.rows = executions[q].rows /\ w.chunks = executions[q].chunks
        /\ DOMAIN w = Fields
    BY <1>4, FieldUpdate
  <1>6. /\ y.status = "confirmed" /\ y.txid = executions[q].txid
        /\ y.rows = f /\ y.chunks = executions[q].chunks /\ DOMAIN y = Fields
    <2> HIDE DEF w, f
    <2> QED BY <1>5, FieldUpdate
  <1>7. /\ z.status = "confirmed" /\ z.txid = executions[q].txid
        /\ z.rows = f /\ z.chunks = g
    <2> HIDE DEF y, f, g
    <2> QED BY <1>6, FieldUpdate
  <1>8. \/ executions' = [executions EXCEPT ![q] = y]
        \/ executions' = [executions EXCEPT ![q] = z]
    BY <1>5, <1>6 DEF MarkConfirmed, MarkChunkedConfirmed
  <1> HIDE DEF w, y, z
  <1>9. PICK v : /\ executions' = [executions EXCEPT ![q] = v]
                 /\ v.status = "confirmed" /\ v.txid = executions[q].txid
                 /\ v.rows = f
                 /\ v.chunks = executions[q].chunks \/ v.chunks = g
    BY <1>6, <1>7, <1>8
  <1>10. /\ RecordTrue(ledger, q, args[q], v) /\ PrefixSent(ledger, q, v)
         /\ LinesSound(args[q], v) /\ Settled(executions[q], v)
    <2>1. PICK L, a, x : L = ledger /\ a = args[q] /\ x = executions[q]
      OBVIOUS
    <2>2. /\ a \in Invocations /\ x \in ExecutionType(a) /\ RecordTrue(L, q, a, x)
          /\ LinesSound(a, x) /\ x.status = "sent" /\ v.txid = x.txid
          /\ v.rows = ConfirmSentLines(x.rows)
          /\ v.chunks = x.chunks \/ v.chunks = ConfirmSentLines(x.chunks)
      BY <1>1, <1>2, <1>3, <1>9, <2>1 DEF RunTrue, RunSound
    <2>3. /\ RecordTrue(L, q, a, v) /\ PrefixSent(L, q, v) /\ LinesSound(a, v)
          /\ Settled(x, v)
      BY <1>9, <2>2, LinesConfirmed
    <2> QED BY <2>1, <2>3
  <1>11. /\ executions'[q] = v
         /\ \A r \in Runs \ {q} : executions'[r] = executions[r]
    BY <1>1, <1>9 DEF SendInv, TypeOK
  <1>12. \A r \in Runs \ {q} : RunTrue(r)'
    BY <1>1, <1>2, <1>11, OtherRun
  <1>13. pc[q] \notin Sending
    BY <1>1, <1>2, <1>3 DEF RunTrue, RunSound, ProgressSound, Progress, WorkRecord
  <1>14. RunTrue(q)'
    <2>1. /\ RecordTrue(ledger, q, args[q], v)' /\ PrefixSent(ledger, q, v)'
          /\ LinesSound(args[q], v)'
      BY <1>2, <1>10
    <2>2. ProgressSound(q)'
      BY <1>2, <1>13 DEF ProgressSound
    <2>3. InflightSound(q)'
      BY <1>1, <1>2 DEF RunTrue, RunSound, InflightSound
    <2> QED BY <1>2, <1>10, <1>11, <2>2, <2>3 DEF RunTrue, RunSound
  <1>15. ASSUME NEW t \in DOMAIN ledger, ledger[t].run = q, IsSingle(t),
                NEW n \in RowsPaidBy(t)
         PROVE  v.rows[n].txid = executions[q].rows[n].txid
    <2>1. n \in RowIds(args[q].plan)
      <3>1. n \in PieceRows(args[q], ledger[t].piece)
        BY <1>15 DEF RowsPaidBy
      <3>2. ledger[t].piece \in Pieces(args[q]) /\ args[q].kind = Single
        BY <1>1, <1>15 DEF SendInv, PiecesSentOnce, IsSingle
      <3> QED BY <1>3, <3>1, <3>2, LinesOfPiece
    <2>2. n \in DOMAIN executions[q].rows
      BY <1>3, <2>1 DEF ExecutionType
    <2> QED BY <1>9, <2>2 DEF ConfirmSentLines, Line
  <1>16. ASSUME NEW t \in DOMAIN ledger, ledger[t].run = q, IsSingle(t),
                \E n \in RowsPaidBy(t) : executions'[q].rows[n].txid # t
         PROVE  /\ \E n \in RowsPaidBy(t) : executions[q].rows[n].txid # t
                /\ pc'[q] \in {"recording", "failing", "crashed"}
    <2>1. PICK n \in RowsPaidBy(t) : executions[q].rows[n].txid # t
      BY <1>11, <1>15, <1>16
    <2> QED BY <1>1, <1>2, <1>16, <2>1 DEF AtMostOneUnrecorded
  <1>17. AtMostOneUnrecorded'
    BY <1>1, <1>2, <1>11, <1>16, UnrecordedStep
  <1>18. KeepsSettled
    BY <1>10, <1>11, OthersSettled
  <1> QED BY <1>12, <1>14, <1>17, <1>18, RecordInvParts

LEMMA InitRecord == Init => RecordInv
  <1> SUFFICES ASSUME Init PROVE RecordInv
    OBVIOUS
  <1>1. SendInv
    BY InitSend
  <1>2. AtMostOneUnrecorded
    BY DEF Init, AtMostOneUnrecorded
  <1>3. ASSUME NEW r \in Runs PROVE RunTrue(r)
    <2>1. PICK L, a, x : /\ L = ledger /\ a = args[r] /\ x = executions[r]
                         /\ a \in Invocations /\ x = NoExecution(a)
      BY DEF Init
    <2>2. RecordTrue(L, r, a, x) /\ PrefixSent(L, r, x) /\ TxidsBelongToPaid(x)
      BY <2>1, BlankRecord DEF NoExecution
    <2>3. ProgressSound(r) /\ InflightSound(r)
      BY DEF Init, ProgressSound, InflightSound, Sending
    <2> QED BY <2>1, <2>2, <2>3 DEF RunTrue, RunSound, LinesSound
  <1> QED BY <1>1, <1>2, <1>3, RecordInvParts

LEMMA NextRecord == RecordInv /\ [Next]_vars => RecordInv' /\ KeepsSettled
  <1> SUFFICES ASSUME RecordInv, [Next]_vars PROVE RecordInv' /\ KeepsSettled
    OBVIOUS
  <1>1. SendInv'
    BY NextSend DEF RecordInv
  <1>u. executions' = executions => KeepsSettled
    BY NothingToKeep DEF KeepsSettled
  <1>2. CASE \E r \in Runs : Launch(r) \/ RecordRefusal(r) \/ Crash(r)
    BY <1>1, <1>u, <1>2, LaunchRecord, RecordRefusalRecord, CrashRecord
       DEF Launch, Crash, tables
  <1>3. CASE WalletNext
    BY <1>1, <1>u, <1>3, BroadcastRecord, SendRejectedRecord
       DEF WalletNext, SendAccepted, SendReplyLost, SendRejected, tables
  <1>4. CASE SingleNext
    BY <1>1, <1>u, <1>4, LoadRecord, InsertRecord, RecordRowsSentRecord, MarkRefusedRecord,
       MarkSentRecord, ConfirmRecord DEF SingleNext, LoadAndDecide, tables
  <1>5. CASE ChunkedNext
    BY <1>1, <1>u, <1>5, LoadRecord, InsertRecord, RecordChunkSentRecord,
       CommitPartialSentRecord, CommitSentRecord, ConfirmRecord
       DEF ChunkedNext, ChunkedLoadAndDecide, RecordChunkSent, tables
  <1>6. CASE Environment \/ UNCHANGED vars
    <2>1. UNCHANGED <<executions, ledger, pc, args, todo, inflight, pending>>
      BY <1>6 DEF Environment, CancelPlan, ChangeAddress, Mine, vars, tables, wallet, process
    <2> QED BY <1>1, <1>u, <2>1, EnvironmentRecord
  <1> QED BY <1>2, <1>3, <1>4, <1>5, <1>6 DEF Next

\* The inductive invariant of the records the executors keep of them.
THEOREM RecordInvariant == Spec => []RecordInv
  <1> QED BY InitRecord, NextRecord, PTL DEF Spec

\* What the tables say about the wallet is true, whatever runs interleave, die,
\* are refused or lose their answer: a line recorded as sent names the
\* transaction that paid it, a sent execution has recorded every piece, a run of
\* the single executor has at most its last broadcast unrecorded, and a partly
\* sent execution is a recorded prefix of its chunks.
THEOREM RecordsTellTheTruth == Spec => []RecordsSound
  <1>1. RecordInv => RecordsSound
    BY DEF RecordInv
  <1> QED BY <1>1, RecordInvariant, PTL

\* What is committed stays: a recorded transaction is never replaced, a line that
\* was sent is never unsent, a closed execution is never reopened, whatever the
\* executors and the operators do.
THEOREM RecordsAreKept == Spec => SettledStays
  <1>1. RecordInv /\ [Next]_vars =>
          [\A r \in Runs : Settled(executions[r], executions'[r])]_vars
    BY NextRecord DEF KeepsSettled
  <1> QED BY <1>1, RecordInvariant, PTL DEF Spec, SettledStays

-----------------------------------------------------------------------------
(* The executions of a key implement its payment order, step by step.      *)

LEMMA OrderOfRun ==
  ASSUME TypeOK, NEW r \in Runs
  PROVE  /\ OrderOf(r) \in Orders /\ OrderOf(r)[1] = args[r].plan
         /\ \A o : r \in SingleRunsOf(o) <=> args[r].kind = Single /\ OrderOf(r) = o
  BY ArgsType, InvocationsAssumption DEF OrderOf, Orders, SingleRunsOf, CommandLine

\* Runs of one order have the same plan and key.
LEMMA SameOrder ==
  ASSUME NEW r \in Runs, NEW q \in Runs, OrderOf(q) = OrderOf(r)
  PROVE  SamePlanKey(q, r)
  BY DEF OrderOf, SamePlanKey

\* The status of an order is that of the one execution it has.
LEMMA OrderStatus ==
  ASSUME SendInv, NEW r \in Runs, args[r].kind = Single, executions[r].status # "none"
  PROVE  orderStatus[OrderOf(r)] = executions[r].status
  <1> DEFINE o == OrderOf(r)
             inserted == {q \in SingleRunsOf(o) : executions[q].status # "none"}
  <1>1. o \in Orders
    BY OrderOfRun DEF SendInv
  <1>2. inserted = {r}
    BY SameOrder DEF SingleRunsOf, SendInv, KeyHeldOnce, HoldsKey
  <1> QED BY <1>1, <1>2 DEF orderStatus

\* ... and it has none before one is inserted.
LEMMA NoOrderStatus ==
  ASSUME NEW o \in Orders, \A q \in SingleRunsOf(o) : executions[q].status = "none"
  PROVE  orderStatus[o] = "none"
  <1>1. {q \in SingleRunsOf(o) : executions[q].status # "none"} = {}
    OBVIOUS
  <1> QED BY <1>1 DEF orderStatus

\* A step after which no execution of the single executor has another status.
LEMMA StatusStutters ==
  ASSUME args' = args,
         \A q \in Runs : args[q].kind = Single => executions'[q].status = executions[q].status
  PROVE  orderStatus' = orderStatus
  <1>1. ASSUME NEW o \in Orders
        PROVE  /\ {q \in SingleRunsOf(o) : executions[q].status # "none"}
                  = {q \in SingleRunsOf(o) : executions'[q].status # "none"}
               /\ SingleRunsOf(o)' = SingleRunsOf(o)
               /\ \A q \in SingleRunsOf(o) : executions'[q].status = executions[q].status
    BY DEF SingleRunsOf, OrderOf
  <1> DEFINE F(o, E, S) == LET inserted == {q \in S : E[q].status # "none"}
                           IN IF inserted = {} THEN "none"
                              ELSE E[CHOOSE q \in inserted : TRUE].status
  <1>2. ASSUME NEW o \in Orders
        PROVE  F(o, executions', SingleRunsOf(o)) = F(o, executions, SingleRunsOf(o))
    <2> DEFINE I == {q \in SingleRunsOf(o) : executions[q].status # "none"}
    <2>1. {q \in SingleRunsOf(o) : executions'[q].status # "none"} = I
      BY <1>1
    <2>2. I # {} => (CHOOSE q \in I : TRUE) \in SingleRunsOf(o)
      OBVIOUS
    <2>3. I # {} => executions'[CHOOSE q \in I : TRUE].status
                    = executions[CHOOSE q \in I : TRUE].status
      BY <1>1, <2>2
    <2> QED BY <2>1, <2>3
  <1> QED BY <1>1, <1>2 DEF orderStatus

\* A step that changes the status of one execution of the single executor.
LEMMA StatusMoves ==
  ASSUME SendInv, SendInv', args' = args, NEW r \in Runs, args[r].kind = Single,
         \A q \in Runs \ {r} : executions'[q] = executions[q],
         executions'[r].status # "none"
  PROVE  /\ OrderOf(r) \in Orders
         /\ orderStatus[OrderOf(r)] = executions[r].status
         /\ orderStatus' = [orderStatus EXCEPT ![OrderOf(r)] = executions'[r].status]
  <1> DEFINE ord == OrderOf(r)
  <1>1. ord \in Orders
    BY OrderOfRun DEF SendInv
  <1>2. \A q \in Runs \ {r} : OrderOf(q) = ord => executions[q].status = "none"
    <2> SUFFICES ASSUME NEW q \in Runs \ {r}, OrderOf(q) = ord, executions[q].status # "none"
                 PROVE  FALSE
      OBVIOUS
    <2>1. SamePlanKey(q, r)'
      BY SameOrder DEF SamePlanKey, OrderOf
    <2> QED BY <2>1 DEF SendInv, KeyHeldOnce, HoldsKey
  <1>3. orderStatus[ord] = executions[r].status
    <2>1. CASE executions[r].status # "none"
      BY <2>1, OrderStatus
    <2>2. CASE executions[r].status = "none"
      <3>1. \A q \in SingleRunsOf(ord) : executions[q].status = "none"
        BY <1>2, <2>2 DEF SingleRunsOf
      <3> QED BY <1>1, <2>2, <3>1, NoOrderStatus
    <2> QED BY <2>1, <2>2
  <1>4. orderStatus'[ord] = executions'[r].status
    <2>1. {q \in SingleRunsOf(ord) : executions'[q].status # "none"} = {r}
      BY <1>2 DEF SingleRunsOf
    <2>2. SingleRunsOf(ord)' = SingleRunsOf(ord) /\ OrderOf(r)' = OrderOf(r)
      BY DEF SingleRunsOf, OrderOf
    <2> DEFINE I == {q \in SingleRunsOf(ord) : executions'[q].status # "none"}
    <2>3. orderStatus'[ord] = IF I = {} THEN "none"
                              ELSE executions'[CHOOSE q \in I : TRUE].status
      BY <1>1, <2>2 DEF orderStatus
    <2>4. I # {} /\ (CHOOSE q \in I : TRUE) = r
      BY <2>1
    <2> QED BY <2>3, <2>4
  <1>5. ASSUME NEW o \in Orders, o # ord PROVE orderStatus'[o] = orderStatus[o]
    <2>1. SingleRunsOf(o)' = SingleRunsOf(o)
          /\ \A q \in SingleRunsOf(o) : q \in Runs \ {r}
      BY <1>5 DEF SingleRunsOf, OrderOf
    <2> DEFINE I == {q \in SingleRunsOf(o) : executions[q].status # "none"}
               J == {q \in SingleRunsOf(o) : executions'[q].status # "none"}
    <2>2. I = J
      BY <2>1
    <2>3. /\ orderStatus[o] = IF I = {} THEN "none"
                              ELSE executions[CHOOSE q \in I : TRUE].status
          /\ orderStatus'[o] = IF J = {} THEN "none"
                               ELSE executions'[CHOOSE q \in J : TRUE].status
      BY <2>1 DEF orderStatus
    <2>4. I # {} => (CHOOSE q \in I : TRUE) \in SingleRunsOf(o)
      OBVIOUS
    <2>5. I # {} => executions'[CHOOSE q \in I : TRUE] = executions[CHOOSE q \in I : TRUE]
      BY <2>1, <2>4
    <2> HIDE DEF I, J
    <2> QED BY <2>2, <2>3, <2>5
  <1>6. DOMAIN orderStatus = Orders /\ DOMAIN orderStatus' = Orders
        /\ orderStatus' = [o \in Orders |-> orderStatus'[o]]
    BY DEF orderStatus
  <1>7. orderStatus' = [orderStatus EXCEPT ![ord] = executions'[r].status]
    <2> HIDE DEF ord
    <2> QED BY <1>1, <1>4, <1>5, <1>6
  <1> QED BY <1>1, <1>3, <1>7

\* The transactions of an order that paid row n.
Payments(o, n) ==
    {t \in DOMAIN ledger : ledger[t].run \in SingleRunsOf(o) /\ n \in RowsPaidBy(t)}

LEMMA PaidStutters ==
  ASSUME args' = args, \A o \in Orders : \A n : Payments(o, n)' = Payments(o, n)
  PROVE  orderPaid' = orderPaid
  BY DEF orderPaid, Payments

\* No two transactions of an order pay the same row.
LEMMA OnePayment ==
  ASSUME KeySendsOnce, NEW o \in Orders, NEW n, NEW t \in Payments(o, n)
  PROVE  Payments(o, n) = {t}
  <1> SUFFICES ASSUME NEW u \in Payments(o, n), u # t PROVE FALSE
    OBVIOUS
  <1>1. IsSingle(t) /\ IsSingle(u) /\ SamePlanKey(ledger[t].run, ledger[u].run)
    BY DEF Payments, SingleRunsOf, IsSingle, OrderOf, SamePlanKey
  <1>2. t \in DOMAIN ledger /\ u \in DOMAIN ledger
        /\ n \in RowsPaidBy(t) /\ n \in RowsPaidBy(u)
    BY DEF Payments
  <1> QED BY <1>1, <1>2 DEF KeySendsOnce

LEMMA PiecePaysRows ==
  ASSUME NEW a \in Invocations, a.kind = Single, NEW c \in Pieces(a)
  PROVE  PieceRows(a, c) \subseteq RowIds(a.plan) /\ PieceRows(a, c) # {}
  <1>1. PieceRows(a, c) \subseteq RowIds(a.plan)
    BY LinesOfPiece
  <1>2. c.row \in PieceRows(a, c)
    BY DEF Pieces, GroupPieces, PieceRows, SameAddress
  <1> QED BY <1>1, <1>2

\* A broadcast of run r adds one transaction for a piece of r.
LEMMA BroadcastAdds ==
  ASSUME TypeOK, NEW r \in Runs, SendAccepted(r) \/ SendReplyLost(r)
  PROVE  \E c \in Pieces(args[r]), new \in Nat :
            /\ DOMAIN ledger' = DOMAIN ledger \cup {new} /\ \A t \in DOMAIN ledger : t < new
            /\ ledger'[new] = [run |-> r, piece |-> c]
            /\ \A t \in DOMAIN ledger : ledger'[t] = ledger[t]
            /\ pc[r] = "sending" /\ args' = args /\ executions' = executions
  <1>1. PICK c \in todo[r] : ledger' = Append(ledger, [run |-> r, piece |-> c])
    BY DEF SendAccepted, SendReplyLost
  <1> DEFINE new == Len(ledger) + 1
             entry == [run |-> r, piece |-> c]
             Entry == [run : Runs, piece : Piece]
  <1>2. ledger \in Seq(Entry) /\ c \in Pieces(args[r])
    BY DEF TypeOK
  <1>3. ledger' = Append(ledger, entry)
    BY <1>1
  <1>4. /\ DOMAIN ledger' = DOMAIN ledger \cup {new} /\ \A t \in DOMAIN ledger : t < new
        /\ new \in Nat /\ ledger'[new] = entry
        /\ \A t \in DOMAIN ledger : ledger'[t] = ledger[t]
    <2> HIDE DEF entry, Entry
    <2> QED BY <1>2, <1>3
  <1>5. pc[r] = "sending" /\ args' = args /\ executions' = executions
    BY DEF SendAccepted, SendReplyLost, tables
  <1> HIDE DEF new
  <1> QED BY <1>2, <1>4, <1>5

\* A broadcast of the single executor is a payment of its order.
LEMMA BroadcastPays ==
  ASSUME RecordInv, KeySendsOnce', NEW r \in Runs,
         SendAccepted(r) \/ SendReplyLost(r), args[r].kind = Single
  PROVE  Order!Pay(OrderOf(r)) /\ OrderOf(r) \in Orders
  <1>1. SendInv /\ RunTrue(r) /\ TypeOK
    BY RecordInvParts DEF SendInv
  <1>2. PICK c \in Pieces(args[r]), new \in Nat :
            /\ DOMAIN ledger' = DOMAIN ledger \cup {new} /\ new \notin DOMAIN ledger
            /\ ledger'[new] = [run |-> r, piece |-> c]
            /\ \A t \in DOMAIN ledger : ledger'[t] = ledger[t]
            /\ pc[r] = "sending" /\ args' = args /\ executions' = executions
    <2>1. \A n \in Nat : ~ (n < n)
      OBVIOUS
    <2> QED BY <1>1, <2>1, BroadcastAdds
  <1>3. PICK ord, p, S : /\ ord = OrderOf(r) /\ p = args[r].plan
                         /\ S = PieceRows(args[r], c)
    OBVIOUS
  <1>a. ord \in Orders /\ ord[1] = p /\ r \in SingleRunsOf(ord)
    BY <1>1, <1>3, OrderOfRun
  <1>4. orderStatus[ord] = "draft"
    <2>1. executions[r].status = "draft"
      BY <1>1, <1>2 DEF RunTrue, RunSound, ProgressSound, Progress, WorkRecord, Sending
    <2> QED BY <1>1, <1>3, <2>1, OrderStatus
  <1>5. orderStatus' = orderStatus
    BY <1>2, StatusStutters
  <1>6. S \in (SUBSET RowIds(p)) \ {{}}
    <2>1. args[r] \in Invocations
      BY <1>1, ArgsType
    <2>2. PICK a, d : a = args[r] /\ d \in Pieces(a) /\ d = c /\ a.kind = Single
      OBVIOUS
    <2>3. PieceRows(a, d) \subseteq RowIds(a.plan) /\ PieceRows(a, d) # {}
      BY <2>1, <2>2, PiecePaysRows
    <2>4. S \subseteq RowIds(p) /\ S # {}
      BY <1>3, <2>2, <2>3, Zenon
    <2> QED BY <2>4
  <1>7. ASSUME NEW o \in Orders, NEW n
        PROVE  Payments(o, n)' = IF o = ord /\ n \in S THEN Payments(o, n) \cup {new}
                                 ELSE Payments(o, n)
    <2>1. SingleRunsOf(o)' = SingleRunsOf(o) /\ (r \in SingleRunsOf(o) <=> o = ord)
      BY <1>1, <1>2, <1>3, <1>a, OrderOfRun DEF SingleRunsOf, OrderOf
    <2>2. \A t \in DOMAIN ledger : RowsPaidBy(t)' = RowsPaidBy(t)
      BY <1>2 DEF RowsPaidBy
    <2>3. RowsPaidBy(new)' = S
      BY <1>2, <1>3 DEF RowsPaidBy
    <2>4. ledger'[new].run = r
      BY <1>2
    <2> QED BY <1>2, <2>1, <2>2, <2>3, <2>4 DEF Payments
  <1>8. ASSUME NEW n \in S PROVE Payments(ord, n) = {} /\ Payments(ord, n)' = {new}
    <2>1. Payments(ord, n)' = Payments(ord, n) \cup {new}
      BY <1>a, <1>7
    <2>2. Payments(ord, n)' = {new}
      <3>1. \A t \in Payments(ord, n)' : t = new
        <4> SUFFICES ASSUME NEW t \in Payments(ord, n)', t # new PROVE FALSE
          OBVIOUS
        <4>1. new \in Payments(ord, n)'
          BY <2>1
        <4>2. IsSingle(t)' /\ IsSingle(new)' /\ SamePlanKey(ledger[t].run, ledger[new].run)'
          BY <1>2, <4>1 DEF Payments, SingleRunsOf, IsSingle, OrderOf, SamePlanKey
        <4>3. t \in DOMAIN ledger' /\ new \in DOMAIN ledger'
              /\ n \in RowsPaidBy(t)' /\ n \in RowsPaidBy(new)'
          BY <4>1 DEF Payments
        <4> QED BY <4>2, <4>3 DEF KeySendsOnce
      <3> QED BY <2>1, <3>1
    <2>3. new \notin Payments(ord, n)
      BY <1>2 DEF Payments
    <2> QED BY <2>1, <2>2, <2>3
  <1>9. \A n \in S : orderPaid[ord][n] = 0 /\ orderPaid'[ord][n] = 1
    <2> SUFFICES ASSUME NEW n \in S
                 PROVE  orderPaid[ord][n] = 0 /\ orderPaid'[ord][n] = 1
      OBVIOUS
    <2>1. n \in RowIds(ord[1])
      BY <1>a, <1>6
    <2>2. /\ orderPaid[ord][n] = Cardinality(Payments(ord, n))
          /\ orderPaid'[ord][n] = Cardinality(Payments(ord, n)')
      BY <1>2, <1>a, <2>1 DEF orderPaid, Payments
    <2> QED BY <1>8, <2>2, FS_EmptySet, FS_Singleton
  <1>10. orderPaid' = [orderPaid EXCEPT ![ord] =
                         [n \in RowIds(p) |-> IF n \in S THEN 1 ELSE orderPaid[ord][n]]]
    <2>1. \A o \in Orders : \A n \in RowIds(o[1]) :
             orderPaid'[o][n] = IF o = ord /\ n \in S THEN 1 ELSE orderPaid[o][n]
      <3> SUFFICES ASSUME NEW o \in Orders, NEW n \in RowIds(o[1])
                   PROVE  orderPaid'[o][n] = IF o = ord /\ n \in S THEN 1
                                             ELSE orderPaid[o][n]
        OBVIOUS
      <3>1. /\ orderPaid[o][n] = Cardinality(Payments(o, n))
            /\ orderPaid'[o][n] = Cardinality(Payments(o, n)')
        BY <1>2 DEF orderPaid, Payments
      <3> QED BY <1>7, <1>9, <3>1
    <2>2. /\ orderPaid = [o \in Orders |-> [n \in RowIds(o[1]) |-> orderPaid[o][n]]]
          /\ orderPaid' = [o \in Orders |-> [n \in RowIds(o[1]) |-> orderPaid'[o][n]]]
      BY DEF orderPaid
    <2> DEFINE F == [n \in RowIds(p) |-> IF n \in S THEN 1 ELSE orderPaid[ord][n]]
    <2>3. orderPaid'[ord] = F
      BY <1>a, <2>1, <2>2
    <2>4. \A o \in Orders : o # ord => orderPaid'[o] = orderPaid[o]
      <3> SUFFICES ASSUME NEW o \in Orders, o # ord PROVE orderPaid'[o] = orderPaid[o]
        OBVIOUS
      <3>1. \A n \in RowIds(o[1]) : orderPaid'[o][n] = orderPaid[o][n]
        BY <2>1
      <3> QED BY <2>2, <3>1, Zenon
    <2>5. DOMAIN orderPaid = Orders /\ DOMAIN orderPaid' = Orders
      BY <2>2
    <2>6. orderPaid' = [o \in Orders |-> orderPaid'[o]]
      BY <2>2
    <2>7. orderPaid' = [orderPaid EXCEPT ![ord] = F]
      <3> HIDE DEF F
      <3> QED BY <1>a, <2>3, <2>4, <2>5, <2>6
    <2> QED BY <2>7
  <1>11. \E W \in (SUBSET RowIds(ord[1])) \ {{}} :
            /\ \A n \in W : orderPaid[ord][n] = 0
            /\ orderPaid' = [orderPaid EXCEPT ![ord] =
                  [n \in RowIds(ord[1]) |-> IF n \in W THEN 1 ELSE orderPaid[ord][n]]]
    BY <1>a, <1>6, <1>9, <1>10
  <1>12. ord \in Orders /\ ord = OrderOf(r)
    BY <1>3, <1>a
  <1>13. [o \in Orders |-> RowIds(o[1])][ord] = RowIds(ord[1])
    BY <1>12
  <1>14. Order!Pay(ord)
    BY <1>4, <1>5, <1>11, <1>13 DEF Order!Pay
  <1> QED BY <1>12, <1>14

LEMMA RowHasPiece ==
  ASSUME NEW a \in Invocations, a.kind = Single, NEW n \in RowIds(a.plan)
  PROVE  \E c \in Pieces(a) : n \in PieceRows(a, c)
  <1> DEFINE W == SameAddress(a.plan, n)
  <1>1. a.plan \in Plans
    BY InvocationsAssumption DEF CommandLine
  <1>2. W \subseteq Nat /\ n \in W
    BY <1>1, RowIdsType DEF SameAddress
  <1>3. PICK m \in W : \A k \in W : m <= k
    <2> HIDE DEF W
    <2> QED BY <1>2, LeastNumber
  <1>4. SameAddress(a.plan, m) = W
    BY <1>3 DEF SameAddress
  <1> DEFINE c == [row |-> m, index |-> 1]
  <1>5. m \in RowIds(a.plan) /\ \A k \in SameAddress(a.plan, m) : m <= k
    BY <1>3, <1>4 DEF SameAddress
  <1>6. c \in Pieces(a)
    BY <1>5 DEF Pieces, GroupPieces
  <1>7. n \in PieceRows(a, c)
    BY <1>2, <1>4 DEF PieceRows
  <1> QED BY <1>6, <1>7

\* A step that changes no execution of the single executor and broadcasts nothing.
LEMMA OrdersStutter ==
  ASSUME args' = args, ledger' = ledger,
         \A q \in Runs : args[q].kind = Single => executions'[q].status = executions[q].status
  PROVE  UNCHANGED Order!vars
  <1>1. orderStatus' = orderStatus
    BY StatusStutters
  <1>2. orderPaid' = orderPaid
    BY PaidStutters DEF Payments, SingleRunsOf, OrderOf, RowsPaidBy
  <1> QED BY <1>1, <1>2 DEF Order!vars

\* A broadcast of the chunked executor is no payment of an order.
LEMMA ChunkedBroadcastStutters ==
  ASSUME TypeOK, NEW r \in Runs, SendAccepted(r) \/ SendReplyLost(r), args[r].kind # Single
  PROVE  UNCHANGED Order!vars
  <1>1. PICK c \in Pieces(args[r]), new \in Nat :
            /\ DOMAIN ledger' = DOMAIN ledger \cup {new} /\ new \notin DOMAIN ledger
            /\ ledger'[new] = [run |-> r, piece |-> c]
            /\ \A t \in DOMAIN ledger : ledger'[t] = ledger[t]
            /\ pc[r] = "sending" /\ args' = args /\ executions' = executions
    <2>1. \A n \in Nat : ~ (n < n)
      OBVIOUS
    <2> QED BY <2>1, BroadcastAdds
  <1>2. ASSUME NEW o \in Orders, NEW n PROVE Payments(o, n)' = Payments(o, n)
    <2>1. SingleRunsOf(o)' = SingleRunsOf(o) /\ r \notin SingleRunsOf(o)
      BY <1>1 DEF SingleRunsOf, OrderOf
    <2>2. \A t \in DOMAIN ledger : RowsPaidBy(t)' = RowsPaidBy(t)
      BY <1>1 DEF RowsPaidBy
    <2>3. ledger'[new].run = r
      BY <1>1
    <2> QED BY <1>1, <2>1, <2>2, <2>3 DEF Payments
  <1>3. orderPaid' = orderPaid
    BY <1>1, <1>2, PaidStutters
  <1>4. orderStatus' = orderStatus
    BY <1>1, StatusStutters
  <1> QED BY <1>3, <1>4 DEF Order!vars

\* The status that a change of an execution leaves.
LEMMA StatusAfter ==
  ASSUME NEW x, DOMAIN x = Fields, NEW s, NEW f, NEW g
  PROVE  /\ [x EXCEPT !.rows = f].status = x.status
         /\ [[x EXCEPT !.status = s] EXCEPT !.rows = f].status = s
         /\ [[x EXCEPT !.status = s] EXCEPT !.txid = f].status = s
         /\ [[[x EXCEPT !.status = s] EXCEPT !.rows = f] EXCEPT !.chunks = g].status = s
  <1> DEFINE y == [x EXCEPT !.status = s]
             z == [y EXCEPT !.rows = f]
  <1>1. DOMAIN y = Fields /\ y.status = s
    BY FieldUpdate
  <1>2. DOMAIN z = Fields /\ z.status = s /\ [y EXCEPT !.txid = f].status = s
    <2> HIDE DEF y
    <2> QED BY <1>1, FieldUpdate
  <1>3. [z EXCEPT !.chunks = g].status = s
    <2> HIDE DEF z
    <2> QED BY <1>2, FieldUpdate
  <1>4. [x EXCEPT !.rows = f].status = x.status
    BY FieldUpdate
  <1> QED BY <1>2, <1>3, <1>4

\* What each step that writes an execution of the single executor makes of it.
LEMMA WrittenStatus ==
  ASSUME TypeOK, NEW r \in Runs
  PROVE  /\ RecordRefusal(r) =>
               \/ executions' = executions
               \/ \E y : /\ executions' = [executions EXCEPT ![r] = y]
                         /\ executions[r].status = "none" /\ y.status = "refused"
         /\ InsertDraft(r) =>
               \/ executions' = executions
               \/ \E y : /\ executions' = [executions EXCEPT ![r] = y]
                         /\ executions[r].status = "none" /\ y.status = "draft"
         /\ RecordRowsSent(r) =>
               \E y : /\ executions' = [executions EXCEPT ![r] = y]
                      /\ y.status = executions[r].status
         /\ MarkRefused(r) =>
               \E y : executions' = [executions EXCEPT ![r] = y] /\ y.status = "refused"
         /\ MarkSent(r) =>
               \E y : executions' = [executions EXCEPT ![r] = y] /\ y.status = "sent"
         /\ MarkConfirmed(r) \/ MarkChunkedConfirmed(r) =>
               \E y : executions' = [executions EXCEPT ![r] = y] /\ y.status = "confirmed"
  <1> DEFINE x == executions[r]
  <1>1. DOMAIN x = Fields
    BY ExecutionFields DEF TypeOK
  <1>2. ~ ExistingByKey(r) => x.status = "none"
    BY DEF ExistingByKey, SamePlanKey
  <1>3. \A h, u, v : NewExecution(args[r], h, u, v).status = h
    BY DEF NewExecution
  <1>4. RecordRefusal(r) =>
               \/ executions' = executions
               \/ \E y : /\ executions' = [executions EXCEPT ![r] = y]
                         /\ executions[r].status = "none" /\ y.status = "refused"
    <2> DEFINE y == NewExecution(args[r], "refused",
                                 IF todo[r] = {} THEN "none" ELSE "refused", "none")
    <2>1. RecordRefusal(r) => \/ executions' = executions
                              \/ executions' = [executions EXCEPT ![r] = y]
                                 /\ x.status = "none"
      BY <1>2 DEF RecordRefusal
    <2>2. y.status = "refused"
      BY <1>3
    <2> HIDE DEF y
    <2> QED BY <2>1, <2>2
  <1>5. InsertDraft(r) =>
               \/ executions' = executions
               \/ \E y : /\ executions' = [executions EXCEPT ![r] = y]
                         /\ executions[r].status = "none" /\ y.status = "draft"
    <2> DEFINE y == NewExecution(args[r], "draft", "draft", "none")
    <2>1. InsertDraft(r) => \/ executions' = executions
                            \/ executions' = [executions EXCEPT ![r] = y]
                               /\ x.status = "none"
      BY <1>2 DEF InsertDraft
    <2>2. y.status = "draft"
      BY <1>3
    <2> HIDE DEF y
    <2> QED BY <2>1, <2>2
  <1>6. ASSUME RecordRowsSent(r)
        PROVE  \E y : /\ executions' = [executions EXCEPT ![r] = y]
                      /\ y.status = executions[r].status
    <2> DEFINE rows == x.rows
               f == [n \in DOMAIN rows |->
                       IF n \in PieceRows(args[r], inflight[r].piece) /\ rows[n].status = "draft"
                       THEN Line("sent", inflight[r].txid) ELSE rows[n]]
               y == [x EXCEPT !.rows = f]
    <2>1. executions' = [executions EXCEPT ![r] = y]
      BY <1>6 DEF RecordRowsSent
    <2>2. y.status = x.status
      <3> HIDE DEF f
      <3> QED BY <1>1, StatusAfter
    <2> HIDE DEF y
    <2> QED BY <2>1, <2>2
  <1>7. ASSUME MarkRefused(r)
        PROVE  \E y : executions' = [executions EXCEPT ![r] = y] /\ y.status = "refused"
    <2> DEFINE rows == x.rows
               f == [n \in DOMAIN rows |-> IF rows[n].status = "sent" THEN rows[n]
                                           ELSE Line("refused", 0)]
               y == [[x EXCEPT !.status = "refused"] EXCEPT !.rows = f]
    <2>1. [x EXCEPT !.status = "refused"].rows = rows
      BY <1>1, FieldUpdate
    <2>2. executions' = [executions EXCEPT ![r] = y]
      BY <1>7, <2>1 DEF MarkRefused
    <2>3. y.status = "refused"
      <3> HIDE DEF f
      <3> QED BY <1>1, StatusAfter
    <2> HIDE DEF y
    <2> QED BY <2>2, <2>3
  <1>8. ASSUME MarkSent(r)
        PROVE  \E y : executions' = [executions EXCEPT ![r] = y] /\ y.status = "sent"
    <2> DEFINE y == [[x EXCEPT !.status = "sent"] EXCEPT !.txid = inflight[r].first]
    <2>1. executions' = [executions EXCEPT ![r] = y]
      BY <1>8 DEF MarkSent
    <2>2. y.status = "sent"
      BY <1>1, StatusAfter
    <2> HIDE DEF y
    <2> QED BY <2>1, <2>2
  <1>9. ASSUME MarkConfirmed(r) \/ MarkChunkedConfirmed(r)
        PROVE  \E y : executions' = [executions EXCEPT ![r] = y] /\ y.status = "confirmed"
    <2> DEFINE f == ConfirmSentLines(x.rows)
               g == ConfirmSentLines(x.chunks)
               w == [x EXCEPT !.status = "confirmed"]
               y == [w EXCEPT !.rows = f]
               z == [y EXCEPT !.chunks = g]
    <2>1. w.rows = x.rows /\ w.chunks = x.chunks /\ DOMAIN w = Fields
      BY <1>1, FieldUpdate
    <2>2. y.chunks = x.chunks
      <3> HIDE DEF w, f
      <3> QED BY <2>1, FieldUpdate
    <2>3. executions' = [executions EXCEPT ![r] = y] \/ executions' = [executions EXCEPT ![r] = z]
      BY <1>9, <2>1, <2>2 DEF MarkConfirmed, MarkChunkedConfirmed
    <2>4. y.status = "confirmed" /\ z.status = "confirmed"
      <3> HIDE DEF f, g
      <3> QED BY <1>1, StatusAfter
    <2> HIDE DEF y, z
    <2> QED BY <2>3, <2>4
  <1> QED BY <1>4, <1>5, <1>6, <1>7, <1>8, <1>9

LEMMA WrittenExecution ==
  ASSUME TypeOK, NEW r \in Runs, NEW y, executions' = [executions EXCEPT ![r] = y]
  PROVE  executions'[r] = y /\ \A q \in Runs \ {r} : executions'[q] = executions[q]
  BY DEF TypeOK

\* A step that writes an execution of the chunked executor.
LEMMA ChunkedWriteStutters ==
  ASSUME TypeOK, NEW r \in Runs, args[r].kind # Single, args' = args, ledger' = ledger,
         \E y : executions' = [executions EXCEPT ![r] = y]
  PROVE  UNCHANGED Order!vars
  <1>1. \A q \in Runs \ {r} : executions'[q] = executions[q]
    BY WrittenExecution
  <1> QED BY <1>1, OrdersStutter

\* A step that writes one of the single executor moves its order.
LEMMA OrderMoves ==
  ASSUME SendInv, SendInv', NEW r \in Runs, args[r].kind = Single,
         args' = args, ledger' = ledger,
         NEW y, executions' = [executions EXCEPT ![r] = y], y.status # "none"
  PROVE  OrderOf(r) \in Orders /\ Order!Move(OrderOf(r), executions[r].status, y.status)
  <1>1. executions'[r] = y /\ \A q \in Runs \ {r} : executions'[q] = executions[q]
    BY WrittenExecution DEF SendInv
  <1>2. /\ OrderOf(r) \in Orders
        /\ orderStatus[OrderOf(r)] = executions[r].status
        /\ orderStatus' = [orderStatus EXCEPT ![OrderOf(r)] = y.status]
    BY <1>1, StatusMoves
  <1>3. orderPaid' = orderPaid
    BY PaidStutters DEF Payments, SingleRunsOf, OrderOf, RowsPaidBy
  <1> QED BY <1>2, <1>3 DEF Order!Move

\* An execution is marked sent when every row of its order has been paid.
LEMMA SentIsComplete ==
  ASSUME RecordInv, KeySendsOnce, NEW r \in Runs, MarkSent(r)
  PROVE  \A n \in RowIds(OrderOf(r)[1]) : orderPaid[OrderOf(r)][n] = 1
  <1> SUFFICES ASSUME NEW n \in RowIds(OrderOf(r)[1]) PROVE orderPaid[OrderOf(r)][n] = 1
    OBVIOUS
  <1>1. SendInv /\ RunTrue(r) /\ TypeOK
    BY RecordInvParts DEF SendInv
  <1>2. pc[r] = "finishing" /\ args[r].kind = Single /\ args[r] \in Invocations
    BY <1>1, ArgsType DEF MarkSent
  <1>3. Progress(ledger, r, args[r], executions[r], {})
    BY <1>1, <1>2 DEF RunTrue, RunSound, ProgressSound, InflightSound, WorkRecord, Sending
  <1>4. OrderOf(r) \in Orders /\ OrderOf(r)[1] = args[r].plan /\ r \in SingleRunsOf(OrderOf(r))
    BY <1>1, <1>2, OrderOfRun
  <1>5. PICK c \in Pieces(args[r]) : n \in PieceRows(args[r], c)
    <2>1. PICK a : a = args[r] /\ a \in Invocations /\ a.kind = Single
      BY <1>2
    <2>2. \E c \in Pieces(a) : n \in PieceRows(a, c)
      BY <1>4, <2>1, RowHasPiece
    <2> QED BY <2>1, <2>2
  <1>6. PaidWith(ledger, r, c, executions[r].rows[n].txid)
    <2>1. PICK L, a, x : /\ L = ledger /\ a = args[r] /\ x = executions[r]
                         /\ a \in Invocations /\ a.kind = Single
      BY <1>2
    <2>2. Recorded(L, r, a, x, c)
      BY <1>3, <1>5, <2>1 DEF Progress
    <2>3. PaidWith(L, r, c, x.rows[n].txid)
      BY <1>5, <2>1, <2>2, RowsOfPiece
    <2> QED BY <2>1, <2>3
  <1>7. PICK t \in DOMAIN ledger : ledger[t] = [run |-> r, piece |-> c]
    BY <1>6 DEF PaidWith
  <1>8. t \in Payments(OrderOf(r), n)
    BY <1>4, <1>5, <1>7 DEF Payments, RowsPaidBy
  <1>9. Payments(OrderOf(r), n) = {t}
    BY <1>4, <1>8, OnePayment
  <1>10. orderPaid[OrderOf(r)][n] = Cardinality(Payments(OrderOf(r), n))
    BY <1>4 DEF orderPaid, Payments
  <1> QED BY <1>9, <1>10, FS_Singleton

LEMMA InitOrders == Init => Order!Init
  <1> SUFFICES ASSUME Init PROVE Order!Init
    OBVIOUS
  <1>1. \A q \in Runs : executions[q].status = "none"
    BY DEF Init, NoExecution, NewExecution
  <1>2. orderStatus = [o \in Orders |-> "none"]
    <2>1. \A o \in Orders : orderStatus[o] = "none"
      BY <1>1, NoOrderStatus DEF SingleRunsOf
    <2>2. orderStatus = [o \in Orders |-> orderStatus[o]]
      BY DEF orderStatus
    <2> QED BY <2>1, <2>2
  <1>3. orderPaid = [o \in Orders |-> [n \in [p \in Orders |-> RowIds(p[1])][o] |-> 0]]
    <2>1. \A o \in Orders : \A n \in RowIds(o[1]) :
             {t \in DOMAIN ledger : ledger[t].run \in SingleRunsOf(o) /\ n \in RowsPaidBy(t)} = {}
      BY DEF Init
    <2>2. \A o \in Orders : [n \in RowIds(o[1]) |->
             Cardinality({t \in DOMAIN ledger : ledger[t].run \in SingleRunsOf(o)
                                                /\ n \in RowsPaidBy(t)})]
             = [n \in RowIds(o[1]) |-> 0]
      BY <2>1, FS_EmptySet
    <2>3. \A o \in Orders : [p \in Orders |-> RowIds(p[1])][o] = RowIds(o[1])
      OBVIOUS
    <2> QED BY <2>2, <2>3 DEF orderPaid
  <1> QED BY <1>2, <1>3 DEF Order!Init

\* Step by step: a refusal, an insert, a broadcast, a failure, the end of a
\* run and a confirmation of the single executor are the steps of its order,
\* and every other step leaves the orders as they are.
LEMMA NextOrders ==
  RecordInv /\ RecordInv' /\ KeySendsOnce /\ KeySendsOnce' /\ [Next]_vars
     => [Order!Next]_(Order!vars)
  <1> SUFFICES ASSUME RecordInv, RecordInv', KeySendsOnce, KeySendsOnce', [Next]_vars
               PROVE  Order!Next \/ UNCHANGED Order!vars
    OBVIOUS
  <1>1. SendInv /\ SendInv' /\ TypeOK /\ \A r \in Runs : RunTrue(r)
    BY RecordInvParts DEF SendInv
  <1>2. CASE UNCHANGED <<executions, ledger, args>>
    BY <1>2, OrdersStutter
  <1>3. ASSUME NEW r \in Runs, args[r].kind # Single, args' = args, ledger' = ledger,
               RecordRefusal(r) \/ MarkConfirmed(r) \/ MarkChunkedConfirmed(r)
        PROVE  UNCHANGED Order!vars
    <2>1. executions' = executions \/ \E y : executions' = [executions EXCEPT ![r] = y]
      BY <1>1, <1>3, WrittenStatus
    <2> QED BY <1>1, <1>3, <2>1, ChunkedWriteStutters, OrdersStutter
  <1>4. ASSUME NEW r \in Runs, args[r].kind = Single, RecordRefusal(r)
        PROVE  Order!Next \/ UNCHANGED Order!vars
    <2>1. args' = args /\ ledger' = ledger
      BY <1>4 DEF RecordRefusal, wallet
    <2>2. CASE executions' = executions
      BY <1>2, <2>1, <2>2
    <2>3. ASSUME NEW y, executions' = [executions EXCEPT ![r] = y],
                 executions[r].status = "none", y.status = "refused"
          PROVE  Order!Next
      <3>1. OrderOf(r) \in Orders /\ Order!Refuse(OrderOf(r))
        BY <1>1, <1>4, <2>1, <2>3, OrderMoves DEF Order!Refuse
      <3> QED BY <3>1 DEF Order!Next
    <2> QED BY <1>1, <1>4, <2>2, <2>3, WrittenStatus
  <1>5. ASSUME NEW r \in Runs, InsertDraft(r)
        PROVE  Order!Next \/ UNCHANGED Order!vars
    <2>1. args' = args /\ ledger' = ledger /\ args[r].kind = Single
      BY <1>5 DEF InsertDraft, wallet
    <2>2. CASE executions' = executions
      BY <1>2, <2>1, <2>2
    <2>3. ASSUME NEW y, executions' = [executions EXCEPT ![r] = y],
                 executions[r].status = "none", y.status = "draft"
          PROVE  Order!Next
      <3>1. OrderOf(r) \in Orders /\ Order!Accept(OrderOf(r))
        BY <1>1, <2>1, <2>3, OrderMoves DEF Order!Accept
      <3> QED BY <3>1 DEF Order!Next
    <2> QED BY <1>1, <1>5, <2>2, <2>3, WrittenStatus
  <1>6. ASSUME NEW r \in Runs, SendAccepted(r) \/ SendReplyLost(r)
        PROVE  Order!Next \/ UNCHANGED Order!vars
    <2>1. CASE args[r].kind = Single
      <3>1. Order!Pay(OrderOf(r)) /\ OrderOf(r) \in Orders
        BY <1>6, <2>1, BroadcastPays
      <3> QED BY <3>1 DEF Order!Next
    <2>2. CASE args[r].kind # Single
      BY <1>1, <1>6, <2>2, ChunkedBroadcastStutters
    <2> QED BY <2>1, <2>2
  <1>7. ASSUME NEW r \in Runs, RecordRowsSent(r) PROVE UNCHANGED Order!vars
    <2>1. args' = args /\ ledger' = ledger
      BY <1>7 DEF RecordRowsSent, wallet
    <2>2. PICK y : executions' = [executions EXCEPT ![r] = y] /\ y.status = executions[r].status
      BY <1>1, <1>7, WrittenStatus
    <2>3. executions'[r] = y /\ \A q \in Runs \ {r} : executions'[q] = executions[q]
      BY <1>1, <2>2, WrittenExecution
    <2> QED BY <2>1, <2>2, <2>3, OrdersStutter
  <1>8. ASSUME NEW r \in Runs, MarkRefused(r) PROVE Order!Next
    <2>1. args' = args /\ ledger' = ledger /\ args[r].kind = Single
          /\ executions[r].status = "draft"
      BY <1>1, <1>8 DEF MarkRefused, wallet, RunTrue, RunSound, ProgressSound, Progress,
                        WorkRecord, Sending
    <2>2. PICK y : executions' = [executions EXCEPT ![r] = y] /\ y.status = "refused"
      BY <1>1, <1>8, WrittenStatus
    <2>3. OrderOf(r) \in Orders /\ Order!Abandon(OrderOf(r))
      BY <1>1, <2>1, <2>2, OrderMoves DEF Order!Abandon
    <2> QED BY <2>3 DEF Order!Next
  <1>9. ASSUME NEW r \in Runs, MarkSent(r) PROVE Order!Next
    <2>1. args' = args /\ ledger' = ledger /\ args[r].kind = Single
          /\ executions[r].status = "draft"
      BY <1>1, <1>9 DEF MarkSent, wallet, RunTrue, RunSound, ProgressSound, Progress,
                        WorkRecord, Sending
    <2>2. PICK y : executions' = [executions EXCEPT ![r] = y] /\ y.status = "sent"
      BY <1>1, <1>9, WrittenStatus
    <2>3. OrderOf(r) \in Orders /\ Order!Move(OrderOf(r), "draft", "sent")
      BY <1>1, <2>1, <2>2, OrderMoves
    <2>4. \A n \in RowIds(OrderOf(r)[1]) : orderPaid[OrderOf(r)][n] = 1
      BY <1>9, SentIsComplete
    <2>5. [o \in Orders |-> RowIds(o[1])][OrderOf(r)] = RowIds(OrderOf(r)[1])
      BY <2>3
    <2>6. Order!Complete(OrderOf(r))
      BY <2>3, <2>4, <2>5 DEF Order!Complete
    <2> QED BY <2>3, <2>6 DEF Order!Next
  <1>10. ASSUME NEW r \in Runs, MarkConfirmed(r) \/ MarkChunkedConfirmed(r)
         PROVE  Order!Next \/ UNCHANGED Order!vars
    <2>1. args' = args /\ ledger' = ledger /\ executions[r].status = "sent"
      BY <1>10 DEF MarkConfirmed, MarkChunkedConfirmed, wallet, process
    <2>2. CASE args[r].kind # Single
      BY <1>3, <1>10, <2>1, <2>2
    <2>3. CASE args[r].kind = Single
      <3>1. PICK y : executions' = [executions EXCEPT ![r] = y] /\ y.status = "confirmed"
        BY <1>1, <1>10, WrittenStatus
      <3>2. OrderOf(r) \in Orders /\ Order!Confirm(OrderOf(r))
        BY <1>1, <2>1, <2>3, <3>1, OrderMoves DEF Order!Confirm
      <3> QED BY <3>2 DEF Order!Next
    <2> QED BY <2>2, <2>3
  <1>11. ASSUME NEW r \in Runs, CommitSent(r) \/ CommitPartialSent(r)
         PROVE  UNCHANGED Order!vars
    <2>1. args[r].kind # Single
      BY <1>11 DEF CommitSent, CommitPartialSent, Single, Chunked
    <2>2. PICK y : Commit(r, y)
      BY <1>11 DEF CommitSent, CommitPartialSent
    <2>3. args' = args /\ ledger' = ledger /\ executions' = [executions EXCEPT ![r] = y]
      BY <2>2 DEF Commit, wallet
    <2> QED BY <1>1, <2>1, <2>3, ChunkedWriteStutters
  <1>12. CASE \E r \in Runs : Launch(r) \/ RecordRefusal(r) \/ Crash(r)
    BY <1>2, <1>3, <1>4, <1>12 DEF Launch, Crash, RecordRefusal, tables, wallet
  <1>13. CASE WalletNext
    BY <1>2, <1>6, <1>13 DEF WalletNext, SendRejected, tables, wallet
  <1>14. CASE SingleNext
    BY <1>2, <1>5, <1>7, <1>8, <1>9, <1>10, <1>14
       DEF SingleNext, LoadAndDecide, tables, wallet
  <1>15. CASE ChunkedNext
    BY <1>2, <1>10, <1>11, <1>15
       DEF ChunkedNext, ChunkedLoadAndDecide, InsertChunked, RecordChunkSent, tables, wallet
  <1>16. CASE Environment \/ UNCHANGED vars
    BY <1>2, <1>16 DEF Environment, CancelPlan, ChangeAddress, Mine, vars, tables, wallet, process
  <1> QED BY <1>12, <1>13, <1>14, <1>15, <1>16 DEF Next

\* The executors implement the payment order: whatever runs of the single
\* executor are repeated, interleaved, killed or left without an answer, each
\* plan and key is accepted once, pays each row at most once and only while it
\* is a draft, and is complete only when every row has been paid.
THEOREM OrdersAreImplemented == Spec => ImplementsPaymentOrder
  <1>1. RecordInv => KeySendsOnce
    BY SendInvPaysOnce DEF RecordInv
  <1> QED BY <1>1, InitOrders, NextOrders, RecordInvariant, PTL
          DEF Spec, ImplementsPaymentOrder, Order!Spec

-----------------------------------------------------------------------------
(* Executions that are active when a run starts.                           *)

\* An execution that is active stays so: it is only ever confirmed.
LEMMA ActiveStays ==
  ASSUME RecordInv, [Next]_vars, NEW q \in Runs,
         executions[q].status \in {"sent", "confirmed", "partial_sent"}
  PROVE  \/ executions'[q].status = executions[q].status
         \/ executions[q].status = "sent" /\ executions'[q].status = "confirmed"
  <1>1. TypeOK
    BY DEF RecordInv, SendInv
  <1>2. ASSUME NEW r \in Runs, RecordRefusal(r) \/ InsertDraft(r)
        PROVE  executions'[q].status = executions[q].status
    <2>1. CASE executions' = executions
      BY <2>1
    <2>2. CASE executions' # executions
      <3>1. PICK y : executions' = [executions EXCEPT ![r] = y]
                     /\ executions[r].status = "none"
        BY <1>1, <1>2, <2>2, WrittenStatus
      <3> QED BY <1>1, <3>1, WrittenExecution
    <2> QED BY <2>1, <2>2
  <1>3. ASSUME NEW r \in Runs, RecordRowsSent(r)
        PROVE  executions'[q].status = executions[q].status
    <2>1. PICK y : executions' = [executions EXCEPT ![r] = y]
                   /\ y.status = executions[r].status
      BY <1>1, <1>3, WrittenStatus
    <2> QED BY <1>1, <2>1, WrittenExecution
  <1>4. ASSUME NEW r \in Runs, MarkRefused(r) \/ MarkSent(r)
        PROVE  executions'[q] = executions[q]
    <2>1. PICK y : executions' = [executions EXCEPT ![r] = y]
      BY <1>1, <1>4, WrittenStatus
    <2>2. pc[r] \in Sending /\ args[r].kind = Single
      BY <1>4 DEF MarkRefused, MarkSent, Sending
    <2>3. executions[r].status = "draft"
      BY <2>2 DEF RecordInv, RunSound, ProgressSound, Progress, WorkRecord
    <2> QED BY <1>1, <2>1, <2>3, WrittenExecution
  <1>5. ASSUME NEW r \in Runs, CommitPartialSent(r) \/ CommitSent(r)
        PROVE  executions'[q] = executions[q]
    <2>1. PICK y : executions' = [executions EXCEPT ![r] = y]
      BY <1>5 DEF CommitPartialSent, CommitSent, Commit
    <2>2. pc[r] \in Sending /\ args[r].kind = Chunked
      BY <1>5 DEF CommitPartialSent, CommitSent, Sending
    <2>3. executions[r].status = "none"
      BY <2>2 DEF RecordInv, RunSound, ProgressSound
    <2> QED BY <1>1, <2>1, <2>3, WrittenExecution
  <1>6. ASSUME NEW r \in Runs, MarkConfirmed(r) \/ MarkChunkedConfirmed(r)
        PROVE  \/ executions'[q].status = executions[q].status
               \/ executions[q].status = "sent" /\ executions'[q].status = "confirmed"
    <2>1. PICK y : executions' = [executions EXCEPT ![r] = y] /\ y.status = "confirmed"
      BY <1>1, <1>6, WrittenStatus
    <2>2. executions[r].status = "sent"
      BY <1>6 DEF MarkConfirmed, MarkChunkedConfirmed
    <2> QED BY <1>1, <2>1, <2>2, WrittenExecution
  <1>7. CASE executions' = executions
    BY <1>7
  <1>8. CASE \E r \in Runs : Launch(r) \/ RecordRefusal(r) \/ Crash(r)
    BY <1>2, <1>7, <1>8 DEF Launch, Crash, tables
  <1>9. CASE WalletNext
    BY <1>7, <1>9 DEF WalletNext, SendAccepted, SendReplyLost, SendRejected, tables
  <1>10. CASE SingleNext
    BY <1>2, <1>3, <1>4, <1>6, <1>7, <1>10 DEF SingleNext, LoadAndDecide, tables
  <1>11. CASE ChunkedNext
    BY <1>5, <1>6, <1>7, <1>11
       DEF ChunkedNext, ChunkedLoadAndDecide, InsertChunked, RecordChunkSent, tables
  <1>12. CASE Environment \/ UNCHANGED vars
    BY <1>7, <1>12 DEF Environment, CancelPlan, ChangeAddress, Mine, vars, tables
  <1> QED BY <1>8, <1>9, <1>10, <1>11, <1>12 DEF Next

LEMMA ActivePlanStays ==
  ASSUME RecordInv, [Next]_vars, args' = args, NEW r \in Runs,
         ActiveForPlan(r, ActiveFor(r))
  PROVE  ActiveForPlan(r, ActiveFor(r))'
  <1>1. PICK q \in Runs : /\ args[q].plan = args[r].plan
                          /\ executions[q].status \in ActiveFor(r)
    BY DEF ActiveForPlan
  <1>2. \/ executions'[q].status = executions[q].status
        \/ executions'[q].status = "confirmed"
    BY <1>1, ActiveStays DEF ActiveFor
  <1>3. executions'[q].status \in ActiveFor(r)
    BY <1>1, <1>2 DEF ActiveFor
  <1> QED BY <1>1, <1>3 DEF ActiveForPlan, ActiveFor

\* A step of run r after it was started.
LEMMA ActiveStep ==
  ASSUME RecordInv, ActiveInv, [Next]_vars, args' = args, atStart' = atStart,
         NEW r \in Runs, NEW s, pc' = [pc EXCEPT ![r] = s], s \notin {"idle", "loading"},
         s \in {"inserting"} \cup Sending =>
            \/ pc[r] \in {"inserting"} \cup Sending
            \/ pc[r] = "loading" /\ ~ ActiveForPlan(r, ActiveFor(r)),
         \A t \in DOMAIN ledger' : \/ t \in DOMAIN ledger /\ ledger'[t] = ledger[t]
                                   \/ ledger'[t].run = r /\ pc[r] = "sending"
  PROVE  ActiveInv'
  <1>1. pc'[r] = s /\ \A q \in Runs \ {r} : pc'[q] = pc[q]
    BY DEF RecordInv, SendInv, TypeOK
  <1>2. ASSUME NEW q \in Runs, atStart[q].active
        PROVE  /\ pc'[q] \notin {"idle", "inserting"} \cup Sending
               /\ pc'[q] = "loading" => ActiveForPlan(q, ActiveFor(q))'
    <2>1. /\ pc[q] \notin {"idle", "inserting"} \cup Sending
          /\ pc[q] = "loading" => ActiveForPlan(q, ActiveFor(q))
      BY <1>2 DEF ActiveInv, StopsIfActive
    <2>2. CASE q = r
      BY <1>1, <2>1, <2>2
    <2>3. CASE q # r
      BY <1>1, <2>1, <2>3, ActivePlanStays
    <2> QED BY <2>2, <2>3
  <1>3. StopsIfActive'
    BY <1>2 DEF StopsIfActive
  <1>4. NoSendAfterActive'
    BY DEF ActiveInv, StopsIfActive, NoSendAfterActive, Sending
  <1> QED BY <1>3, <1>4 DEF ActiveInv

\* A run is started; it has not sent yet.
LEMMA ActiveLaunch ==
  ASSUME RecordInv, ActiveInv, [Next]_vars, NEW r \in Runs, Launch(r) PROVE ActiveInv'
  <1>1. TypeOK /\ LedgerRunsStarted
    BY DEF RecordInv, SendInv
  <1>2. /\ pc[r] = "idle" /\ pc'[r] = "loading"
        /\ \A q \in Runs \ {r} : pc'[q] = pc[q] /\ atStart'[q] = atStart[q]
        /\ atStart'[r].active = ActiveForPlan(r, ActiveFor(r))
        /\ UNCHANGED <<executions, ledger, args>>
    BY <1>1 DEF Launch, TypeOK, tables, wallet
  <1>3. \A q \in Runs : ActiveForPlan(q, ActiveFor(q)) => ActiveForPlan(q, ActiveFor(q))'
    BY <1>2, ActivePlanStays
  <1>4. StopsIfActive'
    BY <1>2, <1>3 DEF ActiveInv, StopsIfActive, Sending
  <1>5. \A t \in DOMAIN ledger : ledger[t].run \in Runs \ {r}
    BY <1>1, <1>2, LedgerType DEF LedgerRunsStarted
  <1>6. NoSendAfterActive'
    BY <1>2, <1>5 DEF ActiveInv, NoSendAfterActive
  <1> QED BY <1>4, <1>6 DEF ActiveInv

LEMMA NextActive == ASSUME RecordInv, ActiveInv, [Next]_vars PROVE ActiveInv'
  <1>1. TypeOK
    BY DEF RecordInv, SendInv
  <1>2. ASSUME NEW r \in Runs, LoadAndDecide(r) \/ ChunkedLoadAndDecide(r) PROVE ActiveInv'
    <2>1. PICK s \in {"done", "failed", "refusing", "inserting"} :
            /\ pc[r] = "loading" /\ pc' = [pc EXCEPT ![r] = s]
            /\ UNCHANGED <<args, ledger, atStart>>
            /\ s = "inserting" => ~ ActiveForPlan(r, ActiveFor(r))
      <3>1. CASE LoadAndDecide(r)
        <4>1. ActiveFor(r) = SingleActive
          BY <3>1 DEF LoadAndDecide, ActiveFor, SingleActive, Single, Chunked
        <4> QED BY <3>1, <4>1 DEF LoadAndDecide, SingleRefused, tables, wallet
      <3>2. CASE ChunkedLoadAndDecide(r)
        <4>1. ActiveFor(r) = ChunkedActive
          BY <3>2 DEF ChunkedLoadAndDecide, ActiveFor, ChunkedActive
        <4> QED BY <3>2, <4>1 DEF ChunkedLoadAndDecide, ChunkedRefused, tables, wallet
      <3> QED BY <1>2, <3>1, <3>2
    <2> QED BY <2>1, ActiveStep DEF Sending
  <1>3. ASSUME NEW r \in Runs, InsertDraft(r) \/ InsertChunked(r) PROVE ActiveInv'
    <2>1. PICK s \in {"failed", "sending"} :
            /\ pc[r] = "inserting" /\ pc' = [pc EXCEPT ![r] = s]
            /\ UNCHANGED <<args, ledger, atStart>>
      BY <1>3 DEF InsertDraft, InsertChunked, tables, wallet
    <2> QED BY <2>1, ActiveStep
  <1>4. ASSUME NEW r \in Runs, SendAccepted(r) \/ SendReplyLost(r) PROVE ActiveInv'
    <2>1. PICK c \in Pieces(args[r]), new \in Nat :
            /\ DOMAIN ledger' = DOMAIN ledger \cup {new} /\ \A t \in DOMAIN ledger : t < new
            /\ ledger'[new] = [run |-> r, piece |-> c]
            /\ \A t \in DOMAIN ledger : ledger'[t] = ledger[t]
            /\ pc[r] = "sending" /\ args' = args /\ executions' = executions
      BY <1>1, <1>4, BroadcastAdds
    <2>2. PICK s \in {"recording", "failing"} : pc' = [pc EXCEPT ![r] = s]
      BY <1>4 DEF SendAccepted, SendReplyLost
    <2>3. atStart' = atStart
      BY <1>4 DEF SendAccepted, SendReplyLost
    <2>4. \A t \in DOMAIN ledger' : \/ t \in DOMAIN ledger /\ ledger'[t] = ledger[t]
                                    \/ ledger'[t].run = r /\ pc[r] = "sending"
      BY <2>1
    <2>5. pc[r] \in Sending /\ args' = args
      BY <2>1 DEF Sending
    <2> QED BY <2>2, <2>3, <2>4, <2>5, ActiveStep
  <1>5. ASSUME NEW r \in Runs,
               \/ RecordRefusal(r) \/ SendRejected(r) \/ RecordRowsSent(r)
               \/ RecordChunkSent(r) \/ MarkRefused(r) \/ MarkSent(r)
               \/ CommitPartialSent(r) \/ CommitSent(r) \/ Crash(r)
        PROVE  ActiveInv'
    <2>1. PICK s \in {"failed", "done", "failing", "finishing", "sending", "crashed"} :
            /\ pc' = [pc EXCEPT ![r] = s]
            /\ s \in Sending => pc[r] \in Sending
            /\ UNCHANGED <<args, ledger, atStart>>
      BY <1>5 DEF RecordRefusal, SendRejected, RecordRowsSent, RecordChunkSent, MarkRefused,
           MarkSent, CommitPartialSent, CommitSent, Commit, Crash, tables, wallet, Sending
    <2> QED BY <2>1, ActiveStep DEF Sending
  <1>6. ASSUME UNCHANGED <<ledger, pc, args, atStart>> PROVE ActiveInv'
    <2>1. \A r \in Runs : ActiveForPlan(r, ActiveFor(r)) => ActiveForPlan(r, ActiveFor(r))'
      BY <1>6, ActivePlanStays
    <2> QED BY <1>6, <2>1 DEF ActiveInv, StopsIfActive, NoSendAfterActive
  <1>7. ASSUME NEW q \in Runs, MarkConfirmed(q) \/ MarkChunkedConfirmed(q) PROVE ActiveInv'
    BY <1>6, <1>7 DEF MarkConfirmed, MarkChunkedConfirmed, wallet, process
  <1>8. CASE Environment \/ UNCHANGED vars
    BY <1>6, <1>8
       DEF Environment, CancelPlan, ChangeAddress, Mine, vars, tables, wallet, process
  <1>9. CASE \E r \in Runs : Launch(r) \/ RecordRefusal(r) \/ Crash(r)
    BY <1>5, <1>9, ActiveLaunch
  <1>10. CASE WalletNext
    BY <1>4, <1>5, <1>10 DEF WalletNext
  <1>11. CASE SingleNext
    BY <1>2, <1>3, <1>5, <1>7, <1>11 DEF SingleNext
  <1>12. CASE ChunkedNext
    BY <1>2, <1>3, <1>5, <1>7, <1>12 DEF ChunkedNext
  <1> QED BY <1>8, <1>9, <1>10, <1>11, <1>12 DEF Next

LEMMA InitActive == Init => ActiveInv
  <1> SUFFICES ASSUME Init PROVE ActiveInv
    OBVIOUS
  <1>1. DOMAIN ledger = {} /\ \A r \in Runs : ~ atStart[r].active
    BY DEF Init
  <1> QED BY <1>1 DEF ActiveInv, StopsIfActive, NoSendAfterActive

\* However runs overlap, fail and crash, and whoever confirms executions meanwhile:
\* a run that is started when its plan has an active execution sends nothing.
THEOREM NoSendOnceActive == Spec => []NoSendAfterActive
  <1>1. RecordInv /\ ActiveInv /\ [Next]_vars => ActiveInv'
    BY NextActive
  <1>2. ActiveInv => NoSendAfterActive
    BY DEF ActiveInv
  <1> QED BY <1>1, <1>2, InitActive, RecordInvariant, PTL DEF Spec

-----------------------------------------------------------------------------
(* The amounts: what a plan is divided into, and what a run pays of it.    *)

\* The wallet's amount is at most the table's, and short of it by less than the
\* wallet's unit.
LEMMA WalletAmountRoundsDown ==
  ASSUME NEW x \in Nat
  PROVE  /\ WalletAmount(x) \in Nat /\ WalletAmount(x) <= x
         /\ x <= WalletAmount(x) + (WalletQuant - 1)
  <1>1. WalletQuant \in Nat /\ WalletQuant > 0
    BY QuantAssumption
  <1>2. x % WalletQuant \in 0 .. (WalletQuant - 1)
    BY <1>1
  <1>3. x % WalletQuant <= x
    <2>1. x = WalletQuant * (x \div WalletQuant) + (x % WalletQuant) /\ x \div WalletQuant \in Nat
      BY <1>1
    <2>2. WalletQuant * (x \div WalletQuant) >= 0
      BY <1>1, <2>1
    <2>3. PICK y, z : y = WalletQuant * (x \div WalletQuant) /\ z = x % WalletQuant
      OBVIOUS
    <2>4. y \in Int /\ z \in Int /\ y >= 0 /\ x = y + z
      BY <1>1, <1>2, <2>1, <2>2, <2>3
    <2>5. z <= x
      BY <2>4
    <2> QED BY <2>3, <2>5
  <1> QED BY <1>1, <1>2, <1>3 DEF WalletAmount

\* Chunks before the last one have the size asked for and the last one takes
\* what is left of the total: never less than nothing.
LEMMA ChunksFit ==
  ASSUME NEW total \in Nat, NEW size \in Nat \ {0}
  PROVE  /\ ChunkCount(total, size) \in Nat \ {0}
         /\ (ChunkCount(total, size) - 1) * size <= total
         /\ (ChunkCount(total, size) - 1) * size \in Nat
  <1>1. CASE size > total
    BY <1>1 DEF ChunkCount
  <1>2. CASE ~ (size > total)
    <2> DEFINE x == total + size - 1
               q == x \div size
    <2>1. x \in Nat /\ x >= size /\ q \in Nat
      BY <1>2
    <2>2. q * size <= x
      BY <2>1
    <2>3. q # 0
      BY <2>1
    <2>4. ChunkCount(total, size) = q
      BY <1>2 DEF ChunkCount
    <2> HIDE DEF q
    <2>5. (q - 1) * size = q * size - size /\ (q - 1) \in Nat
      BY <2>1, <2>3
    <2>6. q * size - size <= total
      BY <2>1, <2>2
    <2>7. (q - 1) * size \in Nat
      BY <2>5
    <2> QED BY <2>1, <2>3, <2>4, <2>5, <2>6, <2>7
  <1> QED BY <1>1, <1>2

LEMMA ChunkAmountType ==
  ASSUME NEW total \in Nat, NEW size \in Nat \ {0}, NEW i \in 1 .. ChunkCount(total, size)
  PROVE  ChunkAmount(total, size, i) \in Nat
  <1>1. /\ ChunkCount(total, size) \in Nat \ {0}
        /\ (ChunkCount(total, size) - 1) * size <= total
        /\ (ChunkCount(total, size) - 1) * size \in Nat
    BY ChunksFit
  <1>2. CASE i < ChunkCount(total, size)
    BY <1>2 DEF ChunkAmount
  <1>3. CASE ~ (i < ChunkCount(total, size))
    <2>1. i = ChunkCount(total, size)
      BY <1>1, <1>3
    <2>2. ChunkAmount(total, size, i) = total - (ChunkCount(total, size) - 1) * size
      BY <1>3, <2>1 DEF ChunkAmount
    <2> QED BY <1>1, <2>2
  <1> QED BY <1>2, <1>3

\* split_payout_amount_into_chunks conserves the amount it splits.
THEOREM ChunksAddUp ==
  ASSUME NEW total \in Nat, NEW size \in Nat \ {0}, NEW f,
         \A i \in 1 .. ChunkCount(total, size) : f[i] = ChunkAmount(total, size, i)
  PROVE  SumOver(f, 1 .. ChunkCount(total, size)) = total
  <1>1. PICK n : n = ChunkCount(total, size)
    OBVIOUS
  <1>2. n \in Nat \ {0} /\ (n - 1) * size \in Nat
    BY <1>1, ChunksFit
  <1>3. IsFiniteSet(1 .. n - 1) /\ Cardinality(1 .. n - 1) = n - 1
    BY <1>2, FS_Interval
  <1>4. 1 .. n = (1 .. n - 1) \cup {n} /\ n \notin 1 .. n - 1
    BY <1>2
  <1>5. \A i \in 1 .. n - 1 : f[i] = size
    BY <1>1, <1>2 DEF ChunkAmount
  <1>6. f[n] = total - (n - 1) * size
    BY <1>1, <1>2 DEF ChunkAmount
  <1>7. SumOver(f, 1 .. n - 1) = (n - 1) * size
    <2>1. PICK X : X = 1 .. n - 1
      OBVIOUS
    <2>2. IsFiniteSet(X) /\ Cardinality(X) = n - 1
      BY <1>3, <2>1, Zenon
    <2>3. size \in Int /\ \A i \in X : f[i] = size
      BY <1>5, <2>1
    <2>4. SumOver(f, X) = Cardinality(X) * size
      BY <2>2, <2>3, SumOverConstant
    <2> QED BY <2>1, <2>2, <2>4
  <1>8. SumOver(f, (1 .. n - 1) \cup {n}) = SumOver(f, 1 .. n - 1) + f[n]
    <2>1. \A i \in (1 .. n - 1) \cup {n} : f[i] \in Int
      BY <1>2, <1>5, <1>6
    <2>2. PICK X : X = 1 .. n - 1
      OBVIOUS
    <2>3. SumOver(f, X \cup {n}) = SumOver(f, X) + f[n]
      BY <1>3, <1>4, <2>1, <2>2, SumOverAdd
    <2> QED BY <2>2, <2>3
  <1>9. SumOver(f, 1 .. n) = (n - 1) * size + (total - (n - 1) * size)
    BY <1>4, <1>6, <1>7, <1>8, Zenon
  <1> QED BY <1>1, <1>2, <1>9

LEMMA PlanType ==
  ASSUME NEW a \in Invocations
  PROVE  /\ a.plan \in Plans /\ a.chunk_amount \in Nat \ {0}
         /\ IsFiniteSet(RowIds(a.plan))
         /\ \A n \in RowIds(a.plan) : /\ RowAmount(a.plan, n) \in Nat
                                      /\ RowAmounts(a.plan)[n] = RowAmount(a.plan, n)
  <1>1. a.plan \in Plans /\ a.chunk_amount \in Nat \ {0}
    BY InvocationsAssumption DEF CommandLine
  <1>2. PlanRows[a.plan] \in Seq([address: Addresses, amount: Nat])
    BY <1>1, PlanRowsAssumption
  <1>3. PICK s : s = PlanRows[a.plan]
    OBVIOUS
  <1>4. DOMAIN s = 1 .. Len(s) /\ Len(s) \in Nat /\ \A n \in DOMAIN s : s[n].amount \in Nat
    <2>1. PICK Row : Row = [address: Addresses, amount: Nat]
      OBVIOUS
    <2>2. s \in Seq(Row)
      BY <1>2, <1>3, <2>1, Zenon
    <2>3. DOMAIN s = 1 .. Len(s) /\ Len(s) \in Nat /\ \A n \in DOMAIN s : s[n] \in Row
      BY <2>2
    <2> QED BY <2>1, <2>3
  <1>5. IsFiniteSet(DOMAIN s)
    BY <1>4, FS_Interval
  <1> QED BY <1>1, <1>3, <1>4, <1>5 DEF RowIds, RowAmounts, RowAmount

\* The groups of a plan's rows that share an address have the plan's total.
LEMMA GroupsAddUp ==
  ASSUME NEW a \in Invocations, a.kind = Single
  PROVE  /\ IsFiniteSet(Pieces(a))
         /\ \A c \in Pieces(a) : PieceAmount(a, c) \in Nat
         /\ SumOver(PieceAmounts(a), Pieces(a)) = PlannedTotal(a.plan)
  <1> DEFINE rows == RowIds(a.plan)
             f == RowAmounts(a.plan)
             B == [c \in Pieces(a) |-> PieceRows(a, c)]
  <1>1. IsFiniteSet(rows) /\ \A n \in rows : f[n] \in Nat
    BY PlanType
  <1>2. IsFiniteSet(Pieces(a))
    <2> DEFINE h == [n \in rows |-> [row |-> n, index |-> 1]]
    <2>1. IsFiniteSet({h[n] : n \in rows})
      <3> HIDE DEF h
      <3> QED BY <1>1, ImageIsFinite
    <2>2. Pieces(a) \subseteq {h[n] : n \in rows}
      BY DEF Pieces, GroupPieces
    <2> QED BY <2>1, <2>2, FS_Subset
  <1>3. ASSUME NEW c \in Pieces(a)
        PROVE  /\ B[c] \subseteq rows /\ IsFiniteSet(B[c]) /\ \A n \in B[c] : f[n] \in Nat
               /\ PieceAmount(a, c) = SumOver(f, B[c]) /\ PieceAmount(a, c) \in Nat
    <2>1. B[c] = PieceRows(a, c) /\ PieceRows(a, c) \subseteq rows
      BY PiecePaysRows
    <2>2. IsFiniteSet(B[c]) /\ \A n \in B[c] : f[n] \in Nat
      BY <1>1, <2>1, FS_Subset
    <2>3. PieceAmount(a, c) = SumOver(f, B[c])
      BY <2>1 DEF PieceAmount
    <2>4. PICK X, g : X = B[c] /\ g = f
      OBVIOUS
    <2>5. SumOver(g, X) \in Nat
      BY <2>2, <2>4, SumOverNat
    <2>6. SumOver(f, B[c]) \in Nat
      BY <2>4, <2>5, Zenon
    <2> QED BY <2>1, <2>2, <2>3, <2>6
  <1>4. \A c, d \in Pieces(a) : c # d => B[c] \cap B[d] = {}
    BY PiecesAreDisjoint
  <1>5. UNION {B[c] : c \in Pieces(a)} = rows
    <2>1. \A n \in rows : \E c \in Pieces(a) : n \in B[c]
      BY RowHasPiece
    <2> QED BY <1>3, <2>1
  <1>6. \A c \in Pieces(a) : PieceAmounts(a)[c] = SumOver(f, B[c])
    BY <1>3 DEF PieceAmounts
  <1>7. PICK I, C, F, g : I = Pieces(a) /\ C = B /\ F = PieceAmounts(a) /\ g = f
    OBVIOUS
  <1> HIDE DEF B, f, rows
  <1>8. SumOver(g, UNION {C[c] : c \in I}) = SumOver(F, I)
    <2>1. \A c \in I : IsFiniteSet(C[c]) /\ F[c] = SumOver(g, C[c])
      BY <1>3, <1>6, <1>7, Zenon
    <2>2. \A c \in I : \A x \in C[c] : g[x] \in Int
      BY <1>3, <1>7
    <2>3. IsFiniteSet(I) /\ \A c, d \in I : c # d => C[c] \cap C[d] = {}
      BY <1>2, <1>4, <1>7, Zenon
    <2> QED BY <2>1, <2>2, <2>3, SumOverBlocks
  <1>9. SumOver(f, UNION {B[c] : c \in Pieces(a)}) = SumOver(PieceAmounts(a), Pieces(a))
    BY <1>7, <1>8, Zenon
  <1>10. SumOver(f, rows) = SumOver(PieceAmounts(a), Pieces(a))
    BY <1>5, <1>9, Zenon
  <1> QED BY <1>2, <1>3, <1>10 DEF PlannedTotal, f, rows

\* The chunks of one row have the row's amount.
LEMMA RowChunksAddUp ==
  ASSUME NEW a \in Invocations, a.kind # Single, NEW n \in RowIds(a.plan), NEW X,
         X = {[row |-> n, index |-> i] : i \in 1 .. ChunkCount(RowAmount(a.plan, n),
                                                               a.chunk_amount)}
  PROVE  /\ X \subseteq Pieces(a) /\ IsFiniteSet(X) /\ \A c \in X : c.row = n
         /\ \A c \in X : PieceAmount(a, c) \in Nat
         /\ SumOver(PieceAmounts(a), X) = RowAmount(a.plan, n)
  <1> DEFINE total == RowAmount(a.plan, n)
             size == a.chunk_amount
             S == 1 .. ChunkCount(total, size)
             f == [i \in S |-> ChunkAmount(total, size, i)]
             h == [i \in S |-> [row |-> n, index |-> i]]
  <1>1. total \in Nat /\ size \in Nat \ {0}
    BY PlanType
  <1>2. ChunkCount(total, size) \in Nat /\ IsFiniteSet(S)
    <2>1. PICK k : k = ChunkCount(total, size)
      OBVIOUS
    <2>2. k \in Nat
      BY <1>1, <2>1, ChunksFit
    <2>3. IsFiniteSet(1 .. k)
      BY <2>2, FS_Interval
    <2> QED BY <2>1, <2>2, <2>3, Zenon
  <1>3. X \subseteq Pieces(a) /\ \A c \in X : c.row = n
    BY DEF Pieces, ChunkPieces
  <1>4. X = {h[i] : i \in S}
    OBVIOUS
  <1>5. \A i \in S : PieceAmount(a, h[i]) = f[i] /\ f[i] \in Nat
    BY <1>1, ChunkAmountType DEF PieceAmount
  <1>6. \A i \in S : PieceAmounts(a)[h[i]] = f[i] /\ f[i] \in Int
    <2>1. \A i \in S : h[i] \in Pieces(a)
      BY <1>3, <1>4
    <2>2. \A c \in Pieces(a) : PieceAmounts(a)[c] = PieceAmount(a, c)
      BY DEF PieceAmounts
    <2> HIDE DEF S, f, h
    <2>3. \A i \in S : f[i] \in Int
      BY <1>5
    <2> QED BY <1>5, <2>1, <2>2, <2>3
  <1>7. \A i, j \in S : h[i] = h[j] => i = j
    OBVIOUS
  <1>8. ASSUME NEW c \in X PROVE PieceAmount(a, c) \in Nat
    <2>1. PICK i \in S : c = h[i]
      BY <1>4
    <2> HIDE DEF h, f
    <2> QED BY <1>5, <2>1, Zenon
  <1>9. \A i \in S : f[i] = ChunkAmount(total, size, i)
    OBVIOUS
  <1>10. SumOver(f, S) = total
    <2> HIDE DEF f, total, size
    <2> QED BY <1>1, <1>9, ChunksAddUp
  <1>11. PICK g : g = PieceAmounts(a)
    OBVIOUS
  <1> HIDE DEF f, h, S, total
  <1>12. IsFiniteSet({h[i] : i \in S}) /\ SumOver(f, S) = SumOver(g, {h[i] : i \in S})
    <2>1. \A i \in S : f[i] \in Int /\ f[i] = g[h[i]]
      BY <1>6, <1>11, Zenon
    <2> QED BY <1>2, <1>7, <2>1, SumOverImage
  <1>13. IsFiniteSet(X) /\ SumOver(PieceAmounts(a), X) = total
    BY <1>4, <1>10, <1>11, <1>12, Zenon
  <1> QED BY <1>3, <1>8, <1>13 DEF total

LEMMA ChunkPiecesAddUp ==
  ASSUME NEW a \in Invocations, a.kind # Single
  PROVE  /\ IsFiniteSet(Pieces(a))
         /\ \A c \in Pieces(a) : PieceAmount(a, c) \in Nat
         /\ SumOver(PieceAmounts(a), Pieces(a)) = PlannedTotal(a.plan)
  <1> DEFINE rows == RowIds(a.plan)
             B == [n \in rows |-> {[row |-> n, index |-> i] :
                                     i \in 1 .. ChunkCount(RowAmount(a.plan, n), a.chunk_amount)}]
  <1>1. IsFiniteSet(rows)
    BY PlanType
  <1>2. \A n \in rows : /\ B[n] \subseteq Pieces(a) /\ IsFiniteSet(B[n])
                        /\ \A c \in B[n] : c.row = n
                        /\ \A c \in B[n] : PieceAmount(a, c) \in Nat
                        /\ SumOver(PieceAmounts(a), B[n]) = RowAmount(a.plan, n)
    <2> SUFFICES ASSUME NEW n \in rows
                 PROVE  /\ B[n] \subseteq Pieces(a) /\ IsFiniteSet(B[n])
                        /\ \A c \in B[n] : c.row = n
                        /\ \A c \in B[n] : PieceAmount(a, c) \in Nat
                        /\ SumOver(PieceAmounts(a), B[n]) = RowAmount(a.plan, n)
      OBVIOUS
    <2>1. B[n] = {[row |-> n, index |-> i] :
                    i \in 1 .. ChunkCount(RowAmount(a.plan, n), a.chunk_amount)}
      OBVIOUS
    <2>2. PICK X : X = B[n]
      OBVIOUS
    <2> HIDE DEF B
    <2>3. X = {[row |-> n, index |-> i] :
                 i \in 1 .. ChunkCount(RowAmount(a.plan, n), a.chunk_amount)}
      BY <2>1, <2>2
    <2>4. /\ X \subseteq Pieces(a) /\ IsFiniteSet(X) /\ \A c \in X : c.row = n
          /\ \A c \in X : PieceAmount(a, c) \in Nat
          /\ SumOver(PieceAmounts(a), X) = RowAmount(a.plan, n)
      BY <2>3, RowChunksAddUp
    <2> QED BY <2>2, <2>4, Zenon
  <1>3. Pieces(a) = UNION {B[n] : n \in rows}
    BY DEF Pieces, ChunkPieces
  <1>4. \A n \in rows : RowAmounts(a.plan)[n] = SumOver(PieceAmounts(a), B[n])
    BY <1>2, PlanType
  <1>5. \A n \in rows : \A c \in B[n] : PieceAmounts(a)[c] \in Int
    <2> HIDE DEF B
    <2> QED BY <1>2 DEF PieceAmounts
  <1>6. \A m, n \in rows : m # n => B[m] \cap B[n] = {}
    <2> HIDE DEF B
    <2> QED BY <1>2
  <1>7. PICK I, C, F, g : I = rows /\ C = B /\ F = RowAmounts(a.plan) /\ g = PieceAmounts(a)
    OBVIOUS
  <1> HIDE DEF B, rows
  <1>8. IsFiniteSet(UNION {C[n] : n \in I}) /\ SumOver(g, UNION {C[n] : n \in I}) = SumOver(F, I)
    <2>1. \A n \in I : IsFiniteSet(C[n]) /\ F[n] = SumOver(g, C[n]) /\ \A x \in C[n] : g[x] \in Int
      BY <1>2, <1>4, <1>5, <1>7, Zenon
    <2>2. \A m, n \in I : m # n => C[m] \cap C[n] = {}
      BY <1>6, <1>7
    <2>3. IsFiniteSet(I)
      BY <1>1, <1>7, Zenon
    <2>4. IsFiniteSet(UNION {C[n] : n \in I})
      <3>1. PICK Y : Y = {C[n] : n \in I}
        OBVIOUS
      <3>2. IsFiniteSet(Y) /\ \A Z \in Y : IsFiniteSet(Z)
        BY <2>1, <2>3, <3>1, ImageIsFinite
      <3>3. IsFiniteSet(UNION Y)
        BY <3>2, FS_UNION
      <3> QED BY <3>1, <3>3, Zenon
    <2>5. SumOver(g, UNION {C[n] : n \in I}) = SumOver(F, I)
      BY <2>1, <2>2, <2>3, SumOverBlocks
    <2> QED BY <2>4, <2>5
  <1>9. /\ IsFiniteSet(UNION {B[n] : n \in rows})
        /\ SumOver(PieceAmounts(a), UNION {B[n] : n \in rows}) = SumOver(RowAmounts(a.plan), rows)
    BY <1>7, <1>8, Zenon
  <1>10. IsFiniteSet(Pieces(a)) /\ SumOver(PieceAmounts(a), Pieces(a)) = SumOver(RowAmounts(a.plan), rows)
    BY <1>3, <1>9, Zenon
  <1>11. \A c \in Pieces(a) : PieceAmount(a, c) \in Nat
    BY <1>2, <1>3
  <1> QED BY <1>10, <1>11 DEF PlannedTotal, rows

\* Nothing is lost or paid twice when an executor divides a plan into the pieces
\* it sends: wallet_rows of the single executor, split_payout_amount_into_chunks
\* of the chunked one.
THEOREM PiecesAddUp ==
  ASSUME NEW a \in Invocations
  PROVE  /\ IsFiniteSet(Pieces(a))
         /\ \A c \in Pieces(a) : PieceAmount(a, c) \in Nat
         /\ SumOver(PieceAmounts(a), Pieces(a)) = PlannedTotal(a.plan)
  BY GroupsAddUp, ChunkPiecesAddUp

-----------------------------------------------------------------------------
(* What a run has paid.                                                    *)

WalletAmounts(a) == [c \in Pieces(a) |-> WalletAmount(PieceAmount(a, c))]

SentPieces(r) == {ledger[t].piece : t \in {t \in DOMAIN ledger : ledger[t].run = r}}

\* A run has paid the wallet amounts of the pieces it has sent.
LEMMA PaidPieces ==
  ASSUME SendInv, NEW r \in Runs
  PROVE  /\ SentPieces(r) \subseteq Pieces(args[r])
         /\ PaidByRun(r) = SumOver(WalletAmounts(args[r]), SentPieces(r))
  <1> DEFINE T == {t \in DOMAIN ledger : ledger[t].run = r}
             a == args[r]
             h == [t \in DOMAIN ledger |-> ledger[t].piece]
  <1>1. TypeOK /\ a \in Invocations
    BY DEF SendInv, TypeOK
  <1>2. IsFiniteSet(T)
    <2>1. DOMAIN ledger = 1 .. Len(ledger) /\ Len(ledger) \in Nat
      BY <1>1 DEF TypeOK
    <2>2. IsFiniteSet(DOMAIN ledger)
      BY <2>1, FS_Interval
    <2> QED BY <2>2, FS_Subset
  <1>3. \A t \in T : ledger[t].piece \in Pieces(a)
    BY DEF SendInv, PiecesSentOnce
  <1>4. \A t, u \in T : h[t] = h[u] => t = u
    BY DEF SendInv, PiecesSentOnce
  <1>5. \A t \in T : PieceAmount(a, ledger[t].piece) \in Nat
    BY <1>1, <1>3, PiecesAddUp
  <1>6. \A t \in T : /\ TxAmounts[t] = WalletAmount(PieceAmount(a, ledger[t].piece))
                     /\ WalletAmounts(a)[h[t]] = WalletAmount(PieceAmount(a, ledger[t].piece))
    BY <1>3 DEF TxAmounts, WalletAmounts
  <1>7. \A t \in T : TxAmounts[t] \in Int /\ TxAmounts[t] = WalletAmounts(a)[h[t]]
    BY <1>5, <1>6, WalletAmountRoundsDown
  <1>8. SentPieces(r) = {h[t] : t \in T}
    BY DEF SentPieces
  <1>9. PICK S, f, g, j : S = T /\ f = TxAmounts /\ g = WalletAmounts(a) /\ j = h
    OBVIOUS
  <1> HIDE DEF h, T, a
  <1>10. SumOver(f, S) = SumOver(g, {j[t] : t \in S})
    <2>1. IsFiniteSet(S)
      BY <1>2, <1>9, Zenon
    <2>2. \A t \in S : f[t] \in Int /\ f[t] = g[j[t]]
      BY <1>7, <1>9, Zenon
    <2>3. \A t, u \in S : j[t] = j[u] => t = u
      BY <1>4, <1>9, Zenon
    <2> QED BY <2>1, <2>2, <2>3, SumOverImage
  <1>11. SumOver(TxAmounts, T) = SumOver(WalletAmounts(a), SentPieces(r))
    BY <1>8, <1>9, <1>10, Zenon
  <1>12. SentPieces(r) \subseteq Pieces(a)
    BY <1>3 DEF SentPieces, T
  <1> QED BY <1>11, <1>12 DEF PaidByRun, T, a

\* An execution that ends paid has sent every piece.
LEMMA AllPiecesSent ==
  ASSUME RecordInv, NEW r \in Runs, executions[r].status \in Paid
  PROVE  SentPieces(r) = Pieces(args[r])
  <1>1. TypeOK /\ SendInv /\ args[r] \in Invocations
    BY DEF RecordInv, SendInv, TypeOK
  <1>2. \A c \in Pieces(args[r]) : Recorded(ledger, r, args[r], executions[r], c)
    BY DEF RecordInv, RecordsSound, RecordIsTrue, RecordTrue
  <1>3. ASSUME NEW c \in Pieces(args[r]) PROVE c \in SentPieces(r)
    <2>1. LinesFor(args[r], executions[r], c) # {}
      <3>1. PICK a, x : a = args[r] /\ x = executions[r]
        OBVIOUS
      <3>2. a \in Invocations /\ c \in Pieces(a)
        BY <1>1, <3>1
      <3>3. LinesFor(a, x, c) # {}
        <4>1. CASE a.kind = Single
          <5>1. PieceRows(a, c) # {} /\ LinesFor(a, x, c) = {x.rows[n] : n \in PieceRows(a, c)}
            BY <3>2, <4>1, LinesOfPiece, PiecePaysRows
          <5> QED BY <5>1
        <4>2. CASE a.kind # Single
          <5>1. LinesFor(a, x, c) = {x.chunks[c]}
            BY <3>2, <4>2, LinesOfPiece
          <5> QED BY <5>1
        <4> QED BY <4>1, <4>2
      <3> QED BY <3>1, <3>3, Zenon
    <2>2. PICK t : PaidWith(ledger, r, c, t)
      BY <1>2, <2>1 DEF Recorded
    <2> QED BY <2>2 DEF PaidWith, SentPieces
  <1> QED BY <1>1, <1>3, PaidPieces

\* The inductive invariant has the sums the executors promise.
LEMMA RecordInvPaysWithinDust == RecordInv => PaidWithinDust
  <1> SUFFICES ASSUME RecordInv, NEW r \in Runs
               PROVE  /\ PaidByRun(r) <= PlannedTotal(args[r].plan)
                      /\ executions[r].status \in Paid =>
                           PlannedTotal(args[r].plan) - PaidByRun(r)
                             <= Cardinality(Pieces(args[r])) * (WalletQuant - 1)
    BY DEF PaidWithinDust
  <1>1. SendInv /\ args[r] \in Invocations
    BY DEF RecordInv, SendInv, TypeOK
  <1>2. PICK a, P, Q, f, g : /\ a = args[r] /\ P = Pieces(a) /\ Q = SentPieces(r)
                             /\ f = PieceAmounts(a) /\ g = WalletAmounts(a)
    OBVIOUS
  <1>3. PICK total, paid, k : /\ total = PlannedTotal(a.plan) /\ paid = PaidByRun(r)
                              /\ k = WalletQuant - 1
    OBVIOUS
  <1>4. IsFiniteSet(P) /\ SumOver(f, P) = total
    BY <1>1, <1>2, <1>3, PiecesAddUp
  <1>5. \A c \in P : /\ f[c] \in Nat /\ g[c] \in Nat /\ g[c] <= f[c] /\ f[c] <= g[c] + k
    <2>1. \A c \in P : PieceAmount(a, c) \in Nat
      BY <1>1, <1>2, PiecesAddUp
    <2>2. \A c \in P : f[c] = PieceAmount(a, c) /\ g[c] = WalletAmount(PieceAmount(a, c))
      BY <1>2 DEF PieceAmounts, WalletAmounts
    <2> QED BY <1>3, <2>1, <2>2, WalletAmountRoundsDown
  <1>6. Q \in SUBSET P /\ paid = SumOver(g, Q) /\ IsFiniteSet(Q)
    <2>1. Q \in SUBSET P /\ paid = SumOver(g, Q)
      BY <1>1, <1>2, <1>3, PaidPieces, Zenon
    <2> QED BY <1>4, <2>1, FS_Subset
  <1>7. k \in Int
    BY <1>3, QuantAssumption
  <1>8. SumOver(g, Q) <= SumOver(g, P)
    BY <1>4, <1>5, <1>6, SumOverSubset
  <1>9. SumOver(g, P) <= SumOver(f, P)
    <2>1. \A c \in P : g[c] \in Int /\ f[c] \in Int /\ g[c] <= f[c]
      BY <1>5
    <2> QED BY <1>4, <2>1, SumOverMonotone
  <1>10. SumOver(f, P) <= SumOver(g, P) + Cardinality(P) * k
    <2>1. \A c \in P : f[c] \in Int /\ g[c] \in Int /\ f[c] <= g[c] + k
      BY <1>5
    <2> QED BY <1>4, <1>7, <2>1, SumOverCompare
  <1>11. /\ SumOver(f, P) \in Int /\ SumOver(g, P) \in Int /\ SumOver(g, Q) \in Int
         /\ Cardinality(P) \in Int /\ Cardinality(P) * k \in Int
    <2>1. \A c \in P : f[c] \in Int /\ g[c] \in Int
      BY <1>5
    <2>2. \A c \in Q : g[c] \in Int
      BY <1>6, <2>1
    <2>3. Cardinality(P) \in Nat
      BY <1>4, FS_CardinalityType
    <2>4. Cardinality(P) * k \in Int
      BY <1>7, <2>3
    <2> QED BY <1>4, <1>6, <2>1, <2>2, <2>3, <2>4, SumOverType
  <1>12. paid <= total
    <2>1. PICK x, y, z : x = SumOver(g, Q) /\ y = SumOver(g, P) /\ z = SumOver(f, P)
      OBVIOUS
    <2>2. x <= y /\ y <= z /\ x \in Int /\ y \in Int /\ z \in Int
      BY <1>8, <1>9, <1>11, <2>1, Zenon
    <2>3. x <= z
      BY <2>2
    <2> QED BY <1>4, <1>6, <2>1, <2>3, Zenon
  <1>13. ASSUME executions[r].status \in Paid PROVE total - paid <= Cardinality(P) * k
    <2>1. Q = P
      BY <1>2, <1>13, AllPiecesSent, Zenon
    <2>2. PICK y, z, d : y = SumOver(g, P) /\ z = SumOver(f, P) /\ d = Cardinality(P) * k
      OBVIOUS
    <2>3. y \in Int /\ z \in Int /\ d \in Int /\ z <= y + d
      BY <1>10, <1>11, <2>2, Zenon
    <2>4. z - y <= d
      BY <2>3
    <2>5. paid = y /\ total = z
      BY <1>4, <1>6, <2>1, <2>2, Zenon
    <2> QED BY <2>2, <2>4, <2>5, Zenon
  <1> QED BY <1>2, <1>3, <1>12, <1>13, Zenon

\* However a run is interleaved, repeated or killed, its transactions pay no more
\* than its plan, and an execution recorded as sent is short of it by rounding only.
THEOREM PaymentsMatchThePlan == Spec => []PaidWithinDust
  BY RecordInvPaysWithinDust, RecordInvariant, PTL

-----------------------------------------------------------------------------
(* The balance: what a run may spend of it, and what it leaves.            *)

\* Transactions have amounts, and those up to n can be summed.
LEMMA AmountsType ==
  ASSUME SendInv
  PROVE  /\ \A t \in DOMAIN ledger : TxAmounts[t] \in Nat
         /\ Len(ledger) \in Nat /\ DOMAIN ledger = 1 .. Len(ledger)
         /\ \A n \in Nat : n <= Len(ledger) =>
               /\ IsFiniteSet(1 .. n) /\ 1 .. n \subseteq DOMAIN ledger
               /\ SumOver(TxAmounts, 1 .. n) \in Nat
               /\ SumOver(TxAmounts, 1 .. n) <= SumOver(TxAmounts, DOMAIN ledger)
         /\ SumOver(TxAmounts, DOMAIN ledger) \in Nat
  <1>1. TypeOK /\ PiecesSentOnce
    BY DEF SendInv
  <1>2. Len(ledger) \in Nat /\ DOMAIN ledger = 1 .. Len(ledger)
    BY <1>1 DEF TypeOK
  <1>3. ASSUME NEW t \in DOMAIN ledger PROVE TxAmounts[t] \in Nat
    <2>1. /\ args[ledger[t].run] \in Invocations
          /\ ledger[t].piece \in Pieces(args[ledger[t].run])
      BY <1>1, LedgerType DEF TypeOK, PiecesSentOnce
    <2>2. PieceAmount(args[ledger[t].run], ledger[t].piece) \in Nat
      BY <2>1, PiecesAddUp
    <2> QED BY <2>2, WalletAmountRoundsDown DEF TxAmounts
  <1>4. IsFiniteSet(DOMAIN ledger)
    BY <1>2, FS_Interval
  <1>5. ASSUME NEW n \in Nat, n <= Len(ledger)
        PROVE  /\ IsFiniteSet(1 .. n) /\ 1 .. n \subseteq DOMAIN ledger
               /\ SumOver(TxAmounts, 1 .. n) \in Nat
               /\ SumOver(TxAmounts, 1 .. n) <= SumOver(TxAmounts, DOMAIN ledger)
    <2>1. IsFiniteSet(1 .. n)
      BY FS_Interval
    <2>2. 1 .. n \subseteq DOMAIN ledger
      BY <1>2, <1>5
    <2>3. PICK f, S, T : f = TxAmounts /\ S = 1 .. n /\ T = DOMAIN ledger
      OBVIOUS
    <2>4. /\ IsFiniteSet(S) /\ IsFiniteSet(T) /\ S \in SUBSET T
          /\ \A x \in T : f[x] \in Nat
      BY <1>3, <1>4, <2>1, <2>2, <2>3, Zenon
    <2>5. SumOver(f, S) \in Nat /\ SumOver(f, S) <= SumOver(f, T)
      <3>1. \A x \in S : f[x] \in Nat
        BY <2>4
      <3> QED BY <2>4, <3>1, SumOverNat, SumOverSubset
    <2> QED BY <2>1, <2>2, <2>3, <2>5, Zenon
  <1>6. SumOver(TxAmounts, DOMAIN ledger) \in Nat
    BY <1>3, <1>4, SumOverNat
  <1> QED BY <1>2, <1>3, <1>5, <1>6

\* What the first n transactions pay does not change.
LEMMA EarlierAmountsStay ==
  ASSUME SendInv, args' = args, DOMAIN ledger \subseteq DOMAIN ledger',
         \A t \in DOMAIN ledger : ledger'[t] = ledger[t]
  PROVE  /\ \A t \in DOMAIN ledger : TxAmounts'[t] = TxAmounts[t]
         /\ SumOver(TxAmounts', DOMAIN ledger) = SumOver(TxAmounts, DOMAIN ledger)
         /\ \A n \in Nat : n <= Len(ledger) =>
               SumOver(TxAmounts', 1 .. n) = SumOver(TxAmounts, 1 .. n)
  <1>1. \A t \in DOMAIN ledger : TxAmounts'[t] = TxAmounts[t]
    BY DEF TxAmounts
  <1>2. PICK f, g, T : f = TxAmounts /\ g = TxAmounts' /\ T = DOMAIN ledger
    OBVIOUS
  <1>3. ASSUME NEW S \in SUBSET T, IsFiniteSet(S) PROVE SumOver(g, S) = SumOver(f, S)
    <2>1. \A t \in S : g[t] \in Int /\ g[t] = f[t]
      BY <1>1, <1>2, <1>3, AmountsType
    <2> QED BY <1>3, <2>1, SumOverEqual
  <1>4. IsFiniteSet(T)
    BY <1>2, AmountsType
  <1>5. ASSUME NEW n \in Nat, n <= Len(ledger)
        PROVE  SumOver(TxAmounts', 1 .. n) = SumOver(TxAmounts, 1 .. n)
    <2>1. IsFiniteSet(1 .. n) /\ 1 .. n \in SUBSET T
      BY <1>2, <1>5, AmountsType
    <2> QED BY <1>2, <1>3, <2>1
  <1> QED BY <1>1, <1>2, <1>3, <1>4, <1>5

\* The balance after the first n transactions: all that is not spent.
LEMMA BalanceAfter ==
  ASSUME SendInv, SumOver(TxAmounts, DOMAIN ledger) <= TrustedAtStart,
         NEW n \in Nat, n <= Len(ledger)
  PROVE  /\ TrustedAfter(n) = TrustedAtStart - SumOver(TxAmounts, 1 .. n)
         /\ TrustedAfter(n) \in Nat
  <1>1. PICK x, y : x = SumOver(TxAmounts, 1 .. n) /\ y = SumOver(TxAmounts, DOMAIN ledger)
    OBVIOUS
  <1>2. x \in Nat /\ y \in Nat /\ x <= y /\ y <= TrustedAtStart /\ TrustedAtStart \in Nat
    BY <1>1, AmountsType, BoundsAssumption
  <1>3. TrustedAfter(n) = IF x > TrustedAtStart THEN 0 ELSE TrustedAtStart - x
    BY <1>1 DEF TrustedAfter
  <1> QED BY <1>1, <1>2, <1>3

LEMMA TrustedStays ==
  ASSUME SendInv, args' = args, DOMAIN ledger \subseteq DOMAIN ledger',
         \A t \in DOMAIN ledger : ledger'[t] = ledger[t],
         NEW n \in Nat, n <= Len(ledger)
  PROVE  TrustedAfter(n)' = TrustedAfter(n)
  <1>1. SumOver(TxAmounts', 1 .. n) = SumOver(TxAmounts, 1 .. n)
    BY EarlierAmountsStay
  <1> QED BY <1>1 DEF TrustedAfter

\* A step of run r after it was started.
LEMMA BalanceStep ==
  ASSUME SendInv, SendInv', BalanceSound, args' = args, atStart' = atStart,
         DOMAIN ledger \subseteq DOMAIN ledger',
         \A t \in DOMAIN ledger : ledger'[t] = ledger[t],
         SumOver(TxAmounts, DOMAIN ledger)' <= TrustedAtStart,
         \A q \in Runs : pc'[q] \in {"inserting"} \cup Sending =>
            \/ pc[q] \in {"inserting"} \cup Sending
            \/ WithinReserve(args[q].plan, TrustedAfter(atStart[q].sent)),
         \A t \in DOMAIN ledger' \ DOMAIN ledger :
            t > Len(ledger) /\ pc[ledger'[t].run] = "sending"
  PROVE  BalanceSound'
  <1>1. TypeOK /\ TypeOK'
    BY DEF SendInv
  <1>2. Len(ledger) \in Nat /\ Len(ledger') \in Nat /\ Len(ledger) <= Len(ledger')
    <2>1. /\ Len(ledger) \in Nat /\ DOMAIN ledger = 1 .. Len(ledger)
          /\ Len(ledger') \in Nat /\ DOMAIN ledger' = 1 .. Len(ledger')
      BY <1>1 DEF TypeOK
    <2> QED BY <2>1
  <1>3. \A q \in Runs : /\ atStart[q].sent \in Nat
                        /\ atStart[q].sent <= Len(ledger) /\ atStart[q].sent <= Len(ledger')
    BY <1>1, <1>2 DEF BalanceSound, TypeOK
  <1>4. ASSUME NEW q \in Runs
        PROVE  WithinReserve(args[q].plan, TrustedAfter(atStart[q].sent))'
                 = WithinReserve(args[q].plan, TrustedAfter(atStart[q].sent))
    <2>1. TrustedAfter(atStart[q].sent)' = TrustedAfter(atStart[q].sent)
      <3>1. PICK n : n = atStart[q].sent
        OBVIOUS
      <3>2. n \in Nat /\ n <= Len(ledger)
        BY <1>3, <3>1
      <3>3. TrustedAfter(n)' = TrustedAfter(n)
        BY <3>2, TrustedStays
      <3> QED BY <3>1, <3>3 DEF TrustedAfter
    <2> QED BY <2>1 DEF WithinReserve
  <1>5. \A q \in Runs :
          /\ atStart'[q].sent <= Len(ledger')
          /\ pc'[q] \in {"inserting"} \cup Sending
               => WithinReserve(args[q].plan, TrustedAfter(atStart[q].sent))'
    BY <1>3, <1>4 DEF BalanceSound
  <1>6. ASSUME NEW t \in DOMAIN ledger', NEW q, q = ledger'[t].run
        PROVE  /\ t > atStart'[q].sent
               /\ WithinReserve(args[q].plan, TrustedAfter(atStart[q].sent))'
    <2>1. q \in Runs /\ t \in Nat
      <3> DEFINE Entry == [run : Runs, piece : Piece]
      <3>1. ledger' \in Seq(Entry) /\ \A e \in Entry : e.run \in Runs
        BY <1>1 DEF TypeOK
      <3> HIDE DEF Entry
      <3> QED BY <1>6, <3>1
    <2>2. CASE t \in DOMAIN ledger
      BY <1>4, <1>6, <2>1, <2>2 DEF BalanceSound
    <2>3. CASE t \notin DOMAIN ledger
      <3>1. t > Len(ledger) /\ pc[q] = "sending"
        BY <1>6, <2>3
      <3>2. t > atStart[q].sent
        BY <1>2, <1>3, <2>1, <3>1
      <3> QED BY <1>4, <2>1, <3>1, <3>2 DEF BalanceSound, Sending
    <2> QED BY <2>2, <2>3
  <1> QED BY <1>5, <1>6 DEF BalanceSound

LEMMA BalanceLaunch ==
  ASSUME SendInv, SendInv', BalanceSound, NEW r \in Runs, Launch(r) PROVE BalanceSound'
  <1>1. TypeOK /\ LedgerRunsStarted /\ Len(ledger) \in Nat
    BY AmountsType DEF SendInv
  <1>2. /\ pc[r] = "idle" /\ pc'[r] = "loading"
        /\ \A q \in Runs \ {r} : pc'[q] = pc[q] /\ atStart'[q] = atStart[q]
        /\ atStart'[r].sent = Len(ledger)
        /\ UNCHANGED <<ledger, args>>
    BY <1>1 DEF Launch, TypeOK, tables, wallet
  <1>3. ASSUME NEW p, NEW n PROVE WithinReserve(p, TrustedAfter(n))' = WithinReserve(p, TrustedAfter(n))
    <2>1. TxAmounts' = TxAmounts
      BY <1>2 DEF TxAmounts
    <2>2. TrustedAfter(n)' = TrustedAfter(n)
      BY <2>1 DEF TrustedAfter
    <2> QED BY <2>2 DEF WithinReserve
  <1>4. \A t \in DOMAIN ledger : ledger[t].run \in Runs \ {r}
    BY <1>1, <1>2, LedgerType DEF LedgerRunsStarted
  <1>5. SumOver(TxAmounts, DOMAIN ledger)' <= TrustedAtStart
    BY <1>2 DEF BalanceSound, TxAmounts
  <1>6. ASSUME NEW q \in Runs
        PROVE  /\ atStart'[q].sent <= Len(ledger')
               /\ pc'[q] \in {"inserting"} \cup Sending
                    => WithinReserve(args[q].plan, TrustedAfter(atStart[q].sent))'
    <2>1. CASE q = r
      BY <1>1, <1>2, <2>1 DEF Sending
    <2>2. CASE q # r
      <3>1. WithinReserve(args[q].plan, TrustedAfter(atStart[q].sent))'
              = WithinReserve(args[q].plan, TrustedAfter(atStart[q].sent))
        BY <1>2, <1>3, <2>2 DEF WithinReserve, TrustedAfter, TxAmounts
      <3> QED BY <1>2, <2>2, <3>1 DEF BalanceSound
    <2> QED BY <2>1, <2>2
  <1>7. ASSUME NEW t \in DOMAIN ledger, NEW q, q = ledger[t].run
        PROVE  /\ t > atStart'[q].sent
               /\ WithinReserve(args[q].plan, TrustedAfter(atStart[q].sent))'
    <2>1. q \in Runs \ {r}
      BY <1>4, <1>7
    <2>2. WithinReserve(args[q].plan, TrustedAfter(atStart[q].sent))'
            = WithinReserve(args[q].plan, TrustedAfter(atStart[q].sent))
      BY <1>2, <1>3, <2>1 DEF WithinReserve, TrustedAfter, TxAmounts
    <2> QED BY <1>2, <1>7, <2>1, <2>2 DEF BalanceSound
  <1> QED BY <1>2, <1>5, <1>6, <1>7 DEF BalanceSound

\* The wallet broadcasts only what the trusted balance covers.
LEMMA BalanceBroadcast ==
  ASSUME SendInv, SendInv', BalanceSound, NEW r \in Runs, SendAccepted(r) \/ SendReplyLost(r)
  PROVE  BalanceSound'
  <1>1. TypeOK /\ Len(ledger) \in Nat /\ DOMAIN ledger = 1 .. Len(ledger)
    BY AmountsType DEF SendInv
  <1>2. PICK c \in todo[r] :
          /\ WalletAmount(PieceAmount(args[r], c)) \in 1 .. Trusted
          /\ ledger' = Append(ledger, [run |-> r, piece |-> c])
    BY DEF SendAccepted, SendReplyLost
  <1>3. /\ pc[r] = "sending" /\ args' = args /\ atStart' = atStart
        /\ \E s \in Sending : pc' = [pc EXCEPT ![r] = s]
    BY DEF SendAccepted, SendReplyLost, Sending
  <1>4. PICK new : new = Len(ledger) + 1
    OBVIOUS
  <1>5. /\ DOMAIN ledger' = DOMAIN ledger \cup {new} /\ new \notin DOMAIN ledger
        /\ \A t \in DOMAIN ledger : ledger'[t] = ledger[t]
        /\ ledger'[new] = [run |-> r, piece |-> c]
    <2> DEFINE Entry == [run : Runs, piece : Piece]
               entry == [run |-> r, piece |-> c]
    <2>1. ledger \in Seq(Entry) /\ ledger' = Append(ledger, entry)
      BY <1>1, <1>2 DEF TypeOK
    <2> HIDE DEF Entry, entry
    <2>2. /\ DOMAIN ledger' = DOMAIN ledger \cup {new} /\ new \notin DOMAIN ledger
          /\ \A t \in DOMAIN ledger : ledger'[t] = ledger[t] /\ ledger'[new] = entry
      BY <1>1, <1>4, <2>1
    <2> QED BY <1>1, <1>4, <2>1, <2>2 DEF entry
  <1>6. PICK w, x, f, g, S :
          /\ w = WalletAmount(PieceAmount(args[r], c)) /\ x = SumOver(TxAmounts, DOMAIN ledger)
          /\ f = TxAmounts /\ g = TxAmounts' /\ S = DOMAIN ledger
    OBVIOUS
  <1>7. w \in Nat /\ x \in Nat /\ x + w <= TrustedAtStart
    <2>1. Trusted = TrustedAtStart - x
      BY <1>1, <1>6, BalanceAfter DEF Trusted, BalanceSound
    <2>2. x \in Nat /\ x <= TrustedAtStart /\ TrustedAtStart \in Nat
      BY <1>6, AmountsType, BoundsAssumption DEF BalanceSound
    <2> QED BY <1>2, <1>6, <2>1, <2>2
  <1>8. g[new] = w
    BY <1>3, <1>5, <1>6 DEF TxAmounts
  <1>9. SumOver(g, S) = x /\ \A t \in S : g[t] \in Int
    <2>1. (\A t \in DOMAIN ledger : TxAmounts'[t] = TxAmounts[t])
          /\ SumOver(TxAmounts', DOMAIN ledger) = SumOver(TxAmounts, DOMAIN ledger)
      BY <1>3, <1>5, EarlierAmountsStay
    <2>2. \A t \in S : f[t] \in Nat
      BY <1>6, AmountsType
    <2> QED BY <1>6, <2>1, <2>2
  <1>10. SumOver(g, S \cup {new}) = x + w
    <2>1. IsFiniteSet(S)
      BY <1>1, <1>6, FS_Interval
    <2>2. new \notin S /\ \A t \in S \cup {new} : g[t] \in Int
      BY <1>5, <1>6, <1>7, <1>8, <1>9
    <2>3. SumOver(g, S \cup {new}) = SumOver(g, S) + g[new]
      BY <2>1, <2>2, SumOverAdd
    <2> QED BY <1>8, <1>9, <2>3
  <1>11. SumOver(TxAmounts, DOMAIN ledger)' <= TrustedAtStart
    <2>1. SumOver(TxAmounts, DOMAIN ledger)' = SumOver(g, S \cup {new})
      BY <1>5, <1>6
    <2> QED BY <1>7, <1>10, <2>1
  <1>12. \A q \in Runs : pc'[q] \in {"inserting"} \cup Sending =>
             pc[q] \in {"inserting"} \cup Sending
    BY <1>1, <1>3 DEF TypeOK, Sending
  <1>13. \A t \in DOMAIN ledger' \ DOMAIN ledger :
            t > Len(ledger) /\ pc[ledger'[t].run] = "sending"
    BY <1>1, <1>3, <1>4, <1>5
  <1>14. DOMAIN ledger \subseteq DOMAIN ledger'
    BY <1>5
  <1> QED BY <1>3, <1>5, <1>11, <1>12, <1>13, <1>14, BalanceStep

LEMMA NextBalance == ASSUME SendInv, SendInv', BalanceSound, [Next]_vars PROVE BalanceSound'
  <1>1. TypeOK
    BY DEF SendInv
  <1>2. ASSUME ledger' = ledger, args' = args, atStart' = atStart,
               \A q \in Runs : pc'[q] \in {"inserting"} \cup Sending =>
                  \/ pc[q] \in {"inserting"} \cup Sending
                  \/ WithinReserve(args[q].plan, TrustedAfter(atStart[q].sent))
        PROVE  BalanceSound'
    <2>1. SumOver(TxAmounts, DOMAIN ledger)' <= TrustedAtStart
      BY <1>2 DEF BalanceSound, TxAmounts
    <2>2. /\ DOMAIN ledger \subseteq DOMAIN ledger'
          /\ \A t \in DOMAIN ledger : ledger'[t] = ledger[t]
          /\ DOMAIN ledger' \ DOMAIN ledger = {}
      BY <1>2
    <2> QED BY <1>2, <2>1, <2>2, BalanceStep
  <1>3. ASSUME NEW r \in Runs, LoadAndDecide(r) \/ ChunkedLoadAndDecide(r) PROVE BalanceSound'
    <2>1. PICK s \in {"done", "failed", "refusing", "inserting"} :
            /\ pc' = [pc EXCEPT ![r] = s]
            /\ UNCHANGED <<args, ledger, atStart>>
            /\ s = "inserting" => ~ PreviewRefused(r)
      BY <1>3 DEF LoadAndDecide, ChunkedLoadAndDecide, SingleRefused, ChunkedRefused,
                  tables, wallet
    <2>2. s = "inserting" => WithinReserve(args[r].plan, TrustedAfter(atStart[r].sent))
      BY <2>1 DEF PreviewRefused
    <2> QED BY <1>1, <1>2, <2>1, <2>2 DEF TypeOK, Sending
  <1>4. ASSUME NEW r \in Runs,
               \/ InsertDraft(r) \/ InsertChunked(r)
               \/ RecordRefusal(r) \/ SendRejected(r) \/ RecordRowsSent(r)
               \/ RecordChunkSent(r) \/ MarkRefused(r) \/ MarkSent(r)
               \/ CommitPartialSent(r) \/ CommitSent(r) \/ Crash(r)
        PROVE  BalanceSound'
    <2>1. PICK s \in {"failed", "done", "failing", "finishing", "sending", "crashed"} :
            /\ pc' = [pc EXCEPT ![r] = s]
            /\ s \in Sending => pc[r] \in {"inserting"} \cup Sending
            /\ UNCHANGED <<args, ledger, atStart>>
      BY <1>4 DEF InsertDraft, InsertChunked, RecordRefusal, SendRejected, RecordRowsSent,
           RecordChunkSent, MarkRefused, MarkSent, CommitPartialSent, CommitSent, Commit,
           Crash, tables, wallet, Sending
    <2> QED BY <1>1, <1>2, <2>1 DEF TypeOK
  <1>5. ASSUME UNCHANGED <<ledger, pc, args, atStart>> PROVE BalanceSound'
    BY <1>2, <1>5
  <1>6. ASSUME NEW q \in Runs, MarkConfirmed(q) \/ MarkChunkedConfirmed(q) PROVE BalanceSound'
    BY <1>5, <1>6 DEF MarkConfirmed, MarkChunkedConfirmed, wallet, process
  <1>7. CASE Environment \/ UNCHANGED vars
    BY <1>5, <1>7
       DEF Environment, CancelPlan, ChangeAddress, Mine, vars, tables, wallet, process
  <1>8. CASE \E r \in Runs : Launch(r) \/ RecordRefusal(r) \/ Crash(r)
    BY <1>4, <1>8, BalanceLaunch
  <1>9. CASE WalletNext
    BY <1>4, <1>9, BalanceBroadcast DEF WalletNext
  <1>10. CASE SingleNext
    BY <1>3, <1>4, <1>6, <1>10 DEF SingleNext
  <1>11. CASE ChunkedNext
    BY <1>3, <1>4, <1>6, <1>11 DEF ChunkedNext
  <1> QED BY <1>7, <1>8, <1>9, <1>10, <1>11 DEF Next

LEMMA InitBalance == Init => BalanceSound
  <1> SUFFICES ASSUME Init PROVE BalanceSound
    OBVIOUS
  <1>1. /\ DOMAIN ledger = {} /\ Len(ledger) = 0
        /\ \A r \in Runs : pc[r] = "idle" /\ atStart[r].sent = 0
    BY DEF Init
  <1>2. SumOver(TxAmounts, {}) = 0
    BY SumOverEmpty
  <1> QED BY <1>1, <1>2, BoundsAssumption DEF BalanceSound, Sending

\* What a run leaves: the balance it read, less its own payments, which are within
\* the plan, less those of others since.
LEMMA BalanceIsKept ==
  ASSUME SendInv, BalanceSound, PaidWithinDust PROVE ReserveIsKept
  <1> SUFFICES ASSUME NEW r \in Runs, NEW t0 \in DOMAIN ledger, ledger[t0].run = r
               PROVE  Trusted + SumOver(TxAmounts, SentByOthersSince(r))
                        >= TrustedAfter(atStart[r].sent) \div 2
    BY DEF ReserveIsKept
  <1>1. /\ Len(ledger) \in Nat /\ DOMAIN ledger = 1 .. Len(ledger)
        /\ \A t \in DOMAIN ledger : TxAmounts[t] \in Nat
    BY AmountsType
  <1>2. PICK n, p : n = atStart[r].sent /\ p = args[r].plan
    OBVIOUS
  <1>3. n \in Nat /\ n <= Len(ledger)
    BY <1>2 DEF SendInv, TypeOK, BalanceSound
  <1>4. WithinReserve(p, TrustedAfter(n))
    BY <1>2 DEF BalanceSound
  <1>5. \A t \in DOMAIN ledger : ledger[t].run = r => t > n
    BY <1>2 DEF BalanceSound
  <1>6. PICK f, A, B, C, D : /\ f = TxAmounts /\ A = 1 .. n
                             /\ B = {t \in DOMAIN ledger : ledger[t].run = r}
                             /\ C = SentByOthersSince(r) /\ D = DOMAIN ledger
    OBVIOUS
  <1>7. /\ D = A \cup (B \cup C) /\ B \cap C = {} /\ A \cap (B \cup C) = {}
    BY <1>1, <1>2, <1>3, <1>5, <1>6 DEF SentByOthersSince
  <1>8. IsFiniteSet(D) /\ \A t \in D : f[t] \in Nat
    BY <1>1, <1>6, FS_Interval
  <1>9. IsFiniteSet(A) /\ IsFiniteSet(B) /\ IsFiniteSet(C) /\ IsFiniteSet(B \cup C)
    BY <1>7, <1>8, FS_Subset
  <1>10. PICK a, b, c, d : /\ a = SumOver(f, A) /\ b = SumOver(f, B)
                           /\ c = SumOver(f, C) /\ d = SumOver(f, D)
    OBVIOUS
  <1>11. a \in Nat /\ b \in Nat /\ c \in Nat /\ d \in Nat
    <2>1. \A t \in A : f[t] \in Nat
      BY <1>7, <1>8
    <2>2. \A t \in B : f[t] \in Nat
      BY <1>7, <1>8
    <2>3. \A t \in C : f[t] \in Nat
      BY <1>7, <1>8
    <2> QED BY <1>8, <1>9, <1>10, <2>1, <2>2, <2>3, SumOverNat
  <1>12. d = a + (b + c)
    <2>1. \A t \in B \cup C : f[t] \in Int
      BY <1>7, <1>8
    <2>2. SumOver(f, B \cup C) = b + c
      BY <1>7, <1>9, <1>10, <2>1, SumOverUnion
    <2>3. PICK U : U = B \cup C
      OBVIOUS
    <2>4. \A t \in A \cup U : f[t] \in Int
      BY <1>7, <1>8, <2>3
    <2>5. SumOver(f, A \cup U) = SumOver(f, A) + SumOver(f, U)
      BY <1>7, <1>9, <2>3, <2>4, SumOverUnion
    <2> QED BY <1>7, <1>10, <2>2, <2>3, <2>5
  <1>13. PICK x, y, m : /\ x = TrustedAfter(n) /\ y = Trusted /\ m = PlannedTotal(p)
    OBVIOUS
  <1>14. x = TrustedAtStart - a /\ x \in Nat
    BY <1>3, <1>6, <1>10, <1>13, BalanceAfter DEF BalanceSound
  <1>15. y = TrustedAtStart - d
    <2>1. TrustedAfter(Len(ledger)) = TrustedAtStart - SumOver(TxAmounts, 1 .. Len(ledger))
      BY <1>1, BalanceAfter DEF BalanceSound
    <2> QED BY <1>1, <1>6, <1>10, <1>13, <2>1 DEF Trusted
  <1>16. b <= m
    BY <1>2, <1>6, <1>10, <1>13 DEF PaidWithinDust, PaidByRun
  <1>17. m <= x - (x \div 2)
    BY <1>4, <1>13 DEF WithinReserve, Spendable
  <1>18. m \in Int
    <2>1. args[r] \in Invocations
      BY DEF SendInv, TypeOK
    <2>2. PICK cmd : cmd = args[r]
      OBVIOUS
    <2>3. PICK g, S : g = RowAmounts(cmd.plan) /\ S = RowIds(cmd.plan)
      OBVIOUS
    <2>4. IsFiniteSet(S) /\ \A k \in S : g[k] \in Int
      BY <2>1, <2>2, <2>3, PlanType
    <2>5. SumOver(g, S) \in Int
      BY <2>4, SumOverType
    <2> QED BY <1>2, <1>13, <2>2, <2>3, <2>5 DEF PlannedTotal
  <1>19. x \div 2 \in Int
    BY <1>14
  <1>20. y + c >= x \div 2
    <2>1. TrustedAtStart \in Int
      BY BoundsAssumption
    <2>2. PICK h : h = x \div 2
      OBVIOUS
    <2> QED BY <1>11, <1>12, <1>14, <1>15, <1>16, <1>17, <1>18, <1>19, <2>1, <2>2
  <1> QED BY <1>2, <1>6, <1>10, <1>13, <1>20

\* However runs overlap, fail and crash: what is left of the balance a run read,
\* together with what the other runs have sent since, is at least half of it.
THEOREM ReserveSurvivesRuns == Spec => []ReserveIsKept
  <1>1. SendInv /\ SendInv' /\ BalanceSound /\ [Next]_vars => BalanceSound'
    BY NextBalance
  <1>2. SendInv /\ BalanceSound /\ PaidWithinDust => ReserveIsKept
    BY BalanceIsKept
  <1> QED BY <1>1, <1>2, InitBalance, SendInvariant, PaymentsMatchThePlan, PTL DEF Spec
=============================================================================
