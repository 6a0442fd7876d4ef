---------------------------- MODULE MCReconciliation ----------------------------
(* Instances of Reconciliation for TLC.                                      *)
EXTENDS Reconciliation, TLC

CONSTANTS c1, c2, c3, e1, e2, t1, t2, t3

CommandSymmetry == Permutations({c1, c2, c3})

Row(t, a, n) == [tx |-> t, address |-> a, amount |-> n]

File(R, S) == [given |-> TRUE, receives |-> R, sends |-> S]

\* Wallet amounts are even. One row, paid in two chunks.
ChunkedLedger ==
    [e \in {e1} |-> [txid |-> t1, planned |-> 6,
                     rows |-> <<Row(t1, "a", 6)>>,
                     chunks |-> <<Row(t1, "a", 4), Row(t2, "a", 2)>>]]

Pay(a, n) == [address |-> a, amount |-> n]

ChunkedPaid == (t1 :> Pay("a", 4)) @@ (t2 :> Pay("a", 2))

\* No file, one that is too old, a complete one.
ChunkedFiles == {NoFile, File({t1}, {}), File({t1, t2}, {})}

\* The execution of two chunks, and one of two rows paid by one transaction.
MixedLedger == ChunkedLedger @@
    [e \in {e2} |-> [txid |-> t3, planned |-> 3,
                     rows |-> <<Row(t3, "b", 2), Row(t3, "b", 1)>>, chunks |-> <<>>]]

MixedPaid == ChunkedPaid @@ (t3 :> Pay("b", 2))

\* No file, one of a wallet that spends, one of the right wallet.
SingleFiles == {NoFile, File({}, {t3}), File({t3}, {})}

MixedFiles == ChunkedFiles \cup SingleFiles

\* Nobody has done anything with execution e yet.
Untouched(e) ==
    /\ IF IsChunked(e) THEN status[e] # "confirmed" ELSE status[e] = "draft"
    /\ TxsOf(Ledger[e].rows \o Ledger[e].chunks) \cap (mined \cup received) = {}
    /\ \A c \in Commands : pc[c] # "idle" => args[c].execution # e

\* Both executions, but never both in one behaviour, and files made for them.
OneExecution ==
    /\ \E e \in Executions : \A d \in Executions \ {e} : Untouched(d)
    /\ \A c \in Commands : pc[c] # "idle" =>
          args[c].file \in IF IsChunked(args[c].execution) THEN ChunkedFiles ELSE SingleFiles
=============================================================================
