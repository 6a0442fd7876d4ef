\* Three record commands on an execution of either executor.
SPECIFICATION Spec
CONSTANTS
    c1 = c1  c2 = c2  c3 = c3  e1 = e1  e2 = e2  t1 = t1  t2 = t2  t3 = t3
    Commands = {c1, c2, c3}
    NoCommand = NoCommand
    Executions = {e1, e2}
    Txs = {t1, t2, t3}
    Ledger <- MixedLedger
    Paid <- MixedPaid
    WalletQuant = 2
    Exports <- MixedFiles
CONSTRAINT OneExecution
SYMMETRY CommandSymmetry
CHECK_DEADLOCK FALSE
INVARIANT MatchedIsTrue
PROPERTY MatchedIsFinal
INVARIANT HistorySound
