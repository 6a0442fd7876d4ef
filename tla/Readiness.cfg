\* A readiness report while two record commands run on an execution of either executor.
SPECIFICATION ReadinessFairSpec
CONSTANTS
    c1 = c1  c2 = c2  c3 = c3  e1 = e1  e2 = e2  t1 = t1  t2 = t2  t3 = t3
    Commands = {c1, c2}
    NoCommand = NoCommand
    Executions = {e1, e2}
    Txs = {t1, t2, t3}
    Ledger <- MixedLedger
    Paid <- MixedPaid
    WalletQuant = 2
    Exports <- MixedFiles
    Readers = {v1}
CONSTRAINT OneReported
CHECK_DEADLOCK FALSE
INVARIANT ClosedIsForGood
PROPERTY CommandsEnd
INVARIANT ReportSound
