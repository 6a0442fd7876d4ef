--------------------------- MODULE PreflightPolicy ---------------------------
(***************************************************************************)
(* What a production preflight works out from the wallet: the amount that  *)
(* the reserve leaves to spend, and whether to pay a plan in one           *)
(* transaction or in chunks, from the coins the wallet lists. Amounts are  *)
(* in units of the database, options in hundredths. A wallet that did not  *)
(* list its coins lists none.                                              *)
(***************************************************************************)
EXTENDS Sequences, Chunking, Sums

CONSTANTS
    TargetSingle,   \* target_single_tx_max_amount
    FallbackChunk,  \* fallback_chunk_amount
    SomeInputs,     \* inputs of a transaction beyond which a risk is medium,
    ManyInputs,     \* and beyond which it is high
    ManyCoins       \* coins in the wallet beyond which a risk is medium

ASSUME PolicyAssumption ==
    /\ TargetSingle \in Nat \ {0}
    /\ FallbackChunk \in Nat \ {0}
    /\ SomeInputs \in Nat \ {0}
    /\ ManyInputs \in Nat
    /\ ManyCoins \in Nat

\* The options of the command line: a reserve that is an amount or a share of
\* the balance, a share that caps the plan, and the operator's override.
Option ==
    [mode : {"percent", "amount"}, percent : 0 .. 100, amount : Nat,
     most : 0 .. 100, override : BOOLEAN]

\* parse_listunspent_payload: the spendable coins, the largest first.
IsSnapshot(coins) ==
    /\ coins \in Seq(Nat \ {0})
    /\ \A i, j \in DOMAIN coins : i <= j => coins[i] >= coins[j]

-----------------------------------------------------------------------------
(* The reserve.                                                            *)

\* calculate_reserve
Reserve(trusted, o) ==
    IF o.mode = "amount" THEN o.amount ELSE (trusted * o.percent) \div 100

SpendableAfterReserve(trusted, o) ==
    IF Reserve(trusted, o) > trusted THEN 0 ELSE trusted - Reserve(trusted, o)

MaxSpendAllowed(trusted, o) == (trusted * o.most) \div 100

\* The most a plan may pay: what is left of the reserve and within the cap, or
\* all there is when the operator overrides both.
SpendLimit(trusted, o) ==
    IF o.override THEN trusted
    ELSE IF SpendableAfterReserve(trusted, o) <= MaxSpendAllowed(trusted, o)
    THEN SpendableAfterReserve(trusted, o)
    ELSE MaxSpendAllowed(trusted, o)

-----------------------------------------------------------------------------
(* One transaction or chunks.                                              *)

FirstCoins(coins, n) == SumOver(coins, 1 .. n)

\* estimate_input_count_for_amount: the coins that are opened, the largest
\* first, as long as those before do not pay the amount; one more than there
\* are if all of them do not, and none where there are none.
InputCount(amount, coins) ==
    IF coins = <<>> THEN 0
    ELSE Cardinality({n \in 0 .. Len(coins) : FirstCoins(coins, n) < amount})

\* Mutant: two inputs are few, whatever they have to pay.
MutHighRisk(amount, coins) == InputCount(amount, coins) > ManyInputs

HighRisk(amount, coins) ==
    \/ InputCount(amount, coins) > ManyInputs
    \/ amount > coins[1] /\ InputCount(amount, coins) > 1

\* assess_fragmentation_risk
FragmentationRisk(amount, coins) ==
    IF coins = <<>> \/ amount = 0 THEN "UNKNOWN"
    ELSE IF HighRisk(amount, coins) THEN "HIGH"
    ELSE IF \/ InputCount(amount, coins) > SomeInputs
            \/ Len(coins) > ManyCoins /\ InputCount(amount, coins) > 1
    THEN "MEDIUM" ELSE "LOW"

\* The size of chunk that is recommended: no more than the largest coin.
ChunkSize(coins) ==
    IF coins # <<>> /\ coins[1] < FallbackChunk THEN coins[1] ELSE FallbackChunk

\* estimate_total_chunk_count, of rows by node
EstimatedChunks(R, size) ==
    SumOver([n \in DOMAIN R |-> ChunkCount(R[n].amount, size)], DOMAIN R)

\* build_utxo_chunking_policy: how to pay, if a plan may be paid at all.
ExecutionMode(allowed, amount, coins) ==
    IF ~ allowed THEN "halt"
    ELSE IF amount <= TargetSingle /\ FragmentationRisk(amount, coins) = "LOW"
    THEN "single" ELSE "chunked"
=============================================================================
