------------------------------ MODULE Chunking ------------------------------
(* How a payout is cut into chunks: split_payout_amount_into_chunks.         *)
EXTENDS Naturals

\* Chunks of the given size, the last one takes the remainder; a size above the
\* total gives one chunk.
ChunkCount(total, size) ==
    IF size > total THEN 1 ELSE (total + size - 1) \div size

ChunkAmount(total, size, i) ==
    IF i < ChunkCount(total, size) THEN size
    ELSE total - (i - 1) * size
=============================================================================
