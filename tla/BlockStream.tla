---------------------------- MODULE BlockStream ----------------------------
(* The block-caching stream given to Media Foundation (vstream.rs): whole    *)
(* blocks of the source, kept in memory, so many and until a deadline.  All  *)
(* of a call runs under one lock, so calls of several threads are in a row.  *)
EXTENDS Naturals, FiniteSetsExt, SequencesExt

CONSTANTS
    Size,           \* bytes of the source
    BLOCK,          \* bytes of a block
    BUDGET_BLOCKS,  \* blocks that may be read from the source
    Asks,           \* lengths the demuxer asks for
    MaxAsk,         \* the longest there can be, of a ULONG
    Positions       \* places it seeks to

ASSUME BlockStreamAssumption ==
    /\ Size \in Nat /\ BLOCK \in Nat \ {0} /\ BUDGET_BLOCKS \in Nat
    /\ MaxAsk \in Nat /\ Asks \subseteq 0 .. MaxAsk /\ Positions \subseteq Nat

VARIABLES
    pos,
    cache,          \* the blocks read so far, by number
    blocks_read,
    late,           \* the deadline has passed
    answer          \* history: what the last read handed out

blockVars == <<pos, cache, blocks_read, late, answer>>

LesserOf(a, b) == IF a <= b THEN a ELSE b
Remaining(p) == IF p < Size THEN Size - p ELSE 0

\* mutant: what a read that ended early left in the buffer is kept as well
read_inner_at_torn(b) ==
    LET n == LesserOf(BLOCK, Size - b * BLOCK)
    IN  {[i \in 1 .. n |-> IF i <= k THEN b * BLOCK + i - 1 ELSE Size] : k \in 0 .. n}
(* read_inner_at: the whole block, or nothing.                               *)
read_inner_at(b) ==
    LET n == LesserOf(BLOCK, Size - b * BLOCK)
    IN  {[i \in 1 .. n |-> b * BLOCK + i - 1]}

(* ensure_block for the blocks from first up to stop, those of "wanted" that *)
(* are not cached being read now; the one at stop, if there is one, could    *)
(* not be had: no budget, no time, or an error of the source.                *)
EnsureBlocks(wanted, stop, last, failed) ==
    /\ wanted # {} => ~late /\ blocks_read + Cardinality(wanted) <= BUDGET_BLOCKS
    /\ stop <= last =>
         /\ stop \notin DOMAIN cache
         /\ failed \/ late' \/ blocks_read + Cardinality(wanted) >= BUDGET_BLOCKS
    /\ \E new \in [wanted -> UNION {read_inner_at(b) : b \in wanted}] :
          /\ \A b \in wanted : new[b] \in read_inner_at(b)
          /\ cache' = [b \in DOMAIN cache \cup wanted |-> IF b \in wanted THEN new[b] ELSE cache[b]]
    /\ blocks_read' = blocks_read + Cardinality(wanted)

(* ISequentialStream::Read, of as many bytes as fit in the blocks before     *)
(* stop.                                                                     *)
Read(cb, stop, failed) ==
    LET want == LesserOf(cb, Remaining(pos))
        last == (pos + want - 1) \div BLOCK
        done == IF stop > last THEN want ELSE stop * BLOCK - LesserOf(pos, stop * BLOCK)
        Byte(p) == cache'[p \div BLOCK][(p % BLOCK) + 1]
    IN  /\ want > 0 /\ stop \in (pos \div BLOCK) .. last + 1
        /\ late' \in {late, TRUE}
        /\ EnsureBlocks({b \in (pos \div BLOCK) .. stop - 1 : b \notin DOMAIN cache}, stop, last, failed)
        /\ answer' = [i \in 1 .. done |-> Byte(pos + i - 1)]
        /\ pos' = pos + done

ReadsNothing(cb) ==
    /\ LesserOf(cb, Remaining(pos)) = 0
    /\ answer' = <<>>
    /\ UNCHANGED <<pos, cache, blocks_read, late>>

Seek(p) == pos' = p /\ UNCHANGED <<cache, blocks_read, late, answer>>

BlockInit == pos = 0 /\ cache = <<>> /\ blocks_read = 0 /\ late = FALSE /\ answer = <<>>

BlockNext ==
    \/ \E cb \in Asks, stop \in 0 .. Size, failed \in BOOLEAN : Read(cb, stop, failed)
    \/ \E cb \in Asks : ReadsNothing(cb)
    \/ \E p \in Positions : Seek(p)

BlockSpec == BlockInit /\ [][BlockNext]_blockVars

-----------------------------------------------------------------------------
(* Media Foundation sees a file: whatever is cached, refused or out of time, *)
(* a read answers with the bytes at the position, without a gap.             *)
AFile == INSTANCE FileStream WITH at <- pos
ReadsLikeAFile == AFile!StreamSpec

(* The blocks in memory are the ones counted, and never more than the        *)
(* budget, however the demuxer seeks.                                        *)
CacheWithinBudget == Cardinality(DOMAIN cache) = blocks_read /\ blocks_read <= BUDGET_BLOCKS
=============================================================================
