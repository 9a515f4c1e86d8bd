------------------------------- MODULE Container -------------------------------
(***************************************************************************)
(* The file format of the GPU tools, and what a kernel does with one block *)
(* (lz4_gpu/lz4_gpu_core.c, lz4_gpu.cl, lz4_hybrid/lz4_hybrid.c).          *)
(*                                                                         *)
(* A byte of a file to compress is [file, at].  What a block compresses to *)
(* is as many cells as it has bytes, each of which knows the block and its *)
(* place: cells decode only when all of one block are there, in order.     *)
(* That the kernels' codec is right is GpuCompress and BlockDecode.        *)
(***************************************************************************)
EXTENDS Integers, Sequences, FiniteSets, SequencesExt

CONSTANTS Slack,    \* how much longer than the block its room in the output is
          Junk      \* a byte nobody wrote: a model value

SlackAssumption == Slack \in Nat

Smaller(a, b) == IF a < b THEN a ELSE b
Larger(a, b) == IF a > b THEN a ELSE b
Total(sizes) == FoldLeft(LAMBDA sum, n : sum + n, 0, sizes)

Err == -1       \* the size of a block that does not decode; 0xFFFFFFFF

Bytes(f, n) == [i \in 1..n |-> [file |-> f, at |-> i]]
Packed(data, k) == [i \in 1..k |-> [of |-> data, part |-> i, parts |-> k]]
Decodes(cells) == cells # <<>> /\ cells[1] # Junk /\ "of" \in DOMAIN cells[1] /\ cells = Packed(cells[1].of, Len(cells))

\* n bytes from off; nobody knows what is past the end of a buffer.
Slice(buf, off, n) == [i \in 1..n |-> IF off + i <= Len(buf) THEN buf[off + i] ELSE Junk]
\* Data stored at off; what does not fit is not in the buffer.
Put(buf, off, data) ==
    [i \in 1..Len(buf) |-> IF i - off \in 1..Len(data) THEN data[i - off] ELSE buf[i]]

\* ensure_buffer: a buffer that is too small is replaced by a new one.
ensure_buffer(buf, size) == IF Len(buf) >= size THEN buf ELSE [i \in 1..size |-> Junk]

num_blocks(n, bs) == (n + bs - 1) \div bs
round_up_size(v, align) == ((v + align - 1) \div align) * align
single_block_max_out(bs) == bs + Slack

\* The offset of each block in a payload of blocks of these sizes.
Offsets(sizes) == [i \in 1..Len(sizes) |-> Total(SubSeq(sizes, 1, i - 1))]

\* The blocks are kept apart in the output buffer and written one after the other.
lz4_write_blocks_packed(out, sizes, bs) ==
    FlattenSeq([i \in 1..Len(sizes) |-> Slice(out, (i - 1) * single_block_max_out(bs), sizes[i])])

\* What a path holds: a container, or plain data.
Written(bs, sizes, payload) == [magic |-> TRUE, bsize |-> bs, sizes |-> sizes, payload |-> payload]
Plain(data) == [magic |-> FALSE, data |-> data]

\* The data a container stands for; the sizes of its blocks say where each one is.
Contents(file) ==
    LET block(i) == Slice(file.payload, Offsets(file.sizes)[i], file.sizes[i])
    IN  IF /\ Total(file.sizes) = Len(file.payload)
           /\ \A i \in 1..Len(file.sizes) : Decodes(block(i)) /\ Len(block(i)[1].of) <= file.bsize
        THEN FlattenSeq([i \in 1..Len(file.sizes) |-> block(i)[1].of])
        ELSE <<Junk>>

-----------------------------------------------------------------------------
(* The kernels                                                             *)

\* Mutant: the last block is as long as the others.
WholeBlockOf(input, n, bs, b) == Slice(input, b * bs, bs)

\* lz4_compress_block: what block b of the input is.
BlockOf(input, n, bs, b) == Slice(input, b * bs, Smaller(n - b * bs, bs))

\* lz4_decompress_blocks, one block: the output buffer, and the size reported.
lz4_decompress_block(cells, out, bs, b) ==
    IF Decodes(cells) /\ Len(cells[1].of) <= bs
    THEN [out |-> Put(out, b * bs, cells[1].of), size |-> Len(cells[1].of)]
    ELSE [out |-> out, size |-> Err]
=============================================================================
