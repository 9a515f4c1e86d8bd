-------------------------------- MODULE GpuCore --------------------------------
(***************************************************************************)
(* The host side of the GPU tools (lz4_gpu/lz4_gpu_core.c and its sibling  *)
(* in lz4_hybrid/) and the lanes of a kernel: requests served one after    *)
(* the other with one workspace, as by a daemon's worker or the standalone *)
(* tool, and the benchmark of lz4_gpu.c, which compresses one file again   *)
(* and again and decodes the result on the device.                         *)
(*                                                                         *)
(* The lanes of a kernel run at the same time, each one block after the    *)
(* other, with a hash table of its own that outlives the request: entries  *)
(* are tagged with an epoch instead of being cleared.                      *)
(***************************************************************************)
EXTENDS Container

CONSTANTS
    FileSize,           \* the files there are, and their sizes
    BlockSizes, KB64,   \* block sizes asked for; the largest with 16-bit entries
    Epochs,             \* the number of tags; 2^12
    CompWorkers, DecompWorkers,     \* lanes the device is good for
    DictBudget,         \* the dictionary pool, in tables of 16-bit entries
    LocalSizes,         \* work-group sizes asked for
    CompressedSizes,    \* what blocks compress to
    MaxRequests

\* A request is of fewer blocks than the tags tell apart: one of Epochs - 3 blocks on one
\* lane would end with a base of Epochs, at which a wrap is not seen any more.
GpuCoreAssumption ==
    /\ KB64 \in Nat /\ Epochs \in Nat \ {0} /\ MaxRequests \in Nat
    /\ {CompWorkers, DecompWorkers, DictBudget} \cup BlockSizes \cup LocalSizes \subseteq Nat \ {0}
    /\ \A k \in CompressedSizes, bs \in BlockSizes : k \in 1..single_block_max_out(bs)
    /\ \A f \in DOMAIN FileSize, bs \in BlockSizes : num_blocks(FileSize[f], bs) + 2 < Epochs - 1

Files == DOMAIN FileSize
Outputs == {"lz4", "dec"}
Nothing == "none"

VARIABLES
    tool,       \* "gpu" or "hybrid"; never changes
    bench,      \* is this the benchmark?
    standardCopy,   \* use_standard_copy
    disk,       \* what each path holds
    ws,         \* the workspace: device buffers, the tags in the tables, comp_epoch_base
    args,       \* the compression kernel's arguments
    bound,      \* the buffers of args that are still the workspace's
    prev,       \* the metadata the benchmark uploaded last (h_prev_sizes)
    job, lane,  \* the request in progress; the block each lane is at
    answer, calls

constants == <<tool, bench, standardCopy>>
vars == <<constants, disk, ws, args, bound, prev, job, lane, answer, calls>>

Idle == [op |-> "idle"]
NoArgs == [n |-> 0, nblk |-> 0, bs |-> 1, lanes |-> 1]

-----------------------------------------------------------------------------
(* The plan of a launch                                                    *)

PowersOfTwo == {1, 2, 4, 8}

\* A power of two no larger than the request, and than the number of blocks.
sanitize_local_size(requested, blocks) ==
    CHOOSE p \in PowersOfTwo : p <= Smaller(requested, blocks) /\ 2 * p > Smaller(requested, blocks)

\* The size of one lane's table, in tables of 2^14 entries of 16 bits; are tables cleared?
lz4_effective_dict_mode_for_block(bs) ==
    IF bs <= KB64 THEN [clear |-> TRUE, units |-> 1] ELSE [clear |-> FALSE, units |-> 2]

\* The hybrid tool has entries of 32 bits only, and twice as many for small blocks.
HybridDictMode(bs) == [clear |-> FALSE, units |-> IF bs <= KB64 THEN 4 ELSE 2]

DictMode(bs) == IF tool = "gpu" THEN lz4_effective_dict_mode_for_block(bs) ELSE HybridDictMode(bs)

choose_comp_worker_count(blocks, l) == Smaller(Larger(CompWorkers, l), blocks)
choose_comp_dict_owner_count(workers, units) == Smaller(Larger(DictBudget \div units, 1), workers)
choose_decomp_worker_count(blocks, l) == Smaller(Larger(DecompWorkers, l), blocks)

\* One table for each lane that is active; the work-items that pad the launch return at once.
lz4_build_comp_plan(blocks, bs, l) ==
    LET owners == choose_comp_dict_owner_count(choose_comp_worker_count(blocks, l), DictMode(bs).units)
    IN  [owners |-> owners, blocks_per_owner |-> (blocks + owners - 1) \div owners, total |-> owners * DictMode(bs).units]

-----------------------------------------------------------------------------
(* Compression                                                             *)

Zeroed(units) == [i \in 1..units |-> {0}]   \* a cleared entry has tag 0

\* A new buffer is zeroed; so is an old one when the low bits of the epoch would wrap.
NextTags(w, plan) ==
    LET dict == IF Len(w.dict) < plan.total THEN Zeroed(plan.total) ELSE w.dict
        needed == plan.blocks_per_owner + 2
        wraps == (w.epoch + needed) % Epochs <= w.epoch % Epochs
    IN  IF wraps THEN [dict |-> Zeroed(Len(dict)), base |-> 1] ELSE [dict |-> dict, base |-> w.epoch]

\* The buffers of the workspace that a new workspace replaces.
Replaced(w) == {b \in {"in", "out", "osize", "dict"} : Len(w[b]) # Len(ws[b])}

Answer(status, src, dst, fault) == [status |-> status, src |-> src, dst |-> dst, fault |-> fault]

\* What read of the input file fails: none, all is lost, or some bytes are.
Reads == {"ok", "failed", "short"}

\* The input is read and stored, all of it or all but the end.
UploadInput(w, src, read) == [w EXCEPT !.in = Put(@, 0, Bytes(src, IF read = "short" THEN FileSize[src] - 1 ELSE FileSize[src]))]

\* The arguments of the kernel that the host sets.
KernelArgs(src, bs, plan) ==
    [n |-> FileSize[src], nblk |-> num_blocks(FileSize[src], bs), bs |-> bs, lanes |-> plan.owners]

\* lz4_compress_core up to the launch.  A short read goes unnoticed where the buffer is mapped;
\* with skip_input_upload the input and the arguments are those of an earlier call.
CompressBegin(src, dst, bs, requested, skip, read) ==
    LET n == FileSize[src]
        blocks == num_blocks(n, bs)
        l == sanitize_local_size(requested, blocks)
        plan == lz4_build_comp_plan(blocks, bs, l)
        sized == [ws EXCEPT !.in = ensure_buffer(@, n), !.out = ensure_buffer(@, blocks * single_block_max_out(bs))]
        uploaded == IF skip THEN sized ELSE UploadInput(sized, src, read)
        tags == NextTags(ws, plan)
        ready == [uploaded EXCEPT !.osize = ensure_buffer(@, blocks), !.dict = tags.dict,
                                  !.epoch = tags.base + plan.blocks_per_owner + 2]
        fails == ~skip /\ (read = "failed" \/ (read = "short" /\ standardCopy))
    IN  /\ job.op = "idle" /\ calls < MaxRequests /\ calls' = calls + 1
        /\ skip => read = "ok"
        /\ IF fails
           THEN /\ ws' = sized /\ bound' = bound \ Replaced(sized)
                /\ answer' = Answer(-1, src, dst, FALSE) /\ UNCHANGED <<args, job, lane>>
           ELSE /\ ws' = ready
                /\ IF skip THEN bound' = bound \ Replaced(ready) /\ UNCHANGED args
                   ELSE bound' = {"in", "out", "osize", "dict"} /\ args' = KernelArgs(src, bs, plan)
                /\ job' = [op |-> "compress", src |-> src, dst |-> dst, bs |-> bs, base |-> tags.base,
                           fault |-> read = "short", sound |-> TRUE, fresh |-> TRUE]
                /\ lane' = [w \in 0..(args'.lanes - 1) |-> w]
                /\ UNCHANGED answer
        /\ UNCHANGED <<constants, disk, prev>>

\* st_size <= 0, or no such file
CompressRefused(src) ==
    /\ job.op = "idle" /\ calls < MaxRequests /\ calls' = calls + 1
    /\ answer' = Answer(-1, src, Nothing, FALSE)
    /\ UNCHANGED <<constants, disk, ws, args, bound, prev, job, lane>>

\* The tables of lane w.
Units(w) == LET u == DictMode(args.bs).units IN (w * u + 1)..((w + 1) * u)

\* Mutant: the epoch is not advanced from one block of a lane to the next.
TagOfLaunch(w, b) == (job.base + 1) % Epochs

\* The tag of the entries that lane w stores for block b.
TagOf(w, b) == (job.base + 1 + (b - w) \div args.lanes) % Epochs

\* lz4_compress_block: lane w compresses its next block to k bytes.
LaneCompress(w, k) ==
    LET b == lane[w]
        tag == TagOf(w, b)
        clear == DictMode(args.bs).clear
    IN  /\ job.op = "compress" /\ b < args.nblk
        /\ ws' = [ws EXCEPT !.out = Put(@, b * single_block_max_out(args.bs), Packed(BlockOf(ws.in, args.n, args.bs, b), k)),
                            !.osize = Put(@, b, <<k>>),
                            !.dict = [i \in DOMAIN @ |-> IF i \in Units(w) THEN IF clear THEN {0} ELSE @[i] \cup {tag} ELSE @[i]]]
        /\ lane' = [lane EXCEPT ![w] = b + args.lanes]
        /\ job' = [job EXCEPT !.sound = @ /\ bound = {"in", "out", "osize", "dict"} /\ Units(w) \subseteq DOMAIN ws.dict
                                          /\ (b + 1) * single_block_max_out(args.bs) <= Len(ws.out),
                              !.fresh = @ /\ (clear \/ \A i \in Units(w) : tag \notin ws.dict[i])]
        /\ UNCHANGED <<constants, disk, args, bound, prev, answer, calls>>

LanesDone == \A w \in DOMAIN lane : lane[w] >= args.nblk

\* The sizes are read back, the file is written.  Without a file to write (fopen failed), or room to
\* stage the payload in, the answer is the same.
CompressFinish(opened, staged) ==
    LET sizes == SubSeq(ws.osize, 1, num_blocks(FileSize[job.src], job.bs))
        payload == lz4_write_blocks_packed(ws.out, sizes, job.bs)
    IN  /\ job.op = "compress" /\ LanesDone /\ ~bench
        /\ ~standardCopy => staged
        /\ disk' = IF opened THEN [disk EXCEPT ![job.dst] = Written(job.bs, sizes, IF staged THEN payload ELSE <<>>)] ELSE disk
        /\ answer' = Answer(0, job.src, job.dst, job.fault \/ ~opened \/ ~staged)
        /\ job' = Idle /\ lane' = <<>>
        /\ UNCHANGED <<constants, ws, args, bound, prev, calls>>

-----------------------------------------------------------------------------
(* Decompression                                                           *)

\* The buffers for the payload and the output, unless one cannot be had.
DecompressBuffers(file, lack) ==
    [ws EXCEPT !.in = IF lack = "in" THEN <<>> ELSE ensure_buffer(@, Len(file.payload)),
               !.out = IF lack = "in" THEN @ ELSE IF lack = "out" THEN <<>> ELSE ensure_buffer(@, Len(file.sizes) * file.bsize)]

\* The payload, and where its blocks are, stored in the buffers w.
UploadPayload(w, file) ==
    LET blocks == Len(file.sizes)
    IN  [w EXCEPT !.in = Put(@, 0, file.payload), !.off = Put(ensure_buffer(@, blocks), 0, Offsets(file.sizes)),
                  !.size = Put(ensure_buffer(@, blocks), 0, file.sizes), !.sizesOut = ensure_buffer(@, blocks)]

\* lz4_decompress_core up to the launch.  `lack': which buffer could not be had, or the file not read.
DecompressBegin(src, dst, requested, lack) ==
    LET file == disk[src]
        blocks == Len(file.sizes)
        data == Len(file.payload)
        l == sanitize_local_size(requested, blocks)
        sized == DecompressBuffers(file, lack)
        ready == UploadPayload(sized, file)
    IN  /\ job.op = "idle" /\ calls < MaxRequests /\ calls' = calls + 1 /\ ~bench
        /\ IF ~file.magic \/ lack # Nothing
           THEN /\ ws' = IF file.magic THEN sized ELSE ws
                /\ bound' = bound \ Replaced(ws')
                /\ answer' = Answer(-1, src, dst, FALSE) /\ UNCHANGED <<job, lane>>
           ELSE /\ ws' = ready /\ bound' = bound \ Replaced(ready)
                /\ job' = [op |-> "decompress", src |-> src, dst |-> dst, bs |-> file.bsize, nblk |-> blocks,
                           lanes |-> round_up_size(choose_decomp_worker_count(blocks, l), l), from |-> "in", to |-> "out",
                           fault |-> Total(file.sizes) # data, sound |-> TRUE, fresh |-> TRUE]
                /\ lane' = [w \in 0..(job'.lanes - 1) |-> w]
                /\ UNCHANGED answer
        /\ UNCHANGED <<constants, disk, args, prev>>

\* lz4_decompress_blocks: lane w decodes its next block.
LaneDecompress(w) ==
    LET b == lane[w]
        r == lz4_decompress_block(Slice(ws[job.from], ws.off[b + 1], ws.size[b + 1]), ws[job.to], job.bs, b)
    IN  /\ job.op = "decompress" /\ b < job.nblk
        /\ ws' = [ws EXCEPT ![job.to] = r.out, !.sizesOut = Put(@, b, <<r.size>>)]
        /\ lane' = [lane EXCEPT ![w] = b + job.lanes]
        /\ job' = [job EXCEPT !.sound = @ /\ (job.fault \/ ws.off[b + 1] + ws.size[b + 1] <= Len(ws[job.from]))
                                          /\ Len(r.out) = Len(ws[job.to])]
        /\ UNCHANGED <<constants, disk, args, bound, prev, answer, calls>>

DecodeDone == job.op = "decompress" /\ \A w \in DOMAIN lane : lane[w] >= job.nblk

\* The output is one run of the buffer: only the last block may be short.  A block that does not
\* decode makes the total too large to be read back (or to be staged).
DecompressFinish(opened, staged) ==
    LET sizes == SubSeq(ws.sizesOut, 1, job.nblk)
        bad == \E i \in 1..job.nblk : sizes[i] = Err
        fails == bad /\ opened /\ staged
    IN  /\ DecodeDone /\ ~bench
        /\ ~standardCopy => staged
        /\ disk' = IF ~opened THEN disk
                   ELSE [disk EXCEPT ![job.dst] = Plain(IF bad \/ ~staged THEN <<>> ELSE SubSeq(ws.out, 1, Total(sizes)))]
        /\ answer' = Answer(IF fails THEN -1 ELSE 0, job.src, job.dst, job.fault \/ ~opened \/ ~staged)
        /\ job' = Idle /\ lane' = <<>>
        /\ UNCHANGED <<constants, ws, args, bound, prev, calls>>

-----------------------------------------------------------------------------
(* The benchmark: rounds of compression and of decoding on the device      *)

\* Are the offsets and sizes on the device other than those of this round?
MetaChanged(sizes, recreated) == recreated \/ prev # sizes

\* The blocks stay where the kernel left them, at multiples of worst_blk.
BenchDecode(requested) ==
    LET blocks == args.nblk
        sizes == SubSeq(ws.osize, 1, blocks)
        l == IF requested > blocks THEN 1 ELSE requested
        sized == [ws EXCEPT !.dout = ensure_buffer(@, args.n), !.off = ensure_buffer(@, blocks),
                            !.size = ensure_buffer(@, blocks), !.sizesOut = ensure_buffer(@, blocks)]
        changed == MetaChanged(sizes, Len(ws.off) # Len(sized.off) \/ Len(ws.size) # Len(sized.size))
        offs == [i \in 1..blocks |-> (i - 1) * single_block_max_out(args.bs)]
    IN  /\ bench /\ job.op = "compress" /\ LanesDone
        /\ ws' = IF changed THEN [sized EXCEPT !.off = Put(@, 0, offs), !.size = Put(@, 0, sizes)] ELSE sized
        /\ prev' = sizes
        /\ job' = [op |-> "decompress", src |-> job.src, dst |-> Nothing, bs |-> args.bs, nblk |-> blocks,
                   lanes |-> round_up_size(blocks, l), from |-> "out", to |-> "dout",
                   fault |-> FALSE, sound |-> job.sound, fresh |-> job.fresh]
        /\ lane' = [w \in 0..(job'.lanes - 1) |-> w]
        /\ UNCHANGED <<constants, disk, args, bound, answer, calls>>

\* memcmp with the input, and the sum of the sizes
BenchVerify ==
    LET sizes == SubSeq(ws.sizesOut, 1, job.nblk)
        verify_ok == Total(sizes) = args.n /\ SubSeq(ws.dout, 1, args.n) = Bytes(job.src, args.n)
    IN  /\ bench /\ DecodeDone
        /\ answer' = Answer(IF verify_ok THEN 0 ELSE -1, job.src, Nothing, FALSE)
        /\ calls' = IF verify_ok THEN calls ELSE MaxRequests
        /\ job' = Idle /\ lane' = <<>>
        /\ UNCHANGED <<constants, disk, ws, args, bound, prev>>

-----------------------------------------------------------------------------
\* lz4_gpu_workspace_init; the benchmark has two buffers of one word.
Workspace ==
    LET word == IF bench THEN <<Junk>> ELSE <<>>
    IN  [in |-> <<>>, out |-> <<>>, osize |-> <<>>, dict |-> <<>>, off |-> word, size |-> word,
         sizesOut |-> word, dout |-> <<>>, epoch |-> 1]

Init ==
    /\ tool \in {"gpu", "hybrid"} /\ bench \in BOOLEAN /\ standardCopy \in BOOLEAN
    /\ disk = [p \in Files \cup Outputs |-> Plain(IF p \in Files THEN Bytes(p, FileSize[p]) ELSE <<>>)]
    /\ ws = Workspace /\ args = NoArgs /\ bound = {} /\ prev = <<>>
    /\ job = Idle /\ lane = <<>> /\ answer = Answer(0, Nothing, Nothing, TRUE) /\ calls = 0

\* Requests for files, by paths; in the benchmark, one file and one block size.
Compress ==
    \/ \E src \in Files, bs \in BlockSizes, l \in LocalSizes, read \in Reads :
          ~bench /\ FileSize[src] > 0 /\ CompressBegin(src, "lz4", bs, l, FALSE, read)
    \/ \E src \in Files : ~bench /\ FileSize[src] = 0 /\ CompressRefused(src)
    \/ \E src \in Files, bs \in BlockSizes :
          /\ bench /\ FileSize[src] > 0
          /\ calls > 0 => answer.status = 0 /\ answer.src = src /\ args.bs = bs
          /\ CompressBegin(src, Nothing, bs, 1, calls > 0, "ok")

Next ==
    \/ Compress
    \/ \E w \in DOMAIN lane, k \in CompressedSizes : LaneCompress(w, k)
    \/ \E opened, staged \in BOOLEAN : CompressFinish(opened, staged) \/ DecompressFinish(opened, staged)
    \/ \E src \in Files \cup {"lz4"}, l \in LocalSizes, lack \in {Nothing, "in", "out", "meta"} : DecompressBegin(src, "dec", l, lack)
    \/ \E w \in DOMAIN lane : LaneDecompress(w)
    \/ \E l \in LocalSizes : BenchDecode(l)
    \/ BenchVerify

Spec == Init /\ [][Next]_vars

-----------------------------------------------------------------------------
TypeOK ==
    /\ tool \in {"gpu", "hybrid"} /\ {bench, standardCopy} \subseteq BOOLEAN
    /\ job.op \in {"idle", "compress", "decompress"} /\ calls \in 0..MaxRequests
    /\ bound \subseteq {"in", "out", "osize", "dict"} /\ answer.status \in {0, -1}
    /\ ws.epoch \in 1..(2 * Epochs)

\* An answer of 0 can be relied on, whatever the workspace was used for before and however the lanes
\* interleave: the container decodes to the file that was compressed, the decoded file is the container's
\* contents.  The exceptions are the faults the code does not report: an output that cannot be opened or
\* staged, a short read of a mapped file, a container that ends early.  And the benchmark always verifies,
\* though it uploads offsets and sizes only when they changed.
AnswersHold ==
    /\ (job.op = "idle" /\ answer.status = 0 /\ ~answer.fault /\ ~bench) =>
        IF answer.dst = "lz4" THEN disk["lz4"].magic /\ Contents(disk["lz4"]) = disk[answer.src].data
        ELSE disk["dec"].data = Contents(disk["lz4"])
    /\ bench => answer.status = 0

\* The lanes use buffers that are still there, within their bounds, though the benchmark launches the
\* kernel with the arguments of an earlier call; and no lane finds in its table an entry tagged with the
\* epoch of the block it starts ("clear dict when low 12 bits would wrap to avoid stale collisions").
LanesSound == TypeOK /\ (job.op # "idle" => job.sound /\ job.fresh)
=============================================================================
