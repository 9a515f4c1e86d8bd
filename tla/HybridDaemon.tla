----------------------------- MODULE HybridDaemon -----------------------------
(***************************************************************************)
(* The hybrid daemon (lz4_hybrid/lz4_gpu_daemon.c) and the split requests   *)
(* it serves (lz4_hybrid/lz4_hybrid.c): the blocks of a file are divided   *)
(* between a GPU and a CPU device, whose kernels run at the same time.     *)
(*                                                                         *)
(* The workers share what a split request uses: the global options, set    *)
(* for each request under g_daemon_split_call_lock, and per device one     *)
(* cached queue, whose five buffers later requests reuse.  A request that  *)
(* is not split runs on the worker's own queue and workspace (GpuCore).    *)
(***************************************************************************)
EXTENDS Container, TLC

CONSTANTS Workers, Clients,
          Loads,        \* functions from Clients to requests: mode, src, dst, share, threads, block
          FileSize,     \* a function: the plain files and their sizes
          Others,       \* a function: what is at the other paths
          Slots,        \* compute units of the CPU device
          None          \* a model value

VARIABLES running,      \* g_state.running
          main,         \* where the main thread is: "accept", "assign", "exited"
          client,       \* the connection accept() returned
          backlog,      \* connections not yet accepted
          work,         \* per worker: pc, fd, and the globals it saved on entry
          lock,         \* who holds g_daemon_split_call_lock
          cli,          \* the globals: share (of the CPU, in percent), threads, block
          dev,          \* per device: valid, the five cached buffers and the job on its queue
          disk,         \* what each path holds
          req, reply    \* per client

vars == <<running, main, client, backlog, work, lock, cli, dev, disk, req, reply>>

Devices == {"GPU", "CPU"}
Fresh == [flags |-> "none", data |-> <<>>]
NoJob == [mode |-> "none", blocks |-> 0, size |-> 0, bsize |-> 0, done |-> TRUE]
Alive == main # "exited"

-----------------------------------------------------------------------------
(* The division of the blocks                                              *)

\* (size_t)(nblk * (1.0 - ratio) + 0.5): to nearest; 1.0 - ratio is not always
\* exact, and a half may go either way.
Rounded(nblk, share) ==
    LET x == nblk * share
    IN  IF x % 100 = 50 THEN {x \div 100, x \div 100 + 1} ELSE {(x + 50) \div 100}

\* cpu_blocks: each device has a block unless its share is none, or there is one block.
CpuBlocks(nblk, share) ==
    {IF share >= 100 THEN nblk
     ELSE IF share = 0 THEN 0
     ELSE IF r >= nblk THEN nblk - 1
     ELSE IF r = 0 /\ nblk > 1 THEN 1 ELSE r : r \in Rounded(nblk, share)}

\* lz4_split_cpu_slots: the lanes of the CPU kernel.
lz4_split_cpu_slots(threads, blocks) ==
    Larger(1, Smaller(IF threads > 0 THEN threads ELSE Slots, blocks))

-----------------------------------------------------------------------------
(* The cached buffers                                                      *)

\* lz4_split_get_buffer: the cached buffer is reused if it is large enough and has
\* the same access flags, and else replaced.
lz4_split_get_buffer(b, flags, size) ==
    IF Len(b.data) >= Larger(1, size) /\ b.flags = flags THEN b
    ELSE [flags |-> flags, data |-> [i \in 1..Larger(1, size) |-> Junk]]

Upload(b, flags, data) ==
    LET g == lz4_split_get_buffer(b, flags, Len(data)) IN [g EXCEPT !.data = Put(@, 0, data)]

\* Buffers 0-3 of a device for a compression: input, output, sizes, dictionary.
CompressBuffers(buf, input, blocks, bs, lanes) ==
    <<Upload(buf[1], "read", input),
      lz4_split_get_buffer(buf[2], "write", blocks * single_block_max_out(bs)),
      lz4_split_get_buffer(buf[3], "both", blocks),
      Upload(buf[4], "both", [i \in 1..lanes |-> 0]),
      buf[5]>>

\* Buffers 0-4 of a device for a decompression: payload, output, offsets, sizes, output sizes.
DecompressBuffers(buf, payload, sizes, bs) ==
    <<Upload(buf[1], "read", payload),
      lz4_split_get_buffer(buf[2], "write", Len(sizes) * bs),
      Upload(buf[3], "read", Offsets(sizes)),
      Upload(buf[4], "read", sizes),
      lz4_split_get_buffer(buf[5], "both", Len(sizes))>>

-----------------------------------------------------------------------------
(* The kernels                                                             *)

\* Some size a block compresses to.
Shrunk(data) == 1 + (data[1].at % 2)

\* All lanes of lz4_compress_block on one device.
CompressKernel(buf, job) ==
    LET block(b) == BlockOf(buf[1].data, job.size, job.bsize, b)
        out(o, b) == Put(o, b * single_block_max_out(job.bsize), Packed(block(b), Shrunk(block(b))))
        all == [b \in 1..job.blocks |-> b - 1]
    IN  [buf EXCEPT ![2].data = FoldLeft(out, @, all),
                    ![3].data = Put(@, 0, [b \in 1..job.blocks |-> Shrunk(block(b - 1))])]

\* All lanes of lz4_decompress_blocks on one device.
DecompressKernel(buf, job) ==
    LET cells(b) == Slice(buf[1].data, buf[3].data[b + 1], buf[4].data[b + 1])
        step(o, b) == lz4_decompress_block(cells(b), o, job.bsize, b).out
        all == [b \in 1..job.blocks |-> b - 1]
    IN  [buf EXCEPT ![2].data = FoldLeft(step, @, all),
                    ![5].data = Put(@, 0, [b \in 1..job.blocks |->
                        lz4_decompress_block(cells(b - 1), buf[2].data, job.bsize, b - 1).size])]

\* A device's queue is in order: its kernel runs some time after it was enqueued.
RunKernel(d) ==
    /\ Alive /\ ~dev[d].job.done
    /\ dev' = [dev EXCEPT ![d].buf = IF dev[d].job.mode = "compress" THEN CompressKernel(@, dev[d].job)
                                     ELSE DecompressKernel(@, dev[d].job),
                          ![d].job.done = TRUE]
    /\ UNCHANGED <<running, main, client, backlog, work, lock, cli, disk, req, reply>>

-----------------------------------------------------------------------------
(* A split request: lz4_daemon_split_file_request                          *)

Goto(w, where) == work' = [work EXCEPT ![w].pc = where]
R(w) == req[work[w].fd]

\* The globals are read into old_*, and only then the lock is taken.
SaveGlobals(w) ==
    /\ work[w].pc = "split"
    /\ work' = [work EXCEPT ![w].pc = "lock", ![w].old = cli]
    /\ UNCHANGED <<running, main, client, backlog, lock, cli, dev, disk, req, reply>>

\* Under it they are those of the request.
LockAndSet(w) ==
    /\ work[w].pc = "lock" /\ lock = None
    /\ lock' = w
    /\ cli' = [share |-> R(w).share, threads |-> R(w).threads, block |-> R(w).block]
    /\ Goto(w, "begin")
    /\ UNCHANGED <<running, main, client, backlog, dev, disk, req, reply>>

Job(mode, blocks, size, bs) == [mode |-> mode, blocks |-> blocks, size |-> size, bsize |-> bs, done |-> FALSE]

\* The blocks are divided, each device that has some gets its buffers and its part
\* of the input, and then its kernel, the GPU first.  An upload waits for what is on
\* the queue.  It may fail before the CPU's buffers are ready, and between the two
\* kernels: then the GPU's runs though nobody waits for it.
Launch(w, mode, blocks, Buffers(_, _, _), Size(_, _), bs) ==
    \E cpu \in CpuBlocks(blocks, cli.share), upto \in {"gpu", "launch", "all"} :
        LET n == [d \in Devices |-> IF d = "CPU" THEN cpu ELSE blocks - cpu]
            ready(d) == n[d] > 0 /\ (d = "CPU" => upto # "gpu")
            goes(d) == n[d] > 0 /\ upto # "gpu" /\ (d = "CPU" => upto = "all")
        IN  /\ \A d \in Devices : ready(d) => dev[d].job.done
            /\ upto # "all" => cpu > 0
            /\ dev' = [d \in Devices |->
                 IF ~ready(d) THEN dev[d]
                 ELSE [buf |-> Buffers(d, dev[d].buf, n),
                       job |-> IF goes(d) THEN Job(mode, n[d], Size(d, n), bs) ELSE NoJob]]
            /\ work' = [work EXCEPT ![w].pc = IF upto = "all" THEN "wait" ELSE "unlock",
                                   ![w].cpu = cpu, ![w].n = blocks, ![w].bs = bs]

\* do_split_compress_mode, to the kernels.  An empty file is refused.
do_split_compress_mode(w) ==
    /\ work[w].pc = "begin" /\ R(w).mode = "compress"
    /\ LET file == disk[R(w).src]
           size == Len(file.data)
           bs == cli.block
           gpuSize(n) == Smaller(n["GPU"] * bs, size)
           part(d, n) == IF d = "GPU" THEN SubSeq(file.data, 1, gpuSize(n))
                         ELSE SubSeq(file.data, gpuSize(n) + 1, size)
           lanes(d, n) == IF d = "GPU" THEN n[d] ELSE lz4_split_cpu_slots(cli.threads, n[d])
           buffers(d, buf, n) == CompressBuffers(buf, part(d, n), n[d], bs, lanes(d, n))
           length(d, n) == Len(part(d, n))
       IN  IF size = 0 THEN Goto(w, "unlock") /\ UNCHANGED dev
           ELSE Launch(w, "compress", num_blocks(size, bs), buffers, length, bs)
    /\ UNCHANGED <<running, main, client, backlog, lock, cli, disk, req, reply>>

\* do_split_decompress_mode, to the kernels.  A file that is not a container, has no
\* blocks, or whose payload is not as long as its sizes say, is refused.
do_split_decompress_mode(w) ==
    /\ work[w].pc = "begin" /\ R(w).mode = "decompress"
    /\ LET file == disk[R(w).src] IN
       IF ~file.magic \/ (file.magic => file.sizes = <<>> \/ Total(file.sizes) # Len(file.payload))
       THEN Goto(w, "unlock") /\ UNCHANGED dev
       ELSE LET sizes(d, n) == IF d = "GPU" THEN SubSeq(file.sizes, 1, n[d])
                               ELSE SubSeq(file.sizes, n["GPU"] + 1, Len(file.sizes))
                first(n) == Total(sizes("GPU", n))
                part(d, n) == IF d = "GPU" THEN SubSeq(file.payload, 1, first(n))
                              ELSE SubSeq(file.payload, first(n) + 1, Len(file.payload))
                buffers(d, buf, n) == DecompressBuffers(buf, part(d, n), sizes(d, n), file.bsize)
                length(d, n) == Len(part(d, n))
            IN  Launch(w, "decompress", Len(file.sizes), buffers, length, file.bsize)
    /\ UNCHANGED <<running, main, client, backlog, lock, cli, disk, req, reply>>

\* A split decides nothing before it has read its input: that may fail.
ReadFails(w) ==
    /\ work[w].pc = "begin" /\ Goto(w, "unlock")
    /\ UNCHANGED <<running, main, client, backlog, lock, cli, dev, disk, req, reply>>

Blocks(w, d) == IF d = "CPU" THEN work[w].cpu ELSE work[w].n - work[w].cpu

\* The compressed sizes of a device's blocks, and those blocks without the gaps between them.
Sizes(w, d) == Slice(dev[d].buf[3].data, 0, Blocks(w, d))
lz4_write_split_payload(w, d) == lz4_write_blocks_packed(dev[d].buf[2].data, Sizes(w, d), work[w].bs)

\* Mutant: the CPU's part of the payload is written first.
CpuPayloadFirst(w) ==
    Written(work[w].bs, Sizes(w, "GPU") \o Sizes(w, "CPU"),
            lz4_write_split_payload(w, "CPU") \o lz4_write_split_payload(w, "GPU"))

\* The container of both devices' blocks, the GPU's first.
SplitContainer(w) ==
    Written(work[w].bs, Sizes(w, "GPU") \o Sizes(w, "CPU"),
            lz4_write_split_payload(w, "GPU") \o lz4_write_split_payload(w, "CPU"))

OutSize(w, d, b) == dev[d].buf[5].data[b]

\* The decoded blocks.  One that is longer than the block size, as 0xFFFFFFFF is, is refused.
Refused(w) == \E d \in Devices : \E b \in 1..Blocks(w, d) : OutSize(w, d, b) = Err
SplitData(w) ==
    LET data(d) == FlattenSeq([b \in 1..Blocks(w, d) |->
                     Slice(dev[d].buf[2].data, (b - 1) * work[w].bs, OutSize(w, d, b))])
    IN  Plain(data("GPU") \o data("CPU"))

\* Both kernels are waited for; then the output is read back, opened and written,
\* each of which may fail: what is in the file then is not known.
FinishSplit(w) ==
    /\ work[w].pc = "wait"
    /\ \A d \in Devices : Blocks(w, d) > 0 => dev[d].job.done
    /\ \/ /\ R(w).mode = "decompress" => ~Refused(w)
          /\ disk' = [disk EXCEPT ![R(w).dst] = IF R(w).mode = "compress" THEN SplitContainer(w) ELSE SplitData(w)]
          /\ work' = [work EXCEPT ![w].pc = "unlock", ![w].status = 0]
       \/ Goto(w, "unlock") /\ \E out \in {disk[R(w).dst], Plain(<<Junk>>)} : disk' = [disk EXCEPT ![R(w).dst] = out]
    /\ UNCHANGED <<running, main, client, backlog, lock, cli, dev, req, reply>>

\* Mutant: the way out of a failed request does not release the lock.
UnlockIfDone(w) ==
    /\ work[w].pc = "unlock"
    /\ cli' = work[w].old /\ lock' = IF work[w].status = 0 THEN None ELSE lock
    /\ Goto(w, "reply")
    /\ UNCHANGED <<running, main, client, backlog, dev, disk, req, reply>>

\* The globals are given back the values read on entry, and the lock released.
RestoreAndUnlock(w) ==
    /\ work[w].pc = "unlock"
    /\ cli' = work[w].old /\ lock' = None
    /\ Goto(w, "reply")
    /\ UNCHANGED <<running, main, client, backlog, dev, disk, req, reply>>

SplitRequest(w) ==
    \/ SaveGlobals(w) \/ LockAndSet(w) \/ ReadFails(w) \/ do_split_compress_mode(w)
    \/ do_split_decompress_mode(w) \/ FinishSplit(w) \/ RestoreAndUnlock(w)

-----------------------------------------------------------------------------
(* A request that is not split runs on the worker's own workspace; GpuCore *)
(* has the steps.  0 is also answered when the output could not be opened. *)

\* lz4_compress_core
CoreCompress(w) ==
    /\ R(w).mode = "compress"
    /\ LET data == disk[R(w).src].data
           block(i) == BlockOf(data, Len(data), R(w).block, i - 1)
           n == num_blocks(Len(data), R(w).block)
       IN  \/ /\ data # <<>>
              /\ disk' = [disk EXCEPT ![R(w).dst] = Written(R(w).block, [i \in 1..n |-> Shrunk(block(i))],
                                          FlattenSeq([i \in 1..n |-> Packed(block(i), Shrunk(block(i)))]))]
              /\ work' = [work EXCEPT ![w].pc = "reply", ![w].status = 0]
           \/ data # <<>> /\ work' = [work EXCEPT ![w].pc = "reply", ![w].status = 0] /\ UNCHANGED disk
           \/ Goto(w, "reply") /\ UNCHANGED disk

\* lz4_decompress_core
CoreDecompress(w) ==
    /\ R(w).mode = "decompress"
    /\ LET file == disk[R(w).src] IN
       \/ /\ file.magic
          /\ disk' = [disk EXCEPT ![R(w).dst] = Plain(Contents(file))]
          /\ work' = [work EXCEPT ![w].pc = "reply", ![w].status = 0]
       \/ file.magic /\ work' = [work EXCEPT ![w].pc = "reply", ![w].status = 0] /\ UNCHANGED disk
       \/ Goto(w, "reply") /\ UNCHANGED disk

-----------------------------------------------------------------------------
(* The daemon: run_daemon, worker_thread, process_request                  *)

Idle == [pc |-> "idle", fd |-> None, old |-> None, cpu |-> 0, n |-> 0, bs |-> 0, status |-> -1]

\* accept()
Accept ==
    /\ main = "accept" /\ running /\ backlog # <<>>
    /\ main' = "assign" /\ client' = Head(backlog) /\ backlog' = Tail(backlog)
    /\ UNCHANGED <<running, work, lock, cli, dev, disk, req, reply>>

\* A worker without work gets the connection.  While there is none the main thread
\* sleeps and tries again.
Assign(w) ==
    /\ main = "assign" /\ running /\ work[w].pc = "idle"
    /\ work' = [work EXCEPT ![w].pc = "process", ![w].fd = client]
    /\ main' = "accept" /\ client' = None
    /\ UNCHANGED <<running, backlog, lock, cli, dev, disk, req, reply>>

\* SIGTERM: accept() returns EINTR, a connection not yet assigned is closed, and the
\* process ends: nobody joins the workers.
SignalHandler ==
    /\ running /\ Alive /\ running' = FALSE
    /\ UNCHANGED <<main, client, backlog, work, lock, cli, dev, disk, req, reply>>
Exit ==
    /\ ~running /\ Alive
    /\ main' = "exited" /\ client' = None /\ backlog' = <<>>
    /\ UNCHANGED <<running, work, lock, cli, dev, disk, req, reply>>

\* process_request: a request with a CPU share is split.
process_request(w) ==
    /\ work[w].pc = "process"
    /\ IF R(w).share > 0
       THEN Goto(w, "split") /\ UNCHANGED disk
       ELSE CoreCompress(w) \/ CoreDecompress(w)
    /\ UNCHANGED <<running, main, client, backlog, lock, cli, dev, req, reply>>

\* worker_thread: the answer, and the connection is closed.
Reply(w) ==
    /\ work[w].pc = "reply"
    /\ reply' = [reply EXCEPT ![work[w].fd] = work[w].status]
    /\ work' = [work EXCEPT ![w] = Idle]
    /\ UNCHANGED <<running, main, client, backlog, lock, cli, dev, disk, req>>

Worker(w) == Alive /\ (Assign(w) \/ process_request(w) \/ SplitRequest(w) \/ Reply(w))

\* do_daemon_op: a client connects and sends its request at once.
Connect(c) ==
    /\ Alive /\ reply[c] = None /\ c # client
    /\ c \notin Range(backlog) /\ \A w \in Workers : work[w].fd # c
    /\ backlog' = Append(backlog, c)
    /\ UNCHANGED <<running, main, client, work, lock, cli, dev, disk, req, reply>>

Init ==
    /\ running = TRUE /\ main = "accept" /\ client = None /\ backlog = <<>>
    /\ work = [w \in Workers |-> Idle] /\ lock = None
    /\ cli = [share |-> 0, threads |-> 0, block |-> 0]
    /\ dev = [d \in Devices |-> [buf |-> [i \in 1..5 |-> Fresh], job |-> NoJob]]
    /\ req \in Loads
    /\ disk = [f \in DOMAIN FileSize |-> Plain(Bytes(f, FileSize[f]))] @@ Others
    /\ reply = [c \in Clients |-> None]

Next ==
    \/ Accept \/ SignalHandler \/ Exit
    \/ \E w \in Workers : Worker(w)
    \/ \E d \in Devices : RunKernel(d)
    \/ \E c \in Clients : Connect(c)

Spec == Init /\ [][Next]_vars

\* Threads and devices keep running.
Fairness ==
    /\ WF_vars(Accept) /\ \A w \in Workers : WF_vars(Worker(w))
    /\ \A d \in Devices : WF_vars(RunKernel(d))

-----------------------------------------------------------------------------
(* Properties                                                              *)

TypeOK ==
    /\ running \in BOOLEAN /\ main \in {"accept", "assign", "exited"}
    /\ client \in Clients \cup {None} /\ lock \in Workers \cup {None}
    /\ reply \in [Clients -> {0, -1, None}]

\* What a client that was answered 0 finds at its output path: of a compression, a
\* container of its input, of a decompression, what its input contains.
Output(r) ==
    LET in == disk[r.src]
        out == disk[r.dst]
    IN  IF r.mode = "compress" THEN out.magic /\ (out.magic => Contents(out) = in.data)
        ELSE in.magic /\ ~out.magic /\ (~out.magic => out.data = Contents(in))

\* A split request that is answered 0 did what it was asked, although its blocks were
\* divided between two devices, whose cached buffers still held what requests of
\* other sizes, modes and workers, failed ones included, had left there.
SplitAnswersRight == \A c \in Clients : req[c].share > 0 /\ reply[c] = 0 => Output(req[c])

\* The global options are those of the request that runs, and only the holder of
\* g_daemon_split_call_lock uses them and the devices; a kernel writes only to
\* buffers that were created for writing.
OwnParameters ==
    /\ TypeOK
    /\ \A w \in Workers : work[w].pc \in {"begin", "wait", "unlock"} =>
         lock = w /\ cli = [share |-> R(w).share, threads |-> R(w).threads, block |-> R(w).block]
    /\ \A d \in Devices : ~dev[d].job.done =>
         /\ dev[d].buf[2].flags = "write"
         /\ dev[d].buf[IF dev[d].job.mode = "compress" THEN 3 ELSE 5].flags = "both"

\* As long as nobody stops the daemon every connection is answered: no worker waits
\* for ever for g_daemon_split_call_lock or for a device.
ConnectionsAnswered == \A c \in Clients : c \in Range(backlog) ~> reply[c] # None \/ ~running
=============================================================================
