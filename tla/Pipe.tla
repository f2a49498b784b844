-------------------------------- MODULE Pipe --------------------------------
(***************************************************************************)
(* Open files and descriptor tables (fs/file.c), pipes and FIFOs           *)
(* (fs/pipe.c), eventfd and the descriptor calls of fs/syscalls.c, and     *)
(* poll over them (fs/poll.c).                                             *)
(*                                                                         *)
(* All of it runs under the big kernel lock, which a thread gives up when  *)
(* it sleeps, so a step is what a call does from one sleep to the next;    *)
(* the copying loops of pipe_read and pipe_write are one step per chunk.   *)
(***************************************************************************)
EXTENDS Integers, Sequences, FiniteSets, FiniteSetsExt

CONSTANTS
    PThreads, PProcs,
    ProcOf,           \* the process of each thread; those of a process share
                      \* its descriptor table
    Child,            \* the process that fork makes, and that may exit
    Pollers,          \* threads that call poll, alone in their process
    NFiles, NPipes,   \* memory for this many files and pipes
    FD_MAX,           \* t->max
    PIPE_SIZE, PIPE_BUF,
    RLens, WLens,     \* lengths of reads and of writes, by load and thread
    EV_MAX,           \* the largest count of an eventfd, 2^64 - 2
    PLoads,
    CopyFaults,       \* loads in which a copy to or from user memory may sleep
    FifoFails         \* whether opening a FIFO may fail

ASSUME PipeAssumption ==
    /\ ProcOf \in [PThreads -> PProcs] /\ Child \in PProcs
    /\ 0 < PIPE_BUF /\ PIPE_BUF <= PIPE_SIZE

VARIABLES
    files,   \* struct file: refcount, mode, O_NONBLOCK, what it is open on
    pipes,   \* struct pipe: the ring, its ends, whether w_counter is nonzero
    fifo,    \* the FIFO's inode->pipe, 0 when NULL
    event,   \* e->count of the eventfd
    tabs,    \* p->files: t->fd and t->cloexec
    thr,     \* each thread: its call and the queues its waiters are linked on
    in_kernel,   \* the thread that is between two chunks, holding the BKL
    pload    \* what the instance exercises; fixed

pipe_vars == <<files, pipes, fifo, event, tabs, thr, in_kernel, pload>>

FDs == 0..FD_MAX - 1
NoFile == [ref |-> 0, mode |-> {}, nb |-> FALSE, on |-> 0]
NewPipe == [ring |-> [i \in 0..PIPE_SIZE - 1 |-> <<>>], head |-> 0, tail |-> 0,
            readers |-> 0, writers |-> 0, opened |-> FALSE]
NoPipe == [NewPipe EXCEPT !.readers = -1]
NoTable == [fd |-> [i \in FDs |-> 0], clo |-> {}, live |-> FALSE]
EventFd == NPipes + 1        \* as what a file is open on, and its e->wq
Idle == [pc |-> "user", st |-> "R", f |-> 0, len |-> 0, done |-> 0, off |-> 0,
         n |-> 0, moved |-> FALSE, sig |-> FALSE, links |-> {}, fds |-> {},
         timer |-> "none"]
Unborn == [Idle EXCEPT !.pc = "dead"]

PipeState == [files |-> files, pipes |-> pipes, fifo |-> fifo, event |-> event,
              tabs |-> tabs, thr |-> thr, cpu |-> in_kernel]
PipeBecomes(k) ==
    /\ files' = k.files /\ pipes' = k.pipes /\ fifo' = k.fifo /\ event' = k.event
    /\ tabs' = k.tabs /\ thr' = k.thr /\ in_kernel' = k.cpu

Exists(k, p) == k.pipes[p].readers # -1 \/ k.pipes[p].writers # 0

-----------------------------------------------------------------------------
(* Waiting.  A link <<p, q>> is a waiter on queue q of object p: r and w   *)
(* are rwait and wwait of a pipe, e the queue of an eventfd.               *)

WakeUp(k, p, Q) ==
    [k EXCEPT !.thr = [t \in PThreads |->
        IF \E q \in Q : <<p, q>> \in k.thr[t].links THEN [k.thr[t] EXCEPT !.st = "R"]
        ELSE k.thr[t]]]

SleepOn(k, t, pc, L) ==
    [k EXCEPT !.thr[t].pc = pc, !.thr[t].st = "S", !.thr[t].links = L, !.cpu = 0]

\* Going on in the call after a wait, or staying in it from chunk to chunk.
Continue(k, t, pc) ==
    [k EXCEPT !.thr[t].pc = pc, !.thr[t].links = {}, !.cpu = t]

-----------------------------------------------------------------------------
(* Files and descriptors. *)

\* Mutant: a writer that waits for room is not told that its reader has gone.
pipe_release_quiet(k, f) ==
    LET o == k.files[f]
        p == o.on
        r == k.pipes[p].readers - (IF "r" \in o.mode THEN 1 ELSE 0)
        w == k.pipes[p].writers - (IF "w" \in o.mode THEN 1 ELSE 0)
        k1 == WakeUp([k EXCEPT !.pipes[p].readers = r, !.pipes[p].writers = w], p, {"r"})
    IN  IF r = 0 /\ w = 0
        THEN [k1 EXCEPT !.pipes[p] = NoPipe, !.fifo = IF @ = p THEN 0 ELSE @]
        ELSE k1

pipe_release(k, f) ==
    LET o == k.files[f]
        p == o.on
        r == k.pipes[p].readers - (IF "r" \in o.mode THEN 1 ELSE 0)
        w == k.pipes[p].writers - (IF "w" \in o.mode THEN 1 ELSE 0)
        k1 == WakeUp([k EXCEPT !.pipes[p].readers = r, !.pipes[p].writers = w], p, {"r", "w"})
    IN  IF r = 0 /\ w = 0
        THEN [k1 EXCEPT !.pipes[p] = NoPipe, !.fifo = IF @ = p THEN 0 ELSE @]
        ELSE k1

file_put(k, f) ==
    IF k.files[f].ref > 1 THEN [k EXCEPT !.files[f].ref = @ - 1]
    ELSE [(IF k.files[f].on = EventFd THEN k ELSE pipe_release(k, f))
          EXCEPT !.files[f] = NoFile]

FreeFiles(k) == {f \in 1..NFiles : k.files[f].ref = 0}
FreePipes(k) == {p \in 1..NPipes : ~Exists(k, p)}
FreeFds(k, t, min) == {i \in FDs : i >= min /\ k.tabs[ProcOf[t]].fd[i] = 0}

\* -EMFILE is FD_MAX, and leaves the file to the caller.
fd_install(k, t, f, min, clo) ==
    IF FreeFds(k, t, min) = {} THEN k
    ELSE LET i == Min(FreeFds(k, t, min))
         IN  [k EXCEPT !.tabs[ProcOf[t]].fd[i] = f,
                       !.tabs[ProcOf[t]].clo = IF clo THEN @ \cup {i} ELSE @ \ {i}]

Installed(k, t, f, min, clo) ==
    IF FreeFds(k, t, min) = {} THEN file_put(k, f) ELSE fd_install(k, t, f, min, clo)

fget(k, f) == [k EXCEPT !.files[f].ref = @ + 1]
AtFd(t, i) == tabs[ProcOf[t]].fd[i]

\* Mutant: the descriptor keeps the file it has put.
fd_close_keeping(k, t, i) ==
    LET f == k.tabs[ProcOf[t]].fd[i]
    IN  file_put([k EXCEPT !.tabs[ProcOf[t]].clo = @ \ {i}], f)

fd_close(k, t, i) ==
    LET f == k.tabs[ProcOf[t]].fd[i]
    IN  file_put([k EXCEPT !.tabs[ProcOf[t]].fd[i] = 0,
                           !.tabs[ProcOf[t]].clo = @ \ {i}], f)

-----------------------------------------------------------------------------
(* Calls that do not sleep. *)

Calls(t) == in_kernel = 0 /\ thr[t].pc = "user"

sys_close(t, i) == Calls(t) /\ AtFd(t, i) # 0 /\ PipeBecomes(fd_close(PipeState, t, i))

sys_dup(t, i, min, clo) ==
    /\ Calls(t) /\ AtFd(t, i) # 0
    /\ LET f == AtFd(t, i)
       IN  PipeBecomes(Installed(fget(PipeState, f), t, f, min, clo))

sys_dup3(t, i, j, clo) ==
    /\ Calls(t) /\ i # j /\ AtFd(t, i) # 0
    /\ LET f == AtFd(t, i)
           k == fget(PipeState, f)
           old == AtFd(t, j)
       IN  PipeBecomes([(IF old = 0 THEN k ELSE file_put(k, old))
                        EXCEPT !.tabs[ProcOf[t]].fd[j] = f,
                               !.tabs[ProcOf[t]].clo = IF clo THEN @ \cup {j} ELSE @ \ {j}])

pipe_create_pair(k, p, r, w) ==
    [k EXCEPT !.pipes[p] = [NewPipe EXCEPT !.readers = 1, !.writers = 1, !.opened = TRUE],
              !.files[r] = [NoFile EXCEPT !.ref = 1, !.mode = {"r"}, !.on = p],
              !.files[w] = [NoFile EXCEPT !.ref = 1, !.mode = {"w"}, !.on = p]]

sys_pipe2(t, clo) ==
    /\ Calls(t) /\ FreePipes(PipeState) # {} /\ Cardinality(FreeFiles(PipeState)) > 1
    /\ \E w \in {Max(FreeFiles(PipeState))}, r \in {Min(FreeFiles(PipeState))} :
       \E k \in {pipe_create_pair(PipeState, Min(FreePipes(PipeState)), r, w)} :
       \E fr \in {IF FreeFds(k, t, 0) = {} THEN FD_MAX ELSE Min(FreeFds(k, t, 0))} :
       \E k1 \in {fd_install(k, t, r, 0, clo)} :
          PipeBecomes(IF fr = FD_MAX THEN file_put(file_put(k1, r), w)
                      ELSE IF FreeFds(k1, t, 0) = {} THEN file_put(fd_close(k1, t, fr), w)
                      ELSE fd_install(k1, t, w, 0, clo))

\* F_SETFL and FIONBIO.
set_nonblock(t, i) ==
    /\ Calls(t) /\ AtFd(t, i) # 0
    /\ PipeBecomes([PipeState EXCEPT !.files[AtFd(t, i)].nb = ~@])

\* F_SETFD, FIOCLEX and FIONCLEX.
set_cloexec(t, i) ==
    /\ Calls(t) /\ AtFd(t, i) # 0
    /\ PipeBecomes([PipeState EXCEPT
          !.tabs[ProcOf[t]].clo = IF i \in @ THEN @ \ {i} ELSE @ \cup {i}])

\* A fork: fdtable_dup, and the child's thread starts.
fork_files(t) ==
    /\ Calls(t) /\ ProcOf[t] # Child /\ ~tabs[Child].live
    /\ LET fd == tabs[ProcOf[t]].fd
       IN  PipeBecomes([PipeState EXCEPT
              !.tabs[Child] = tabs[ProcOf[t]],
              !.files = [f \in 1..NFiles |->
                  [files[f] EXCEPT !.ref = @ + Cardinality({i \in FDs : fd[i] = f})]],
              !.thr = [u \in PThreads |-> IF ProcOf[u] = Child THEN Idle ELSE thr[u]]])

\* file_put of each of a table's slots in I.
PutSlots(k, p, I) == FoldSet(LAMBDA i, a : file_put(a, k.tabs[p].fd[i]), k,
                             {i \in I : k.tabs[p].fd[i] # 0})

fdtable_close_on_exec(t) ==
    /\ Calls(t)
    /\ LET p == ProcOf[t]
           k == PutSlots(PipeState, p, tabs[p].clo)
       IN  PipeBecomes([k EXCEPT
              !.tabs[p].fd = [i \in FDs |-> IF i \in tabs[p].clo THEN 0 ELSE @[i]],
              !.tabs[p].clo = {}])

\* The exit of the child, all its threads being in user mode: fdtable_put.
exit_files(t) ==
    /\ Calls(t) /\ ProcOf[t] = Child
    /\ \A u \in PThreads : ProcOf[u] = Child => thr[u].pc = "user"
    /\ LET k == PutSlots(PipeState, Child, FDs)
       IN  PipeBecomes([k EXCEPT
              !.tabs[Child] = NoTable,
              !.thr = [u \in PThreads |-> IF ProcOf[u] = Child THEN Unborn ELSE k.thr[u]]])

-----------------------------------------------------------------------------
(* read and write.  The call holds a reference to its file. *)

Used(q) == q.head - q.tail
On(k, t) == k.files[k.thr[t].f].on
The(k, t) == k.pipes[On(k, t)]

\* The call returns: rw drops its reference.
Leave(k, t) == [file_put([k EXCEPT !.thr[t] = Idle, !.cpu = 0], k.thr[t].f) EXCEPT !.cpu = 0]

Enter(t, i, pc, len) ==
    [fget(PipeState, AtFd(t, i)) EXCEPT
        !.thr[t].pc = pc, !.thr[t].f = AtFd(t, i), !.thr[t].len = len, !.cpu = t]

\* head and tail run freely; only their distance and place in the ring count.
Rebased(q) ==
    IF q.tail >= PIPE_SIZE /\ q.head >= PIPE_SIZE
    THEN [q EXCEPT !.head = @ - PIPE_SIZE, !.tail = @ - PIPE_SIZE] ELSE q

\* A byte that was read is gone from the ring.
Consumed(q, n) ==
    Rebased([q EXCEPT !.tail = @ + n,
                      !.ring = [j \in 0..PIPE_SIZE - 1 |->
                          IF (j - q.tail) % PIPE_SIZE < n THEN <<>> ELSE @[j]]])

\* From where pipe_read stands to its return, a sleep or the next chunk.
pipe_read(k, t) ==
    LET q == The(k, t)
        o == k.thr[t]
        n == Min({o.len - o.done, Used(q), PIPE_SIZE - (q.tail % PIPE_SIZE)})
    IN  IF n > 0
        THEN IF pload \in CopyFaults
             THEN [k EXCEPT !.thr[t].pc = "copyout", !.thr[t].n = n, !.cpu = 0]
             ELSE [k EXCEPT !.pipes[On(k, t)] = Consumed(@, n), !.thr[t].done = @ + n]
        ELSE IF o.done > 0 THEN Leave(WakeUp(k, On(k, t), {"w"}), t)
        ELSE IF q.writers = 0 \/ k.files[o.f].nb \/ o.sig THEN Leave(k, t)
        ELSE SleepOn(k, t, "rwait", {<<On(k, t), "r">>})

sys_read(t, i, len) ==
    /\ Calls(t) /\ AtFd(t, i) # 0
    /\ files[AtFd(t, i)].on # EventFd /\ "r" \in files[AtFd(t, i)].mode
    /\ \E k \in {Enter(t, i, "read", len)} : PipeBecomes(pipe_read(k, t))

read_chunk(t) ==
    /\ in_kernel = t /\ thr[t].pc = "read"
    /\ PipeBecomes(pipe_read(PipeState, t))

copy_to_user_done(t) ==
    /\ in_kernel = 0 /\ thr[t].pc = "copyout"
    /\ PipeBecomes([PipeState EXCEPT
           !.pipes[On(PipeState, t)] = Consumed(@, thr[t].n),
           !.thr[t].pc = "read", !.thr[t].done = @ + thr[t].n, !.thr[t].n = 0, !.cpu = t])

\* The conditions of the wait are those of the loop around it.
read_woken(t) ==
    /\ in_kernel = 0 /\ thr[t].pc = "rwait" /\ thr[t].st = "R"
    /\ \E k \in {Continue(PipeState, t, "read")} : PipeBecomes(pipe_read(k, t))

Space(q) == PIPE_SIZE - Used(q)
\* Mutant: a short write is split like a long one.
NoRoomForPart(q, want) == Space(q) = 0
NoRoom(q, want) == Space(q) = 0 \/ (want <= PIPE_BUF /\ Space(q) < want)

\* The bytes of a write say whose they are and where in it they belong.
Bytes(t, o, n) == [j \in 0..n - 1 |-> <<t, o.done + j + 1, o.len>>]
Appended(q, off, n, b) ==
    Rebased([q EXCEPT !.head = @ + n,
                      !.ring = [j \in 0..PIPE_SIZE - 1 |->
                          IF off <= j /\ j < off + n THEN b[j - off] ELSE @[j]]])

ChunkDone(k, t, off, n) ==
    WakeUp([k EXCEPT !.pipes[On(k, t)] = Appended(@, off, n, Bytes(t, k.thr[t], n)),
                     !.thr[t].pc = "write", !.thr[t].done = @ + n,
                     !.thr[t].off = 0, !.thr[t].n = 0, !.cpu = t], On(k, t), {"r"})

\* From where pipe_write stands to its return, a sleep or the next chunk.
pipe_write(k, t) ==
    LET q == The(k, t)
        o == k.thr[t]
        want == o.len - o.done
        off == q.head % PIPE_SIZE
        n == Min({want, Space(q), PIPE_SIZE - off})
    IN  IF want = 0 \/ q.readers = 0 THEN Leave(k, t)
        ELSE IF NoRoom(q, want)
        THEN IF k.files[o.f].nb THEN Leave(k, t)
             ELSE IF o.sig THEN Leave(WakeUp(k, On(k, t), {"r"}), t)
             ELSE SleepOn(WakeUp(k, On(k, t), {"r"}), t, "wwait", {<<On(k, t), "w">>})
        ELSE IF pload \in CopyFaults
        THEN [k EXCEPT !.thr[t].pc = "copyin", !.thr[t].off = off, !.thr[t].n = n, !.cpu = 0]
        ELSE ChunkDone(k, t, off, n)

sys_write(t, i, len) ==
    /\ Calls(t) /\ AtFd(t, i) # 0
    /\ files[AtFd(t, i)].on # EventFd /\ "w" \in files[AtFd(t, i)].mode
    /\ \E k \in {Enter(t, i, "write", len)} : PipeBecomes(pipe_write(k, t))

write_chunk(t) ==
    /\ in_kernel = t /\ thr[t].pc = "write"
    /\ PipeBecomes(pipe_write(PipeState, t))

copy_from_user_done(t) ==
    /\ in_kernel = 0 /\ thr[t].pc = "copyin"
    /\ PipeBecomes(ChunkDone(PipeState, t, thr[t].off, thr[t].n))

write_woken(t) ==
    /\ in_kernel = 0 /\ thr[t].pc = "wwait" /\ thr[t].st = "R"
    /\ LET q == The(PipeState, t)
           want == thr[t].len - thr[t].done
       IN  IF q.readers = 0 \/ Space(q) >= Min({want, PIPE_BUF})
           THEN \E k \in {Continue(PipeState, t, "write")} : PipeBecomes(pipe_write(k, t))
           ELSE IF thr[t].sig THEN PipeBecomes(Leave(PipeState, t))
           ELSE PipeBecomes(SleepOn(PipeState, t, "wwait", thr[t].links))

-----------------------------------------------------------------------------
(* Opening a FIFO: open_path, fifo_open and the end of sys_openat. *)

OpenDone(k, t) ==
    LET f == k.thr[t].f
    IN  Installed([k EXCEPT !.thr[t] = Idle, !.cpu = 0], t, f, 0, FALSE)

\* open_path: a failed open drops the file, whose f_op is pipe_fops by now.
OpenFailed(k, t) == Leave(k, t)

OpenAsWriter(k, t) ==
    LET f == k.thr[t].f
        p == k.files[f].on
        k1 == WakeUp([k EXCEPT !.pipes[p].writers = @ + 1, !.pipes[p].opened = TRUE,
                               !.thr = [u \in PThreads |->
                                   IF k.thr[u].pc = "openr" THEN [k.thr[u] EXCEPT !.moved = TRUE]
                                   ELSE k.thr[u]]], p, {"r"})
    IN  IF "r" \in k.files[f].mode \/ k1.pipes[p].readers # 0 THEN OpenDone(k1, t)
        ELSE SleepOn(k1, t, "openw", {<<p, "w">>})

OpenAsReader(k, t) ==
    LET f == k.thr[t].f
        p == k.files[f].on
        k1 == WakeUp([k EXCEPT !.pipes[p].readers = @ + 1], p, {"w"})
    IN  IF "w" \in k.files[f].mode THEN OpenAsWriter(k1, t)
        ELSE IF ~k.files[f].nb /\ k1.pipes[p].writers = 0
        THEN SleepOn(k1, t, "openr", {<<p, "r">>})
        ELSE OpenDone(k1, t)

fifo_open(t, mode, nb) ==
    /\ Calls(t) /\ FreeFiles(PipeState) # {} /\ (fifo # 0 \/ FreePipes(PipeState) # {})
    /\ \E f \in {Min(FreeFiles(PipeState))} :
       \E p \in {IF fifo # 0 THEN fifo ELSE Min(FreePipes(PipeState))} :
       \E k \in {[PipeState EXCEPT
                     !.fifo = p, !.pipes[p] = IF fifo = 0 THEN NewPipe ELSE @,
                     !.files[f] = [ref |-> 1, mode |-> mode, nb |-> nb, on |-> p],
                     !.thr[t].f = f]} :
          IF "r" \in mode THEN PipeBecomes(OpenAsReader(k, t))
          ELSE IF nb /\ k.pipes[p].readers = 0   \* -ENXIO
          THEN FifoFails /\ PipeBecomes(OpenFailed(k, t))
          ELSE PipeBecomes(OpenAsWriter(k, t))

openr_woken(t) ==
    /\ in_kernel = 0 /\ thr[t].pc = "openr" /\ thr[t].st = "R"
    /\ LET k == PipeState
       IN  PipeBecomes(
              IF The(k, t).writers # 0 \/ thr[t].moved THEN OpenDone(k, t)
              ELSE IF thr[t].sig
              THEN OpenFailed([k EXCEPT !.pipes[On(k, t)].readers = @ - 1], t)
              ELSE SleepOn(k, t, "openr", thr[t].links))

openw_woken(t) ==
    /\ in_kernel = 0 /\ thr[t].pc = "openw" /\ thr[t].st = "R"
    /\ LET k == PipeState
       IN  PipeBecomes(
              IF The(k, t).readers > 0 THEN OpenDone(k, t)
              ELSE IF thr[t].sig
              THEN OpenFailed([k EXCEPT !.pipes[On(k, t)].writers = @ - 1], t)
              ELSE SleepOn(k, t, "openw", thr[t].links))

-----------------------------------------------------------------------------
(* eventfd.  pload says whether it was made with EFD_SEMAPHORE. *)

eventfd_take(k, t) ==
    Leave(WakeUp([k EXCEPT !.event = IF pload = "semaphore" THEN @ - 1 ELSE 0],
                 EventFd, {"e"}), t)
eventfd_add(k, t, v) == Leave(WakeUp([k EXCEPT !.event = @ + v], EventFd, {"e"}), t)

eventfd_read(t, i) ==
    /\ Calls(t) /\ AtFd(t, i) # 0 /\ files[AtFd(t, i)].on = EventFd
    /\ \E k \in {Enter(t, i, "eread", 0)} :
          PipeBecomes(IF event # 0 THEN eventfd_take(k, t)
                      ELSE IF k.files[k.thr[t].f].nb THEN Leave(k, t)
                      ELSE SleepOn(k, t, "eread", {<<EventFd, "e">>}))

eventfd_write(t, i, v) ==
    /\ Calls(t) /\ AtFd(t, i) # 0 /\ files[AtFd(t, i)].on = EventFd
    /\ \E k \in {Enter(t, i, "ewrite", v)} :
          PipeBecomes(IF EV_MAX - event >= v THEN eventfd_add(k, t, v)
                      ELSE IF k.files[k.thr[t].f].nb THEN Leave(k, t)
                      ELSE SleepOn(k, t, "ewrite", {<<EventFd, "e">>}))

eventfd_woken(t) ==
    /\ in_kernel = 0 /\ thr[t].pc \in {"eread", "ewrite"} /\ thr[t].st = "R"
    /\ LET k == PipeState
           v == thr[t].len
       IN  PipeBecomes(
              IF thr[t].pc = "eread" /\ event # 0 THEN eventfd_take(k, t)
              ELSE IF thr[t].pc = "ewrite" /\ EV_MAX - event >= v THEN eventfd_add(k, t, v)
              ELSE IF thr[t].sig THEN Leave(k, t)
              ELSE SleepOn(k, t, thr[t].pc, thr[t].links))

-----------------------------------------------------------------------------
(* poll.  A call asks of each descriptor of fds whether it is readable     *)
(* ("in") or writable ("out"); hang-ups and errors are always reported.    *)

pipe_poll(k, f) ==
    LET q == k.pipes[k.files[f].on]
        m == k.files[f].mode
    IN  {e \in {"in", "hup", "out", "err"} :
            \/ e = "in" /\ "r" \in m /\ Used(q) > 0
            \/ e = "hup" /\ "r" \in m /\ q.writers = 0 /\ q.opened
            \/ e = "out" /\ "w" \in m /\ Space(q) >= PIPE_BUF
            \/ e = "err" /\ "w" \in m /\ q.readers = 0}

eventfd_poll(k) ==
    {e \in {"in", "out"} : (e = "in" /\ k.event > 0) \/ (e = "out" /\ k.event < EV_MAX)}

file_poll(k, f) == IF k.files[f].on = EventFd THEN eventfd_poll(k) ELSE pipe_poll(k, f)

QueuesOf(k, f) ==
    IF k.files[f].on = EventFd THEN {<<EventFd, "e">>}
    ELSE {<<k.files[f].on, q>> : q \in k.files[f].mode}

\* A descriptor of the call that is not open is reported as POLLNVAL.
PollReady(k, t, x) ==
    LET f == k.tabs[ProcOf[t]].fd[x[1]]
    IN  f = 0 \/ file_poll(k, f) \cap {x[2], "hup", "err"} # {}

PollQueues(k, t) == UNION {QueuesOf(k, k.tabs[ProcOf[t]].fd[x[1]]) : x \in k.thr[t].fds}
PollReturn(k, t) == [k EXCEPT !.thr[t] = Idle]

\* A round of do_poll: scan, linking a waiter on each queue, then sleep.
poll_round(k, t) ==
    IF \/ \E x \in k.thr[t].fds : PollReady(k, t, x)
       \/ k.thr[t].sig \/ k.thr[t].timer \in {"zero", "expired"}
    THEN PollReturn(k, t)
    ELSE SleepOn(k, t, "poll", PollQueues(k, t))

sys_ppoll(t, fds, timer) ==
    /\ Calls(t)
    /\ \E k \in {[PipeState EXCEPT !.thr[t].fds = fds, !.thr[t].timer = timer]} :
          PipeBecomes(poll_round(k, t))

poll_woken(t) ==
    /\ in_kernel = 0 /\ thr[t].pc = "poll" /\ thr[t].st = "R"
    /\ PipeBecomes(poll_round(PipeState, t))

poll_timeout(t) ==
    /\ thr[t].pc = "poll" /\ thr[t].timer = "armed"
    /\ thr' = [thr EXCEPT ![t].timer = "expired", ![t].st = "R"]
    /\ UNCHANGED <<files, pipes, fifo, event, tabs, in_kernel>>

-----------------------------------------------------------------------------
(* A signal for a thread that sleeps; the others see it on their way out.  *)

signal_sleeper(t) ==
    /\ in_kernel = 0 /\ thr[t].st = "S" /\ ~thr[t].sig
    /\ thr[t].pc \in {"openr", "openw"} => FifoFails
    /\ thr' = [thr EXCEPT ![t].sig = TRUE, ![t].st = "R"]
    /\ UNCHANGED <<files, pipes, fifo, event, tabs, in_kernel>>

Goes(t) ==
    \/ read_chunk(t) \/ copy_to_user_done(t) \/ read_woken(t)
    \/ write_chunk(t) \/ copy_from_user_done(t) \/ write_woken(t)
    \/ openr_woken(t) \/ openw_woken(t) \/ eventfd_woken(t) \/ poll_woken(t)
    \/ poll_timeout(t) \/ signal_sleeper(t)

PollSets == {s \in SUBSET (FDs \X {"in", "out"}) : Cardinality(s) \in {1, 2}}
Modes == {{"r"}, {"w"}, {"r", "w"}}

IoNext(t) ==
    \E i \in FDs : \/ sys_close(t, i)
                   \/ \E len \in RLens[pload][t] : sys_read(t, i, len)
                   \/ \E len \in WLens[pload][t] : sys_write(t, i, len)

FifoNext(t) ==
    \/ \E i \in FDs : sys_close(t, i)
    \/ \E m \in Modes, nb \in BOOLEAN : (nb => m = {"r"} \/ FifoFails) /\ fifo_open(t, m, nb)

PollNext(t) ==
    IF t \in Pollers
    THEN \E s \in PollSets, timer \in {"none", "zero", "armed"} : sys_ppoll(t, s, timer)
    ELSE IoNext(t) \/ \E i \in FDs : set_nonblock(t, i)

TableNext(t) ==
    \/ fork_files(t) \/ exit_files(t) \/ fdtable_close_on_exec(t)
    \/ \E clo \in BOOLEAN : \/ sys_pipe2(t, clo)
                            \/ \E i, j \in FDs : sys_dup(t, i, j, clo) \/ sys_dup3(t, i, j, clo)
    \/ \E i \in FDs : sys_close(t, i) \/ set_cloexec(t, i)

EventNext(t) ==
    IF t \in Pollers
    THEN \E s \in PollSets, timer \in {"none", "armed"} : sys_ppoll(t, s, timer)
    ELSE \E i \in FDs :
            \/ eventfd_read(t, i) \/ sys_close(t, i) \/ set_nonblock(t, i)
            \/ \E v \in 1..EV_MAX : eventfd_write(t, i, v)

PipeNext ==
    /\ UNCHANGED pload
    /\ \E t \in PThreads :
          \/ Goes(t)
          \/ pload \in {"pipe", "fault"} /\ IoNext(t)
          \/ pload = "fifo" /\ FifoNext(t)
          \/ pload = "poll" /\ PollNext(t)
          \/ pload = "table" /\ TableNext(t)
          \/ pload \in {"event", "semaphore"} /\ EventNext(t)

\* Both processes run, with the same files open: a pipe, or an eventfd.
PipeInit ==
    /\ pload \in PLoads
    /\ fifo = 0 /\ event = 0 /\ in_kernel = 0
    /\ LET fd == CASE pload \in {"pipe", "fault", "poll"} -> [i \in FDs |-> IF i < 2 THEN i + 1 ELSE 0]
                   [] pload \in {"event", "semaphore"} -> [i \in FDs |-> IF i = 0 THEN 1 ELSE 0]
                   [] OTHER -> [i \in FDs |-> 0]
           open == {f \in 1..NFiles : \E i \in FDs : fd[i] = f}
           tables == IF pload = "table" THEN {p \in PProcs : p # Child} ELSE PProcs
       IN  /\ tabs = [p \in PProcs |-> IF p \in tables THEN [fd |-> fd, clo |-> {}, live |-> TRUE]
                                       ELSE NoTable]
           /\ files = [f \in 1..NFiles |->
                 IF f \notin open THEN NoFile
                 ELSE [ref |-> Cardinality(PProcs), nb |-> FALSE,
                       mode |-> IF pload \in {"event", "semaphore"} THEN {"r", "w"}
                                ELSE IF f = 1 THEN {"r"} ELSE {"w"},
                       on |-> IF pload \in {"event", "semaphore"} THEN EventFd ELSE 1]]
           /\ pipes = [p \in 1..NPipes |->
                 IF p = 1 /\ pload \in {"pipe", "fault", "poll"}
                 THEN [NewPipe EXCEPT !.readers = 1, !.writers = 1, !.opened = TRUE]
                 ELSE NoPipe]
           /\ thr = [t \in PThreads |-> IF ProcOf[t] \in tables THEN Idle ELSE Unborn]

-----------------------------------------------------------------------------
(* Properties. *)

OpenFiles == {f \in 1..NFiles : files[f].ref # 0}
EndsOf(p, m) == {f \in OpenFiles : files[f].on = p /\ m \in files[f].mode}

\* Reference counts are exact whatever calls, forks, exits and failed calls
\* came before: a file is counted once for each descriptor and each call in
\* progress (file_get, file_put); the ends of a pipe are the files open on it
\* (fifo_open, pipe_release), it exists exactly as long as it has one, and a
\* waiter is only ever linked on a pipe that still exists.
EndsExact ==
    /\ \A f \in OpenFiles :
          files[f].ref = Cardinality({x \in PProcs \X FDs : tabs[x[1]].fd[x[2]] = f})
                         + Cardinality({t \in PThreads : thr[t].f = f})
    /\ \A p \in PProcs, i \in FDs : tabs[p].fd[i] # 0 => tabs[p].fd[i] \in OpenFiles
    /\ \A p \in 1..NPipes :
          IF \E f \in OpenFiles : files[f].on = p
          THEN /\ pipes[p].readers = Cardinality(EndsOf(p, "r"))
               /\ pipes[p].writers = Cardinality(EndsOf(p, "w"))
          ELSE pipes[p] = NoPipe /\ fifo # p
    /\ \A t \in PThreads, p \in 1..NPipes :
          pipes[p] = NoPipe => ~\E q \in {"r", "w"} : <<p, q>> \in thr[t].links

\* A thread that sleeps while no call is half-way has reason to, in terms of
\* the files that are open and the bytes in the ring: nobody waits to read
\* while there are bytes or no writer is left, to write while there is room for its next atomic part or
\* no reader, to open a FIFO whose other end is open, for an eventfd that
\* would serve it, or in poll for what is already there (the wake-ups of
\* pipe_read, pipe_write, pipe_release, fifo_open, eventfd_read and _write).
PipeSleepersBlocked ==
    in_kernel = 0 /\ (\A t \in PThreads : thr[t].pc \notin {"copyin", "copyout"}) =>
    \A t \in PThreads : thr[t].st = "S" =>
        LET p == files[thr[t].f].on
            q == pipes[p]
        IN  /\ ~thr[t].sig
            /\ CASE thr[t].pc = "rwait" -> Used(q) = 0 /\ EndsOf(p, "w") # {}
                 [] thr[t].pc = "wwait" ->
                        /\ EndsOf(p, "r") # {}
                        /\ Space(q) < Min({thr[t].len - thr[t].done, PIPE_BUF})
                 [] thr[t].pc = "openr" -> EndsOf(p, "w") = {}
                 [] thr[t].pc = "openw" -> EndsOf(p, "r") = {}
                 [] thr[t].pc = "eread" -> event = 0
                 [] thr[t].pc = "ewrite" -> EV_MAX - event < thr[t].len
                 [] thr[t].pc = "poll" ->
                        /\ thr[t].timer # "expired"
                        /\ ~\E x \in thr[t].fds : PollReady(PipeState, t, x)

\* The ring holds what was written and not read: never more than fits, each
\* byte that of a write, and the bytes of a write of at most PIPE_BUF next to
\* each other and in order ("writes <= PIPE_BUF are atomic", pipe_write).
WritesWhole ==
    \A p \in 1..NPipes :
        LET q == pipes[p]
            At(i) == q.ring[(q.tail + i) % PIPE_SIZE]
        IN  /\ Used(q) \in 0..PIPE_SIZE
            /\ \A i \in 0..Used(q) - 1 : At(i) # <<>>
            /\ \A i \in 1..Used(q) - 1 :
                  \/ At(i)[3] > PIPE_BUF /\ At(i - 1)[3] > PIPE_BUF
                  \/ At(i)[2] = 1 /\ At(i - 1)[2] = At(i - 1)[3]
                  \/ At(i)[2] = 1 /\ At(i - 1)[3] > PIPE_BUF
                  \/ At(i)[3] > PIPE_BUF /\ At(i - 1)[2] = At(i - 1)[3]
                  \/ At(i)[1] = At(i - 1)[1] /\ At(i)[2] = At(i - 1)[2] + 1
=============================================================================
