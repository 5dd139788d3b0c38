------------------------------ MODULE FifoSem ------------------------------
(***************************************************************************)
(* The semaphores of src/unixipc/my_pxsem_fifo: the value is the number of *)
(* bytes in a FIFO.  mysem_open makes the FIFO and writes the initial      *)
(* bytes, mysem_wait reads one, mysem_post writes one, mysem_close closes. *)
(* Here each process opens the semaphore (value FifoValue), uses it as a   *)
(* lock once and closes it.  The kernel keeps the bytes while some process *)
(* has the FIFO open and drops them with the last close.                   *)
(***************************************************************************)
EXTENDS Naturals, FiniteSets

CONSTANTS
    FifoProcs,
    FifoCreators,   \* the processes that pass O_CREAT
    FifoExcl,       \* those that also pass O_EXCL
    FifoValue,      \* the initial value the creators pass
    PIPE_BUF_MAX,   \* bytes a FIFO holds
    FifoMortal      \* the processes that may be killed

ASSUME FifoAssumption ==
    /\ IsFiniteSet(FifoProcs) /\ FifoCreators \subseteq FifoProcs
    /\ FifoValue \in Nat /\ PIPE_BUF_MAX \in Nat /\ FifoValue <= PIPE_BUF_MAX

VARIABLES
    fifo,           \* the FIFO exists under the pathname
    bytes,          \* what is in it
    ocreat,         \* the processes whose oflag still has O_CREAT
    towrite,        \* initial bytes a creator has yet to write
    fpc,            \* where each process is
    losses          \* bytes dropped by the kernel with a last close

fifovars == <<fifo, bytes, ocreat, towrite, fpc, losses>>

FifoSteps == {"start", "open", "init", "wait", "inside", "close", "closed", "failed", "dead"}
Open == {p \in FifoProcs : fpc[p] \in {"init", "wait", "inside", "close"}}

FifoTypeOK ==
    /\ fifo \in BOOLEAN /\ bytes \in 0..PIPE_BUF_MAX /\ losses \in Nat
    /\ ocreat \subseteq FifoCreators
    /\ towrite \in [FifoProcs -> 0..FifoValue]
    /\ fpc \in [FifoProcs -> FifoSteps]
    /\ Open = {} => bytes = 0

FifoInit ==
    /\ fifo = FALSE /\ bytes = 0 /\ ocreat = FifoCreators /\ losses = 0
    /\ towrite = [p \in FifoProcs |-> 0] /\ fpc = [p \in FifoProcs |-> "start"]

fgoto(p, from, to) == fpc[p] = from /\ fpc' = [fpc EXCEPT ![p] = to]

(* Mutant: a process that finds the FIFO there initialises it too.         *)
mut_still_creates(p) == ocreat

(* O_CREAT is cleared when mkfifo says EEXIST.                             *)
still_creates(p) == IF fifo THEN ocreat \ {p} ELSE ocreat

(* mysem_open, mkfifo.                                                     *)
mkfifo(p) ==
    /\ fgoto(p, "start", IF p \in FifoExcl /\ fifo THEN "failed" ELSE "open")
    /\ fifo' = (fifo \/ p \in FifoCreators)
    /\ ocreat' = still_creates(p)
    /\ UNCHANGED <<bytes, towrite, losses>>

(* Both opens and the fcntl calls; without a FIFO: goto error.             *)
open_fifo(p) ==
    /\ fgoto(p, "open", IF ~fifo THEN "failed" ELSE IF p \in ocreat THEN "init" ELSE "wait")
    /\ towrite' = [towrite EXCEPT ![p] = IF p \in ocreat THEN FifoValue ELSE 0]
    /\ UNCHANGED <<fifo, bytes, ocreat, losses>>

(* The loop that writes the initial bytes.  sem_fd[1] is still nonblocking *)
(* and a full FIFO would be an error: unlink.  FifoValue is below that.    *)
write_initial(p) ==
    /\ fpc[p] = "init" /\ towrite[p] > 0 /\ bytes < PIPE_BUF_MAX
    /\ bytes' = bytes + 1 /\ towrite' = [towrite EXCEPT ![p] = @ - 1]
    /\ UNCHANGED <<fifo, ocreat, fpc, losses>>

fifo_opened(p) ==
    /\ towrite[p] = 0 /\ fgoto(p, "init", "wait")
    /\ UNCHANGED <<fifo, bytes, ocreat, towrite, losses>>

(* mysem_wait: a blocking read of one byte.                                *)
fifo_wait(p) ==
    /\ bytes > 0 /\ fgoto(p, "wait", "inside")
    /\ bytes' = bytes - 1
    /\ UNCHANGED <<fifo, ocreat, towrite, losses>>

post(n) == n + 1

fifo_post(p) ==
    /\ fgoto(p, "inside", "close")
    /\ bytes' = post(bytes)
    /\ UNCHANGED <<fifo, ocreat, towrite, losses>>

(* p is the last process that has the FIFO open.                           *)
gone(p) == Open = {p}

(* mysem_close, or the end of a process: its descriptors are closed.       *)
closes(p) ==
    /\ bytes' = IF gone(p) THEN 0 ELSE bytes
    /\ losses' = IF gone(p) THEN losses + bytes ELSE losses

fifo_close(p) ==
    /\ fgoto(p, "close", "closed") /\ closes(p)
    /\ UNCHANGED <<fifo, ocreat, towrite>>

killed_fifo(p) ==
    /\ p \in FifoMortal /\ fpc[p] \in {"open"} \cup {"init", "wait", "inside", "close"}
    /\ fpc' = [fpc EXCEPT ![p] = "dead"]
    /\ IF p \in Open THEN closes(p) ELSE UNCHANGED <<bytes, losses>>
    /\ UNCHANGED <<fifo, ocreat, towrite>>

fifo_step(p) ==
    \/ mkfifo(p) \/ open_fifo(p) \/ write_initial(p) \/ fifo_opened(p)
    \/ fifo_wait(p) \/ fifo_post(p) \/ fifo_close(p)

FifoNext == \E p \in FifoProcs : fifo_step(p) \/ killed_fifo(p)

FifoSpec == FifoInit /\ [][FifoNext]_fifovars

(* Each process takes the lock once: weak fairness is enough for a waiter. *)
FifoFair == \A p \in FifoProcs : WF_fifovars(fifo_step(p))

FifoFairSpec == FifoSpec /\ FifoFair

(* No more processes are inside than the initial value, whoever races to   *)
(* create the FIFO and whoever opens it again after it was emptied.        *)
FifoExclusion == Cardinality({p \in FifoProcs : fpc[p] = "inside"}) <= FifoValue

(* A process that waits gets in, unless somebody was killed, perhaps with  *)
(* the byte, or had emptied the FIFO by a last close before: then it waits *)
(* for a byte nobody will write.                                           *)
WaitersGetIn ==
    \A p \in FifoProcs :
        (fpc[p] = "wait" /\ losses = 0) ~>
            (fpc[p] # "wait" \/ \E q \in FifoProcs : fpc[q] = "dead")

\* The FIFO semaphore never lets in more processes than its value, and holds no
\* more bytes than the FIFO can.
FifoSafe == FifoTypeOK /\ FifoExclusion
=============================================================================
