------------------------------ MODULE ShmRing -------------------------------
(***************************************************************************)
(* Messages through Posix shared memory: src/unixipc/pxshm/client2.c and   *)
(* server2.c.  A client reserves a slot with the mutex held, and copies    *)
(* its message into the slot after it has released the mutex; a client     *)
(* that finds the ring full counts an overflow and drops the message.      *)
(* What is done between the wait and the post of a mutex is one step.      *)
(***************************************************************************)
EXTENDS Integers, Sequences, FiniteSets

CONSTANTS ShmClients,
          NMESG,        \* slots (16 in the code)
          ShmLoops      \* nloop of each client

ASSUME ShmAssumption == IsFiniteSet(ShmClients) /\ NMESG \in Nat \ {0} /\ ShmLoops \in Nat

VARIABLES shmsem,       \* [nempty, nstored]: the semaphores that count slots
          msgdata,      \* slot -> <<client, message>>
          nput, sindex,
          noverflow,
          kpc,          \* client -> "trywait", "overflow", "mutex", "copy", "stored", "exit"
          ki,           \* client -> its loop variable
          koff,         \* client -> the slot it has reserved
          spc,          \* server: "nstored", "mutex", "empty"
          printed,      \* what the server has printed
          raced         \* the server has read a slot whose client had not copied yet

shmvars == <<shmsem, msgdata, nput, sindex, noverflow, kpc, ki, koff, spc, printed, raced>>

ShmSlots == 0..NMESG - 1
NoMesg == <<"none", 0>>

ShmInit ==
    /\ shmsem = [nempty |-> NMESG, nstored |-> 0]
    /\ msgdata = [s \in ShmSlots |-> NoMesg] /\ nput = 0 /\ sindex = 0 /\ noverflow = 0
    /\ kpc = [k \in ShmClients |-> "trywait"] /\ ki = [k \in ShmClients |-> 0]
    /\ koff = [k \in ShmClients |-> 0]
    /\ spc = "nstored" /\ printed = << >> /\ raced = FALSE

P(s) == shmsem[s] > 0 /\ shmsem' = [shmsem EXCEPT ![s] = @ - 1]
V(s) == shmsem' = [shmsem EXCEPT ![s] = @ + 1]
circular(s) == IF s + 1 >= NMESG THEN 0 ELSE s + 1

kgoto(k, l) == kpc' = [kpc EXCEPT ![k] = l]
next_loop(k) == ki' = [ki EXCEPT ![k] = @ + 1]

-----------------------------------------------------------------------------
(* client2.c *)

sem_trywait(k) ==
    /\ kpc[k] = "trywait"
    /\ IF ki[k] = ShmLoops THEN kgoto(k, "exit") /\ UNCHANGED shmsem
       ELSE IF shmsem.nempty > 0 THEN kgoto(k, "mutex") /\ P("nempty")
       ELSE kgoto(k, "overflow") /\ UNCHANGED shmsem
    /\ UNCHANGED <<msgdata, nput, sindex, noverflow, ki, koff, spc, printed, raced>>

one_overflow == noverflow + 1

\* noverflow++ between the wait and the post of noverflowmutex.
count_overflow(k) ==
    /\ kpc[k] = "overflow"
    /\ noverflow' = one_overflow
    /\ next_loop(k) /\ kgoto(k, "trywait")
    /\ UNCHANGED <<shmsem, msgdata, nput, sindex, koff, spc, printed, raced>>

\* The slot is taken and nput advanced between the wait and the post of mutex.
mut_reserve(k) ==
    /\ kpc[k] = "mutex"
    /\ koff' = [koff EXCEPT ![k] = nput] /\ UNCHANGED nput
    /\ kgoto(k, "copy")
    /\ UNCHANGED <<shmsem, msgdata, sindex, noverflow, ki, spc, printed, raced>>
reserve(k) ==
    /\ kpc[k] = "mutex"
    /\ koff' = [koff EXCEPT ![k] = nput] /\ nput' = circular(nput)
    /\ kgoto(k, "copy")
    /\ UNCHANGED <<shmsem, msgdata, sindex, noverflow, ki, spc, printed, raced>>

copy_mesg(k) ==
    /\ kpc[k] = "copy"
    /\ msgdata' = [msgdata EXCEPT ![koff[k]] = <<k, ki[k]>>]
    /\ kgoto(k, "stored")
    /\ UNCHANGED <<shmsem, nput, sindex, noverflow, ki, koff, spc, printed, raced>>

post_stored(k) ==
    /\ kpc[k] = "stored"
    /\ V("nstored")
    /\ next_loop(k) /\ kgoto(k, "trywait")
    /\ UNCHANGED <<msgdata, nput, sindex, noverflow, koff, spc, printed, raced>>

-----------------------------------------------------------------------------
(* server2.c *)

Sem_wait_nstored ==
    /\ spc = "nstored" /\ P("nstored") /\ spc' = "mutex"
    /\ UNCHANGED <<msgdata, nput, sindex, noverflow, kpc, ki, koff, printed, raced>>

\* The message is printed between the wait and the post of mutex.
print_mesg ==
    /\ spc = "mutex"
    /\ printed' = Append(printed, msgdata[sindex])
    /\ raced' = (raced \/ \E k \in ShmClients : kpc[k] = "copy" /\ koff[k] = sindex)
    /\ sindex' = circular(sindex)
    /\ spc' = "empty"
    /\ UNCHANGED <<shmsem, msgdata, nput, noverflow, kpc, ki, koff>>

\* Sem_post(nempty), and the look at noverflow, which changes nothing shared.
Sem_post_nempty ==
    /\ spc = "empty" /\ V("nempty") /\ spc' = "nstored"
    /\ UNCHANGED <<msgdata, nput, sindex, noverflow, kpc, ki, koff, printed, raced>>

shm_client(k) == sem_trywait(k) \/ count_overflow(k) \/ reserve(k) \/ copy_mesg(k) \/ post_stored(k)
shm_server == Sem_wait_nstored \/ print_mesg \/ Sem_post_nempty
ShmNext == shm_server \/ \E k \in ShmClients : shm_client(k)
ShmSpec == ShmInit /\ [][ShmNext]_shmvars

-----------------------------------------------------------------------------
Reserved == Cardinality({k \in ShmClients : kpc[k] \in {"mutex", "copy", "stored"}})

ShmTypeOK ==
    /\ nput \in ShmSlots /\ sindex \in ShmSlots
    /\ shmsem.nempty \in 0..NMESG /\ shmsem.nstored \in 0..NMESG
    /\ kpc \in [ShmClients -> {"trywait", "overflow", "mutex", "copy", "stored", "exit"}]
    /\ spc \in {"nstored", "mutex", "empty"}

\* Every slot is empty, reserved by a client, stored, or with the server.
SlotsAccounted ==
    shmsem.nempty + shmsem.nstored + Reserved + (IF spc = "nstored" THEN 0 ELSE 1) = NMESG

\* The server prints each message once, and those of a client in order, unless
\* it has read a slot between its reservation and its copy: a client that was
\* overtaken by another, whose post the server took for its own.
PrintedOnce ==
    raced \/ \A a, b \in DOMAIN printed :
                 a < b /\ printed[a][1] = printed[b][1] => printed[a][2] < printed[b][2]

\* In the end every message was printed, a raced one perhaps as another's, or
\* counted as an overflow: clients that find the ring full lose no count.
AllCounted == <>(Len(printed) + noverflow = Cardinality(ShmClients) * ShmLoops)

ShmFair == WF_shmvars(shm_server) /\ \A k \in ShmClients : WF_shmvars(shm_client(k))
ShmFairSpec == ShmSpec /\ ShmFair

\* Every slot of the ring of src/unixipc/pxshm is free, reserved, stored or
\* being printed, and each message is printed once and in order unless the
\* server overtook the copy of a client.
ShmSafe == ShmTypeOK /\ SlotsAccounted /\ PrintedOnce
=============================================================================
