----------------------------- MODULE ChatServer -----------------------------
(***************************************************************************)
(* The chat server src/mail/serverModel/server.c: a thread that accepts, a *)
(* thread per client that queues what it receives, and the main thread     *)
(* that sends each message to all clients in gClientList.  The main thread *)
(* and every thread that has lost its client walk that list without        *)
(* gClientListMutex.  The next entry read from one that another thread has *)
(* freed is the old one, NULL or, when the memory is in use again, one of  *)
(* the list; or the process ends.  The descriptor read there is nobody's.  *)
(***************************************************************************)
EXTENDS Integers, Sequences, FiniteSets, FiniteSetsExt

CONSTANTS ChatClients,
          MaxMsgs       \* bound: messages of each client

VARIABLES accpc,        \* the client that AcceptConnection has started a thread for and not yet listed, NoNode, or "returned"
          rpc,          \* client -> recvThread: "none", "refused", "recv", "queued", "search", "remove", "close", "free", "ended"
          cfd,          \* client -> its descriptor, clientFd of its entry
          sent,         \* client -> messages received from it
          clientList,   \* gClientList: the clients whose entries it has
          found,        \* client -> "client" of its thread, where TAILQ_FOREACH stands
          unlisted,     \* client -> field.tqe_next of its entry, once it has been taken out
          gMsgQueue, gMainMsgSem,
          mpc,          \* main: "sem_wait", "walk", "crashed"
          msg, cursor,
          early,        \* history: the clients whose thread began its search before they were listed
          misled        \* history: the clients whose thread read a freed entry in its search

chatvars == <<accpc, rpc, cfd, sent, clientList, found, unlisted, gMsgQueue, gMainMsgSem, mpc, msg, cursor, early, misled>>
NoNode == "NULL"

\* The set of clients is finite, and no client is one of the other values of accpc.
ASSUME ChatAssumption ==
    /\ IsFiniteSet(ChatClients) /\ MaxMsgs \in Nat
    /\ NoNode \notin ChatClients /\ "returned" \notin ChatClients

NoMsg == <<NoNode, 0>>

ChatInit ==
    /\ accpc = NoNode /\ rpc = [c \in ChatClients |-> "none"] /\ sent = [c \in ChatClients |-> 0]
    /\ clientList = << >> /\ found = [c \in ChatClients |-> NoNode] /\ cfd = [c \in ChatClients |-> 0]
    /\ unlisted = [c \in ChatClients |-> NoNode]
    /\ gMsgQueue = << >> /\ gMainMsgSem = 0
    /\ mpc = "sem_wait" /\ msg = NoMsg /\ cursor = NoNode /\ early = {} /\ misled = {}

rgoto(c, l) == rpc' = [rpc EXCEPT ![c] = l]

\* The place of an entry in a tail queue, and TAILQ_REMOVE of the entry there.
place_of(q, e) == CHOOSE i \in 1..Len(q) : q[i] = e
unlink(q, i) == SubSeq(q, 1, i - 1) \o SubSeq(q, i + 1, Len(q))

\* TAILQ_NEXT of a listed entry.
next_of(c) == LET i == place_of(clientList, c)
              IN IF i = Len(clientList) THEN NoNode ELSE clientList[i + 1]
\* TAILQ_NEXT of an entry that is listed, or has been taken out and not freed.
next_read(c) == IF c \in Range(clientList) THEN next_of(c) ELSE unlisted[c]

\* The freed entries, and what TAILQ_NEXT of one may be.
freed_entries == {found[c] : c \in {d \in ChatClients : rpc[d] = "ended"}} \ {NoNode}
next_freed(c) == {unlisted[c], NoNode} \cup Range(clientList)

-----------------------------------------------------------------------------
(* AcceptConnection: pthread_create, then the insertion *)

\* The descriptors in use: the kernel hands out the lowest one that is not.
open_fds == {cfd[c] : c \in {d \in ChatClients : rpc[d] \notin {"none", "free", "ended"}}}
lowest_fd == Min(1..Cardinality(ChatClients) \ open_fds)

\* The hello message cannot be sent, pthread_create fails, or the thread starts.
accept_create(c) ==
    /\ mpc # "crashed" /\ accpc = NoNode /\ rpc[c] = "none"
    /\ cfd' = [cfd EXCEPT ![c] = lowest_fd]
    /\ \/ UNCHANGED accpc /\ rgoto(c, "refused")
       \/ accpc' = "returned" /\ rgoto(c, "refused")
       \/ accpc' = c /\ rgoto(c, "recv")
    /\ UNCHANGED <<sent, clientList, found, unlisted, gMsgQueue, gMainMsgSem, mpc, msg, cursor, early, misled>>

accept_insert ==
    /\ mpc # "crashed" /\ accpc \in ChatClients
    /\ clientList' = Append(clientList, accpc) /\ accpc' = NoNode
    /\ UNCHANGED <<rpc, cfd, sent, found, unlisted, gMsgQueue, gMainMsgSem, mpc, msg, cursor, early, misled>>

-----------------------------------------------------------------------------
(* recvThread *)

\* recv returns a message: it is inserted in gMsgQueue.
recv_msg(c) ==
    /\ mpc # "crashed" /\ rpc[c] = "recv" /\ sent[c] < MaxMsgs
    /\ sent' = [sent EXCEPT ![c] = @ + 1]
    /\ gMsgQueue' = Append(gMsgQueue, <<c, sent[c] + 1>>)
    /\ rgoto(c, "queued")
    /\ UNCHANGED <<accpc, cfd, clientList, found, unlisted, gMainMsgSem, mpc, msg, cursor, early, misled>>

mut_posted == gMainMsgSem
posted == gMainMsgSem + 1

post_msg(c) ==
    /\ mpc # "crashed" /\ rpc[c] = "queued"
    /\ gMainMsgSem' = posted
    /\ rgoto(c, "recv")
    /\ UNCHANGED <<accpc, cfd, sent, clientList, found, unlisted, gMsgQueue, mpc, msg, cursor, early, misled>>

\* recv returns 0: the thread looks for its entry, without the mutex, and begins
\* with TAILQ_FIRST.
disconnect(c) ==
    /\ mpc # "crashed" /\ rpc[c] = "recv"
    /\ found' = [found EXCEPT ![c] = IF clientList = << >> THEN NoNode ELSE Head(clientList)]
    /\ early' = IF c = accpc THEN early \cup {c} ELSE early
    /\ rgoto(c, "search")
    /\ UNCHANGED <<accpc, cfd, sent, clientList, unlisted, gMsgQueue, gMainMsgSem, mpc, msg, cursor, misled>>

\* One turn of TAILQ_FOREACH: no entry is left, the entry has the descriptor,
\* it has another one, or it has been freed.
search(c) ==
    /\ mpc # "crashed" /\ rpc[c] = "search"
    /\ \/ found[c] = NoNode /\ rgoto(c, "close") /\ UNCHANGED <<found, misled, mpc>>
       \/ /\ found[c] \in ChatClients \ freed_entries /\ cfd[found[c]] = cfd[c]
          /\ rgoto(c, "remove") /\ UNCHANGED <<found, misled, mpc>>
       \/ /\ found[c] \in ChatClients \ freed_entries /\ cfd[found[c]] # cfd[c]
          /\ found' = [found EXCEPT ![c] = next_read(found[c])] /\ UNCHANGED <<rpc, misled, mpc>>
       \/ /\ found[c] \in freed_entries /\ misled' = misled \cup {c} /\ UNCHANGED rpc
          /\ \/ \E n \in next_freed(found[c]) : found' = [found EXCEPT ![c] = n] /\ UNCHANGED mpc
             \/ mpc' = "crashed" /\ UNCHANGED found
    /\ UNCHANGED <<accpc, cfd, sent, clientList, unlisted, gMsgQueue, gMainMsgSem, msg, cursor, early>>

\* TAILQ_REMOVE, under the mutex.
remove_client(c) ==
    /\ mpc # "crashed" /\ rpc[c] = "remove"
    /\ unlisted' = [unlisted EXCEPT ![found[c]] = next_of(found[c])]
    /\ clientList' = unlink(clientList, place_of(clientList, found[c]))
    /\ rgoto(c, "close")
    /\ UNCHANGED <<accpc, cfd, sent, found, gMsgQueue, gMainMsgSem, mpc, msg, cursor, early, misled>>

\* close(thArg->client_fd), then free(client).
close_client(c) ==
    /\ mpc # "crashed"
    /\ \/ rpc[c] = "close" /\ rgoto(c, "free")
       \/ rpc[c] = "free" /\ rgoto(c, "ended")
    /\ UNCHANGED <<accpc, cfd, sent, clientList, found, unlisted, gMsgQueue, gMainMsgSem, mpc, msg, cursor, early, misled>>

-----------------------------------------------------------------------------
(* main *)

main_wait ==
    /\ mpc = "sem_wait" /\ gMainMsgSem > 0
    /\ gMainMsgSem' = gMainMsgSem - 1
    /\ IF gMsgQueue = << >> THEN mpc' = "crashed" /\ UNCHANGED <<msg, cursor>>   \* TAILQ_FIRST is NULL
       ELSE /\ msg' = Head(gMsgQueue)
            /\ cursor' = IF clientList = << >> THEN NoNode ELSE Head(clientList)
            /\ mpc' = "walk"
    /\ UNCHANGED <<accpc, rpc, cfd, sent, clientList, found, unlisted, gMsgQueue, early, misled>>

mut_after_failure == cursor
after_failure == NoNode

\* send to one entry.  To a closed descriptor it fails and ends the loop.
main_send ==
    /\ mpc = "walk" /\ cursor # NoNode
    /\ IF cursor \in freed_entries
       THEN \/ cursor' \in next_freed(cursor) /\ mpc' = "walk"
            \/ mpc' = "crashed" /\ UNCHANGED cursor
       ELSE /\ cursor' = IF cfd[cursor] \notin open_fds THEN after_failure ELSE next_read(cursor)
            /\ mpc' = "walk"
    /\ UNCHANGED <<accpc, rpc, cfd, sent, clientList, found, unlisted, gMsgQueue, gMainMsgSem, msg, early, misled>>

main_remove ==
    /\ mpc = "walk" /\ cursor = NoNode
    /\ gMsgQueue' = unlink(gMsgQueue, place_of(gMsgQueue, msg))
    /\ mpc' = "sem_wait" /\ msg' = NoMsg
    /\ UNCHANGED <<accpc, rpc, cfd, sent, clientList, found, unlisted, gMainMsgSem, cursor, early, misled>>

chat_main == main_wait \/ main_send \/ main_remove
recvThread(c) == post_msg(c) \/ search(c) \/ remove_client(c) \/ close_client(c)

ChatNext == chat_main \/ accept_insert
            \/ \E c \in ChatClients : accept_create(c) \/ recv_msg(c) \/ disconnect(c) \/ recvThread(c)

ChatSpec == ChatInit /\ [][ChatNext]_chatvars

-----------------------------------------------------------------------------
Posting == Cardinality({c \in ChatClients : rpc[c] = "queued"})

ChatTypeOK ==
    /\ rpc \in [ChatClients -> {"none", "refused", "recv", "queued", "search", "remove", "close", "free", "ended"}]
    /\ Range(clientList) \subseteq ChatClients /\ accpc \in ChatClients \cup {NoNode, "returned"}
    /\ gMainMsgSem \in 0..Len(gMsgQueue)
    /\ mpc \in {"sem_wait", "walk", "crashed"}

\* The semaphore counts the queued messages: each but those whose thread has yet
\* to post and the one main is sending.  So TAILQ_FIRST, read without the mutex,
\* is never NULL after sem_wait, and msg is still the first when it is removed.
SemCountsQueue ==
    mpc # "crashed" =>
      /\ Len(gMsgQueue) = gMainMsgSem + Posting + (IF mpc = "walk" THEN 1 ELSE 0)
      /\ mpc = "walk" => msg = Head(gMsgQueue)

\* A thread takes out only an entry that is in the list: never one that another
\* thread has taken out, although nothing keeps the entry it found there between
\* its unlocked walk and its TAILQ_REMOVE.
RemovesListed == \A c \in ChatClients : rpc[c] = "remove" => found[c] \in Range(clientList)

Stale == {c \in Range(clientList) : rpc[c] \in {"close", "free", "ended"}}

\* An entry stays in the list after its thread has given up the search only
\* because some thread searched before AcceptConnection listed its client, or read
\* an entry freed under it: there are no more such entries than such threads,
\* although descriptors are used again and a thread then removes the entry of
\* another.
StaleOnlyMissed == Cardinality(Stale) <= Cardinality(early \cup misled)

\* Every message received is sent on and removed, unless the process ends.
MessagesHandled == [](gMsgQueue # << >> => <>(mpc = "crashed" \/ gMsgQueue = << >>))

ChatFair == WF_chatvars(chat_main) /\ WF_chatvars(accept_insert) /\ \A c \in ChatClients : WF_chatvars(recvThread(c))
ChatFairSpec == ChatSpec /\ ChatFair

\* gMainMsgSem counts the queued messages, no entry of the client list is taken
\* out twice, and one outlives its thread only for a thread that searched too early
\* or read freed memory.
ChatSafe == ChatTypeOK /\ SemCountsQueue /\ RemovesListed /\ StaleOnlyMissed
=============================================================================
