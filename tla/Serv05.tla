------------------------------- MODULE Serv05 -------------------------------
(***************************************************************************)
(* The preforked server that accepts in the parent and passes descriptors: *)
(* src/unixNetV1/server/serv05.c and child05.c.  The parent selects on the *)
(* listening socket, unless no child is available, and on one stream pipe  *)
(* per child; a connected descriptor goes down the pipe, and the child     *)
(* writes one byte up when it has handled it.  A child may die at any      *)
(* time: its pipe then reads as end of file, and writing to it raises      *)
(* SIGPIPE, which serv05.c does not catch.                                 *)
(***************************************************************************)
EXTENDS Integers, FiniteSets, FiniteSetsExt

CONSTANTS nchildren,
          MaxClients,   \* bound: connections made by clients
          MaxDeaths     \* bound: children that die on their own

ASSUME ChildrenAssumption == nchildren \in Nat

VARIABLES p5pc,         \* the parent: "select", "accept", "scan", "exit", "noavail", "childdied", "sigpipe"
          navail, child_status,
          rset,         \* the descriptors select returned: 0 the listening socket, c the pipe of child c
          nsel,
          nexti,        \* index of the scan over the children
          child5,       \* child -> "read_fd", "web_child", "dead"
          fddown,       \* child -> descriptors in its pipe
          byteup,       \* child -> bytes it has written that the parent has not read
          clients,      \* connections made so far
          accepted5, handled5

serv05vars == <<p5pc, navail, child_status, rset, nsel, nexti, child5, fddown, byteup, clients, accepted5, handled5>>

Children5 == 1..nchildren
listenfd == 0
ParentEnded == p5pc \in {"exit", "noavail", "childdied", "sigpipe"}

Serv05Init ==
    /\ p5pc = "select" /\ navail = nchildren
    /\ child_status = [c \in Children5 |-> 0]
    /\ rset = {} /\ nsel = 0 /\ nexti = 1
    /\ child5 = [c \in Children5 |-> "read_fd"]
    /\ fddown = [c \in Children5 |-> 0] /\ byteup = [c \in Children5 |-> 0]
    /\ clients = 0 /\ accepted5 = 0 /\ handled5 = 0

-----------------------------------------------------------------------------
(* The parent *)

\* One byte to read, or end of file.
pipe_ready(c) == byteup[c] > 0 \/ child5[c] = "dead"

mut_select_set == {listenfd} \cup Children5
select_set == (IF navail <= 0 THEN {} ELSE {listenfd}) \cup Children5

Select5 ==
    /\ p5pc = "select"
    /\ LET ready == {d \in select_set : IF d = listenfd THEN clients > accepted5 ELSE pipe_ready(d)}
       IN /\ ready # {}
          /\ rset' = ready /\ nsel' = Cardinality(ready)
          /\ p5pc' = IF listenfd \in ready THEN "accept" ELSE "scan"
    /\ nexti' = 1
    /\ UNCHANGED <<navail, child_status, child5, fddown, byteup, clients, accepted5, handled5>>

\* Accept, choose the first available child, Write_fd.
accept_pass ==
    /\ p5pc = "accept"
    /\ accepted5' = accepted5 + 1
    /\ LET avail == {c \in Children5 : child_status[c] = 0}
           i == Min(avail)
       IN IF avail = {}
          THEN p5pc' = "noavail" /\ UNCHANGED <<navail, child_status, fddown, nsel>>
          ELSE /\ child_status' = [child_status EXCEPT ![i] = 1]
               /\ navail' = navail - 1
               /\ nsel' = nsel - 1
               /\ IF child5[i] = "dead"
                  THEN p5pc' = "sigpipe" /\ UNCHANGED fddown
                  ELSE /\ fddown' = [fddown EXCEPT ![i] = @ + 1]
                       /\ p5pc' = IF nsel = 1 THEN "select" ELSE "scan"
    /\ UNCHANGED <<rset, nexti, child5, byteup, clients, handled5>>

\* One turn of the loop that finds newly available children.
find_available ==
    /\ p5pc = "scan"
    /\ IF nexti \notin rset THEN UNCHANGED <<p5pc, navail, child_status, nsel, byteup>>
       ELSE IF byteup[nexti] = 0 THEN p5pc' = "childdied" /\ UNCHANGED <<navail, child_status, nsel, byteup>>
       ELSE /\ byteup' = [byteup EXCEPT ![nexti] = @ - 1]
            /\ child_status' = [child_status EXCEPT ![nexti] = 0]
            /\ navail' = navail + 1
            /\ nsel' = nsel - 1
            /\ p5pc' = IF nsel = 1 THEN "select" ELSE "scan"
    /\ nexti' = nexti + 1
    /\ UNCHANGED <<rset, child5, fddown, clients, accepted5, handled5>>

\* The handler kills and reaps every child and exits.
sig_int5 ==
    /\ ~ParentEnded
    /\ p5pc' = "exit" /\ child5' = [c \in Children5 |-> "dead"]
    /\ UNCHANGED <<navail, child_status, rset, nsel, nexti, fddown, byteup, clients, accepted5, handled5>>

-----------------------------------------------------------------------------
(* The children and the clients *)

Read_fd(c) ==
    /\ child5[c] = "read_fd" /\ fddown[c] > 0
    /\ fddown' = [fddown EXCEPT ![c] = @ - 1]
    /\ child5' = [child5 EXCEPT ![c] = "web_child"]
    /\ UNCHANGED <<p5pc, navail, child_status, rset, nsel, nexti, byteup, clients, accepted5, handled5>>

\* Nobody holds the other end of the pipe of c: the parent has gone, and so
\* have the children made after c, which inherited the parent's end.
pipe_closed(c) == ParentEnded /\ \A d \in Children5 : d > c => child5[d] = "dead"

\* read_fd returns 0.
Read_fd_eof(c) ==
    /\ child5[c] = "read_fd" /\ fddown[c] = 0 /\ pipe_closed(c)
    /\ child5' = [child5 EXCEPT ![c] = "dead"]
    /\ UNCHANGED <<p5pc, navail, child_status, rset, nsel, nexti, fddown, byteup, clients, accepted5, handled5>>

\* "tell parent we're ready again"
tell_parent(c) == [byteup EXCEPT ![c] = @ + 1]

\* web_child returns; Close, Write of one byte.
web_child_done(c) ==
    /\ child5[c] = "web_child"
    /\ handled5' = handled5 + 1
    /\ IF pipe_closed(c)
       THEN child5' = [child5 EXCEPT ![c] = "dead"] /\ UNCHANGED byteup     \* SIGPIPE
       ELSE child5' = [child5 EXCEPT ![c] = "read_fd"] /\ byteup' = tell_parent(c)
    /\ UNCHANGED <<p5pc, navail, child_status, rset, nsel, nexti, fddown, clients, accepted5>>

child_dies(c) ==
    /\ child5[c] # "dead" /\ ~ParentEnded
    /\ Cardinality({d \in Children5 : child5[d] = "dead"}) < MaxDeaths
    /\ child5' = [child5 EXCEPT ![c] = "dead"]
    /\ UNCHANGED <<p5pc, navail, child_status, rset, nsel, nexti, fddown, byteup, clients, accepted5, handled5>>

client_connects ==
    /\ clients < MaxClients /\ ~ParentEnded
    /\ clients' = clients + 1
    /\ UNCHANGED <<p5pc, navail, child_status, rset, nsel, nexti, child5, fddown, byteup, accepted5, handled5>>

parent5 == Select5 \/ accept_pass \/ find_available
child_main5(c) == Read_fd(c) \/ Read_fd_eof(c) \/ web_child_done(c)

Serv05Next == parent5 \/ sig_int5 \/ client_connects \/ \E c \in Children5 : child_main5(c) \/ child_dies(c)

Serv05Spec == Serv05Init /\ [][Serv05Next]_serv05vars

-----------------------------------------------------------------------------
Serv05TypeOK ==
    /\ p5pc \in {"select", "accept", "scan", "exit", "noavail", "childdied", "sigpipe"}
    /\ navail \in 0..nchildren /\ child_status \in [Children5 -> 0..1]
    /\ rset \subseteq 0..nchildren /\ nsel \in 0..nchildren + 1 /\ nexti \in 1..nchildren + 1
    /\ child5 \in [Children5 -> {"read_fd", "web_child", "dead"}]
    /\ fddown \in [Children5 -> 0..1] /\ byteup \in [Children5 -> 0..1]

\* A child that the parent calls available waits with nothing in its pipe, a
\* child called busy has the one connection in its pipe or in hand, or has just
\* reported the end of it: no connection is given to a child that has not
\* finished, whatever order select reports the pipes in.
AvailableIsIdle ==
    \A c \in Children5 : child5[c] # "dead" =>
        fddown[c] + byteup[c] + (IF child5[c] = "web_child" THEN 1 ELSE 0) = child_status[c]

\* The parent never ends with "no available children": navail and the statuses
\* agree, and the listening socket is left out of select when navail is 0.
NeverOutOfChildren == p5pc # "noavail"

\* Every connection made is handled, unless the server ends.
Serv05Handles == \A n \in 1..MaxClients : clients = n ~> (handled5 >= n \/ ParentEnded)

\* When a child dies the parent ends, by err_quit or by SIGPIPE: it does not go
\* on with a child that will never become available again.
DeathNoticed == (\E c \in Children5 : child5[c] = "dead") ~> ParentEnded

Serv05Fair == WF_serv05vars(parent5) /\ \A c \in Children5 : WF_serv05vars(child_main5(c))
Serv05FairSpec == Serv05Spec /\ Serv05Fair

\* A child that serv05.c takes for available is idle, or dead and unnoticed, and
\* there is one whenever a connection is accepted.
Serv05Safe == Serv05TypeOK /\ AvailableIsIdle /\ NeverOutOfChildren
=============================================================================
