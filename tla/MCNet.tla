------------------------------- MODULE MCNet -------------------------------
(***************************************************************************)
(* The programs of src/unixNetV1, each with its small instance.  They do   *)
(* not interact: scenario chooses the program a behaviour is about, and    *)
(* the variables of the others keep their initial values.                  *)
(***************************************************************************)
EXTENDS Rtt, Sigio, Bcast, WebThreads, StrCliNonb, Serv05, AcceptPool, Serv08

VARIABLE scenario

Scenarios == {"rtt", "sigio", "bcast", "web", "nonblock", "serv05", "pool", "serv08"}

netvars == <<rttvars, sigiovars, bcastvars, webvars, nonbvars, serv05vars, poolvars, serv08vars, scenario>>

(* A program that is not chosen has one initial state. *)
NetInit ==
    /\ scenario \in Scenarios
    /\ RttInit /\ SigioInit /\ NonbInit /\ Serv05Init /\ Serv08Init
    /\ BcastInit /\ (scenario = "bcast" \/ bver = "1")
    /\ WebInit /\ (scenario = "web" \/ wver = "web01")
    /\ PoolInit /\ (scenario = "pool" \/ server = "serv02")

Only(name) == scenario = name /\ UNCHANGED scenario

NetNext ==
    \/ /\ Only("rtt") /\ RttNext
       /\ UNCHANGED <<sigiovars, bcastvars, webvars, nonbvars, serv05vars, poolvars, serv08vars>>
    \/ /\ Only("sigio") /\ SigioNext
       /\ UNCHANGED <<rttvars, bcastvars, webvars, nonbvars, serv05vars, poolvars, serv08vars>>
    \/ /\ Only("bcast") /\ BcastNext
       /\ UNCHANGED <<rttvars, sigiovars, webvars, nonbvars, serv05vars, poolvars, serv08vars>>
    \/ /\ Only("web") /\ WebNext
       /\ UNCHANGED <<rttvars, sigiovars, bcastvars, nonbvars, serv05vars, poolvars, serv08vars>>
    \/ /\ Only("nonblock") /\ NonbNext
       /\ UNCHANGED <<rttvars, sigiovars, bcastvars, webvars, serv05vars, poolvars, serv08vars>>
    \/ /\ Only("serv05") /\ Serv05Next
       /\ UNCHANGED <<rttvars, sigiovars, bcastvars, webvars, nonbvars, poolvars, serv08vars>>
    \/ /\ Only("pool") /\ PoolNext
       /\ UNCHANGED <<rttvars, sigiovars, bcastvars, webvars, nonbvars, serv05vars, serv08vars>>
    \/ /\ Only("serv08") /\ Serv08Next
       /\ UNCHANGED <<rttvars, sigiovars, bcastvars, webvars, nonbvars, serv05vars, poolvars>>

NetSpec == NetInit /\ [][NetNext]_netvars

-----------------------------------------------------------------------------
(* The liveness of each program under its own fairness.                    *)

(* ClientEnds of Rtt: dg_send_recv answers or gives up.                    *)
FairClientEnds == scenario = "rtt" /\ RttFair => ClientEnds

(* AllEchoed of Sigio: every datagram that arrives is echoed.              *)
FairAllEchoed == scenario = "sigio" /\ SigioFair => AllEchoed

(* SoundClientsEnd of Bcast: the clients without the race end.             *)
FairSoundClientsEnd == scenario = "bcast" /\ BcastFair => SoundClientsEnd

(* WebEndsOrStuck of WebThreads: the programs end, or wait in the known    *)
(* way.                                                                    *)
FairWebEndsOrStuck == scenario = "web" /\ WebFair => WebEndsOrStuck

(* StrCliReturns of StrCliNonb: str_cli returns.                           *)
FairStrCliReturns == scenario = "nonblock" /\ NonbFair => StrCliReturns

(* Serv05Handles of Serv05: every accepted client is handled.              *)
FairServ05Handles == scenario = "serv05" /\ Serv05Fair => Serv05Handles

(* DeathNoticed of Serv05: the parent ends when a child dies.              *)
FairDeathNoticed == scenario = "serv05" /\ Serv05Fair => DeathNoticed

(* AllAccepted of AcceptPool: a worker accepts every connection.           *)
FairAllAccepted == scenario = "pool" /\ PoolFair => AllAccepted

(* Serv08Serves of Serv08: every connection in the ring is served.         *)
FairServ08Serves == scenario = "serv08" /\ Serv08Fair => Serv08Serves

(* Every client ends: answered, out of tries or out of input, but for the  *)
(* two states in which web02.c and web03.c are stuck.                      *)
FairClientsEnd == FairClientEnds /\ FairSoundClientsEnd /\ FairWebEndsOrStuck /\ FairStrCliReturns

(* Every datagram or connection that reaches a server is served, as long   *)
(* as the server has not ended and has a worker that can.                  *)
FairServersServe ==
    FairAllEchoed /\ FairServ05Handles /\ FairDeathNoticed /\ FairAllAccepted /\ FairServ08Serves

=============================================================================
