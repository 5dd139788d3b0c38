----------------------------- MODULE StrCliNonb -----------------------------
(***************************************************************************)
(* The echo client with nonblocking I/O,                                   *)
(* src/unixNetV1/nonblock/strclinonb.c: one loop around select moves bytes *)
(* from stdin through the buffer "to" to the socket, and from the socket   *)
(* through "fr" to stdout.  A byte is its position in the input.  The      *)
(* server echoes, and closes after the client's FIN or earlier.            *)
(***************************************************************************)
EXTENDS Integers, Sequences, FiniteSetsExt

CONSTANTS NBytes,       \* bytes on stdin
          MAXLINE,      \* size of each buffer
          SockRoom      \* bytes that the kernel holds in each direction

ASSUME NonbAssumption == NBytes \in Nat /\ MAXLINE \in Nat /\ SockRoom \in Nat

VARIABLES npc,          \* "select", then in order "stdin", "sockin", "stdout", "sockout"; "return", "err_quit"
          ready,        \* descriptors left in rset and wset by select, and by FD_SET after it
          nin,          \* bytes read from stdin
          stdineof,
          tobuf, toiptr, tooptr, frbuf, friptr, froptr,
          c2s, s2c,     \* bytes in the kernel, to and from the server
          fins,         \* number of calls of Shutdown
          srvclosed,    \* the server has closed its end
          out           \* bytes written to stdout

nonbvars == <<npc, ready, nin, stdineof, tobuf, toiptr, tooptr, frbuf, friptr, froptr, c2s, s2c, fins, srvclosed, out>>

NonbInit ==
    /\ npc = "select" /\ ready = {} /\ nin = 0 /\ stdineof = FALSE
    /\ tobuf = [i \in 0..MAXLINE - 1 |-> 0] /\ toiptr = 0 /\ tooptr = 0
    /\ frbuf = [i \in 0..MAXLINE - 1 |-> 0] /\ friptr = 0 /\ froptr = 0
    /\ c2s = <<>> /\ s2c = <<>> /\ fins = 0 /\ srvclosed = FALSE /\ out = <<>>

\* The bytes buf[o], ..., buf[i-1].
Unwritten(buf, o, i) == [k \in 1..i - o |-> buf[o + k - 1]]
\* buf with the bytes of seq from position p on.
Store(buf, p, seq) == [k \in DOMAIN buf |-> IF k \in p..p + Len(seq) - 1 THEN seq[k - p + 1] ELSE buf[k]]

\* What a read may store: &to[MAXLINE] - toiptr, &fr[MAXLINE] - friptr.
space(iptr) == MAXLINE - iptr

\* What the loop asks select to wait for.
wanted ==
    (IF ~stdineof /\ toiptr < MAXLINE THEN {"stdin"} ELSE {})
    \cup (IF friptr < MAXLINE THEN {"sockin"} ELSE {})
    \cup (IF tooptr # toiptr THEN {"sockout"} ELSE {})
    \cup (IF froptr # friptr THEN {"stdout"} ELSE {})

\* The socket is ready when it has data, an end of file or room; the terminal
\* when the user pleases.
Select ==
    /\ npc = "select"
    /\ \E terminal \in SUBSET {"stdin", "stdout"} :
          ready' = wanted \cap (terminal \cup (IF s2c # <<>> \/ srvclosed THEN {"sockin"} ELSE {})
                                         \cup (IF Len(c2s) < SockRoom THEN {"sockout"} ELSE {}))
    /\ ready' # {}
    /\ npc' = "stdin"
    /\ UNCHANGED <<nin, stdineof, tobuf, toiptr, tooptr, frbuf, friptr, froptr, c2s, s2c, fins, srvclosed, out>>

\* read from stdin: some bytes, or end of file.
read_stdin ==
    /\ npc = "stdin" /\ npc' = "sockin"
    /\ \/ /\ "stdin" \notin ready
          /\ UNCHANGED <<ready, nin, stdineof, tobuf, toiptr, fins>>
       \/ /\ "stdin" \in ready /\ nin = NBytes
          /\ stdineof' = TRUE
          /\ fins' = IF tooptr = toiptr THEN fins + 1 ELSE fins
          /\ UNCHANGED <<ready, nin, tobuf, toiptr>>
       \/ /\ "stdin" \in ready
          /\ \E n \in 1..NBytes - nin :
                /\ n <= space(toiptr)
                /\ tobuf' = Store(tobuf, toiptr, [k \in 1..n |-> nin + k])
                /\ toiptr' = toiptr + n
                /\ nin' = nin + n
          /\ ready' = ready \cup {"sockout"}
          /\ UNCHANGED <<stdineof, fins>>
    /\ UNCHANGED <<tooptr, frbuf, friptr, froptr, c2s, s2c, srvclosed, out>>

\* read from the socket: some bytes; or end of file, at which str_cli returns
\* or err_quit is called.
read_socket ==
    /\ npc = "sockin"
    /\ \/ /\ "sockin" \notin ready
          /\ npc' = "stdout"
          /\ UNCHANGED <<ready, frbuf, friptr, s2c>>
       \/ /\ "sockin" \in ready /\ s2c = <<>>
          /\ npc' = IF stdineof THEN "return" ELSE "err_quit"
          /\ UNCHANGED <<ready, frbuf, friptr, s2c>>
       \/ /\ "sockin" \in ready /\ s2c # <<>>
          /\ \E n \in 1..Len(s2c) :
                /\ n <= space(friptr)
                /\ frbuf' = Store(frbuf, friptr, SubSeq(s2c, 1, n))
                /\ friptr' = friptr + n
                /\ s2c' = SubSeq(s2c, n + 1, Len(s2c))
          /\ ready' = ready \cup {"try_stdout"}
          /\ npc' = "stdout"
    /\ UNCHANGED <<nin, stdineof, tobuf, toiptr, tooptr, froptr, c2s, fins, srvclosed, out>>

\* write to stdout: at least a byte when select has reported it; when it is only
\* tried, after a read from the socket, it may fail with EWOULDBLOCK.
write_stdout ==
    /\ npc = "stdout" /\ npc' = "sockout"
    /\ \E n \in 0..friptr - froptr :
          /\ "stdout" \in ready => n > 0
          /\ {"stdout", "try_stdout"} \cap ready = {} => n = 0
          /\ out' = out \o Unwritten(frbuf, froptr, froptr + n)
          /\ froptr' = IF froptr + n = friptr THEN 0 ELSE froptr + n
          /\ friptr' = IF froptr + n = friptr THEN 0 ELSE friptr
    /\ UNCHANGED <<ready, nin, stdineof, tobuf, toiptr, tooptr, frbuf, c2s, s2c, fins, srvclosed>>

\* write to the socket what the kernel has room for; FIN after the last byte.
nwritten == IF "sockout" \in ready THEN Min({toiptr - tooptr, SockRoom - Len(c2s)}) ELSE 0
mut_fin_after_eof == nwritten > 0 /\ stdineof
fin_after_write == nwritten > 0 /\ tooptr + nwritten = toiptr /\ stdineof

write_socket ==
    /\ npc = "sockout" /\ npc' = "select"
    /\ c2s' = c2s \o Unwritten(tobuf, tooptr, tooptr + nwritten)
    /\ IF tooptr + nwritten = toiptr THEN toiptr' = 0 /\ tooptr' = 0
       ELSE tooptr' = tooptr + nwritten /\ UNCHANGED toiptr
    /\ fins' = IF fin_after_write THEN fins + 1 ELSE fins
    /\ UNCHANGED <<ready, nin, stdineof, tobuf, frbuf, friptr, froptr, s2c, srvclosed, out>>

\* The echo server.
server_echoes ==
    /\ ~srvclosed /\ c2s # <<>> /\ Len(s2c) < SockRoom
    /\ s2c' = Append(s2c, Head(c2s)) /\ c2s' = Tail(c2s)
    /\ UNCHANGED <<npc, ready, nin, stdineof, tobuf, toiptr, tooptr, frbuf, friptr, froptr, fins, srvclosed, out>>

server_closes ==
    /\ ~srvclosed /\ fins > 0 /\ c2s = <<>>
    /\ srvclosed' = TRUE
    /\ UNCHANGED <<npc, ready, nin, stdineof, tobuf, toiptr, tooptr, frbuf, friptr, froptr, c2s, s2c, fins, out>>

server_terminates ==
    /\ ~srvclosed
    /\ srvclosed' = TRUE
    /\ UNCHANGED <<npc, ready, nin, stdineof, tobuf, toiptr, tooptr, frbuf, friptr, froptr, c2s, s2c, fins, out>>

str_cli == Select \/ read_stdin \/ read_socket \/ write_stdout \/ write_socket

NonbNext == str_cli \/ server_echoes \/ server_closes \/ server_terminates

NonbSpec == NonbInit /\ [][NonbNext]_nonbvars

-----------------------------------------------------------------------------
NonbTypeOK ==
    /\ npc \in {"select", "stdin", "sockin", "stdout", "sockout", "return", "err_quit"}
    /\ nin \in 0..NBytes /\ fins \in 0..1
    /\ toiptr \in 0..MAXLINE /\ tooptr \in 0..toiptr
    /\ friptr \in 0..MAXLINE /\ froptr \in 0..friptr

\* While the loop runs, every byte read from stdin is in exactly one place, in
\* order: written to stdout, in one of the two buffers between the pointers, or in
\* the kernel.  Resetting or advancing a pointer wrongly would lose, repeat or
\* reorder bytes.
BytesConserved ==
    npc \notin {"return", "err_quit"} =>
    out \o Unwritten(frbuf, froptr, friptr) \o s2c \o c2s \o Unwritten(tobuf, tooptr, toiptr)
      = [k \in 1..nin |-> k]

\* What stands on stdout is the beginning of the input, also after the end: a
\* byte may stay unprinted, and then so does every later one.
OutputIsPrefix == \A k \in 1..Len(out) : out[k] = k

\* str_cli returns at the server's end of file without writing what "fr" still
\* holds.  At that return the bytes of stdin that were never printed are the ones
\* in "fr" and the ones that the server has not echoed, and no others; when the
\* server has echoed everything, only those in "fr".
UnprintedAtReturn ==
    npc = "return" => NBytes - Len(out) = (friptr - froptr) + Len(c2s) + (toiptr - tooptr)

\* The FIN is sent once, after the last byte: at the end of file when "to" is
\* empty, and otherwise by the write that empties it.
FinAfterData == fins > 0 <=> stdineof /\ tooptr = toiptr

\* With a server that lives, str_cli returns once the input is at its end.
StrCliReturns == <>(npc \in {"return", "err_quit"})

NonbFair == /\ WF_nonbvars(str_cli) /\ WF_nonbvars(server_echoes) /\ WF_nonbvars(server_closes)
            /\ SF_nonbvars(Select /\ "stdin" \in ready') /\ SF_nonbvars(Select /\ "stdout" \in ready')
NonbFairSpec == NonbSpec /\ NonbFair

\* str_cli loses, repeats and reorders no byte as long as its loop runs; what it
\* prints is the beginning of the input; a normal return drops what is left in
\* "fr" and nothing else that came back; and the FIN is sent only after the last
\* byte of standard input.
NonbSafe == NonbTypeOK /\ BytesConserved /\ OutputIsPrefix /\ UnprintedAtReturn /\ FinAfterData
=============================================================================
