-------------------------------- MODULE Rio --------------------------------
(***************************************************************************)
(* The robust I/O functions of webserver/common.c on the two ends of a     *)
(* connection.                                                             *)
(*                                                                         *)
(* The kernel takes and gives any number of bytes at a time, as far as its *)
(* buffer goes; rio_write goes on until all is written, rio_readb fetches  *)
(* into a buffer of its own, and rio_readlineb takes byte after byte from  *)
(* there.  A call that a signal interrupts is made again: nothing changes. *)
(***************************************************************************)
EXTENDS Integers, Sequences

CONSTANTS
    Bytes,         \* the bytes of a stream
    LF,            \* the one that ends a line
    Capacity,      \* bytes the kernel holds for one direction
    RIO_BUFSIZE,   \* bytes rio_readb fetches at most
    MaxLine        \* MAXLINE and MAXBUF

ASSUME RioAssumption ==
    /\ LF \in Bytes
    /\ Capacity \in Nat \ {0}
    /\ RIO_BUFSIZE \in Nat \ {0}
    /\ MaxLine \in Nat \ {0}

Ends == {"client", "server"}

Peer(e) == IF e = "client" THEN "server" ELSE "client"

VARIABLES
    out,    \* out[e]: what rio_write of e has still to write
    chan,   \* chan[e]: bytes in the kernel, on their way to e
    rbuf,   \* rbuf[e]: the rio_cnt unread bytes of e's buffer
    line,   \* line[e]: usrbuf of rio_readlineb, up to bufp
    shut,   \* shut[e]: e has closed its descriptor
    sent,   \* history: all that was given to rio_write towards e
    got     \* history: all that rio_readlineb of e took

rio == <<out, chan, rbuf, line, shut, sent, got>>

\* A connection on which the client has written s already.
RioInit(s) ==
    /\ out = [e \in Ends |-> IF e = "client" THEN s ELSE <<>>]
    /\ chan = [e \in Ends |-> <<>>]
    /\ rbuf = [e \in Ends |-> <<>>]
    /\ line = [e \in Ends |-> <<>>]
    /\ shut = [e \in Ends |-> FALSE]
    /\ sent = [e \in Ends |-> IF e = "server" THEN s ELSE <<>>]
    /\ got = [e \in Ends |-> <<>>]

\* The first k elements of s, and the rest.
Taken(s, k) == SubSeq(s, 1, k)
Rest(s, k) == SubSeq(s, k + 1, Len(s))

\* Rio_write is called.
Give(e, s) ==
    /\ out[e] = <<>>
    /\ out' = [out EXCEPT ![e] = s]
    /\ sent' = [sent EXCEPT ![Peer(e)] = @ \o s]
    /\ UNCHANGED <<chan, rbuf, line, shut, got>>

\* write() takes k bytes; what remains after it is written by the next.
AfterWrite_fault(s, k) == Rest(s, k + 1)
AfterWrite(s, k) == Rest(s, k)

Write(e) ==
    /\ ~shut[e] /\ ~shut[Peer(e)]
    /\ \E k \in 1 .. Len(out[e]) :
          /\ Len(chan[Peer(e)]) + k <= Capacity
          /\ chan' = [chan EXCEPT ![Peer(e)] = @ \o Taken(out[e], k)]
          /\ out' = [out EXCEPT ![e] = AfterWrite(@, k)]
    /\ UNCHANGED <<rbuf, line, shut, sent, got>>

\* read() into the empty buffer.
Refill(e) ==
    /\ ~shut[e]
    /\ rbuf[e] = <<>>
    /\ \E k \in 1 .. Len(chan[e]) :
          /\ k <= RIO_BUFSIZE
          /\ rbuf' = [rbuf EXCEPT ![e] = Taken(chan[e], k)]
          /\ chan' = [chan EXCEPT ![e] = Rest(@, k)]
    /\ UNCHANGED <<out, line, shut, sent, got>>

\* rio_readlineb returns: a line, as much as fits, or all there was.
Full_fault(e) == line[e] # <<>> /\ line[e][Len(line[e])] = LF
Full(e) == line[e] # <<>> /\ (line[e][Len(line[e])] = LF \/ Len(line[e]) = MaxLine)
Eof_fault(e) == ~Full(e) /\ rbuf[e] = <<>> /\ chan[e] = <<>>
Eof(e) == ~Full(e) /\ rbuf[e] = <<>> /\ chan[e] = <<>> /\ shut[Peer(e)]
Returned(e) == Full(e) \/ Eof(e)

TakeByte(e) ==
    /\ ~shut[e]
    /\ ~Full(e)
    /\ rbuf[e] # <<>>
    /\ line' = [line EXCEPT ![e] = Append(@, Head(rbuf[e]))]
    /\ got' = [got EXCEPT ![e] = Append(@, Head(rbuf[e]))]
    /\ rbuf' = [rbuf EXCEPT ![e] = Tail(@)]
    /\ UNCHANGED <<out, chan, shut, sent>>

\* The caller is done with the line.
NextLine(e) ==
    /\ line' = [line EXCEPT ![e] = <<>>]
    /\ UNCHANGED <<out, chan, rbuf, shut, sent, got>>

Close(e) ==
    /\ shut' = [shut EXCEPT ![e] = TRUE]
    /\ UNCHANGED <<out, chan, rbuf, line, sent, got>>

Transport(e) == Write(e) \/ Refill(e) \/ TakeByte(e)

-----------------------------------------------------------------------------
\* The types of the variables; no buffer takes more than it has room for.
RioTypeOK ==
    /\ out \in [Ends -> Seq(Bytes)] /\ chan \in [Ends -> Seq(Bytes)]
    /\ rbuf \in [Ends -> Seq(Bytes)] /\ line \in [Ends -> Seq(Bytes)]
    /\ sent \in [Ends -> Seq(Bytes)] /\ got \in [Ends -> Seq(Bytes)]
    /\ shut \in [Ends -> BOOLEAN]
    /\ \A e \in Ends : /\ Len(chan[e]) <= Capacity
                      /\ Len(rbuf[e]) <= RIO_BUFSIZE
                      /\ Len(line[e]) <= MaxLine

\* Nothing is lost, doubled or put out of order, however the kernel cuts the
\* bytes up: what was read, what waits in the buffer, what is in the kernel
\* and what is still to be written are, in this order, what was written.
StreamIntact ==
    \A e \in Ends : sent[e] = got[e] \o (rbuf[e] \o (chan[e] \o out[Peer(e)]))

\* Short reads, short writes and the buffers in between cannot be seen: the
\* connection is a stream of bytes.
Stream == INSTANCE ByteStream

IsStream == Stream!Spec
=============================================================================
