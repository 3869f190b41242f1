------------------------ MODULE HttpExchange_proofs ------------------------
(***************************************************************************)
(* Proofs about HttpExchange, for any bytes, files, methods and sizes of   *)
(* the buffers: the connection is a stream of bytes, the server ends by    *)
(* nothing but its clients and its files, and the client accepts nothing   *)
(* but what was sent.                                                      *)
(***************************************************************************)
EXTENDS HttpExchange, QueueFacts

\* What Rio needs to know of its own variables.
StreamTypes ==
    /\ out \in [Ends -> Seq(Bytes)] /\ chan \in [Ends -> Seq(Bytes)]
    /\ rbuf \in [Ends -> Seq(Bytes)]
    /\ sent \in [Ends -> Seq(Bytes)] /\ got \in [Ends -> Seq(Bytes)]

\* What the server has of the file is a beginning of it.
FileRead ==
    /\ conf \in Confs
    /\ Len(file_buf) \in 0 .. Len(conf.data)
    /\ file_buf = SubSeq(conf.data, 1, Len(file_buf))

IInv == StreamTypes /\ StreamIntact /\ FileRead

streamVars == <<out, chan, rbuf, sent, got>>

-----------------------------------------------------------------------------
\* A sequence is what a call takes of it and what it leaves.
LEMMA TakenAndRest ==
    ASSUME NEW S, NEW s \in Seq(S), NEW k \in 0 .. Len(s)
    PROVE  /\ Taken(s, k) \in Seq(S)
           /\ Rest(s, k) \in Seq(S)
           /\ Taken(s, k) \o Rest(s, k) = s
<1>1. Len(s) \in Nat /\ \A i \in 1 .. Len(s) : s[i] \in S
  BY LenProperties, ElementOfSeq
<1>2. Taken(s, k) \in Seq(S)
  <2>1. \A i \in 1 .. k : s[i] \in S
    BY <1>1
  <2> QED
    BY <1>1, <2>1, SubSeqProperties DEF Taken
<1>3. Rest(s, k) \in Seq(S)
  <2>1. \A i \in (k + 1) .. Len(s) : s[i] \in S
    BY <1>1
  <2> QED
    BY <1>1, <2>1, SubSeqProperties DEF Rest
<1>4. SubSeq(s, 1, k) \o SubSeq(s, k + 1, Len(s)) = SubSeq(s, 1, Len(s))
  <2>1. 1 \in 1 .. Len(s) + 1 /\ k \in (1 - 1) .. Len(s) /\ Len(s) \in k .. Len(s)
    BY <1>1
  <2> QED
    BY <2>1, ConcatAdjacentSubSeq
<1> QED
  BY <1>2, <1>3, <1>4, SubSeqFull DEF Taken, Rest

\* A sequence is a beginning of itself with something behind it.
LEMMA BeginningOfConcat ==
    ASSUME NEW S, NEW s \in Seq(S), NEW t \in Seq(S)
    PROVE  /\ Len(s) <= Len(s \o t)
           /\ SubSeq(s \o t, 1, Len(s)) = s
<1>1. Len(s) \in Nat /\ Len(t) \in Nat /\ Len(s \o t) = Len(s) + Len(t)
  BY LenProperties, ConcatProperties
<1>2. CASE Len(s) = 0
  BY <1>1, <1>2, SubSeqEmpty, EmptySeq
<1>3. CASE Len(s) > 0
  <2>1. 1 \in 1 .. Len(s) /\ Len(s) \in 1 .. Len(s)
    BY <1>1, <1>3
  <2> QED
    BY <1>1, <2>1, SubSeqOfConcat1, SubSeqFull
<1> QED
  BY <1>1, <1>2, <1>3

\* Both ends have a peer, and no end is its own.
LEMMA Peers ==
    /\ \A e \in Ends : Peer(e) \in Ends /\ Peer(e) # e /\ Peer(Peer(e)) = e
    /\ \A d, e \in Ends : d # e => d = Peer(e)
BY DEF Ends, Peer

-----------------------------------------------------------------------------
(* The steps of Rio. *)

\* Rio_write of a sequence of bytes is a Write of the stream.
LEMMA GiveIsWrite ==
    ASSUME StreamTypes, StreamIntact, NEW e \in Ends, NEW s \in Seq(Bytes), Give(e, s)
    PROVE  StreamTypes' /\ StreamIntact' /\ Stream!Write(Peer(e))
<1> DEFINE p == Peer(e)
<1>1. p \in Ends /\ p # e /\ Peer(p) = e /\ \A d \in Ends : d # e => d = p
  BY Peers
<1>2. /\ out[e] = <<>>
      /\ out' = [out EXCEPT ![e] = s]
      /\ sent' = [sent EXCEPT ![p] = sent[p] \o s]
      /\ UNCHANGED <<chan, rbuf, got>>
  BY DEF Give
<1>3. sent[p] \o s \in Seq(Bytes)
  BY <1>1, ConcatProperties DEF StreamTypes
<1>4. StreamTypes'
  BY <1>1, <1>2, <1>3 DEF StreamTypes
<1>5. StreamIntact'
  <2> SUFFICES ASSUME NEW d \in Ends
               PROVE  sent'[d] = got'[d] \o (rbuf'[d] \o (chan'[d] \o out'[Peer(d)]))
    BY DEF StreamIntact
  <2>1. CASE d = p
    <3>1. sent[p] = got[p] \o (rbuf[p] \o (chan[p] \o <<>>))
      BY <1>1, <1>2 DEF StreamIntact
    <3>2. (got[p] \o (rbuf[p] \o (chan[p] \o <<>>))) \o s = got[p] \o (rbuf[p] \o (chan[p] \o s))
      <4> DEFINE g == got[p]
                 r == rbuf[p]
                 c == chan[p]
      <4>1. g \in Seq(Bytes) /\ r \in Seq(Bytes) /\ c \in Seq(Bytes)
        BY <1>1 DEF StreamTypes
      <4> HIDE DEF g, r, c
      <4> DEFINE x == r \o c
      <4>2. c \o <<>> = c /\ x \in Seq(Bytes)
        BY <4>1
      <4>3. (r \o c) \o s = r \o (c \o s)
        BY <4>1
      <4> HIDE DEF x
      <4>4. (g \o x) \o s = g \o (x \o s)
        BY <4>1, <4>2
      <4> QED
        BY <4>2, <4>3, <4>4 DEF g, r, c, x
    <3>3. sent'[p] = sent[p] \o s /\ out'[e] = s
      BY <1>1, <1>2 DEF StreamTypes
    <3> QED
      BY <1>1, <1>2, <2>1, <3>1, <3>2, <3>3
  <2>2. CASE d = e
    <3>1. sent'[e] = sent[e] /\ out'[p] = out[p]
      BY <1>1, <1>2 DEF StreamTypes
    <3> QED
      BY <1>2, <2>2, <3>1 DEF StreamIntact
  <2> QED
    BY <1>1, <2>1, <2>2
<1>6. Len(sent[p]) <= Len(sent[p] \o s) /\ SubSeq(sent[p] \o s, 1, Len(sent[p])) = sent[p]
  BY <1>1, BeginningOfConcat DEF StreamTypes
<1>7. sent'[p] = sent[p] \o s /\ \A d \in Ends \ {p} : sent'[d] = sent[d]
  BY <1>1, <1>2 DEF StreamTypes
<1> QED
  BY <1>2, <1>4, <1>5, <1>6, <1>7 DEF Stream!Write, StreamTypes

\* write() moves bytes from one place of the stream to the next.
LEMMA WriteIsHidden ==
    ASSUME StreamTypes, StreamIntact, NEW e \in Ends, Write(e)
    PROVE  StreamTypes' /\ StreamIntact' /\ UNCHANGED <<sent, got>>
<1> DEFINE p == Peer(e)
<1>1. p \in Ends /\ p # e /\ Peer(p) = e /\ \A d \in Ends : d # e => d = p
  BY Peers
<1>2. PICK k \in 1 .. Len(out[e]) :
          /\ chan' = [chan EXCEPT ![p] = chan[p] \o Taken(out[e], k)]
          /\ out' = [out EXCEPT ![e] = Rest(out[e], k)]
  BY DEF Write, AfterWrite
<1>3. UNCHANGED <<rbuf, sent, got>>
  BY DEF Write
<1>4. out[e] \in Seq(Bytes) /\ chan[p] \in Seq(Bytes) /\ Len(out[e]) \in Nat
  BY <1>1, LenProperties DEF StreamTypes
<1>5. /\ Taken(out[e], k) \in Seq(Bytes) /\ Rest(out[e], k) \in Seq(Bytes)
      /\ Taken(out[e], k) \o Rest(out[e], k) = out[e]
  <2>1. k \in 0 .. Len(out[e])
    BY <1>4
  <2> QED
    BY <1>4, <2>1, TakenAndRest
<1>6. chan[p] \o Taken(out[e], k) \in Seq(Bytes)
  BY <1>4, <1>5, ConcatProperties
<1>7. StreamTypes'
  BY <1>1, <1>2, <1>3, <1>5, <1>6 DEF StreamTypes
<1>8. StreamIntact'
  <2> SUFFICES ASSUME NEW d \in Ends
               PROVE  sent'[d] = got'[d] \o (rbuf'[d] \o (chan'[d] \o out'[Peer(d)]))
    BY DEF StreamIntact
  <2>1. CASE d = p
    <3>1. chan'[p] \o out'[e] = (chan[p] \o Taken(out[e], k)) \o Rest(out[e], k)
      BY <1>1, <1>2 DEF StreamTypes
    <3>2. (chan[p] \o Taken(out[e], k)) \o Rest(out[e], k) = chan[p] \o out[e]
      <4> DEFINE c == chan[p]
                 t == Taken(out[e], k)
                 r == Rest(out[e], k)
      <4>1. c \in Seq(Bytes) /\ t \in Seq(Bytes) /\ r \in Seq(Bytes)
        BY <1>4, <1>5
      <4>3. t \o r = out[e]
        BY <1>5
      <4> HIDE DEF c, t, r
      <4>2. (c \o t) \o r = c \o (t \o r)
        BY <4>1
      <4> QED
        BY <4>2, <4>3 DEF c, t, r
    <3> QED
      BY <1>1, <1>3, <2>1, <3>1, <3>2 DEF StreamIntact
  <2>2. CASE d = e
    <3>1. chan'[e] = chan[e] /\ out'[p] = out[p]
      BY <1>1, <1>2 DEF StreamTypes
    <3> QED
      BY <1>3, <2>2, <3>1 DEF StreamIntact
  <2> QED
    BY <1>1, <2>1, <2>2
<1> QED
  BY <1>3, <1>7, <1>8

\* So does read().
LEMMA RefillIsHidden ==
    ASSUME StreamTypes, StreamIntact, NEW e \in Ends, Refill(e)
    PROVE  StreamTypes' /\ StreamIntact' /\ UNCHANGED <<sent, got>>
<1>1. PICK k \in 1 .. Len(chan[e]) :
          /\ rbuf' = [rbuf EXCEPT ![e] = Taken(chan[e], k)]
          /\ chan' = [chan EXCEPT ![e] = Rest(chan[e], k)]
  BY DEF Refill
<1>2. rbuf[e] = <<>> /\ UNCHANGED <<out, sent, got>>
  BY DEF Refill
<1>3. chan[e] \in Seq(Bytes) /\ Len(chan[e]) \in Nat /\ out[Peer(e)] \in Seq(Bytes)
  BY LenProperties, Peers DEF StreamTypes
<1>4. /\ Taken(chan[e], k) \in Seq(Bytes) /\ Rest(chan[e], k) \in Seq(Bytes)
      /\ Taken(chan[e], k) \o Rest(chan[e], k) = chan[e]
  <2>1. k \in 0 .. Len(chan[e])
    BY <1>3
  <2> QED
    BY <1>3, <2>1, TakenAndRest
<1>5. StreamTypes'
  BY <1>1, <1>2, <1>4 DEF StreamTypes
<1>6. StreamIntact'
  <2> SUFFICES ASSUME NEW d \in Ends
               PROVE  sent'[d] = got'[d] \o (rbuf'[d] \o (chan'[d] \o out'[Peer(d)]))
    BY DEF StreamIntact
  <2>1. CASE d = e
    <3>1. rbuf'[e] = Taken(chan[e], k) /\ chan'[e] = Rest(chan[e], k)
      BY <1>1 DEF StreamTypes
    <3>2. Taken(chan[e], k) \o (Rest(chan[e], k) \o out[Peer(e)]) = chan[e] \o out[Peer(e)]
      <4> DEFINE o == out[Peer(e)]
                 t == Taken(chan[e], k)
                 r == Rest(chan[e], k)
      <4>1. o \in Seq(Bytes) /\ t \in Seq(Bytes) /\ r \in Seq(Bytes)
        BY <1>3, <1>4
      <4>3. t \o r = chan[e]
        BY <1>4
      <4> HIDE DEF o, t, r
      <4>2. (t \o r) \o o = t \o (r \o o)
        BY <4>1
      <4> QED
        BY <4>2, <4>3 DEF o, t, r
    <3>3. rbuf[e] \o (chan[e] \o out[Peer(e)]) = chan[e] \o out[Peer(e)]
      <4>1. chan[e] \o out[Peer(e)] \in Seq(Bytes)
        BY <1>3, ConcatProperties
      <4> QED
        BY <1>2, <4>1, ConcatEmptySeq
    <3>4. sent[e] = got[e] \o (rbuf[e] \o (chan[e] \o out[Peer(e)]))
      BY DEF StreamIntact
    <3> QED
      BY <1>2, <2>1, <3>1, <3>2, <3>3, <3>4
  <2>2. CASE d # e
    <3>1. rbuf'[d] = rbuf[d] /\ chan'[d] = chan[d]
      BY <1>1, <2>2 DEF StreamTypes
    <3> QED
      BY <1>2, <3>1 DEF StreamIntact
  <2> QED
    BY <2>1, <2>2
<1> QED
  BY <1>2, <1>5, <1>6

\* The byte that rio_readlineb takes is the next one of the stream.
LEMMA TakeByteIsRead ==
    ASSUME StreamTypes, StreamIntact, NEW e \in Ends, TakeByte(e)
    PROVE  StreamTypes' /\ StreamIntact' /\ Stream!Read(e)
<1> DEFINE h == Head(rbuf[e])
           rest == chan[e] \o out[Peer(e)]
<1>1. /\ rbuf[e] # <<>>
      /\ got' = [got EXCEPT ![e] = Append(got[e], h)]
      /\ rbuf' = [rbuf EXCEPT ![e] = Tail(rbuf[e])]
      /\ UNCHANGED <<out, chan, sent>>
  BY DEF TakeByte
<1>2. /\ got[e] \in Seq(Bytes) /\ rbuf[e] \in Seq(Bytes) /\ sent[e] \in Seq(Bytes)
      /\ rest \in Seq(Bytes)
  BY Peers, ConcatProperties DEF StreamTypes
<1>3. /\ h \in Bytes /\ Tail(rbuf[e]) \in Seq(Bytes) /\ <<h>> \in Seq(Bytes)
      /\ h = rbuf[e][1] /\ Len(rbuf[e]) \in Nat \ {0}
  BY <1>1, <1>2, HeadTailProperties, EmptySeq
<1>4. Append(got[e], h) \in Seq(Bytes) /\ Append(got[e], h) = got[e] \o <<h>>
  <2> DEFINE g == got[e]
  <2>1. g \in Seq(Bytes) /\ h \in Bytes
    BY <1>2, <1>3
  <2> HIDE DEF g, h
  <2>2. Append(g, h) \in Seq(Bytes) /\ Append(g, h) = g \o <<h>>
    BY <2>1
  <2> QED
    BY <2>2 DEF g
<1>5. <<h>> \o Tail(rbuf[e]) = rbuf[e]
  BY <1>1, <1>2, <1>3
<1>6. StreamTypes'
  BY <1>1, <1>3, <1>4 DEF StreamTypes
<1>7. sent[e] = got[e] \o (rbuf[e] \o rest)
  BY DEF StreamIntact
<1>8. StreamIntact'
  <2> SUFFICES ASSUME NEW d \in Ends
               PROVE  sent'[d] = got'[d] \o (rbuf'[d] \o (chan'[d] \o out'[Peer(d)]))
    BY DEF StreamIntact
  <2>1. CASE d = e
    <3>1. got'[e] = got[e] \o <<h>> /\ rbuf'[e] = Tail(rbuf[e])
      BY <1>1, <1>4 DEF StreamTypes
    <3>2. Tail(rbuf[e]) \o rest \in Seq(Bytes)
      BY <1>2, <1>3, ConcatProperties
    <3>3. (got[e] \o <<h>>) \o (Tail(rbuf[e]) \o rest) = got[e] \o (rbuf[e] \o rest)
      <4> DEFINE g == got[e]
                 x == <<h>>
                 t == Tail(rbuf[e])
      <4>1. /\ g \in Seq(Bytes) /\ x \in Seq(Bytes) /\ t \in Seq(Bytes)
            /\ rest \in Seq(Bytes)
        BY <1>2, <1>3
      <4>5. x \o t = rbuf[e]
        BY <1>5
      <4> HIDE DEF g, x, t, rest
      <4>2. (x \o t) \o rest = x \o (t \o rest)
        BY <4>1
      <4> DEFINE y == t \o rest
      <4>3. y \in Seq(Bytes)
        BY <4>1, ConcatProperties
      <4> HIDE DEF y
      <4>4. (g \o x) \o y = g \o (x \o y)
        BY <4>1, <4>3
      <4> QED
        BY <4>2, <4>4, <4>5 DEF g, x, t, y
    <3> QED
      BY <1>1, <1>7, <2>1, <3>1, <3>3
  <2>2. CASE d # e
    <3>1. got'[d] = got[d] /\ rbuf'[d] = rbuf[d]
      BY <1>1, <2>2 DEF StreamTypes
    <3> QED
      BY <1>1, <3>1 DEF StreamIntact
  <2> QED
    BY <2>1, <2>2
<1>9. Len(got[e]) < Len(sent[e]) /\ sent[e][Len(got[e]) + 1] = h
  <2> DEFINE g == got[e]
             b == rbuf[e]
             y == b \o rest
  <2>1. /\ g \in Seq(Bytes) /\ b \in Seq(Bytes) /\ rest \in Seq(Bytes)
        /\ sent[e] = g \o y /\ b[1] = h /\ Len(b) \in Nat \ {0}
    BY <1>2, <1>3, <1>7
  <2> HIDE DEF g, b, rest, h
  <2>2. y \in Seq(Bytes) /\ Len(y) \in Nat \ {0} /\ y[1] = h
    <3>1. Len(rest) \in Nat /\ 1 \in 1 .. Len(b) + Len(rest) /\ 1 <= Len(b)
      BY <2>1, LenProperties
    <3> QED
      BY <2>1, <3>1, ConcatProperties
  <2> HIDE DEF y
  <2>3. /\ Len(g \o y) = Len(g) + Len(y)
        /\ (g \o y)[Len(g) + 1] = y[1]
    <3>1. Len(g) \in Nat /\ Len(g) + 1 \in 1 .. Len(g) + Len(y)
          /\ (Len(g) + 1) - Len(g) = 1 /\ ~(Len(g) + 1 <= Len(g))
      BY <2>1, <2>2, LenProperties
    <3> QED
      BY <2>1, <2>2, <3>1, ConcatProperties
  <2>4. Len(g) \in Nat
    BY <2>1, LenProperties
  <2>5. Len(g) < Len(sent[e]) /\ sent[e][Len(g) + 1] = h
    BY <2>1, <2>2, <2>3, <2>4
  <2> QED
    BY <2>5 DEF g
<1> QED
  BY <1>1, <1>6, <1>8, <1>9 DEF Stream!Read

\* Nothing else touches the stream.
LEMMA StreamStutters ==
    ASSUME StreamTypes, StreamIntact, UNCHANGED streamVars
    PROVE  StreamTypes' /\ StreamIntact' /\ UNCHANGED <<sent, got>>
BY DEF StreamTypes, StreamIntact, streamVars

\* The end of a line and of a connection are not seen in the stream.
LEMMA NotTheStream ==
    ASSUME NEW e \in Ends
    PROVE  /\ NextLine(e) => UNCHANGED streamVars
           /\ Close(e) => UNCHANGED streamVars
BY DEF NextLine, Close, streamVars

-----------------------------------------------------------------------------
(* The steps of the client and the server. *)

LEMMA InitInv == Init => IInv /\ Stream!Init
<1> SUFFICES ASSUME Init PROVE IInv /\ Stream!Init
  OBVIOUS
<1> DEFINE s == Request(conf.method)
<1>1. conf \in Confs /\ conf.method \in Methods /\ conf.data \in Contents
  BY DEF Init, Confs
<1>2. s \in Seq(Bytes) /\ conf.data \in Seq(Bytes)
  BY <1>1, HttpAssumption
<1> HIDE DEF s
<1>3. RioInit(s)
  BY DEF Init, s
<1>4. StreamTypes
  BY <1>2, <1>3, EmptySeq DEF RioInit, StreamTypes
<1>5. StreamIntact
  <2> SUFFICES ASSUME NEW e \in Ends
               PROVE  sent[e] = got[e] \o (rbuf[e] \o (chan[e] \o out[Peer(e)]))
    BY DEF StreamIntact
  <2>1. /\ got[e] = <<>> /\ rbuf[e] = <<>> /\ chan[e] = <<>>
        /\ sent[e] = out[Peer(e)]
    BY <1>3, Peers DEF RioInit, Ends, Peer
  <2> DEFINE o == out[Peer(e)]
  <2>2. o \in Seq(Bytes)
    BY <1>4, Peers DEF StreamTypes
  <2> HIDE DEF o
  <2>3. <<>> \o o = o
    BY <2>2
  <2> QED
    BY <2>1, <2>3 DEF o
<1>6. FileRead
  <2>1. file_buf = <<>>
    BY DEF Init
  <2>2. Len(file_buf) = 0 /\ Len(conf.data) \in Nat
    BY <1>2, <2>1, LenProperties
  <2>3. SubSeq(conf.data, 1, 0) = <<>>
    BY SubSeqEmpty
  <2> QED
    BY <1>1, <2>1, <2>2, <2>3 DEF FileRead
<1>7. Stream!Init
  BY <1>3, <1>4 DEF RioInit, Stream!Init, StreamTypes
<1> QED
  BY <1>4, <1>5, <1>6, <1>7 DEF IInv

\* All the server writes are bytes.
LEMMA RepliesAreBytes ==
    ASSUME FileRead
    PROVE  /\ \A status \in {"403", "404", "501"} : ErrorReply(status) \in Seq(Bytes)
           /\ Len(file_buf) = Len(conf.data) => Reply("200", file_buf) \in Seq(Bytes)
<1>1. conf.data \in Contents
  BY DEF FileRead, Confs
<1>2. conf.data \in Seq(Bytes) /\ Reply("200", conf.data) \in Seq(Bytes)
  BY <1>1, HttpAssumption
<1>3. Len(file_buf) = Len(conf.data) => file_buf = conf.data
  BY <1>2, SubSeqFull DEF FileRead
<1> QED
  BY <1>2, <1>3, HttpAssumption

\* rio_read of the file goes on where it stopped.
LEMMA ReadFileFacts ==
    ASSUME FileRead, ReadFile
    PROVE  FileRead'
<1> DEFINE d == conf.data
           n == Len(file_buf)
<1>1. conf \in Confs /\ conf' = conf /\ d \in Contents
  BY DEF FileRead, Confs, ReadFile, Server
<1>2. d \in Seq(Bytes) /\ Len(d) \in Nat
  BY <1>1, HttpAssumption, LenProperties
<1>3. n \in 0 .. Len(d) /\ file_buf = SubSeq(d, 1, n)
  BY DEF FileRead
<1>4. PICK k \in 1 .. (Len(d) - n) : file_buf' = file_buf \o SubSeq(d, n + 1, n + k)
  BY DEF ReadFile
<1> HIDE DEF d, n
<1>5. n \in Nat /\ n + k \in 1 .. Len(d) /\ n + k \in n .. Len(d) /\ k \in Nat
  BY <1>2, <1>3, <1>4
<1>6. SubSeq(d, 1, n) \o SubSeq(d, n + 1, n + k) = SubSeq(d, 1, n + k)
  <2>1. 1 \in 1 .. Len(d) + 1 /\ n \in (1 - 1) .. Len(d)
    BY <1>2, <1>3
  <2> QED
    BY <1>2, <1>5, <2>1, ConcatAdjacentSubSeq
<1>7. file_buf' = SubSeq(d, 1, n + k)
  BY <1>3, <1>4, <1>6
<1>8. Len(file_buf') = n + k
  <2>1. \A i \in 1 .. (n + k) : d[i] \in Bytes
    BY <1>2, <1>5, ElementOfSeq
  <2> QED
    BY <1>5, <1>7, <2>1, SubSeqProperties
<1>9. Len(file_buf') \in 0 .. Len(d)
  BY <1>2, <1>5, <1>8
<1> QED
  BY <1>1, <1>7, <1>8, <1>9 DEF FileRead, d

LEMMA TransportIsStream ==
    ASSUME IInv, NEW e \in Ends, Transfer(e)
    PROVE  IInv' /\ [Stream!Next]_<<sent, got>>
<1>1. UNCHANGED <<conf, file_buf>>
  BY DEF Transfer, server
<1>2. FileRead'
  BY <1>1 DEF IInv, FileRead
<1>3. CASE Write(e)
  BY <1>2, <1>3, WriteIsHidden DEF IInv
<1>4. CASE Refill(e)
  BY <1>2, <1>4, RefillIsHidden DEF IInv
<1>5. CASE TakeByte(e)
  BY <1>2, <1>5, TakeByteIsRead DEF IInv, Stream!Next
<1> QED
  BY <1>3, <1>4, <1>5 DEF Transfer, Transport

\* A step of the server that calls Rio_write.
LEMMA ReplyIsStream ==
    ASSUME IInv, UNCHANGED <<conf, file_buf>>,
           NEW s \in Seq(Bytes), Give("server", s)
    PROVE  IInv' /\ [Stream!Next]_<<sent, got>>
<1>1. "server" \in Ends /\ Peer("server") \in Ends
  BY DEF Ends, Peer
<1>2. FileRead'
  BY DEF IInv, FileRead
<1> QED
  BY <1>1, <1>2, GiveIsWrite DEF IInv, Stream!Next

\* A step that does not touch the stream.
LEMMA QuietIsStream ==
    ASSUME IInv, UNCHANGED <<streamVars, conf>>, ReadFile \/ file_buf' = file_buf
    PROVE  IInv' /\ [Stream!Next]_<<sent, got>>
<1>1. FileRead'
  <2>1. CASE ReadFile
    BY <2>1, ReadFileFacts DEF IInv
  <2>2. CASE file_buf' = file_buf
    BY <2>2 DEF IInv, FileRead
  <2> QED
    BY <2>1, <2>2
<1> QED
  BY <1>1, StreamStutters DEF IInv

LEMMA NextIsStream == IInv /\ [Next]_vars => IInv' /\ [Stream!Next]_<<sent, got>>
<1> SUFFICES ASSUME IInv, [Next]_vars PROVE IInv' /\ [Stream!Next]_<<sent, got>>
  OBVIOUS
<1>0. "server" \in Ends /\ "client" \in Ends
  BY DEF Ends
<1>1. CASE Transfer("server") \/ Transfer("client")
  BY <1>0, <1>1, TransportIsStream
<1>2. CASE Refuse
  <2>1. ErrorReply("501") \in Seq(Bytes)
    BY RepliesAreBytes DEF IInv
  <2> QED
    BY <1>2, <2>1, ReplyIsStream DEF Refuse, Server
<1>3. CASE OpenFile
  <2>1. UNCHANGED <<conf, file_buf>>
    BY <1>3 DEF OpenFile, Server
  <2>2. CASE Give("server", ErrorReply("404")) \/ Give("server", ErrorReply("403"))
    <3>1. ErrorReply("404") \in Seq(Bytes) /\ ErrorReply("403") \in Seq(Bytes)
      BY RepliesAreBytes DEF IInv
    <3> QED
      BY <2>1, <2>2, <3>1, ReplyIsStream
  <2>3. CASE UNCHANGED rio \/ Close("server")
    <3>1. UNCHANGED streamVars
      BY <1>0, <2>3, NotTheStream DEF rio, streamVars
    <3> QED
      BY <2>1, <3>1, QuietIsStream
  <2> QED
    BY <1>3, <2>2, <2>3 DEF OpenFile
<1>4. CASE SendFile
  <2>1. Reply("200", file_buf) \in Seq(Bytes)
    BY <1>4, RepliesAreBytes DEF IInv, SendFile
  <2> QED
    BY <1>4, <2>1, ReplyIsStream DEF SendFile, Server
<1>5. CASE ReadFile
  <2>1. UNCHANGED <<streamVars, conf>>
    BY <1>5 DEF ReadFile, Server, rio, streamVars
  <2> QED
    BY <1>5, <2>1, QuietIsStream
<1>6. CASE ReadRequest \/ ReadHeader \/ Finish \/ ServerDies \/ ServerEnds
  <2>1. NextLine("server") \/ Close("server")
    BY <1>6 DEF ReadRequest, ReadHeader, Finish, ServerDies, ServerEnds
  <2>2. UNCHANGED <<conf, file_buf>>
    BY <1>6 DEF ReadRequest, ReadHeader, Finish, ServerDies, ServerEnds, Server
  <2>3. UNCHANGED streamVars
    BY <1>0, <2>1, NotTheStream
  <2> QED
    BY <2>2, <2>3, QuietIsStream
<1>7. CASE Sent \/ ReadStatus \/ ReadTags \/ ReadBody \/ Check \/ ClientBreaks \/ ClientDies
  <2>1. UNCHANGED rio \/ NextLine("client") \/ Close("client")
    BY <1>7 DEF Sent, ReadStatus, ReadTags, ReadBody, Check, ClientBreaks, ClientDies
  <2>2. UNCHANGED <<conf, file_buf>>
    BY <1>7 DEF Sent, ReadStatus, ReadTags, ReadBody, Check, ClientBreaks,
                ClientDies, Client, server
  <2>3. UNCHANGED streamVars
    BY <1>0, <2>1, NotTheStream DEF rio, streamVars
  <2> QED
    BY <2>2, <2>3, QuietIsStream
<1>8. CASE UNCHANGED vars
  <2>1. UNCHANGED <<streamVars, conf, file_buf>>
    BY <1>8 DEF vars, rio, server, streamVars
  <2> QED
    BY <2>1, QuietIsStream
<1> QED
  BY <1>1, <1>2, <1>3, <1>4, <1>5, <1>6, <1>7, <1>8
     DEF Next, ServerNext, ClientGoesOn, Terminated

LEMMA Invariance == Spec => []IInv
<1>1. Init => IInv
  BY InitInv
<1>2. IInv /\ [Next]_vars => IInv'
  BY NextIsStream
<1> QED
  BY <1>1, <1>2, PTL DEF Spec

\* What has been written on either side is at every moment what was read, what
\* waits in the reader's buffer, what is in the kernel and what is still to be
\* written, in this order.
THEOREM NothingLost == Spec => []StreamIntact
<1>1. IInv => StreamIntact
  BY DEF IInv
<1> QED
  BY <1>1, Invariance, PTL

\* Short reads and writes, whatever their sizes, and the buffers in between
\* cannot be told from a stream of bytes: what one process reads is what the
\* other wrote, in order, without loss or repetition.
THEOREM StreamCorrect == Spec => IsStream
<1>1. Init => Stream!Init
  BY InitInv
<1>2. IInv /\ [Next]_vars => [Stream!Next]_<<sent, got>>
  BY NextIsStream
<1> QED
  BY <1>1, <1>2, Invariance, PTL DEF Spec, IsStream, Stream!Spec

-----------------------------------------------------------------------------
(* Who ends whom. *)

\* A descriptor is closed exactly when its process is through with it, and a
\* client that came to the end of the body saw the server close first.
ClosedLast ==
    /\ shut \in [Ends -> BOOLEAN]
    /\ shut["server"] <=> spc \in {"done", "dead", "ended"}
    /\ shut["client"] <=> cpc \in {"accepted", "aborted", "dead"}
    /\ cpc \in {"check", "accepted", "aborted"} => shut["server"]

SInv == ClosedLast /\ ServerSurvives

\* An empty line that rio_readlineb returned is the end of the stream.
LEMMA EmptyLine ==
    ASSUME NEW e \in Ends, Returned(e), line[e] = <<>>
    PROVE  shut[Peer(e)]
BY DEF Returned, Full, Eof

LEMMA NextSInv == SInv /\ [Next]_vars => SInv'
<1> SUFFICES ASSUME SInv, [Next]_vars PROVE SInv'
  OBVIOUS
<1> USE DEF SInv, ClosedLast, ServerSurvives
<1>0. /\ Ends = {"client", "server"}
      /\ Peer("client") = "server" /\ Peer("server") = "client"
  BY DEF Ends, Peer
<1>1. CASE Transfer("server") \/ Transfer("client")
  <2>1. UNCHANGED <<shut, spc, cpc, conf>>
    BY <1>1 DEF Transfer, Transport, Write, Refill, TakeByte, server, client
  <2> QED
    BY <2>1
<1>2. CASE ReadRequest \/ Refuse \/ ReadFile \/ SendFile
  <2>1. /\ UNCHANGED <<shut, cpc, conf>>
        /\ spc \in {"request", "refuse", "read"}
        /\ spc' \in {"header", "refuse", "reply", "read"}
    BY <1>2 DEF ReadRequest, Refuse, ReadFile, SendFile, Server, Give, NextLine,
                rio, client
  <2> QED
    BY <2>1
<1>3. CASE ReadHeader
  <2>1. /\ UNCHANGED <<shut, cpc, conf>>
        /\ spc \in {"header", "headers"}
        /\ \/ spc' \in {"stat", "headers"}
           \/ spc' = "spin" /\ line["server"] = <<>> /\ Returned("server")
    BY <1>3 DEF ReadHeader, Server, NextLine, client
  <2>2. spc' = "spin" => shut["client"]
    BY <1>0, <2>1, EmptyLine
  <2> QED
    BY <2>1, <2>2
<1>4. CASE OpenFile
  <2>1. /\ UNCHANGED <<cpc, conf>> /\ spc = "stat"
        /\ \/ spc' \in {"read", "reply"} /\ UNCHANGED shut
           \/ /\ spc' = "dead" /\ conf.kind = "gone"
              /\ shut' = [shut EXCEPT !["server"] = TRUE]
    BY <1>4 DEF OpenFile, Server, Give, Close, rio, client
  <2> QED
    BY <1>0, <2>1
<1>5. CASE Finish \/ ServerEnds
  <2>1. /\ UNCHANGED <<cpc, conf>> /\ spc' \in {"done", "ended"}
        /\ shut' = [shut EXCEPT !["server"] = TRUE]
    BY <1>5 DEF Finish, ServerEnds, Server, Close, client
  <2> QED
    BY <1>0, <2>1
<1>6. CASE ServerDies
  <2>1. /\ UNCHANGED <<cpc, conf>> /\ spc' = "dead"
        /\ spc \in {"reply", "request", "header", "headers"}
        /\ shut["client"]
        /\ shut' = [shut EXCEPT !["server"] = TRUE]
    BY <1>6 DEF ServerDies, Server, Close, client
  <2> QED
    BY <1>0, <2>1
<1>7. CASE Sent \/ ReadStatus \/ ReadTags \/ ReadBody
  <2>1. /\ UNCHANGED <<shut, spc, conf>>
        /\ cpc \in {"send", "status", "header", "body"}
        /\ \/ cpc' \in {"status", "header", "body"}
           \/ cpc' = "check" /\ line["client"] = <<>> /\ Returned("client")
    BY <1>7 DEF Sent, ReadStatus, ReadTags, ReadBody, Client, NextLine, rio, server
  <2>2. cpc' = "check" => shut["server"]
    BY <1>0, <2>1, EmptyLine
  <2> QED
    BY <2>1, <2>2
<1>8. CASE Check \/ ClientBreaks \/ ClientDies
  <2>1. /\ UNCHANGED <<spc, conf>>
        /\ \/ cpc = "check" /\ cpc' \in {"accepted", "aborted"}
           \/ cpc \in {"send", "status", "header", "body"} /\ cpc' = "dead"
        /\ shut' = [shut EXCEPT !["client"] = TRUE]
    BY <1>8 DEF Check, ClientBreaks, ClientDies, Client, Close, server
  <2> QED
    BY <1>0, <2>1
<1>9. CASE UNCHANGED vars
  <2>1. UNCHANGED <<shut, spc, cpc, conf>>
    BY <1>9 DEF vars, rio, server, client
  <2> QED
    BY <2>1
<1> QED
  BY <1>1, <1>2, <1>3, <1>4, <1>5, <1>6, <1>7, <1>8, <1>9
     DEF Next, ServerNext, ClientGoesOn, Terminated

\* Only a client that ended in the middle of the exchange, or a file that
\* vanished, takes the server or one of its threads down: a client that reads
\* to the end closes after the server has.
THEOREM ServerOutlives == Spec => []ServerSurvives
<1>1. Init => SInv
  BY DEF Init, RioInit, SInv, ClosedLast, ServerSurvives, Ends
<1>2. SInv /\ [Next]_vars => SInv'
  BY NextSInv
<1>3. SInv => ServerSurvives
  BY DEF SInv
<1> QED
  BY <1>1, <1>2, <1>3, PTL DEF Spec

-----------------------------------------------------------------------------
(* Checksums. *)

\* f gives the sum of every beginning of s.
IsSum(f, s) == f = [k \in 0 .. Len(s) |-> IF k = 0 THEN 0 ELSE f[k - 1] + s[k].v]

\* There is such a function, its values are naturals, and Csum is its last.
LEMMA SumOfAll ==
  ASSUME NEW s \in Seq(Bytes)
  PROVE  \E f \in [0 .. Len(s) -> Nat] : IsSum(f, s) /\ Csum(s) = f[Len(s)]
<1> DEFINE L == Len(s)
           Upto(f, n) == \A k \in 0 .. n : k <= L =>
                            f[k] = IF k = 0 THEN 0 ELSE f[k - 1] + s[k].v
           T == {n \in Nat : \E f \in [0 .. L -> Nat] : Upto(f, n)}
<1>0. L \in Nat /\ \A k \in 1 .. L : s[k].v \in Nat
  <2>1. \A k \in 1 .. L : s[k] \in Bytes
    BY LenProperties, ElementOfSeq
  <2> QED
    BY <2>1, LenProperties, HttpAssumption
<1>1. 0 \in T
  <2> DEFINE f == [k \in 0 .. L |-> 0]
  <2>1. f \in [0 .. L -> Nat] /\ Upto(f, 0)
    BY <1>0
  <2> QED
    BY <2>1
<1>2. ASSUME NEW n \in Nat, n \in T PROVE n + 1 \in T
  <2>1. PICK f \in [0 .. L -> Nat] : Upto(f, n)
    BY <1>2
  <2> DEFINE g == [k \in 0 .. L |-> IF k = n + 1 THEN f[k - 1] + s[k].v ELSE f[k]]
  <2>2. ASSUME NEW k \in 0 .. L PROVE g[k] \in Nat
    <3>1. CASE k = n + 1
      <4>1. k - 1 \in 0 .. L /\ k \in 1 .. L
        BY <1>0, <3>1
      <4>2. f[k - 1] \in Nat /\ s[k].v \in Nat
        BY <1>0, <2>1, <4>1
      <4>3. g[k] = f[k - 1] + s[k].v
        BY <3>1
      <4> HIDE DEF g
      <4> QED
        BY <4>2, <4>3
    <3>2. CASE k # n + 1
      BY <2>1, <3>2
    <3> QED
      BY <3>1, <3>2
  <2>3. ASSUME NEW k \in 0 .. (n + 1), k <= L
        PROVE  g[k] = IF k = 0 THEN 0 ELSE g[k - 1] + s[k].v
    <3>0. k \in 0 .. L
      BY <2>3
    <3>1. CASE k = n + 1
      <4>1. k - 1 \in 0 .. L /\ k - 1 # n + 1 /\ k # 0
        BY <3>1, <3>0, <1>0
      <4>2. g[k - 1] = f[k - 1] /\ g[k] = f[k - 1] + s[k].v
        BY <3>0, <3>1, <4>1
      <4> QED
        BY <4>1, <4>2
    <3>2. CASE k # n + 1
      <4>1. k \in 0 .. n
        BY <3>2
      <4>2. g[k] = f[k]
        BY <3>0, <3>2
      <4>3. k # 0 => k - 1 \in 0 .. L /\ k - 1 # n + 1
        BY <3>0, <1>0, <4>1
      <4>4. k # 0 => g[k - 1] = f[k - 1]
        BY <4>3
      <4>5. f[k] = IF k = 0 THEN 0 ELSE f[k - 1] + s[k].v
        BY <2>1, <2>3, <4>1
      <4> QED
        BY <4>2, <4>4, <4>5
    <3> QED
      BY <3>1, <3>2
  <2>4. g \in [0 .. L -> Nat]
    BY <2>2
  <2> HIDE DEF g
  <2>5. Upto(g, n + 1)
    BY <2>3
  <2>6. \E h \in [0 .. L -> Nat] : Upto(h, n + 1)
    BY <2>4, <2>5
  <2> QED
    BY <2>6
<1>3. L \in T
  <2> HIDE DEF T
  <2>1. Nat \subseteq T
    BY <1>1, <1>2, SetInduction
  <2> QED
    BY <1>0, <2>1
<1>4. PICK f \in [0 .. L -> Nat] : Upto(f, L)
  BY <1>3
<1>5. IsSum(f, s)
  <2>1. \A k \in 0 .. L : f[k] = IF k = 0 THEN 0 ELSE f[k - 1] + s[k].v
    BY <1>4, <1>0
  <2>2. f = [k \in 0 .. L |-> f[k]]
    BY <1>4
  <2> QED
    BY <2>1, <2>2 DEF IsSum
<1>6. PICK g : g = CHOOSE h : IsSum(h, s)
  OBVIOUS
<1>7. IsSum(g, s)
  BY <1>5, <1>6
<1>8. Csum(s) = g[L]
  BY <1>6 DEF Csum, IsSum
<1>9. \A k \in 0 .. L : g[k] = IF k = 0 THEN 0 ELSE g[k - 1] + s[k].v
  BY <1>7 DEF IsSum
<1>10. g \in [0 .. L -> Nat]
  <2> DEFINE V == {n \in Nat : n <= L => g[n] \in Nat}
  <2>1. 0 \in V
    BY <1>9, <1>0
  <2>2. ASSUME NEW n \in Nat, n \in V PROVE n + 1 \in V
    <3> SUFFICES ASSUME n + 1 <= L PROVE g[n + 1] \in Nat
      OBVIOUS
    <3>1. n + 1 \in 1 .. L /\ (n + 1) - 1 = n /\ g[n] \in Nat
      BY <2>2, <1>0
    <3> QED
      BY <3>1, <1>9, <1>0
  <2> HIDE DEF V
  <2>3. Nat \subseteq V
    BY <2>1, <2>2, SetInduction
  <2>4. \A k \in 0 .. L : g[k] \in Nat
    BY <2>3, <1>0 DEF V
  <2>5. g = [k \in 0 .. L |-> g[k]]
    BY <1>7 DEF IsSum
  <2> QED
    BY <2>4, <2>5
<1> QED
  BY <1>7, <1>8, <1>10

\* The sum of two parts.
LEMMA CsumFacts ==
  /\ Csum(<<>>) = 0
  /\ \A s \in Seq(Bytes) : Csum(s) \in Nat
  /\ \A s, t \in Seq(Bytes) : Csum(s \o t) = Csum(s) + Csum(t)
<1>1. Csum(<<>>) = 0
  <2>1. <<>> \in Seq(Bytes) /\ Len(<<>>) = 0
    OBVIOUS
  <2>2. PICK f \in [0 .. 0 -> Nat] : IsSum(f, <<>>) /\ Csum(<<>>) = f[0]
    BY <2>1, SumOfAll
  <2> QED
    BY <2>1, <2>2 DEF IsSum
<1>2. ASSUME NEW s \in Seq(Bytes) PROVE Csum(s) \in Nat
  BY SumOfAll, LenProperties
<1>3. ASSUME NEW s \in Seq(Bytes), NEW t \in Seq(Bytes)
      PROVE  Csum(s \o t) = Csum(s) + Csum(t)
  <2> DEFINE r == s \o t
             m == Len(s)
             n == Len(t)
  <2>1. /\ r \in Seq(Bytes) /\ m \in Nat /\ n \in Nat /\ Len(r) = m + n
        /\ \A k \in 1 .. m : r[k] = s[k]
        /\ \A k \in 1 .. n : r[m + k] = t[k]
    BY ConcatProperties, LenProperties
  <2>2. \A k \in 1 .. (m + n) : r[k].v \in Nat
    <3>1. \A k \in 1 .. Len(r) : r[k] \in Bytes
      BY <2>1, ElementOfSeq
    <3> QED
      BY <2>1, <3>1, HttpAssumption
  <2> HIDE DEF r
  <2>3. PICK f \in [0 .. m -> Nat] : IsSum(f, s) /\ Csum(s) = f[m]
    BY SumOfAll
  <2>4. PICK g \in [0 .. n -> Nat] : IsSum(g, t) /\ Csum(t) = g[n]
    BY SumOfAll
  <2>5. PICK h \in [0 .. (m + n) -> Nat] : IsSum(h, r) /\ Csum(r) = h[m + n]
    <3>1. \E h \in [0 .. Len(r) -> Nat] : IsSum(h, r) /\ Csum(r) = h[Len(r)]
      BY <2>1, SumOfAll
    <3> QED
      BY <2>1, <3>1
  <2>6. /\ \A k \in 0 .. m : f[k] = IF k = 0 THEN 0 ELSE f[k - 1] + s[k].v
        /\ \A k \in 0 .. n : g[k] = IF k = 0 THEN 0 ELSE g[k - 1] + t[k].v
        /\ \A k \in 0 .. (m + n) : h[k] = IF k = 0 THEN 0 ELSE h[k - 1] + r[k].v
    BY <2>1, <2>3, <2>4, <2>5 DEF IsSum
  <2>7. h[m] = f[m]
    <3> DEFINE V == {k \in Nat : k <= m => h[k] = f[k]}
    <3>1. 0 \in V
      <4>1. 0 \in 0 .. m /\ 0 \in 0 .. (m + n)
        BY <2>1
      <4>2. h[0] = 0 /\ f[0] = 0
        BY <2>6, <4>1
      <4> QED
        BY <4>2
    <3>2. ASSUME NEW k \in Nat, k \in V PROVE k + 1 \in V
      <4> SUFFICES ASSUME k + 1 <= m PROVE h[k + 1] = f[k + 1]
        OBVIOUS
      <4>1. h[k] = f[k]
        BY <2>1, <3>2
      <4>2. /\ k + 1 \in 0 .. m /\ k + 1 \in 0 .. (m + n) /\ k + 1 \in 1 .. m
            /\ k + 1 # 0 /\ (k + 1) - 1 = k
        BY <2>1
      <4>3. h[k + 1] = h[k] + r[k + 1].v /\ f[k + 1] = f[k] + s[k + 1].v
        BY <4>2, <2>6
      <4>4. r[k + 1] = s[k + 1]
        BY <4>2, <2>1
      <4> QED
        BY <4>1, <4>3, <4>4
    <3> HIDE DEF V
    <3>3. Nat \subseteq V
      BY <3>1, <3>2, SetInduction
    <3> QED
      BY <2>1, <3>3 DEF V
  <2>8. h[m + n] = f[m] + g[n]
    <3> DEFINE V == {k \in Nat : k <= n => h[m + k] = f[m] + g[k]}
    <3>1. 0 \in V
      <4>1. 0 \in 0 .. n /\ m \in 0 .. m /\ m + 0 = m
        BY <2>1
      <4>2. g[0] = 0 /\ f[m] \in Nat
        BY <2>3, <2>6, <4>1
      <4> QED
        BY <2>7, <4>1, <4>2
    <3>2. ASSUME NEW k \in Nat, k \in V PROVE k + 1 \in V
      <4> SUFFICES ASSUME k + 1 <= n PROVE h[m + (k + 1)] = f[m] + g[k + 1]
        OBVIOUS
      <4>1. h[m + k] = f[m] + g[k]
        BY <2>1, <3>2
      <4>2. /\ k + 1 \in 0 .. n /\ m + (k + 1) \in 0 .. (m + n) /\ k + 1 \in 1 .. n
            /\ k + 1 # 0 /\ (k + 1) - 1 = k
            /\ m + (k + 1) # 0 /\ (m + (k + 1)) - 1 = m + k
            /\ m \in 0 .. m /\ k \in 0 .. n /\ m + (k + 1) \in 1 .. (m + n)
        BY <2>1
      <4>3. h[m + (k + 1)] = h[m + k] + r[m + (k + 1)].v /\ g[k + 1] = g[k] + t[k + 1].v
        BY <4>2, <2>6
      <4>4. r[m + (k + 1)] = t[k + 1] /\ r[m + (k + 1)].v \in Nat
        BY <4>2, <2>1, <2>2
      <4>5. f[m] \in Nat /\ g[k] \in Nat
        BY <4>2, <2>3, <2>4
      <4> QED
        BY <4>1, <4>3, <4>4, <4>5
    <3> HIDE DEF V
    <3>3. Nat \subseteq V
      BY <3>1, <3>2, SetInduction
    <3> QED
      BY <2>1, <3>3 DEF V
  <2> QED
    BY <2>3, <2>4, <2>5, <2>8 DEF r
<1> QED
  BY <1>1, <1>2, <1>3

-----------------------------------------------------------------------------
(* What the client makes of the reply. *)

\* Where the line that is being read begins.
LineStart(e) == Len(got[e]) - Len(line[e])

\* A line is the last that was read, and only its last byte can be LF.
LinesAre ==
    \A e \in Ends :
        /\ line[e] \in Seq(Bytes) /\ Len(line[e]) <= MaxLine /\ Len(line[e]) <= Len(got[e])
        /\ \A k \in 1 .. Len(line[e]) : line[e][k] = got[e][LineStart(e) + k]
        /\ \A k \in 1 .. (Len(line[e]) - 1) : line[e][k] # LF

ErrorStatus == {"403", "404", "501"}

\* What the server replies, and why.
ServerSays ==
    /\ sent["server"] = Request(conf.method)
    /\ spc = "request" => LineStart("server") = 0
    /\ spc = "refuse" => conf.method # GET \/ cpc = "dead"
    /\ spc \in {"request", "refuse", "header", "headers", "stat", "read", "spin"} =>
          sent["client"] = <<>> /\ out["server"] = <<>>
    /\ spc \in {"reply", "done"} => sent["client"] # <<>>
    /\ spc = "done" => out["server"] = <<>>
    /\ \/ sent["client"] = <<>>
       \/ sent["client"] = Reply("200", conf.data)
       \/ \E s \in ErrorStatus :
             /\ sent["client"] = ErrorReply(s)
             /\ conf.kind # "regular" \/ conf.method # GET \/ cpc = "dead"

\* Nothing more will come to the client.
Drained == shut["server"] /\ rbuf["client"] = <<>> /\ chan["client"] = <<>>

HeadLen == 8

\* The client has read the whole header and a part of the body.
InBody ==
    LET r == sent["client"]
        p == LineStart("client")
    IN  /\ r # <<>> /\ p >= HeadLen
        /\ length = r[3].v /\ csum = r[5].v
        /\ length_received = p - HeadLen
        /\ csum_received = Csum(SubSeq(r, HeadLen + 1, p))

InHeader ==
    LET r == sent["client"]
        p == LineStart("client")
    IN  /\ r # <<>> /\ p \in {2, 4, 6}
        /\ length = (IF p >= 4 THEN r[3].v ELSE 0)
        /\ csum = (IF p >= 6 THEN r[5].v ELSE 0)

\* The reply ended within its header.
CutOff == Drained /\ line["client"] = <<>> /\ Len(got["client"]) < HeadLen /\ length_received = 0

ClientAt ==
    /\ cpc \in {"send", "status"} => LineStart("client") = 0 /\ length = 0 /\ csum = 0
    /\ cpc \in {"send", "status", "header"} => length_received = 0 /\ csum_received = 0
    /\ cpc = "header" => InHeader \/ CutOff
    /\ cpc = "body" => InBody \/ CutOff
    /\ cpc \in {"check", "accepted", "aborted"} =>
          Drained /\ line["client"] = <<>> /\ (InBody \/ CutOff)
    /\ cpc = "accepted" => Agrees
    /\ cpc = "aborted" => ~Agrees

VInv == IInv /\ SInv /\ HttpTypeOK /\ LinesAre /\ ServerSays /\ ClientAt

\* A sequence with one more element.
LEMMA AppendFacts ==
  ASSUME NEW S, NEW s \in Seq(S), NEW x \in S
  PROVE  /\ Append(s, x) \in Seq(S)
         /\ Len(s) \in Nat /\ Len(Append(s, x)) = Len(s) + 1
         /\ \A k \in 1 .. Len(s) : Append(s, x)[k] = s[k]
         /\ Append(s, x)[Len(s) + 1] = x
OBVIOUS

\* What rio_readlineb took is the beginning of what was written.
LEMMA ReadSoFar ==
  ASSUME IInv, NEW e \in Ends
  PROVE  /\ got[e] \in Seq(Bytes) /\ sent[e] \in Seq(Bytes)
         /\ Len(got[e]) \in Nat /\ Len(sent[e]) \in Nat
         /\ Len(got[e]) <= Len(sent[e])
         /\ \A k \in 1 .. Len(got[e]) : got[e][k] = sent[e][k]
         /\ rbuf[e] = <<>> /\ chan[e] = <<>> /\ out[Peer(e)] = <<>> => got[e] = sent[e]
<1> DEFINE g == got[e]
           r == rbuf[e]
           c == chan[e]
           o == out[Peer(e)]
           y == r \o (c \o o)
<1>1. /\ g \in Seq(Bytes) /\ r \in Seq(Bytes) /\ c \in Seq(Bytes) /\ o \in Seq(Bytes)
      /\ sent[e] = g \o y /\ sent[e] \in Seq(Bytes)
  BY Peers DEF IInv, StreamTypes, StreamIntact
<1> HIDE DEF g, r, c, o
<1>2. y \in Seq(Bytes)
  BY <1>1, ConcatProperties
<1>3. r = <<>> /\ c = <<>> /\ o = <<>> => y = <<>>
  BY EmptySeq, ConcatEmptySeq
<1> HIDE DEF y
<1>4. y = <<>> => g \o y = g
  BY <1>1
<1>5. /\ Len(g) \in Nat /\ Len(y) \in Nat /\ Len(g \o y) = Len(g) + Len(y)
      /\ \A k \in 1 .. Len(g) : (g \o y)[k] = g[k]
  BY <1>1, <1>2, ConcatProperties, LenProperties
<1> QED
  BY <1>1, <1>3, <1>4, <1>5 DEF g, r, c, o

\* What the end of a line tells.
LEMMA TakeByteFacts ==
  ASSUME IInv, RioTypeOK, LinesAre, NEW e \in Ends, TakeByte(e)
  PROVE  /\ LinesAre'
         /\ LineStart(e)' = LineStart(e)
         /\ \A d \in Ends : d # e => line'[d] = line[d] /\ got'[d] = got[d]
         /\ rbuf[e] # <<>>
<1> DEFINE h == Head(rbuf[e])
           l == line[e]
           g == got[e]
<1>1. /\ rbuf[e] # <<>> /\ ~Full(e)
      /\ got' = [got EXCEPT ![e] = Append(g, h)]
      /\ line' = [line EXCEPT ![e] = Append(l, h)]
  BY DEF TakeByte
<1>2. rbuf[e] \in Seq(Bytes) /\ g \in Seq(Bytes) /\ h \in Bytes
  BY <1>1, HeadTailProperties DEF IInv, StreamTypes
<1>3. /\ l \in Seq(Bytes) /\ Len(l) <= MaxLine /\ Len(l) <= Len(g)
      /\ \A k \in 1 .. Len(l) : l[k] = g[(Len(g) - Len(l)) + k]
      /\ \A k \in 1 .. (Len(l) - 1) : l[k] # LF
  BY DEF LinesAre, LineStart
<1>4. Len(l) < MaxLine /\ \A k \in 1 .. Len(l) : l[k] # LF
  <2>1. MaxLine \in Nat \ {0}
    BY RioAssumption
  <2>2. CASE l = <<>>
    <3>1. Len(l) = 0
      BY <2>2
    <3> QED
      BY <2>1, <3>1
  <2>3. CASE l # <<>>
    <3>1. Len(l) \in Nat /\ l[Len(l)] # LF /\ Len(l) # MaxLine
      BY <1>1, <1>3, <2>3, LenProperties DEF Full
    <3>2. ASSUME NEW k \in 1 .. Len(l) PROVE l[k] # LF
      <4>1. k = Len(l) \/ k \in 1 .. (Len(l) - 1)
        BY <3>1
      <4> QED
        BY <1>3, <3>1, <4>1
    <3> QED
      BY <1>3, <2>1, <3>1, <3>2
  <2> QED
    BY <2>2, <2>3
<1>5. line'[e] = Append(l, h) /\ \A d \in Ends : d # e => line'[d] = line[d]
  BY <1>1 DEF RioTypeOK
<1>6. got'[e] = Append(g, h) /\ \A d \in Ends : d # e => got'[d] = got[d]
  BY <1>1 DEF IInv, StreamTypes
<1> HIDE DEF h, l, g
<1> DEFINE ll == Append(l, h)
           gg == Append(g, h)
<1>7. /\ ll \in Seq(Bytes) /\ Len(l) \in Nat /\ Len(ll) = Len(l) + 1
      /\ \A k \in 1 .. Len(l) : ll[k] = l[k]
      /\ ll[Len(l) + 1] = h
      /\ Len(g) \in Nat /\ Len(gg) = Len(g) + 1
      /\ \A k \in 1 .. Len(g) : gg[k] = g[k]
      /\ gg[Len(g) + 1] = h
  BY <1>2, <1>3, AppendFacts
<1> HIDE DEF ll, gg
<1>8. ASSUME NEW k \in 1 .. Len(ll) PROVE ll[k] = gg[(Len(gg) - Len(ll)) + k]
  <2>1. CASE k = Len(l) + 1
    <3>1. (Len(gg) - Len(ll)) + k = Len(g) + 1
      BY <1>7, <2>1
    <3> QED
      BY <1>7, <2>1, <3>1
  <2>2. CASE k # Len(l) + 1
    <3>1. k \in 1 .. Len(l) /\ (Len(gg) - Len(ll)) + k = (Len(g) - Len(l)) + k
      BY <1>7, <2>2
    <3>2. (Len(g) - Len(l)) + k \in 1 .. Len(g)
      BY <1>3, <1>7, <3>1
    <3> QED
      BY <1>3, <1>7, <3>1, <3>2
  <2> QED
    BY <2>1, <2>2
<1>9. \A k \in 1 .. (Len(ll) - 1) : ll[k] # LF
  BY <1>4, <1>7
<1>10. Len(ll) <= MaxLine /\ Len(ll) <= Len(gg)
  BY <1>3, <1>4, <1>7, RioAssumption
<1>11. line'[e] = ll /\ got'[e] = gg
  BY <1>5, <1>6 DEF ll, gg
<1>12. LinesAre'
  <2> SUFFICES ASSUME NEW d \in Ends
               PROVE /\ line'[d] \in Seq(Bytes) /\ Len(line'[d]) <= MaxLine
                     /\ Len(line'[d]) <= Len(got'[d])
                     /\ \A k \in 1 .. Len(line'[d]) :
                          line'[d][k] = got'[d][(Len(got'[d]) - Len(line'[d])) + k]
                     /\ \A k \in 1 .. (Len(line'[d]) - 1) : line'[d][k] # LF
    BY DEF LinesAre, LineStart
  <2>1. CASE d = e
    BY <2>1, <1>7, <1>8, <1>9, <1>10, <1>11
  <2>2. CASE d # e
    <3>1. /\ line[d] \in Seq(Bytes) /\ Len(line[d]) <= MaxLine
          /\ Len(line[d]) <= Len(got[d])
          /\ \A k \in 1 .. Len(line[d]) :
               line[d][k] = got[d][(Len(got[d]) - Len(line[d])) + k]
          /\ \A k \in 1 .. (Len(line[d]) - 1) : line[d][k] # LF
      BY DEF LinesAre, LineStart
    <3>2. line'[d] = line[d] /\ got'[d] = got[d]
      BY <2>2, <1>5, <1>6
    <3> QED
      BY <3>1, <3>2
  <2> QED
    BY <2>1, <2>2
<1>13. LineStart(e)' = LineStart(e)
  <2>1. Len(gg) - Len(ll) = Len(g) - Len(l)
    BY <1>7
  <2> QED
    BY <2>1, <1>11 DEF LineStart, g, l
<1> QED
  BY <1>1, <1>5, <1>6, <1>12, <1>13

\* The caller goes on behind the line.
LEMMA NextLineFacts ==
  ASSUME IInv, RioTypeOK, LinesAre, NEW e \in Ends, NextLine(e)
  PROVE  /\ LinesAre' /\ got' = got
         /\ line'[e] = <<>> /\ LineStart(e)' = Len(got[e])
         /\ \A d \in Ends : d # e => line'[d] = line[d] /\ LineStart(d)' = LineStart(d)
<1>1. line' = [line EXCEPT ![e] = <<>>] /\ got' = got
  BY DEF NextLine
<1>2. line'[e] = <<>> /\ \A d \in Ends : d # e => line'[d] = line[d]
  BY <1>1 DEF RioTypeOK
<1>3. /\ <<>> \in Seq(Bytes) /\ Len(<<>>) = 0
      /\ MaxLine \in Nat /\ \A d \in Ends : Len(got[d]) \in Nat
  BY RioAssumption, LenProperties DEF IInv, StreamTypes
<1>4. LinesAre'
  <2> SUFFICES ASSUME NEW d \in Ends
               PROVE /\ line'[d] \in Seq(Bytes) /\ Len(line'[d]) <= MaxLine
                     /\ Len(line'[d]) <= Len(got'[d])
                     /\ \A k \in 1 .. Len(line'[d]) :
                          line'[d][k] = got'[d][(Len(got'[d]) - Len(line'[d])) + k]
                     /\ \A k \in 1 .. (Len(line'[d]) - 1) : line'[d][k] # LF
    BY DEF LinesAre, LineStart
  <2>1. CASE d = e
    <3>1. line'[d] = <<>> /\ Len(line'[d]) = 0 /\ got'[d] = got[d]
      BY <2>1, <1>1, <1>2, <1>3
    <3>2. Len(got[d]) \in Nat /\ 0 <= MaxLine
      BY <1>3
    <3> QED
      BY <1>3, <3>1, <3>2
  <2>2. CASE d # e
    <3>1. /\ line[d] \in Seq(Bytes) /\ Len(line[d]) <= MaxLine
          /\ Len(line[d]) <= Len(got[d])
          /\ \A k \in 1 .. Len(line[d]) :
               line[d][k] = got[d][(Len(got[d]) - Len(line[d])) + k]
          /\ \A k \in 1 .. (Len(line[d]) - 1) : line[d][k] # LF
      BY DEF LinesAre, LineStart
    <3>2. line'[d] = line[d] /\ got'[d] = got[d]
      BY <2>2, <1>1, <1>2
    <3> QED
      BY <3>1, <3>2
  <2> QED
    BY <2>1, <2>2
<1>5. LineStart(e)' = Len(got[e])
  <2>1. Len(line'[e]) = 0 /\ Len(got'[e]) - 0 = Len(got[e])
    BY <1>1, <1>2, <1>3
  <2> QED
    BY <2>1 DEF LineStart
<1> QED
  BY <1>1, <1>2, <1>4, <1>5 DEF LineStart

\* No buffer takes more than it has room for.
LEMMA RioTypesStep ==
  ASSUME RioTypeOK, StreamTypes', LinesAre', NEW e \in Ends,
         \/ Transport(e) \/ NextLine(e) \/ Close(e)
         \/ (\E s : Give(e, s)) \/ UNCHANGED rio
  PROVE  RioTypeOK'
<1>0. /\ Capacity \in Nat /\ RIO_BUFSIZE \in Nat
      /\ \A d \in Ends : Len(chan[d]) \in Nat /\ Len(rbuf[d]) \in Nat
  BY RioAssumption, LenProperties DEF RioTypeOK
<1>1. line' \in [Ends -> Seq(Bytes)]
  <2>1. line' = [d \in Ends |-> line'[d]]
    BY DEF RioTypeOK, Transport, Write, Refill, TakeByte, NextLine, Close, Give, rio
  <2>2. \A d \in Ends : line'[d] \in Seq(Bytes)
    BY DEF LinesAre
  <2> QED
    BY <2>1, <2>2
<1>2. shut' \in [Ends -> BOOLEAN]
  BY DEF RioTypeOK, Transport, Write, Refill, TakeByte, NextLine, Close, Give, rio
<1>3. ASSUME NEW d \in Ends PROVE Len(line'[d]) <= MaxLine
  BY DEF LinesAre
<1>4. ASSUME NEW d \in Ends PROVE Len(chan'[d]) <= Capacity
  <2>1. CASE Write(e)
    <3>1. PICK k \in 1 .. Len(out[e]) :
             /\ Len(chan[Peer(e)]) + k <= Capacity
             /\ chan' = [chan EXCEPT ![Peer(e)] = chan[Peer(e)] \o Taken(out[e], k)]
      BY <2>1 DEF Write
    <3>2. Taken(out[e], k) \in Seq(Bytes) /\ Len(Taken(out[e], k)) = k
      <4>1. out[e] \in Seq(Bytes) /\ Len(out[e]) \in Nat
        BY LenProperties DEF RioTypeOK
      <4>2. k \in 0 .. Len(out[e]) /\ \A i \in 1 .. k : out[e][i] \in Bytes
        BY <4>1, ElementOfSeq
      <4>3. Len(SubSeq(out[e], 1, k)) = (k - 1) + 1 /\ k \in Nat
        BY <4>1, <4>2, SubSeqProperties
      <4>4. Taken(out[e], k) \in Seq(Bytes)
        BY <4>1, <4>2, TakenAndRest
      <4> QED
        BY <4>2, <4>3, <4>4 DEF Taken
    <3>3. CASE d = Peer(e)
      <4>1. chan'[d] = chan[d] \o Taken(out[e], k) /\ chan[d] \in Seq(Bytes)
        BY <3>1, <3>3 DEF RioTypeOK
      <4>2. Len(chan'[d]) = Len(chan[d]) + k
        <5> DEFINE t == Taken(out[e], k)
                   c == chan[d]
        <5>1. t \in Seq(Bytes) /\ c \in Seq(Bytes) /\ Len(t) = k /\ chan'[d] = c \o t
          BY <3>2, <4>1
        <5> HIDE DEF t, c
        <5>2. Len(c \o t) = Len(c) + Len(t)
          <6>1. t \in Seq(Bytes) /\ c \in Seq(Bytes)
            BY <5>1
          <6> QED
            BY <6>1, ConcatProperties
        <5> QED
          BY <5>1, <5>2 DEF c
      <4> QED
        BY <3>1, <3>3, <4>2
    <3>4. CASE d # Peer(e)
      BY <3>1, <3>4 DEF RioTypeOK
    <3> QED
      BY <3>3, <3>4
  <2>2. CASE Refill(e)
    <3>1. PICK k \in 1 .. Len(chan[e]) : chan' = [chan EXCEPT ![e] = Rest(chan[e], k)]
      BY <2>2 DEF Refill
    <3>2. Len(Rest(chan[e], k)) <= Len(chan[e])
      <4> DEFINE c == chan[e]
      <4>1. c \in Seq(Bytes) /\ Len(c) \in Nat
        BY LenProperties DEF RioTypeOK
      <4> HIDE DEF c
      <4>2. k \in 1 .. Len(c)
        BY DEF c
      <4>3. Len(SubSeq(c, k + 1, Len(c))) <= Len(c)
        BY <4>1, <4>2
      <4> QED
        BY <4>3 DEF Rest, c
    <3>3. CASE d = e
      <4>1. chan'[d] = Rest(chan[e], k) /\ Len(chan[e]) <= Capacity
        BY <3>1, <3>3 DEF RioTypeOK
      <4>2. chan'[d] \in Seq(Bytes)
        BY DEF StreamTypes
      <4>3. Len(chan'[d]) \in Nat
        BY <4>2, LenProperties
      <4> QED
        BY <1>0, <3>2, <4>1, <4>3
    <3>4. CASE d # e
      BY <3>1, <3>4 DEF RioTypeOK
    <3> QED
      BY <3>3, <3>4
  <2>3. CASE UNCHANGED chan
    BY <2>3 DEF RioTypeOK
  <2> QED
    BY <2>1, <2>2, <2>3 DEF Transport, TakeByte, NextLine, Close, Give, rio
<1>5. ASSUME NEW d \in Ends PROVE Len(rbuf'[d]) <= RIO_BUFSIZE
  <2>1. CASE Refill(e)
    <3>1. PICK k \in 1 .. Len(chan[e]) :
             k <= RIO_BUFSIZE /\ rbuf' = [rbuf EXCEPT ![e] = Taken(chan[e], k)]
      BY <2>1 DEF Refill
    <3>2. Len(Taken(chan[e], k)) = k
      <4>1. chan[e] \in Seq(Bytes) /\ Len(chan[e]) \in Nat
        BY LenProperties DEF RioTypeOK
      <4>2. \A i \in 1 .. k : chan[e][i] \in Bytes
        BY <4>1, ElementOfSeq
      <4>3. Len(SubSeq(chan[e], 1, k)) = (k - 1) + 1 /\ k \in Nat
        BY <4>1, <4>2, SubSeqProperties
      <4> QED
        BY <4>3 DEF Taken
    <3>3. rbuf'[e] = Taken(chan[e], k) /\ (d # e => rbuf'[d] = rbuf[d])
      BY <3>1 DEF RioTypeOK
    <3> QED
      BY <3>1, <3>2, <3>3 DEF RioTypeOK
  <2>2. CASE TakeByte(e)
    <3>1. rbuf[e] # <<>> /\ rbuf' = [rbuf EXCEPT ![e] = Tail(rbuf[e])]
      BY <2>2 DEF TakeByte
    <3>2. Len(Tail(rbuf[e])) = Len(rbuf[e]) - 1
      BY <3>1, HeadTailProperties DEF RioTypeOK
    <3>3. rbuf'[e] = Tail(rbuf[e]) /\ (d # e => rbuf'[d] = rbuf[d])
      BY <3>1 DEF RioTypeOK
    <3>4. Len(rbuf[e]) <= RIO_BUFSIZE /\ Len(rbuf[d]) <= RIO_BUFSIZE
      BY DEF RioTypeOK
    <3>5. Len(rbuf'[e]) <= RIO_BUFSIZE
      BY <1>0, <3>2, <3>3, <3>4
    <3> QED
      BY <3>3, <3>4, <3>5
  <2>3. CASE UNCHANGED rbuf
    BY <2>3 DEF RioTypeOK
  <2> QED
    BY <2>1, <2>2, <2>3 DEF Transport, Write, NextLine, Close, Give, rio
<1> QED
  BY <1>1, <1>2, <1>3, <1>4, <1>5 DEF RioTypeOK, StreamTypes

\* Every step makes one call of the I/O functions, or none.
LEMMA OneCall ==
  ASSUME [Next]_vars
  PROVE  \E e \in Ends :
            \/ Transport(e) \/ NextLine(e) \/ Close(e)
            \/ (\E s : Give(e, s)) \/ UNCHANGED rio
<1> "server" \in Ends /\ "client" \in Ends
  BY DEF Ends
<1>1. CASE Transfer("server") \/ Transfer("client")
  BY <1>1 DEF Transfer
<1>2. CASE ReadRequest \/ ReadHeader
  BY <1>2 DEF ReadRequest, ReadHeader
<1>3. CASE Refuse \/ OpenFile \/ ReadFile \/ SendFile \/ Finish \/ ServerDies \/ ServerEnds
  BY <1>3 DEF Refuse, OpenFile, ReadFile, SendFile, Finish, ServerDies, ServerEnds
<1>4. CASE Sent \/ ReadStatus \/ ReadTags \/ ReadBody \/ Check \/ ClientBreaks \/ ClientDies
  BY <1>4 DEF Sent, ReadStatus, ReadTags, ReadBody, Check, ClientBreaks, ClientDies
<1>5. CASE UNCHANGED vars
  BY <1>5 DEF vars
<1> QED
  BY <1>1, <1>2, <1>3, <1>4, <1>5 DEF Next, ServerNext, ClientGoesOn, Terminated

LEMMA LinesStep == ASSUME IInv, RioTypeOK, LinesAre, [Next]_vars PROVE LinesAre'
<1>1. PICK e \in Ends : \/ Transport(e) \/ NextLine(e) \/ Close(e)
                        \/ (\E s : Give(e, s)) \/ UNCHANGED rio
  BY OneCall
<1>2. CASE TakeByte(e)
  BY <1>2, TakeByteFacts
<1>3. CASE NextLine(e)
  BY <1>3, NextLineFacts
<1>4. CASE UNCHANGED <<line, got>>
  BY <1>4 DEF LinesAre, LineStart
<1> QED
  BY <1>1, <1>2, <1>3, <1>4 DEF Transport, Write, Refill, Close, Give, rio

\* A line's number is a number.
LEMMA TagTypes ==
  ASSUME RioTypeOK, NEW tag, NEW old \in Nat
  PROVE  TagFound(tag, old) \in Nat
<1>1. line["client"] # <<>> => line["client"][1] \in Bytes
  <2>1. line["client"] \in Seq(Bytes)
    BY DEF RioTypeOK, Ends
  <2> QED
    BY <2>1
<1> QED
  BY <1>1, HttpAssumption DEF TagFound

LEMMA HttpTypesStep ==
  ASSUME IInv, IInv', HttpTypeOK, LinesAre, LinesAre', [Next]_vars PROVE HttpTypeOK'
<1>1. RioTypeOK'
  <2>1. PICK e \in Ends : \/ Transport(e) \/ NextLine(e) \/ Close(e)
                          \/ (\E s : Give(e, s)) \/ UNCHANGED rio
    BY OneCall
  <2> QED
    BY <2>1, RioTypesStep DEF IInv, HttpTypeOK
<1>2. conf' \in Confs /\ file_buf' \in Seq(Bytes)
  <2>1. conf' \in Confs /\ conf'.data \in Seq(Bytes)
    BY HttpAssumption DEF IInv, FileRead, Confs
  <2>2. /\ Len(file_buf') \in 0 .. Len(conf'.data)
        /\ file_buf' = Taken(conf'.data, Len(file_buf'))
    BY DEF IInv, FileRead, Taken
  <2> QED
    BY <2>1, <2>2, TakenAndRest
<1>3. /\ spc' \in {"request", "refuse", "header", "headers", "stat", "read", "reply",
                   "done", "spin", "dead", "ended"}
      /\ cpc' \in {"send", "status", "header", "body", "check", "accepted", "aborted", "dead"}
  <2>1. CASE Transfer("server") \/ Transfer("client") \/ UNCHANGED vars
    BY <2>1 DEF Transfer, HttpTypeOK, vars, server, client
  <2>2. CASE ReadRequest \/ Refuse \/ ReadHeader \/ OpenFile \/ ReadFile \/ SendFile
             \/ Finish \/ ServerDies \/ ServerEnds
    BY <2>2 DEF ReadRequest, Refuse, ReadHeader, OpenFile, ReadFile, SendFile, Finish,
                ServerDies, ServerEnds, Server, HttpTypeOK, client
  <2>3. CASE Sent \/ ReadStatus \/ ReadTags \/ ReadBody \/ Check \/ ClientBreaks \/ ClientDies
    BY <2>3 DEF Sent, ReadStatus, ReadTags, ReadBody, Check, ClientBreaks, ClientDies,
                Client, HttpTypeOK, server
  <2> QED
    BY <2>1, <2>2, <2>3 DEF Next, ServerNext, ClientGoesOn, Terminated
<1>4. {length, csum, length_received, csum_received}' \subseteq Nat
  <2>0. /\ length \in Nat /\ csum \in Nat /\ length_received \in Nat /\ csum_received \in Nat
        /\ RioTypeOK
    BY DEF HttpTypeOK
  <2>1. CASE ReadTags
    BY <2>0, <2>1, TagTypes DEF ReadTags, Client
  <2>2. CASE ReadBody
    <3>1. line["client"] \in Seq(Bytes)
      BY <2>0 DEF RioTypeOK, Ends
    <3>2. Len(line["client"]) \in Nat /\ Csum(line["client"]) \in Nat
      BY <3>1, CsumFacts, LenProperties
    <3>3. /\ length_received' = length_received + Len(line["client"])
          /\ csum_received' = csum_received + Csum(line["client"])
          /\ length' = length /\ csum' = csum
      BY <2>2 DEF ReadBody
    <3> QED
      BY <2>0, <3>2, <3>3
  <2>3. CASE UNCHANGED <<length, csum, length_received, csum_received>>
    BY <2>0, <2>3
  <2>4. CASE Transfer("server") \/ Transfer("client") \/ UNCHANGED vars
    BY <2>3, <2>4 DEF Transfer, vars, client
  <2>5. CASE ReadRequest \/ Refuse \/ ReadHeader \/ OpenFile \/ ReadFile \/ SendFile
             \/ Finish \/ ServerDies \/ ServerEnds
    BY <2>3, <2>5 DEF ReadRequest, Refuse, ReadHeader, OpenFile, ReadFile, SendFile, Finish,
                ServerDies, ServerEnds, Server, client
  <2>6. CASE Sent \/ ReadStatus \/ Check \/ ClientBreaks \/ ClientDies
    BY <2>3, <2>6 DEF Sent, ReadStatus, Check, ClientBreaks, ClientDies
  <2> QED
    BY <2>1, <2>2, <2>4, <2>5, <2>6 DEF Next, ServerNext, ClientGoesOn, Terminated
<1> QED
  BY <1>1, <1>2, <1>3, <1>4 DEF HttpTypeOK

-----------------------------------------------------------------------------
\* Two sequences, one behind the other.
LEMMA ConcatFacts ==
  ASSUME NEW S, NEW s \in Seq(S), NEW t \in Seq(S)
  PROVE  /\ s \o t \in Seq(S)
         /\ Len(s) \in Nat /\ Len(t) \in Nat /\ Len(s \o t) = Len(s) + Len(t)
         /\ \A k \in 1 .. Len(s) : (s \o t)[k] = s[k]
         /\ \A k \in 1 .. Len(t) : (s \o t)[Len(s) + k] = t[k]
OBVIOUS

\* A reply is a header of four lines and a body.
LEMMA ReplyShape ==
  ASSUME NEW status, NEW body \in Seq(Bytes), Reply(status, body) \in Seq(Bytes)
  PROVE  LET r == Reply(status, body)
         IN  /\ Len(r) = HeadLen + Len(body)
             /\ r[1] = B(status, 0) /\ r[2] = LF
             /\ r[3] = B("length", Len(body)) /\ r[4] = LF
             /\ r[5] = B("csum", Csum(body)) /\ r[6] = LF
             /\ r[7] = B("CR", 13) /\ r[8] = LF
             /\ SubSeq(r, HeadLen + 1, Len(r)) = body
<1> DEFINE b1 == B(status, 0)
           b3 == B("length", Len(body))
           b5 == B("csum", Csum(body))
           b7 == B("CR", 13)
           S == Bytes \cup {b1, LF, b3, b5, b7}
           h == <<b1, LF, b3, LF, b5, LF>>
           e == <<b7, LF>>
           r == Reply(status, body)
<1>1. r = (h \o e) \o body
  BY DEF Reply, Blank
<1>2. b1 \in S /\ b3 \in S /\ b5 \in S /\ b7 \in S /\ LF \in S /\ body \in Seq(S)
  <2>1. \A k \in 1 .. Len(body) : body[k] \in S
    BY ElementOfSeq
  <2> QED
    BY <2>1
<1> HIDE DEF b1, b3, b5, b7, S, r
<1>3. /\ h \in Seq(S) /\ e \in Seq(S) /\ Len(h) = 6 /\ Len(e) = 2
      /\ h[1] = b1 /\ h[2] = LF /\ h[3] = b3 /\ h[4] = LF /\ h[5] = b5 /\ h[6] = LF
      /\ e[1] = b7 /\ e[2] = LF
  BY <1>2
<1> HIDE DEF h, e
<1> DEFINE g == h \o e
<1>4. /\ g \in Seq(S) /\ Len(g) = 8
      /\ \A k \in 1 .. 6 : g[k] = h[k]
      /\ \A k \in 1 .. 2 : g[6 + k] = e[k]
  <2>1. /\ g \in Seq(S) /\ Len(g) = Len(h) + Len(e)
        /\ \A k \in 1 .. Len(h) : g[k] = h[k]
        /\ \A k \in 1 .. Len(e) : g[Len(h) + k] = e[k]
    <3>1. h \in Seq(S) /\ e \in Seq(S)
      BY <1>3
    <3> QED
      BY <3>1, ConcatFacts
  <2> HIDE DEF g
  <2> QED
    BY <1>3, <2>1
<1> HIDE DEF g
<1>5. /\ g[1] = b1 /\ g[2] = LF /\ g[3] = b3 /\ g[4] = LF /\ g[5] = b5 /\ g[6] = LF
      /\ g[7] = b7 /\ g[8] = LF
  <2>1. g[1] = h[1] /\ g[2] = h[2] /\ g[3] = h[3] /\ g[4] = h[4] /\ g[5] = h[5] /\ g[6] = h[6]
    BY <1>4
  <2>2. g[6 + 1] = e[1] /\ g[6 + 2] = e[2]
    BY <1>4
  <2> QED
    BY <1>3, <2>1, <2>2
<1> DEFINE n == Len(body)
           s == g \o body
<1>6. n \in Nat
  BY <1>2, LenProperties
<1>7. /\ s \in Seq(S) /\ Len(s) = 8 + n
      /\ \A k \in 1 .. 8 : s[k] = g[k]
  <2>1. /\ s \in Seq(S) /\ Len(s) = Len(g) + Len(body)
        /\ \A k \in 1 .. Len(g) : s[k] = g[k]
    <3>1. g \in Seq(S) /\ body \in Seq(S)
      BY <1>2, <1>4
    <3> QED
      BY <3>1, ConcatFacts
  <2> HIDE DEF s
  <2> QED
    BY <1>4, <2>1
<1>8. SubSeq(s, 9, 8 + n) = body
  <2>1. CASE n = 0
    <3>1. body = <<>>
      BY <1>2, <2>1, EmptySeq
    <3>2. SubSeq(s, 9, 8) = <<>>
      BY SubSeqEmpty
    <3> QED
      BY <2>1, <3>1, <3>2
  <2>2. CASE n > 0
    <3>0. g \in Seq(S) /\ body \in Seq(S) /\ Len(g) = 8 /\ Len(body) = n
      BY <1>2, <1>4
    <3>1. SubSeq(s, 9, 8 + n) = SubSeq(body, 1, n)
      <4>1. 9 \in (Len(g) + 1) .. (Len(g) + Len(body)) /\ 8 + n \in (Len(g) + 1) .. (Len(g) + Len(body))
        BY <3>0, <1>6, <2>2
      <4>2. SubSeq(g \o body, 9, 8 + n) = SubSeq(body, 9 - Len(g), (8 + n) - Len(g))
        <5>1. g \in Seq(S) /\ body \in Seq(S)
          BY <3>0
        <5> HIDE DEF n
        <5> QED
          BY <4>1, <5>1, SubSeqOfConcat2
      <4>3. 9 - Len(g) = 1 /\ (8 + n) - Len(g) = n
        BY <1>6, <3>0
      <4> QED
        BY <4>2, <4>3
    <3>2. SubSeq(body, 1, n) = body
      BY <3>0, SubSeqFull
    <3> QED
      BY <3>1, <3>2
  <2> HIDE DEF s, n
  <2> QED
    BY <1>6, <2>1, <2>2
<1>9. r = s
  BY <1>1 DEF g
<1> HIDE DEF s, n
<1> QED
  BY <1>5, <1>7, <1>8, <1>9 DEF HeadLen, b1, b3, b5, b7, n, r

\* A request begins with its method.
LEMMA RequestShape ==
  ASSUME NEW m
  PROVE  Request(m)[1] = m
<1> DEFINE u == B("uri", 0)
           v == B("host", 0)
           c == B("CR", 13)
           S == {m, u, v, c, LF}
<1> HIDE DEF u, v, c
<1>1. /\ <<m, u, LF, v, LF>> \in Seq(S) /\ <<c, LF>> \in Seq(S)
      /\ Len(<<m, u, LF, v, LF>>) = 5 /\ Len(<<c, LF>>) = 2
  OBVIOUS
<1>2. (<<m, u, LF, v, LF>> \o <<c, LF>>)[1] = m
  BY <1>1, ConcatProperties
<1> QED
  BY <1>2 DEF Request, Blank, u, v, c

\* What the server replies is the file or an error.
LEMMA SentShape ==
  ASSUME IInv, ServerSays, sent["client"] # <<>>
  PROVE  LET r == sent["client"]
         IN  /\ r \in Seq(Bytes) /\ Len(r) \in Nat /\ Len(r) >= HeadLen
             /\ r[1] # LF /\ r[1].k # "CR" /\ r[2] = LF
             /\ r[3] = B("length", Len(r) - HeadLen) /\ r[4] = LF
             /\ r[5] = B("csum", Csum(SubSeq(r, HeadLen + 1, Len(r)))) /\ r[6] = LF
             /\ r[7] = B("CR", 13) /\ r[8] = LF
<1> DEFINE r == sent["client"]
<1>1. PICK status \in {"200"} \cup ErrorStatus, body \in Seq(Bytes) : r = Reply(status, body)
  <2>1. CASE r = Reply("200", conf.data)
    <3>1. conf.data \in Seq(Bytes)
      BY HttpAssumption DEF IInv, FileRead, Confs
    <3> QED
      BY <2>1, <3>1
  <2>2. CASE \E s \in ErrorStatus : r = ErrorReply(s)
    <3>1. ErrorText \in Seq(Bytes)
      BY HttpAssumption
    <3> QED
      BY <2>2, <3>1 DEF ErrorReply
  <2> QED
    BY <2>1, <2>2 DEF ServerSays
<1>2. r \in Seq(Bytes) /\ r = Reply(status, body)
  BY <1>1 DEF IInv, StreamTypes, Ends
<1>3. /\ Len(r) = HeadLen + Len(body)
      /\ r[1] = B(status, 0) /\ r[2] = LF
      /\ r[3] = B("length", Len(body)) /\ r[4] = LF
      /\ r[5] = B("csum", Csum(body)) /\ r[6] = LF
      /\ r[7] = B("CR", 13) /\ r[8] = LF
      /\ SubSeq(r, HeadLen + 1, Len(r)) = body
  BY <1>2, ReplyShape
<1>4. B(status, 0) # LF /\ B(status, 0).k # "CR"
  <2>1. LF.k = "LF" /\ B(status, 0).k = status
    BY HttpAssumption DEF B
  <2> QED
    BY <2>1 DEF ErrorStatus
<1>5. Len(body) \in Nat
  BY LenProperties
<1> HIDE DEF r
<1>6. Len(r) \in Nat /\ Len(r) >= HeadLen /\ Len(body) = Len(r) - HeadLen
  BY <1>3, <1>5 DEF HeadLen
<1>7. /\ r[3] = B("length", Len(r) - HeadLen)
      /\ r[5] = B("csum", Csum(SubSeq(r, HeadLen + 1, Len(r))))
  BY <1>3, <1>6
<1> QED
  BY <1>2, <1>3, <1>4, <1>6, <1>7 DEF r

\* What the transport of bytes leaves as it is.
LEMMA TransferFacts ==
  ASSUME IInv, RioTypeOK, LinesAre, NEW e \in Ends, Transfer(e)
  PROVE  /\ UNCHANGED <<conf, server, client, shut, sent>>
         /\ \A d \in Ends : LineStart(d)' = LineStart(d)
         /\ \A d \in Ends : out[d] = <<>> => out'[d] = <<>>
         /\ Drained => Drained' /\ line'["client"] = line["client"] /\ got'["client"] = got["client"]
<1>0. /\ "client" \in Ends /\ Peer("server") = "client" /\ Peer("client") = "server"
      /\ Len(<<>>) = 0
  BY DEF Ends, Peer
<1>1. UNCHANGED <<conf, server, client, shut, sent>>
  BY DEF Transfer, Transport, Write, Refill, TakeByte
<1>2. CASE Write(e)
  <2>1. UNCHANGED <<line, got, rbuf>> /\ out[e] # <<>> /\ ~shut[e] /\ ~shut[Peer(e)]
    BY <1>0, <1>2 DEF Write
  <2>2. /\ \A d \in Ends : d # e => out'[d] = out[d]
        /\ \A d \in Ends : d # Peer(e) => chan'[d] = chan[d]
    BY <1>2 DEF Write, RioTypeOK
  <2>3. Drained => Drained'
    <3>1. SUFFICES ASSUME Drained PROVE Drained'
      OBVIOUS
    <3>2. e # "server" /\ Peer(e) # "server"
      BY <2>1, <3>1 DEF Drained
    <3> QED
      BY <1>0, <3>2 DEF Ends
  <2> QED
    BY <1>1, <2>1, <2>2, <2>3 DEF LineStart
<1>3. CASE Refill(e)
  <2>1. UNCHANGED <<line, got, out>> /\ chan[e] # <<>>
    BY <1>0, <1>3 DEF Refill
  <2>2. \A d \in Ends : d # e => rbuf'[d] = rbuf[d] /\ chan'[d] = chan[d]
    BY <1>3 DEF Refill, RioTypeOK
  <2>3. Drained => Drained'
    BY <1>0, <1>1, <2>1, <2>2 DEF Drained
  <2> QED
    BY <1>1, <2>1, <2>3 DEF LineStart
<1>4. CASE TakeByte(e)
  <2>1. /\ LineStart(e)' = LineStart(e)
        /\ \A d \in Ends : d # e => line'[d] = line[d] /\ got'[d] = got[d]
        /\ rbuf[e] # <<>>
    BY <1>4, TakeByteFacts
  <2>2. UNCHANGED <<out, chan>> /\ \A d \in Ends : d # e => rbuf'[d] = rbuf[d]
    BY <1>4 DEF TakeByte, RioTypeOK
  <2>3. \A d \in Ends : LineStart(d)' = LineStart(d)
    BY <2>1 DEF LineStart
  <2>4. Drained => Drained' /\ line'["client"] = line["client"] /\ got'["client"] = got["client"]
    BY <1>0, <1>1, <2>1, <2>2 DEF Drained
  <2> QED
    BY <1>1, <2>2, <2>3, <2>4
<1> QED
  BY <1>2, <1>3, <1>4 DEF Transfer, Transport

\* A method other than GET was sent, or the client has gone.
LEMMA MethodFacts ==
  ASSUME IInv, LinesAre, ServerSays, ClosedLast,
         spc = "request", Returned("server"), MethodRead # {GET}
  PROVE  conf.method # GET \/ cpc = "dead"
<1>0. "server" \in Ends /\ Peer("server") = "client"
  BY DEF Ends, Peer
<1>1. CASE line["server"] = <<>>
  <2>1. shut["client"]
    BY <1>0, <1>1, EmptyLine
  <2> QED
    BY <2>1 DEF ClosedLast
<1>2. CASE line["server"] # <<>>
  <2>1. /\ line["server"] \in Seq(Bytes) /\ LineStart("server") = 0
        /\ \A k \in 1 .. Len(line["server"]) : line["server"][k] = got["server"][LineStart("server") + k]
        /\ Len(line["server"]) <= Len(got["server"])
    BY <1>0 DEF LinesAre, ServerSays
  <2>2. Len(line["server"]) \in Nat \ {0}
    BY <1>2, <2>1, LenProperties, EmptySeq
  <2>3. line["server"][1] = got["server"][1] /\ 1 \in 1 .. Len(got["server"])
    <3>1. 1 \in 1 .. Len(line["server"]) /\ LineStart("server") + 1 = 1
      BY <2>1, <2>2
    <3>2. Len(got["server"]) \in Nat
      BY <1>0, ReadSoFar
    <3> QED
      BY <2>1, <2>2, <3>1, <3>2
  <2>4. got["server"][1] = sent["server"][1]
    BY <1>0, <2>3, ReadSoFar
  <2>5. sent["server"][1] = conf.method
    BY RequestShape DEF ServerSays
  <2> QED
    BY <1>2, <2>3, <2>4, <2>5 DEF MethodRead
<1> QED
  BY <1>1, <1>2

\* What Rio_write is given is what is sent.
LEMMA GiveFacts ==
  ASSUME IInv, RioTypeOK, sent["client"] = <<>>, NEW s \in Seq(Bytes), Give("server", s)
  PROVE  /\ sent'["client"] = s /\ sent'["server"] = sent["server"]
         /\ UNCHANGED <<chan, rbuf, line, shut, got>>
<1>1. /\ sent' = [sent EXCEPT !["client"] = <<>> \o s]
      /\ UNCHANGED <<chan, rbuf, line, shut, got>>
  BY DEF Give, Peer
<1>2. <<>> \o s = s
  BY ConcatEmptySeq
<1> QED
  BY <1>1, <1>2 DEF RioTypeOK, Ends

LEMMA RepliesNotEmpty ==
  ASSUME FileRead
  PROVE  /\ \A status \in ErrorStatus : ErrorReply(status) # <<>> /\ ErrorReply(status) \in Seq(Bytes)
         /\ Len(file_buf) = Len(conf.data) =>
               /\ file_buf = conf.data
               /\ Reply("200", file_buf) # <<>> /\ Reply("200", file_buf) \in Seq(Bytes)
<1>1. ASSUME NEW status, NEW body \in Seq(Bytes), Reply(status, body) \in Seq(Bytes)
      PROVE  Reply(status, body) # <<>>
  <2>1. Len(Reply(status, body)) = HeadLen + Len(body)
    BY <1>1, ReplyShape
  <2>2. Len(body) \in Nat /\ Len(<<>>) = 0
    BY LenProperties
  <2> QED
    BY <2>1, <2>2 DEF HeadLen
<1>2. conf.data \in Seq(Bytes)
  BY HttpAssumption DEF FileRead, Confs
<1>3. Len(file_buf) = Len(conf.data) => file_buf = conf.data
  BY <1>2, SubSeqFull DEF FileRead
<1>4. \A status \in ErrorStatus : ErrorReply(status) \in Seq(Bytes)
  BY HttpAssumption DEF ErrorStatus
<1>5. \A status \in ErrorStatus : ErrorReply(status) # <<>>
  BY <1>1, <1>4, HttpAssumption DEF ErrorReply
<1> QED
  BY <1>1, <1>2, <1>3, <1>4, <1>5, RepliesAreBytes

LEMMA ServerSaysStep ==
  ASSUME IInv, RioTypeOK, LinesAre, ClosedLast, ServerSays, [Next]_vars
  PROVE  ServerSays'
<1>0. "server" \in Ends /\ "client" \in Ends
  BY DEF Ends
<1>a. ErrorStatus = {"403", "404", "501"}
  BY DEF ErrorStatus
<1>1. CASE Transfer("server") \/ Transfer("client")
  <2>1. /\ UNCHANGED <<conf, spc, cpc, sent>>
        /\ LineStart("server")' = LineStart("server")
        /\ out["server"] = <<>> => out'["server"] = <<>>
    BY <1>0, <1>1, TransferFacts DEF server, client
  <2> QED
    BY <2>1 DEF ServerSays
<1>2. CASE ReadRequest
  <2>1. /\ UNCHANGED <<conf, cpc, sent, out>> /\ spc = "request" /\ Returned("server")
        /\ spc' = "header" \/ (spc' = "refuse" /\ MethodRead # {GET})
    BY <1>2 DEF ReadRequest, Server, NextLine, client
  <2>2. spc' = "refuse" => conf.method # GET \/ cpc = "dead"
    BY <2>1, MethodFacts
  <2> QED
    BY <2>1, <2>2 DEF ServerSays
<1>3. CASE Refuse
  <2>1. /\ UNCHANGED <<conf, cpc>> /\ spc = "refuse" /\ spc' = "reply"
        /\ Give("server", ErrorReply("501"))
    BY <1>3 DEF Refuse, Server, client
  <2>2. ErrorReply("501") # <<>> /\ ErrorReply("501") \in Seq(Bytes)
    BY <1>a, RepliesNotEmpty DEF IInv
  <2>3. sent'["client"] = ErrorReply("501") /\ sent'["server"] = sent["server"]
    BY <2>1, <2>2, GiveFacts DEF ServerSays
  <2> QED
    BY <1>a, <2>1, <2>2, <2>3 DEF ServerSays
<1>4. CASE ReadHeader
  <2>1. /\ UNCHANGED <<conf, cpc, sent, out>> /\ spc \in {"header", "headers"}
        /\ spc' \in {"stat", "headers", "spin"}
    BY <1>4 DEF ReadHeader, Server, NextLine, client
  <2> QED
    BY <2>1 DEF ServerSays
<1>5. CASE OpenFile
  <2>0. UNCHANGED <<conf, cpc>> /\ spc = "stat"
    BY <1>5 DEF OpenFile, Server, client
  <2>1. CASE spc' \in {"read", "dead"} /\ UNCHANGED <<sent, out>>
    BY <2>0, <2>1 DEF ServerSays
  <2>2. ASSUME NEW status \in {"403", "404"}, spc' = "reply", conf.kind # "regular",
               Give("server", ErrorReply(status))
        PROVE  ServerSays'
    <3>1. ErrorReply(status) # <<>> /\ ErrorReply(status) \in Seq(Bytes)
      BY <1>a, RepliesNotEmpty DEF IInv
    <3>2. sent'["client"] = ErrorReply(status) /\ sent'["server"] = sent["server"]
      BY <2>0, <2>2, <3>1, GiveFacts DEF ServerSays
    <3> QED
      BY <1>a, <2>0, <2>2, <3>1, <3>2 DEF ServerSays
  <2> QED
    BY <1>5, <2>1, <2>2 DEF OpenFile, Server, Close, rio
<1>6. CASE ReadFile
  <2>1. UNCHANGED <<conf, cpc, sent, out>> /\ spc = "read" /\ spc' = "read"
    BY <1>6 DEF ReadFile, Server, client, rio
  <2> QED
    BY <2>1 DEF ServerSays
<1>7. CASE SendFile
  <2>1. /\ UNCHANGED <<conf, cpc>> /\ spc = "read" /\ spc' = "reply"
        /\ Give("server", Reply("200", file_buf)) /\ Len(file_buf) = Len(conf.data)
    BY <1>7 DEF SendFile, Server, client
  <2>2. /\ file_buf = conf.data
        /\ Reply("200", file_buf) # <<>> /\ Reply("200", file_buf) \in Seq(Bytes)
    BY <2>1, RepliesNotEmpty DEF IInv
  <2>3. sent'["client"] = Reply("200", conf.data) /\ sent'["server"] = sent["server"]
    BY <2>1, <2>2, GiveFacts DEF ServerSays
  <2> QED
    BY <2>1, <2>2, <2>3 DEF ServerSays
<1>8. CASE Finish \/ ServerDies \/ ServerEnds
  <2>1. /\ UNCHANGED <<conf, cpc, sent, out>>
        /\ \/ spc' \in {"dead", "ended"}
           \/ spc = "reply" /\ spc' = "done" /\ out["server"] = <<>>
    BY <1>8 DEF Finish, ServerDies, ServerEnds, Server, Close, client
  <2> QED
    BY <2>1 DEF ServerSays
<1>9. CASE Sent \/ ReadStatus \/ ReadTags \/ ReadBody \/ Check \/ ClientBreaks \/ ClientDies
  <2>1. UNCHANGED <<conf, spc, sent, out>> /\ cpc # "dead"
    BY <1>9 DEF Sent, ReadStatus, ReadTags, ReadBody, Check, ClientBreaks, ClientDies,
                Client, NextLine, Close, rio, server
  <2>2. LineStart("server")' = LineStart("server")
    <3>1. CASE NextLine("client")
      BY <1>0, <3>1, NextLineFacts
    <3>2. CASE UNCHANGED <<line, got>>
      BY <3>2 DEF LineStart
    <3> QED
      BY <1>9, <3>1, <3>2 DEF Sent, ReadStatus, ReadTags, ReadBody, Check, ClientBreaks,
                              ClientDies, Close, rio
  <2> QED
    BY <2>1, <2>2 DEF ServerSays
<1>10. CASE UNCHANGED vars
  <2>1. UNCHANGED <<conf, spc, cpc, sent, out, line, got>>
    BY <1>10 DEF vars, rio, server, client
  <2> QED
    BY <2>1 DEF ServerSays, LineStart
<1> QED
  BY <1>1, <1>2, <1>3, <1>4, <1>5, <1>6, <1>7, <1>8, <1>9, <1>10
     DEF Next, ServerNext, ClientGoesOn, Terminated

\* A line of the header is a byte and LF; the stream ends before one or after
\* the first byte of it, if it ends in the header.
LEMMA HeaderLine ==
  ASSUME IInv, RioTypeOK, LinesAre, ServerSays, Returned("client"),
         LineStart("client") \in {0, 2, 4, 6}
  PROVE  LET r == sent["client"]
             l == line["client"]
             p == LineStart("client")
         IN  /\ Len(l) \in Nat /\ Len(got["client"]) = p + Len(l)
             /\ l # <<>> <=> Len(l) >= 1
             /\ l # <<>> => r # <<>> /\ l[1] = r[p + 1]
             /\ \/ Len(l) = 2 /\ l[2] = LF /\ r # <<>>
                \/ Len(l) <= 1 /\ Eof("client")
<1> DEFINE r == sent["client"]
           l == line["client"]
           g == got["client"]
           p == LineStart("client")
<1>0. "client" \in Ends /\ <<>> \in Seq(Bytes) /\ Len(<<>>) = 0 /\ MaxLine \in Nat
      /\ MaxLine >= 2
  BY RioAssumption, HttpAssumption DEF Ends
<1>1. /\ l \in Seq(Bytes) /\ Len(l) \in Nat /\ p = Len(g) - Len(l)
      /\ \A k \in 1 .. Len(l) : l[k] = g[p + k]
      /\ \A k \in 1 .. (Len(l) - 1) : l[k] # LF
  BY <1>0, LenProperties DEF LinesAre, LineStart
<1>2. /\ Len(g) \in Nat /\ Len(r) \in Nat /\ Len(g) <= Len(r)
      /\ \A k \in 1 .. Len(g) : g[k] = r[k]
  BY <1>0, ReadSoFar
<1>3. p \in {0, 2, 4, 6}
  OBVIOUS
<1>4. l # <<>> <=> Len(l) >= 1
  BY <1>0, <1>1, EmptySeq
<1>5. (Full("client") <=> l # <<>> /\ (l[Len(l)] = LF \/ Len(l) = MaxLine))
      /\ (Full("client") \/ Eof("client"))
  BY DEF Full, Returned
<1>6. r # <<>> => /\ r[1] # LF /\ r[2] = LF /\ r[3] # LF /\ r[4] = LF
                  /\ r[5] # LF /\ r[6] = LF /\ r[7] # LF /\ r[8] = LF
  <2>1. LF.k = "LF"
    BY HttpAssumption DEF B
  <2>2. \A v : B("length", v) # LF /\ B("csum", v) # LF /\ B("CR", v) # LF
    <3>1. \A v : B("length", v).k = "length" /\ B("csum", v).k = "csum" /\ B("CR", v).k = "CR"
      BY DEF B
    <3> QED
      BY <2>1, <3>1
  <2> QED
    BY <2>2, SentShape
<1> HIDE DEF r, l, g, p
<1>7. Len(g) = p + Len(l)
  BY <1>1, <1>2, <1>3
<1>8. \A k \in 1 .. Len(l) : l[k] = r[p + k]
  <2> SUFFICES ASSUME NEW k \in 1 .. Len(l) PROVE l[k] = r[p + k]
    OBVIOUS
  <2>1. p + k \in 1 .. Len(g)
    BY <1>1, <1>3, <1>7
  <2> QED
    BY <1>1, <1>2, <2>1
<1>9. l # <<>> => r # <<>> /\ l[1] = r[p + 1] /\ l[1] # LF
  <2> SUFFICES ASSUME l # <<>> PROVE r # <<>> /\ l[1] = r[p + 1] /\ l[1] # LF
    OBVIOUS
  <2>1. 1 \in 1 .. Len(l) /\ Len(r) >= 1
    BY <1>1, <1>2, <1>3, <1>4, <1>7
  <2>2. r # <<>>
    BY <1>0, <2>1
  <2>3. l[1] = r[p + 1]
    BY <1>8, <2>1
  <2>4. r[p + 1] # LF
    BY <1>3, <1>6, <2>2
  <2> QED
    BY <2>2, <2>3, <2>4
<1>10. Len(l) >= 2 => l[2] = LF /\ r # <<>>
  <2> SUFFICES ASSUME Len(l) >= 2 PROVE l[2] = LF /\ r # <<>>
    OBVIOUS
  <2>1. 2 \in 1 .. Len(l) /\ r # <<>>
    BY <1>1, <1>4, <1>9
  <2>2. r[p + 2] = LF
    BY <1>3, <1>6, <2>1
  <2> QED
    BY <1>8, <2>1, <2>2
<1>11. Len(l) <= 2
  <2>1. Len(l) >= 3 => 2 \in 1 .. (Len(l) - 1) /\ Len(l) >= 2
    BY <1>1
  <2>2. Len(l) >= 3 => FALSE
    BY <1>1, <1>10, <2>1
  <2> QED
    BY <1>1, <2>2
<1>12. Len(l) = 1 => ~Full("client")
  <2> SUFFICES ASSUME Len(l) = 1 PROVE ~Full("client")
    OBVIOUS
  <2>1. l # <<>> /\ Len(l) # MaxLine
    BY <1>0, <1>4
  <2> QED
    BY <1>5, <1>9, <2>1
<1>13. \/ Len(l) = 2 /\ l[2] = LF /\ r # <<>>
       \/ Len(l) <= 1 /\ Eof("client")
  <2>0. Len(l) \in Nat
    BY <1>1
  <2>1. Len(l) = 0 \/ Len(l) = 1 \/ Len(l) = 2
    <3>1. \A n \in Nat : n <= 2 => n = 0 \/ n = 1 \/ n = 2
      OBVIOUS
    <3> QED
      BY <1>11, <2>0, <3>1
  <2>2. Len(l) = 0 => ~Full("client")
    BY <1>4, <1>5
  <2> QED
    BY <1>5, <1>10, <1>12, <2>0, <2>1, <2>2
<1> QED
  BY <1>1, <1>4, <1>7, <1>9, <1>13 DEF r, l, g, p

\* The client stays where it is in the reply.
LEMMA ClientAtKept ==
  ASSUME ClientAt, UNCHANGED <<client, conf>>, sent'["client"] = sent["client"],
         LineStart("client")' = LineStart("client"),
         Drained => Drained' /\ line'["client"] = line["client"] /\ got'["client"] = got["client"]
  PROVE  ClientAt'
<1>1. UNCHANGED <<cpc, length, csum, length_received, csum_received>>
  BY DEF client
<1>2. InBody' <=> InBody
  BY <1>1 DEF InBody
<1>3. InHeader' <=> InHeader
  BY <1>1 DEF InHeader
<1>4. CutOff => CutOff'
  BY <1>1 DEF CutOff
<1>5. Agrees' <=> Agrees
  BY <1>1 DEF Agrees
<1> QED
  BY <1>1, <1>2, <1>3, <1>4, <1>5 DEF ClientAt

\* The end of the stream: the client has all there will ever be.
LEMMA EndIsDrained ==
  ASSUME IInv, RioTypeOK, LinesAre, Eof("client"), NextLine("client")
  PROVE  Drained' /\ line'["client"] = <<>> /\ got' = got
<1>1. "client" \in Ends /\ Peer("client") = "server"
  BY DEF Ends, Peer
<1>2. line'["client"] = <<>> /\ got' = got
  BY <1>1, NextLineFacts
<1>3. UNCHANGED <<chan, rbuf, shut>>
  BY DEF NextLine
<1> QED
  BY <1>1, <1>2, <1>3 DEF Eof, Drained

\* A byte that is not CR does not begin the empty line.
LEMMA NotBlank == \A l : l = Blank => Len(l) = 2 /\ l[1] = B("CR", 13)
BY DEF Blank

LEMMA ReadStatusStep ==
  ASSUME IInv, RioTypeOK, LinesAre, ServerSays, ClientAt, ReadStatus
  PROVE  ClientAt'
<1> DEFINE l == line["client"]
           p == LineStart("client")
<1>0. "client" \in Ends /\ Len(<<>>) = 0
  BY DEF Ends
<1>1. /\ Returned("client") /\ NextLine("client") /\ cpc = "status"
      /\ cpc' = (IF l \in {<<>>, Blank} THEN "body" ELSE "header")
      /\ UNCHANGED <<conf, length, csum, length_received, csum_received, sent>>
  BY DEF ReadStatus, Client, NextLine
<1>2. /\ p = 0 /\ length = 0 /\ csum = 0 /\ length_received = 0 /\ csum_received = 0
  BY <1>1 DEF ClientAt
<1>3. /\ Len(l) \in Nat /\ Len(got["client"]) = p + Len(l)
      /\ l # <<>> <=> Len(l) >= 1
      /\ l # <<>> => sent["client"] # <<>> /\ l[1] = sent["client"][p + 1]
      /\ \/ Len(l) = 2 /\ sent["client"] # <<>>
         \/ Len(l) <= 1 /\ Eof("client")
  BY <1>1, <1>2, HeaderLine
<1>4. line'["client"] = <<>> /\ LineStart("client")' = Len(got["client"]) /\ got' = got
  BY <1>0, <1>1, NextLineFacts
<1>5. CASE Len(l) = 2 /\ sent["client"] # <<>>
  <2>1. l # <<>> /\ LineStart("client")' = 2
    BY <1>0, <1>2, <1>3, <1>4, <1>5
  <2>2. l # Blank
    <3>1. l[1].k # "CR" /\ B("CR", 13).k = "CR"
      BY <1>2, <1>3, <2>1, SentShape DEF B
    <3> QED
      BY <3>1, NotBlank
  <2>3. cpc' = "header" /\ InHeader'
    BY <1>1, <1>2, <1>5, <2>1, <2>2 DEF InHeader
  <2> QED
    BY <1>1, <1>2, <2>3 DEF ClientAt
<1>6. CASE Len(l) <= 1 /\ Eof("client")
  <2>1. Drained' /\ Len(got'["client"]) < HeadLen
    BY <1>1, <1>2, <1>3, <1>4, <1>6, EndIsDrained DEF HeadLen
  <2>2. CutOff'
    BY <1>1, <1>2, <1>4, <2>1 DEF CutOff
  <2>3. cpc' = "body" \/ cpc' = "header"
    BY <1>1
  <2> QED
    BY <1>1, <1>2, <2>2, <2>3 DEF ClientAt
<1> QED
  BY <1>3, <1>5, <1>6

LEMMA ReadTagsStep ==
  ASSUME IInv, RioTypeOK, LinesAre, ServerSays, ClientAt, ReadTags
  PROVE  ClientAt'
<1> DEFINE l == line["client"]
           p == LineStart("client")
           r == sent["client"]
<1>0. "client" \in Ends /\ Len(<<>>) = 0
  BY DEF Ends
<1>1. /\ Returned("client") /\ NextLine("client") /\ cpc = "header"
      /\ cpc' = (IF l \in {<<>>, Blank} THEN "body" ELSE "header")
      /\ length' = TagFound("length", length)
      /\ csum' = TagFound("csum", csum)
      /\ UNCHANGED <<conf, length_received, csum_received, sent>>
  BY DEF ReadTags, Client, NextLine
<1>2. length_received' = 0 /\ csum_received' = 0 /\ (InHeader \/ CutOff)
      /\ cpc' \in {"body", "header"}
  BY <1>1 DEF ClientAt
<1>3. line'["client"] = <<>> /\ LineStart("client")' = Len(got["client"]) /\ got' = got
  BY <1>0, <1>1, NextLineFacts
<1>4. CASE CutOff
  <2>1. Drained' /\ l = <<>> /\ Len(got'["client"]) < HeadLen
    BY <1>1, <1>3, <1>4 DEF CutOff, Drained, NextLine
  <2>2. CutOff' /\ cpc' = "body"
    BY <1>1, <1>2, <1>3, <2>1 DEF CutOff
  <2> QED
    BY <2>2 DEF ClientAt
<1>5. CASE InHeader
  <2>0. /\ r # <<>> /\ p \in {2, 4, 6}
        /\ length = (IF p >= 4 THEN r[3].v ELSE 0)
        /\ csum = (IF p >= 6 THEN r[5].v ELSE 0)
    BY <1>5 DEF InHeader
  <2>1. /\ Len(l) \in Nat /\ Len(got["client"]) = p + Len(l)
        /\ l # <<>> <=> Len(l) >= 1
        /\ l # <<>> => l[1] = r[p + 1]
        /\ \/ Len(l) = 2 /\ l[2] = LF
           \/ Len(l) <= 1 /\ Eof("client")
    BY <1>1, <2>0, HeaderLine
  <2>2. CASE Len(l) <= 1 /\ Eof("client")
    <3>1. Drained' /\ Len(got'["client"]) < HeadLen
      BY <1>1, <1>3, <2>0, <2>1, <2>2, EndIsDrained DEF HeadLen
    <3>2. CutOff'
      BY <1>2, <1>3, <3>1 DEF CutOff
    <3> QED
      BY <1>2, <3>2 DEF ClientAt
  <2>3. CASE Len(l) = 2 /\ l[2] = LF
    <3>1. /\ l # <<>> /\ l[1] = r[p + 1]
          /\ LineStart("client")' = p + 2
      BY <1>0, <1>3, <2>1, <2>3
    <3>2. /\ r[3] = B("length", Len(r) - HeadLen)
          /\ r[5] = B("csum", Csum(SubSeq(r, HeadLen + 1, Len(r))))
          /\ r[7] = B("CR", 13)
      BY <2>0, SentShape
    <3>3. r[3].k = "length" /\ r[5].k = "csum" /\ r[7].k = "CR" /\ B("CR", 13).k = "CR"
      BY <3>2 DEF B
    <3>4. /\ length' = (IF l[1].k = "length" THEN l[1].v ELSE length)
          /\ csum' = (IF l[1].k = "csum" THEN l[1].v ELSE csum)
      BY <1>1, <3>1 DEF TagFound
    <3> HIDE DEF p, r, l
    <3>5. CASE p = 2
      <4>1. l[1] = r[3] /\ LineStart("client")' = 4
        BY <3>1, <3>5
      <4>2. length' = r[3].v /\ csum' = 0 /\ l # Blank
        BY <2>0, <3>3, <3>4, <3>5, <4>1, NotBlank
      <4>3. cpc' = "header" /\ InHeader'
        BY <1>1, <2>0, <3>1, <4>1, <4>2 DEF InHeader, r, l
      <4> QED
        BY <1>2, <4>3 DEF ClientAt
    <3>6. CASE p = 4
      <4>1. l[1] = r[5] /\ LineStart("client")' = 6
        BY <3>1, <3>6
      <4>2. length' = r[3].v /\ csum' = r[5].v /\ l # Blank
        BY <2>0, <3>3, <3>4, <3>6, <4>1, NotBlank
      <4>3. cpc' = "header" /\ InHeader'
        BY <1>1, <2>0, <3>1, <4>1, <4>2 DEF InHeader, r, l
      <4> QED
        BY <1>2, <4>3 DEF ClientAt
    <3>7. CASE p = 6
      <4>1. l[1] = r[7] /\ LineStart("client")' = 8
        BY <3>1, <3>7
      <4>2. length' = r[3].v /\ csum' = r[5].v
        BY <2>0, <3>3, <3>4, <3>7, <4>1
      <4>3. l = Blank
        <5>1. l \in Seq(Bytes)
          BY <1>0 DEF LinesAre, l
        <5>2. Len(l) = 2 /\ l[1] = B("CR", 13) /\ l[2] = LF
          BY <2>3, <3>2, <4>1
        <5> QED
          BY <5>1, <5>2 DEF Blank
      <4>4. cpc' = "body"
        BY <1>1, <4>3 DEF l
      <4>5. 8 < 8 + 1 /\ SubSeq(r, 8 + 1, 8) = <<>> /\ Csum(<<>>) = 0
        BY SubSeqEmpty, CsumFacts
      <4>6. InBody'
        <5>1. sent'["client"] = r /\ HeadLen = 8
          BY <1>1 DEF r, HeadLen
        <5> DEFINE e == SubSeq(r, 8 + 1, 8)
        <5>2. csum_received' = Csum(e)
          <6> HIDE DEF e
          <6>1. e = <<>>
            BY <4>5 DEF e
          <6> QED
            BY <1>2, <4>5, <6>1
        <5>3. length_received' = 8 - 8 /\ 8 >= 8
          BY <1>2
        <5> QED
          BY <2>0, <4>1, <4>2, <5>1, <5>2, <5>3 DEF InBody
      <4> QED
        BY <1>2, <4>4, <4>6 DEF ClientAt
    <3> QED
      BY <2>0, <3>5, <3>6, <3>7
  <2> QED
    BY <2>1, <2>2, <2>3
<1> QED
  BY <1>2, <1>4, <1>5

\* What was read of the body is summed up.
LEMMA ReadBodyStep ==
  ASSUME IInv, RioTypeOK, LinesAre, ServerSays, ClientAt, ReadBody
  PROVE  ClientAt'
<1> DEFINE l == line["client"]
           p == LineStart("client")
           r == sent["client"]
           g == Len(got["client"])
<1>0. "client" \in Ends /\ Len(<<>>) = 0 /\ Csum(<<>>) = 0
  BY CsumFacts DEF Ends
<1>1. /\ Returned("client") /\ NextLine("client") /\ cpc = "body"
      /\ cpc' = (IF l = <<>> THEN "check" ELSE "body")
      /\ length_received' = length_received + Len(l)
      /\ csum_received' = csum_received + Csum(l)
      /\ UNCHANGED <<conf, length, csum, sent>>
  BY DEF ReadBody, Client, NextLine
<1>2. InBody \/ CutOff
  BY <1>1 DEF ClientAt
<1>3. line'["client"] = <<>> /\ LineStart("client")' = g /\ got' = got
  BY <1>0, <1>1, NextLineFacts
<1>4. l = <<>> => Drained'
  BY <1>1, EndIsDrained DEF Returned, Full
<1>5. CASE CutOff
  <2>1. l = <<>> /\ g < HeadLen /\ length_received = 0 /\ Len(l) = 0
    BY <1>0, <1>5 DEF CutOff
  <2>2. CutOff' /\ cpc' = "check"
    BY <1>1, <1>3, <1>4, <2>1 DEF CutOff
  <2> QED
    BY <1>3, <1>4, <2>1, <2>2 DEF ClientAt
<1>6. CASE InBody
  <2>0. /\ r # <<>> /\ p >= HeadLen
        /\ length = r[3].v /\ csum = r[5].v
        /\ length_received = p - HeadLen
        /\ csum_received = Csum(SubSeq(r, HeadLen + 1, p))
    BY <1>6 DEF InBody
  <2>1. /\ l \in Seq(Bytes) /\ Len(l) \in Nat /\ p = g - Len(l)
        /\ \A k \in 1 .. Len(l) : l[k] = got["client"][p + k]
    BY <1>0, LenProperties DEF LinesAre, LineStart
  <2>2. /\ g \in Nat /\ Len(r) \in Nat /\ g <= Len(r) /\ r \in Seq(Bytes)
        /\ \A k \in 1 .. g : got["client"][k] = r[k]
    BY <1>0, ReadSoFar
  <2> HIDE DEF l, p, r, g
  <2>3. p \in Nat /\ p <= g /\ g = p + Len(l) /\ p >= 8
    BY <2>0, <2>1, <2>2 DEF HeadLen
  <2> DEFINE s == SubSeq(r, p + 1, g)
  <2>4. s \in Seq(Bytes) /\ l = s
    <3>1. \A k \in (p + 1) .. g : r[k] \in Bytes
      <4>1. \A k \in (p + 1) .. g : k \in 1 .. Len(r)
        BY <2>2, <2>3
      <4> QED
        BY <2>2, <4>1, ElementOfSeq
    <3>2. /\ s \in Seq(Bytes)
          /\ Len(s) = (IF p + 1 <= g THEN (g - (p + 1)) + 1 ELSE 0)
          /\ \A k \in 1 .. (g - (p + 1)) + 1 : s[k] = r[((p + 1) + k) - 1]
      <4>1. p + 1 \in Int /\ g \in Int
        BY <2>2, <2>3
      <4> QED
        BY <3>1, <4>1, SubSeqProperties
    <3>3. Len(s) = Len(l)
      BY <2>1, <2>2, <2>3, <3>2
    <3>4. \A k \in 1 .. Len(l) : s[k] = l[k]
      <4> SUFFICES ASSUME NEW k \in 1 .. Len(l) PROVE s[k] = l[k]
        OBVIOUS
      <4>1. k \in 1 .. (g - (p + 1)) + 1 /\ ((p + 1) + k) - 1 = p + k /\ p + k \in 1 .. g
        BY <2>1, <2>3
      <4> QED
        BY <2>1, <2>2, <3>2, <4>1
    <3> HIDE DEF s
    <3> QED
      BY <2>1, <3>2, <3>3, <3>4, SeqEqual
  <2> DEFINE t == SubSeq(r, HeadLen + 1, p)
  <2>5. t \in Seq(Bytes) /\ t \o s = SubSeq(r, HeadLen + 1, g)
    <3>1. \A k \in (HeadLen + 1) .. p : r[k] \in Bytes
      <4>1. \A k \in (HeadLen + 1) .. p : k \in 1 .. Len(r)
        BY <2>2, <2>3 DEF HeadLen
      <4> QED
        BY <2>2, <4>1, ElementOfSeq
    <3>2. t \in Seq(Bytes)
      <4>1. HeadLen + 1 \in Int /\ p \in Int
        BY <2>3 DEF HeadLen
      <4> QED
        BY <3>1, <4>1, SubSeqProperties
    <3>3. HeadLen + 1 \in 1 .. Len(r) + 1 /\ p \in ((HeadLen + 1) - 1) .. Len(r) /\ g \in p .. Len(r)
      BY <2>2, <2>3 DEF HeadLen
    <3> QED
      BY <2>2, <3>2, <3>3, ConcatAdjacentSubSeq
  <2>6. csum_received' = Csum(SubSeq(r, HeadLen + 1, g))
    <3> HIDE DEF t, s
    <3>1. Csum(t \o s) = Csum(t) + Csum(s)
      BY <2>4, <2>5, CsumFacts
    <3>2. csum_received' = csum_received + Csum(l)
      BY <1>1 DEF l
    <3>3. csum_received = Csum(t)
      BY <2>0 DEF t
    <3> QED
      BY <2>4, <2>5, <3>1, <3>2, <3>3
  <2>7. length_received' = g - HeadLen /\ g >= HeadLen
    <3>1. length_received' = length_received + Len(l)
      BY <1>1 DEF l
    <3> QED
      BY <2>0, <2>1, <2>2, <2>3, <3>1 DEF HeadLen
  <2>8. InBody'
    <3>1. sent'["client"] = r /\ length' = length /\ csum' = csum
      BY <1>1 DEF r
    <3> QED
      BY <1>3, <2>0, <2>6, <2>7, <3>1 DEF InBody
  <2>9. cpc' = "body" \/ (cpc' = "check" /\ l = <<>>)
    BY <1>1 DEF l
  <2> QED
    BY <1>3, <1>4, <2>8, <2>9 DEF ClientAt, l
<1> QED
  BY <1>2, <1>5, <1>6

LEMMA ClientAtStep ==
  ASSUME IInv, RioTypeOK, LinesAre, ServerSays, ClosedLast, ClientAt, [Next]_vars
  PROVE  ClientAt'
<1>0. "server" \in Ends /\ "client" \in Ends /\ "client" # "server"
  BY DEF Ends
<1>1. CASE Transfer("server") \/ Transfer("client")
  <2>1. /\ UNCHANGED <<conf, client, sent>>
        /\ LineStart("client")' = LineStart("client")
        /\ Drained => Drained' /\ line'["client"] = line["client"] /\ got'["client"] = got["client"]
    BY <1>0, <1>1, TransferFacts
  <2> QED
    BY <2>1, ClientAtKept
<1>2. CASE ReadRequest \/ ReadHeader
  <2>1. /\ UNCHANGED <<conf, client, sent, chan, rbuf, shut>> /\ NextLine("server")
    BY <1>2 DEF ReadRequest, ReadHeader, Server, NextLine
  <2>2. /\ LineStart("client")' = LineStart("client")
        /\ line'["client"] = line["client"] /\ got' = got
    BY <1>0, <2>1, NextLineFacts
  <2>3. Drained => Drained'
    BY <2>1 DEF Drained
  <2> QED
    BY <2>1, <2>2, <2>3, ClientAtKept
<1>3. ASSUME NEW s, spc \in {"refuse", "stat", "read"}, Give("server", s),
             UNCHANGED <<conf, client>>
      PROVE  ClientAt'
  <2>1. sent["client"] = <<>> /\ ~shut["server"]
    BY <1>3 DEF ServerSays, ClosedLast
  <2>2. ~InHeader /\ ~InBody /\ ~CutOff
    BY <2>1 DEF InHeader, InBody, CutOff, Drained
  <2>3. UNCHANGED <<line, got, cpc, length, csum, length_received, csum_received>>
    BY <1>3 DEF Give, client
  <2>4. cpc \notin {"header", "body", "check", "accepted", "aborted"}
    BY <2>2 DEF ClientAt
  <2> QED
    BY <2>3, <2>4 DEF ClientAt, LineStart
<1>4. CASE ReadFile \/ UNCHANGED vars
  <2>1. UNCHANGED <<conf, client, rio>>
    BY <1>4 DEF ReadFile, Server, vars
  <2>2. UNCHANGED <<sent, line, got, shut, rbuf, chan>>
    BY <2>1 DEF rio
  <2> QED
    BY <2>1, <2>2, ClientAtKept DEF LineStart, Drained
<1>5. ASSUME Close("server"), UNCHANGED <<conf, client>>
      PROVE  ClientAt'
  <2>1. UNCHANGED <<sent, line, got, rbuf, chan>> /\ shut'["server"]
    BY <1>0, <1>5 DEF Close, RioTypeOK
  <2> QED
    BY <1>5, <2>1, ClientAtKept DEF LineStart, Drained
<1>6. CASE Refuse \/ SendFile \/ OpenFile
  <2>1. /\ UNCHANGED <<conf, client>> /\ spc \in {"refuse", "stat", "read"}
        /\ (\E s : Give("server", s)) \/ Close("server") \/ UNCHANGED rio
    BY <1>6 DEF Refuse, SendFile, OpenFile, Server
  <2>2. CASE UNCHANGED rio
    <3>1. UNCHANGED <<sent, line, got, shut, rbuf, chan>>
      BY <2>2 DEF rio
    <3> QED
      BY <2>1, <3>1, ClientAtKept DEF LineStart, Drained
  <2> QED
    BY <1>3, <1>5, <2>1, <2>2
<1>7. CASE Finish \/ ServerDies \/ ServerEnds
  <2>1. UNCHANGED <<conf, client>> /\ Close("server")
    BY <1>7 DEF Finish, ServerDies, ServerEnds, Server
  <2> QED
    BY <1>5, <2>1
<1>8. CASE Sent
  <2>1. /\ cpc = "send" /\ cpc' = "status"
        /\ UNCHANGED <<line, got, length, csum, length_received, csum_received>>
    BY <1>8 DEF Sent, Client, rio
  <2> QED
    BY <2>1 DEF ClientAt, LineStart
<1>9. CASE Check
  <2>1. /\ cpc = "check" /\ cpc' = (IF Agrees THEN "accepted" ELSE "aborted")
        /\ UNCHANGED <<conf, length, csum, length_received, csum_received>>
        /\ UNCHANGED <<line, got, sent, chan, rbuf>>
        /\ shut' = [shut EXCEPT !["client"] = TRUE]
    BY <1>9 DEF Check, Client, Close
  <2>2. Drained /\ line["client"] = <<>> /\ (InBody \/ CutOff)
    BY <2>1 DEF ClientAt
  <2>3. Drained'
    BY <1>0, <2>1, <2>2 DEF Drained, RioTypeOK
  <2>4. (Agrees' <=> Agrees) /\ (InBody' <=> InBody) /\ (CutOff => CutOff')
    BY <2>1, <2>3 DEF Agrees, InBody, CutOff, LineStart
  <2> QED
    BY <2>1, <2>2, <2>3, <2>4 DEF ClientAt
<1>10. CASE ClientBreaks \/ ClientDies
  <2>1. cpc' = "dead"
    BY <1>10 DEF ClientBreaks, ClientDies, Client
  <2> QED
    BY <2>1 DEF ClientAt
<1> QED
  BY <1>1, <1>2, <1>4, <1>6, <1>7, <1>8, <1>9, <1>10, ReadStatusStep, ReadTagsStep, ReadBodyStep
     DEF Next, ServerNext, ClientGoesOn, Terminated

-----------------------------------------------------------------------------
LEMMA InitVInv == Init => VInv
<1> SUFFICES ASSUME Init PROVE VInv
  OBVIOUS
<1>1. IInv
  BY InitInv
<1>2. SInv
  BY DEF Init, RioInit, SInv, ClosedLast, ServerSurvives, Ends
<1>3. /\ \A e \in Ends : /\ line[e] = <<>> /\ got[e] = <<>> /\ chan[e] = <<>>
                         /\ rbuf[e] = <<>>
      /\ shut \in [Ends -> BOOLEAN] /\ line \in [Ends -> Seq(Bytes)]
      /\ <<>> \in Seq(Bytes) /\ Len(<<>>) = 0
      /\ MaxLine \in Nat /\ Capacity \in Nat /\ RIO_BUFSIZE \in Nat
  BY RioAssumption DEF Init, RioInit
<1>4. LinesAre
  <2> SUFFICES ASSUME NEW e \in Ends
               PROVE  /\ line[e] \in Seq(Bytes) /\ Len(line[e]) <= MaxLine
                      /\ Len(line[e]) <= Len(got[e])
                      /\ \A k \in 1 .. Len(line[e]) : line[e][k] = got[e][LineStart(e) + k]
                      /\ \A k \in 1 .. (Len(line[e]) - 1) : line[e][k] # LF
    BY DEF LinesAre
  <2>1. line[e] = <<>> /\ Len(line[e]) = 0 /\ Len(got[e]) = 0
    BY <1>3
  <2> QED
    BY <1>3, <2>1
<1>5. HttpTypeOK
  <2>1. RioTypeOK
    <3>1. \A e \in Ends : Len(chan[e]) = 0 /\ Len(rbuf[e]) = 0 /\ Len(line[e]) = 0
      BY <1>3
    <3> QED
      BY <1>1, <1>3, <3>1 DEF RioTypeOK, IInv, StreamTypes
  <2>2. file_buf \in Seq(Bytes)
    BY <1>3 DEF Init
  <2> QED
    BY <2>1, <2>2 DEF Init, HttpTypeOK
<1>6. LineStart("client") = 0 /\ LineStart("server") = 0
  <2>1. Len(got["client"]) = 0 /\ Len(line["client"]) = 0
        /\ Len(got["server"]) = 0 /\ Len(line["server"]) = 0
    BY <1>3 DEF Ends
  <2> QED
    BY <2>1 DEF LineStart
<1>7. ServerSays
  BY <1>6 DEF Init, RioInit, ServerSays, Ends
<1>8. ClientAt
  BY <1>6 DEF Init, ClientAt
<1> QED
  BY <1>1, <1>2, <1>4, <1>5, <1>7, <1>8 DEF VInv

\* All of it is kept by every step.
LEMMA NextVInv == VInv /\ [Next]_vars => VInv'
<1> SUFFICES ASSUME VInv, [Next]_vars PROVE VInv'
  OBVIOUS
<1>1. /\ IInv /\ RioTypeOK /\ HttpTypeOK /\ LinesAre /\ ServerSays /\ ClientAt
      /\ SInv /\ ClosedLast
  BY DEF VInv, SInv, HttpTypeOK
<1>2. IInv'
  BY <1>1, NextIsStream
<1>3. LinesAre'
  BY <1>1, LinesStep
<1>4. HttpTypeOK'
  BY <1>1, <1>2, <1>3, HttpTypesStep
<1>5. ServerSays'
  BY <1>1, ServerSaysStep
<1>6. SInv'
  BY <1>1, NextSInv
<1>7. ClientAt'
  BY <1>1, ClientAtStep
<1> QED
  BY <1>2, <1>3, <1>4, <1>5, <1>6, <1>7 DEF VInv

\* A client that was not cut off accepts or aborts on the whole reply.
LEMMA VerdictFacts ==
  ASSUME VInv
  PROVE  ClientVerdict
<1> DEFINE r == sent["client"]
           g == got["client"]
           p == LineStart("client")
<1>0. /\ IInv /\ ServerSays /\ ClientAt /\ SInv /\ ClosedLast /\ LinesAre
      /\ "client" \in Ends /\ Peer("client") = "server" /\ Len(<<>>) = 0
  BY DEF VInv, SInv, Ends, Peer
<1>1. /\ g \in Seq(Bytes) /\ r \in Seq(Bytes) /\ Len(g) \in Nat /\ Len(r) \in Nat
      /\ Len(g) <= Len(r) /\ \A k \in 1 .. Len(g) : g[k] = r[k]
      /\ rbuf["client"] = <<>> /\ chan["client"] = <<>> /\ out["server"] = <<>> => g = r
  BY <1>0, ReadSoFar
<1>2. line["client"] = <<>> => p = Len(g)
  <2>1. line["client"] = <<>> => p = Len(g) - 0
    BY <1>0 DEF LineStart
  <2> QED
    BY <1>1, <2>1
<1>3. conf.data \in Seq(Bytes) /\ Reply("200", conf.data) \in Seq(Bytes)
      /\ ErrorText \in Seq(Bytes)
      /\ \A s \in ErrorStatus : ErrorReply(s) \in Seq(Bytes)
  BY <1>0, HttpAssumption DEF IInv, FileRead, Confs, ErrorStatus
<1>4. r # <<>> => /\ Len(r) >= HeadLen
                  /\ r[3] = B("length", Len(r) - HeadLen)
                  /\ r[5] = B("csum", Csum(SubSeq(r, HeadLen + 1, Len(r))))
  BY <1>0, SentShape
<1>5. B("length", Len(r) - HeadLen).v = Len(r) - HeadLen
  BY DEF B
<1>6. ASSUME NEW status, NEW body \in Seq(Bytes), Reply(status, body) \in Seq(Bytes),
             r = Reply(status, body)
      PROVE  Len(r) = HeadLen + Len(body) /\ r[3].v = Len(body) /\ r[5].v = Csum(body)
  <2>1. /\ Len(r) = HeadLen + Len(body) /\ r[3] = B("length", Len(body))
        /\ r[5] = B("csum", Csum(body))
    BY <1>6, ReplyShape
  <2> QED
    BY <2>1 DEF B
<1> HIDE DEF r, g, p
<1>7. ASSUME cpc = "accepted", length # 0
      PROVE  g = r /\ (~conf.simple => g = Reply("200", conf.data) \/ LooksLikeError)
  <2>1. Agrees /\ line["client"] = <<>> /\ (InBody \/ CutOff)
    BY <1>0, <1>7 DEF ClientAt
  <2>2. length = length_received
    BY <1>7, <2>1 DEF Agrees
  <2>3. InBody
    BY <1>7, <2>1, <2>2 DEF CutOff
  <2>4. /\ r # <<>> /\ length = r[3].v /\ csum = r[5].v /\ length_received = p - HeadLen
        /\ p = Len(g)
    BY <1>2, <2>1, <2>3 DEF InBody, r, p
  <2>5. Len(g) = Len(r)
    <3>1. Len(r) - HeadLen = Len(g) - HeadLen
      BY <1>4, <1>5, <2>2, <2>4
    <3> QED
      BY <1>1, <3>1 DEF HeadLen
  <2>6. g = r
    BY <1>1, <2>5, SeqEqual
  <2>7. ASSUME ~conf.simple PROVE g = Reply("200", conf.data) \/ LooksLikeError
    <3>1. csum = Csum(conf.data) /\ length = Len(conf.data)
      BY <2>1, <2>7 DEF Agrees
    <3>2. CASE r = Reply("200", conf.data)
      BY <2>6, <3>2
    <3>3. ASSUME NEW s \in ErrorStatus, r = ErrorReply(s) PROVE LooksLikeError
      <4>1. r[3].v = Len(ErrorText) /\ r[5].v = Csum(ErrorText)
        BY <1>3, <1>6, <3>3 DEF ErrorReply
      <4> QED
        BY <2>4, <2>6, <3>1, <3>3, <4>1 DEF LooksLikeError, ErrorStatus, g
    <3> QED
      BY <1>0, <2>4, <3>2, <3>3 DEF ServerSays, r
  <2> QED
    BY <2>6, <2>7
<1>8. ASSUME cpc = "aborted", spc \notin {"dead", "ended"}, conf.kind = "regular", conf.method = GET
      PROVE  FALSE
  <2>1. ~Agrees /\ Drained /\ line["client"] = <<>> /\ (InBody \/ CutOff)
    BY <1>0, <1>8 DEF ClientAt
  <2>2. spc = "done"
    BY <1>0, <1>8, <2>1 DEF Drained, ClosedLast
  <2>3. out["server"] = <<>> /\ r # <<>>
    BY <1>0, <2>2 DEF ServerSays, r
  <2>4. r = Reply("200", conf.data)
    BY <1>0, <1>8, <2>3 DEF ServerSays, r
  <2>5. g = r
    BY <1>1, <2>1, <2>3 DEF Drained
  <2>6. Len(r) = HeadLen + Len(conf.data) /\ r[3].v = Len(conf.data) /\ r[5].v = Csum(conf.data)
    BY <1>3, <1>6, <2>4
  <2>7. Len(conf.data) \in Nat
    BY <1>3, LenProperties
  <2>8. ~CutOff
    BY <2>5, <2>6, <2>7 DEF CutOff, HeadLen, g
  <2>9. /\ length = r[3].v /\ csum = r[5].v
        /\ length_received = p - HeadLen /\ p = Len(g)
        /\ csum_received = Csum(SubSeq(r, HeadLen + 1, p))
    BY <1>2, <2>1, <2>8 DEF InBody, r, p
  <2>10. length_received = Len(conf.data)
    BY <2>5, <2>6, <2>7, <2>9 DEF HeadLen
  <2>11. csum_received = Csum(conf.data)
    <3>1. r[5].v = Csum(SubSeq(r, HeadLen + 1, Len(r)))
      BY <1>4, <2>3 DEF B
    <3> QED
      BY <2>5, <2>6, <2>9, <3>1
  <2> QED
    BY <2>1, <2>6, <2>9, <2>10, <2>11 DEF Agrees
<1>9. cpc = "aborted" => spc \in {"dead", "ended"} \/ conf.kind # "regular" \/ conf.method # GET
  BY <1>8
<1> QED
  BY <1>7, <1>9 DEF ClientVerdict, g, r

\* Every buffer holds bytes and no more than it has room for, whatever the
\* kernel, the lines and the files are.
THEOREM HttpTypeCorrect == Spec => []HttpTypeOK
<1>1. VInv => HttpTypeOK
  BY DEF VInv
<1> QED
  BY <1>1, InitVInv, NextVInv, PTL DEF Spec

\* A client that accepts has read the whole reply, and one that knows the file
\* set the very file, or an error that has its length and its sum; and no
\* assertion of a client fails while the server lives and has the file.
THEOREM VerdictCorrect == Spec => []ClientVerdict
<1>1. VInv => ClientVerdict
  BY VerdictFacts
<1> QED
  BY <1>1, InitVInv, NextVInv, PTL DEF Spec
=============================================================================
