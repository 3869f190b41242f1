------------------------ MODULE RequestQueue_proofs ------------------------
(***************************************************************************)
(* Proofs about RequestQueue, for any number of workers, any sizes of the  *)
(* buffer and any number of connections.                                   *)
(***************************************************************************)
EXTENDS RequestQueue, SequenceTheorems, TLAPS

USE QueueAssumption DEF Main, Workers, Procs, Free

-----------------------------------------------------------------------------
(* The circular buffer. *)

\* An index that has gone past the end once.
LEMMA WrapOnce ==
  ASSUME NEW n \in Nat \ {0}, NEW x \in 0 .. (2 * n - 1)
  PROVE  x % n = IF x < n THEN x ELSE x - n
<1>1. CASE x < n
  BY <1>1
<1>2. CASE x >= n
  BY <1>2
<1> QED
  BY <1>1, <1>2

\* How the connections lie in the buffer.
Window ==
    /\ max_requests \in Nat \ {0}
    /\ Capacity \in Nat \ {0}
    /\ Contents \in Seq(0 .. MaxConns)
    /\ Len(Contents) = IF max_requests = 1 THEN buffer_full
                       ELSE IF in >= out THEN in - out
                       ELSE in - out + max_requests
    /\ \A i \in 1 .. Len(Contents) :
          Contents[i] = IF max_requests = 1 THEN buffer[0]
                        ELSE IF out + i - 1 < max_requests THEN buffer[out + i - 1]
                        ELSE buffer[out + i - 1 - max_requests]
    /\ Len(Contents) \in 0 .. Capacity
    /\ IsEmpty <=> Contents = <<>>
    /\ IsFull <=> Len(Contents) = Capacity

LEMMA Windowed == TypeOK => Window
<1> SUFFICES ASSUME TypeOK PROVE Window
  OBVIOUS
<1>1. /\ max_requests \in Nat \ {0}
      /\ in \in 0 .. (max_requests - 1) /\ out \in 0 .. (max_requests - 1)
      /\ buffer \in [0 .. (max_requests - 1) -> 0 .. MaxConns]
      /\ buffer_full \in {0, 1}
  BY DEF TypeOK
<1>2. Count = IF in >= out THEN in - out ELSE in - out + max_requests
  <2> DEFINE k == in - out + max_requests
  <2>1. k \in 0 .. (2 * max_requests - 1) /\ (k < max_requests <=> in < out)
    BY <1>1
  <2>2. Count = k % max_requests
    BY DEF Count
  <2> HIDE DEF k
  <2>3. k % max_requests = IF k < max_requests THEN k ELSE k - max_requests
    BY <1>1, <2>1, WrapOnce
  <2>4. CASE in < out
    BY <2>1, <2>2, <2>3, <2>4, <1>1 DEF k
  <2>5. CASE in >= out
    BY <2>1, <2>2, <2>3, <2>5, <1>1 DEF k
  <2> QED
    BY <1>1, <2>4, <2>5
<1>3. Count \in 0 .. (max_requests - 1)
  BY <1>1, <1>2
<1>4. CASE max_requests = 1
  <2>1. buffer[0] \in 0 .. MaxConns
    BY <1>1, <1>4
  <2>2. /\ Contents = IF buffer_full = 1 THEN <<buffer[0]>> ELSE <<>>
        /\ Capacity = 1
        /\ IsEmpty <=> buffer_full = 0
        /\ IsFull <=> buffer_full = 1
    BY <1>1, <1>4 DEF Contents, Capacity, IsEmpty, IsFull
  <2>3. CASE buffer_full = 1
    <3>1. Contents = <<buffer[0]>>
      BY <2>2, <2>3
    <3>2. /\ Contents \in Seq(0 .. MaxConns) /\ Len(Contents) = 1
          /\ Contents # <<>> /\ Contents[1] = buffer[0]
      BY <2>1, <3>1
    <3> QED
      BY <1>1, <1>4, <2>2, <2>3, <3>2 DEF Window
  <2>4. CASE buffer_full = 0
    <3>1. Contents = <<>>
      BY <2>2, <2>4
    <3>2. Contents \in Seq(0 .. MaxConns) /\ Len(Contents) = 0
      BY <3>1
    <3> QED
      BY <1>1, <1>4, <2>2, <2>4, <3>1, <3>2 DEF Window
  <2> QED
    BY <1>1, <2>3, <2>4
<1>5. CASE max_requests > 1
  <2>1. /\ Contents = [i \in 1 .. Count |-> buffer[(out + i - 1) % max_requests]]
        /\ Capacity = max_requests - 1
        /\ IsEmpty <=> in = out
        /\ IsFull <=> Count = max_requests - 1
    BY <1>1, <1>5 DEF Contents, Capacity, IsEmpty, IsFull
  <2>2. ASSUME NEW i \in 1 .. Count
        PROVE  /\ out + i - 1 \in 0 .. (2 * max_requests - 1)
               /\ (out + i - 1) % max_requests =
                    IF out + i - 1 < max_requests THEN out + i - 1
                    ELSE out + i - 1 - max_requests
               /\ (out + i - 1) % max_requests \in 0 .. (max_requests - 1)
    <3>1. /\ max_requests \in Nat \ {0} /\ out \in 0 .. (max_requests - 1)
          /\ i \in 1 .. (max_requests - 1)
      BY <1>1, <1>3
    <3>2. CASE out + i - 1 < max_requests
      <4>1. out + i - 1 \in 0 .. (max_requests - 1)
        BY <3>1, <3>2
      <4>2. (out + i - 1) % max_requests = out + i - 1
        BY <3>1, <4>1
      <4> QED
        BY <3>1, <3>2, <4>1, <4>2
    <3>3. CASE out + i - 1 >= max_requests
      <4>1. out + i - 1 \in max_requests .. (2 * max_requests - 1)
        BY <3>1, <3>3
      <4>2. (out + i - 1) % max_requests = out + i - 1 - max_requests
        BY <3>1, <4>1
      <4> QED
        BY <3>1, <3>3, <4>1, <4>2
    <3> QED
      BY <3>1, <3>2, <3>3
  <2>3. \A i \in 1 .. Count : buffer[(out + i - 1) % max_requests] \in 0 .. MaxConns
    BY <1>1, <2>2
  <2>4. Contents \in Seq(0 .. MaxConns) /\ Len(Contents) = Count
    BY <1>3, <2>1, <2>3
  <2>5. \A i \in 1 .. Len(Contents) :
           Contents[i] = IF out + i - 1 < max_requests THEN buffer[out + i - 1]
                         ELSE buffer[out + i - 1 - max_requests]
    BY <2>1, <2>2, <2>4
  <2>6. IsEmpty <=> Contents = <<>>
    <3>1. Contents = <<>> <=> Len(Contents) = 0
      BY <2>4
    <3> QED
      BY <1>1, <1>2, <2>1, <2>4, <3>1
  <2>7. /\ Len(Contents) = IF in >= out THEN in - out ELSE in - out + max_requests
        /\ Len(Contents) \in 0 .. Capacity
        /\ Capacity \in Nat \ {0}
        /\ IsFull <=> Len(Contents) = Capacity
    BY <1>1, <1>2, <1>3, <1>5, <2>1, <2>4
  <2>8. max_requests # 1
    BY <1>5
  <2> QED
    BY <1>1, <2>4, <2>5, <2>6, <2>7, <2>8 DEF Window
<1> QED
  BY <1>1, <1>4, <1>5

\* Storing the connection accepted last appends it.
LEMMA StoreAppends ==
  ASSUME TypeOK, TypeOK', ~IsFull, Store, UNCHANGED <<max_requests, out>>
  PROVE  /\ Contents' = Append(Contents, accepted)
         /\ Len(Contents) < Capacity
         /\ Capacity' = Capacity
<1>1. Window /\ Window'
  BY Windowed, PTL
<1>2. /\ in \in 0 .. (max_requests - 1) /\ out \in 0 .. (max_requests - 1)
      /\ buffer \in [0 .. (max_requests - 1) -> 0 .. MaxConns]
      /\ buffer_full \in {0, 1} /\ accepted \in 0 .. MaxConns
      /\ max_requests \in Nat \ {0} /\ max_requests' = max_requests /\ out' = out
  BY DEF TypeOK
<1>3. Capacity' = Capacity /\ Len(Contents) < Capacity
  BY <1>1, <1>2 DEF Window, Capacity
<1>4. Capacity = IF max_requests > 1 THEN max_requests - 1 ELSE 1
  BY DEF Capacity
<1> DEFINE c == Contents
           d == Contents'
           a == Append(Contents, accepted)
<1>5. /\ a \in Seq(0 .. MaxConns)
      /\ Len(a) = Len(c) + 1
      /\ \A i \in 1 .. Len(c) : a[i] = c[i]
      /\ a[Len(c) + 1] = accepted
  <2>1. c \in Seq(0 .. MaxConns) /\ accepted \in 0 .. MaxConns
    BY <1>1, <1>2 DEF Window
  <2> HIDE DEF c
  <2>2. a = Append(c, accepted)
    BY DEF c
  <2> HIDE DEF a
  <2> QED
    BY <2>1, <2>2, AppendProperties
<1>6. Len(c) \in Nat /\ d \in Seq(0 .. MaxConns)
  BY <1>1 DEF Window
<1>7. Len(d) = Len(c) + 1 /\ \A i \in 1 .. Len(c) + 1 : d[i] = a[i]
  <2>1. CASE max_requests = 1
    <3>1. buffer' = [buffer EXCEPT ![0] = accepted] /\ buffer_full' = 1
      BY <2>1 DEF Store
    <3>2. Len(c) = 0 /\ Len(d) = 1
      BY <1>1, <1>2, <1>3, <1>4, <2>1, <3>1 DEF Window
    <3>3. d[1] = accepted
      BY <1>1, <1>2, <2>1, <3>1, <3>2 DEF Window
    <3> QED
      BY <1>5, <3>2, <3>3
  <2>2. CASE max_requests > 1
    <3>1. /\ buffer' = [buffer EXCEPT ![in] = accepted]
          /\ in' = IF in + 1 < max_requests THEN in + 1 ELSE in + 1 - max_requests
      <4>1. in + 1 \in 0 .. (2 * max_requests - 1)
        BY <1>2
      <4>2. (in + 1) % max_requests = IF in + 1 < max_requests THEN in + 1
                                      ELSE in + 1 - max_requests
        <5>1. max_requests \in Nat \ {0} /\ in \in 0 .. (max_requests - 1)
          BY <1>2
        <5> QED
          BY <5>1
      <4>3. buffer' = [buffer EXCEPT ![in] = accepted] /\ in' = (in + 1) % max_requests
        BY <1>2, <2>2 DEF Store, Succ
      <4> QED
        BY <4>2, <4>3
    <3>2. Len(c) = IF in >= out THEN in - out ELSE in - out + max_requests
      BY <1>1, <2>2 DEF Window
    <3>3. Len(d) = Len(c) + 1
      BY <1>1, <1>2, <1>3, <1>4, <2>2, <3>1, <3>2 DEF Window
    <3>4. ASSUME NEW i \in 1 .. Len(c) + 1
          PROVE  d[i] = IF out + i - 1 < max_requests THEN buffer'[out + i - 1]
                        ELSE buffer'[out + i - 1 - max_requests]
      <4>1. i \in 1 .. Len(d)
        BY <3>3
      <4>2. \A j \in 1 .. Len(d) :
               d[j] = IF max_requests' = 1 THEN buffer'[0]
                      ELSE IF out' + j - 1 < max_requests' THEN buffer'[out' + j - 1]
                      ELSE buffer'[out' + j - 1 - max_requests']
        BY <1>1 DEF Window
      <4> HIDE DEF d
      <4> QED
        BY <1>2, <2>2, <4>1, <4>2
    <3>5. ASSUME NEW i \in 1 .. Len(c) PROVE d[i] = c[i]
      <4>1. c[i] = IF out + i - 1 < max_requests THEN buffer[out + i - 1]
                   ELSE buffer[out + i - 1 - max_requests]
        BY <1>1, <2>2 DEF Window
      <4>2. i \in 1 .. Len(c) + 1
        BY <1>6
      <4>3. CASE out + i - 1 < max_requests
        <5>1. out + i - 1 \in 0 .. (max_requests - 1) /\ out + i - 1 # in
          BY <1>2, <1>6, <3>2, <4>3
        <5> QED
          BY <1>2, <3>1, <3>4, <4>1, <4>2, <4>3, <5>1
      <4>4. CASE out + i - 1 >= max_requests
        <5>1. /\ out + i - 1 - max_requests \in 0 .. (max_requests - 1)
              /\ out + i - 1 - max_requests # in
          BY <1>2, <1>3, <1>4, <1>6, <2>2, <3>2, <4>4
        <5> QED
          BY <1>2, <3>1, <3>4, <4>1, <4>2, <4>4, <5>1
      <4> QED
        BY <1>2, <1>6, <4>3, <4>4
    <3>6. d[Len(c) + 1] = accepted
      <4>1. Len(c) + 1 \in 1 .. Len(c) + 1
        BY <1>6
      <4>2. CASE in >= out
        <5>1. /\ out + (Len(c) + 1) - 1 = in
              /\ out + (Len(c) + 1) - 1 < max_requests
          BY <1>2, <3>2, <4>2
        <5> QED
          BY <1>2, <3>1, <3>4, <4>1, <5>1
      <4>3. CASE in < out
        <5>1. /\ out + (Len(c) + 1) - 1 - max_requests = in
              /\ ~(out + (Len(c) + 1) - 1 < max_requests)
          BY <1>2, <3>2, <4>3
        <5> QED
          BY <1>2, <3>1, <3>4, <4>1, <5>1
      <4> QED
        BY <1>2, <4>2, <4>3
    <3> HIDE DEF a, c, d
    <3>7. ASSUME NEW i \in 1 .. Len(c) + 1 PROVE d[i] = a[i]
      <4>1. i \in 1 .. Len(c) \/ i = Len(c) + 1
        BY <1>6
      <4> QED
        BY <1>5, <3>5, <3>6, <4>1
    <3> QED
      BY <3>3, <3>7
  <2> QED
    BY <1>2, <2>1, <2>2
<1>8. d = a
  <2> HIDE DEF a, c, d
  <2> QED
    BY <1>5, <1>6, <1>7, SeqEqual
<1> QED
  BY <1>3, <1>8

\* What Take does to the buffer.
Fetch(x) ==
    \/ /\ max_requests > 1
       /\ x = buffer[out]
       /\ out' = Succ(out)
       /\ UNCHANGED buffer_full
    \/ /\ max_requests = 1
       /\ x = buffer[0]
       /\ buffer_full' = 0
       /\ UNCHANGED out

\* Fetching takes the oldest connection out.
LEMMA FetchTakesHead ==
  ASSUME TypeOK, TypeOK', ~IsEmpty, NEW x, Fetch(x),
         UNCHANGED <<max_requests, buffer, in>>
  PROVE  /\ Contents # <<>>
         /\ x = Head(Contents)
         /\ Contents' = Tail(Contents)
         /\ Capacity' = Capacity
<1>1. Window /\ Window'
  BY Windowed, PTL
<1>2. /\ in \in 0 .. (max_requests - 1) /\ out \in 0 .. (max_requests - 1)
      /\ out' \in 0 .. (max_requests - 1)
      /\ buffer \in [0 .. (max_requests - 1) -> 0 .. MaxConns]
      /\ buffer_full \in {0, 1} /\ max_requests \in Nat \ {0}
      /\ max_requests' = max_requests /\ in' = in /\ buffer' = buffer
  BY DEF TypeOK
<1> DEFINE c == Contents
           d == Contents'
           t == Tail(Contents)
<1>3. /\ c \in Seq(0 .. MaxConns) /\ d \in Seq(0 .. MaxConns)
      /\ c # <<>>
  BY <1>1 DEF Window
<1>4. Capacity' = Capacity
  BY <1>2 DEF Capacity
<1>5. /\ Len(c) \in Nat \ {0}
      /\ t \in Seq(0 .. MaxConns)
      /\ Len(t) = Len(c) - 1
      /\ \A i \in 1 .. Len(t) : t[i] = c[i + 1]
      /\ Head(c) = c[1]
  <2> HIDE DEF c
  <2>1. t = Tail(c)
    BY DEF c
  <2> HIDE DEF t
  <2>2. Len(c) \in Nat \ {0} /\ Head(c) = c[1]
    BY <1>3, EmptySeq
  <2> QED
    BY <1>3, <2>1, <2>2, HeadTailProperties
<1>6. \A i \in 1 .. Len(c) :
         c[i] = IF max_requests = 1 THEN buffer[0]
                ELSE IF out + i - 1 < max_requests THEN buffer[out + i - 1]
                ELSE buffer[out + i - 1 - max_requests]
  BY <1>1 DEF Window
<1>7. \A i \in 1 .. Len(d) :
         d[i] = IF max_requests = 1 THEN buffer[0]
                ELSE IF out' + i - 1 < max_requests THEN buffer[out' + i - 1]
                ELSE buffer[out' + i - 1 - max_requests]
  BY <1>1, <1>2 DEF Window
<1>8. /\ Len(c) = IF max_requests = 1 THEN buffer_full
                  ELSE IF in >= out THEN in - out ELSE in - out + max_requests
      /\ Len(d) = IF max_requests = 1 THEN buffer_full'
                  ELSE IF in >= out' THEN in - out' ELSE in - out' + max_requests
  BY <1>1, <1>2 DEF Window
<1> HIDE DEF c, d, t
<1>9. x = c[1] /\ d = t
  <2>1. CASE max_requests = 1
    <3>1. x = buffer[0] /\ buffer_full' = 0
      BY <2>1 DEF Fetch
    <3>2. Len(c) = 1 /\ Len(d) = 0 /\ c[1] = buffer[0]
      BY <1>2, <1>5, <1>6, <1>8, <2>1, <3>1
    <3>3. d = t
      BY <1>3, <1>5, <3>2, SeqEqual
    <3> QED
      BY <3>1, <3>2, <3>3
  <2>2. CASE max_requests > 1
    <3>1. x = buffer[out]
          /\ out' = IF out + 1 < max_requests THEN out + 1 ELSE 0
      <4>1. x = buffer[out] /\ out' = (out + 1) % max_requests
        BY <1>2, <2>2 DEF Fetch, Succ
      <4>2. max_requests \in Nat \ {0} /\ out \in 0 .. (max_requests - 1)
        BY <1>2
      <4>3. (out + 1) % max_requests = IF out + 1 < max_requests THEN out + 1 ELSE 0
        BY <4>2
      <4> QED
        BY <4>1, <4>3
    <3>2. c[1] = buffer[out]
      <4>1. c[1] = IF out + 1 - 1 < max_requests THEN buffer[out + 1 - 1]
                   ELSE buffer[out + 1 - 1 - max_requests]
        BY <1>5, <1>6, <2>2
      <4>2. out + 1 - 1 = out /\ out < max_requests
        BY <1>2
      <4> QED
        BY <4>1, <4>2
    <3>3. Len(d) = Len(t)
      <4>1. /\ max_requests # 1 /\ Len(c) # 0
            /\ Len(c) = IF in >= out THEN in - out ELSE in - out + max_requests
            /\ Len(d) = IF in >= out' THEN in - out' ELSE in - out' + max_requests
        BY <1>5, <1>8, <2>2
      <4>2. Len(d) = Len(c) - 1
        BY <1>2, <3>1, <4>1
      <4> QED
        BY <1>5, <4>2
    <3>4. ASSUME NEW i \in 1 .. Len(d) PROVE d[i] = t[i]
      <4>1. i \in 1 .. Len(t) /\ i + 1 \in 1 .. Len(c) /\ i \in Nat
        BY <1>5, <3>3
      <4>2. t[i] = IF out + (i + 1) - 1 < max_requests THEN buffer[out + (i + 1) - 1]
                   ELSE buffer[out + (i + 1) - 1 - max_requests]
        BY <1>5, <1>6, <2>2, <4>1
      <4>3. d[i] = IF out' + i - 1 < max_requests THEN buffer[out' + i - 1]
                   ELSE buffer[out' + i - 1 - max_requests]
        BY <1>7, <2>2
      <4>4. CASE out + 1 < max_requests
        <5>1. out' + i - 1 = out + (i + 1) - 1
          BY <1>2, <3>1, <4>1, <4>4
        <5>2. out' + i - 1 - max_requests = out + (i + 1) - 1 - max_requests
          BY <1>2, <3>1, <4>1, <4>4
        <5> QED
          BY <4>2, <4>3, <5>1, <5>2
      <4>5. CASE ~(out + 1 < max_requests)
        <5>1. /\ out' + i - 1 = out + (i + 1) - 1 - max_requests
              /\ ~(out + (i + 1) - 1 < max_requests)
          BY <1>2, <3>1, <4>1, <4>5
        <5>2. out' + i - 1 < max_requests
          BY <1>2, <1>5, <1>8, <2>2, <3>1, <4>1, <4>5
        <5> QED
          BY <4>2, <4>3, <5>1, <5>2
      <4> QED
        BY <4>4, <4>5
    <3>5. d = t
      BY <1>3, <1>5, <3>3, <3>4, SeqEqual
    <3> QED
      BY <3>1, <3>2, <3>5
  <2> QED
    BY <1>2, <2>1, <2>2
<1> QED
  BY <1>3, <1>4, <1>5, <1>9 DEF c, d, t

-----------------------------------------------------------------------------
(* The inductive invariant. *)

Pcs == {"poll", "loop", "lock", "test", "wait", "waiting", "serve",
        "broadcast", "join", "done"}

bufferVars == <<max_requests, buffer, in, out, buffer_full>>

\* NobodySleepsOnWork with a witness.
SomebodyUp ==
    /\ Contents # <<>> => \E w \in Workers : pc[w] # "waiting"
    /\ pc[Main] = "waiting" => Len(Contents) = Capacity

LEMMA UpIff == NobodySleepsOnWork <=> SomebodyUp
  BY DEF NobodySleepsOnWork, SomebodyUp, Asleep

\* Everything but the types.
Control == /\ OwnCode /\ MutexHeld /\ WaitJustified /\ Connections /\ Joined
           /\ SomebodyUp

LEMMA SameBuffer ==
  ASSUME UNCHANGED bufferVars
  PROVE  /\ Contents' = Contents /\ Capacity' = Capacity
         /\ IsFull' = IsFull /\ IsEmpty' = IsEmpty
  BY DEF bufferVars, Contents, Capacity, Count, IsFull, IsEmpty

\* pthread_cond_signal wakes one sleeper, if there is one, and nobody else
\* moves.
LEMMA SignalFacts ==
  ASSUME pc \in [Procs -> Pcs], NEW S \in SUBSET Procs, NEW p \in Procs \ S,
         NEW l \in Pcs, SignalGoto(S, p, l)
  PROVE  /\ pc' \in [Procs -> Pcs]
         /\ pc'[p] = l
         /\ \A q \in Procs \ {p} :
               \/ pc'[q] = pc[q]
               \/ q \in S /\ pc[q] = "waiting" /\ pc'[q] = "lock"
         /\ \/ \A q \in S : pc[q] # "waiting" /\ pc'[q] = pc[q]
            \/ \E q \in S : pc[q] = "waiting" /\ pc'[q] = "lock"
<1>0. "lock" \in Pcs
  BY DEF Pcs
<1>1. CASE Asleep(S) = {}
  <2>1. pc' = [pc EXCEPT ![p] = l]
    BY <1>1 DEF SignalGoto, Goto
  <2>2. \A q \in S : pc[q] # "waiting"
    BY <1>1 DEF Asleep
  <2> QED
    BY <2>1, <2>2
<1>2. CASE Asleep(S) # {}
  <2>1. PICK s \in Asleep(S) : pc' = [pc EXCEPT ![s] = "lock", ![p] = l]
    BY <1>2 DEF SignalGoto
  <2>2. s \in S /\ pc[s] = "waiting" /\ s # p
    BY DEF Asleep
  <2> QED
    BY <1>0, <2>1, <2>2
<1> QED
  BY <1>1, <1>2

LEMMA Distinct == /\ Main \in Procs /\ Main \notin Workers
                  /\ Workers \subseteq Procs /\ Free \notin Procs
                  /\ 1 \in Workers
  OBVIOUS

LEMMA InitIInv == Init => TypeOK /\ Control
<1> SUFFICES ASSUME Init PROVE TypeOK /\ Control
  OBVIOUS
<1>1. TypeOK
  <2>1. max_requests \in Nat \ {0} /\ 0 \in 0 .. (max_requests - 1) /\ 0 \in 0 .. MaxConns
    BY DEF Init
  <2>2. buffer \in [0 .. (max_requests - 1) -> 0 .. MaxConns]
    BY <2>1 DEF Init
  <2>3. http_req \in [Workers -> 0 .. MaxConns] /\ joining \in 1 .. (NrThreads + 1)
    BY <2>1 DEF Init
  <2>4. pc \in [Procs -> Pcs]
    BY DEF Init, Pcs
  <2> QED
    BY <2>1, <2>2, <2>3, <2>4 DEF Init, TypeOK, Pcs
<1>2. Contents = <<>>
  <2>1. Window
    BY <1>1, Windowed
  <2>2. Len(Contents) = 0
    BY <2>1 DEF Window, Init
  <2> QED
    BY <2>1, <2>2 DEF Window
<1>3. SomebodyUp
  BY <1>2, Distinct DEF Init, SomebodyUp
<1>4. OwnCode /\ MutexHeld /\ WaitJustified /\ Joined
  BY Distinct DEF Init, OwnCode, MutexHeld, WaitJustified, Joined
<1>5. Connections
  <2>1. Len(Contents) = 0
    BY <1>2
  <2> QED
    BY <2>1, Distinct DEF Init, Connections, InHand
<1> QED
  BY <1>1, <1>3, <1>4, <1>5 DEF Control

\* Steps that leave the buffer alone.
LEMMA QuietStep ==
  ASSUME TypeOK, Control, UNCHANGED bufferVars,
         \/ \E p \in Procs : Lock(p) \/ CondWait(p) \/ Spurious(p)
         \/ \E w \in Workers : \/ Loop(w) \/ FoundEmpty(w) \/ FoundExiting(w)
                               \/ Serve(w)
         \/ Accept \/ FoundFull \/ ExitRequested \/ Broadcast \/ Join
         \/ UNCHANGED vars
  PROVE  TypeOK' /\ Control'
<1> USE DEF shared, bufferVars, Goto
<1>0. /\ Contents' = Contents /\ Capacity' = Capacity
      /\ IsFull' = IsFull /\ IsEmpty' = IsEmpty
  BY SameBuffer
<1>1. Window
  BY Windowed
<1>2. ASSUME NEW p \in Procs, Lock(p) PROVE TypeOK' /\ Control'
  <2>1. TypeOK'
    BY <1>2 DEF Lock, TypeOK
  <2>2. OwnCode' /\ MutexHeld' /\ WaitJustified' /\ Joined'
    BY <1>0, <1>2, Distinct DEF Lock, TypeOK, Control, OwnCode, MutexHeld, WaitJustified, Joined
  <2>3. Connections' /\ SomebodyUp'
    BY <1>0, <1>2, Distinct DEF Lock, TypeOK, Control, Connections, SomebodyUp, InHand
  <2> QED
    BY <2>1, <2>2, <2>3 DEF Control
<1>3. ASSUME NEW p \in Procs, CondWait(p) PROVE TypeOK' /\ Control'
  <2>1. TypeOK'
    BY <1>3 DEF CondWait, TypeOK
  <2>2. OwnCode' /\ MutexHeld' /\ WaitJustified' /\ Joined'
    BY <1>0, <1>3, Distinct DEF CondWait, TypeOK, Control, OwnCode, MutexHeld, WaitJustified, Joined
  <2>3. Connections'
    BY <1>0, <1>3, Distinct DEF CondWait, TypeOK, Control, Connections, InHand
  <2>4. SomebodyUp'
    BY <1>0, <1>1, <1>3, Distinct DEF CondWait, TypeOK, Control, SomebodyUp, WaitJustified, Window
  <2> QED
    BY <2>1, <2>2, <2>3, <2>4 DEF Control
<1>4. ASSUME NEW p \in Procs, Spurious(p) PROVE TypeOK' /\ Control'
  <2>1. TypeOK'
    BY <1>4 DEF Spurious, TypeOK
  <2>2. OwnCode' /\ MutexHeld' /\ WaitJustified' /\ Joined'
    BY <1>0, <1>4, Distinct DEF Spurious, TypeOK, Control, OwnCode, MutexHeld, WaitJustified, Joined
  <2>3. Connections' /\ SomebodyUp'
    BY <1>0, <1>4, Distinct DEF Spurious, TypeOK, Control, Connections, SomebodyUp, InHand
  <2> QED
    BY <2>1, <2>2, <2>3 DEF Control
<1>5. ASSUME NEW w \in Workers, Loop(w) \/ FoundEmpty(w) \/ FoundExiting(w) \/ Serve(w)
      PROVE TypeOK' /\ Control'
  <2>0. /\ pc' \in [Procs -> Pcs] /\ http_req' \in [Workers -> 0 .. MaxConns]
        /\ mutex' \in Procs \cup {Free}
        /\ UNCHANGED <<shared, accepted, joining>>
    <3>1. pc \in [Procs -> Pcs] /\ w \in Procs /\ 0 \in 0 .. MaxConns
      BY Distinct DEF TypeOK, Pcs
    <3>2. \E l \in Pcs : pc' = [pc EXCEPT ![w] = l]
      BY <1>5 DEF Loop, FoundEmpty, FoundExiting, Serve, Pcs
    <3>3. pc' \in [Procs -> Pcs]
      BY <3>1, <3>2
    <3>4. http_req' \in [Workers -> 0 .. MaxConns]
      BY <1>5, <3>1 DEF Loop, FoundEmpty, FoundExiting, Serve, TypeOK
    <3>5. mutex' \in Procs \cup {Free} /\ UNCHANGED <<shared, accepted, joining>>
      BY <1>5 DEF Loop, FoundEmpty, FoundExiting, Serve, TypeOK
    <3> QED
      BY <3>3, <3>4, <3>5
  <2>1. TypeOK'
    BY <2>0 DEF TypeOK, Pcs
  <2>2. OwnCode' /\ Joined'
    BY <1>0, <1>5, Distinct DEF Loop, FoundEmpty, FoundExiting, Serve, TypeOK, Control, OwnCode, Joined
  <2>3. MutexHeld' /\ WaitJustified'
    BY <1>0, <1>5, Distinct DEF Loop, FoundEmpty, FoundExiting, Serve, TypeOK, Control, MutexHeld, WaitJustified
  <2>4. Connections' /\ SomebodyUp'
    BY <1>0, <1>5, Distinct DEF Loop, FoundEmpty, FoundExiting, Serve, TypeOK, Control, Connections, SomebodyUp, InHand
  <2> QED
    BY <2>1, <2>2, <2>3, <2>4 DEF Control
<1>6. CASE Accept \/ FoundFull \/ ExitRequested
  <2>0. /\ pc' \in [Procs -> Pcs] /\ accepted' \in 0 .. MaxConns
        /\ accepted' # accepted => accepted' # 0
        /\ exiting' \in BOOLEAN
        /\ UNCHANGED <<bufferVars, mutex, http_req, joining>>
    <3>1. pc \in [Procs -> Pcs]
      BY DEF TypeOK, Pcs
    <3>2. \E l \in Pcs : pc' = [pc EXCEPT ![Main] = l]
      BY <1>6 DEF Accept, FoundFull, ExitRequested, Pcs
    <3>3. pc' \in [Procs -> Pcs]
      BY <3>1, <3>2, Distinct
    <3>4. accepted' \in 0 .. MaxConns /\ (accepted' # accepted => accepted' # 0)
      <4>1. accepted \in 0 .. MaxConns
        BY DEF TypeOK
      <4>2. \/ accepted' = accepted
            \/ accepted < MaxConns /\ accepted' = accepted + 1
        BY <1>6 DEF Accept, FoundFull, ExitRequested
      <4> QED
        BY <4>1, <4>2
    <3>5. exiting' \in BOOLEAN /\ UNCHANGED <<bufferVars, mutex, http_req, joining>>
      BY <1>6 DEF Accept, FoundFull, ExitRequested, TypeOK
    <3> QED
      BY <3>3, <3>4, <3>5
  <2>1. TypeOK'
    BY <2>0 DEF TypeOK, Pcs
  <2>2. OwnCode' /\ Joined'
    BY <1>0, <1>6, Distinct DEF Accept, FoundFull, ExitRequested, TypeOK, Control, OwnCode, Joined
  <2>3. MutexHeld' /\ WaitJustified'
    BY <1>0, <1>6, Distinct DEF Accept, FoundFull, ExitRequested, TypeOK, Control, MutexHeld, WaitJustified
  <2>4. Connections' /\ SomebodyUp'
    <3>1. /\ InHand' => accepted' # 0
          /\ \A w \in Workers : pc'[w] = pc[w]
          /\ pc'[Main] # "waiting" /\ UNCHANGED <<bufferVars, http_req>>
      <4>1. CASE Accept
        <5>1. accepted' # 0
          <6>1. accepted' # accepted
            BY <4>1 DEF Accept, TypeOK
          <6> QED
            BY <2>0, <6>1
        <5> QED
          BY <2>0, <4>1, <5>1, Distinct DEF Accept, TypeOK
      <4>2. CASE FoundFull \/ ExitRequested
        BY <2>0, <4>2, Distinct DEF FoundFull, ExitRequested, TypeOK, Control,
                                    Connections, InHand
      <4> QED
        BY <1>6, <4>1, <4>2
    <3> QED
      BY <1>0, <3>1 DEF Control, Connections, SomebodyUp
  <2> QED
    BY <2>1, <2>2, <2>3, <2>4 DEF Control
<1>7. CASE Broadcast
  <2>1. TypeOK'
    BY <1>7 DEF Broadcast, TypeOK
  <2>2. OwnCode' /\ Joined'
    BY <1>0, <1>7, Distinct DEF Broadcast, TypeOK, Control, OwnCode, Joined
  <2>3. MutexHeld' /\ WaitJustified'
    BY <1>0, <1>7, Distinct DEF Broadcast, TypeOK, Control, MutexHeld, WaitJustified
  <2>4. Connections' /\ SomebodyUp'
    BY <1>0, <1>7, Distinct DEF Broadcast, TypeOK, Control, Connections, SomebodyUp, InHand
  <2> QED
    BY <2>1, <2>2, <2>3, <2>4 DEF Control
<1>8. CASE Join
  <2>0. joining \in Workers /\ pc[joining] = "done"
    BY <1>8 DEF Join, TypeOK, Control, Joined
  <2>1. TypeOK'
    BY <1>8, <2>0 DEF Join, TypeOK
  <2>2. OwnCode' /\ Joined'
    BY <1>0, <1>8, <2>0, Distinct DEF Join, TypeOK, Control, OwnCode, Joined
  <2>3. MutexHeld' /\ WaitJustified'
    BY <1>0, <1>8, Distinct DEF Join, TypeOK, Control, MutexHeld, WaitJustified
  <2>4. Connections' /\ SomebodyUp'
    BY <1>0, <1>8, Distinct DEF Join, TypeOK, Control, Connections, SomebodyUp, InHand
  <2> QED
    BY <2>1, <2>2, <2>3, <2>4 DEF Control
<1>9. CASE UNCHANGED vars
  <2>1. TypeOK'
    BY <1>9 DEF vars, TypeOK
  <2> QED
    BY <1>0, <1>9, <2>1 DEF vars, Control, OwnCode, MutexHeld, WaitJustified,
                            Connections, Joined, SomebodyUp, InHand
<1> QED
  BY <1>2, <1>3, <1>4, <1>5, <1>6, <1>7, <1>8, <1>9

\* The main thread stores a connection and wakes a worker.
LEMMA PutStep ==
  ASSUME TypeOK, Control, Put
  PROVE  TypeOK' /\ Control'
<1>0. Window
  BY Windowed
<1>1. /\ pc[Main] = "test" /\ mutex = Main /\ accepted # 0
      /\ mutex' = Free
      /\ UNCHANGED <<max_requests, exiting, out, accepted, http_req, joining>>
  BY Distinct DEF Put, Control, MutexHeld, Connections, InHand
<1>2. /\ pc' \in [Procs -> Pcs]
      /\ pc'[Main] = "poll"
      /\ \A q \in Workers : \/ pc'[q] = pc[q]
                            \/ pc[q] = "waiting" /\ pc'[q] = "lock"
      /\ \/ \A q \in Workers : pc[q] # "waiting" /\ pc'[q] = pc[q]
         \/ \E q \in Workers : pc[q] = "waiting" /\ pc'[q] = "lock"
  <2>1. pc \in [Procs -> Pcs] /\ "poll" \in Pcs /\ SignalGoto(Workers, Main, "poll")
    BY DEF TypeOK, Put, Pcs
  <2>2. Workers \in SUBSET Procs /\ Main \in Procs \ Workers
    OBVIOUS
  <2>3. \A q \in Workers : q \in Procs \ {Main}
    OBVIOUS
  <2> HIDE DEF Main, Workers, Procs
  <2> QED
    BY <2>1, <2>2, <2>3, SignalFacts
<1>3. \A w \in Workers : pc[w] \notin {"test", "wait"}
  BY <1>1, Distinct DEF Control, MutexHeld
<1>4. TypeOK'
  <2>1. CASE max_requests > 1
    <3>1. /\ buffer' = [buffer EXCEPT ![in] = accepted] /\ in' = Succ(in)
          /\ UNCHANGED buffer_full
      BY <2>1 DEF Put, Store
    <3>2. max_requests \in Nat \ {0} /\ in \in 0 .. (max_requests - 1)
      BY DEF TypeOK
    <3>3. Succ(in) \in 0 .. (max_requests - 1)
      BY <3>2 DEF Succ
    <3> QED
      BY <1>1, <1>2, <3>1, <3>2, <3>3 DEF TypeOK, Pcs
  <2>2. CASE max_requests = 1
    BY <1>1, <1>2, <2>2 DEF Put, Store, TypeOK, Pcs
  <2> QED
    BY <2>1, <2>2 DEF Put, Store
<1>5. Contents' = Append(Contents, accepted)
  BY <1>1, <1>4, StoreAppends DEF Put
<1>6. OwnCode' /\ MutexHeld' /\ WaitJustified' /\ Joined'
  <2>1. OwnCode'
    BY <1>2, Distinct DEF Control, OwnCode
  <2>2. MutexHeld'
    BY <1>1, <1>2, <1>3, Distinct DEF Control, MutexHeld
  <2>3. WaitJustified'
    BY <1>2, <1>3 DEF WaitJustified
  <2>4. Joined'
    BY <1>1, <1>2 DEF Control, Joined
  <2> QED
    BY <2>1, <2>2, <2>3, <2>4
<1>7. Connections'
  <2>1. ~InHand'
    BY <1>2 DEF InHand
  <2>2. \A w \in Workers : (http_req[w] # 0 <=> pc[w] = "serve")'
    BY <1>1, <1>2 DEF Control, Connections
  <2>3. \A i \in 1 .. Len(Contents') : Contents'[i] # 0
    <3> DEFINE c == Contents
               d == Contents'
    <3>1. c \in Seq(0 .. MaxConns) /\ accepted \in 0 .. MaxConns
      BY <1>0 DEF Window, TypeOK
    <3>2. d = Append(c, accepted)
      BY <1>5
    <3>3. \A i \in 1 .. Len(c) : c[i] # 0
      BY DEF Control, Connections
    <3> HIDE DEF c, d
    <3>4. /\ Len(d) = Len(c) + 1 /\ d[Len(c) + 1] = accepted
          /\ \A i \in 1 .. Len(c) : d[i] = c[i]
      BY <3>1, <3>2, AppendProperties
    <3>5. ASSUME NEW i \in 1 .. Len(d) PROVE d[i] # 0
      <4>1. Len(c) \in Nat
        BY <3>1
      <4>2. i \in 1 .. Len(c) \/ i = Len(c) + 1
        BY <3>4, <4>1
      <4> QED
        BY <1>1, <3>3, <3>4, <4>2
    <3> QED
      BY <3>5 DEF d
  <2> QED
    BY <2>1, <2>2, <2>3 DEF Connections
<1>8. SomebodyUp'
  <2>1. \E w \in Workers : pc'[w] # "waiting"
    BY <1>2, Distinct
  <2> QED
    BY <1>2, <2>1 DEF SomebodyUp
<1> QED
  BY <1>4, <1>6, <1>7, <1>8 DEF Control

\* A worker takes a connection and wakes the main thread.
LEMMA TakeStep ==
  ASSUME TypeOK, Control, NEW w \in Workers, Take(w)
  PROVE  /\ TypeOK' /\ Control'
         /\ Fetch(http_req'[w])
         /\ http_req' = [http_req EXCEPT ![w] = http_req'[w]]
<1>0. Window
  BY Windowed
<1>1. /\ pc[w] = "test" /\ mutex = w /\ mutex' = Free
      /\ UNCHANGED <<max_requests, exiting, buffer, in, accepted, joining>>
      /\ http_req \in [Workers -> 0 .. MaxConns]
  BY Distinct DEF Take, Control, MutexHeld, TypeOK
<1>2. /\ Fetch(http_req'[w])
      /\ http_req' = [http_req EXCEPT ![w] = http_req'[w]]
  BY <1>1 DEF Take, Fetch
<1>3. /\ pc' \in [Procs -> Pcs]
      /\ pc'[w] = "serve"
      /\ \A q \in Workers \ {w} : pc'[q] = pc[q]
      /\ \/ pc[Main] # "waiting" /\ pc'[Main] = pc[Main]
         \/ pc[Main] = "waiting" /\ pc'[Main] = "lock"
  <2>1. pc \in [Procs -> Pcs] /\ "serve" \in Pcs /\ SignalGoto({Main}, w, "serve")
    BY DEF TypeOK, Take, Pcs
  <2>2. {Main} \in SUBSET Procs /\ w \in Procs \ {Main} /\ Main \in Procs \ {w}
    OBVIOUS
  <2>3. \A q \in Workers \ {w} : q \in Procs \ {w} /\ q \notin {Main}
    OBVIOUS
  <2> DEFINE S == {Main}
  <2> HIDE DEF Main, Workers, Procs, S
  <2>5. /\ pc' \in [Procs -> Pcs] /\ pc'[w] = "serve"
        /\ \A q \in Procs \ {w} :
              \/ pc'[q] = pc[q]
              \/ q \in S /\ pc[q] = "waiting" /\ pc'[q] = "lock"
        /\ \/ \A q \in S : pc[q] # "waiting" /\ pc'[q] = pc[q]
           \/ \E q \in S : pc[q] = "waiting" /\ pc'[q] = "lock"
    <3>1. S \in SUBSET Procs /\ w \in Procs \ S /\ SignalGoto(S, w, "serve")
      BY <2>1, <2>2 DEF S
    <3> QED
      BY <2>1, <3>1, SignalFacts
  <2>4. /\ pc' \in [Procs -> Pcs] /\ pc'[w] = "serve"
        /\ \A q \in Procs \ {w} :
              \/ pc'[q] = pc[q]
              \/ q \in {Main} /\ pc[q] = "waiting" /\ pc'[q] = "lock"
        /\ \/ \A q \in {Main} : pc[q] # "waiting" /\ pc'[q] = pc[q]
           \/ \E q \in {Main} : pc[q] = "waiting" /\ pc'[q] = "lock"
    BY <2>5 DEF S
  <2> QED
    BY <2>2, <2>3, <2>4
<1>4. \A p \in Procs \ {w} : pc[p] \notin {"test", "wait"}
  BY <1>1, Distinct DEF Control, MutexHeld
<1>5. TypeOK'
  <2>1. http_req'[w] \in 0 .. MaxConns /\ out' \in 0 .. (max_requests - 1)
        /\ buffer_full' \in {0, 1}
    <3>0. /\ max_requests \in Nat \ {0} /\ out \in 0 .. (max_requests - 1)
          /\ buffer \in [0 .. (max_requests - 1) -> 0 .. MaxConns]
          /\ buffer_full \in {0, 1}
      BY DEF TypeOK
    <3>1. Succ(out) \in 0 .. (max_requests - 1)
      BY <3>0 DEF Succ
    <3> QED
      BY <1>2, <3>0, <3>1 DEF Fetch
  <2>2. http_req' \in [Workers -> 0 .. MaxConns]
    BY <1>1, <1>2, <2>1
  <2> QED
    BY <1>1, <1>3, <2>1, <2>2 DEF TypeOK, Pcs
<1>6. /\ Contents # <<>> /\ http_req'[w] = Head(Contents)
      /\ Contents' = Tail(Contents)
  BY <1>1, <1>2, <1>5, FetchTakesHead DEF Take
<1>7. OwnCode' /\ MutexHeld' /\ WaitJustified' /\ Joined'
  <2>1. OwnCode'
    BY <1>3, Distinct DEF Control, OwnCode
  <2>2. MutexHeld'
    BY <1>1, <1>3, <1>4, Distinct DEF Control, MutexHeld
  <2>3. WaitJustified'
    BY <1>3, <1>4, Distinct DEF WaitJustified
  <2>4. Joined'
    BY <1>1, <1>3, Distinct DEF Control, Joined
  <2> QED
    BY <2>1, <2>2, <2>3, <2>4
<1>8. Connections'
  <2> DEFINE c == Contents
             d == Contents'
  <2>1. c \in Seq(0 .. MaxConns) /\ c # <<>> /\ d = Tail(c)
    BY <1>0, <1>6 DEF Window
  <2>2. (\A i \in 1 .. Len(c) : c[i] # 0) /\ http_req'[w] = Head(c)
    BY <1>6 DEF Control, Connections
  <2>3. InHand' => accepted' # 0
    BY <1>1, <1>3 DEF InHand, Control, Connections
  <2> HIDE DEF c, d
  <2>4. Len(c) \in Nat \ {0} /\ Head(c) = c[1]
    BY <2>1, EmptySeq
  <2>5. \A i \in 1 .. Len(d) : d[i] # 0
    <3>1. Len(d) = Len(c) - 1 /\ \A i \in 1 .. Len(d) : d[i] = c[i + 1]
      BY <2>1, HeadTailProperties
    <3> QED
      BY <2>2, <2>4, <3>1
  <2>6. http_req'[w] # 0
    BY <2>2, <2>4
  <2>7. \A v \in Workers : http_req'[v] # 0 <=> pc'[v] = "serve"
    BY <1>1, <1>2, <1>3, <2>6 DEF Control, Connections
  <2> QED
    BY <2>3, <2>5, <2>7 DEF Connections, d
<1>9. SomebodyUp'
  BY <1>3 DEF SomebodyUp
<1> QED
  BY <1>2, <1>5, <1>7, <1>8, <1>9 DEF Control

LEMMA NextControl == TypeOK /\ Control /\ [Next]_vars => TypeOK' /\ Control'
<1> SUFFICES ASSUME TypeOK, Control, [Next]_vars PROVE TypeOK' /\ Control'
  OBVIOUS
<1>1. ASSUME NEW p \in Procs, Lock(p) \/ CondWait(p) \/ Spurious(p)
      PROVE  TypeOK' /\ Control'
  <2>1. UNCHANGED bufferVars
    BY <1>1 DEF Lock, CondWait, Spurious, shared, bufferVars
  <2> QED
    BY <1>1, <2>1, QuietStep
<1>2. ASSUME NEW w \in Workers, WorkerStep(w) PROVE TypeOK' /\ Control'
  <2>1. CASE Loop(w) \/ FoundEmpty(w) \/ FoundExiting(w) \/ Serve(w)
    <3>1. UNCHANGED bufferVars
      BY <2>1 DEF Loop, FoundEmpty, FoundExiting, Serve, shared, bufferVars
    <3> QED
      BY <2>1, <3>1, QuietStep
  <2>2. CASE Take(w)
    BY <2>2, TakeStep
  <2> QED
    BY <1>2, <2>1, <2>2 DEF WorkerStep
<1>3. CASE Accept \/ FoundFull \/ ExitRequested \/ ExitStep \/ UNCHANGED vars
  <2>1. UNCHANGED bufferVars
    BY <1>3 DEF Accept, FoundFull, ExitRequested, ExitStep, Broadcast, Join,
                shared, vars, bufferVars
  <2> QED
    BY <1>3, <2>1, QuietStep DEF ExitStep
<1>4. CASE Put
  BY <1>4, PutStep
<1> QED
  BY <1>1, <1>2, <1>3, <1>4 DEF Next, RequestStep, Terminated

LEMMA Invariance == Spec => [](TypeOK /\ Control)
<1>1. Init => TypeOK /\ Control
  BY InitIInv
<1>2. TypeOK /\ Control /\ [Next]_vars => TypeOK' /\ Control'
  BY NextControl
<1> QED
  BY <1>1, <1>2, PTL DEF Spec

\* The inductive invariant as RequestQueue states it.
THEOREM InductiveInvariant == Spec => []IInv
<1>1. TypeOK /\ Control => IInv
  BY UpIff DEF IInv, Control
<1> QED
  BY <1>1, Invariance, PTL

\* The indices of the circular buffer stay inside it and every thread is where
\* its code can be, for any number of workers and any size.
THEOREM TypeCorrect == Spec => []TypeOK
BY Invariance, PTL

\* No signal is lost: a worker that pthread_cond_wait put to sleep saw an empty
\* buffer under the mutex, and each connection stored since woke one up.
THEOREM NoLostSignal == Spec => []NobodySleepsOnWork
<1>1. Control => NobodySleepsOnWork
  BY UpIff DEF Control
<1> QED
  BY <1>1, Invariance, PTL

\* server_exit returns, so that the buffer and the cache may be freed, when no
\* worker can touch them any more.
THEOREM FreedLast == Spec => []FreedAfterLastUse
<1>1. Control => FreedAfterLastUse
  BY DEF Control, Joined, FreedAfterLastUse
<1> QED
  BY <1>1, Invariance, PTL

-----------------------------------------------------------------------------
(* The circular buffer implements the bounded FIFO buffer. *)

LEMMA InitRefines == Init => B!Init
<1> SUFFICES ASSUME Init PROVE B!Init
  OBVIOUS
<1>1. TypeOK /\ Window
  BY InitIInv, Windowed
<1>2. Contents = <<>>
  <2>1. Len(Contents) = 0
    BY <1>1 DEF Window, Init
  <2> QED
    BY <1>1, <2>1 DEF Window
<1>3. Capacity \in Nat
  BY <1>1 DEF Window
<1>4. Arrived = 0
  BY DEF Init, Arrived, InHand
<1> QED
  BY <1>2, <1>3, <1>4 DEF Init, B!Init

\* Whoever leaves the buffer and the connections in hand alone does nothing
\* that BoundedBuffer sees.
LEMMA StutterRefines ==
  ASSUME UNCHANGED <<bufferVars, http_req>>, Arrived' = Arrived
  PROVE  UNCHANGED B!vars
BY SameBuffer DEF B!vars

LEMMA StepRefines == TypeOK /\ Control /\ [Next]_vars => [B!Next]_B!vars
<1> SUFFICES ASSUME TypeOK, Control, [Next]_vars PROVE [B!Next]_B!vars
  OBVIOUS
<1>0. TypeOK' /\ Control'
  BY NextControl
<1>1. ASSUME NEW p \in Procs, Lock(p) \/ CondWait(p) \/ Spurious(p)
      PROVE  UNCHANGED B!vars
  <2>1. /\ UNCHANGED <<bufferVars, http_req, accepted>>
        /\ InHand' = InHand
    <3>1. pc \in [Procs -> Pcs] /\ UNCHANGED <<bufferVars, http_req, accepted>>
      BY <1>1 DEF Lock, CondWait, Spurious, shared, bufferVars, TypeOK, Pcs
    <3>2. /\ pc[p] \in {"lock", "wait", "waiting"}
          /\ \E l \in {"test", "waiting", "lock"} : pc' = [pc EXCEPT ![p] = l]
      BY <1>1 DEF Lock, CondWait, Spurious, Goto
    <3> QED
      BY <3>1, <3>2, Distinct DEF InHand
  <2> QED
    BY <2>1, StutterRefines DEF Arrived
<1>2. ASSUME NEW w \in Workers, Loop(w) \/ FoundEmpty(w) \/ FoundExiting(w)
      PROVE  UNCHANGED B!vars
  <2>1. /\ UNCHANGED <<bufferVars, http_req, accepted>>
        /\ pc'[Main] = pc[Main]
    BY <1>2, Distinct DEF Loop, FoundEmpty, FoundExiting, Goto, shared, bufferVars, TypeOK
  <2> QED
    BY <2>1, StutterRefines DEF Arrived, InHand
<1>3. ASSUME NEW w \in Workers, Serve(w) PROVE B!Next
  <2>1. /\ UNCHANGED <<bufferVars, accepted>>
        /\ pc'[Main] = pc[Main]
        /\ pc[w] = "serve"
        /\ http_req' = [http_req EXCEPT ![w] = 0]
    BY <1>3, Distinct DEF Serve, Goto, shared, bufferVars, TypeOK
  <2>2. http_req[w] # 0
    BY <2>1 DEF Control, Connections
  <2>3. Arrived' = Arrived
    BY <2>1 DEF Arrived, InHand
  <2>4. Contents' = Contents /\ Capacity' = Capacity
    BY <2>1, SameBuffer
  <2>5. B!Finish(w)
    BY <2>1, <2>2, <2>3, <2>4 DEF B!Finish
  <2> QED
    BY <2>5 DEF B!Next
<1>4. ASSUME NEW w \in Workers, Take(w) PROVE B!Next
  <2>1. Fetch(http_req'[w]) /\ http_req' = [http_req EXCEPT ![w] = http_req'[w]]
    BY <1>4, TakeStep
  <2>2. /\ Contents # <<>> /\ http_req'[w] = Head(Contents)
        /\ Contents' = Tail(Contents) /\ Capacity' = Capacity
    BY <1>0, <1>4, <2>1, FetchTakesHead DEF Take
  <2>3. http_req[w] = 0
    BY <1>4 DEF Take, TypeOK, Control, Connections
  <2>4. InHand' = InHand
    <3>1. pc \in [Procs -> Pcs] /\ w # Main
      BY Distinct DEF TypeOK, Pcs
    <3>2. \/ pc'[Main] = pc[Main]
          \/ pc[Main] = "waiting" /\ pc'[Main] = "lock"
      BY <1>4, <3>1, Distinct DEF Take, SignalGoto, Goto, Asleep
    <3> QED
      BY <3>2 DEF InHand
  <2>5. Arrived' = Arrived
    BY <1>4, <2>4 DEF Arrived, Take
  <2>6. B!Take(w)
    BY <2>1, <2>2, <2>3, <2>5 DEF B!Take
  <2> QED
    BY <2>6 DEF B!Next
<1>5. CASE Accept \/ FoundFull \/ ExitRequested \/ ExitStep
  <2>1. UNCHANGED <<bufferVars, http_req>>
    BY <1>5 DEF Accept, FoundFull, ExitRequested, ExitStep, Broadcast, Join,
                shared, bufferVars
  <2>2. Arrived' = Arrived
    <3>1. accepted \in Nat /\ pc \in [Procs -> Pcs]
      BY DEF TypeOK, Pcs
    <3>2. CASE Accept
      <4>1. ~InHand /\ InHand' /\ accepted' = accepted + 1
        BY <3>1, <3>2 DEF Accept, Goto, InHand
      <4> QED
        BY <3>1, <4>1 DEF Arrived
    <3>3. CASE FoundFull
      <4>1. InHand /\ InHand' /\ accepted' = accepted
        BY <3>1, <3>3 DEF FoundFull, Goto, InHand
      <4> QED
        BY <4>1 DEF Arrived
    <3>4. CASE ExitRequested \/ ExitStep
      <4>1. ~InHand /\ ~InHand' /\ accepted' = accepted
        BY <3>1, <3>4, Distinct DEF ExitRequested, ExitStep, Broadcast, Join, Goto, InHand
      <4> QED
        BY <4>1 DEF Arrived
    <3> QED
      BY <1>5, <3>2, <3>3, <3>4
  <2> QED
    BY <2>1, <2>2, StutterRefines
<1>6. CASE Put
  <2>1. /\ Contents' = Append(Contents, accepted) /\ Len(Contents) < Capacity
        /\ Capacity' = Capacity
    BY <1>0, <1>6, StoreAppends DEF Put
  <2>2. InHand /\ ~InHand'
    <3>1. pc'[Main] = "poll"
      BY <1>6, Distinct DEF Put, SignalGoto, Goto, Asleep, TypeOK
    <3> QED
      BY <1>6, <3>1 DEF Put, InHand
  <2>3. accepted \in 0 .. MaxConns /\ accepted # 0 /\ UNCHANGED <<accepted, http_req>>
    BY <1>6, <2>2 DEF Put, TypeOK, Control, Connections
  <2>4. Arrived < MaxConns /\ Arrived' = Arrived + 1 /\ Arrived' = accepted
    BY <2>2, <2>3 DEF Arrived
  <2>5. B!Put
    BY <2>1, <2>3, <2>4 DEF B!Put
  <2> QED
    BY <2>5 DEF B!Next
<1>7. CASE UNCHANGED vars
  <2>1. UNCHANGED <<bufferVars, http_req>> /\ Arrived' = Arrived
    BY <1>7 DEF vars, shared, bufferVars, Arrived, InHand
  <2> QED
    BY <2>1, StutterRefines
<1> QED
  BY <1>1, <1>2, <1>3, <1>4, <1>5, <1>6, <1>7
     DEF Next, WorkerStep, RequestStep, Terminated

\* The buffer of the web server, with its wrap-around, its special case of one
\* slot, its two condition variables and the broadcast at exit, hands the
\* connections to the workers in the order of arrival, each once, and never
\* holds more than its capacity.
THEOREM Refinement == Spec => IsBoundedBuffer
<1>1. Init => B!Init
  BY InitRefines
<1>2. TypeOK /\ Control /\ [Next]_vars => [B!Next]_B!vars
  BY StepRefines
<1> QED
  BY <1>1, <1>2, Invariance, PTL DEF Spec, IsBoundedBuffer, B!Spec
=============================================================================
