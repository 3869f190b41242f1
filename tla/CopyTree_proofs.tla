-------------------------- MODULE CopyTree_proofs --------------------------
(***************************************************************************)
(* Proofs about CopyTree, for every file system with a directory to copy   *)
(* and every place to copy it to, its own inside included.  An invariant   *)
(* follows the chain of calls of copydirectory: what each of them is done  *)
(* with is in the copy, but for what a failing readdir kept back, and      *)
(* nothing is where the rest will be.                                      *)
(***************************************************************************)
EXTENDS CopyTree, QueueFacts, FunctionTheorems, FiniteSetTheorems

CprSpec(t, d) == CprInit(t, d) /\ [][CprNext]_cprVars

Records == [initial : Paths, destin : Paths, seen : SUBSET Names, due : SUBSET Names,
            entry : Names \cup {""}, st_mode : SUBSET {"r", "w", "x"}]

\* The program is done with a path: its copy is there, or readdir has kept it
\* back.  It is done with all that is under a path.  Nothing is where the copy of
\* a path will be.
Settled(p) == Copied(p) \/ Missed(p)
DoneUnder(p) == \A q \in Under(p, tree) : Settled(q)
Fresh(p) == \A q \in DOMAIN fs : ~IsPrefix(Image(p), q)

\* A call that has made its directory, one that is at its entry, and the path of
\* an entry.
Entered(k) == k < Len(frames) \/ cpr_pc # "enter"
Busy(k) == k < Len(frames) \/ cpr_pc \in {"open", "copy", "chmod"}
Child(k, n) == Append(frames[k].initial, n)
AtEntry(k) == Child(k, frames[k].entry)

\* What there was stays, and what there is besides came from the source.
Growing ==
    /\ DOMAIN fs \subseteq Paths
    /\ \A p \in DOMAIN tree : p \in DOMAIN fs /\ fs[p] = tree[p]
    /\ \A p \in DOMAIN fs \ DOMAIN tree :
          /\ target \notin DOMAIN tree
          /\ \E q \in Paths :
                IsPrefix(Source, q) /\ p = Image(q) /\ (~Within => q \in DOMAIN tree)

\* The calls lead down from the source, each at the entry of the one before.
Chained ==
    /\ frames \in Seq(Records) /\ frames # <<>>
    /\ frames[1].initial = Source
    /\ \A k \in 1 .. Len(frames) - 1 : frames[k + 1].initial = AtEntry(k)
    /\ \A j \in 1 .. Len(frames), k \in 1 .. Len(frames) :
          k < j => IsPrefix(AtEntry(k), frames[j].initial)

CallOK(k) ==
    /\ IsPrefix(Source, frames[k].initial)
    /\ frames[k].destin = Image(frames[k].initial)
    /\ frames[k].initial \in DOMAIN fs /\ fs[frames[k].initial].kind = "dir"
    /\ Busy(k) =>
          /\ frames[k].entry \in frames[k].seen
          /\ AtEntry(k) \in DOMAIN fs
          /\ AtEntry(k) \in DOMAIN tree => frames[k].st_mode = tree[AtEntry(k)].mode

\* A call's directory has the copies of the entries it is done with, but for what
\* readdir has kept back under them, and nothing of those that are to come.
DirOK(k) == Entered(k) =>
    /\ target \notin DOMAIN tree
    /\ frames[k].destin \in DOMAIN fs /\ fs[frames[k].destin] = NewDir
    /\ \A n \in Names : Child(k, n) \in DOMAIN tree => n \in frames[k].due
    /\ \A n \in frames[k].seen :
          Child(k, n) \in DOMAIN tree /\ ~(Busy(k) /\ n = frames[k].entry)
             => DoneUnder(Child(k, n))
    /\ \A n \in Names \ frames[k].seen : Fresh(Child(k, n))

Stack == Chained /\ \A k \in 1 .. Len(frames) : CallOK(k) /\ DirOK(k)

\* What is in hand.
InHand ==
    /\ cpr_pc = "enter" =>
          Here.seen = {} /\ IF Len(frames) = 1 THEN fs = tree ELSE Fresh(Here.initial)
    /\ cpr_pc = "open" => fs[From].kind = "file" /\ Fresh(From)
    /\ cpr_pc = "copy" =>
          /\ fs[From].kind = "file"
          /\ To \in DOMAIN fs /\ fs[To].kind = "file" /\ fs[To].mode = {}
          /\ Len(fs[To].data) <= Len(fs[From].data)
          /\ fs[To].data = SubSeq(fs[From].data, 1, Len(fs[To].data))
    /\ cpr_pc = "chmod" /\ From \in DOMAIN tree =>
          \/ /\ tree[From].kind = "dir"
             /\ To \in DOMAIN fs /\ fs[To] = NewDir
             /\ \A p \in Under(From, tree) : p # From => Settled(p)
          \/ /\ tree[From].kind = "file"
             /\ To \in DOMAIN fs
             /\ fs[To] = [kind |-> "file", mode |-> {}, data |-> tree[From].data]
          \/ tree[From].kind = "other" /\ Fresh(From)

CprInv ==
    /\ CprTypeOK /\ Growing /\ CprFaithful /\ CprModeLast /\ CprFailsFor
    /\ ~CprStopped => Stack /\ InHand

TreeOK ==
    \A p \in DOMAIN fs :
       fs[p] \in Inodes /\ (p # <<>> => Front(p) \in DOMAIN fs /\ fs[Front(p)].kind = "dir")

MissedOK == missed \subseteq Paths

\* What a step may do to the file system while the copy of a path is made.
Steady(c) ==
    /\ UNCHANGED <<tree, target>>
    /\ \A p \in DOMAIN fs :
          /\ p \in DOMAIN fs' /\ fs'[p].kind = fs[p].kind
          /\ p # Image(c) => fs'[p] = fs[p]
    /\ \A p \in Under(Source, tree) : Settled(p) => Settled(p)'
    /\ \A p \in Paths : IsPrefix(Source, p) /\ DoneUnder(p) => DoneUnder(p)'
    /\ \A p \in Paths : IsPrefix(Source, p) /\ Fresh(p) /\ ~IsPrefix(p, c) => Fresh(p)'

-----------------------------------------------------------------------------
\* Paths: one is a prefix of another when the other agrees with it all along.
LEMMA PrefixIs ==
  ASSUME NEW p \in Paths, NEW q \in Paths
  PROVE  IsPrefix(p, q) <=> Len(p) <= Len(q) /\ \A j \in 1 .. Len(p) : p[j] = q[j]
<1>1. ASSUME Len(p) <= Len(q)
      PROVE  /\ SubSeq(p, 1, Len(p)) \in Seq(Names) /\ SubSeq(q, 1, Len(p)) \in Seq(Names)
             /\ Len(SubSeq(p, 1, Len(p))) = Len(p) /\ Len(SubSeq(q, 1, Len(p))) = Len(p)
             /\ \A j \in 1 .. Len(p) : SubSeq(p, 1, Len(p))[j] = p[j] /\ SubSeq(q, 1, Len(p))[j] = q[j]
  BY <1>1 DEF Paths
<1>2. ASSUME Len(p) <= Len(q), \A j \in 1 .. Len(p) : p[j] = q[j]
      PROVE  SubSeq(p, 1, Len(p)) = SubSeq(q, 1, Len(p))
  <2> DEFINE a == SubSeq(p, 1, Len(p))
             b == SubSeq(q, 1, Len(p))
  <2>1. a \in Seq(Names) /\ b \in Seq(Names) /\ Len(a) = Len(b)
    BY <1>1, <1>2
  <2>2. \A j \in 1 .. Len(a) : a[j] = b[j]
    BY <1>1, <1>2
  <2> HIDE DEF a, b
  <2>3. a = b
    BY <2>1, <2>2, SeqEqual
  <2> QED
    BY <2>3 DEF a, b
<1> QED
  BY <1>1, <1>2 DEF IsPrefix

\* An entry of a directory.
LEMMA ChildFacts ==
  ASSUME NEW p \in Paths, NEW n \in Names
  PROVE  /\ Append(p, n) \in Paths /\ Append(p, n) # <<>> /\ Append(p, n) # p
         /\ Len(Append(p, n)) = Len(p) + 1
         /\ Front(Append(p, n)) = p /\ Last(Append(p, n)) = n
         /\ IsPrefix(p, Append(p, n)) /\ ~IsPrefix(Append(p, n), p)
<1> DEFINE a == Append(p, n)
<1>1. /\ a \in Seq(Names) /\ Len(a) = Len(p) + 1 /\ a[Len(p) + 1] = n
      /\ \A j \in 1 .. Len(p) : a[j] = p[j]
  BY DEF Paths
<1>2. Len(p) \in Nat /\ p \in Seq(Names)
  BY DEF Paths
<1> HIDE DEF a
<1>3. Front(a) = p
  <2>1. /\ SubSeq(a, 1, Len(a) - 1) \in Seq(Names)
        /\ Len(SubSeq(a, 1, Len(a) - 1)) = Len(p)
        /\ \A j \in 1 .. Len(p) : SubSeq(a, 1, Len(a) - 1)[j] = p[j]
    BY <1>1, <1>2
  <2>2. SubSeq(a, 1, Len(a) - 1) = p
    BY <2>1, <1>2, SeqEqual
  <2> QED
    BY <2>2 DEF Front
<1>4. Last(a) = n /\ a # <<>> /\ a # p /\ a \in Paths
  BY <1>1, <1>2 DEF Last, Paths
<1>5. IsPrefix(p, a) /\ ~IsPrefix(a, p)
  BY <1>1, <1>2, <1>4, PrefixIs
<1> QED
  BY <1>1, <1>3, <1>4, <1>5 DEF a

LEMMA PrefixFacts ==
  /\ \A p \in Paths : IsPrefix(p, p)
  /\ \A p, q, r \in Paths : IsPrefix(p, q) /\ IsPrefix(q, r) => IsPrefix(p, r)
  /\ \A p, q \in Paths, n, m \in Names :
        IsPrefix(Append(p, n), q) /\ IsPrefix(Append(p, m), q) => n = m
  /\ \A p, q \in Paths, n \in Names : IsPrefix(Append(p, n), q) => IsPrefix(p, q) /\ p # q
  /\ \A p, q \in Paths : IsPrefix(p, q) /\ p # q => \E n \in Names : IsPrefix(Append(p, n), q)
  /\ \A p, q \in Paths, n \in Names : IsPrefix(p, Append(q, n)) => p = Append(q, n) \/ IsPrefix(p, q)
<1>1. \A p \in Paths : Len(p) \in Nat
  BY DEF Paths
<1>2. \A p \in Paths : IsPrefix(p, p)
  BY <1>1, PrefixIs
<1>3. \A p, q, r \in Paths : IsPrefix(p, q) /\ IsPrefix(q, r) => IsPrefix(p, r)
  BY <1>1, PrefixIs
<1>4. ASSUME NEW p \in Paths, NEW n \in Names
      PROVE  /\ Append(p, n) \in Paths /\ Len(Append(p, n)) = Len(p) + 1
             /\ Append(p, n)[Len(p) + 1] = n
             /\ \A j \in 1 .. Len(p) : Append(p, n)[j] = p[j]
  BY DEF Paths
<1>5. ASSUME NEW p \in Paths, NEW q \in Paths, NEW n \in Names, NEW m \in Names,
             IsPrefix(Append(p, n), q), IsPrefix(Append(p, m), q)
      PROVE  n = m
  <2>1. Len(p) + 1 \in 1 .. Len(Append(p, n)) /\ Len(p) + 1 \in 1 .. Len(Append(p, m))
    BY <1>1, <1>4
  <2>2. Append(p, n)[Len(p) + 1] = q[Len(p) + 1]
    BY <1>4, <1>5, <2>1, PrefixIs
  <2>3. Append(p, m)[Len(p) + 1] = q[Len(p) + 1]
    BY <1>4, <1>5, <2>1, PrefixIs
  <2> QED
    BY <1>4, <2>2, <2>3
<1>6. ASSUME NEW p \in Paths, NEW q \in Paths, NEW n \in Names, IsPrefix(Append(p, n), q)
      PROVE  IsPrefix(p, q) /\ p # q
  BY <1>3, <1>6, ChildFacts
<1>7. ASSUME NEW p \in Paths, NEW q \in Paths, IsPrefix(p, q), p # q
      PROVE  \E n \in Names : IsPrefix(Append(p, n), q)
  <2>1. Len(p) <= Len(q) /\ \A j \in 1 .. Len(p) : p[j] = q[j]
    BY <1>7, PrefixIs
  <2>2. Len(p) # Len(q)
    <3>1. SUFFICES ASSUME Len(p) = Len(q) PROVE p = q
      BY <1>7
    <3> QED
      BY <2>1, <3>1, SeqEqual DEF Paths
  <2>3. Len(p) + 1 \in 1 .. Len(q) /\ q[Len(p) + 1] \in Names
    BY <1>1, <2>1, <2>2 DEF Paths
  <2>4. PICK n \in Names : n = q[Len(p) + 1]
    BY <2>3
  <2> DEFINE c == Append(p, n)
  <2>5. /\ c \in Paths /\ Len(c) = Len(p) + 1
        /\ \A j \in 1 .. Len(p) + 1 : c[j] = q[j]
    BY <1>1, <1>4, <2>1, <2>4
  <2> HIDE DEF c
  <2>6. IsPrefix(c, q)
    BY <1>1, <2>3, <2>5, PrefixIs
  <2> USE DEF c
  <2> QED
    BY <2>6
<1>8. ASSUME NEW p \in Paths, NEW q \in Paths, NEW n \in Names, IsPrefix(p, Append(q, n))
      PROVE  p = Append(q, n) \/ IsPrefix(p, q)
  <2>1. Len(p) <= Len(q) + 1 /\ \A j \in 1 .. Len(p) : p[j] = Append(q, n)[j]
    BY <1>4, <1>8, PrefixIs
  <2>2. CASE Len(p) = Len(q) + 1
    BY <1>4, <2>1, <2>2, SeqEqual DEF Paths
  <2>3. CASE Len(p) <= Len(q)
    BY <1>1, <1>4, <2>1, <2>3, PrefixIs
  <2> QED
    BY <1>1, <2>1, <2>2, <2>3
<1> QED
  BY <1>2, <1>3, <1>5, <1>6, <1>7, <1>8

\* The copy of a path.
LEMMA ImageFacts ==
  ASSUME target \in Paths
  PROVE  /\ Source \in Paths /\ IsPrefix(Source, Source) /\ Image(Source) = target
         /\ \A p \in Paths : IsPrefix(Source, p) =>
               /\ Image(p) \in Paths /\ IsPrefix(target, Image(p))
               /\ Len(Image(p)) = Len(target) + Len(p) - 1
               /\ Image(p) = p => target = Source
               /\ \A n \in Names : Image(Append(p, n)) = Append(Image(p), n)
               /\ \A q \in Paths : IsPrefix(Source, q) =>
                     (Image(p) = Image(q) => p = q) /\ (IsPrefix(Image(p), Image(q)) <=> IsPrefix(p, q))
<1>1. Source \in Paths /\ Len(Source) = 1 /\ Source[1] = "src"
  BY CprAssumption DEF Source, Paths
<1>2. ASSUME NEW p \in Paths, IsPrefix(Source, p)
      PROVE  /\ Len(p) \in Nat /\ Len(p) >= 1 /\ p[1] = "src"
  <2>1. Len(Source) <= Len(p) /\ \A j \in 1 .. Len(Source) : Source[j] = p[j]
    BY <1>1, <1>2, PrefixIs
  <2> HIDE DEF Source
  <2> QED
    BY <1>1, <2>1 DEF Paths
<1>3. ASSUME NEW p \in Paths, IsPrefix(Source, p)
      PROVE  /\ Image(p) \in Paths
             /\ Len(Image(p)) = Len(target) + Len(p) - 1
             /\ \A j \in 1 .. Len(target) : Image(p)[j] = target[j]
             /\ \A j \in 1 .. Len(p) - 1 : Image(p)[Len(target) + j] = p[j + 1]
  <2> DEFINE s == SubSeq(p, Len(Source) + 1, Len(p))
  <2>1. s \in Seq(Names) /\ Len(s) = Len(p) - 1 /\ \A j \in 1 .. Len(p) - 1 : s[j] = p[j + 1]
    BY <1>1, <1>2, <1>3 DEF Paths
  <2>2. target \in Seq(Names)
    BY DEF Paths
  <2> HIDE DEF s
  <2>3. \A u, v \in Seq(Names) :
          /\ u \o v \in Seq(Names) /\ Len(u \o v) = Len(u) + Len(v)
          /\ \A j \in 1 .. Len(u) : (u \o v)[j] = u[j]
          /\ \A j \in 1 .. Len(v) : (u \o v)[Len(u) + j] = v[j]
    OBVIOUS
  <2>4. /\ target \o s \in Seq(Names) /\ Len(target \o s) = Len(target) + Len(s)
        /\ \A j \in 1 .. Len(target) : (target \o s)[j] = target[j]
        /\ \A j \in 1 .. Len(s) : (target \o s)[Len(target) + j] = s[j]
    BY <2>1, <2>2, <2>3
  <2> QED
    BY <1>2, <1>3, <2>1, <2>4 DEF Image, s, Paths
<1>4. Len(target) \in Nat
  BY DEF Paths
<1>5. Image(Source) = target
  <2>1. IsPrefix(Source, Source)
    BY <1>1, PrefixFacts
  <2> DEFINE a == Image(Source)
  <2>2. /\ a \in Paths /\ Len(a) = Len(target) + Len(Source) - 1
        /\ \A j \in 1 .. Len(target) : a[j] = target[j]
    BY <1>1, <1>3, <2>1
  <2> HIDE DEF a
  <2>3. Len(a) = Len(target)
    BY <1>1, <1>4, <2>2
  <2>4. a = target
    BY <2>2, <2>3, SeqEqual DEF Paths
  <2> QED
    BY <2>4 DEF a
<1>6. ASSUME NEW p \in Paths, IsPrefix(Source, p)
      PROVE  IsPrefix(target, Image(p))
  BY <1>2, <1>3, <1>4, <1>6, PrefixIs
<1>7. ASSUME NEW p \in Paths, IsPrefix(Source, p), Image(p) = p
      PROVE  target = Source
  <2>0. /\ Len(p) = Len(target) + Len(p) - 1
        /\ \A j \in 1 .. Len(target) : p[j] = target[j]
        /\ Len(p) \in Nat /\ p[1] = "src"
    BY <1>2, <1>3, <1>7
  <2>1. Len(target) = 1 /\ target[1] = "src"
    <3>0. \A x, y \in Nat : x = y + x - 1 => y = 1
      OBVIOUS
    <3>1. Len(target) = 1
      BY <1>4, <2>0, <3>0
    <3> QED
      BY <2>0, <3>1
  <2> QED
    BY <1>1, <2>1, SeqEqual DEF Paths
<1>8. ASSUME NEW p \in Paths, IsPrefix(Source, p), NEW n \in Names
      PROVE  Image(Append(p, n)) = Append(Image(p), n)
  <2> DEFINE c == Append(p, n)
  <2>1. /\ c \in Paths /\ IsPrefix(Source, c) /\ Len(c) = Len(p) + 1 /\ c[Len(p) + 1] = n
        /\ \A j \in 1 .. Len(p) : c[j] = p[j]
    <3>1. /\ c \in Seq(Names) /\ Len(c) = Len(p) + 1 /\ c[Len(p) + 1] = n
          /\ \A j \in 1 .. Len(p) : c[j] = p[j]
      BY DEF Paths
    <3> QED
      BY <1>1, <1>8, <3>1, ChildFacts, PrefixFacts DEF Paths
  <2> HIDE DEF c
  <2> DEFINE a == Image(c)
             b == Image(p)
             e == Append(b, n)
  <2>2. /\ a \in Paths /\ Len(a) = Len(target) + Len(p)
        /\ \A j \in 1 .. Len(target) : a[j] = target[j]
        /\ \A j \in 1 .. Len(p) : a[Len(target) + j] = c[j + 1]
    <3>1. /\ a \in Paths /\ Len(a) = Len(target) + Len(c) - 1
          /\ \A j \in 1 .. Len(target) : a[j] = target[j]
          /\ \A j \in 1 .. Len(c) - 1 : a[Len(target) + j] = c[j + 1]
      BY <1>3, <2>1
    <3> HIDE DEF a
    <3> QED
      BY <1>2, <1>4, <1>8, <2>1, <3>1
  <2>3. /\ b \in Paths /\ Len(b) = Len(target) + Len(p) - 1
        /\ \A j \in 1 .. Len(target) : b[j] = target[j]
        /\ \A j \in 1 .. Len(p) - 1 : b[Len(target) + j] = p[j + 1]
    BY <1>3, <1>8
  <2> HIDE DEF a, b
  <2>4. /\ e \in Paths /\ Len(e) = Len(b) + 1 /\ e[Len(b) + 1] = n
        /\ \A j \in 1 .. Len(b) : e[j] = b[j]
    BY <2>3 DEF Paths
  <2> HIDE DEF e
  <2>5. Len(a) = Len(e)
    BY <1>2, <1>4, <1>8, <2>2, <2>3, <2>4
  <2>6. ASSUME NEW j \in 1 .. Len(a)
        PROVE  a[j] = e[j]
    <3>1. CASE j <= Len(target)
      BY <1>2, <1>4, <1>8, <2>2, <2>3, <2>4, <3>1
    <3>2. CASE j = Len(target) + Len(p)
      BY <1>2, <1>4, <1>8, <2>1, <2>2, <2>3, <2>4, <3>2
    <3>3. CASE j > Len(target) /\ j < Len(target) + Len(p)
      <4>1. /\ j - Len(target) \in 1 .. Len(p) - 1 /\ j = Len(target) + (j - Len(target))
            /\ j \in 1 .. Len(b)
        BY <1>2, <1>4, <1>8, <2>2, <2>3, <3>3
      <4>2. a[j] = c[(j - Len(target)) + 1]
        <5>1. \A m \in 1 .. Len(p) : a[Len(target) + m] = c[m + 1]
          BY <2>2
        <5>2. j - Len(target) \in 1 .. Len(p)
          BY <1>2, <1>8, <4>1
        <5>3. a[Len(target) + (j - Len(target))] = c[(j - Len(target)) + 1]
          BY <5>1, <5>2
        <5> QED
          BY <4>1, <5>3
      <4>3. b[j] = p[(j - Len(target)) + 1]
        BY <2>3, <4>1
      <4>4. (j - Len(target)) + 1 \in 1 .. Len(p)
        BY <1>2, <1>8, <4>1
      <4> QED
        BY <2>1, <2>4, <4>1, <4>2, <4>3, <4>4
    <3> QED
      BY <1>2, <1>4, <1>8, <2>2, <3>1, <3>2, <3>3
  <2>7. a = e
    BY <2>2, <2>4, <2>5, <2>6, SeqEqual DEF Paths
  <2> QED
    BY <2>7 DEF a, b, c, e
<1>9. ASSUME NEW p \in Paths, NEW q \in Paths, IsPrefix(Source, p), IsPrefix(Source, q)
      PROVE  IsPrefix(Image(p), Image(q)) <=> IsPrefix(p, q)
  <2>1. /\ Image(p) \in Paths /\ Len(Image(p)) = Len(target) + Len(p) - 1
        /\ \A j \in 1 .. Len(target) : Image(p)[j] = target[j]
        /\ \A j \in 1 .. Len(p) - 1 : Image(p)[Len(target) + j] = p[j + 1]
    BY <1>3, <1>9
  <2>2. /\ Image(q) \in Paths /\ Len(Image(q)) = Len(target) + Len(q) - 1
        /\ \A j \in 1 .. Len(target) : Image(q)[j] = target[j]
        /\ \A j \in 1 .. Len(q) - 1 : Image(q)[Len(target) + j] = q[j + 1]
    BY <1>3, <1>9
  <2>3. Len(p) \in Nat /\ Len(q) \in Nat /\ Len(p) >= 1 /\ Len(q) >= 1 /\ p[1] = q[1]
    BY <1>2, <1>9
  <2>4. ASSUME IsPrefix(p, q) PROVE IsPrefix(Image(p), Image(q))
    <3>1. Len(p) <= Len(q) /\ \A j \in 1 .. Len(p) : p[j] = q[j]
      BY <2>4, PrefixIs
    <3>2. ASSUME NEW j \in 1 .. Len(Image(p))
          PROVE  Image(p)[j] = Image(q)[j]
      <4>1. CASE j <= Len(target)
        BY <1>4, <2>1, <2>2, <2>3, <4>1
      <4>2. CASE j > Len(target)
        <5>1. /\ j - Len(target) \in 1 .. Len(p) - 1 /\ j - Len(target) \in 1 .. Len(q) - 1
              /\ j = Len(target) + (j - Len(target))
              /\ (j - Len(target)) + 1 \in 1 .. Len(p)
          BY <1>4, <2>1, <2>3, <3>1, <4>2
        <5>2. Image(p)[j] = p[(j - Len(target)) + 1]
          BY <2>1, <5>1
        <5>3. Image(q)[j] = q[(j - Len(target)) + 1]
          BY <2>2, <5>1
        <5> QED
          BY <3>1, <5>1, <5>2, <5>3
      <4> QED
        BY <1>4, <2>1, <2>3, <4>1, <4>2
    <3>3. Len(Image(p)) <= Len(Image(q))
      BY <1>4, <2>1, <2>2, <2>3, <3>1
    <3> QED
      BY <2>1, <2>2, <3>2, <3>3, PrefixIs
  <2>5. ASSUME IsPrefix(Image(p), Image(q)) PROVE IsPrefix(p, q)
    <3>1. Len(Image(p)) <= Len(Image(q)) /\ \A j \in 1 .. Len(Image(p)) : Image(p)[j] = Image(q)[j]
      BY <2>1, <2>2, <2>5, PrefixIs
    <3>2. ASSUME NEW j \in 1 .. Len(p)
          PROVE  p[j] = q[j]
      <4>1. CASE j = 1
        BY <2>3, <4>1
      <4>2. CASE j > 1
        <5>1. /\ j - 1 \in 1 .. Len(p) - 1 /\ j - 1 \in 1 .. Len(q) - 1 /\ j = (j - 1) + 1
              /\ Len(target) + (j - 1) \in 1 .. Len(Image(p))
          BY <1>4, <2>1, <2>2, <2>3, <3>1, <4>2
        <5>2. Image(p)[Len(target) + (j - 1)] = p[(j - 1) + 1]
          BY <2>1, <5>1
        <5>3. Image(q)[Len(target) + (j - 1)] = q[(j - 1) + 1]
          BY <2>2, <5>1
        <5> QED
          BY <3>1, <5>1, <5>2, <5>3
      <4> QED
        BY <2>3, <4>1, <4>2
    <3> QED
      BY <1>4, <2>1, <2>2, <2>3, <3>1, <3>2, PrefixIs
  <2> QED
    BY <2>4, <2>5
<1>10. ASSUME NEW p \in Paths, NEW q \in Paths, IsPrefix(p, q), IsPrefix(q, p)
       PROVE  p = q
  <2>1. /\ Len(p) <= Len(q) /\ Len(q) <= Len(p) /\ Len(p) \in Nat /\ Len(q) \in Nat
        /\ \A j \in 1 .. Len(p) : p[j] = q[j]
    BY <1>10, PrefixIs DEF Paths
  <2> QED
    BY <2>1, SeqEqual DEF Paths
<1>11. ASSUME NEW p \in Paths, NEW q \in Paths, IsPrefix(Source, p), IsPrefix(Source, q),
              Image(p) = Image(q)
       PROVE  p = q
  BY <1>3, <1>9, <1>10, <1>11, PrefixFacts
<1>12. IsPrefix(Source, Source)
  BY <1>1, PrefixFacts
<1> HIDE DEF Source
<1> QED
  BY <1>1, <1>3, <1>5, <1>6, <1>7, <1>8, <1>9, <1>11, <1>12

\* A tree has the way to every path in it.
LEMMA TreeFacts ==
  ASSUME tree \in Trees, target \in Targets
  PROVE  /\ DOMAIN tree \subseteq Paths
         /\ \A p \in DOMAIN tree : tree[p] \in Inodes /\ (tree[p].kind = "dir" => tree[p].data = <<>>)
         /\ \A p \in Paths, q \in DOMAIN tree : IsPrefix(p, q) => p \in DOMAIN tree
         /\ \A p \in Paths, n \in Names :
               Append(p, n) \in DOMAIN tree => p \in DOMAIN tree /\ tree[p].kind = "dir"
         /\ \A p \in DOMAIN tree : p # <<>> => Front(p) \in DOMAIN tree /\ tree[Front(p)].kind = "dir"
         /\ Source \in DOMAIN tree /\ tree[Source].kind = "dir"
         /\ target \in Paths /\ target # <<>>
         /\ Front(target) \in DOMAIN tree /\ tree[Front(target)].kind = "dir"
<1>1. /\ DOMAIN tree \subseteq Paths
      /\ Source \in DOMAIN tree /\ tree[Source].kind = "dir"
      /\ target \in Paths /\ target # <<>>
      /\ Front(target) \in DOMAIN tree /\ tree[Front(target)].kind = "dir"
      /\ \A p \in DOMAIN tree : tree[p] \in Inodes /\ (tree[p].kind = "dir" => tree[p].data = <<>>)
      /\ \A p \in DOMAIN tree, k \in Nat : k < Len(p) =>
            SubSeq(p, 1, k) \in DOMAIN tree /\ tree[SubSeq(p, 1, k)].kind = "dir"
  <2>1. \A p \in Paths : Len(p) \in Nat
    BY DEF Paths
  <2>2. \A p \in DOMAIN tree, k \in Nat : k < Len(p) => k \in 0 .. Len(p) - 1
    BY <2>1, CprAssumption
  <2> QED
    BY <2>1, <2>2, CprAssumption
<1>2. ASSUME NEW p \in Paths, NEW q \in DOMAIN tree, IsPrefix(p, q)
      PROVE  p \in DOMAIN tree /\ (p # q => tree[p].kind = "dir")
  <2>1. Len(p) \in Nat /\ Len(q) \in Nat /\ q \in Paths /\ SubSeq(p, 1, Len(p)) = p
    BY <1>1 DEF Paths
  <2>2. Len(p) <= Len(q) /\ SubSeq(q, 1, Len(p)) = p
    BY <1>2, <2>1 DEF IsPrefix
  <2>3. CASE Len(p) = Len(q)
    <3>1. SubSeq(q, 1, Len(q)) = q
      BY <2>1 DEF Paths
    <3> QED
      BY <2>2, <2>3, <3>1
  <2>4. CASE Len(p) < Len(q)
    BY <1>1, <2>1, <2>2, <2>4
  <2> QED
    BY <2>1, <2>2, <2>3, <2>4
<1>3. ASSUME NEW p \in Paths, NEW n \in Names, Append(p, n) \in DOMAIN tree
      PROVE  p \in DOMAIN tree /\ tree[p].kind = "dir"
  BY <1>2, <1>3, ChildFacts
<1>4. ASSUME NEW p \in DOMAIN tree, p # <<>>
      PROVE  Front(p) \in DOMAIN tree /\ tree[Front(p)].kind = "dir"
  <2>1. p \in Paths
    BY <1>1
  <2>2. Len(p) - 1 \in Nat /\ Len(p) - 1 < Len(p)
    BY <1>4, <2>1 DEF Paths
  <2> QED
    BY <1>1, <2>2 DEF Front
<1> QED
  BY <1>1, <1>2, <1>3, <1>4

LEMMA CprStartInv ==
  ASSUME NEW t \in Trees, NEW d \in Targets, CprInit(t, d)
  PROVE  CprInv
<1>1. /\ tree \in Trees /\ target \in Targets /\ fs = tree
      /\ frames = <<Frame(Source, target)>> /\ cpr_pc = "enter" /\ missed = {}
  BY DEF CprInit
<1> DEFINE f == Frame(Source, target)
<1>a. /\ f \in Records /\ f.initial = Source /\ f.destin = target /\ f.seen = {}
  BY <1>1, TreeFacts DEF Frame, Records
<1> HIDE DEF f
<1>b. frames \in Seq(Records) /\ Len(frames) = 1 /\ frames[1] = f /\ frames # <<>>
  BY <1>1, <1>a DEF f
<1>2. CprTypeOK
  <2>1. \A k \in DOMAIN frames : frames[k].initial = Source
    BY <1>a, <1>b
  <2> QED
    BY <1>1, <2>1, TreeFacts DEF CprTypeOK, CprStopped
<1>3. Growing /\ CprFaithful /\ CprModeLast /\ CprFailsFor
  BY <1>1, TreeFacts DEF Growing, CprFaithful, CprModeLast, CprFailsFor
<1>4. Chained /\ CallOK(1) /\ DirOK(1)
  <2>1. ~Busy(1) /\ ~Entered(1)
    BY <1>1, <1>b DEF Busy, Entered
  <2>2. IsPrefix(Source, Source) /\ target = Image(Source) /\ Source \in DOMAIN fs /\ fs[Source].kind = "dir"
    BY <1>1, TreeFacts, ImageFacts
  <2>3. CallOK(1) /\ DirOK(1)
    BY <1>a, <1>b, <2>1, <2>2 DEF CallOK, DirOK
  <2>4. Chained
    BY <1>a, <1>b DEF Chained
  <2> QED
    BY <2>3, <2>4
<1>5. Stack
  <2>1. \A k \in 1 .. Len(frames) : k = 1
    BY <1>b
  <2> QED
    BY <1>4, <2>1 DEF Stack
<1>6. Here.seen = {}
  BY <1>a, <1>b DEF Here, Last
<1> QED
  BY <1>1, <1>2, <1>3, <1>5, <1>6, <1>b DEF CprInv, InHand

\* What is in the source and was not there before is in the copy of the source.
LEMMA FromSource ==
  ASSUME tree \in Trees, target \in Targets, Growing,
         NEW p \in DOMAIN fs, IsPrefix(Source, p), p \notin DOMAIN tree
  PROVE  Within
<1>1. PICK q \in Paths : IsPrefix(Source, q) /\ p = Image(q)
  BY DEF Growing
<1>2. target \in Paths /\ Source \in Paths /\ p \in Paths /\ IsPrefix(target, p)
  BY <1>1, TreeFacts, ImageFacts
<1>3. Len(target) \in Nat /\ Len(target) >= 1 /\ Len(Source) = 1
  BY TreeFacts DEF Paths, Source
<1>4. \A j \in 1 .. Len(target) : p[j] = target[j]
  BY <1>2, PrefixIs
<1>5. \A j \in 1 .. Len(Source) : Source[j] = p[j]
  BY <1>2, PrefixIs
<1>6. \A j \in 1 .. Len(Source) : Source[j] = target[j]
  BY <1>3, <1>4, <1>5
<1> QED
  BY <1>2, <1>3, <1>6, PrefixIs DEF Within

\* Calls that leave the file system as it is.
LEMMA SameFs ==
  ASSUME UNCHANGED <<tree, target, fs>>, missed \subseteq missed'
  PROVE  /\ \A p : Image(p)' = Image(p)
         /\ \A p : Settled(p) => Settled(p)'
         /\ \A p : DoneUnder(p) => DoneUnder(p)'
         /\ \A p : Fresh(p)' <=> Fresh(p)
         /\ Within' <=> Within
         /\ Growing => Growing'
         /\ CprModeLast => CprModeLast'
<1>1. /\ \A p : Image(p)' = Image(p)
      /\ \A p : Settled(p) => Settled(p)'
      /\ Within' <=> Within
  BY DEF Image, Settled, Copied, Missed, Within
<1>2. /\ \A p : DoneUnder(p) => DoneUnder(p)'
      /\ \A p : Fresh(p)' <=> Fresh(p)
  BY <1>1 DEF DoneUnder, Under, Fresh
<1>3. Growing => Growing'
  BY <1>1 DEF Growing
<1>4. CprModeLast => CprModeLast'
  BY <1>1 DEF CprModeLast, Under, Settled
<1> QED
  BY <1>1, <1>2, <1>3, <1>4

\* Calls that make or change one part of the copy and leave alone what has been
\* copied.
LEMMA WriteKeeps ==
  ASSUME tree \in Trees, target \in Targets, UNCHANGED <<tree, target>>,
         missed \subseteq missed', CprTypeOK, Growing, CprModeLast, target \notin DOMAIN tree,
         NEW c \in DOMAIN fs, IsPrefix(Source, c),
         DOMAIN fs' = DOMAIN fs \cup {Image(c)},
         \A p \in DOMAIN fs : p # Image(c) => fs'[p] = fs[p],
         fs'[Image(c)] \in Inodes,
         Front(Image(c)) \in DOMAIN fs, fs[Front(Image(c))].kind = "dir", Front(Image(c)) # Image(c),
         Image(c) \in DOMAIN fs => fs'[Image(c)].kind = fs[Image(c)].kind,
         c \in DOMAIN tree /\ Copied(c) => fs'[Image(c)] = fs[Image(c)],
         c \in DOMAIN tree =>
            LET made == fs'[Image(c)]
            IN  /\ made.kind = "file" /\ made.mode # {} => made = tree[c]
                /\ made.kind = "dir" /\ made.mode # NewDirMode => DoneUnder(c)'
  PROVE  Growing' /\ CprModeLast' /\ TreeOK' /\ Steady(c)
<1>0. /\ \A p : Image(p)' = Image(p)
      /\ \A p : Under(p, tree)' = Under(p, tree)
      /\ Within' <=> Within
      /\ c \in Paths /\ Source \in Paths /\ target \in Paths /\ Image(c) \in Paths
      /\ IsPrefix(target, Image(c))
      /\ \A p \in Paths : IsPrefix(Source, p) /\ Image(p) = Image(c) => p = c
      /\ \A p \in Paths : IsPrefix(Source, p) => (IsPrefix(Image(p), Image(c)) <=> IsPrefix(p, c))
  <2>1. c \in Paths /\ target \in Paths
    BY TreeFacts DEF Growing
  <2> QED
    BY <2>1, ImageFacts DEF Image, Within, Under
<1>1. Image(c) \notin DOMAIN tree
  BY <1>0, TreeFacts
<1>2. \A p \in DOMAIN tree : p \in DOMAIN fs /\ p # Image(c) /\ p \in Paths
  BY <1>1, TreeFacts DEF Growing
<1>3. \A p \in DOMAIN fs : fs'[p].kind = fs[p].kind
  OBVIOUS
<1>4. ASSUME NEW p \in Under(Source, tree), Settled(p) PROVE Settled(p)'
  <2>1. CASE Missed(p)
    BY <2>1 DEF Settled, Missed
  <2>2. CASE Copied(p)
    <3>1. /\ Image(p) \in DOMAIN fs /\ fs[Image(p)] = tree[p]
          /\ p \in DOMAIN tree /\ p \in Paths /\ IsPrefix(Source, p)
      BY <1>2, <1>4, <2>2 DEF Copied, Under
    <3>2. CASE p = c
      BY <1>0, <2>2, <3>1, <3>2 DEF Settled, Copied
    <3>3. CASE p # c
      BY <1>0, <3>1, <3>3 DEF Settled, Copied
    <3> QED
      BY <3>2, <3>3
  <2> QED
    BY <1>4, <2>1, <2>2 DEF Settled
<1>5. ASSUME NEW p \in Paths, IsPrefix(Source, p), DoneUnder(p) PROVE DoneUnder(p)'
  <2>1. \A q \in Under(p, tree) : q \in Under(Source, tree)
    BY <1>0, <1>2, <1>5, PrefixFacts DEF Under
  <2> QED
    BY <1>0, <1>4, <1>5, <2>1 DEF DoneUnder
<1>6. ASSUME NEW p \in Paths, IsPrefix(Source, p), Fresh(p), ~IsPrefix(p, c) PROVE Fresh(p)'
  BY <1>0, <1>6 DEF Fresh
<1>7. Growing'
  <2>1. DOMAIN fs' \subseteq Paths
    BY <1>0 DEF Growing
  <2>2. \A p \in DOMAIN tree : p \in DOMAIN fs' /\ fs'[p] = tree[p]
    BY <1>2 DEF Growing
  <2>3. ASSUME NEW p \in DOMAIN fs' \ DOMAIN tree
        PROVE  \E q \in Paths : IsPrefix(Source, q) /\ p = Image(q) /\ (~Within => q \in DOMAIN tree)
    <3>1. CASE p \in DOMAIN fs
      BY <2>3, <3>1 DEF Growing
    <3>2. CASE p = Image(c)
      BY <1>0, <3>2, FromSource
    <3> QED
      BY <2>3, <3>1, <3>2
  <2> QED
    BY <1>0, <2>1, <2>2, <2>3 DEF Growing
<1>8. CprModeLast'
  <2>1. SUFFICES ASSUME NEW p \in Under(Source, tree),
                        Image(p) \in DOMAIN fs', Image(p) \notin DOMAIN tree
                 PROVE  LET made == fs'[Image(p)]
                        IN  /\ made.kind = "file" /\ made.mode # {} => made = tree[p]
                            /\ made.kind = "dir" /\ made.mode # NewDirMode =>
                                  \A q \in Under(p, tree) : Settled(q)'
    BY <1>0 DEF CprModeLast, Settled
  <2>2. p \in Paths /\ p \in DOMAIN tree /\ p \in DOMAIN fs /\ IsPrefix(Source, p)
    BY <1>2, <2>1 DEF Under
  <2>3. CASE p = c
    BY <1>0, <2>2, <2>3 DEF DoneUnder
  <2>4. CASE p # c
    <3>1. Image(p) \in DOMAIN fs /\ fs'[Image(p)] = fs[Image(p)]
      BY <1>0, <2>1, <2>2, <2>4
    <3>2. /\ fs[Image(p)].kind = "file" /\ fs[Image(p)].mode # {} => fs[Image(p)] = tree[p]
          /\ fs[Image(p)].kind = "dir" /\ fs[Image(p)].mode # NewDirMode => DoneUnder(p)
      BY <2>1, <2>2, <3>1 DEF CprModeLast, DoneUnder, Settled
    <3>3. DoneUnder(p) => \A q \in Under(p, tree) : Settled(q)'
      BY <1>0, <1>5, <2>2 DEF DoneUnder
    <3> QED
      BY <3>1, <3>2, <3>3
  <2> QED
    BY <2>3, <2>4
<1>9. ASSUME NEW p \in DOMAIN fs'
      PROVE  /\ fs'[p] \in Inodes
             /\ p # <<>> => Front(p) \in DOMAIN fs' /\ fs'[Front(p)].kind = "dir"
  <2>1. CASE p \in DOMAIN fs
    BY <1>3, <2>1 DEF CprTypeOK
  <2>2. CASE p = Image(c)
    BY <1>3, <2>2
  <2> QED
    BY <1>9, <2>1, <2>2
<1> QED
  BY <1>3, <1>4, <1>5, <1>6, <1>7, <1>8, <1>9 DEF TreeOK, Steady

Running == tree \in Trees /\ target \in Targets /\ CprInv /\ ~CprStopped

\* The innermost call, the entry it is at, and the calls around it.
LEMMA HereFacts ==
  ASSUME Running
  PROVE  /\ Len(frames) \in Nat \ {0} /\ Here = frames[Len(frames)] /\ Here \in Records
         /\ Here.initial \in Paths /\ IsPrefix(Source, Here.initial)
         /\ Here.destin = Image(Here.initial) /\ Here.destin \in Paths
         /\ Here.initial \in DOMAIN fs /\ fs[Here.initial].kind = "dir"
         /\ cpr_pc # "enter" =>
               target \notin DOMAIN tree /\ Here.destin \in DOMAIN fs /\ fs[Here.destin] = NewDir
         /\ \A k \in 1 .. Len(frames) - 1 :
               /\ frames[k].entry \in Names /\ AtEntry(k) \in Paths /\ frames[k].initial \in Paths
               /\ IsPrefix(AtEntry(k), Here.initial)
               /\ IsPrefix(Source, frames[k].initial)
               /\ frames[k].destin = Image(frames[k].initial)
               /\ frames[k].destin \in DOMAIN fs /\ fs[frames[k].destin] = NewDir
               /\ target \notin DOMAIN tree
<1>1. /\ frames \in Seq(Records) /\ frames # <<>> /\ Stack /\ Chained
      /\ \A k \in 1 .. Len(frames) : CallOK(k) /\ DirOK(k)
  BY DEF Running, CprInv, Stack, Chained
<1>2. /\ Len(frames) \in Nat \ {0} /\ Here = frames[Len(frames)]
      /\ \A k \in 1 .. Len(frames) : frames[k] \in Records
  BY <1>1 DEF Here, Last
<1>3. \A k \in 1 .. Len(frames) :
         /\ frames[k].initial \in Paths /\ frames[k].destin \in Paths
         /\ frames[k].seen \subseteq Names
  BY <1>2 DEF Records
<1>4. Len(frames) \in 1 .. Len(frames)
  BY <1>2
<1>5. /\ IsPrefix(Source, Here.initial) /\ Here.destin = Image(Here.initial)
      /\ Here.initial \in DOMAIN fs /\ fs[Here.initial].kind = "dir"
  BY <1>1, <1>2, <1>4 DEF CallOK
<1>6. cpr_pc # "enter" =>
         target \notin DOMAIN tree /\ Here.destin \in DOMAIN fs /\ fs[Here.destin] = NewDir
  BY <1>1, <1>2, <1>4 DEF DirOK, Entered
<1>7. ASSUME NEW k \in 1 .. Len(frames) - 1
      PROVE  /\ frames[k].entry \in Names /\ AtEntry(k) \in Paths /\ frames[k].initial \in Paths
             /\ IsPrefix(AtEntry(k), Here.initial)
             /\ IsPrefix(Source, frames[k].initial)
             /\ frames[k].destin = Image(frames[k].initial)
             /\ frames[k].destin \in DOMAIN fs /\ fs[frames[k].destin] = NewDir
             /\ target \notin DOMAIN tree
  <2>1. k \in 1 .. Len(frames) /\ k < Len(frames) /\ Busy(k) /\ Entered(k)
    BY <1>2 DEF Busy, Entered
  <2>2. /\ frames[k].entry \in Names /\ IsPrefix(Source, frames[k].initial)
        /\ frames[k].destin = Image(frames[k].initial)
    BY <1>1, <1>3, <2>1 DEF CallOK
  <2>3. /\ frames[k].destin \in DOMAIN fs /\ fs[frames[k].destin] = NewDir
        /\ target \notin DOMAIN tree
    BY <1>1, <2>1 DEF DirOK
  <2>4. IsPrefix(AtEntry(k), Here.initial)
    BY <1>1, <1>2, <1>4, <2>1 DEF Chained
  <2>5. AtEntry(k) \in Paths /\ frames[k].initial \in Paths
    BY <1>3, <2>1, <2>2, ChildFacts DEF AtEntry, Child
  <2> QED
    BY <2>2, <2>3, <2>4, <2>5
<1> QED
  BY <1>2, <1>3, <1>4, <1>5, <1>6, <1>7

\* An entry of the directory that is being copied, and where its copy goes.
LEMMA EntryFacts ==
  ASSUME Running, NEW n \in Names
  PROVE  LET p == Append(Here.initial, n)
         IN  /\ p \in Paths /\ IsPrefix(Source, p) /\ IsPrefix(Here.initial, p)
             /\ p # Here.initial /\ ~IsPrefix(p, Here.initial)
             /\ Image(p) = Append(Here.destin, n)
             /\ Image(p) \in Paths /\ Image(p) # <<>>
             /\ Front(Image(p)) = Here.destin /\ Here.destin # Image(p)
             /\ p \in DOMAIN fs <=> n \in Entries(Here.initial)
<1> DEFINE p == Append(Here.initial, n)
<1>1. /\ Here.initial \in Paths /\ Here.destin \in Paths /\ target \in Paths
      /\ IsPrefix(Source, Here.initial) /\ Here.destin = Image(Here.initial)
      /\ DOMAIN fs \subseteq Paths
  BY HereFacts, TreeFacts DEF Running, CprInv, Growing
<1>2. /\ p \in Paths /\ IsPrefix(Here.initial, p) /\ p # Here.initial /\ ~IsPrefix(p, Here.initial)
      /\ Last(p) = n /\ p # <<>>
  BY <1>1, ChildFacts
<1>3. /\ Image(p) = Append(Here.destin, n)
  BY <1>1, ImageFacts
<1>4. /\ Append(Here.destin, n) \in Paths /\ Append(Here.destin, n) # <<>>
      /\ Front(Append(Here.destin, n)) = Here.destin /\ Here.destin # Append(Here.destin, n)
  BY <1>1, ChildFacts
<1>5. IsPrefix(Source, p)
  BY <1>1, <1>2, PrefixFacts, ImageFacts
<1>6. p \in DOMAIN fs <=> n \in Entries(Here.initial)
  BY <1>2 DEF Entries
<1> QED
  BY <1>2, <1>3, <1>4, <1>5, <1>6

LEMMA EntriesAreNames ==
  ASSUME Running
  PROVE  Entries(Here.initial) \subseteq Names
<1>1. DOMAIN fs \subseteq Paths
  BY DEF Running, CprInv, Growing
<1>2. \A p \in Paths : p # <<>> => Last(p) \in Names
  BY DEF Paths, Last
<1> QED
  BY <1>1, <1>2 DEF Entries

\* While an entry is copied.
LEMMA FromFacts ==
  ASSUME Running, cpr_pc \in {"open", "copy", "chmod"}
  PROVE  /\ Here.entry \in Names /\ Here.entry \in Here.seen
         /\ From = AtEntry(Len(frames))
         /\ From \in DOMAIN fs /\ From \in Paths
         /\ IsPrefix(Source, From) /\ IsPrefix(Here.initial, From) /\ ~IsPrefix(From, Here.initial)
         /\ From # Here.initial
         /\ From \in DOMAIN tree => Here.st_mode = tree[From].mode
         /\ To = Image(From) /\ To \in Paths /\ To # <<>>
         /\ Front(To) = Here.destin /\ Here.destin # To
<1>1. /\ Len(frames) \in 1 .. Len(frames) /\ Here = frames[Len(frames)] /\ Here \in Records
      /\ Busy(Len(frames)) /\ CallOK(Len(frames))
  BY HereFacts DEF Running, CprInv, Stack, Busy
<1>2. /\ Here.entry \in Names /\ Here.entry \in Here.seen
      /\ From = AtEntry(Len(frames)) /\ From \in DOMAIN fs
      /\ From \in DOMAIN tree => Here.st_mode = tree[From].mode
  BY <1>1 DEF CallOK, Records, From, AtEntry, Child
<1> QED
  BY <1>2, EntryFacts DEF From, To

LEMMA SameIsSteady ==
  ASSUME UNCHANGED <<tree, target, fs>>, missed \subseteq missed', NEW c PROVE Steady(c)
BY SameFs DEF Steady

LEMMA ChildOfSource ==
  ASSUME NEW p \in Paths, IsPrefix(Source, p), NEW n \in Names
  PROVE  Append(p, n) \in Paths /\ IsPrefix(Source, Append(p, n))
<1>1. Append(p, n) \in Paths /\ IsPrefix(p, Append(p, n)) /\ Source \in Paths
  BY ChildFacts, CprAssumption DEF Source, Paths
<1> QED
  BY <1>1, PrefixFacts

\* The calls around the innermost stay as they are.
LEMMA LowerKeeps ==
  ASSUME Running, NEW c \in Paths, IsPrefix(Source, c), IsPrefix(Here.initial, c), Steady(c),
         NEW k \in 1 .. Len(frames) - 1, Busy(k)', frames'[k] = frames[k]
  PROVE  CallOK(k)' /\ DirOK(k)'
<1>1. /\ k < Len(frames) /\ k \in 1 .. Len(frames) /\ frames[k] \in Records
      /\ CallOK(k) /\ DirOK(k) /\ Busy(k) /\ Busy(k)' /\ Entered(k) /\ Entered(k)'
      /\ UNCHANGED <<tree, target>>
  BY HereFacts DEF Running, CprInv, Stack, Chained, Busy, Entered, Steady
<1>2. /\ \A n : Child(k, n)' = Child(k, n) /\ AtEntry(k)' = AtEntry(k)
      /\ \A p : Image(p)' = Image(p)
  BY <1>1 DEF Child, AtEntry, Image
<1>3. /\ frames[k].entry \in Names /\ frames[k].initial \in Paths /\ AtEntry(k) \in Paths
      /\ IsPrefix(AtEntry(k), c) /\ IsPrefix(Source, frames[k].initial)
      /\ frames[k].destin = Image(frames[k].initial) /\ target \in Paths
  BY HereFacts, PrefixFacts, TreeFacts DEF Running
<1>4. frames[k].initial # c
  BY <1>3, PrefixFacts DEF AtEntry, Child
<1>5. frames[k].destin # Image(c)
  BY <1>3, <1>4, ImageFacts
<1>6. CallOK(k)'
  BY <1>1, <1>2 DEF CallOK, Steady
<1>7. ASSUME NEW n \in Names \ frames[k].seen
      PROVE  Fresh(Child(k, n))'
  <2>1. frames[k].entry \in frames[k].seen
    BY <1>1 DEF CallOK
  <2>2. ~IsPrefix(Child(k, n), c)
    BY <1>3, <1>7, <2>1, PrefixFacts DEF AtEntry, Child
  <2>3. Child(k, n) \in Paths /\ IsPrefix(Source, Child(k, n))
    BY <1>3, ChildOfSource DEF Child
  <2>4. Fresh(Child(k, n))
    BY <1>1, <1>7 DEF DirOK
  <2>5. \A p \in Paths : IsPrefix(Source, p) /\ Fresh(p) /\ ~IsPrefix(p, c) => Fresh(p)'
    BY DEF Steady
  <2> QED
    BY <1>2, <2>2, <2>3, <2>4, <2>5 DEF Fresh
<1>8. ASSUME NEW n \in frames[k].seen, Child(k, n) \in DOMAIN tree, n # frames[k].entry
      PROVE  DoneUnder(Child(k, n))'
  <2>1. DoneUnder(Child(k, n)) /\ n \in Names
    BY <1>1, <1>8 DEF DirOK, Records
  <2>2. Child(k, n) \in Paths /\ IsPrefix(Source, Child(k, n))
    BY <1>3, <2>1, ChildOfSource DEF Child
  <2> QED
    BY <1>2, <2>1, <2>2 DEF Steady, DoneUnder
<1>9. DirOK(k)'
  BY <1>1, <1>2, <1>5, <1>7, <1>8 DEF DirOK, Steady
<1> QED
  BY <1>6, <1>9

\* The innermost call has moved on to another entry or another step.
LEMMA TopFacts ==
  ASSUME NEW S, NEW s \in Seq(S), s # <<>>, NEW h \in S
  PROVE  LET r == Append(Front(s), h)
         IN  /\ r \in Seq(S) /\ r # <<>> /\ Len(r) = Len(s) /\ r[Len(s)] = h /\ Last(r) = h
             /\ \A k \in 1 .. Len(s) - 1 : r[k] = s[k]
<1>0. Len(s) \in Nat \ {0}
  OBVIOUS
<1>1. /\ Front(s) \in Seq(S) /\ Len(Front(s)) = Len(s) - 1
      /\ \A k \in 1 .. Len(s) - 1 : Front(s)[k] = s[k]
  <2>1. ASSUME NEW m \in Nat, m <= Len(s)
        PROVE  /\ SubSeq(s, 1, m) \in Seq(S) /\ Len(SubSeq(s, 1, m)) = m
               /\ \A k \in 1 .. m : SubSeq(s, 1, m)[k] = s[k]
    BY <2>1
  <2>2. Len(s) - 1 \in Nat /\ Len(s) - 1 <= Len(s)
    BY <1>0
  <2> QED
    BY <2>1, <2>2, Zenon DEF Front
<1> DEFINE f == Front(s)
<1> HIDE DEF f
<1>2. f \in Seq(S) /\ Len(f) = Len(s) - 1 /\ \A k \in 1 .. Len(s) - 1 : f[k] = s[k]
  BY <1>1 DEF f
<1>3. LET r == Append(f, h)
      IN  /\ r \in Seq(S) /\ r # <<>> /\ Len(r) = Len(s) /\ r[Len(s)] = h
          /\ \A k \in 1 .. Len(s) - 1 : r[k] = s[k]
  BY <1>0, <1>2
<1> QED
  BY <1>3 DEF f, Last

LEMMA ChainKeeps ==
  ASSUME Chained, frames' \in Seq(Records), Len(frames') = Len(frames),
         frames'[Len(frames)].initial = frames[Len(frames)].initial,
         \A k \in 1 .. Len(frames) - 1 : frames'[k] = frames[k]
  PROVE  Chained'
<1>1. Len(frames) \in Nat \ {0} /\ frames \in Seq(Records)
  BY DEF Chained
<1>2. \A k \in 1 .. Len(frames) : frames'[k].initial = frames[k].initial
  <2>1. \A k \in 1 .. Len(frames) : k \in 1 .. Len(frames) - 1 \/ k = Len(frames)
    BY <1>1
  <2> QED
    BY <2>1
<1>3. \A k \in 1 .. Len(frames) - 1 : AtEntry(k)' = AtEntry(k)
  BY DEF AtEntry, Child
<1>4. \A k \in 1 .. Len(frames) - 1 : k \in 1 .. Len(frames) /\ k + 1 \in 1 .. Len(frames)
  BY <1>1
<1>5. \A j \in 1 .. Len(frames), k \in 1 .. Len(frames) :
         k < j => k \in 1 .. Len(frames) - 1
  BY <1>1
<1>6. frames' # <<>>
  BY <1>1
<1>7. 1 \in 1 .. Len(frames)
  BY <1>1
<1>8. frames'[1].initial = Source
  BY <1>2, <1>7 DEF Chained
<1>9. \A k \in 1 .. Len(frames) - 1 : frames'[k + 1].initial = AtEntry(k)'
  BY <1>2, <1>3, <1>4 DEF Chained
<1>10. \A j \in 1 .. Len(frames), k \in 1 .. Len(frames) :
          k < j => IsPrefix(AtEntry(k)', frames'[j].initial)
  BY <1>2, <1>3, <1>5 DEF Chained
<1> QED
  BY <1>6, <1>8, <1>9, <1>10 DEF Chained

\* What makes up the invariant after a step, while the program runs and when it
\* has given up.
LEMMA RunningKeeps ==
  ASSUME Running, UNCHANGED <<tree, target>>, Growing', CprModeLast', TreeOK', MissedOK',
         cpr_pc' \in {"enter", "entry", "open", "copy", "chmod"}, Stack', InHand'
  PROVE  CprInv'
<1>1. CprTypeOK'
  <2>1. DOMAIN frames' = 1 .. Len(frames')
    BY DEF Stack, Chained
  <2> QED
    BY <2>1 DEF CprTypeOK, Running, TreeOK, MissedOK, Stack, CallOK
<1>2. CprFaithful' /\ CprFailsFor'
  BY DEF Growing, CprFaithful, CprFailsFor
<1> QED
  BY <1>1, <1>2 DEF CprInv

LEMMA StoppedKeeps ==
  ASSUME Running, UNCHANGED <<tree, target, frames>>, Growing', CprModeLast', TreeOK', MissedOK',
         DOMAIN fs \subseteq DOMAIN fs',
         cpr_pc' \in {"exit1", "overflow"}, CprFailsFor'
  PROVE  CprInv'
<1>1. CprTypeOK'
  BY DEF CprTypeOK, CprStopped, Running, TreeOK, MissedOK, CprInv
<1>2. CprFaithful'
  BY DEF Growing, CprFaithful
<1>3. CprStopped'
  BY DEF CprStopped
<1> QED
  BY <1>1, <1>2, <1>3 DEF CprInv

\* A call that fails of itself.
LEMMA FaultKeeps ==
  ASSUME Running, NEW pc0, Syserror(pc0, FALSE), Growing', CprModeLast', TreeOK', MissedOK',
         DOMAIN fs \subseteq DOMAIN fs'
  PROVE  CprInv'
<1>1. UNCHANGED <<tree, target, frames>> /\ cpr_pc' = "exit1" /\ faulty' = TRUE
  BY DEF Syserror, Cpr
<1>2. CprFailsFor'
  BY <1>1 DEF CprFailsFor
<1> QED
  BY <1>1, <1>2, StoppedKeeps

\* A call that is refused: there is a reason for it.
LEMMA RefusedKeeps ==
  ASSUME Running, NEW pc0, NEW denied, Syserror(pc0, denied), UNCHANGED <<fs, missed>>,
         denied = TRUE =>
           \/ target \in DOMAIN tree
           \/ ~({"w", "x"} \subseteq tree[Front(target)].mode)
           \/ \E p \in Under(Source, tree) :
                 \/ "r" \notin tree[p].mode
                 \/ tree[p].kind = "dir" /\ "x" \notin tree[p].mode
                 \/ tree[p].kind \in {"other", "broken"}
           \/ Within
  PROVE  CprInv'
<1>1. /\ UNCHANGED <<tree, target, frames, fs, missed>> /\ cpr_pc' = "exit1"
      /\ faulty' = (faulty \/ ~denied)
  BY DEF Syserror, Cpr
<1>2. Growing' /\ CprModeLast' /\ TreeOK' /\ MissedOK'
  BY <1>1, SameFs DEF Running, CprInv, CprTypeOK, TreeOK, MissedOK
<1>3. CprFailsFor'
  <2>1. SUFFICES ASSUME ~faulty'
                 PROVE  \/ target \in DOMAIN tree
                        \/ ~({"w", "x"} \subseteq tree[Front(target)].mode)
                        \/ \E p \in Under(Source, tree) :
                              \/ "r" \notin tree[p].mode
                              \/ tree[p].kind = "dir" /\ "x" \notin tree[p].mode
                              \/ tree[p].kind \in {"other", "broken"}
                        \/ Within
    BY <1>1 DEF CprFailsFor, Under, Within
  <2> QED
    BY <1>1, <2>1
<1> QED
  BY <1>1, <1>2, <1>3, StoppedKeeps

LEMMA NewFacts ==
  /\ NewDir \in Inodes /\ NewDir.kind = "dir" /\ NewDir.mode = NewDirMode /\ NewDir.data = <<>>
  /\ {"w", "x"} \subseteq NewDir.mode /\ "x" \in NewDir.mode
  /\ NewFile \in Inodes /\ NewFile.kind = "file" /\ NewFile.mode = {} /\ NewFile.data = <<>>
BY DEF NewDir, NewFile, NewDirMode, NewFileMode, Inodes

LEMMA BelowSource ==
  ASSUME Running, NEW p \in DOMAIN fs, IsPrefix(Source, p)
  PROVE  (p \in Under(Source, tree) /\ p \in DOMAIN tree /\ tree[p] = fs[p]) \/ (p \notin DOMAIN tree /\ Within)
BY FromSource DEF Running, CprInv, Growing, Under

LEMMA EnterFacts ==
  ASSUME Running, cpr_pc = "enter"
  PROVE  /\ Here.seen = {}
         /\ Len(frames) = 1 => fs = tree /\ Here.initial = Source /\ Here.destin = target
         /\ Len(frames) # 1 =>
              /\ Fresh(Here.initial) /\ target \notin DOMAIN tree /\ Here.destin \notin DOMAIN fs
              /\ Here.destin # <<>> /\ Here.destin # Front(Here.destin)
              /\ Front(Here.destin) \in DOMAIN fs /\ fs[Front(Here.destin)] = NewDir
<1>1. InHand /\ Chained /\ target \in Paths
  BY TreeFacts DEF Running, CprInv, Stack
<1>2. CASE Len(frames) = 1
  BY <1>1, <1>2, HereFacts, ImageFacts DEF InHand, Chained
<1>3. CASE Len(frames) # 1
  <2> DEFINE k == Len(frames) - 1
  <2>1. k \in 1 .. Len(frames) - 1 /\ k + 1 = Len(frames)
    <3>1. Len(frames) \in Nat \ {0}
      BY HereFacts
    <3>2. \A m \in Nat \ {0} : m # 1 => m - 1 \in 1 .. m - 1 /\ (m - 1) + 1 = m
      OBVIOUS
    <3> QED
      BY <1>3, <3>1, <3>2
  <2>2. Here.initial = AtEntry(k)
    BY <1>1, <2>1, HereFacts DEF Chained
  <2>3. /\ frames[k].initial \in Paths /\ IsPrefix(Source, frames[k].initial) /\ frames[k].entry \in Names
        /\ frames[k].destin = Image(frames[k].initial) /\ target \notin DOMAIN tree
        /\ frames[k].destin \in DOMAIN fs /\ fs[frames[k].destin] = NewDir
    BY <2>1, HereFacts
  <2>4. Here.destin = Append(frames[k].destin, frames[k].entry) /\ frames[k].destin \in Paths
    BY <1>1, <2>2, <2>3, HereFacts, ImageFacts DEF AtEntry, Child
  <2>5. /\ Front(Here.destin) = frames[k].destin /\ Here.destin # <<>> /\ Here.destin # frames[k].destin
    BY <2>3, <2>4, ChildFacts
  <2>6. Here.seen = {} /\ Fresh(Here.initial)
    BY <1>1, <1>3 DEF InHand
  <2>7. Here.destin \notin DOMAIN fs
    BY <2>6, HereFacts, PrefixFacts DEF Fresh
  <2> QED
    BY <1>3, <2>3, <2>5, <2>6, <2>7
<1> QED
  BY <1>2, <1>3

\* The innermost call goes on: what has to be shown of it and of nothing else.
LEMMA TopKeeps ==
  ASSUME Running, NEW h \in Records, SetHere(h), h.initial = Here.initial,
         NEW c \in Paths, IsPrefix(Source, c), IsPrefix(Here.initial, c), Steady(c),
         NEW K \in Nat, K = Len(frames), CallOK(K)', DirOK(K)'
  PROVE  Stack' /\ Here' = h /\ Len(frames') = Len(frames) /\ frames'[Len(frames)] = h
<1>1. /\ frames \in Seq(Records) /\ frames # <<>> /\ Chained
      /\ Len(frames) \in Nat \ {0} /\ Here = frames[Len(frames)]
  BY HereFacts DEF Running, CprInv, Stack, Chained
<1>2. /\ frames' \in Seq(Records) /\ Len(frames') = Len(frames) /\ frames'[Len(frames)] = h
      /\ \A k \in 1 .. Len(frames) - 1 : frames'[k] = frames[k]
      /\ Here' = h
  BY <1>1, TopFacts DEF SetHere, Here
<1>3. Chained'
  BY <1>1, <1>2, ChainKeeps
<1>4. ASSUME NEW k \in 1 .. Len(frames)'
      PROVE  CallOK(k)' /\ DirOK(k)'
  <2>1. CASE k = K
    BY <2>1
  <2>2. CASE k \in 1 .. Len(frames) - 1
    <3>1. Busy(k)'
      BY <1>1, <1>2, <2>2 DEF Busy
    <3> QED
      BY <1>2, <2>2, <3>1, LowerKeeps, Zenon
  <2>3. k = K \/ k \in 1 .. Len(frames) - 1
    BY <1>1, <1>2
  <2> QED
    BY <2>1, <2>2, <2>3
<1> QED
  BY <1>2, <1>3, <1>4 DEF Stack

LEMMA CprEnterKeeps == ASSUME Running, CprEnter PROVE CprInv'
<1>0. PICK c \in Paths : c = Here.initial
  BY HereFacts
<1> DEFINE refused == \/ "r" \notin fs[Here.initial].mode
                      \/ Here.destin \in DOMAIN fs
                      \/ ~CanAdd(Front(Here.destin))
<1>1. /\ cpr_pc = "enter" /\ UNCHANGED <<tree, target, missed>> /\ MissedOK'
      /\ c = Here.initial /\ c \in Paths /\ c \in DOMAIN fs /\ fs[c].kind = "dir" /\ IsPrefix(Source, c)
      /\ Here.destin = Image(c) /\ Here.destin \in Paths /\ target \in Paths
      /\ Len(frames) \in 1 .. Len(frames) /\ Here = frames[Len(frames)] /\ Here \in Records
      /\ CallOK(Len(frames)) /\ ~Busy(Len(frames))
  BY <1>0, HereFacts, TreeFacts
     DEF CprEnter, Syserror, Cpr, Running, CprInv, CprTypeOK, MissedOK, Stack, Busy
<1>2. CASE Syserror("enter", refused) /\ UNCHANGED fs
  <2>1. ASSUME refused
        PROVE  \/ target \in DOMAIN tree
               \/ ~({"w", "x"} \subseteq tree[Front(target)].mode)
               \/ \E p \in Under(Source, tree) : "r" \notin tree[p].mode
               \/ Within
    <3>1. CASE "r" \notin fs[c].mode
      BY <1>1, <3>1, BelowSource
    <3>2. CASE Here.destin \in DOMAIN fs
      BY <1>1, <3>2, EnterFacts
    <3>3. CASE ~CanAdd(Front(Here.destin))
      <4>1. CASE Len(frames) = 1
        <5>1. fs[Front(Here.destin)] = tree[Front(target)]
          BY <1>1, <4>1, EnterFacts
        <5> QED
          BY <3>3, <5>1, Zenon DEF CanAdd
      <4>2. CASE Len(frames) # 1
        BY <1>1, <3>3, <4>2, EnterFacts, NewFacts DEF CanAdd
      <4> QED
        BY <4>1, <4>2
    <3> QED
      BY <1>0, <2>1, <3>1, <3>2, <3>3
  <2> HIDE DEF refused
  <2> QED
    BY <1>1, <1>2, <2>1, RefusedKeeps
<1>3. CASE ~refused /\ fs' = With(Here.destin, NewDir)
  <2>1. /\ Here.destin \notin DOMAIN fs /\ target \notin DOMAIN tree
    BY <1>1, <1>3, EnterFacts
  <2>2. Fresh(c)
    <3>1. CASE Len(frames) = 1
      BY <1>1, <2>1, <3>1, EnterFacts, TreeFacts DEF Fresh, Running
    <3>2. CASE Len(frames) # 1
      BY <1>1, <3>2, EnterFacts
    <3> QED
      BY <3>1, <3>2
  <2>3. /\ Front(Image(c)) \in DOMAIN fs /\ fs[Front(Image(c))].kind = "dir"
        /\ Front(Image(c)) # Image(c)
    <3>1. CASE Len(frames) = 1
      BY <1>1, <2>1, <3>1, EnterFacts, TreeFacts DEF Running
    <3>2. CASE Len(frames) # 1
      BY <1>1, <3>2, EnterFacts, NewFacts
    <3> QED
      BY <3>1, <3>2
  <2>4. /\ DOMAIN fs' = DOMAIN fs \cup {Image(c)} /\ fs'[Image(c)] = NewDir
        /\ \A p \in DOMAIN fs : p # Image(c) => fs'[p] = fs[p]
    BY <1>1, <1>3 DEF With
  <2>5. Growing' /\ CprModeLast' /\ TreeOK' /\ Steady(c)
    BY <1>1, <2>1, <2>3, <2>4, WriteKeeps, NewFacts DEF Running, CprInv, Settled, Copied, Missed
  <2>6. CASE Syserror("enter", FALSE)
    BY <1>1, <2>4, <2>5, <2>6, FaultKeeps
  <2>7. CASE /\ Cpr("enter", "entry")
             /\ SetHere([Here EXCEPT !.due = Entries(Here.initial)])
    <3>a. PICK K \in Nat : K = Len(frames)
      BY HereFacts
    <3>b. PICK h \in Records : h = [Here EXCEPT !.due = Entries(Here.initial)]
      BY <1>1, EntriesAreNames DEF Records
    <3>1. /\ h \in Records /\ h.initial = c /\ h.destin = Here.destin
          /\ h.seen = {} /\ h.due = Entries(c)
      BY <1>1, <3>b, EnterFacts DEF Records
    <3>2. cpr_pc' = "entry" /\ SetHere(h)
      BY <2>7, <3>b DEF Cpr
    <3>3. Len(frames') = K /\ Len(frames) = K /\ frames'[K] = h
      BY <1>1, <3>a, <3>1, <3>2, TopFacts DEF SetHere, Running, CprInv, Stack, Chained
    <3>4. ~Busy(K)' /\ \A n : Child(K, n)' = Append(c, n)
      BY <1>1, <3>1, <3>2, <3>3 DEF Busy, Child
    <3>5. \A p : Image(p)' = Image(p)
      BY <1>1 DEF Image
    <3>6. CallOK(K)'
      BY <1>1, <2>4, <2>5, <3>1, <3>3, <3>4, <3>5 DEF CallOK, Steady
    <3>7. ASSUME NEW n \in Names PROVE Fresh(Append(c, n))'
      <4>1. /\ Append(c, n) \in Paths /\ IsPrefix(Source, Append(c, n)) /\ ~IsPrefix(Append(c, n), c)
            /\ IsPrefix(c, Append(c, n))
        BY <1>1, EntryFacts
      <4>2. Fresh(Append(c, n))
        <5>1. IsPrefix(Image(c), Image(Append(c, n))) /\ Image(c) \in Paths /\ Image(Append(c, n)) \in Paths
          BY <1>1, <4>1, ImageFacts
        <5>2. DOMAIN fs \subseteq Paths
          BY DEF Running, CprInv, Growing
        <5> QED
          BY <2>2, <5>1, <5>2, PrefixFacts DEF Fresh
      <4> QED
        BY <2>5, <4>1, <4>2 DEF Steady
    <3>8. DirOK(K)'
      <4>1. \A n \in Names : Append(c, n) \in DOMAIN tree => n \in Entries(c)
        BY <1>0, EntryFacts DEF Running, CprInv, Growing
      <4>2. \A n \in Names : Fresh(Child(K, n))'
        BY <3>4, <3>7 DEF Fresh
      <4>3. \A n \in Names : Child(K, n)' \in DOMAIN tree => n \in frames'[K].due
        BY <3>1, <3>3, <3>4, <4>1
      <4> QED
        BY <1>1, <2>1, <2>4, <3>1, <3>3, <3>4, <4>2, <4>3 DEF DirOK
    <3>9. Stack'
      BY <1>1, <2>5, <3>a, <3>1, <3>2, <3>6, <3>8, TopKeeps, PrefixFacts
    <3>10. InHand'
      BY <3>2 DEF InHand
    <3> QED
      BY <1>1, <2>5, <3>2, <3>9, <3>10, RunningKeeps
  <2> QED
    BY <1>3, <2>6, <2>7 DEF CprEnter
<1> QED
  BY <1>2, <1>3 DEF CprEnter

LEMMA EntryKeeps == ASSUME Running, CprEntry PROVE CprInv'
<1>0. PICK c \in Paths, K \in Nat \ {0} : c = Here.initial /\ K = Len(frames)
  BY HereFacts
<1>1. PICK n \in Entries(Here.initial) \ Here.seen :
        LET path == Append(Here.initial, n)
            found == "x" \in fs[Here.initial].mode /\ fs[path].kind # "broken"
            here == [Here EXCEPT !.seen = @ \cup {n}, !.entry = n, !.st_mode = fs[path].mode]
            deep == \/ Len(path) > PathBuffer
                    \/ found /\ Len(Here.destin) >= PathBuffer
        IN  \/ deep /\ Cpr("entry", "overflow") /\ UNCHANGED <<frames, faulty>>
            \/ Len(path) <= PathBuffer /\ Syserror("entry", ~found)
            \/ /\ ~deep /\ found
               /\ \/ /\ fs[path].kind = "dir"
                     /\ Cpr("entry", "enter")
                     /\ frames' = Append(Append(Front(frames), here),
                                         Frame(path, Append(Here.destin, n)))
                  \/ /\ fs[path].kind = "file"
                     /\ Cpr("entry", "open")
                     /\ SetHere(here)
                  \/ /\ fs[path].kind = "other"
                     /\ Cpr("entry", "chmod")
                     /\ SetHere(here)
               /\ UNCHANGED faulty
  BY DEF CprEntry
<1> DEFINE path == Append(c, n)
           found == "x" \in fs[c].mode /\ fs[path].kind # "broken"
           here == [Here EXCEPT !.seen = @ \cup {n}, !.entry = n, !.st_mode = fs[path].mode]
<1>2. /\ cpr_pc = "entry" /\ UNCHANGED <<tree, target, fs, missed>> /\ MissedOK'
      /\ c \in DOMAIN fs /\ fs[c].kind = "dir" /\ IsPrefix(Source, c) /\ IsPrefix(c, c)
      /\ Here.destin = Image(c) /\ Here.destin \in Paths /\ target \in Paths
      /\ K \in 1 .. Len(frames) /\ Here = frames[K] /\ Here \in Records
      /\ CallOK(K) /\ DirOK(K) /\ ~Busy(K) /\ Entered(K)
  BY <1>0, <1>1, HereFacts, TreeFacts, PrefixFacts
     DEF CprEntry, Syserror, Cpr, Running, CprInv, CprTypeOK, MissedOK, Stack, Busy, Entered
<1>3. /\ n \in Names /\ path \in Paths /\ path \in DOMAIN fs
      /\ IsPrefix(Source, path) /\ IsPrefix(c, path) /\ ~IsPrefix(path, c)
      /\ Image(path) = Append(Here.destin, n)
  BY <1>0, EntryFacts, EntriesAreNames
<1>4. Growing' /\ CprModeLast' /\ TreeOK' /\ Steady(path)
  BY <1>2, SameFs, SameIsSteady DEF Running, CprInv, CprTypeOK, TreeOK
<1>5. CASE /\ \/ Len(path) > PathBuffer
              \/ found /\ Len(Here.destin) >= PathBuffer
           /\ Cpr("entry", "overflow") /\ UNCHANGED <<frames, faulty>>
  <2>1. Len(path) + Len(target) > PathBuffer
    <3>1. /\ Len(path) = Len(c) + 1 /\ Len(Here.destin) = Len(target) + Len(c) - 1
      BY <1>2, <1>3, ChildFacts, ImageFacts
    <3>2. Len(c) \in Nat /\ Len(target) \in Nat /\ PathBuffer \in Nat
      BY <1>2, CprAssumption DEF Paths
    <3>3. \A x, y \in Nat : /\ x + 1 > PathBuffer => (x + 1) + y > PathBuffer
                            /\ y + x - 1 >= PathBuffer => (x + 1) + y > PathBuffer
      BY <3>2
    <3> QED
      BY <1>5, <3>1, <3>2, <3>3
  <2>2. Within \/ \E p \in Under(Source, tree) : Len(p) + Len(target) > PathBuffer
    BY <1>3, <2>1, BelowSource
  <2>3. cpr_pc' = "overflow" /\ UNCHANGED frames
    BY <1>5 DEF Cpr
  <2>4. CprFailsFor'
    BY <1>2, <2>2, <2>3 DEF CprFailsFor, Within, Under
  <2> QED
    BY <1>2, <1>4, <2>3, <2>4, StoppedKeeps
<1>6. CASE Syserror("entry", ~found)
  <2>1. ~found =>
          \/ \E p \in Under(Source, tree) :
                \/ tree[p].kind = "dir" /\ "x" \notin tree[p].mode
                \/ tree[p].kind \in {"other", "broken"}
          \/ Within
    <3>1. CASE "x" \notin fs[c].mode
      BY <1>2, <3>1, BelowSource
    <3>2. CASE fs[path].kind = "broken"
      BY <1>3, <3>2, BelowSource
    <3> QED
      BY <3>1, <3>2
  <2> HIDE DEF found
  <2> QED
    BY <1>2, <1>6, <2>1, RefusedKeeps
<1>7. CASE \/ /\ fs[path].kind = "dir"
              /\ Cpr("entry", "enter")
              /\ frames' = Append(Append(Front(frames), here), Frame(path, Append(Here.destin, n)))
           \/ /\ fs[path].kind = "file"
              /\ Cpr("entry", "open")
              /\ SetHere(here)
           \/ /\ fs[path].kind = "other"
              /\ Cpr("entry", "chmod")
              /\ SetHere(here)
  <2>1. PICK h \in Records : h = here
    <3>1. fs[path].mode \in SUBSET {"r", "w", "x"}
      BY <1>3 DEF Running, CprInv, CprTypeOK, Inodes
    <3> QED
      BY <1>2, <1>3, <3>1 DEF Records
  <2>2. /\ h.initial = c /\ h.destin = Image(c) /\ h.seen = Here.seen \cup {n}
        /\ h.due = Here.due /\ h.entry = n /\ h.st_mode = fs[path].mode
    BY <1>0, <1>2, <2>1 DEF Records
  <2> HIDE DEF here
  <2>3. Fresh(path)
    BY <1>0, <1>1, <1>2, <1>3 DEF DirOK, Child
  <2>4. ASSUME K <= Len(frames'), frames'[K] = h, Busy(K)'
        PROVE  CallOK(K)' /\ DirOK(K)'
    <3>1. /\ \A p : Image(p)' = Image(p) /\ (DoneUnder(p) => DoneUnder(p)') /\ (Fresh(p)' <=> Fresh(p))
          /\ \A m : Child(K, m)' = Append(c, m) /\ Child(K, m) = Append(c, m)
          /\ AtEntry(K)' = path
      BY <1>0, <1>2, <2>2, <2>4, SameFs DEF Child, AtEntry
    <3>2. Entered(K)'
      BY <2>4 DEF Entered, Busy
    <3>3. path \in DOMAIN tree => fs[path].mode = tree[path].mode
      BY DEF Running, CprInv, Growing
    <3>4. CallOK(K)'
      BY <1>2, <1>3, <2>2, <2>4, <3>1, <3>3 DEF CallOK
    <3>5. \A m \in frames'[K].seen :
             Append(c, m) \in DOMAIN tree /\ m # n => DoneUnder(Append(c, m))
      <4>1. \A m \in Here.seen : Append(c, m) \in DOMAIN tree => DoneUnder(Append(c, m))
        BY <1>0, <1>2 DEF DirOK, Child
      <4> QED
        BY <2>2, <2>4, <4>1
    <3>6. \A m \in frames'[K].seen :
             Child(K, m)' \in DOMAIN tree /\ m # n => DoneUnder(Child(K, m))'
      BY <1>2, <3>1, <3>5, SameFs DEF DoneUnder
    <3>7. \A m \in Names \ frames'[K].seen : Fresh(Append(c, m))
      BY <1>2, <2>2, <2>4, <3>1 DEF DirOK
    <3>8. \A m \in Names \ frames'[K].seen : Fresh(Child(K, m))'
      BY <1>2, <3>1, <3>7, SameFs DEF Fresh
    <3>9. \A m \in Names : Child(K, m)' \in DOMAIN tree => m \in frames'[K].due
      <4>1. \A m \in Names : Append(c, m) \in DOMAIN tree => m \in Here.due
        BY <1>0, <1>2 DEF DirOK, Child
      <4> QED
        BY <1>2, <2>2, <2>4, <3>1, <4>1
    <3>10. DirOK(K)'
      BY <1>2, <2>2, <2>4, <3>1, <3>6, <3>8, <3>9 DEF DirOK
    <3> QED
      BY <3>4, <3>10
  <2>5. CASE SetHere(h) /\ cpr_pc' \in {"open", "chmod"}
    <3>1. /\ frames' \in Seq(Records) /\ Len(frames') = K /\ frames'[K] = h
      BY <1>0, <1>2, <2>5, TopFacts DEF SetHere, Running, CprInv, Stack, Chained
    <3>2. CallOK(K)' /\ DirOK(K)'
      BY <2>4, <2>5, <3>1 DEF Busy
    <3>3. Stack' /\ Here' = h
      BY <1>0, <1>2, <1>3, <1>4, <2>2, <2>5, <3>2, TopKeeps
    <3>4. From' = path
      BY <2>2, <3>3 DEF From
    <3>5. InHand'
      <4>1. CASE cpr_pc' = "open" /\ fs[path].kind = "file"
        <5>1. Fresh(path)'
          BY <1>2, <2>3, SameFs
        <5> QED
          BY <1>2, <3>4, <4>1, <5>1 DEF InHand, Fresh, Image
      <4>2. CASE cpr_pc' = "chmod" /\ fs[path].kind = "other"
        <5>1. Fresh(path)'
          BY <1>2, <2>3, SameFs
        <5>2. path \in DOMAIN tree => tree[path].kind = "other"
          BY <4>2 DEF Running, CprInv, Growing
        <5> QED
          BY <1>2, <3>4, <4>2, <5>1, <5>2 DEF InHand, Fresh, Image
      <4> QED
        BY <1>7, <2>5, <4>1, <4>2 DEF Cpr
    <3> QED
      BY <1>2, <1>4, <2>5, <3>3, <3>5, RunningKeeps
  <2>6. CASE /\ fs[path].kind = "dir" /\ cpr_pc' = "enter"
             /\ frames' = Append(Append(Front(frames), h), Frame(path, Append(Here.destin, n)))
    <3>1. PICK g \in Records : g = Frame(path, Image(path))
      BY <1>2, <1>3, ImageFacts DEF Frame, Records
    <3>2. g.initial = path /\ g.destin = Image(path) /\ g.seen = {}
      BY <3>1 DEF Frame
    <3>3. /\ frames' \in Seq(Records) /\ frames' # <<>> /\ Len(frames') = K + 1
          /\ frames'[K] = h /\ frames'[K + 1] = g /\ Here' = g
          /\ \A k \in 1 .. K - 1 : frames'[k] = frames[k]
      <4>1. PICK s \in Seq(Records) : s = Append(Front(frames), h)
        BY TopFacts DEF Running, CprInv, Stack, Chained
      <4>2. Len(s) = K /\ s[K] = h /\ \A k \in 1 .. K - 1 : s[k] = frames[k]
        <5>1. frames \in Seq(Records) /\ frames # <<>>
          BY DEF Running, CprInv, Stack, Chained
        <5>2. /\ Len(s) = Len(frames) /\ s[Len(frames)] = h
              /\ \A k \in 1 .. Len(frames) - 1 : s[k] = frames[k]
          BY <4>1, <5>1, TopFacts
        <5> QED
          BY <1>0, <5>2
      <4>3. frames' = Append(s, g)
        BY <1>3, <2>6, <3>1, <4>1
      <4>4. /\ Append(s, g) \in Seq(Records) /\ Append(s, g) # <<>> /\ Len(Append(s, g)) = K + 1
            /\ Append(s, g)[K + 1] = g /\ \A k \in 1 .. K : Append(s, g)[k] = s[k]
        BY <1>0, <4>2
      <4>5. Here' = g
        BY <4>3, <4>4 DEF Here, Last
      <4> QED
        BY <1>0, <4>2, <4>3, <4>4, <4>5
    <3>4. /\ Chained /\ frames \in Seq(Records)
      BY DEF Running, CprInv, Stack, Chained
    <3>5. /\ \A k \in 1 .. K : frames'[k].initial = frames[k].initial
          /\ \A k \in 1 .. K - 1 : AtEntry(k)' = AtEntry(k)
          /\ AtEntry(K)' = path
      <4>1. \A k \in 1 .. K : k = K \/ k \in 1 .. K - 1
        BY <1>0
      <4> QED
        BY <1>0, <1>2, <2>2, <3>3, <4>1 DEF AtEntry, Child
    <3>6. Chained'
      <4>1. frames'[1].initial = Source
        BY <1>0, <3>4, <3>5 DEF Chained
      <4>2. ASSUME NEW k \in 1 .. K PROVE frames'[k + 1].initial = AtEntry(k)'
        <5>1. CASE k = K
          BY <3>2, <3>3, <3>5, <5>1
        <5>2. CASE k \in 1 .. K - 1
          <6>1. k + 1 \in 1 .. K
            BY <1>0, <5>2
          <6> QED
            BY <1>0, <3>4, <3>5, <5>2, <6>1 DEF Chained
        <5> QED
          BY <5>1, <5>2
      <4>3. ASSUME NEW j \in 1 .. K + 1, NEW k \in 1 .. K + 1, k < j
            PROVE  IsPrefix(AtEntry(k)', frames'[j].initial)
        <5>1. CASE j = K + 1 /\ k = K
          <6>1. IsPrefix(path, path)
            BY <1>3, PrefixFacts
          <6> QED
            BY <3>2, <3>3, <3>5, <5>1, <6>1
        <5>2. CASE j = K + 1 /\ k \in 1 .. K - 1
          <6>1. AtEntry(k) \in Paths /\ IsPrefix(AtEntry(k), c)
            BY <1>0, <5>2, HereFacts
          <6>2. IsPrefix(AtEntry(k), path)
            BY <1>3, <6>1, PrefixFacts
          <6> QED
            BY <3>2, <3>3, <3>5, <5>2, <6>2
        <5>3. CASE j \in 1 .. K
          <6>1. k \in 1 .. K - 1 /\ k \in 1 .. K
            BY <1>0, <4>3, <5>3
          <6> QED
            BY <1>0, <3>4, <3>5, <4>3, <5>3, <6>1 DEF Chained
        <5>4. (j = K + 1 /\ (k = K \/ k \in 1 .. K - 1)) \/ j \in 1 .. K
          BY <1>0, <4>3
        <5> QED
          BY <5>1, <5>2, <5>3, <5>4
      <4>4. Len(frames') = K + 1 /\ frames' # <<>>
        BY <1>0, <3>3
      <4>5. \A k \in 1 .. Len(frames') - 1 : frames'[k + 1].initial = AtEntry(k)'
        BY <1>0, <4>2, <4>4
      <4>6. \A j \in 1 .. Len(frames'), k \in 1 .. Len(frames') :
               k < j => IsPrefix(AtEntry(k)', frames'[j].initial)
        BY <4>3, <4>4
      <4> QED
        BY <4>1, <4>4, <4>5, <4>6, <3>3 DEF Chained
    <3>7. ASSUME NEW k \in 1 .. K + 1
          PROVE  CallOK(k)' /\ DirOK(k)'
      <4>1. CASE k \in 1 .. K - 1
        <5>1. Busy(k)'
          BY <1>0, <3>3, <4>1 DEF Busy
        <5> QED
          BY <1>0, <1>3, <1>4, <3>3, <4>1, <5>1, LowerKeeps, Zenon
      <4>2. CASE k = K
        BY <1>0, <2>4, <3>3, <4>2 DEF Busy
      <4>3. CASE k = K + 1
        <5>1. ~Busy(k)' /\ ~Entered(k)'
          BY <1>0, <2>6, <3>3, <4>3 DEF Busy, Entered
        <5>2. Image(path)' = Image(path)
          BY <1>2, SameFs
        <5>3. Image(frames[k].initial)' = Image(path)
          BY <1>2, <3>2, <3>3, <4>3 DEF Image
        <5> QED
          BY <1>2, <1>3, <2>6, <3>2, <3>3, <4>3, <5>1, <5>3 DEF CallOK, DirOK
      <4> QED
        BY <1>0, <4>1, <4>2, <4>3
    <3>8. InHand'
      <4>1. Fresh(path)'
        BY <1>2, <2>3, SameFs
      <4>2. Len(frames') # 1
        BY <1>0, <3>3
      <4> QED
        BY <1>2, <2>6, <3>2, <3>3, <4>1, <4>2 DEF InHand, Fresh, Image
    <3>9. Stack'
      BY <3>3, <3>6, <3>7 DEF Stack
    <3> QED
      BY <1>2, <1>4, <2>6, <3>8, <3>9, RunningKeeps
  <2> QED
    BY <1>7, <2>1, <2>5, <2>6 DEF Cpr
<1> QED
  BY <1>0, <1>1, <1>5, <1>6, <1>7, Zenon

\* The entry of the innermost call is copied, or its copy is made.
LEMMA FromKeeps ==
  ASSUME Running, cpr_pc \in {"open", "copy", "chmod"}, UNCHANGED frames,
         NEW f \in Paths, f = From, Steady(f),
         cpr_pc' \in {"copy", "chmod"} \/ (cpr_pc' = "entry" /\ (f \in DOMAIN tree => DoneUnder(f)'))
  PROVE  Stack' /\ Here' = Here /\ From' = f /\ To' = To
<1>0. PICK K \in Nat \ {0} : K = Len(frames)
  BY HereFacts
<1>1. /\ K \in 1 .. Len(frames) /\ Here = frames[K] /\ Here \in Records
      /\ CallOK(K) /\ DirOK(K) /\ Chained /\ Busy(K) /\ Entered(K) /\ Entered(K)'
      /\ Here' = Here /\ From' = f /\ To' = To /\ UNCHANGED <<tree, target>>
  BY <1>0, HereFacts DEF Running, CprInv, Stack, Busy, Entered, Here, From, To, Steady
<1>2. /\ f = Append(Here.initial, Here.entry) /\ f \in DOMAIN fs /\ IsPrefix(Source, f) /\ IsPrefix(Here.initial, f)
      /\ Here.entry \in Names /\ Here.entry \in Here.seen /\ Here.initial \in Paths /\ Here.seen \subseteq Names
      /\ IsPrefix(Source, Here.initial)
      /\ Here.destin # Image(f) /\ Here.destin = Image(Here.initial)
      /\ target \notin DOMAIN tree /\ Here.destin \in DOMAIN fs /\ fs[Here.destin] = NewDir
      /\ f \in DOMAIN tree => Here.st_mode = tree[f].mode
      /\ IsPrefix(f, f)
  <2>1. /\ From = Append(Here.initial, Here.entry) /\ Here.seen \subseteq Names
        /\ target \notin DOMAIN tree /\ Here.destin \in DOMAIN fs /\ fs[Here.destin] = NewDir
        /\ Here.initial \in Paths /\ IsPrefix(Source, Here.initial) /\ Here.destin = Image(Here.initial)
    BY <1>1, HereFacts DEF From, Records
  <2>2. /\ From \in DOMAIN fs /\ IsPrefix(Source, From) /\ IsPrefix(Here.initial, From)
        /\ Here.entry \in Names /\ Here.entry \in Here.seen
        /\ Here.destin # Image(From)
        /\ From \in DOMAIN tree => Here.st_mode = tree[From].mode
    BY FromFacts
  <2>3. IsPrefix(f, f)
    BY PrefixFacts
  <2> QED
    BY <2>1, <2>2, <2>3
<1>3. /\ \A p : Image(p)' = Image(p)
      /\ \A n : Child(K, n)' = Append(Here.initial, n) /\ Child(K, n) = Append(Here.initial, n)
      /\ AtEntry(K)' = f
  BY <1>1, <1>2 DEF Child, AtEntry, Image
<1>4. CallOK(K)'
  BY <1>1, <1>2, <1>3 DEF CallOK, Steady
<1>5. ASSUME NEW n \in Names \ Here.seen
      PROVE  Fresh(Child(K, n))'
  <2>1. PICK p \in Paths : p = Append(Here.initial, n)
    BY <1>2, ChildFacts
  <2>2. ~IsPrefix(p, f)
    BY <1>2, <1>5, <2>1, PrefixFacts
  <2>3. Fresh(p) /\ IsPrefix(Source, p)
    BY <1>1, <1>2, <1>3, <1>5, <2>1, ChildOfSource DEF DirOK
  <2>4. Fresh(p)'
    BY <2>2, <2>3 DEF Steady
  <2> QED
    BY <1>3, <2>1, <2>4 DEF Fresh
<1>6. ASSUME NEW n \in Here.seen, Child(K, n)' \in DOMAIN tree, ~(Busy(K)' /\ n = Here.entry)
      PROVE  DoneUnder(Child(K, n))'
  <2>1. PICK p \in Paths : p = Append(Here.initial, n)
    BY <1>2, ChildFacts
  <2>2. DoneUnder(p)'
    <3>1. CASE n # Here.entry
      <4>1. DoneUnder(p) /\ IsPrefix(Source, p)
        BY <1>1, <1>2, <1>3, <1>6, <2>1, <3>1, ChildOfSource DEF DirOK
      <4> QED
        BY <4>1 DEF Steady
    <3>2. CASE n = Here.entry
      <4>1. cpr_pc' = "entry"
        BY <1>6, <3>2 DEF Busy
      <4>2. p = f
        BY <1>2, <2>1, <3>2
      <4> QED
        BY <1>3, <1>6, <2>1, <4>1, <4>2
    <3> QED
      BY <3>1, <3>2
  <2> QED
    BY <1>3, <2>1, <2>2 DEF DoneUnder
<1>7. DirOK(K)'
  <2>1. \A n \in Names : Child(K, n)' \in DOMAIN tree => n \in frames'[K].due
    BY <1>1, <1>3 DEF DirOK
  <2>2. frames'[K].destin \in DOMAIN fs' /\ fs'[frames'[K].destin] = NewDir
    BY <1>1, <1>2 DEF Steady
  <2> QED
    BY <1>1, <1>2, <1>5, <1>6, <2>1, <2>2 DEF DirOK
<1>8. Chained'
  BY <1>0, <1>1, ChainKeeps DEF Chained
<1>9. ASSUME NEW k \in 1 .. Len(frames)'
      PROVE  CallOK(k)' /\ DirOK(k)'
  <2>1. CASE k = K
    BY <1>4, <1>7, <2>1
  <2>2. CASE k \in 1 .. Len(frames) - 1
    <3>1. Busy(k)'
      BY <1>0, <2>2 DEF Busy
    <3> QED
      BY <1>1, <1>2, <2>2, <3>1, LowerKeeps, Zenon
  <2> QED
    BY <1>0, <2>1, <2>2
<1> QED
  BY <1>1, <1>8, <1>9 DEF Stack

LEMMA OpenKeeps == ASSUME Running, CprOpen PROVE CprInv'
<1> DEFINE unreadable == "r" \notin fs[From].mode
<1>1. /\ cpr_pc = "open" /\ UNCHANGED <<tree, target, missed>> /\ MissedOK'
      /\ target \notin DOMAIN tree /\ Here.destin \in DOMAIN fs /\ fs[Here.destin] = NewDir
      /\ fs[From].kind = "file" /\ Fresh(From)
  BY HereFacts DEF CprOpen, Syserror, Cpr, Running, CprInv, CprTypeOK, MissedOK, InHand
<1>2. /\ From \in DOMAIN fs /\ From \in Paths /\ IsPrefix(Source, From)
      /\ To = Image(From) /\ To \in Paths /\ To # <<>>
      /\ Front(To) = Here.destin /\ Here.destin # To
  BY <1>1, FromFacts
<1>3. CASE Syserror("open", unreadable \/ ~CanAdd(Here.destin)) /\ UNCHANGED fs
  <2>1. unreadable \/ ~CanAdd(Here.destin) =>
          \/ \E p \in Under(Source, tree) : "r" \notin tree[p].mode
          \/ Within
    BY <1>1, <1>2, BelowSource, NewFacts DEF CanAdd
  <2> HIDE DEF unreadable
  <2> QED
    BY <1>1, <1>3, <2>1, RefusedKeeps
<1>4. CASE /\ fs' = With(To, NewFile)
           /\ \/ Syserror("open", unreadable)
              \/ ~unreadable /\ Cpr("open", "copy") /\ UNCHANGED <<frames, faulty>>
  <2>0. PICK f \in Paths : f = From
    BY <1>2
  <2>1. To \notin DOMAIN fs
    BY <1>1, <1>2, PrefixFacts DEF Fresh
  <2>2. /\ DOMAIN fs' = DOMAIN fs \cup {Image(f)} /\ fs'[Image(f)] = NewFile
        /\ \A p \in DOMAIN fs : p # Image(f) => fs'[p] = fs[p]
    BY <1>2, <1>4, <2>0 DEF With
  <2>3. Growing' /\ CprModeLast' /\ TreeOK' /\ Steady(f)
    BY <1>1, <1>2, <2>0, <2>1, <2>2, WriteKeeps, NewFacts DEF Running, CprInv, Settled, Copied, Missed
  <2>4. CASE Syserror("open", unreadable)
    <3>1. CASE unreadable
      <4>1. /\ UNCHANGED frames /\ cpr_pc' = "exit1" /\ DOMAIN fs \subseteq DOMAIN fs'
        BY <2>2, <2>4 DEF Syserror, Cpr
      <4>2. \/ \E p \in Under(Source, tree) : "r" \notin tree[p].mode
            \/ Within
        BY <1>2, <3>1, BelowSource
      <4>3. CprFailsFor'
        BY <1>1, <4>1, <4>2 DEF CprFailsFor, Under, Within
      <4> QED
        BY <1>1, <2>3, <4>1, <4>3, StoppedKeeps
    <3>2. CASE ~unreadable
      <4>1. Syserror("open", FALSE) /\ DOMAIN fs \subseteq DOMAIN fs'
        BY <2>2, <2>4, <3>2 DEF Syserror
      <4> QED
        BY <1>1, <2>3, <4>1, FaultKeeps
    <3> QED
      BY <3>1, <3>2
  <2>5. CASE ~unreadable /\ Cpr("open", "copy") /\ UNCHANGED <<frames, faulty>>
    <3>1. cpr_pc' = "copy" /\ UNCHANGED frames
      BY <2>5 DEF Cpr
    <3>2. Stack' /\ From' = f /\ To' = Image(f)
      BY <1>1, <1>2, <2>0, <2>3, <3>1, FromKeeps
    <3>3. fs'[f] = fs[f] /\ f \in DOMAIN fs' /\ fs[f] \in Inodes /\ fs[f].data \in Seq(Nat)
      BY <1>2, <2>0, <2>1, <2>2 DEF Running, CprInv, CprTypeOK, Inodes
    <3>4. Len(NewFile.data) = 0 /\ SubSeq(fs[f].data, 1, 0) = <<>> /\ Len(fs[f].data) >= 0
      BY <3>3, NewFacts
    <3>5. InHand'
      BY <1>1, <2>0, <2>2, <3>1, <3>2, <3>3, <3>4, NewFacts DEF InHand
    <3> QED
      BY <1>1, <2>3, <3>1, <3>2, <3>5, RunningKeeps
  <2> QED
    BY <1>4, <2>4, <2>5
<1> QED
  BY <1>3, <1>4 DEF CprOpen

\* What a turn of the loop adds.
LEMMA CopyFacts ==
  ASSUME NEW s \in Seq(Nat), NEW r \in Seq(Nat), Len(r) <= Len(s), r = SubSeq(s, 1, Len(r)),
         NEW w \in 0 .. Len(s) - Len(r)
  PROVE  \E q \in Seq(Nat) :
            /\ q = r \o SubSeq(s, Len(r) + 1, Len(r) + w)
            /\ Len(q) = Len(r) + w /\ Len(q) <= Len(s)
            /\ q = SubSeq(s, 1, Len(q))
            /\ w = 0 => q = r
            /\ Len(r) = Len(s) => r = s
<1>1. Len(s) \in Nat /\ Len(r) \in Nat /\ w \in Nat /\ Len(r) + w <= Len(s)
  OBVIOUS
<1> DEFINE m == SubSeq(s, Len(r) + 1, Len(r) + w)
<1>2. m \in Seq(Nat) /\ Len(m) = w /\ \A j \in 1 .. w : m[j] = s[Len(r) + j]
  <2>1. \A a, b \in Nat : a + b <= Len(s) =>
           LET t == SubSeq(s, a + 1, a + b)
           IN  t \in Seq(Nat) /\ Len(t) = b /\ \A j \in 1 .. b : t[j] = s[a + j]
    BY <1>1
  <2> QED
    BY <1>1, <2>1
<1>3. \A j \in 1 .. Len(r) : r[j] = s[j]
  <2>1. \A j \in 1 .. Len(r) : SubSeq(s, 1, Len(r))[j] = s[j]
    BY <1>1
  <2> QED
    BY <2>1
<1> DEFINE q == r \o m
<1> HIDE DEF m
<1>4. /\ q \in Seq(Nat) /\ Len(q) = Len(r) + w
      /\ \A j \in 1 .. Len(r) : q[j] = r[j]
      /\ \A j \in 1 .. w : q[Len(r) + j] = m[j]
  <2>1. \A u, v \in Seq(Nat) :
          /\ u \o v \in Seq(Nat) /\ Len(u \o v) = Len(u) + Len(v)
          /\ \A j \in 1 .. Len(u) : (u \o v)[j] = u[j]
          /\ \A j \in 1 .. Len(v) : (u \o v)[Len(u) + j] = v[j]
    OBVIOUS
  <2> QED
    BY <1>2, <2>1
<1> HIDE DEF q
<1>5. \A j \in 1 .. Len(q) : q[j] = s[j]
  <2>1. ASSUME NEW j \in 1 .. Len(q) PROVE q[j] = s[j]
    <3>1. CASE j <= Len(r)
      <4>1. j \in 1 .. Len(r)
        BY <1>1, <3>1
      <4> QED
        BY ONLY <1>3, <1>4, <4>1
    <3>2. CASE j > Len(r)
      <4>1. j - Len(r) \in 1 .. w /\ Len(r) + (j - Len(r)) = j
        BY <1>1, <1>4, <3>2
      <4>2. q[Len(r) + (j - Len(r))] = s[Len(r) + (j - Len(r))]
        BY <1>2, <1>4, <4>1
      <4> QED
        BY <4>1, <4>2
    <3> QED
      BY <1>1, <1>4, <3>1, <3>2
  <2> QED
    BY <2>1
<1>6. q = SubSeq(s, 1, Len(q))
  <2> DEFINE t == SubSeq(s, 1, Len(q))
  <2>1. t \in Seq(Nat) /\ Len(t) = Len(q) /\ \A j \in 1 .. Len(q) : t[j] = s[j]
    BY <1>1, <1>4
  <2> HIDE DEF t
  <2>2. q = t
    BY <1>4, <1>5, <2>1, SeqEqual
  <2> QED
    BY <2>2 DEF t
<1>7. w = 0 => q = r
  BY <1>1, <1>4, SeqEqual
<1>8. Len(r) = Len(s) => r = s
  BY <1>3, SeqEqual
<1>9. q = r \o SubSeq(s, Len(r) + 1, Len(r) + w)
  BY DEF q, m
<1>10. q \in Seq(Nat) /\ Len(q) = Len(r) + w /\ Len(q) <= Len(s)
  BY <1>1, <1>4
<1> QED
  BY <1>6, <1>7, <1>8, <1>9, <1>10

LEMMA CopyKeeps == ASSUME Running, CprCopy PROVE CprInv'
<1>0. PICK f \in Paths : f = From
  BY FromFacts DEF CprCopy
<1>1. /\ cpr_pc = "copy" /\ UNCHANGED <<tree, target, missed>> /\ MissedOK'
      /\ target \notin DOMAIN tree /\ target \in Paths
      /\ Here.destin \in DOMAIN fs /\ fs[Here.destin] = NewDir
      /\ f \in DOMAIN fs /\ IsPrefix(Source, f)
      /\ To = Image(f) /\ To \in DOMAIN fs
      /\ fs[f].kind = "file" /\ fs[To].kind = "file" /\ fs[To].mode = {}
      /\ Len(fs[To].data) <= Len(fs[f].data) /\ fs[To].data = SubSeq(fs[f].data, 1, Len(fs[To].data))
      /\ Front(To) = Here.destin /\ Here.destin # To
  BY <1>0, HereFacts, FromFacts, TreeFacts
     DEF CprCopy, Syserror, Cpr, Running, CprInv, CprTypeOK, MissedOK, InHand
<1>2. /\ fs[f] \in Inodes /\ fs[f].data \in Seq(Nat)
      /\ fs[To] = [kind |-> "file", mode |-> {}, data |-> fs[To].data] /\ fs[To].data \in Seq(Nat)
  BY <1>1 DEF Running, CprInv, CprTypeOK, Inodes
<1> DEFINE togo == Len(fs[From].data) - Len(fs[To].data)
<1>3. PICK n \in (IF togo = 0 THEN {0} ELSE 1 .. togo), w \in 0 .. togo :
        /\ w <= n
        /\ fs' = [fs EXCEPT ![To].data = @ \o SubSeq(fs[From].data, Len(@) + 1, Len(@) + w)]
        /\ \/ Syserror("copy", FALSE)
           \/ /\ w = n
              /\ Cpr("copy", IF GoesOn(n) THEN "copy" ELSE "chmod")
              /\ UNCHANGED <<frames, faulty>>
  BY DEF CprCopy
<1>4. PICK q \in Seq(Nat) :
        /\ q = fs[To].data \o SubSeq(fs[f].data, Len(fs[To].data) + 1, Len(fs[To].data) + w)
        /\ Len(q) = Len(fs[To].data) + w /\ Len(q) <= Len(fs[f].data)
        /\ q = SubSeq(fs[f].data, 1, Len(q))
        /\ w = 0 => q = fs[To].data
        /\ Len(fs[To].data) = Len(fs[f].data) => fs[To].data = fs[f].data
  <2>1. PICK s \in Seq(Nat), r \in Seq(Nat) : s = fs[f].data /\ r = fs[To].data
    BY <1>2
  <2>2. Len(r) <= Len(s) /\ r = SubSeq(s, 1, Len(r)) /\ w \in 0 .. Len(s) - Len(r)
    BY <1>0, <1>1, <1>3, <2>1
  <2>3. PICK q \in Seq(Nat) :
          /\ q = r \o SubSeq(s, Len(r) + 1, Len(r) + w)
          /\ Len(q) = Len(r) + w /\ Len(q) <= Len(s)
          /\ q = SubSeq(s, 1, Len(q))
          /\ w = 0 => q = r
          /\ Len(r) = Len(s) => r = s
    BY <2>2, CopyFacts, ZenonT(60)
  <2>4. /\ q = fs[To].data \o SubSeq(fs[f].data, Len(fs[To].data) + 1, Len(fs[To].data) + w)
        /\ Len(q) = Len(fs[To].data) + w /\ Len(q) <= Len(fs[f].data)
        /\ q = SubSeq(fs[f].data, 1, Len(q))
        /\ w = 0 => q = fs[To].data
        /\ Len(fs[To].data) = Len(fs[f].data) => fs[To].data = fs[f].data
    BY <2>1, <2>3
  <2> WITNESS q \in Seq(Nat)
  <2> QED
    BY <2>4
<1>5. /\ Len(q) = Len(fs[To].data) + w /\ Len(q) <= Len(fs[f].data)
      /\ q = SubSeq(fs[f].data, 1, Len(q))
      /\ w = 0 => q = fs[To].data
      /\ Len(fs[To].data) = Len(fs[f].data) => fs[To].data = fs[f].data
  BY <1>4
<1>6. /\ DOMAIN fs' = DOMAIN fs /\ fs'[To] = [kind |-> "file", mode |-> {}, data |-> q]
      /\ \A p \in DOMAIN fs : p # To => fs'[p] = fs[p]
  BY <1>0, <1>1, <1>2, <1>3, <1>4
<1>7. Len(fs[To].data) = Len(fs[f].data) => w = 0
  BY <1>0, <1>2, <1>3
<1>8. f \in DOMAIN tree => tree[f] = fs[f]
  BY DEF Running, CprInv, Growing
<1>9. f \in DOMAIN tree /\ Copied(f) => fs'[To] = fs[To]
  BY <1>1, <1>2, <1>5, <1>6, <1>7, <1>8 DEF Copied
<1>10. fs'[To] \in Inodes /\ fs'[To].kind = "file" /\ fs'[To].mode = {}
  BY <1>6 DEF Inodes
<1>11. Growing' /\ CprModeLast' /\ TreeOK' /\ Steady(f)
  BY <1>1, <1>6, <1>9, <1>10, WriteKeeps, NewFacts DEF Running, CprInv
<1>12. CASE Syserror("copy", FALSE)
  BY <1>1, <1>6, <1>11, <1>12, FaultKeeps
<1>13. CASE /\ w = n
            /\ Cpr("copy", IF GoesOn(n) THEN "copy" ELSE "chmod")
            /\ UNCHANGED <<frames, faulty>>
  <2>1. cpr_pc' \in {"copy", "chmod"}
    BY <1>13 DEF Cpr
  <2>2. Stack' /\ Here' = Here /\ From' = f /\ To' = To
    BY <1>0, <1>1, <1>11, <1>13, <2>1, FromKeeps
  <2>3. f # To
    <3>1. target # Source
      BY <1>1, TreeFacts DEF Running
    <3> QED
      BY <1>1, <3>1, ImageFacts
  <2>4. fs'[f] = fs[f] /\ f \in DOMAIN fs'
    BY <1>1, <1>6, <2>3
  <2>5. InHand'
    <3>1. CASE cpr_pc' = "copy"
      <4>1. /\ fs'[f].kind = "file" /\ fs'[f].data = fs[f].data
            /\ To \in DOMAIN fs' /\ fs'[To].data = q
        BY <1>1, <1>6, <2>4
      <4>2. /\ Len(fs'[To].data) <= Len(fs'[f].data)
            /\ fs'[To].data = SubSeq(fs'[f].data, 1, Len(fs'[To].data))
        BY <1>5, <4>1
      <4> QED
        BY <1>10, <2>2, <3>1, <4>1, <4>2 DEF InHand
    <3>2. CASE cpr_pc' = "chmod"
      <4>1. n = 0
        BY <1>13, <3>2 DEF Cpr, GoesOn
      <4>2. w = 0 /\ togo = 0
        BY <1>0, <1>1, <1>2, <1>3, <1>13, <4>1
      <4>3. q = fs[f].data
        BY <1>0, <1>1, <1>2, <1>5, <4>2
      <4>4. f \in DOMAIN tree => tree[f].kind = "file" /\ tree[f].data = q
        BY <1>1, <1>8, <4>3
      <4> QED
        BY <1>1, <1>6, <2>2, <3>2, <4>4 DEF InHand
    <3> QED
      BY <2>1, <3>1, <3>2
  <2> QED
    BY <1>1, <1>11, <2>1, <2>2, <2>5, RunningKeeps
<1> QED
  BY <1>3, <1>12, <1>13

\* What is under a path: the path itself, and under a directory its entries.
LEMMA UnderFacts ==
  ASSUME tree \in Trees, target \in Targets, NEW p \in Paths, NEW q \in Under(p, tree), q # p
  PROVE  \E n \in Names : /\ Append(p, n) \in DOMAIN tree /\ q \in Under(Append(p, n), tree)
                          /\ p \in DOMAIN tree /\ tree[p].kind = "dir"
<1>1. q \in Paths /\ q \in DOMAIN tree /\ IsPrefix(p, q)
  BY TreeFacts DEF Under
<1>2. PICK n \in Names : IsPrefix(Append(p, n), q)
  BY <1>1, PrefixFacts
<1>3. Append(p, n) \in Paths
  BY ChildFacts
<1> QED
  BY <1>1, <1>2, <1>3, TreeFacts DEF Under

LEMMA ChmodKeeps == ASSUME Running, CprChmod PROVE CprInv'
<1>1. CASE Syserror("chmod", To \notin DOMAIN fs) /\ UNCHANGED <<fs, missed>>
  <2>1. cpr_pc = "chmod"
    BY <1>1 DEF Syserror, Cpr
  <2>2. From \in DOMAIN fs /\ IsPrefix(Source, From)
    BY <2>1, FromFacts
  <2>3. To \notin DOMAIN fs =>
          \/ \E p \in Under(Source, tree) : tree[p].kind \in {"other", "broken"}
          \/ Within
    BY <2>1, <2>2, BelowSource DEF Running, CprInv, InHand
  <2> QED
    BY <1>1, <2>3, RefusedKeeps
<1>2. CASE /\ To \in DOMAIN fs
           /\ Cpr("chmod", "entry")
           /\ fs' = [fs EXCEPT ![To].mode = Here.st_mode]
           /\ UNCHANGED <<frames, missed, faulty>>
  <2>0. cpr_pc = "chmod"
    BY <1>2 DEF Cpr
  <2>1. PICK f \in Paths : f = From
    BY <2>0, FromFacts
  <2>2. /\ UNCHANGED <<tree, target, frames, missed>> /\ MissedOK' /\ cpr_pc' = "entry"
        /\ target \notin DOMAIN tree /\ target \in Paths
        /\ Here.destin \in DOMAIN fs /\ fs[Here.destin] = NewDir
        /\ f \in DOMAIN fs /\ IsPrefix(Source, f) /\ To = Image(f) /\ To \in DOMAIN fs
        /\ Front(To) = Here.destin /\ Here.destin # To
        /\ f \in DOMAIN tree => Here.st_mode = tree[f].mode
        /\ Here.st_mode \in SUBSET {"r", "w", "x"}
    BY <1>2, <2>0, <2>1, HereFacts, FromFacts, TreeFacts
       DEF Cpr, Running, CprInv, CprTypeOK, MissedOK, Records
  <2>3. fs[To] \in Inodes
    BY <2>2 DEF Running, CprInv, CprTypeOK
  <2>4. /\ DOMAIN fs' = DOMAIN fs
        /\ fs'[To] = [kind |-> fs[To].kind, mode |-> Here.st_mode, data |-> fs[To].data]
        /\ \A p \in DOMAIN fs : p # To => fs'[p] = fs[p]
    BY <1>2, <2>2, <2>3 DEF Inodes
  <2>5. fs'[To] \in Inodes /\ fs'[To].kind = fs[To].kind
    BY <2>2, <2>3, <2>4 DEF Inodes
  <2>6. f \in DOMAIN tree =>
          /\ tree[f] \in Inodes /\ tree[f].kind = "dir" => tree[f].data = <<>>
          /\ fs'[To] = tree[f]
    <3>1. SUFFICES ASSUME f \in DOMAIN tree PROVE tree[f] \in Inodes /\ fs'[To] = tree[f]
      BY TreeFacts DEF Running
    <3>2. /\ tree[f] \in Inodes /\ (tree[f].kind = "dir" => tree[f].data = <<>>)
      BY <3>1, TreeFacts DEF Running
    <3>3. tree[f] = [kind |-> tree[f].kind, mode |-> tree[f].mode, data |-> tree[f].data]
      BY <3>2 DEF Inodes
    <3>4. fs[To].kind = tree[f].kind /\ fs[To].data = tree[f].data
      <4>1. CASE tree[f].kind = "dir" /\ fs[To] = NewDir
        BY <3>2, <4>1, NewFacts
      <4>2. CASE tree[f].kind = "file" /\ fs[To] = [kind |-> "file", mode |-> {}, data |-> tree[f].data]
        BY <4>2
      <4>3. CASE Fresh(f)
        BY <2>1, <2>2, <4>3, FromFacts, <2>0, PrefixFacts DEF Fresh
      <4> QED
        BY <2>0, <2>1, <3>1, <4>1, <4>2, <4>3 DEF Running, CprInv, InHand
    <3> QED
      BY <2>2, <2>4, <3>1, <3>2, <3>3, <3>4
  <2>7. f \in DOMAIN tree => DoneUnder(f)'
    <3>1. SUFFICES ASSUME f \in DOMAIN tree, NEW p \in Under(f, tree) PROVE Settled(p)'
      BY <2>2 DEF DoneUnder, Under
    <3>2. p \in Paths /\ p \in DOMAIN tree /\ IsPrefix(Source, p)
      <4>1. p \in Paths /\ IsPrefix(f, p) /\ p \in DOMAIN tree /\ Source \in Paths
        BY TreeFacts, ImageFacts DEF Running, Under
      <4> QED
        BY <2>2, <4>1, PrefixFacts
    <3>3. CASE p = f
      BY <2>2, <2>4, <2>6, <3>1, <3>3 DEF Settled, Copied, Missed, Image
    <3>4. CASE p # f
      <4>1. tree[f].kind = "dir"
        BY <3>4, UnderFacts DEF Running
      <4>2. Settled(p)
        BY <2>0, <2>1, <3>1, <3>4, <4>1 DEF Running, CprInv, InHand
      <4>3. Image(p) # Image(f)
        BY <2>2, <3>2, <3>4, ImageFacts
      <4> QED
        BY <2>2, <2>4, <4>2, <4>3 DEF Settled, Copied, Missed, Image
    <3> QED
      BY <3>3, <3>4
  <2>8. Growing' /\ CprModeLast' /\ TreeOK' /\ Steady(f)
    BY <2>2, <2>4, <2>5, <2>6, <2>7, WriteKeeps, NewFacts DEF Running, CprInv, Settled, Copied, Missed
  <2>9. Stack'
    BY <2>0, <2>1, <2>2, <2>7, <2>8, FromKeeps
  <2>10. InHand'
    BY <2>2 DEF InHand
  <2> QED
    BY <2>2, <2>8, <2>9, <2>10, RunningKeeps
<1> QED
  BY <1>1, <1>2 DEF CprChmod

LEMMA LeaveKeeps == ASSUME Running, CprLeave PROVE CprInv'
<1>0. PICK c \in Paths, K \in Nat \ {0} : c = Here.initial /\ K = Len(frames)
  BY HereFacts
<1>1. /\ cpr_pc = "entry" /\ UNCHANGED <<tree, target>>
      /\ missed' = missed \cup {Append(c, n) : n \in Here.due \ Here.seen}
      /\ c \in DOMAIN fs /\ fs[c].kind = "dir" /\ IsPrefix(Source, c)
      /\ Here.destin = Image(c) /\ target \in Paths /\ target # <<>>
      /\ target \notin DOMAIN tree /\ Image(c) \in DOMAIN fs /\ fs[Image(c)] = NewDir
      /\ K \in 1 .. Len(frames) /\ Here = frames[K] /\ Here \in Records
      /\ CallOK(K) /\ DirOK(K) /\ ~Busy(K) /\ Entered(K) /\ Chained
  BY <1>0, HereFacts, TreeFacts
     DEF CprLeave, Syserror, Cpr, Running, CprInv, Stack, Busy, Entered
<1>a. missed \subseteq missed' /\ MissedOK'
  <2>1. \A n \in Here.due : Append(c, n) \in Paths
    BY <1>0, <1>1, ChildFacts DEF Records
  <2> QED
    BY <1>1, <2>1 DEF MissedOK, Running, CprInv, CprTypeOK
<1>2. ASSUME NEW p \in Under(c, tree), p # c
      PROVE  Settled(p) \/ Missed(p)'
  <2>1. PICK n \in Names : Append(c, n) \in DOMAIN tree /\ p \in Under(Append(c, n), tree)
    BY <1>2, UnderFacts DEF Running
  <2>2. n \in Here.due
    BY <1>0, <1>1, <2>1 DEF DirOK, Child
  <2>3. CASE n \in Here.seen
    <3>1. DoneUnder(Append(c, n))
      BY <1>0, <1>1, <2>1, <2>3 DEF DirOK, Child
    <3> QED
      BY <2>1, <3>1 DEF DoneUnder
  <2>4. CASE n \notin Here.seen
    BY <1>1, <2>1, <2>2, <2>4 DEF Missed, Under
  <2> QED
    BY <2>3, <2>4
<1>3. CASE Syserror("entry", FALSE) /\ UNCHANGED fs
  <2>1. Growing' /\ CprModeLast' /\ TreeOK'
    BY <1>1, <1>3, <1>a, SameFs DEF Running, CprInv, CprTypeOK, TreeOK
  <2> QED
    BY <1>3, <1>a, <2>1, FaultKeeps
<1>4. CASE /\ Len(frames) > 1
           /\ Cpr("entry", "chmod")
           /\ frames' = Front(frames)
           /\ UNCHANGED <<fs, faulty>>
  <2>1. PICK M \in Nat \ {0} : K = M + 1
    <3>1. \A m \in Nat \ {0} : m > 1 => m - 1 \in Nat \ {0} /\ m = (m - 1) + 1
      OBVIOUS
    <3> QED
      BY <1>0, <1>4, <3>1
  <2>2. /\ frames' \in Seq(Records) /\ frames' # <<>> /\ Len(frames') = M
        /\ \A k \in 1 .. M : frames'[k] = frames[k] /\ k \in 1 .. Len(frames) - 1
        /\ Here' = frames[M] /\ M \in 1 .. M
    <3>1. frames \in Seq(Records)
      BY <1>1 DEF Chained
    <3>2. /\ SubSeq(frames, 1, M) \in Seq(Records) /\ Len(SubSeq(frames, 1, M)) = M
          /\ \A k \in 1 .. M : SubSeq(frames, 1, M)[k] = frames[k]
      <4>1. M <= Len(frames) /\ M \in Nat
        BY <1>0, <2>1
      <4> QED
        BY <3>1, <4>1
    <3>3. Len(frames) - 1 = M
      BY <1>0, <2>1
    <3>4. frames' = SubSeq(frames, 1, M)
      BY <1>4, <3>3 DEF Front
    <3>5. Here' = frames[M]
      BY <2>1, <3>2, <3>4 DEF Here, Last
    <3> QED
      BY <2>1, <3>2, <3>3, <3>4, <3>5
  <2>3. Growing' /\ CprModeLast' /\ TreeOK' /\ Steady(c)
    BY <1>1, <1>4, <1>a, SameFs, SameIsSteady DEF Running, CprInv, CprTypeOK, TreeOK
  <2>4. cpr_pc' = "chmod"
    BY <1>4 DEF Cpr
  <2>5. \A k \in 1 .. M : AtEntry(k)' = AtEntry(k)
    BY <2>2 DEF AtEntry, Child
  <2>6. Chained'
    <3>1. \A k \in 1 .. M : k \in 1 .. Len(frames) /\ k \in 1 .. Len(frames) - 1
      BY <1>0, <2>1
    <3>2. \A k \in 1 .. M - 1 : k \in 1 .. M /\ k + 1 \in 1 .. M /\ k \in 1 .. Len(frames) - 1
      BY <1>0, <2>1
    <3>3. frames'[1].initial = Source
      BY <1>1, <2>1, <2>2 DEF Chained
    <3>4. \A k \in 1 .. M - 1 : frames'[k + 1].initial = AtEntry(k)'
      BY <1>1, <2>2, <2>5, <3>2 DEF Chained
    <3>5. \A j \in 1 .. M, k \in 1 .. M : k < j => IsPrefix(AtEntry(k)', frames'[j].initial)
      BY <1>1, <2>2, <2>5, <3>1 DEF Chained
    <3> QED
      BY <2>2, <3>3, <3>4, <3>5 DEF Chained
  <2>7. ASSUME NEW k \in 1 .. M PROVE CallOK(k)' /\ DirOK(k)'
    <3>1. Busy(k)'
      BY <2>4 DEF Busy
    <3>2. IsPrefix(Here.initial, c)
      BY <1>0, PrefixFacts
    <3> QED
      BY <1>1, <2>2, <2>3, <3>1, <3>2, LowerKeeps, Zenon
  <2>8. Stack'
    BY <2>2, <2>6, <2>7 DEF Stack
  <2>9. AtEntry(M) = c
    <3>1. M \in 1 .. Len(frames) - 1
      BY <2>2
    <3> QED
      BY <1>0, <1>1, <2>1, <3>1 DEF Chained
  <2>10. From' = c /\ To' = Image(c)
    <3>1. /\ frames[M].entry \in Names /\ frames[M].initial \in Paths
          /\ IsPrefix(Source, frames[M].initial) /\ frames[M].destin = Image(frames[M].initial)
      BY <2>2, HereFacts
    <3>2. From' = c
      BY <2>2, <2>9 DEF From, AtEntry, Child
    <3>3. To' = Append(Image(frames[M].initial), frames[M].entry)
      BY <2>2, <3>1 DEF To
    <3>4. Image(Append(frames[M].initial, frames[M].entry)) = Append(Image(frames[M].initial), frames[M].entry)
      BY <1>1, <3>1, ImageFacts
    <3> QED
      BY <2>9, <3>2, <3>3, <3>4 DEF AtEntry, Child
  <2>11. InHand'
    <3>1. c \in DOMAIN tree => tree[c].kind = "dir"
      BY <1>1 DEF Running, CprInv, Growing
    <3>2. \A p \in Under(c, tree) : p # c => Settled(p)'
      BY <1>1, <1>2, <1>4, <1>a, SameFs DEF Settled
    <3> QED
      BY <1>1, <1>4, <2>4, <2>10, <3>1, <3>2 DEF InHand, Under
  <2> QED
    BY <1>1, <1>a, <2>3, <2>4, <2>8, <2>11, RunningKeeps
<1>5. CASE /\ Len(frames) = 1
           /\ Cpr("entry", "exit0")
           /\ \/ /\ fs' = [fs EXCEPT ![target].mode = fs[Source].mode]
                 /\ UNCHANGED faulty
              \/ /\ faulty' = TRUE
                 /\ UNCHANGED fs
           /\ UNCHANGED frames
  <2>1. c = Source /\ Image(Source) = target /\ cpr_pc' = "exit0" /\ UNCHANGED frames
    BY <1>0, <1>1, <1>5, ImageFacts DEF Chained, Cpr
  <2>2. /\ Growing' /\ CprModeLast' /\ TreeOK' /\ Steady(c)
        /\ target \in DOMAIN fs'
        /\ fs'[target] = tree[Source] \/ (faulty' /\ fs'[target] = NewDir)
    <3>1. CASE fs' = [fs EXCEPT ![target].mode = fs[Source].mode]
      <4>1. /\ Source \in DOMAIN tree /\ tree[Source] \in Inodes
            /\ tree[Source].kind = "dir" /\ tree[Source].data = <<>> /\ fs[Source] = tree[Source]
        BY TreeFacts DEF Running, CprInv, Growing
      <4>2. /\ DOMAIN fs' = DOMAIN fs
            /\ fs'[target] = [kind |-> "dir", mode |-> tree[Source].mode, data |-> <<>>]
            /\ \A p \in DOMAIN fs : p # target => fs'[p] = fs[p]
        BY <1>1, <2>1, <3>1, <4>1 DEF NewDir
      <4>3. fs'[target] = tree[Source]
        BY <4>1, <4>2 DEF Inodes
      <4>4. Front(target) \in DOMAIN fs /\ fs[Front(target)].kind = "dir" /\ Front(target) # target
        BY <1>1, TreeFacts DEF Running, CprInv, Growing
      <4>5. DoneUnder(c)'
        <5>1. SUFFICES ASSUME NEW p \in Under(c, tree) PROVE Settled(p)'
          BY <1>1 DEF DoneUnder, Under
        <5>2. CASE p = c
          BY <1>1, <2>1, <4>2, <4>3, <5>2 DEF Settled, Copied, Image
        <5>3. CASE p # c
          <6>1. p \in Paths /\ IsPrefix(c, p)
            BY TreeFacts DEF Running, Under
          <6>2. Image(p) # target
            BY <1>1, <2>1, <5>3, <6>1, ImageFacts
          <6>3. CASE Missed(p) \/ Missed(p)'
            BY <1>a, <6>3 DEF Settled, Missed
          <6>4. CASE Copied(p)
            BY <1>1, <4>2, <6>2, <6>4 DEF Settled, Copied, Image
          <6> QED
            BY <1>2, <5>3, <6>3, <6>4 DEF Settled
        <5> QED
          BY <5>2, <5>3
      <4>6. c \in DOMAIN tree /\ Copied(c) => fs'[Image(c)] = fs[Image(c)]
        BY <2>1, <4>3 DEF Copied
      <4>7. Growing' /\ CprModeLast' /\ TreeOK' /\ Steady(c)
        BY <1>1, <1>a, <2>1, <4>1, <4>2, <4>3, <4>4, <4>5, <4>6, WriteKeeps, NewFacts DEF Running, CprInv
      <4> QED
        BY <1>1, <2>1, <4>2, <4>3, <4>7
    <3>2. CASE faulty' = TRUE /\ UNCHANGED fs
      BY <1>1, <1>a, <2>1, <3>2, SameFs, SameIsSteady DEF Running, CprInv, CprTypeOK, TreeOK
    <3> QED
      BY <1>5, <3>1, <3>2
  <2>3. ASSUME NEW p \in Under(Source, tree), p # Source
        PROVE  Settled(p)'
    BY <1>2, <2>1, <2>2, <2>3 DEF Steady, Settled
  <2>4. ASSUME NEW p \in Under(Source, tree)
        PROVE  \/ Copied(p)' \/ Missed(p)'
               \/ p = Source /\ faulty' /\ target' \in DOMAIN fs' /\ fs'[target'] = NewDir
    <3>1. CASE p = Source
      BY <1>1, <2>1, <2>2, <3>1 DEF Copied, Image
    <3>2. CASE p # Source
      BY <2>3, <3>2 DEF Settled
    <3> QED
      BY <3>1, <3>2
  <2>5. ASSUME ~Within, NEW p \in DOMAIN fs', IsPrefix(target, p)
        PROVE  \E q \in Under(Source, tree) : p = Image(q)
    <3>1. p \notin DOMAIN tree
      BY <1>1, <2>5, TreeFacts DEF Running
    <3>2. PICK q \in Paths : IsPrefix(Source, q) /\ p = Image(q)' /\ (~Within' => q \in DOMAIN tree)
      BY <1>1, <2>2, <2>5, <3>1 DEF Growing
    <3> QED
      BY <1>1, <2>5, <3>2 DEF Under, Image, Within
  <2>6. CprFaithful'
    <3>1. \A p \in DOMAIN tree : p \in DOMAIN fs' /\ fs'[p] = tree[p]
      BY <1>1, <2>2 DEF Growing
    <3>2. ~Within => Under(target, fs') \subseteq {Image(p) : p \in Under(Source, tree)}
      BY <2>5 DEF Under
    <3>3. /\ Within' <=> Within
          /\ Under(Source, tree)' = Under(Source, tree) /\ Under(target, fs)' = Under(target, fs')
          /\ {Image(p) : p \in Under(Source, tree)}' = {Image(p) : p \in Under(Source, tree)}
      BY <1>1 DEF Within, Under, Image
    <3> QED
      BY <1>1, <2>4, <3>1, <3>2, <3>3 DEF CprFaithful
  <2>7. CprTypeOK'
    BY <1>1, <1>a, <2>1, <2>2 DEF CprTypeOK, CprStopped, TreeOK, MissedOK, Running, CprInv, Steady
  <2>8. CprFailsFor' /\ CprStopped'
    BY <2>1 DEF CprFailsFor, CprStopped
  <2> QED
    BY <2>2, <2>6, <2>7, <2>8 DEF CprInv
<1> QED
  BY <1>3, <1>4, <1>5 DEF CprLeave

LEMMA CprStep ==
  ASSUME tree \in Trees, target \in Targets, CprInv, [CprNext]_cprVars
  PROVE  CprInv' /\ UNCHANGED <<tree, target>>
<1>1. CASE CprNext
  <2>1. Running /\ UNCHANGED <<tree, target>>
    BY <1>1 DEF Running, CprStopped, CprNext, CprEnter, CprEntry, CprOpen, CprCopy, CprChmod, CprLeave,
                Syserror, Cpr
  <2> QED
    BY <1>1, <2>1, CprEnterKeeps, EntryKeeps, OpenKeeps, CopyKeeps, ChmodKeeps, LeaveKeeps DEF CprNext
<1>2. CASE UNCHANGED cprVars
  <2>1. UNCHANGED <<tree, target, fs, frames, missed, faulty, cpr_pc>>
    BY <1>2 DEF cprVars
  <2>2. Growing' /\ CprModeLast' /\ (Within' <=> Within)
        /\ \A p : Image(p)' = Image(p)
    BY <2>1, SameFs DEF CprInv
  <2>3. CprTypeOK' /\ CprFailsFor' /\ (CprStopped' <=> CprStopped)
    BY <2>1 DEF CprInv, CprTypeOK, CprFailsFor, CprStopped, Within, Under
  <2>4. CprFaithful'
    BY <2>1 DEF CprInv, CprFaithful, Within, Under, Image, Copied, Missed
  <2>5. /\ \A k : Busy(k)' = Busy(k) /\ Entered(k)' = Entered(k) /\ AtEntry(k)' = AtEntry(k)
        /\ \A k, n : Child(k, n)' = Child(k, n)
        /\ Here' = Here /\ From' = From /\ To' = To
    BY <2>1 DEF Busy, Entered, AtEntry, Child, Here, From, To
  <2>6. /\ \A k : CallOK(k)' <=> CallOK(k)
        /\ \A k : DirOK(k)' <=> DirOK(k)
        /\ Chained' <=> Chained
    <3>1. \A k : CallOK(k)' <=> CallOK(k)
      BY <2>1, <2>2, <2>5 DEF CallOK
    <3>2. ASSUME NEW k PROVE DirOK(k)' <=> DirOK(k)
      BY <2>1 DEF DirOK, Entered, Busy, Child, DoneUnder, Settled, Copied, Missed, Fresh, Under, Image
    <3>3. Chained' <=> Chained
      BY <2>1, <2>5 DEF Chained
    <3> QED
      BY <3>1, <3>2, <3>3
  <2>7. Stack' <=> Stack
    BY <2>1, <2>6 DEF Stack
  <2>8. InHand' <=> InHand
    BY <2>1 DEF InHand, Here, From, To, DoneUnder, Settled, Copied, Missed, Fresh, Under, Image
  <2> QED
    BY <2>1, <2>2, <2>3, <2>4, <2>7, <2>8 DEF CprInv
<1> QED
  BY <1>1, <1>2

\* cpr.c: the invariant of a copy, with every system call failing as it likes.
\* Of the entries that readdir has given to a call in progress, each but the one
\* it is at is in the copy with all that is under it, except what a failing
\* readdir kept back further down; and nothing is where the copies of the others
\* will be.
THEOREM CprInvariance ==
  ASSUME NEW t \in Trees, NEW d \in Targets
  PROVE  CprSpec(t, d) => [](tree \in Trees /\ target \in Targets /\ CprInv)
<1>1. CprInit(t, d) => tree \in Trees /\ target \in Targets /\ CprInv
  BY CprStartInv DEF CprInit
<1>2. tree \in Trees /\ target \in Targets /\ CprInv /\ [CprNext]_cprVars
        => (tree \in Trees /\ target \in Targets /\ CprInv)'
  BY CprStep
<1> QED
  BY <1>1, <1>2, PTL DEF CprSpec

\* cpr.c: whatever the tree, whatever fails and wherever the copy goes, into its
\* own source included, nothing that was there is changed; when the program says
\* it succeeded every part of the source is in the copy as it was, except for the
\* entries that a failing readdir kept back and what is under them; a copy that
\* was given up has no part that looks complete and is not, with the same
\* exception; and it is given up, or the buffers overflow, only for the reasons
\* that CprFailsFor lists.  (That the exception is real is what the run of
\* CprWhole shows.)
THEOREM CopyCorrect ==
  ASSUME NEW t \in Trees, NEW d \in Targets PROVE CprSpec(t, d) => [](CprCorrect /\ CprTypeOK)
<1>1. CprInv => CprCorrect /\ CprTypeOK
  BY DEF CprInv, CprCorrect
<1> QED
  BY <1>1, CprInvariance, PTL
=============================================================================
