-------------------------- MODULE FileCache_proofs --------------------------
(***************************************************************************)
(* Proofs about the file cache of FileCache, for any files, sizes, hash    *)
(* function, number of buckets, workers and limit.  First sums over sets   *)
(* and recursive functions, then what the list operators do to memory,     *)
(* then what each step of do_server_request does to types and sizes; then  *)
(* the two cases in which the lists can be trusted: one thread, and room   *)
(* for a copy of everything by everyone, both without collisions; and last *)
(* one thread with any hash function, whose lists come to an end.          *)
(***************************************************************************)
EXTENDS FileCache, QueueFacts, FiniteSetTheorems

USE CacheAssumption

-----------------------------------------------------------------------------
(* Recursive functions. *)

\* w begins with a and goes on as D says.
Iterates(w, a, D, n) == w[0] = a /\ \A k \in 1 .. n : w[k] = D[w[k - 1]]

\* The iteration of a function exists.
LEMMA Iteration ==
  ASSUME NEW V, NEW a, a \in V, NEW D, \A v \in V : D[v] \in V, NEW n, n \in Nat
  PROVE  \E w : Iterates(w, a, D, n)
<1> DEFINE Is(w, m) == /\ w[0] = a
                       /\ \A k \in 0 .. m : w[k] \in V
                       /\ \A k \in 1 .. m : w[k] = D[w[k - 1]]
           T == {m \in Nat : \E w : Is(w, m)}
<1>1. 0 \in T
  <2> DEFINE w == [k \in 0 .. 0 |-> a]
  <2>1. Is(w, 0)
    <3>1. 1 .. 0 = {} /\ 0 .. 0 = {0}
      OBVIOUS
    <3> QED
      BY <3>1
  <2> QED
    BY <2>1
<1>2. ASSUME NEW m \in Nat, m \in T PROVE m + 1 \in T
  <2>1. PICK w : Is(w, m)
    BY <1>2
  <2> DEFINE u == [k \in 0 .. (m + 1) |-> IF k = m + 1 THEN D[w[m]] ELSE w[k]]
  <2>2. u[0] = a
    BY <2>1
  <2>3. ASSUME NEW k \in 0 .. (m + 1) PROVE u[k] \in V
    <3>1. CASE k = m + 1
      BY <2>1, <3>1
    <3>2. CASE k # m + 1
      <4>1. k \in 0 .. m
        BY <3>2
      <4> QED
        BY <2>1, <4>1, <3>2
    <3> QED
      BY <3>1, <3>2
  <2>4. ASSUME NEW k \in 1 .. (m + 1) PROVE u[k] = D[u[k - 1]]
    <3>1. k - 1 \in 0 .. m /\ u[k - 1] = w[k - 1]
      OBVIOUS
    <3>2. CASE k = m + 1
      <4>1. u[k] = D[w[m]] /\ k - 1 = m
        BY <3>2
      <4> QED
        BY <3>1, <4>1
    <3>3. CASE k # m + 1
      <4>1. k \in 1 .. m /\ u[k] = w[k]
        BY <3>3
      <4>2. w[k] = D[w[k - 1]]
        BY <2>1, <4>1
      <4> QED
        BY <3>1, <4>1, <4>2
    <3> QED
      BY <3>2, <3>3
  <2>5. \E x : Is(x, m + 1)
    <3> HIDE DEF u
    <3>1. Is(u, m + 1)
      BY <2>2, <2>3, <2>4
    <3> QED
      BY <3>1
  <2> HIDE DEF Is
  <2> QED
    BY <2>5
<1>3. n \in T
  <2> HIDE DEF T
  <2>1. Nat \subseteq T
    BY <1>1, <1>2, SetInduction
  <2> QED
    BY <2>1
<1> QED
  BY <1>3 DEF Iterates

\* What every step keeps, all values have.
LEMMA StaysIn ==
  ASSUME NEW V, NEW n \in Nat, NEW w, w[0] \in V,
         \A k \in 1 .. n : w[k - 1] \in V => w[k] \in V
  PROVE  \A k \in 0 .. n : w[k] \in V
<1> DEFINE T == {m \in Nat : m <= n => w[m] \in V}
<1>1. 0 \in T
  OBVIOUS
<1>2. ASSUME NEW m \in Nat, m \in T PROVE m + 1 \in T
  <2>1. CASE m + 1 <= n
    <3>1. m + 1 \in 1 .. n /\ (m + 1) - 1 = m /\ w[m] \in V
      BY <1>2, <2>1
    <3> QED
      BY <3>1
  <2>2. CASE ~(m + 1 <= n)
    BY <2>2
  <2> QED
    BY <2>1, <2>2
<1> HIDE DEF T
<1>3. Nat \subseteq T
  BY <1>1, <1>2, SetInduction
<1> QED
  BY <1>3 DEF T

-----------------------------------------------------------------------------
(* Sums over finite sets, as FoldSet computes them. *)

Choice(s) == CHOOSE x \in s : TRUE

\* F gives the sum of the weights W over every subset of A.
IsSum(F, A, W) ==
    F = [s \in SUBSET A |-> IF s = {} THEN 0 ELSE F[s \ {Choice(s)}] + W[Choice(s)]]

\* Sums over a set depend only on the weights of its members.
LEMMA SumAgree ==
  ASSUME NEW A, NEW W, NEW F, IsSum(F, A, W),
         NEW B, NEW V, NEW G, IsSum(G, B, V),
         NEW D, IsFiniteSet(D), D \subseteq A, D \subseteq B, \A x \in D : W[x] = V[x]
  PROVE  F[D] = G[D]
<1> DEFINE T == {n \in Nat : \A s \in SUBSET D : Cardinality(s) = n => F[s] = G[s]}
<1>1. \A s \in SUBSET D : IsFiniteSet(s) /\ Cardinality(s) \in Nat /\ (Cardinality(s) = 0 <=> s = {})
  BY FS_Subset, FS_CardinalityType, FS_EmptySet
<1>2. 0 \in T
  BY <1>1 DEF IsSum
<1>3. ASSUME NEW n \in Nat, n \in T PROVE n + 1 \in T
  <2> SUFFICES ASSUME NEW s \in SUBSET D, Cardinality(s) = n + 1 PROVE F[s] = G[s]
    OBVIOUS
  <2>1. s # {} /\ Choice(s) \in s
    BY <1>1 DEF Choice
  <2>2. Cardinality(s \ {Choice(s)}) = n
    <3>1. Cardinality(s \ {Choice(s)}) = Cardinality(s) - 1
      BY <1>1, <2>1, FS_RemoveElement
    <3> QED
      BY <3>1
  <2>3. F[s \ {Choice(s)}] = G[s \ {Choice(s)}]
    BY <1>3, <2>2
  <2>4. F[s] = F[s \ {Choice(s)}] + W[Choice(s)]
    <3>1. s \in SUBSET A
      OBVIOUS
    <3> QED
      BY <2>1, <3>1 DEF IsSum
  <2>5. G[s] = G[s \ {Choice(s)}] + V[Choice(s)]
    <3>1. s \in SUBSET B
      OBVIOUS
    <3> QED
      BY <2>1, <3>1 DEF IsSum
  <2> QED
    BY <2>1, <2>3, <2>4, <2>5
<1> HIDE DEF T
<1>4. Nat \subseteq T
  BY <1>2, <1>3, SetInduction
<1> QED
  BY <1>1, <1>4 DEF T

\* Over a finite set there is such a function, and its values are naturals.
LEMMA SumExists ==
  ASSUME NEW A, IsFiniteSet(A), NEW W \in [A -> Nat]
  PROVE  \E F \in [SUBSET A -> Nat] : IsSum(F, A, W)
<1> DEFINE Upto(F, n) == \A s \in SUBSET A : Cardinality(s) <= n =>
                F[s] = IF s = {} THEN 0 ELSE F[s \ {Choice(s)}] + W[Choice(s)]
           T == {n \in Nat : \E F \in [SUBSET A -> Nat] : Upto(F, n)}
<1>1. \A s \in SUBSET A : IsFiniteSet(s) /\ Cardinality(s) \in Nat /\ (Cardinality(s) = 0 <=> s = {})
  BY FS_Subset, FS_CardinalityType, FS_EmptySet
<1>2. 0 \in T
  <2> DEFINE F == [s \in SUBSET A |-> 0]
  <2>1. F \in [SUBSET A -> Nat]
    OBVIOUS
  <2>2. Upto(F, 0)
    <3> SUFFICES ASSUME NEW s \in SUBSET A, Cardinality(s) <= 0 PROVE s = {} /\ F[s] = 0
      OBVIOUS
    <3>1. Cardinality(s) = 0
      BY <1>1
    <3> QED
      BY <1>1, <3>1
  <2> HIDE DEF F
  <2>3. \E G \in [SUBSET A -> Nat] : Upto(G, 0)
    BY <2>1, <2>2
  <2> QED
    BY <2>3
<1>3. ASSUME NEW n \in Nat, n \in T PROVE n + 1 \in T
  <2>1. PICK F \in [SUBSET A -> Nat] : Upto(F, n)
    BY <1>3
  <2> DEFINE G == [s \in SUBSET A |-> IF s = {} THEN 0 ELSE F[s \ {Choice(s)}] + W[Choice(s)]]
  <2>2. \A s \in SUBSET A : s # {} => Choice(s) \in s
    BY DEF Choice
  <2>3. G \in [SUBSET A -> Nat]
    BY <2>2
  <2>4. \A s \in SUBSET A : Cardinality(s) <= n => G[s] = F[s]
    BY <2>1
  <2>5. ASSUME NEW s \in SUBSET A, Cardinality(s) <= n + 1
        PROVE  G[s] = IF s = {} THEN 0 ELSE G[s \ {Choice(s)}] + W[Choice(s)]
    <3>1. CASE s = {}
      BY <3>1
    <3>2. CASE s # {}
      <4> DEFINE r == s \ {Choice(s)}
      <4>1. r \in SUBSET A
        OBVIOUS
      <4>2. Cardinality(r) = Cardinality(s) - 1
        BY <1>1, <2>2, <3>2, FS_RemoveElement
      <4>3. Cardinality(r) <= n
        BY <1>1, <2>5, <4>2
      <4>4. G[r] = F[r]
        BY <2>4, <4>1, <4>3
      <4>5. G[s] = F[r] + W[Choice(s)]
        BY <3>2
      <4> QED
        BY <3>2, <4>4, <4>5
    <3> QED
      BY <3>1, <3>2
  <2> HIDE DEF G
  <2>6. Upto(G, n + 1)
    BY <2>5
  <2>7. \E H \in [SUBSET A -> Nat] : Upto(H, n + 1)
    BY <2>3, <2>6
  <2> QED
    BY <2>7
<1>4. Cardinality(A) \in T
  <2> HIDE DEF T
  <2>1. Nat \subseteq T
    BY <1>2, <1>3, SetInduction
  <2> QED
    BY <1>1, <2>1
<1>5. PICK F \in [SUBSET A -> Nat] : Upto(F, Cardinality(A))
  BY <1>4
<1>6. \A s \in SUBSET A : Cardinality(s) <= Cardinality(A)
  BY FS_Subset
<1>7. \A s \in SUBSET A : F[s] = IF s = {} THEN 0 ELSE F[s \ {Choice(s)}] + W[Choice(s)]
  BY <1>5, <1>6
<1> QED
  BY <1>7 DEF IsSum

\* A sum without one of its members.
LEMMA SumRemove ==
  ASSUME NEW A, IsFiniteSet(A), NEW W, \A x \in A : W[x] \in Nat,
         NEW F, IsSum(F, A, W)
  PROVE  \A s \in SUBSET A : F[s] \in Nat /\ \A x \in s : F[s] = F[s \ {x}] + W[x]
<1> DEFINE T == {n \in Nat : \A s \in SUBSET A : Cardinality(s) = n =>
                                \A x \in s : F[s] = F[s \ {x}] + W[x]}
<1>1. \A s \in SUBSET A : IsFiniteSet(s) /\ Cardinality(s) \in Nat /\ (Cardinality(s) = 0 <=> s = {})
  BY FS_Subset, FS_CardinalityType, FS_EmptySet
<1>2. \A s \in SUBSET A : s # {} => Choice(s) \in s /\ F[s] = F[s \ {Choice(s)}] + W[Choice(s)]
  BY DEF IsSum, Choice
<1>0. \A s \in SUBSET A : F[s] \in Nat
  <2> DEFINE V == [x \in A |-> W[x]]
  <2>1. V \in [A -> Nat] /\ \A x \in A : V[x] = W[x]
    OBVIOUS
  <2> HIDE DEF V
  <2>2. PICK G \in [SUBSET A -> Nat] : IsSum(G, A, V)
    BY <2>1, SumExists
  <2>3. ASSUME NEW s \in SUBSET A PROVE F[s] \in Nat
    <3>1. F[s] = G[s]
      BY <1>1, <2>1, <2>2, SumAgree
    <3> QED
      BY <3>1
  <2> QED
    BY <2>3
<1>3. 0 \in T
  BY <1>1
<1>4. ASSUME NEW n \in Nat, n \in T PROVE n + 1 \in T
  <2> SUFFICES ASSUME NEW s \in SUBSET A, Cardinality(s) = n + 1, NEW x \in s
               PROVE  F[s] = F[s \ {x}] + W[x]
    OBVIOUS
  <2> DEFINE y == Choice(s)
             r == s \ {x}
  <2>1. y \in s /\ F[s] = F[s \ {y}] + W[y]
    BY <1>2
  <2>2. CASE x = y
    BY <2>1, <2>2
  <2>3. CASE x # y
    <3>1. Cardinality(s \ {y}) = n
      <4>1. Cardinality(s \ {y}) = Cardinality(s) - 1
        BY <1>1, <2>1, FS_RemoveElement
      <4> QED
        BY <4>1
    <3>2. Cardinality(r) = n
      <4>1. Cardinality(r) = Cardinality(s) - 1
        BY <1>1, FS_RemoveElement
      <4> QED
        BY <4>1
    <3> HIDE DEF y
    <3>3. F[s \ {y}] = F[(s \ {y}) \ {x}] + W[x]
      <4>1. s \ {y} \in SUBSET A /\ x \in s \ {y}
        BY <2>3
      <4> QED
        BY <1>4, <3>1, <4>1
    <3>4. F[r] = F[r \ {y}] + W[y]
      <4>1. r \in SUBSET A /\ y \in r
        BY <2>1, <2>3
      <4> QED
        BY <1>4, <3>2, <4>1
    <3>5. (s \ {y}) \ {x} = r \ {y}
      OBVIOUS
    <3>6. F[r \ {y}] \in Nat /\ W[x] \in Nat /\ W[y] \in Nat
      BY <1>0, <2>1
    <3>7. F[s] = (F[r \ {y}] + W[x]) + W[y]
      BY <2>1, <3>3, <3>5
    <3>8. F[s] = F[r] + W[x]
      <4> HIDE DEF r
      <4> QED
        BY <3>4, <3>6, <3>7
    <3> QED
      BY <3>8
  <2> QED
    BY <2>2, <2>3
<1> HIDE DEF T
<1>5. Nat \subseteq T
  BY <1>3, <1>4, SetInduction
<1> QED
  BY <1>0, <1>1, <1>5 DEF T

-----------------------------------------------------------------------------
(* The sizes of files: Bytes, and the limit in AllFit. *)

Weights(name) == [n \in Nodes |-> Size[name[n]]]
Total(name, ns) == FoldSet(LAMBDA n, s : s + Size[name[n]], 0, ns)

LEMMA NodesFinite == IsFiniteSet(Nodes) /\ \A ns \in SUBSET Nodes : IsFiniteSet(ns)
<1>1. IsFiniteSet(Nodes)
  BY FS_Interval DEF Nodes
<1> QED
  BY <1>1, FS_Subset

\* FoldSet over nodes is a sum.
LEMMA TotalIs ==
  ASSUME NEW name \in [Nodes -> Files], NEW ns \in SUBSET Nodes
  PROVE  \E F \in [SUBSET ns -> Nat] : IsSum(F, ns, Weights(name)) /\ Total(name, ns) = F[ns]
<1> DEFINE W == [n \in ns |-> Size[name[n]]]
           Is(f) == f = [s \in SUBSET ns |->
                            IF s = {} THEN 0
                            ELSE f[s \ {CHOOSE x \in s : TRUE}] + Size[name[CHOOSE x \in s : TRUE]]]
<1>1. W \in [ns -> Nat]
  OBVIOUS
<1>2. PICK F \in [SUBSET ns -> Nat] : IsSum(F, ns, W)
  <2> HIDE DEF W
  <2> QED
    BY <1>1, SumExists, NodesFinite
<1>3. \A s \in SUBSET ns : s # {} =>
         /\ Choice(s) \in s
         /\ W[Choice(s)] = Size[name[Choice(s)]]
         /\ Weights(name)[Choice(s)] = Size[name[Choice(s)]]
  BY DEF Choice, Weights
<1>4. Is(F)
  <2>1. \A s \in SUBSET ns : F[s] = IF s = {} THEN 0 ELSE F[s \ {Choice(s)}] + W[Choice(s)]
    BY <1>2 DEF IsSum
  <2>2. \A s \in SUBSET ns : F[s] = IF s = {} THEN 0 ELSE F[s \ {Choice(s)}] + Size[name[Choice(s)]]
    BY <2>1, <1>3
  <2> QED
    BY <2>2 DEF Choice
<1>5. PICK G : G = CHOOSE f : Is(f)
  OBVIOUS
<1>6. Is(G)
  <2> HIDE DEF Is
  <2> QED
    BY <1>4, <1>5
<1>7. Total(name, ns) = G[ns]
  BY <1>5 DEF Total, FoldSet, MapThenFoldSet
<1>8. IsSum(G, ns, Weights(name)) /\ IsSum(G, ns, W)
  <2>1. G = [s \in SUBSET ns |-> IF s = {} THEN 0 ELSE G[s \ {Choice(s)}] + Size[name[Choice(s)]]]
    BY <1>6 DEF Choice
  <2> QED
    BY <2>1, <1>3 DEF IsSum
<1>9. G \in [SUBSET ns -> Nat]
  <2>1. G = [s \in SUBSET ns |-> G[s]]
    BY <1>6
  <2>2. ASSUME NEW s \in SUBSET ns PROVE G[s] \in Nat
    <3> HIDE DEF W
    <3>1. IsFiniteSet(s)
      BY NodesFinite
    <3>2. G[s] = F[s]
      BY <3>1, <1>2, <1>8, SumAgree
    <3> QED
      BY <3>2
  <2> QED
    BY <2>1, <2>2
<1> QED
  BY <1>7, <1>8, <1>9

\* What the sum of sizes is when a node is freed, added or renamed.
LEMMA TotalFacts ==
  ASSUME NEW name \in [Nodes -> Files], NEW ns \in SUBSET Nodes
  PROVE  /\ Total(name, ns) \in Nat
         /\ ns = {} => Total(name, ns) = 0
         /\ \A n \in ns : Total(name, ns) = Total(name, ns \ {n}) + Size[name[n]]
         /\ \A other \in [Nodes -> Files] :
               (\A n \in ns : other[n] = name[n]) => Total(other, ns) = Total(name, ns)
<1>1. PICK F \in [SUBSET ns -> Nat] : IsSum(F, ns, Weights(name)) /\ Total(name, ns) = F[ns]
  BY TotalIs
<1>2. Total(name, ns) \in Nat
  BY <1>1
<1>3. ns = {} => Total(name, ns) = 0
  BY <1>1 DEF IsSum
<1>4. ASSUME NEW n \in ns PROVE Total(name, ns) = Total(name, ns \ {n}) + Size[name[n]]
  <2>1. PICK G \in [SUBSET (ns \ {n}) -> Nat] :
           IsSum(G, ns \ {n}, Weights(name)) /\ Total(name, ns \ {n}) = G[ns \ {n}]
    <3>1. ns \ {n} \in SUBSET Nodes
      OBVIOUS
    <3> QED
      BY <3>1, TotalIs
  <2>2. F[ns \ {n}] = G[ns \ {n}]
    <3>1. IsFiniteSet(ns \ {n})
      BY NodesFinite
    <3> QED
      BY <1>1, <2>1, <3>1, SumAgree
  <2>3. F[ns] = F[ns \ {n}] + Size[name[n]]
    <3> DEFINE W == Weights(name)
    <3>1. \A k \in ns : W[k] \in Nat
      BY DEF Weights
    <3>2. W[n] = Size[name[n]]
      BY DEF Weights
    <3>3. IsFiniteSet(ns) /\ IsSum(F, ns, W)
      BY <1>1, NodesFinite
    <3> HIDE DEF W
    <3>4. \A s \in SUBSET ns : F[s] \in Nat /\ \A k \in s : F[s] = F[s \ {k}] + W[k]
      BY <3>1, <3>3, SumRemove
    <3>5. F[ns] = F[ns \ {n}] + W[n]
      BY <3>4
    <3> QED
      BY <3>2, <3>5
  <2> QED
    BY <1>1, <2>1, <2>2, <2>3
<1>5. ASSUME NEW other \in [Nodes -> Files], \A n \in ns : other[n] = name[n]
      PROVE  Total(other, ns) = Total(name, ns)
  <2>1. PICK G \in [SUBSET ns -> Nat] : IsSum(G, ns, Weights(other)) /\ Total(other, ns) = G[ns]
    BY TotalIs
  <2>2. \A n \in ns : Weights(other)[n] = Weights(name)[n]
    BY <1>5 DEF Weights
  <2> QED
    BY <1>1, <2>1, <2>2, NodesFinite, SumAgree
<1> QED
  BY <1>2, <1>3, <1>4, <1>5

-----------------------------------------------------------------------------
(* What the operators on lists do to memory. *)

\* The same nodes with the same files.
SameNodes(m, r) == r.live = m.live /\ r.name = m.name /\ r.allocated = m.allocated

LEMMA Constants ==
  /\ MaxRequests \in Nat /\ Buckets \in Nat /\ Buckets > 0
  /\ Nodes = 1 .. MaxRequests /\ Nil = 0
  /\ Nodes \subseteq Ptrs /\ Nil \in Ptrs /\ Nil \notin Nodes
  /\ \A p \in Ptrs : p # Nil => p \in Nodes
  /\ Size \in [Files -> Nat \ {0}]
BY DEF Nodes, Ptrs, Nil

LEMMA MinMax ==
  ASSUME NEW S \in SUBSET Nodes, S # {}
  PROVE  /\ Min(S) \in S /\ \A k \in S : Min(S) <= k
         /\ Max(S) \in S /\ \A k \in S : k <= Max(S)
<1>1. \E n \in S : \A k \in S : n <= k
  <2>1. S \in SUBSET Nat
    BY DEF Nodes
  <2> QED
    BY <2>1, LeastNat
<1>2. \E n \in S : \A k \in S : n >= k
  <2> DEFINE R == {MaxRequests - k : k \in S}
  <2>1. R \in SUBSET Nat /\ R # {}
    BY DEF Nodes
  <2>2. PICK r \in R : \A q \in R : r <= q
    <3> HIDE DEF R
    <3> QED
      BY <2>1, LeastNat
  <2>3. PICK n \in S : r = MaxRequests - n
    OBVIOUS
  <2>4. ASSUME NEW k \in S PROVE n >= k
    <3>1. MaxRequests - n <= MaxRequests - k
      BY <2>2, <2>3
    <3> QED
      BY <3>1 DEF Nodes
  <2> QED
    BY <2>4
<1>3. Min(S) \in S /\ \A k \in S : Min(S) <= k
  BY <1>1 DEF Min
<1>4. Max(S) \in S /\ \A k \in S : Max(S) >= k
  BY <1>2 DEF Max
<1> QED
  BY <1>3, <1>4 DEF Nodes

LEMMA AccessFacts ==
  ASSUME NEW m \in MemType, NEW ps
  PROVE  /\ Access(m, ps) \in MemType
         /\ SameNodes(m, Access(m, ps))
         /\ Access(m, ps).head = m.head /\ Access(m, ps).num_files = m.num_files
         /\ Access(m, ps).next = m.next /\ Access(m, ps).prev = m.prev
         /\ Access(m, ps).fault = (m.fault \/ ~(ps \subseteq m.live))
BY DEF Access, MemType, SameNodes

\* A walk meets pointers, one after the other.
LEMMA WalkFacts ==
  ASSUME NEW m \in MemType, NEW l \in Lists
  PROVE  /\ \A k \in 1 .. (MaxRequests + 1) : Walk(m, l)[k] \in Ptrs
         /\ Walk(m, l)[1] = m.head[l]
         /\ \A k \in 2 .. (MaxRequests + 1) :
               LET p == Walk(m, l)[k - 1]
               IN  Walk(m, l)[k] = IF p \in m.live THEN m.next[p] ELSE Nil
<1> DEFINE N == MaxRequests
           Is(f) == f = [k \in 1 .. (N + 1) |->
                           IF k = 1 THEN m.head[l]
                           ELSE LET p == f[k - 1] IN IF p \in m.live THEN m.next[p] ELSE Nil]
           D == [p \in Ptrs |-> IF p \in m.live THEN m.next[p] ELSE Nil]
<1>1. (\A p \in Ptrs : D[p] \in Ptrs) /\ m.head[l] \in Ptrs /\ N \in Nat /\ m.live \subseteq Ptrs
  BY Constants DEF MemType
<1>2. PICK u : u[0] = m.head[l] /\ \A k \in 1 .. N : u[k] = D[u[k - 1]]
  <2> HIDE DEF D
  <2>1. \E u : Iterates(u, m.head[l], D, N)
    BY <1>1, Iteration
  <2> QED
    BY <2>1 DEF Iterates
<1>2a. \A k \in 0 .. N : u[k] \in Ptrs
  <2>1. \A k \in 1 .. N : u[k - 1] \in Ptrs => u[k] \in Ptrs
    BY <1>1, <1>2
  <2> HIDE DEF D
  <2> QED
    BY <1>1, <1>2, <2>1, StaysIn
<1>3. Is([k \in 1 .. (N + 1) |-> u[k - 1]])
  <2> DEFINE f == [k \in 1 .. (N + 1) |-> u[k - 1]]
  <2>1. ASSUME NEW k \in 1 .. (N + 1), k # 1
        PROVE  f[k] = LET p == f[k - 1] IN IF p \in m.live THEN m.next[p] ELSE Nil
    <3>1. k - 1 \in 1 .. N /\ k - 1 \in 1 .. (N + 1) /\ (k - 1) - 1 \in 0 .. N
      BY <1>1, <2>1
    <3>2. f[k] = u[k - 1] /\ f[k - 1] = u[(k - 1) - 1]
      BY <3>1
    <3>3. u[k - 1] = D[u[(k - 1) - 1]] /\ u[(k - 1) - 1] \in Ptrs
      BY <1>2, <1>2a, <3>1
    <3> QED
      BY <3>2, <3>3
  <2>2. f[1] = m.head[l]
    BY <1>1, <1>2
  <2> QED
    BY <2>1, <2>2
<1>4. Is(Walk(m, l))
  <2>1. Walk(m, l) = CHOOSE f : Is(f)
    BY DEF Walk
  <2> HIDE DEF Is
  <2> QED
    BY <1>3, <2>1
<1> DEFINE w == Walk(m, l)
<1>5. w[1] = m.head[l]
  BY <1>1, <1>4
<1>6. ASSUME NEW k \in 2 .. (N + 1)
      PROVE  w[k] = LET p == w[k - 1] IN IF p \in m.live THEN m.next[p] ELSE Nil
  BY <1>1, <1>4
<1> DEFINE v == [k \in 0 .. N |-> w[k + 1]]
<1>7. v[0] \in Ptrs
  BY <1>1, <1>5
<1>8. ASSUME NEW k \in 1 .. N, v[k - 1] \in Ptrs PROVE v[k] \in Ptrs
  <2>1. k \in 0 .. N /\ k - 1 \in 0 .. N /\ k + 1 \in 2 .. (N + 1) /\ (k + 1) - 1 = k /\ (k - 1) + 1 = k
    BY <1>1
  <2>3. v[k] = w[k + 1] /\ v[k - 1] = w[k]
    <3> HIDE DEF w
    <3> QED
      BY <2>1
  <2>2. w[k + 1] = IF w[k] \in m.live THEN m.next[w[k]] ELSE Nil
    BY <1>6, <2>1
  <2> QED
    BY <1>8, <2>2, <2>3, Constants DEF MemType
<1>9. \A k \in 0 .. N : v[k] \in Ptrs
  <2> HIDE DEF v
  <2> QED
    BY <1>1, <1>7, <1>8, StaysIn
<1>10. ASSUME NEW k \in 1 .. (N + 1) PROVE w[k] \in Ptrs
  <2>1. k - 1 \in 0 .. N /\ v[k - 1] = w[k]
    BY <1>1
  <2> QED
    BY <1>9, <2>1
<1> QED
  BY <1>5, <1>6, <1>10

\* Memory with other lists over the same nodes.
ListTypes(h, c, x, p) ==
    /\ h \in [Lists -> Ptrs] /\ c \in [Lists -> Int]
    /\ x \in [Nodes -> Ptrs] /\ p \in [Nodes -> Ptrs]

LEMMA MemRecord ==
  ASSUME NEW m \in MemType, NEW h, NEW c, NEW x, NEW p, ListTypes(h, c, x, p), NEW r,
         r = [head |-> h, num_files |-> c, next |-> x, prev |-> p, name |-> m.name,
              live |-> m.live, allocated |-> m.allocated, fault |-> m.fault]
  PROVE  r \in MemType /\ SameNodes(m, r)
BY DEF MemType, SameNodes, ListTypes

LEMMA EnqueueType ==
  ASSUME NEW m \in MemType, NEW l \in Lists, NEW n \in Nodes
  PROVE  Enqueue(m, l, n) \in MemType /\ SameNodes(m, Enqueue(m, l, n))
<1> DEFINE w     == Walk(m, l)
           trail == {k \in Nodes : w[k] # Nil}
           last  == w[Max(trail)]
<1>1. CASE m.num_files[l] = 0 \/ m.head[l] = Nil
  <2> DEFINE a == Access(m, {n})
  <2>1. a \in MemType /\ SameNodes(m, a)
    BY AccessFacts
  <2>2. Enqueue(m, l, n) = [a EXCEPT !.head[l] = n, !.next[n] = Nil, !.prev[n] = Nil,
                                     !.num_files[l] = @ + 1]
    BY <1>1 DEF Enqueue
  <2> HIDE DEF a
  <2>3. Enqueue(m, l, n) =
            [head |-> [a.head EXCEPT ![l] = n], num_files |-> [a.num_files EXCEPT ![l] = @ + 1],
             next |-> [a.next EXCEPT ![n] = Nil], prev |-> [a.prev EXCEPT ![n] = Nil],
             name |-> a.name, live |-> a.live,
             allocated |-> a.allocated, fault |-> a.fault]
    BY <2>1, <2>2 DEF MemType
  <2>4. ListTypes([a.head EXCEPT ![l] = n], [a.num_files EXCEPT ![l] = @ + 1],
                  [a.next EXCEPT ![n] = Nil], [a.prev EXCEPT ![n] = Nil])
    BY <2>1, Constants DEF MemType, ListTypes
  <2>5. Enqueue(m, l, n) \in MemType /\ SameNodes(a, Enqueue(m, l, n))
    BY <2>1, <2>3, <2>4, MemRecord
  <2> QED
    BY <2>1, <2>5 DEF SameNodes
<1>2. CASE ~(m.num_files[l] = 0 \/ m.head[l] = Nil)
  <2> DEFINE a == Access(m, {n} \cup {w[k] : k \in trail})
  <2>1. a \in MemType /\ SameNodes(m, a)
    BY AccessFacts
  <2>2. last \in Nodes
    <3>1. n \in 1 .. MaxRequests /\ 1 \in Nodes
      BY DEF Nodes
    <3>2. trail \in SUBSET Nodes /\ trail # {}
      BY <1>2, <3>1, WalkFacts
    <3>3. Max(trail) \in trail
      <4> HIDE DEF trail
      <4> QED
        BY <3>2, MinMax
    <3>4. Max(trail) \in 1 .. (MaxRequests + 1) /\ last # Nil
      BY <3>3, Constants
    <3>5. last \in Ptrs
      BY <3>4, WalkFacts
    <3> QED
      BY <3>4, <3>5, Constants
  <2>3. Enqueue(m, l, n) = [a EXCEPT !.prev[n] = last, !.next[last] = n, !.next[n] = Nil,
                                     !.num_files[l] = @ + 1]
    BY <1>2 DEF Enqueue
  <2> HIDE DEF a, last
  <2>4. Enqueue(m, l, n) =
            [head |-> a.head, num_files |-> [a.num_files EXCEPT ![l] = @ + 1],
             next |-> [[a.next EXCEPT ![last] = n] EXCEPT ![n] = Nil], prev |-> [a.prev EXCEPT ![n] = last],
             name |-> a.name, live |-> a.live,
             allocated |-> a.allocated, fault |-> a.fault]
    BY <2>1, <2>3 DEF MemType
  <2>5. ListTypes(a.head, [a.num_files EXCEPT ![l] = @ + 1],
                  [[a.next EXCEPT ![last] = n] EXCEPT ![n] = Nil], [a.prev EXCEPT ![n] = last])
    <3> DEFINE x == [a.next EXCEPT ![last] = n]
    <3>1. x \in [Nodes -> Ptrs]
      BY <2>1, <2>2, Constants DEF MemType
    <3> HIDE DEF x
    <3>2. [x EXCEPT ![n] = Nil] \in [Nodes -> Ptrs]
      BY <3>1, Constants
    <3>3. [a.prev EXCEPT ![n] = last] \in [Nodes -> Ptrs]
      BY <2>1, <2>2, Constants DEF MemType
    <3>4. a.head \in [Lists -> Ptrs] /\ [a.num_files EXCEPT ![l] = @ + 1] \in [Lists -> Int]
      BY <2>1 DEF MemType
    <3> QED
      BY <3>2, <3>3, <3>4 DEF ListTypes, x
  <2>6. Enqueue(m, l, n) \in MemType /\ SameNodes(a, Enqueue(m, l, n))
    BY <2>1, <2>4, <2>5, MemRecord
  <2> QED
    BY <2>1, <2>6 DEF SameNodes
<1> QED
  BY <1>1, <1>2

LEMMA UnlinkType ==
  ASSUME NEW m \in MemType, NEW l \in Lists, NEW curr \in Nodes
  PROVE  Unlink(m, l, curr) \in MemType /\ SameNodes(m, Unlink(m, l, curr))
<1> DEFINE p   == m.prev[curr]
           x   == m.next[curr]
           top == curr = m.head[l] \/ p = Nil
           m1  == Access(m, ({x} \cup IF top THEN {} ELSE {p}) \ {Nil})
           m2  == IF top THEN [m1 EXCEPT !.head[l] = x] ELSE [m1 EXCEPT !.next[p] = x]
           m3  == IF x = Nil THEN m2 ELSE [m2 EXCEPT !.prev[x] = IF top THEN Nil ELSE p]
<1>1. m1 \in MemType /\ SameNodes(m, m1)
  BY AccessFacts
<1>2. x \in Ptrs /\ p \in Ptrs /\ (~top => p \in Nodes)
  BY Constants DEF MemType
<1>3. m2 \in MemType /\ SameNodes(m, m2)
  <2> HIDE DEF m1, x, p
  <2> QED
    BY <1>1, <1>2 DEF MemType, SameNodes
<1>4. m3 \in MemType /\ SameNodes(m, m3)
  <2> HIDE DEF m2, x, p
  <2> QED
    BY <1>2, <1>3, Constants DEF MemType, SameNodes
<1>5. Unlink(m, l, curr) =
         [m3 EXCEPT !.prev[curr] = Nil, !.next[curr] = Nil, !.num_files[l] = @ - 1]
  BY DEF Unlink
<1> HIDE DEF m3
<1>6. Unlink(m, l, curr) =
          [head |-> m3.head, num_files |-> [m3.num_files EXCEPT ![l] = @ - 1],
             next |-> [m3.next EXCEPT ![curr] = Nil], prev |-> [m3.prev EXCEPT ![curr] = Nil],
             name |-> m3.name, live |-> m3.live,
             allocated |-> m3.allocated, fault |-> m3.fault]
  BY <1>4, <1>5 DEF MemType
<1>7. ListTypes(m3.head, [m3.num_files EXCEPT ![l] = @ - 1],
                [m3.next EXCEPT ![curr] = Nil], [m3.prev EXCEPT ![curr] = Nil])
  BY <1>4, Constants DEF MemType, ListTypes
<1>8. Unlink(m, l, curr) \in MemType /\ SameNodes(m3, Unlink(m, l, curr))
  BY <1>4, <1>6, <1>7, MemRecord
<1> QED
  BY <1>4, <1>8 DEF SameNodes

\* A search finds a node that has the name, among the first n, or nothing.
LEMMA FoundFacts ==
  ASSUME NEW m \in MemType, NEW l \in Lists, NEW f \in Files, NEW n \in Int,
         NEW at, at = FoundAt(m, Walk(m, l), f, n), at # {}
  PROVE  LET p == Walk(m, l)[Min(at)]
         IN  p \in Nodes /\ p \in m.live /\ m.name[p] = f
<1>1. at \in SUBSET Nodes
  BY DEF FoundAt, Steps
<1>2. Min(at) \in at
  BY <1>1, MinMax
<1> QED
  BY <1>2 DEF FoundAt, MemType

LEMMA PopType ==
  ASSUME NEW m \in MemType, NEW l \in Lists, NEW f \in Files
  PROVE  Pop(m, l, f) \in MemType /\ SameNodes(m, Pop(m, l, f))
<1> DEFINE w  == Walk(m, l)
           at == FoundAt(m, w, f, MaxRequests)
           m1 == Searched(m, w, f, MaxRequests)
<1>1. m1 \in MemType /\ SameNodes(m, m1)
  BY AccessFacts DEF Searched
<1>2. CASE at = {}
  <2>1. Pop(m, l, f) = m \/ Pop(m, l, f) = m1
    BY <1>2 DEF Pop
  <2> QED
    BY <1>1, <2>1 DEF SameNodes
<1>3. CASE at # {}
  <2> DEFINE curr == w[Min(at)]
  <2>1. curr \in Nodes
    BY <1>3, FoundFacts, Constants
  <2>2. Unlink(m1, l, curr) \in MemType /\ SameNodes(m1, Unlink(m1, l, curr))
    <3> HIDE DEF m1, curr
    <3> QED
      BY <1>1, <2>1, UnlinkType
  <2>3. Pop(m, l, f) = m \/ Pop(m, l, f) = Unlink(m1, l, curr)
    BY <1>3 DEF Pop
  <2> QED
    BY <1>1, <2>2, <2>3 DEF SameNodes
<1> QED
  BY <1>2, <1>3

LEMMA SearchType ==
  ASSUME NEW m \in MemType, NEW l \in Lists, NEW f \in Files
  PROVE  LET s == Search(m, l, f)
         IN  /\ s.mem \in MemType /\ SameNodes(m, s.mem)
             /\ s.node \in Ptrs
             /\ s.node # Nil => s.node \in m.live /\ m.name[s.node] = f
<1> DEFINE w  == Walk(m, l)
           at == FoundAt(m, w, f, m.num_files[l])
           m1 == Searched(m, w, f, m.num_files[l])
<1>1. m1 \in MemType /\ SameNodes(m, m1)
  BY AccessFacts DEF Searched
<1>2. Search(m, l, f) = [node |-> IF at = {} THEN Nil ELSE w[Min(at)], mem |-> m1]
  BY DEF Search, Searchable
<1>3. m.num_files[l] \in Int
  BY DEF MemType
<1>4. at # {} => w[Min(at)] \in Nodes /\ w[Min(at)] \in m.live /\ m.name[w[Min(at)]] = f
  BY <1>3, FoundFacts
<1> HIDE DEF w, at, m1
<1> QED
  BY <1>1, <1>2, <1>4, Constants

-----------------------------------------------------------------------------
(* cache_evict. *)

EvictType ==
    [mem : MemType, hand : 0 .. (Buckets - 1), open : BOOLEAN, left : Int,
     got : Nat, result : {"none", "fail", "ok"}]

\* An eviction from memory m: what it freed is what it says it got, and it
\* succeeds only if that is enough.
Evictions(m, amount) ==
    {e \in EvictType :
        /\ e.mem.live \subseteq m.live
        /\ e.mem.name = m.name /\ e.mem.allocated = m.allocated
        /\ Total(m.name, e.mem.live) + e.got = Total(m.name, m.live)
        /\ e.result = "ok" => e.got >= amount}

EvictParts(m, amount, mm, h, o, l, g, r) ==
    /\ mm \in MemType /\ h \in 0 .. (Buckets - 1) /\ o \in BOOLEAN /\ l \in Int /\ g \in Nat
    /\ r \in {"none", "fail", "ok"}
    /\ mm.live \subseteq m.live /\ mm.name = m.name /\ mm.allocated = m.allocated
    /\ Total(m.name, mm.live) + g = Total(m.name, m.live)
    /\ r = "ok" => g >= amount

LEMMA EvictRecord ==
  ASSUME NEW m, NEW amount, NEW mm, NEW h, NEW o, NEW l, NEW g, NEW r,
         EvictParts(m, amount, mm, h, o, l, g, r),
         NEW e, e = [mem |-> mm, hand |-> h, open |-> o, left |-> l, got |-> g, result |-> r]
  PROVE  e \in Evictions(m, amount)
BY DEF EvictParts, Evictions, EvictType

\* One round over the file at the head of the bucket under the hand.
LEMMA EvictHeadKeeps ==
  ASSUME NEW m \in MemType, NEW amount \in Int, NEW e \in Evictions(m, amount)
  PROVE  EvictHead(e, amount) \in Evictions(m, amount)
<1> DEFINE c   == e.mem.head[e.hand]
           m1  == Access(e.mem, {c})
           m2  == Pop(m1, e.hand, m1.name[c])
           use == Search(m2, UsingRn, m1.name[c])
           got == e.got + Size[m1.name[c]]
<1>1. /\ e \in EvictType /\ e.mem \in MemType
      /\ e.mem.live \subseteq m.live /\ e.mem.name = m.name /\ e.mem.allocated = m.allocated
      /\ Total(m.name, e.mem.live) + e.got = Total(m.name, m.live)
      /\ e.result = "ok" => e.got >= amount
  BY DEF Evictions, EvictType
<1>0. /\ e.got \in Nat /\ e.left \in Int /\ e.hand \in 0 .. (Buckets - 1) /\ e.open \in BOOLEAN
      /\ e.result \in {"none", "fail", "ok"}
  BY DEF Evictions, EvictType
<1>r. e = [mem |-> e.mem, hand |-> e.hand, open |-> e.open, left |-> e.left,
           got |-> e.got, result |-> e.result]
  BY DEF Evictions, EvictType
<1>2. e.hand \in Lists /\ UsingRn \in Lists
  BY <1>0 DEF Lists
<1>3. CASE c \notin e.mem.live
  <2>1. EvictHead(e, amount) = [e EXCEPT !.mem.fault = TRUE]
    BY <1>3 DEF EvictHead
  <2>2. [e.mem EXCEPT !.fault = TRUE] \in MemType
    BY <1>1 DEF MemType
  <2>3. EvictHead(e, amount) =
           [mem |-> [e.mem EXCEPT !.fault = TRUE], hand |-> e.hand, open |-> e.open,
            left |-> e.left, got |-> e.got, result |-> e.result]
    BY <2>1, <1>r
  <2>4. /\ [e.mem EXCEPT !.fault = TRUE].live = e.mem.live
        /\ [e.mem EXCEPT !.fault = TRUE].name = e.mem.name
        /\ [e.mem EXCEPT !.fault = TRUE].allocated = e.mem.allocated
    BY <1>1 DEF MemType
  <2> DEFINE mm == [e.mem EXCEPT !.fault = TRUE]
  <2> HIDE DEF mm
  <2>5. EvictParts(m, amount, mm, e.hand, e.open, e.left, e.got, e.result)
    BY <1>1, <1>0, <2>2, <2>4 DEF EvictParts, mm
  <2> QED
    BY <2>3, <2>5, EvictRecord DEF mm
<1>4. CASE c \in e.mem.live
  <2>1. c \in Nodes
    BY <1>1, <1>4 DEF MemType
  <2> HIDE DEF c
  <2>2. m1 \in MemType /\ SameNodes(e.mem, m1) /\ m1.name[c] \in Files
    <3>1. m1 \in MemType /\ SameNodes(e.mem, m1)
      BY <1>1, AccessFacts
    <3> QED
      BY <2>1, <3>1 DEF MemType
  <2>3. m2 \in MemType /\ SameNodes(m1, m2)
    <3> HIDE DEF m1
    <3> QED
      BY <1>2, <2>2, PopType
  <2>4. use.mem \in MemType /\ SameNodes(m2, use.mem)
    <3> HIDE DEF m1, m2
    <3> QED
      BY <1>2, <2>2, <2>3, SearchType
  <2>5. SameNodes(e.mem, use.mem) /\ m1.name = m.name
    BY <1>1, <2>2, <2>3, <2>4 DEF SameNodes
  <2>6. CASE use.node # Nil
    <3> DEFINE mm == Enqueue(use.mem, e.hand, c)
    <3>1. EvictHead(e, amount) = [e EXCEPT !.mem = mm, !.left = @ - 1]
      BY <1>4, <2>6 DEF EvictHead, c
    <3>2. mm \in MemType /\ SameNodes(use.mem, mm)
      <4> HIDE DEF use
      <4> QED
        BY <1>2, <2>1, <2>4, EnqueueType
    <3>3. SameNodes(e.mem, mm)
      <4> HIDE DEF use, mm
      <4> QED
        BY <2>5, <3>2 DEF SameNodes
    <3> HIDE DEF mm
    <3>4. EvictHead(e, amount) =
             [mem |-> mm, hand |-> e.hand, open |-> e.open, left |-> e.left - 1,
              got |-> e.got, result |-> e.result]
      BY <1>r, <3>1
    <3>5. e.left - 1 \in Int
      BY <1>0
    <3>6. EvictParts(m, amount, mm, e.hand, e.open, e.left - 1, e.got, e.result)
      BY <1>1, <1>0, <3>2, <3>3, <3>5 DEF EvictParts, SameNodes
    <3> QED
      BY <3>4, <3>6, EvictRecord
  <2>7. CASE use.node = Nil
    <3> DEFINE mm == [use.mem EXCEPT !.live = @ \ {c}]
               r  == IF got >= amount THEN "ok" ELSE e.result
    <3>1. EvictHead(e, amount) = [e EXCEPT !.mem = mm, !.left = @ - 1, !.got = got, !.result = r]
      BY <1>4, <2>7 DEF EvictHead, c
    <3>2. mm \in MemType /\ mm.live = e.mem.live \ {c}
          /\ mm.name = e.mem.name /\ mm.allocated = e.mem.allocated
      <4> HIDE DEF use
      <4> QED
        BY <2>4, <2>5 DEF MemType, SameNodes
    <3>3. got \in Nat /\ got = e.got + Size[m.name[c]]
      <4> HIDE DEF m1
      <4>1. Size[m1.name[c]] \in Nat
        BY <2>2, Constants
      <4>2. m1.name = m.name
        BY <2>5
      <4>3. e.got \in Nat
        BY <1>0
      <4>4. got = e.got + Size[m.name[c]]
        BY <4>2
      <4>5. Size[m.name[c]] \in Nat
        BY <4>1, <4>2
      <4> HIDE DEF got
      <4> QED
        BY <4>3, <4>4, <4>5
    <3>4. Total(m.name, mm.live) + got = Total(m.name, m.live)
      <4>1. m.name \in [Nodes -> Files] /\ e.mem.live \in SUBSET Nodes /\ mm.live \in SUBSET Nodes
        BY <1>1, <3>2 DEF MemType
      <4>2. Total(m.name, e.mem.live) = Total(m.name, e.mem.live \ {c}) + Size[m.name[c]]
        BY <1>4, <4>1, TotalFacts
      <4>3. Total(m.name, mm.live) \in Nat /\ Size[m.name[c]] \in Nat
        BY <2>1, <4>1, TotalFacts, Constants
      <4> HIDE DEF mm, got
      <4> QED
        BY <1>0, <1>1, <3>2, <3>3, <4>2, <4>3
    <3>5. r \in {"none", "fail", "ok"} /\ (r = "ok" => got >= amount)
      <4> HIDE DEF use, m1
      <4>1. Size[m1.name[c]] \in Nat
        BY <2>2, Constants
      <4> QED
        BY <1>0, <1>1, <4>1
    <3> HIDE DEF mm, got, r
    <3>6. EvictHead(e, amount) =
             [mem |-> mm, hand |-> e.hand, open |-> e.open, left |-> e.left - 1,
              got |-> got, result |-> r]
      BY <1>r, <3>1
    <3>7. e.left - 1 \in Int /\ mm.live \subseteq m.live
      BY <1>0, <1>1, <3>2
    <3>8. EvictParts(m, amount, mm, e.hand, e.open, e.left - 1, got, r)
      BY <1>0, <1>1, <3>2, <3>3, <3>4, <3>5, <3>7 DEF EvictParts
    <3> QED
      BY <3>6, <3>8, EvictRecord
  <2> QED
    BY <2>6, <2>7
<1> QED
  BY <1>3, <1>4

\* One turn of cache_evict.
LEMMA EvictTurnKeeps ==
  ASSUME NEW m \in MemType, NEW amount \in Int, NEW e \in Evictions(m, amount)
  PROVE  EvictTurn(e, amount) \in Evictions(m, amount)
<1>0. /\ e.mem \in MemType /\ e.hand \in 0 .. (Buckets - 1) /\ e.open \in BOOLEAN /\ e.left \in Int
      /\ e.got \in Nat /\ e.result \in {"none", "fail", "ok"}
  BY DEF Evictions, EvictType
<1>1. e.mem.live \subseteq m.live /\ e.mem.name = m.name /\ e.mem.allocated = m.allocated
  BY DEF Evictions
<1>2. /\ Total(m.name, e.mem.live) + e.got = Total(m.name, m.live)
      /\ e.result = "ok" => e.got >= amount
  BY DEF Evictions
<1>r. e = [mem |-> e.mem, hand |-> e.hand, open |-> e.open, left |-> e.left,
           got |-> e.got, result |-> e.result]
  BY DEF Evictions, EvictType
<1>3. CASE EvictDone(e)
  BY <1>3 DEF EvictTurn
<1>4. CASE ~EvictDone(e) /\ ~e.open
  <2> DEFINE h == e.mem.head[e.hand]
  <2>1. CASE h = Nil
    <3>1. EvictTurn(e, amount) = [e EXCEPT !.result = "fail"]
      BY <1>4, <2>1 DEF EvictTurn, OpenBucket
    <3>2. EvictTurn(e, amount) =
             [mem |-> e.mem, hand |-> e.hand, open |-> e.open, left |-> e.left,
              got |-> e.got, result |-> "fail"]
      BY <1>r, <3>1
    <3>3. EvictParts(m, amount, e.mem, e.hand, e.open, e.left, e.got, "fail")
      BY <1>0, <1>1, <1>2 DEF EvictParts
    <3> QED
      BY <3>2, <3>3, EvictRecord
  <2>2. CASE h # Nil
    <3> DEFINE mm == Access(e.mem, {h})
               l  == e.mem.num_files[e.hand]
    <3>1. EvictTurn(e, amount) = [e EXCEPT !.mem = mm, !.left = l, !.open = TRUE]
      BY <1>4, <2>2 DEF EvictTurn, OpenBucket
    <3>2. EvictTurn(e, amount) =
             [mem |-> mm, hand |-> e.hand, open |-> TRUE, left |-> l,
              got |-> e.got, result |-> e.result]
      <4> HIDE DEF mm, l, h
      <4> QED
        BY <1>r, <3>1
    <3>3. mm \in MemType /\ SameNodes(e.mem, mm)
      BY <1>0, AccessFacts
    <3>4. l \in Int
      BY <1>0 DEF MemType, Lists
    <3> HIDE DEF mm, l, h
    <3>5. EvictParts(m, amount, mm, e.hand, TRUE, l, e.got, e.result)
      BY <1>0, <1>1, <1>2, <3>3, <3>4 DEF EvictParts, SameNodes
    <3> QED
      BY <3>2, <3>5, EvictRecord
  <2> QED
    BY <2>1, <2>2
<1>5. CASE ~EvictDone(e) /\ e.open /\ e.left <= 0
  <2> DEFINE h == (e.hand + 1) % Buckets
  <2>1. EvictTurn(e, amount) = [e EXCEPT !.open = FALSE, !.hand = h]
    BY <1>5 DEF EvictTurn, NextBucket
  <2>2. EvictTurn(e, amount) =
           [mem |-> e.mem, hand |-> h, open |-> FALSE, left |-> e.left,
            got |-> e.got, result |-> e.result]
    <3> HIDE DEF h
    <3> QED
      BY <1>r, <2>1
  <2>3. h \in 0 .. (Buckets - 1)
    BY <1>0, Constants
  <2> HIDE DEF h
  <2>4. EvictParts(m, amount, e.mem, h, FALSE, e.left, e.got, e.result)
    BY <1>0, <1>1, <1>2, <2>3 DEF EvictParts
  <2> QED
    BY <2>2, <2>4, EvictRecord
<1>6. CASE ~EvictDone(e) /\ e.open /\ ~(e.left <= 0)
  <2>1. EvictTurn(e, amount) = EvictHead(e, amount)
    BY <1>6 DEF EvictTurn
  <2> QED
    BY <2>1, EvictHeadKeeps
<1> QED
  BY <1>3, <1>4, <1>5, <1>6

\* The turns of an eviction in V, one after the other, up to the last.
TurnsOf(u, V, amount, start, last) ==
    /\ u[0] = start
    /\ \A k \in 1 .. EvictTurns : u[k] = EvictTurn(u[k - 1], amount)
    /\ \A k \in 0 .. EvictTurns : u[k] \in V
    /\ last = u[EvictTurns]

LEMMA EvictSequence ==
  ASSUME NEW V, NEW m, NEW h, NEW amount, NEW start, start \in V,
         start = [mem |-> m, hand |-> h, open |-> FALSE, left |-> 0, got |-> 0,
                  result |-> IF amount > conf.max_cache_size THEN "fail" ELSE "none"],
         \A e \in V : EvictTurn(e, amount) \in V
  PROVE  \E u : TurnsOf(u, V, amount, start, Evict(m, h, amount))
<1> DEFINE Is(f) == f = [k \in 0 .. EvictTurns |->
                           IF k = 0 THEN start ELSE EvictTurn(f[k - 1], amount)]
           D == [e \in V |-> EvictTurn(e, amount)]
<1>1. EvictTurns \in Nat
  BY Constants DEF EvictTurns
<1>2. start \in V
  OBVIOUS
<1>3. \A e \in V : D[e] \in V
  OBVIOUS
<1>4. PICK u : u[0] = start /\ \A k \in 1 .. EvictTurns : u[k] = D[u[k - 1]]
  <2> HIDE DEF D
  <2>1. \E u : Iterates(u, start, D, EvictTurns)
    BY <1>1, <1>2, <1>3, Iteration
  <2> QED
    BY <2>1 DEF Iterates
<1>5. \A k \in 0 .. EvictTurns : u[k] \in V
  <2>1. \A k \in 1 .. EvictTurns : u[k - 1] \in V => u[k] \in V
    BY <1>3, <1>4
  <2> QED
    BY <1>1, <1>2, <1>4, <2>1, StaysIn
<1>6. Is([k \in 0 .. EvictTurns |-> u[k]])
  <2>1. ASSUME NEW k \in 1 .. EvictTurns PROVE u[k] = EvictTurn(u[k - 1], amount)
    <3>1. k - 1 \in 0 .. EvictTurns
      BY <1>1
    <3> QED
      BY <1>4, <1>5, <3>1
  <2>2. \A k \in 0 .. EvictTurns : k # 0 => k \in 1 .. EvictTurns /\ k - 1 \in 0 .. EvictTurns
    BY <1>1
  <2> QED
    BY <1>4, <2>1, <2>2
<1> DEFINE f == CHOOSE g : Is(g)
<1>7. Is(f)
  <2> HIDE DEF Is
  <2> QED
    BY <1>6
<1>8. Evict(m, h, amount) = f[EvictTurns]
  BY DEF Evict
<1>9. f[0] = start
  <2> HIDE DEF f
  <2> QED
    BY <1>1, <1>7
<1>10. ASSUME NEW k \in 1 .. EvictTurns PROVE f[k] = EvictTurn(f[k - 1], amount)
  <2> HIDE DEF f
  <2>1. k \in 0 .. EvictTurns /\ k # 0
    BY <1>1
  <2> QED
    BY <1>7, <2>1
<1>11. \A k \in 0 .. EvictTurns : f[k] \in V
  <2> HIDE DEF f
  <2>1. \A k \in 1 .. EvictTurns : f[k - 1] \in V => f[k] \in V
    BY <1>10
  <2>2. f[0] \in V
    BY <1>2, <1>9
  <2> QED
    BY <1>1, <2>1, <2>2, StaysIn
<1> QED
  <2> HIDE DEF f
  <2> QED
    BY <1>8, <1>9, <1>10, <1>11 DEF TurnsOf

\* What every turn keeps holds at the end of the eviction.
LEMMA EvictInduction ==
  ASSUME NEW V, NEW m, NEW h, NEW amount,
         [mem |-> m, hand |-> h, open |-> FALSE, left |-> 0, got |-> 0,
          result |-> IF amount > conf.max_cache_size THEN "fail" ELSE "none"] \in V,
         \A e \in V : EvictTurn(e, amount) \in V
  PROVE  Evict(m, h, amount) \in V
<1>1. EvictTurns \in Nat
  BY Constants DEF EvictTurns
<1>2. EvictTurns \in 0 .. EvictTurns
  BY <1>1
<1> QED
  <2> DEFINE start == [mem |-> m, hand |-> h, open |-> FALSE, left |-> 0, got |-> 0,
                       result |-> IF amount > conf.max_cache_size THEN "fail" ELSE "none"]
  <2>1. start \in V
    OBVIOUS
  <2>2. PICK u : TurnsOf(u, V, amount, start, Evict(m, h, amount))
    <3>1. start = [mem |-> m, hand |-> h, open |-> FALSE, left |-> 0, got |-> 0,
                   result |-> IF amount > conf.max_cache_size THEN "fail" ELSE "none"]
      OBVIOUS
    <3> HIDE DEF start
    <3> QED
      BY <2>1, <3>1, EvictSequence
  <2> HIDE DEF start
  <2> QED
    BY <1>2, <2>2 DEF TurnsOf

LEMMA EvictFacts ==
  ASSUME NEW m \in MemType, NEW h \in 0 .. (Buckets - 1), NEW amount \in Int
  PROVE  Evict(m, h, amount) \in Evictions(m, amount)
<1> DEFINE r == IF amount > conf.max_cache_size THEN "fail" ELSE "none"
           start == [mem |-> m, hand |-> h, open |-> FALSE, left |-> 0, got |-> 0, result |-> r]
<1>1. r \in {"none", "fail"}
  OBVIOUS
<1> HIDE DEF r
<1>2. m.name \in [Nodes -> Files] /\ m.live \in SUBSET Nodes
  BY DEF MemType
<1>3. Total(m.name, m.live) \in Nat
  BY <1>2, TotalFacts
<1>4. EvictParts(m, amount, m, h, FALSE, 0, 0, r)
  BY <1>1, <1>3 DEF EvictParts
<1>5. start \in Evictions(m, amount)
  BY <1>4, EvictRecord
<1>6. \A e \in Evictions(m, amount) : EvictTurn(e, amount) \in Evictions(m, amount)
  BY EvictTurnKeeps
<1> QED
  BY <1>5, <1>6, EvictInduction DEF r

\* The file that cache_insert puts into memory.
LEMMA LinkFacts ==
  ASSUME conf \in ConfType,
         NEW m \in MemType, NEW f \in Files, m.allocated < MaxRequests,
         m.live \subseteq 1 .. m.allocated
  PROVE  LET n == m.allocated + 1
             r == Link(m, f)
         IN  /\ n \in Nodes /\ n \notin m.live
             /\ r \in MemType
             /\ r.live = m.live \cup {n} /\ r.name = [m.name EXCEPT ![n] = f] /\ r.allocated = n
             /\ r.live \subseteq 1 .. r.allocated
             /\ Total(r.name, r.live) = Total(m.name, m.live) + Size[f]
<1> DEFINE n == m.allocated + 1
           a == [m EXCEPT !.allocated = n, !.live = @ \cup {n}, !.name[n] = f]
           r == Link(m, f)
<1>1. m.allocated \in 0 .. MaxRequests /\ m.name \in [Nodes -> Files] /\ m.live \in SUBSET Nodes
  BY DEF MemType
<1>2. n \in Nodes /\ n \notin m.live /\ n \in 0 .. MaxRequests
  BY <1>1, Constants
<1> HIDE DEF n
<1>3. a \in MemType /\ a.live = m.live \cup {n} /\ a.name = [m.name EXCEPT ![n] = f] /\ a.allocated = n
  BY <1>2 DEF MemType
<1>4. conf.hash[f] \in Lists
  BY DEF ConfType, Lists
<1>5. r \in MemType /\ SameNodes(a, r)
  <2>1. r = Enqueue(a, conf.hash[f], n)
    BY DEF Link, n
  <2> HIDE DEF a
  <2> QED
    BY <1>2, <1>3, <1>4, <2>1, EnqueueType
<1>6. r.live = m.live \cup {n} /\ r.name = [m.name EXCEPT ![n] = f] /\ r.allocated = n
  <2> HIDE DEF a
  <2> QED
    BY <1>3, <1>5 DEF SameNodes
<1>7. r.live \subseteq 1 .. r.allocated
  BY <1>1, <1>6 DEF n
<1>8. Total(r.name, r.live) = Total(m.name, m.live) + Size[f]
  <2> DEFINE nm == [m.name EXCEPT ![n] = f]
             lv == m.live \cup {n}
  <2>1. nm \in [Nodes -> Files] /\ lv \in SUBSET Nodes /\ n \in lv /\ nm[n] = f
    BY <1>1, <1>2
  <2>2. lv \ {n} = m.live /\ \A k \in m.live : nm[k] = m.name[k]
    BY <1>1, <1>2
  <2> HIDE DEF nm, lv
  <2>3. Total(nm, lv) = Total(nm, lv \ {n}) + Size[nm[n]]
    BY <2>1, TotalFacts
  <2>4. Total(nm, m.live) = Total(m.name, m.live)
    BY <1>1, <2>1, <2>2, TotalFacts
  <2> QED
    BY <1>6, <2>1, <2>2, <2>3, <2>4 DEF nm, lv
<1> QED
  BY <1>2, <1>5, <1>6, <1>7, <1>8 DEF n

-----------------------------------------------------------------------------
(* Types, and the size of the cache. *)

Busy == {t \in Threads : pc[t] # "idle"}

CacheInv ==
    /\ TypeOK
    /\ Bytes(mem.live) <= cache_size /\ cache_size <= conf.max_cache_size
    /\ mem.live \subseteq 1 .. mem.allocated
    /\ mem.allocated + Cardinality(Busy) <= requests
    /\ \A t \in Threads : pc[t] \in {"pin", "copy", "unpin"} => node[t] # Nil

LEMMA BytesIs == \A ns : Bytes(ns) = Total(mem.name, ns)
  BY DEF Bytes, Total

LEMMA BytesNow == Bytes(mem.live) = Total(mem.name, mem.live)
  BY BytesIs

LEMMA BytesThen == Bytes(mem.live)' = Total(mem'.name, mem'.live)
<1>1. (Bytes(mem.live) = Total(mem.name, mem.live))'
  BY BytesNow, PTL
<1> QED
  BY <1>1

LEMMA ConfFacts ==
  ASSUME conf \in Confs
  PROVE  /\ conf \in ConfType /\ conf.threads \in Nat /\ conf.threads > 0
         /\ conf.hash \in [Files -> 0 .. (Buckets - 1)]
         /\ conf.max_cache_size \in Nat /\ conf.max_cache_size > 0
         /\ IsFiniteSet(Threads) /\ Threads = 1 .. conf.threads
         /\ \A T \in SUBSET Threads : IsFiniteSet(T) /\ Cardinality(T) \in Nat
<1>1. conf \in ConfType
  OBVIOUS
<1>2. conf.threads \in Nat
  BY <1>1 DEF ConfType
<1>3. IsFiniteSet(Threads)
  BY <1>2, FS_Interval DEF Threads
<1>4. \A T \in SUBSET Threads : IsFiniteSet(T) /\ Cardinality(T) \in Nat
  BY <1>3, FS_Subset, FS_CardinalityType
<1> QED
  BY <1>1, <1>2, <1>3, <1>4 DEF ConfType, Threads

\* How many threads are busy after t goes to l.
LEMMA BusyFacts ==
  ASSUME TypeOK, NEW t \in Threads, NEW l \in Locations, Goto(t, l), UNCHANGED conf
  PROVE  /\ Cardinality(Busy) \in Nat /\ Cardinality(Busy') \in Nat
         /\ pc' \in [Threads' -> Locations] /\ Threads' = Threads
         /\ pc[t] = "idle" => Cardinality(Busy') <= Cardinality(Busy) + 1
         /\ pc[t] # "idle" => Cardinality(Busy') <= Cardinality(Busy)
         /\ pc[t] # "idle" /\ l = "idle" => Cardinality(Busy') = Cardinality(Busy) - 1
<1>1. Threads' = Threads
  BY DEF Threads
<1>2. conf \in Confs /\ pc \in [Threads -> Locations]
  BY DEF TypeOK
<1>3. pc' \in [Threads' -> Locations]
  BY <1>1, <1>2 DEF Goto
<1>4. Busy \in SUBSET Threads /\ IsFiniteSet(Busy) /\ Cardinality(Busy) \in Nat
  BY <1>2, ConfFacts DEF Busy
<1>5. Busy' \subseteq Threads
  BY <1>1 DEF Busy
<1>6. IsFiniteSet(Busy') /\ Cardinality(Busy') \in Nat
  BY <1>2, <1>5, ConfFacts
<1>7. ASSUME pc[t] = "idle" PROVE Cardinality(Busy') <= Cardinality(Busy) + 1
  <2>1. Busy' \subseteq Busy \cup {t}
    BY <1>1, <1>2 DEF Busy, Goto
  <2>2. IsFiniteSet(Busy \cup {t}) /\ Cardinality(Busy \cup {t}) <= Cardinality(Busy) + 1
    <3>1. t \notin Busy
      BY <1>7 DEF Busy
    <3>2. IsFiniteSet(Busy \cup {t}) /\ Cardinality(Busy \cup {t}) = Cardinality(Busy) + 1
      BY <1>4, <3>1, FS_AddElement
    <3> QED
      BY <1>4, <3>2
  <2>3. Cardinality(Busy') <= Cardinality(Busy \cup {t})
    BY <2>1, <2>2, FS_Subset
  <2>4. Cardinality(Busy \cup {t}) \in Nat
    BY <2>2, FS_CardinalityType
  <2> QED
    BY <1>4, <1>6, <2>2, <2>3, <2>4
<1>8. ASSUME pc[t] # "idle" PROVE Cardinality(Busy') <= Cardinality(Busy)
  <2>1. Busy' \in SUBSET Busy
    BY <1>1, <1>2, <1>8 DEF Busy, Goto
  <2> QED
    BY <1>4, <2>1, FS_Subset
<1>9. ASSUME pc[t] # "idle", l = "idle" PROVE Cardinality(Busy') = Cardinality(Busy) - 1
  <2>1. t \in Busy /\ Busy' = Busy \ {t}
    BY <1>1, <1>2, <1>9 DEF Busy, Goto
  <2> QED
    BY <1>4, <2>1, FS_RemoveElement
<1> QED
  BY <1>1, <1>3, <1>4, <1>6, <1>7, <1>8, <1>9

LEMMA InitCache == Init => CacheInv
<1> SUFFICES ASSUME Init PROVE CacheInv
  OBVIOUS
<1>0. conf \in Confs /\ (CHOOSE f \in Files : TRUE) \in Files
  BY DEF Init
<1>1. mem \in MemType /\ mem.live = {} /\ mem.allocated = 0
  <2>1. Nil \in Ptrs /\ 0 \in Int /\ 0 \in 0 .. MaxRequests
    BY Constants
  <2> HIDE CacheAssumption
  <2> QED
    BY <1>0, <2>1 DEF Init, MemType
<1>2. TypeOK
  <2>1. hand \in 0 .. (Buckets - 1) /\ requests \in 0 .. MaxRequests /\ cache_size \in Nat
    BY Constants DEF Init
  <2>2. pc \in [Threads -> Locations] /\ file \in [Threads -> Files] /\ node \in [Threads -> Ptrs]
    BY <1>0, Constants DEF Init, Locations
  <2> QED
    BY <1>0, <1>1, <2>1, <2>2 DEF TypeOK
<1>3. Bytes(mem.live) = 0
  <2>1. mem.name \in [Nodes -> Files]
    BY <1>1 DEF MemType
  <2>2. Total(mem.name, {}) = 0
    BY <2>1, TotalFacts
  <2> QED
    BY <1>1, <2>2, BytesIs
<1>4. Cardinality(Busy) = 0
  <2>1. Busy = {}
    BY DEF Busy, Init
  <2> QED
    BY <2>1, FS_EmptySet
<1>5. cache_size = 0 /\ requests = 0 /\ \A t \in Threads : pc[t] = "idle"
  BY DEF Init
<1>6. cache_size <= conf.max_cache_size
  BY <1>0, <1>5, ConfFacts
<1>7. mem.allocated + Cardinality(Busy) <= requests /\ Bytes(mem.live) <= cache_size
  BY <1>1, <1>3, <1>4, <1>5
<1>8. mem.live \subseteq 1 .. mem.allocated
  BY <1>1
<1>9. \A t \in Threads : pc[t] \in {"pin", "copy", "unpin"} => node[t] # Nil
  BY <1>5
<1> QED
  BY <1>2, <1>6, <1>7, <1>8, <1>9 DEF CacheInv

\* A step that leaves the files in memory and cache_size alone.
LEMMA SameFiles ==
  ASSUME CacheInv, NEW t \in Threads, NEW l \in Locations, Goto(t, l),
         UNCHANGED <<conf, hand, cache_size>>,
         mem' \in MemType, SameNodes(mem, mem'),
         \/ requests' = requests /\ pc[t] # "idle"
         \/ requests' = requests + 1 /\ requests < MaxRequests /\ pc[t] = "idle",
         file' \in [Threads -> Files], node' \in [Threads -> Ptrs],
         \A s \in Threads : s # t => node'[s] = node[s],
         l \in {"pin", "copy", "unpin"} => node'[t] # Nil
  PROVE  CacheInv'
<1>1. TypeOK
  BY DEF CacheInv
<1>2. Threads' = Threads /\ pc' \in [Threads -> Locations]
  BY <1>1, BusyFacts
<1>3. TypeOK'
  <2>1. requests' \in 0 .. MaxRequests
    BY <1>1, Constants DEF TypeOK
  <2> QED
    BY <1>1, <1>2, <2>1 DEF TypeOK
<1>4. Bytes(mem.live)' = Bytes(mem.live)
  <2>1. Bytes(mem.live)' = Total(mem'.name, mem'.live)
    BY BytesThen
  <2> QED
    BY <2>1, BytesIs DEF SameNodes
<1>5. mem'.allocated + Cardinality(Busy') <= requests'
  <2>1. mem.allocated + Cardinality(Busy) <= requests
    BY DEF CacheInv
  <2>2. mem'.allocated = mem.allocated /\ mem.allocated \in Nat /\ requests \in Nat
    BY <1>1 DEF SameNodes, TypeOK, MemType
  <2>3. Cardinality(Busy) \in Nat /\ Cardinality(Busy') \in Nat
        /\ (pc[t] = "idle" => Cardinality(Busy') <= Cardinality(Busy) + 1)
        /\ (pc[t] # "idle" => Cardinality(Busy') <= Cardinality(Busy))
    BY <1>1, BusyFacts
  <2> QED
    BY <2>1, <2>2, <2>3
<1>6. mem'.live \subseteq 1 .. mem'.allocated
  BY DEF SameNodes, CacheInv
<1>7. ASSUME NEW s \in Threads, pc'[s] \in {"pin", "copy", "unpin"} PROVE node'[s] # Nil
  <2>1. CASE s = t
    BY <1>1, <1>7, <2>1 DEF Goto, TypeOK
  <2>2. CASE s # t
    BY <1>1, <1>7, <2>2 DEF Goto, TypeOK, CacheInv
  <2> QED
    BY <2>1, <2>2
<1>8. (Bytes(mem.live) <= cache_size /\ cache_size <= conf.max_cache_size)'
  BY <1>4 DEF CacheInv
<1> QED
  BY <1>2, <1>3, <1>5, <1>6, <1>7, <1>8 DEF CacheInv

\* The rest of the invariant after cache_insert, which ends the request.
LEMMA Inserted ==
  ASSUME CacheInv, NEW t \in Threads, At(t, "insert"), Goto(t, "idle"),
         UNCHANGED <<conf, requests, file, node>>,
         hand' \in 0 .. (Buckets - 1), cache_size' \in Int,
         mem' \in MemType, mem'.allocated \in {mem.allocated, mem.allocated + 1},
         mem'.live \subseteq 1 .. mem'.allocated,
         Total(mem'.name, mem'.live) <= cache_size', cache_size' <= conf.max_cache_size
  PROVE  CacheInv'
<1>1. TypeOK /\ pc[t] # "idle" /\ "idle" \in Locations
  BY DEF CacheInv, At, Locations
<1>2. /\ Threads' = Threads /\ pc' \in [Threads -> Locations]
      /\ Cardinality(Busy') = Cardinality(Busy) - 1
      /\ Cardinality(Busy) \in Nat /\ Cardinality(Busy') \in Nat
  BY <1>1, BusyFacts
<1>3. Total(mem'.name, mem'.live) \in Nat
  <2>1. mem'.name \in [Nodes -> Files] /\ mem'.live \in SUBSET Nodes
    BY DEF MemType
  <2> QED
    BY <2>1, TotalFacts
<1>4. TypeOK'
  <2>1. cache_size' \in Nat
    BY <1>3
  <2> QED
    BY <1>1, <1>2, <2>1 DEF TypeOK
<1>5. mem'.allocated + Cardinality(Busy') <= requests'
  <2>1. mem.allocated + Cardinality(Busy) <= requests
    BY DEF CacheInv
  <2>2. mem.allocated \in Nat /\ requests \in Nat
    BY <1>1 DEF TypeOK, MemType
  <2> QED
    BY <1>2, <2>1, <2>2
<1>6. (Bytes(mem.live) <= cache_size /\ cache_size <= conf.max_cache_size)'
  BY BytesThen
<1>7. ASSUME NEW s \in Threads, pc'[s] \in {"pin", "copy", "unpin"} PROVE node'[s] # Nil
  <2>1. s # t /\ pc'[s] = pc[s]
    BY <1>1, <1>7 DEF Goto, TypeOK
  <2> QED
    BY <1>7, <2>1 DEF CacheInv
<1> QED
  BY <1>2, <1>4, <1>5, <1>6, <1>7 DEF CacheInv

\* cache_insert, with or without an eviction.
LEMMA InsertStep ==
  ASSUME CacheInv, NEW t \in Threads, Insert(t)
  PROVE  CacheInv'
<1> DEFINE size == Size[file[t]]
           over == size + cache_size - conf.max_cache_size
           e    == Evict(mem, hand, over)
<1>1. /\ TypeOK /\ mem \in MemType /\ hand \in 0 .. (Buckets - 1) /\ file[t] \in Files
      /\ cache_size \in Nat /\ conf \in Confs
      /\ mem.live \subseteq 1 .. mem.allocated
      /\ Total(mem.name, mem.live) <= cache_size /\ cache_size <= conf.max_cache_size
  BY BytesNow DEF CacheInv, TypeOK
<1>2. /\ At(t, "insert") /\ Goto(t, "idle") /\ UNCHANGED <<conf, requests, file, node>>
      /\ pc[t] # "idle" /\ "idle" \in Locations
  BY DEF Insert, At, Locations
<1>3. size \in Nat /\ conf.max_cache_size \in Nat /\ conf \in ConfType /\ over \in Int
  BY <1>1, Constants, ConfFacts
<1>4. mem.allocated \in Nat /\ mem.allocated < MaxRequests
  <2>1. mem.allocated + Cardinality(Busy) <= requests
    BY DEF CacheInv
  <2>2. mem.allocated \in Nat /\ requests \in 0 .. MaxRequests
    BY <1>1 DEF TypeOK, MemType
  <2>3. Cardinality(Busy') = Cardinality(Busy) - 1 /\ Cardinality(Busy) \in Nat /\ Cardinality(Busy') \in Nat
    BY <1>1, <1>2, BusyFacts
  <2> QED
    BY <2>1, <2>2, <2>3, Constants
<1>5. Total(mem.name, mem.live) \in Nat
  <2>1. mem.name \in [Nodes -> Files] /\ mem.live \in SUBSET Nodes
    BY <1>1 DEF MemType
  <2> QED
    BY <2>1, TotalFacts
<1>6. CASE UNCHANGED <<mem, hand, cache_size>>
  BY <1>1, <1>2, <1>6, Inserted
<1>7. CASE over <= 0 /\ mem' = Link(mem, file[t]) /\ cache_size' = cache_size + size /\ UNCHANGED hand
  <2>1. /\ mem' \in MemType /\ mem'.allocated = mem.allocated + 1
        /\ mem'.live \subseteq 1 .. mem'.allocated
        /\ Total(mem'.name, mem'.live) = Total(mem.name, mem.live) + size
    BY <1>1, <1>3, <1>4, <1>7, LinkFacts
  <2>2. Total(mem'.name, mem'.live) <= cache_size' /\ cache_size' <= conf.max_cache_size /\ cache_size' \in Int
    BY <1>1, <1>3, <1>5, <1>7, <2>1
  <2> QED
    BY <1>1, <1>2, <1>7, <2>1, <2>2, Inserted
<1>8. CASE /\ hand' = e.hand
           /\ mem' = IF e.result = "ok" THEN Link(e.mem, file[t]) ELSE e.mem
           /\ cache_size' = IF e.result = "ok" THEN cache_size - e.got + size ELSE cache_size
  <2>1. e \in Evictions(mem, over)
    BY <1>1, <1>3, EvictFacts
  <2> HIDE DEF e
  <2>2. e.mem \in MemType /\ e.hand \in 0 .. (Buckets - 1) /\ e.got \in Nat
    BY <2>1 DEF Evictions, EvictType
  <2>3. /\ e.mem.live \subseteq mem.live /\ e.mem.name = mem.name /\ e.mem.allocated = mem.allocated
        /\ Total(mem.name, e.mem.live) + e.got = Total(mem.name, mem.live)
        /\ e.result = "ok" => e.got >= over
    BY <2>1 DEF Evictions
  <2>4. Total(mem.name, e.mem.live) \in Nat
    <3>1. mem.name \in [Nodes -> Files] /\ e.mem.live \in SUBSET Nodes
      BY <1>1, <2>2 DEF MemType
    <3> QED
      BY <3>1, TotalFacts
  <2>5. e.mem.live \subseteq 1 .. e.mem.allocated
    BY <1>1, <2>3
  <2>6. CASE e.result = "ok"
    <3>1. mem' = Link(e.mem, file[t]) /\ cache_size' = cache_size - e.got + size
      BY <1>8, <2>6
    <3>2. /\ mem' \in MemType /\ mem'.allocated = mem.allocated + 1
          /\ mem'.live \subseteq 1 .. mem'.allocated
          /\ Total(mem'.name, mem'.live) = Total(mem.name, e.mem.live) + size
      <4> DEFINE mm == e.mem
      <4>1. /\ mm \in MemType /\ mm.allocated = mem.allocated /\ mm.name = mem.name
            /\ mm.allocated < MaxRequests /\ mm.live \subseteq 1 .. mm.allocated
            /\ mem' = Link(mm, file[t])
        BY <1>4, <2>2, <2>3, <2>5, <3>1
      <4> HIDE DEF mm
      <4>2. /\ mem' \in MemType /\ mem'.allocated = mm.allocated + 1
            /\ mem'.live \subseteq 1 .. mem'.allocated
            /\ Total(mem'.name, mem'.live) = Total(mm.name, mm.live) + size
        BY <1>1, <1>3, <4>1, LinkFacts
      <4> QED
        BY <4>1, <4>2 DEF mm
    <3>3. Total(mem'.name, mem'.live) <= cache_size'
      BY <1>1, <1>3, <1>5, <2>2, <2>3, <2>4, <3>1, <3>2
    <3>4. cache_size' <= conf.max_cache_size /\ cache_size' \in Int
      BY <1>1, <1>3, <2>2, <2>3, <2>6, <3>1
    <3> QED
      BY <1>2, <1>8, <2>2, <3>2, <3>3, <3>4, Inserted
  <2>7. CASE e.result # "ok"
    <3>1. mem' = e.mem /\ cache_size' = cache_size
      BY <1>8, <2>7
    <3>2. Total(mem'.name, mem'.live) <= cache_size'
      BY <1>1, <1>5, <2>2, <2>3, <2>4, <3>1
    <3> QED
      BY <1>1, <1>2, <1>8, <2>2, <2>3, <2>5, <3>1, <3>2, Inserted
  <2> QED
    BY <2>6, <2>7
<1> QED
  BY <1>6, <1>7, <1>8 DEF Insert, Uncharged

LEMMA StepCache == CacheInv /\ [Next]_vars => CacheInv'
<1> SUFFICES ASSUME CacheInv, [Next]_vars PROVE CacheInv'
  OBVIOUS
<1>1. TypeOK /\ mem \in MemType /\ conf \in Confs
  BY DEF CacheInv, TypeOK
<1>2. /\ file \in [Threads -> Files] /\ node \in [Threads -> Ptrs]
      /\ requests \in 0 .. MaxRequests
  BY <1>1 DEF TypeOK
<1>3. SameNodes(mem, mem)
  BY DEF SameNodes
<1>4. UsingRn \in Lists
  BY DEF Lists
<1>5. ASSUME NEW t \in Threads, NEW f \in Files, Request(t, f) PROVE CacheInv'
  <2>1. /\ Goto(t, "lookup") /\ pc[t] = "idle" /\ "lookup" \in Locations
        /\ file' = [file EXCEPT ![t] = f] /\ requests' = requests + 1 /\ requests < MaxRequests
        /\ UNCHANGED <<conf, mem, hand, cache_size, node>>
    BY <1>5 DEF Request, At, Locations
  <2>2. file' \in [Threads -> Files]
    BY <1>2, <2>1
  <2> QED
    BY <1>1, <1>2, <1>3, <2>1, <2>2, SameFiles
<1>6. ASSUME NEW t \in Threads PROVE Bucket(t) \in Lists /\ file[t] \in Files
  BY <1>1, <1>2, ConfFacts DEF Bucket, Lists
<1>7. ASSUME NEW t \in Threads, Lookup(t) PROVE CacheInv'
  <2> DEFINE hit == Search(mem, Bucket(t), file[t])
             l == IF hit.node = Nil THEN "read" ELSE "pin"
  <2>1. hit.mem \in MemType /\ SameNodes(mem, hit.mem) /\ hit.node \in Ptrs
    BY <1>1, <1>6, SearchType
  <2>2. /\ Goto(t, l) /\ pc[t] # "idle" /\ l \in Locations
        /\ mem' = hit.mem /\ node' = [node EXCEPT ![t] = hit.node]
        /\ UNCHANGED <<conf, hand, cache_size, requests, file>>
    BY <1>7 DEF Lookup, At, Locations
  <2>3. l = "pin" => hit.node # Nil
    OBVIOUS
  <2>4. l \notin {"copy", "unpin"}
    OBVIOUS
  <2> HIDE DEF hit, l
  <2>5. node' \in [Threads -> Ptrs] /\ node'[t] = hit.node /\ \A s \in Threads : s # t => node'[s] = node[s]
    BY <1>2, <2>1, <2>2
  <2> QED
    BY <1>2, <2>1, <2>2, <2>3, <2>4, <2>5, SameFiles
<1>8. ASSUME NEW t \in Threads, ReadFile(t) PROVE CacheInv'
  <2>1. PICK l \in {"recheck", "idle"} : Goto(t, l)
    BY <1>8 DEF ReadFile
  <2>2. /\ pc[t] # "idle" /\ l \in Locations /\ l \notin {"pin", "copy", "unpin"}
        /\ UNCHANGED <<conf, mem, hand, cache_size, requests, file, node>>
    BY <1>8, <2>1 DEF ReadFile, At, Locations
  <2> QED
    BY <1>1, <1>2, <1>3, <2>1, <2>2, SameFiles
<1>9. ASSUME NEW t \in Threads, Recheck(t) PROVE CacheInv'
  <2> DEFINE idk == Search(mem, Bucket(t), file[t])
             l == IF idk.node = Nil THEN "insert" ELSE "idle"
  <2>1. idk.mem \in MemType /\ SameNodes(mem, idk.mem)
    BY <1>1, <1>6, SearchType
  <2>2. /\ Goto(t, l) /\ pc[t] # "idle" /\ l \in Locations /\ l \notin {"pin", "copy", "unpin"}
        /\ mem' = idk.mem
        /\ UNCHANGED <<conf, hand, cache_size, requests, file, node>>
    BY <1>9 DEF Recheck, At, Locations
  <2> HIDE DEF idk, l
  <2> QED
    BY <1>2, <2>1, <2>2, SameFiles
<1>10. ASSUME NEW t \in Threads, Insert(t) PROVE CacheInv'
  BY <1>10, InsertStep
<1>11. ASSUME NEW t \in Threads, Pin(t) PROVE CacheInv'
  <2>1. /\ Goto(t, "copy") /\ pc[t] = "pin" /\ "copy" \in Locations
        /\ mem' = Enqueue(mem, UsingRn, node[t])
        /\ UNCHANGED <<conf, hand, cache_size, requests, file, node>>
    BY <1>11 DEF Pin, At, Locations
  <2>2. node[t] \in Nodes
    <3>1. node[t] # Nil
      BY <2>1 DEF CacheInv
    <3> QED
      BY <1>2, <3>1, Constants
  <2>3. mem' \in MemType /\ SameNodes(mem, mem')
    BY <1>1, <1>4, <2>1, <2>2, EnqueueType
  <2> QED
    BY <1>2, <2>1, <2>2, <2>3, SameFiles, Constants
<1>12. ASSUME NEW t \in Threads, Copy(t) PROVE CacheInv'
  <2>1. /\ Goto(t, "unpin") /\ pc[t] = "copy" /\ "unpin" \in Locations
        /\ mem' = Access(mem, {node[t]})
        /\ UNCHANGED <<conf, hand, cache_size, requests, file, node>>
    BY <1>12 DEF Copy, At, Locations
  <2>2. node[t] # Nil
    BY <2>1 DEF CacheInv
  <2>3. mem' \in MemType /\ SameNodes(mem, mem')
    BY <1>1, <2>1, AccessFacts
  <2> QED
    BY <1>2, <2>1, <2>2, <2>3, SameFiles
<1>13. ASSUME NEW t \in Threads, Unpin(t) PROVE CacheInv'
  <2>1. /\ Goto(t, "idle") /\ pc[t] = "unpin" /\ "idle" \in Locations
        /\ mem' = Pop(mem, UsingRn, file[t])
        /\ UNCHANGED <<conf, hand, cache_size, requests, file, node>>
    BY <1>13 DEF Unpin, At, Locations
  <2>2. mem' \in MemType /\ SameNodes(mem, mem')
    BY <1>1, <1>4, <1>6, <2>1, PopType
  <2> QED
    BY <1>2, <2>1, <2>2, SameFiles
<1>14. ASSUME UNCHANGED vars PROVE CacheInv'
  <2>1. Bytes(mem.live)' = Bytes(mem.live)
    BY <1>14, BytesNow, BytesThen DEF vars
  <2>2. Threads' = Threads /\ Busy' = Busy
    BY <1>14 DEF vars, Threads, Busy
  <2> QED
    BY <1>14, <2>1, <2>2 DEF vars, CacheInv, TypeOK
<1> QED
  BY <1>5, <1>7, <1>8, <1>9, <1>10, <1>11, <1>12, <1>13, <1>14 DEF Next, Terminated

\* Types, the accounting of cache_size and the allocation of nodes: an inductive
\* invariant of the cache for any configuration.
THEOREM CacheInvariance == Spec => []CacheInv
<1> QED
  BY InitCache, StepCache, PTL DEF Spec

\* Every variable of the cache keeps its type, a hand inside the table and a
\* size that is not negative included.
THEOREM TypeCorrect == Spec => []TypeOK
<1>1. CacheInv => TypeOK
  BY DEF CacheInv
<1> QED
  BY <1>1, CacheInvariance, PTL

\* The files in memory never count for more than cache_size, nor cache_size for
\* more than the limit, whatever races and failed evictions there are.
THEOREM FitsCorrect == Spec => []Fits
<1>1. CacheInv => Fits
  BY DEF CacheInv, Fits
<1> QED
  BY <1>1, CacheInvariance, PTL

-----------------------------------------------------------------------------
(* Lists whose pointers lead to nodes that are there. *)

Closed(m) ==
    /\ ~m.fault
    /\ \A l \in Lists : m.head[l] \in m.live \cup {Nil}
    /\ \A n \in Nodes : m.next[n] \in m.live \cup {Nil} /\ m.prev[n] \in m.live \cup {Nil}

\* No list has more than one node.
Flat(m) == \A n \in Nodes : m.next[n] = Nil /\ m.prev[n] = Nil

\* The lists other than l are the same, as far as heads and counters go.
OtherLists(m, r, l) ==
    \A o \in Lists \ {l} : r.head[o] = m.head[o] /\ r.num_files[o] = m.num_files[o]

LEMMA ClosedAccess ==
  ASSUME NEW m \in MemType, Closed(m), NEW ps, ps \subseteq m.live
  PROVE  Access(m, ps) = m
<1> DEFINE a == Access(m, ps)
<1>1. a \in MemType /\ SameNodes(m, a) /\ a.head = m.head /\ a.num_files = m.num_files
      /\ a.next = m.next /\ a.prev = m.prev /\ a.fault = (m.fault \/ ~(ps \subseteq m.live))
  BY AccessFacts
<1>2. m.fault \in BOOLEAN /\ a.fault = m.fault
  <2>1. m.fault \in BOOLEAN
    BY DEF MemType
  <2>2. m.fault = FALSE
    BY <2>1 DEF Closed
  <2> QED
    BY <1>1, <2>1, <2>2
<1> HIDE DEF a
<1> QED
  BY <1>1, <1>2 DEF SameNodes, MemType, a

LEMMA ClosedWalk ==
  ASSUME NEW m \in MemType, Closed(m), NEW l \in Lists
  PROVE  \A k \in 1 .. (MaxRequests + 1) : Walk(m, l)[k] \in m.live \cup {Nil}
<1> DEFINE w == Walk(m, l)
           v == [k \in 0 .. MaxRequests |-> w[k + 1]]
           V == m.live \cup {Nil}
<1>1. w[1] \in V
  BY WalkFacts DEF Closed
<1> HIDE DEF w
<1>2. v[0] \in V
  <2>1. v[0] = w[1]
    BY Constants
  <2> QED
    BY <1>1, <2>1
<1>3. ASSUME NEW k \in 1 .. MaxRequests, v[k - 1] \in V PROVE v[k] \in V
  <2>1. /\ k \in 0 .. MaxRequests /\ k - 1 \in 0 .. MaxRequests
        /\ k + 1 \in 2 .. (MaxRequests + 1) /\ (k + 1) - 1 = k /\ (k - 1) + 1 = k
    BY Constants
  <2>2. v[k] = w[k + 1] /\ v[k - 1] = w[k]
    BY <2>1
  <2>3. w[k + 1] = IF w[k] \in m.live THEN m.next[w[k]] ELSE Nil
    <3>1. \A j \in 2 .. (MaxRequests + 1) : w[j] = IF w[j - 1] \in m.live THEN m.next[w[j - 1]] ELSE Nil
      BY WalkFacts DEF w
    <3> QED
      BY <2>1, <3>1
  <2>4. m.live \subseteq Nodes
    BY DEF MemType
  <2> QED
    BY <2>2, <2>3, <2>4 DEF Closed
<1>4. \A k \in 0 .. MaxRequests : v[k] \in V
  <2> HIDE DEF v, V
  <2> QED
    BY <1>2, <1>3, StaysIn, Constants
<1>5. ASSUME NEW k \in 1 .. (MaxRequests + 1) PROVE w[k] \in V
  <2>1. k - 1 \in 0 .. MaxRequests /\ v[k - 1] = w[k]
    BY Constants
  <2> QED
    BY <1>4, <2>1
<1> QED
  BY <1>5 DEF w

\* A search for f changes nothing, and finds the head if it has the name f.
LEMMA ClosedSearch ==
  ASSUME NEW m \in MemType, Closed(m), NEW l \in Lists, NEW f \in Files
  PROVE  /\ Search(m, l, f).mem = m
         /\ Searched(m, Walk(m, l), f, MaxRequests) = m
         /\ m.head[l] # Nil /\ m.name[m.head[l]] = f /\ m.num_files[l] >= 1
               => Search(m, l, f).node = m.head[l]
<1> DEFINE w == Walk(m, l)
<1>1. \A k \in 1 .. (MaxRequests + 1) : w[k] \in m.live \cup {Nil}
  BY ClosedWalk
<1>2. Nodes \subseteq 1 .. (MaxRequests + 1)
  BY Constants
<1>3. \A n : Searched(m, w, f, n) = m
  <2> TAKE n
  <2>1. {w[k] : k \in Steps(m, w, f, n)} \subseteq m.live
    BY <1>1, <1>2 DEF Steps
  <2> QED
    BY <2>1, ClosedAccess DEF Searched
<1> DEFINE at == FoundAt(m, w, f, m.num_files[l])
<1>4. Search(m, l, f) = [node |-> IF at = {} THEN Nil ELSE w[Min(at)],
                         mem |-> Searched(m, w, f, m.num_files[l])]
  BY DEF Search, Searchable
<1>5. ASSUME m.head[l] # Nil, m.name[m.head[l]] = f, m.num_files[l] >= 1
      PROVE  Search(m, l, f).node = m.head[l]
  <2>1. w[1] = m.head[l] /\ m.head[l] \in m.live
    BY <1>5, WalkFacts DEF Closed
  <2>2. 1 \in Nodes
    <3>1. m.head[l] \in Nodes
      BY <2>1 DEF MemType
    <3> QED
      BY <3>1, Constants
  <2>3. 1 \in at
    <3>1. 1 .. (1 - 1) = {}
      OBVIOUS
    <3> QED
      BY <1>5, <2>1, <2>2, <3>1 DEF FoundAt, Steps
  <2>4. at \in SUBSET Nodes
    BY DEF FoundAt, Steps
  <2> HIDE DEF at, w
  <2>5. Min(at) \in at /\ Min(at) <= 1
    BY <2>3, <2>4, MinMax
  <2>6. Min(at) = 1
    <3> DEFINE k == Min(at)
    <3> HIDE DEF k
    <3>1. k \in Nodes /\ k <= 1
      BY <2>4, <2>5 DEF k
    <3>2. k = 1
      BY <3>1, Constants
    <3> QED
      BY <3>2 DEF k
  <2> QED
    BY <1>4, <2>1, <2>3, <2>6
<1> HIDE DEF w, at
<1> QED
  BY <1>3, <1>4, <1>5 DEF w

\* Appending a node that is there.
LEMMA ClosedEnqueue ==
  ASSUME NEW m \in MemType, Closed(m), NEW l \in Lists, NEW n, n \in m.live
  PROVE  LET r == Enqueue(m, l, n)
         IN  /\ Closed(r) /\ OtherLists(m, r, l)
             /\ r.num_files[l] = m.num_files[l] + 1
             /\ m.num_files[l] = 0 \/ m.head[l] = Nil =>
                   r.head[l] = n /\ (Flat(m) => Flat(r))
             /\ ~(m.num_files[l] = 0 \/ m.head[l] = Nil) => r.head[l] = m.head[l]
<1> DEFINE w     == Walk(m, l)
           trail == {k \in Nodes : w[k] # Nil}
           last  == w[Max(trail)]
           r     == Enqueue(m, l, n)
<1>1. n \in Nodes
  BY DEF MemType
<1>2. CASE m.num_files[l] = 0 \/ m.head[l] = Nil
  <2>1. Access(m, {n}) = m
    BY ClosedAccess
  <2>2. r = [m EXCEPT !.head[l] = n, !.next[n] = Nil, !.prev[n] = Nil, !.num_files[l] = @ + 1]
    BY <1>2, <2>1 DEF Enqueue
  <2>3. /\ r.head = [m.head EXCEPT ![l] = n] /\ r.num_files = [m.num_files EXCEPT ![l] = @ + 1]
        /\ r.next = [m.next EXCEPT ![n] = Nil] /\ r.prev = [m.prev EXCEPT ![n] = Nil]
        /\ r.live = m.live /\ r.fault = m.fault
    BY <2>2 DEF MemType
  <2> HIDE DEF r
  <2>4. Closed(r)
    BY <1>1, <2>3 DEF Closed, MemType
  <2>5. OtherLists(m, r, l) /\ r.num_files[l] = m.num_files[l] + 1 /\ r.head[l] = n
    BY <2>3 DEF OtherLists, MemType
  <2>6. Flat(m) => Flat(r)
    BY <2>3 DEF Flat, MemType
  <2> QED
    BY <1>2, <2>4, <2>5, <2>6 DEF r
<1>3. CASE ~(m.num_files[l] = 0 \/ m.head[l] = Nil)
  <2>0. \A k \in 1 .. (MaxRequests + 1) : w[k] \in m.live \cup {Nil}
    BY ClosedWalk
  <2>1. Nodes \subseteq 1 .. (MaxRequests + 1)
    BY Constants
  <2>2. last \in m.live
    <3>1. 1 \in Nodes
      BY <1>1, Constants
    <3>2. trail \in SUBSET Nodes /\ trail # {}
      BY <1>3, <3>1, WalkFacts
    <3>3. Max(trail) \in trail
      <4> HIDE DEF trail
      <4> QED
        BY <3>2, MinMax
    <3> QED
      BY <2>0, <2>1, <3>3
  <2>3. Access(m, {n} \cup {w[k] : k \in trail}) = m
    <3>1. {n} \cup {w[k] : k \in trail} \subseteq m.live
      BY <2>0, <2>1
    <3> QED
      BY <3>1, ClosedAccess
  <2>4. r = [m EXCEPT !.prev[n] = last, !.next[last] = n, !.next[n] = Nil, !.num_files[l] = @ + 1]
    BY <1>3, <2>3 DEF Enqueue
  <2> HIDE DEF last
  <2>5. /\ r.head = m.head /\ r.num_files = [m.num_files EXCEPT ![l] = @ + 1]
        /\ r.next = [[m.next EXCEPT ![last] = n] EXCEPT ![n] = Nil]
        /\ r.prev = [m.prev EXCEPT ![n] = last]
        /\ r.live = m.live /\ r.fault = m.fault
    BY <2>4 DEF MemType
  <2> HIDE DEF r
  <2>6. ASSUME NEW k \in Nodes PROVE r.next[k] \in m.live \cup {Nil} /\ r.prev[k] \in m.live \cup {Nil}
    <3> DEFINE x == [m.next EXCEPT ![last] = n]
    <3>1. x[k] \in m.live \cup {Nil} /\ DOMAIN x = Nodes
      BY DEF Closed, MemType
    <3> HIDE DEF x
    <3>2. [x EXCEPT ![n] = Nil][k] \in m.live \cup {Nil}
      BY <3>1
    <3>3. r.next[k] \in m.live \cup {Nil}
      BY <2>5, <3>2 DEF x
    <3>4. r.prev[k] \in m.live \cup {Nil}
      BY <2>2, <2>5 DEF Closed, MemType
    <3> QED
      BY <3>3, <3>4
  <2>7. Closed(r)
    BY <2>5, <2>6 DEF Closed
  <2>8. OtherLists(m, r, l) /\ r.num_files[l] = m.num_files[l] + 1 /\ r.head[l] = m.head[l]
    BY <2>5 DEF OtherLists, MemType
  <2> QED
    BY <1>3, <2>7, <2>8 DEF r
<1> QED
  BY <1>2, <1>3

\* Unlinking a node that is there.
LEMMA ClosedUnlink ==
  ASSUME NEW m \in MemType, Closed(m), NEW l \in Lists, NEW curr, curr \in m.live
  PROVE  LET r == Unlink(m, l, curr)
         IN  /\ Closed(r) /\ OtherLists(m, r, l)
             /\ Flat(m) => Flat(r)
             /\ Flat(m) /\ curr = m.head[l] => r.head[l] = Nil /\ r.num_files[l] = m.num_files[l] - 1
<1> DEFINE p   == m.prev[curr]
           x   == m.next[curr]
           top == curr = m.head[l] \/ p = Nil
           V   == m.live \cup {Nil}
           m2  == IF top THEN [m EXCEPT !.head[l] = x] ELSE [m EXCEPT !.next[p] = x]
           m3  == IF x = Nil THEN m2 ELSE [m2 EXCEPT !.prev[x] = IF top THEN Nil ELSE p]
           r   == Unlink(m, l, curr)
<1>1. curr \in Nodes /\ m.live \subseteq Nodes
  BY DEF MemType
<1>2. x \in V /\ p \in V /\ (x # Nil => x \in Nodes) /\ (~top => p \in Nodes)
  BY <1>1 DEF Closed
<1>3. Access(m, ({x} \cup IF top THEN {} ELSE {p}) \ {Nil}) = m
  <2>1. (({x} \cup IF top THEN {} ELSE {p}) \ {Nil}) \subseteq m.live
    BY <1>2
  <2> HIDE DEF x, p, top
  <2> QED
    BY <2>1, ClosedAccess
<1>4. r = [m3 EXCEPT !.prev[curr] = Nil, !.next[curr] = Nil, !.num_files[l] = @ - 1]
  <2> DEFINE a  == Access(m, ({x} \cup IF top THEN {} ELSE {p}) \ {Nil})
             a2 == IF top THEN [a EXCEPT !.head[l] = x] ELSE [a EXCEPT !.next[p] = x]
             a3 == IF x = Nil THEN a2 ELSE [a2 EXCEPT !.prev[x] = IF top THEN Nil ELSE p]
  <2>1. r = [a3 EXCEPT !.prev[curr] = Nil, !.next[curr] = Nil, !.num_files[l] = @ - 1]
    BY DEF Unlink
  <2>2. a2 = m2
    <3>1. a = m
      BY <1>3
    <3> HIDE DEF a, top, x, p
    <3> QED
      BY <3>1
  <2>3. a3 = m3
    <3> HIDE DEF a2, m2, top, x, p
    <3> QED
      BY <2>2
  <2> HIDE DEF a3, m3, r
  <2> QED
    BY <2>1, <2>3
<1> HIDE DEF r
<1>5. /\ \A o \in Lists : m2.head[o] \in V /\ (o # l => m2.head[o] = m.head[o])
      /\ \A n \in Nodes : m2.next[n] \in V /\ m2.prev[n] \in V
      /\ DOMAIN m2.head = Lists /\ DOMAIN m2.next = Nodes /\ DOMAIN m2.prev = Nodes
      /\ m2.num_files = m.num_files /\ m2.live = m.live /\ m2.fault = m.fault
      /\ top => m2.head[l] = x /\ m2.next = m.next
  <2>1. CASE top
    <3>1. m2 = [m EXCEPT !.head[l] = x]
      BY <2>1
    <3> HIDE DEF m2, x, p, top
    <3>2. /\ m2.head = [m.head EXCEPT ![l] = x] /\ m2.next = m.next /\ m2.prev = m.prev
          /\ m2.num_files = m.num_files /\ m2.live = m.live /\ m2.fault = m.fault
      BY <3>1 DEF MemType
    <3> HIDE DEF V
    <3>3. DOMAIN m.head = Lists /\ DOMAIN m.next = Nodes /\ DOMAIN m.prev = Nodes
      BY DEF MemType
    <3>4. /\ \A o \in Lists : m.head[o] \in V
          /\ \A n \in Nodes : m.next[n] \in V /\ m.prev[n] \in V
      BY DEF Closed, V
    <3> QED
      BY <1>2, <3>2, <3>3, <3>4
  <2>2. CASE ~top
    <3>1. m2 = [m EXCEPT !.next[p] = x]
      BY <2>2
    <3> HIDE DEF m2, x, p, top
    <3>2. /\ m2.head = m.head /\ m2.next = [m.next EXCEPT ![p] = x] /\ m2.prev = m.prev
          /\ m2.num_files = m.num_files /\ m2.live = m.live /\ m2.fault = m.fault
      BY <3>1 DEF MemType
    <3> HIDE DEF V
    <3>3. DOMAIN m.head = Lists /\ DOMAIN m.next = Nodes /\ DOMAIN m.prev = Nodes
      BY DEF MemType
    <3>4. /\ \A o \in Lists : m.head[o] \in V
          /\ \A n \in Nodes : m.next[n] \in V /\ m.prev[n] \in V
      BY DEF Closed, V
    <3> QED
      BY <1>2, <2>2, <3>2, <3>3, <3>4
  <2> QED
    BY <2>1, <2>2
<1>6. /\ m3.head = m2.head /\ m3.next = m2.next /\ m3.num_files = m.num_files
      /\ m3.live = m.live /\ m3.fault = m.fault
      /\ \A n \in Nodes : m3.prev[n] \in V
      /\ DOMAIN m3.prev = Nodes /\ (x = Nil => m3 = m2)
  <2>1. CASE x = Nil
    BY <1>5, <2>1
  <2>2. CASE x # Nil
    <3> DEFINE q == IF top THEN Nil ELSE p
    <3>1. q \in V
      BY <1>2
    <3>2. m3 = [m2 EXCEPT !.prev[x] = q]
      BY <2>2
    <3>3. m2 = [head |-> m2.head, num_files |-> m2.num_files, next |-> m2.next, prev |-> m2.prev,
                name |-> m2.name, live |-> m2.live, allocated |-> m2.allocated, fault |-> m2.fault]
      <4>1. m2 = [m EXCEPT !.head[l] = x] \/ m2 = [m EXCEPT !.next[p] = x]
        OBVIOUS
      <4> HIDE DEF m2, x, p
      <4> QED
        BY <4>1 DEF MemType
    <3> HIDE DEF m2, m3, x, q, V
    <3>4. /\ m3.head = m2.head /\ m3.next = m2.next /\ m3.num_files = m2.num_files
          /\ m3.live = m2.live /\ m3.fault = m2.fault /\ m3.prev = [m2.prev EXCEPT ![x] = q]
      BY <3>2, <3>3
    <3> QED
      BY <1>5, <2>2, <3>1, <3>4
  <2> QED
    BY <2>1, <2>2
<1>7. m3 = [head |-> m3.head, num_files |-> m3.num_files, next |-> m3.next, prev |-> m3.prev,
            name |-> m3.name, live |-> m3.live, allocated |-> m3.allocated, fault |-> m3.fault]
  <2>1. m2 = [m EXCEPT !.head[l] = x] \/ m2 = [m EXCEPT !.next[p] = x]
    OBVIOUS
  <2>2. m3 = m2 \/ m3 = [m2 EXCEPT !.prev[x] = IF top THEN Nil ELSE p]
    OBVIOUS
  <2> HIDE DEF m2, m3, x, p, top
  <2> QED
    BY <2>1, <2>2 DEF MemType
<1>8. /\ r.head = m3.head /\ r.num_files = [m3.num_files EXCEPT ![l] = @ - 1]
      /\ r.next = [m3.next EXCEPT ![curr] = Nil] /\ r.prev = [m3.prev EXCEPT ![curr] = Nil]
      /\ r.live = m3.live /\ r.fault = m3.fault
  <2> HIDE DEF m3
  <2> QED
    BY <1>4, <1>7
<1>9. Closed(r) /\ OtherLists(m, r, l)
  <2> HIDE DEF m2, m3, x, p, top
  <2>1. \A o \in Lists \ {l} : r.num_files[o] = m.num_files[o]
    BY <1>6, <1>8 DEF MemType
  <2> QED
    BY <1>5, <1>6, <1>8, <2>1 DEF Closed, OtherLists
<1>10. ASSUME Flat(m)
       PROVE  /\ Flat(r)
              /\ curr = m.head[l] => r.head[l] = Nil /\ r.num_files[l] = m.num_files[l] - 1
  <2>1. x = Nil /\ p = Nil /\ top
    BY <1>1, <1>10 DEF Flat
  <2>2. m3.head[l] = Nil /\ m3.next = m.next /\ m3.prev = m.prev
    <3>1. m2.prev = m.prev
      <4>1. m2 = [m EXCEPT !.head[l] = x]
        BY <2>1
      <4> HIDE DEF m2, x
      <4> QED
        BY <4>1 DEF MemType
    <3> HIDE DEF m2, m3, x, p, top
    <3> QED
      BY <1>5, <1>6, <2>1, <3>1
  <2> HIDE DEF m2, m3, x, p, top
  <2> QED
    BY <1>6, <1>8, <1>10, <2>2 DEF Flat, MemType
<1> QED
  BY <1>9, <1>10 DEF r

\* Taking a file off a list.
LEMMA ClosedPop ==
  ASSUME NEW m \in MemType, Closed(m), NEW l \in Lists, NEW f \in Files
  PROVE  LET r == Pop(m, l, f)
         IN  /\ Closed(r) /\ OtherLists(m, r, l)
             /\ Flat(m) => Flat(r)
             /\ Flat(m) /\ m.head[l] # Nil /\ m.name[m.head[l]] = f /\ m.num_files[l] = 1
                   => r.head[l] = Nil /\ r.num_files[l] = 0
<1> DEFINE w  == Walk(m, l)
           at == FoundAt(m, w, f, MaxRequests)
           r  == Pop(m, l, f)
<1>1. Searched(m, w, f, MaxRequests) = m
  BY ClosedSearch
<1>2. r = IF m.num_files[l] = 0 \/ at = {} THEN m ELSE Unlink(m, l, w[Min(at)])
  BY <1>1 DEF Pop
<1>3. at # {} => w[Min(at)] \in m.live
  BY FoundFacts, Constants
<1>4. ASSUME m.head[l] # Nil, m.name[m.head[l]] = f
      PROVE  at # {} /\ w[Min(at)] = m.head[l]
  <2>1. w[1] = m.head[l] /\ m.head[l] \in m.live
    BY <1>4, WalkFacts DEF Closed
  <2>2. 1 \in Nodes /\ 1 <= MaxRequests
    <3>1. m.head[l] \in Nodes
      BY <2>1 DEF MemType
    <3> QED
      BY <3>1, Constants
  <2>3. 1 \in at
    <3>1. 1 .. (1 - 1) = {}
      OBVIOUS
    <3> QED
      BY <1>4, <2>1, <2>2, <3>1 DEF FoundAt, Steps
  <2>4. at \in SUBSET Nodes
    BY DEF FoundAt, Steps
  <2> HIDE DEF at, w
  <2>5. Min(at) \in at /\ Min(at) <= 1
    BY <2>3, <2>4, MinMax
  <2>6. Min(at) = 1
    <3> DEFINE k == Min(at)
    <3> HIDE DEF k
    <3>1. k \in Nodes /\ k <= 1
      BY <2>4, <2>5 DEF k
    <3>2. k = 1
      BY <3>1, Constants
    <3> QED
      BY <3>2 DEF k
  <2> QED
    BY <2>1, <2>3, <2>6
<1>5. OtherLists(m, m, l)
  BY DEF OtherLists
<1> HIDE DEF w, at, r
<1>6. CASE m.num_files[l] = 0 \/ at = {}
  <2>1. r = m
    BY <1>2, <1>6
  <2> QED
    BY <1>4, <1>5, <1>6, <2>1 DEF r
<1>7. CASE ~(m.num_files[l] = 0 \/ at = {})
  <2> DEFINE curr == w[Min(at)]
  <2> HIDE DEF curr
  <2>1. r = Unlink(m, l, curr) /\ curr \in m.live
    BY <1>2, <1>3, <1>7 DEF curr
  <2>2. m.head[l] # Nil /\ m.name[m.head[l]] = f => curr = m.head[l]
    BY <1>4 DEF curr
  <2>3. /\ Closed(r) /\ OtherLists(m, r, l)
        /\ Flat(m) => Flat(r)
        /\ Flat(m) /\ curr = m.head[l] => r.head[l] = Nil /\ r.num_files[l] = m.num_files[l] - 1
    BY <2>1, ClosedUnlink
  <2> QED
    BY <2>2, <2>3 DEF r
<1> QED
  BY <1>6, <1>7

\* A search of an empty list.
LEMMA EmptySearch ==
  ASSUME NEW m \in MemType, Closed(m), NEW l \in Lists, NEW f \in Files, m.num_files[l] = 0
  PROVE  Search(m, l, f).node = Nil /\ Search(m, l, f).mem = m
<1> DEFINE at == FoundAt(m, Walk(m, l), f, 0)
<1>1. at = {}
  BY Constants DEF FoundAt, Steps
<1>2. Search(m, l, f).node = IF at = {} THEN Nil ELSE Walk(m, l)[Min(at)]
  BY DEF Search, Searchable
<1> QED
  BY <1>1, <1>2, ClosedSearch

-----------------------------------------------------------------------------
(* One thread and no collisions: no list ever has two nodes. *)

BucketLists == 0 .. (Buckets - 1)

\* The nodes that belong in bucket b.
InBucket(m, b) == {n \in m.live : conf.hash[m.name[n]] = b}

\* A bucket has one node and its head points to it, or none.
Single(m) ==
    \A b \in BucketLists :
       IF m.head[b] = Nil THEN m.num_files[b] = 0 /\ InBucket(m, b) = {}
       ELSE m.num_files[b] = 1 /\ InBucket(m, b) = {m.head[b]}

Tidy(m) == ~m.fault /\ Flat(m) /\ Single(m)

NonePinned(m) == m.head[UsingRn] = Nil /\ m.num_files[UsingRn] = 0

LEMMA ListsAre == /\ \A l \in Lists : l = UsingRn \/ l \in BucketLists
                  /\ BucketLists \subseteq Lists /\ UsingRn \in Lists /\ UsingRn \notin BucketLists
BY DEF Lists, BucketLists, UsingRn

LEMMA TidyClosed ==
  ASSUME NEW m \in MemType, Tidy(m), m.head[UsingRn] \in m.live \cup {Nil}
  PROVE  Closed(m)
<1>1. ASSUME NEW l \in Lists PROVE m.head[l] \in m.live \cup {Nil}
  <2>1. CASE l = UsingRn
    BY <2>1
  <2>2. CASE l \in BucketLists /\ m.head[l] # Nil
    <3>1. m.head[l] \in InBucket(m, l)
      BY <2>2 DEF Tidy, Single
    <3> QED
      BY <3>1 DEF InBucket
  <2> QED
    BY <2>1, <2>2, ListsAre
<1> QED
  BY <1>1 DEF Closed, Tidy, Flat

\* Evictions that keep the lists so; a bucket that is open has its file to free.
TidyEvictions(m, amount) ==
    {e \in Evictions(m, amount) :
        /\ Tidy(e.mem) /\ NonePinned(e.mem)
        /\ e.open /\ ~(e.left <= 0) => e.left = 1 /\ e.mem.head[e.hand] # Nil}

\* The file of an open bucket is freed.
LEMMA TidyEvictHead ==
  ASSUME NEW m \in MemType, NEW amount \in Int, NEW e \in TidyEvictions(m, amount),
         e.left = 1, e.mem.head[e.hand] # Nil
  PROVE  EvictHead(e, amount) \in TidyEvictions(m, amount)
<1> DEFINE c   == e.mem.head[e.hand]
           f   == e.mem.name[c]
           m2  == Pop(e.mem, e.hand, f)
           mm  == [m2 EXCEPT !.live = @ \ {c}]
           got == e.got + Size[f]
           res == IF got >= amount THEN "ok" ELSE e.result
           x   == EvictHead(e, amount)
<1>1. /\ e \in Evictions(m, amount) /\ e \in EvictType /\ e.mem \in MemType
      /\ Tidy(e.mem) /\ NonePinned(e.mem)
      /\ e.hand \in BucketLists /\ e.hand \in Lists
  BY ListsAre DEF TidyEvictions, Evictions, EvictType, BucketLists
<1>2. Closed(e.mem)
  BY <1>1, TidyClosed DEF NonePinned
<1>3. /\ InBucket(e.mem, e.hand) = {c} /\ e.mem.num_files[e.hand] = 1
      /\ c \in e.mem.live /\ c \in Nodes /\ f \in Files /\ conf.hash[f] = e.hand
  <2>1. InBucket(e.mem, e.hand) = {c} /\ e.mem.num_files[e.hand] = 1
    BY <1>1 DEF Tidy, Single
  <2>2. c \in e.mem.live /\ conf.hash[f] = e.hand
    BY <2>1 DEF InBucket
  <2>3. c \in Nodes
    BY <1>1, <2>2 DEF MemType
  <2>4. f \in Files
    BY <1>1, <2>3 DEF MemType
  <2> QED
    BY <2>1, <2>2, <2>3, <2>4
<1>4. Access(e.mem, {c}) = e.mem
  BY <1>1, <1>2, <1>3, ClosedAccess
<1> DEFINE mem0 == e.mem
<1>5. /\ m2 \in MemType /\ SameNodes(e.mem, m2) /\ Closed(m2) /\ Flat(m2)
      /\ OtherLists(e.mem, m2, e.hand) /\ m2.head[e.hand] = Nil /\ m2.num_files[e.hand] = 0
  <2> DEFINE l == e.hand
             a == e.mem
  <2>1. a \in MemType /\ Closed(a) /\ l \in Lists /\ f \in Files /\ Flat(a)
        /\ a.head[l] # Nil /\ a.name[a.head[l]] = f /\ a.num_files[l] = 1
    BY <1>1, <1>2, <1>3 DEF Tidy
  <2> HIDE DEF l, a, f, c
  <2>2. LET r == Pop(a, l, f)
        IN  /\ Closed(r) /\ OtherLists(a, r, l) /\ Flat(r)
            /\ r.head[l] = Nil /\ r.num_files[l] = 0 /\ r \in MemType /\ SameNodes(a, r)
    BY <2>1, ClosedPop, PopType
  <2> QED
    BY <2>2 DEF l, a
<1>6. Search(m2, UsingRn, f).node = Nil /\ Search(m2, UsingRn, f).mem = m2
  <2>1. m2.num_files[UsingRn] = 0
    BY <1>1, <1>5, ListsAre DEF OtherLists, NonePinned
  <2> HIDE DEF m2, f
  <2> QED
    BY <1>3, <1>5, <2>1, EmptySearch, ListsAre
<1>7. x = [e EXCEPT !.mem = mm, !.left = @ - 1, !.got = got, !.result = res]
  <2> HIDE DEF c
  <2>1. x = IF c \notin e.mem.live THEN [e EXCEPT !.mem.fault = TRUE]
            ELSE IF Search(m2, UsingRn, f).node # Nil
            THEN [e EXCEPT !.mem = Enqueue(Search(m2, UsingRn, f).mem, e.hand, c), !.left = @ - 1]
            ELSE [e EXCEPT !.mem = [Search(m2, UsingRn, f).mem EXCEPT !.live = @ \ {c}],
                           !.left = @ - 1, !.got = got, !.result = res]
    BY <1>4 DEF EvictHead, c
  <2> HIDE DEF x, m2, f, got, res
  <2> QED
    BY <1>3, <1>6, <2>1
<1>8. x.mem = mm /\ x.left = 0
  <2> HIDE DEF x, mm, got, res
  <2> QED
    BY <1>1, <1>7 DEF EvictType
<1>9. /\ mm.live = e.mem.live \ {c} /\ mm.name = e.mem.name /\ mm.fault = m2.fault
      /\ mm.head = m2.head /\ mm.num_files = m2.num_files /\ mm.next = m2.next /\ mm.prev = m2.prev
  <2> HIDE DEF m2
  <2> QED
    BY <1>5 DEF MemType, SameNodes
<1> HIDE DEF mm, x, m2
<1>10. Tidy(mm) /\ NonePinned(mm)
  <2>1. ~mm.fault /\ Flat(mm)
    BY <1>5, <1>9 DEF Closed, Flat
  <2>2. NonePinned(mm)
    BY <1>1, <1>5, <1>9, ListsAre DEF OtherLists, NonePinned
  <2>3. ASSUME NEW b \in BucketLists, b # e.hand
        PROVE  IF mm.head[b] = Nil THEN mm.num_files[b] = 0 /\ InBucket(mm, b) = {}
               ELSE mm.num_files[b] = 1 /\ InBucket(mm, b) = {mm.head[b]}
    <3>1. mm.head[b] = e.mem.head[b] /\ mm.num_files[b] = e.mem.num_files[b]
      BY <1>5, <1>9, <2>3, ListsAre DEF OtherLists
    <3>2. InBucket(mm, b) = InBucket(e.mem, b)
      BY <1>3, <1>9, <2>3 DEF InBucket
    <3> QED
      BY <1>1, <3>1, <3>2 DEF Tidy, Single
  <2>4. mm.head[e.hand] = Nil /\ mm.num_files[e.hand] = 0 /\ InBucket(mm, e.hand) = {}
    BY <1>3, <1>5, <1>9 DEF InBucket
  <2>5. Single(mm)
    BY <2>3, <2>4 DEF Single
  <2> QED
    BY <2>1, <2>2, <2>5 DEF Tidy
<1>11. x \in Evictions(m, amount)
  BY <1>1, EvictHeadKeeps DEF x
<1> QED
  BY <1>8, <1>10, <1>11 DEF TidyEvictions, x

LEMMA TidyEvictTurn ==
  ASSUME NEW m \in MemType, NEW amount \in Int, NEW e \in TidyEvictions(m, amount)
  PROVE  EvictTurn(e, amount) \in TidyEvictions(m, amount)
<1> DEFINE x == EvictTurn(e, amount)
<1>1. /\ e \in Evictions(m, amount) /\ e \in EvictType /\ e.mem \in MemType
      /\ Tidy(e.mem) /\ NonePinned(e.mem) /\ e.hand \in BucketLists /\ e.left \in Int
      /\ (e.open /\ ~(e.left <= 0) => e.left = 1 /\ e.mem.head[e.hand] # Nil)
  BY DEF TidyEvictions, Evictions, EvictType, BucketLists
<1>2. x \in Evictions(m, amount)
  BY <1>1, EvictTurnKeeps
<1>3. CASE EvictDone(e)
  BY <1>3 DEF EvictTurn
<1>4. CASE ~EvictDone(e) /\ ~e.open
  <2> DEFINE h == e.mem.head[e.hand]
  <2>1. x = OpenBucket(e)
    BY <1>4 DEF EvictTurn
  <2>2. CASE h = Nil
    <3>1. x = [e EXCEPT !.result = "fail"]
      BY <2>1, <2>2 DEF OpenBucket
    <3> HIDE DEF x
    <3>2. x.mem = e.mem /\ x.open = e.open
      BY <1>1, <3>1 DEF EvictType
    <3> QED
      BY <1>1, <1>2, <1>4, <3>2 DEF TidyEvictions, x
  <2>3. CASE h # Nil
    <3>1. Closed(e.mem)
      BY <1>1, TidyClosed DEF NonePinned
    <3>2. h \in e.mem.live /\ e.mem.num_files[e.hand] = 1
      BY <1>1, <2>3, <3>1, ListsAre DEF Closed, Tidy, Single
    <3>3. Access(e.mem, {h}) = e.mem
      BY <1>1, <3>1, <3>2, ClosedAccess
    <3>4. x = [e EXCEPT !.mem = e.mem, !.left = 1, !.open = TRUE]
      <4>1. x = [e EXCEPT !.mem = Access(e.mem, {h}), !.left = e.mem.num_files[e.hand], !.open = TRUE]
        BY <2>1, <2>3 DEF OpenBucket
      <4> HIDE DEF x, h
      <4> QED
        BY <3>2, <3>3, <4>1
    <3> HIDE DEF x
    <3>5. x.mem = e.mem /\ x.left = 1 /\ x.hand = e.hand
      BY <1>1, <3>4 DEF EvictType
    <3> QED
      BY <1>1, <1>2, <2>3, <3>5 DEF TidyEvictions, x
  <2> QED
    BY <2>2, <2>3
<1>5. CASE ~EvictDone(e) /\ e.open /\ e.left <= 0
  <2>1. x = [e EXCEPT !.open = FALSE, !.hand = (@ + 1) % Buckets]
    BY <1>5 DEF EvictTurn, NextBucket
  <2> HIDE DEF x
  <2>2. x.mem = e.mem /\ x.open = FALSE
    BY <1>1, <2>1 DEF EvictType
  <2> QED
    BY <1>1, <1>2, <2>2 DEF TidyEvictions, x
<1>6. CASE ~EvictDone(e) /\ e.open /\ ~(e.left <= 0)
  <2>1. x = EvictHead(e, amount)
    BY <1>6 DEF EvictTurn
  <2> QED
    BY <1>1, <1>6, <2>1, TidyEvictHead
<1> QED
  BY <1>3, <1>4, <1>5, <1>6

LEMMA TidyEvict ==
  ASSUME NEW m \in MemType, NEW h \in BucketLists, NEW amount \in Int, Tidy(m), NonePinned(m)
  PROVE  Evict(m, h, amount) \in TidyEvictions(m, amount)
<1> DEFINE r == IF amount > conf.max_cache_size THEN "fail" ELSE "none"
           start == [mem |-> m, hand |-> h, open |-> FALSE, left |-> 0, got |-> 0, result |-> r]
<1>1. r \in {"none", "fail"}
  OBVIOUS
<1> HIDE DEF r
<1>2. m.name \in [Nodes -> Files] /\ m.live \in SUBSET Nodes
  BY DEF MemType
<1>3. Total(m.name, m.live) \in Nat
  BY <1>2, TotalFacts
<1>4. EvictParts(m, amount, m, h, FALSE, 0, 0, r)
  BY <1>1, <1>3 DEF EvictParts, BucketLists
<1>5. start \in Evictions(m, amount)
  BY <1>4, EvictRecord
<1>6. start \in TidyEvictions(m, amount)
  BY <1>5 DEF TidyEvictions
<1>7. \A e \in TidyEvictions(m, amount) : EvictTurn(e, amount) \in TidyEvictions(m, amount)
  BY TidyEvictTurn
<1> QED
  BY <1>6, <1>7, EvictInduction DEF r

\* Appending to an empty list.
LEMMA FlatEnqueue ==
  ASSUME NEW m \in MemType, Closed(m), Flat(m), NEW l \in Lists, NEW n, n \in m.live,
         m.head[l] = Nil, m.num_files[l] = 0
  PROVE  LET r == Enqueue(m, l, n)
         IN  /\ Closed(r) /\ OtherLists(m, r, l) /\ Flat(r)
             /\ r.head[l] = n /\ r.num_files[l] = 1
<1> DEFINE r == Enqueue(m, l, n)
<1>1. /\ Closed(r) /\ OtherLists(m, r, l) /\ r.num_files[l] = m.num_files[l] + 1
      /\ r.head[l] = n /\ Flat(r)
  BY ClosedEnqueue
<1> HIDE DEF r
<1>2. r.num_files[l] = 1
  BY <1>1
<1> QED
  BY <1>1, <1>2 DEF r

\* A pin or an unpin leaves the buckets as they are.
LEMMA PinTidy ==
  ASSUME NEW m, Tidy(m), NEW r, ~r.fault, Flat(r), SameNodes(m, r), OtherLists(m, r, UsingRn)
  PROVE  Tidy(r)
<1>1. ASSUME NEW b \in BucketLists
      PROVE  r.head[b] = m.head[b] /\ r.num_files[b] = m.num_files[b] /\ InBucket(r, b) = InBucket(m, b)
  BY ListsAre DEF OtherLists, SameNodes, InBucket
<1>2. Single(r)
  BY <1>1 DEF Tidy, Single
<1> QED
  BY <1>2 DEF Tidy

\* The first copy of a file takes its empty bucket.
LEMMA TidyLink ==
  ASSUME conf \in ConfType, Injective, NEW m \in MemType, Tidy(m), NonePinned(m),
         NEW f \in Files, m.allocated < MaxRequests, m.live \subseteq 1 .. m.allocated,
         \A k \in m.live : m.name[k] # f
  PROVE  Tidy(Link(m, f)) /\ NonePinned(Link(m, f))
<1> DEFINE n == m.allocated + 1
           l == conf.hash[f]
           a == [m EXCEPT !.allocated = n, !.live = @ \cup {n}, !.name[n] = f]
           r == Link(m, f)
<1>1. m.allocated \in 0 .. MaxRequests /\ m.name \in [Nodes -> Files] /\ m.live \in SUBSET Nodes
  BY DEF MemType
<1>2. n \in Nodes /\ n \notin m.live /\ n \in 0 .. MaxRequests
  BY <1>1, Constants
<1>3. l \in BucketLists /\ l \in Lists
  BY ListsAre DEF ConfType, BucketLists
<1>4. r = Enqueue(a, l, n)
  BY DEF Link
<1> HIDE DEF n, l
<1>5. /\ a \in MemType /\ a.live = m.live \cup {n} /\ a.name = [m.name EXCEPT ![n] = f]
      /\ a.head = m.head /\ a.num_files = m.num_files /\ a.next = m.next /\ a.prev = m.prev
      /\ a.fault = m.fault
  BY <1>2 DEF MemType
<1> HIDE DEF a, r
<1>6. m.head[l] = Nil /\ m.num_files[l] = 0
  <2>1. InBucket(m, l) = {}
    <3> SUFFICES ASSUME NEW k \in m.live, conf.hash[m.name[k]] = l PROVE FALSE
      BY DEF InBucket
    <3>1. m.name[k] = f
      BY <1>1 DEF Injective, l
    <3> QED
      BY <3>1
  <2> QED
    BY <1>3, <2>1 DEF Tidy, Single
<1>7. Closed(a) /\ Flat(a)
  <2>1. Closed(m)
    BY TidyClosed DEF NonePinned
  <2> QED
    BY <1>5, <2>1 DEF Closed, Tidy, Flat
<1>8. /\ Closed(r) /\ OtherLists(a, r, l) /\ Flat(r) /\ r.head[l] = n /\ r.num_files[l] = 1
      /\ SameNodes(a, r)
  <2>1. n \in a.live /\ a.head[l] = Nil /\ a.num_files[l] = 0
    BY <1>5, <1>6
  <2> QED
    BY <1>2, <1>3, <1>4, <1>5, <1>7, <2>1, FlatEnqueue, EnqueueType
<1>9. r.live = m.live \cup {n} /\ r.name = [m.name EXCEPT ![n] = f]
  BY <1>5, <1>8 DEF SameNodes
<1>10. ASSUME NEW b \in BucketLists, b # l
       PROVE  IF r.head[b] = Nil THEN r.num_files[b] = 0 /\ InBucket(r, b) = {}
              ELSE r.num_files[b] = 1 /\ InBucket(r, b) = {r.head[b]}
  <2>1. r.head[b] = m.head[b] /\ r.num_files[b] = m.num_files[b]
    BY <1>5, <1>8, <1>10, ListsAre DEF OtherLists
  <2>2. InBucket(r, b) = InBucket(m, b)
    BY <1>1, <1>2, <1>9, <1>10 DEF InBucket, l
  <2> QED
    BY <2>1, <2>2 DEF Tidy, Single
<1>11. r.head[l] # Nil /\ r.num_files[l] = 1 /\ InBucket(r, l) = {r.head[l]}
  <2>1. InBucket(r, l) = {n}
    <3>1. ASSUME NEW k \in m.live PROVE conf.hash[r.name[k]] # l
      <4>1. r.name[k] = m.name[k] /\ m.name[k] \in Files /\ m.name[k] # f
        BY <1>1, <1>2, <1>9
      <4> QED
        BY <4>1 DEF Injective, l
    <3>2. conf.hash[r.name[n]] = l
      BY <1>1, <1>2, <1>9 DEF l
    <3> QED
      BY <1>9, <3>1, <3>2 DEF InBucket
  <2> QED
    BY <1>2, <1>8, <2>1, Constants
<1>12. Single(r)
  BY <1>10, <1>11 DEF Single
<1>13. NonePinned(r)
  BY <1>3, <1>5, <1>8, ListsAre DEF NonePinned, OtherLists
<1> QED
  BY <1>8, <1>12, <1>13 DEF Tidy, Closed, r

Pinning == pc[1] \in {"copy", "unpin"}

\* What one thread relies on: usingrn has its node exactly while it sends, the
\* node it found is there and has its file, and it inserts a file only if there
\* is no copy of it.
Alone ==
    /\ Tidy(mem)
    /\ IF Pinning THEN mem.head[UsingRn] = node[1] /\ mem.num_files[UsingRn] = 1
       ELSE NonePinned(mem)
    /\ pc[1] \in {"pin", "copy", "unpin"} => node[1] \in mem.live /\ mem.name[node[1]] = file[1]
    /\ pc[1] = "insert" => \A k \in mem.live : mem.name[k] # file[1]

AloneInv == Injective /\ conf.threads = 1 => Alone

LEMMA AloneFacts ==
  ASSUME CacheInv, conf.threads = 1, Alone
  PROVE  /\ Threads = {1} /\ mem \in MemType /\ Closed(mem)
         /\ conf \in ConfType /\ file[1] \in Files /\ Bucket(1) \in BucketLists
         /\ pc \in [Threads -> Locations]
         /\ file \in [Threads -> Files] /\ node \in [Threads -> Ptrs]
<1>1. TypeOK
  BY DEF CacheInv
<1>2. Threads = {1}
  BY DEF Threads
<1>3. mem \in MemType /\ conf \in ConfType /\ file[1] \in Files
  BY <1>1, <1>2, ConfFacts DEF TypeOK
<1>4. Bucket(1) \in BucketLists
  BY <1>3 DEF Bucket, ConfType, BucketLists
<1>5. mem.head[UsingRn] \in mem.live \cup {Nil}
  BY DEF Alone, Pinning, NonePinned
<1>6. Closed(mem)
  BY <1>3, <1>5, TidyClosed DEF Alone
<1> QED
  BY <1>1, <1>2, <1>3, <1>4, <1>6 DEF TypeOK

LEMMA InitAlone == Init => AloneInv
<1> SUFFICES ASSUME Init, conf.threads = 1 PROVE Alone
  BY DEF AloneInv
<1>1. pc[1] = "idle"
  BY DEF Init, Threads
<1>2. /\ \A l \in Lists : mem.head[l] = Nil /\ mem.num_files[l] = 0
      /\ mem.live = {} /\ mem.fault = FALSE /\ Flat(mem)
  BY DEF Init, Flat
<1>3. Tidy(mem) /\ NonePinned(mem)
  BY <1>2, ListsAre DEF Tidy, Single, NonePinned, InBucket
<1> QED
  BY <1>1, <1>3 DEF Alone, Pinning

\* Every step but an insertion.
LEMMA AloneRequest ==
  ASSUME CacheInv, conf.threads = 1, Injective, Alone, NEW f \in Files, Request(1, f)
  PROVE  Alone'
<1>1. 1 \in Threads /\ pc[1] = "idle" /\ pc'[1] = "lookup" /\ UNCHANGED <<mem, conf>>
  BY AloneFacts DEF Request, At, Goto
<1>2. ~Pinning /\ ~Pinning'
  BY <1>1 DEF Pinning
<1>3. Tidy(mem)' /\ NonePinned(mem)'
  BY <1>1, <1>2 DEF Alone, Tidy, Single, Flat, InBucket, NonePinned
<1> QED
  BY <1>1, <1>2, <1>3 DEF Alone

LEMMA AloneLookup ==
  ASSUME CacheInv, conf.threads = 1, Injective, Alone, Lookup(1)
  PROVE  Alone'
<1> DEFINE hit == Search(mem, Bucket(1), file[1])
<1>1. /\ 1 \in Threads /\ Threads = {1} /\ mem \in MemType /\ Closed(mem) /\ file[1] \in Files
      /\ Bucket(1) \in Lists /\ node \in [Threads -> Ptrs] /\ pc \in [Threads -> Locations]
  BY AloneFacts, ListsAre
<1>2. hit.mem = mem
  BY <1>1, ClosedSearch
<1>3. hit.node # Nil => hit.node \in mem.live /\ mem.name[hit.node] = file[1]
  BY <1>1, SearchType
<1> HIDE DEF hit
<1>4. /\ pc[1] = "lookup" /\ pc'[1] = (IF hit.node = Nil THEN "read" ELSE "pin")
      /\ mem' = mem /\ node'[1] = hit.node /\ UNCHANGED <<conf, file>>
  BY <1>1, <1>2 DEF Lookup, At, Goto, hit
<1>5. ~Pinning /\ ~Pinning'
  BY <1>4 DEF Pinning
<1>6. Tidy(mem)' /\ NonePinned(mem)'
  BY <1>4, <1>5 DEF Alone, Tidy, Single, Flat, InBucket, NonePinned
<1> QED
  BY <1>3, <1>4, <1>5, <1>6 DEF Alone

LEMMA AloneReadFile ==
  ASSUME CacheInv, conf.threads = 1, Injective, Alone, ReadFile(1)
  PROVE  Alone'
<1>1. PICK l \in {"recheck", "idle"} : Goto(1, l)
  BY DEF ReadFile
<1>2. pc[1] = "read" /\ pc'[1] = l /\ UNCHANGED <<mem, conf>>
  BY <1>1, AloneFacts DEF ReadFile, At, Goto
<1>3. ~Pinning /\ ~Pinning'
  BY <1>2 DEF Pinning
<1>4. Tidy(mem)' /\ NonePinned(mem)'
  BY <1>2, <1>3 DEF Alone, Tidy, Single, Flat, InBucket, NonePinned
<1> QED
  BY <1>2, <1>3, <1>4 DEF Alone

\* A second look that finds nothing means that there is no copy.
LEMMA AloneRecheck ==
  ASSUME CacheInv, conf.threads = 1, Injective, Alone, Recheck(1)
  PROVE  Alone'
<1> DEFINE idk == Search(mem, Bucket(1), file[1])
<1>1. /\ 1 \in Threads /\ mem \in MemType /\ Closed(mem) /\ file[1] \in Files
      /\ Bucket(1) \in Lists /\ Bucket(1) \in BucketLists /\ pc \in [Threads -> Locations]
  BY AloneFacts, ListsAre
<1>2. idk.mem = mem
  BY <1>1, ClosedSearch
<1>3. ASSUME idk.node = Nil, NEW k \in mem.live, mem.name[k] = file[1] PROVE FALSE
  <2>1. k \in InBucket(mem, Bucket(1))
    BY <1>3 DEF InBucket, Bucket
  <2>2. mem.head[Bucket(1)] = k /\ mem.num_files[Bucket(1)] = 1
    BY <1>1, <2>1 DEF Alone, Tidy, Single
  <2>3. k \in Nodes
    BY <1>1 DEF MemType
  <2>4. idk.node = k
    BY <1>1, <1>3, <2>2, <2>3, ClosedSearch, Constants
  <2> QED
    BY <1>3, <2>3, <2>4, Constants
<1> HIDE DEF idk
<1>4. /\ pc[1] = "recheck" /\ pc'[1] = (IF idk.node = Nil THEN "insert" ELSE "idle")
      /\ mem' = mem /\ UNCHANGED <<conf, file, node>>
  BY <1>1, <1>2 DEF Recheck, At, Goto, idk
<1>5. ~Pinning /\ ~Pinning'
  BY <1>4 DEF Pinning
<1>6. Tidy(mem)' /\ NonePinned(mem)'
  BY <1>4, <1>5 DEF Alone, Tidy, Single, Flat, InBucket, NonePinned
<1> QED
  BY <1>3, <1>4, <1>5, <1>6 DEF Alone

LEMMA AlonePin ==
  ASSUME CacheInv, conf.threads = 1, Injective, Alone, Pin(1)
  PROVE  Alone'
<1>1. /\ 1 \in Threads /\ mem \in MemType /\ Closed(mem) /\ pc \in [Threads -> Locations]
      /\ UsingRn \in Lists
  BY AloneFacts, ListsAre
<1>2. /\ pc[1] = "pin" /\ pc'[1] = "copy" /\ mem' = Enqueue(mem, UsingRn, node[1])
      /\ UNCHANGED <<conf, file, node>>
  BY <1>1 DEF Pin, At, Goto
<1>3. /\ node[1] \in mem.live /\ node[1] \in Nodes /\ mem.name[node[1]] = file[1]
      /\ Tidy(mem) /\ NonePinned(mem)
  BY <1>1, <1>2 DEF Alone, Pinning, MemType
<1>4. /\ Closed(mem') /\ OtherLists(mem, mem', UsingRn) /\ Flat(mem')
      /\ mem'.head[UsingRn] = node[1] /\ mem'.num_files[UsingRn] = 1
      /\ SameNodes(mem, mem')
  BY <1>1, <1>2, <1>3, FlatEnqueue, EnqueueType DEF NonePinned, Tidy
<1>5. Tidy(mem')
  BY <1>3, <1>4, PinTidy DEF Closed
<1>6. Tidy(mem)'
  <2>1. conf' = conf
    BY <1>2
  <2> QED
    BY <1>5, <2>1 DEF Tidy, Single, Flat, InBucket
<1>7. Pinning'
  BY <1>2 DEF Pinning
<1> QED
  BY <1>2, <1>3, <1>4, <1>6, <1>7 DEF Alone, SameNodes

LEMMA AloneCopy ==
  ASSUME CacheInv, conf.threads = 1, Injective, Alone, Copy(1)
  PROVE  Alone'
<1>1. 1 \in Threads /\ mem \in MemType /\ Closed(mem) /\ pc \in [Threads -> Locations]
  BY AloneFacts
<1>2. /\ pc[1] = "copy" /\ pc'[1] = "unpin" /\ mem' = Access(mem, {node[1]})
      /\ UNCHANGED <<conf, file, node>>
  BY <1>1 DEF Copy, At, Goto
<1>3. mem' = mem
  <2>1. {node[1]} \subseteq mem.live
    BY <1>2 DEF Alone
  <2> QED
    BY <1>1, <1>2, <2>1, ClosedAccess
<1>4. Pinning /\ Pinning'
  BY <1>2 DEF Pinning
<1>5. Tidy(mem)'
  <2>1. Tidy(mem) /\ conf' = conf
    BY <1>2 DEF Alone
  <2> QED
    BY <1>3, <2>1 DEF Tidy, Single, Flat, InBucket
<1> QED
  BY <1>2, <1>3, <1>4, <1>5 DEF Alone

LEMMA AloneUnpin ==
  ASSUME CacheInv, conf.threads = 1, Injective, Alone, Unpin(1)
  PROVE  Alone'
<1>1. /\ 1 \in Threads /\ mem \in MemType /\ Closed(mem) /\ file[1] \in Files
      /\ pc \in [Threads -> Locations] /\ UsingRn \in Lists
  BY AloneFacts, ListsAre
<1>2. /\ pc[1] = "unpin" /\ pc'[1] = "idle" /\ mem' = Pop(mem, UsingRn, file[1])
      /\ UNCHANGED <<conf, file, node>>
  BY <1>1 DEF Unpin, At, Goto
<1>3. /\ mem.head[UsingRn] = node[1] /\ mem.num_files[UsingRn] = 1
      /\ node[1] \in mem.live /\ mem.name[node[1]] = file[1] /\ Tidy(mem)
  BY <1>2 DEF Alone, Pinning
<1>4. node[1] # Nil
  BY <1>1, <1>3, Constants DEF MemType
<1>5. /\ Closed(mem') /\ OtherLists(mem, mem', UsingRn) /\ Flat(mem')
      /\ mem'.head[UsingRn] = Nil /\ mem'.num_files[UsingRn] = 0
      /\ SameNodes(mem, mem')
  BY <1>1, <1>2, <1>3, <1>4, ClosedPop, PopType DEF Tidy
<1>6. Tidy(mem')
  BY <1>3, <1>5, PinTidy DEF Closed
<1>7. Tidy(mem)' /\ NonePinned(mem)'
  BY <1>2, <1>5, <1>6 DEF Tidy, Single, Flat, InBucket, NonePinned
<1>8. ~Pinning'
  BY <1>2 DEF Pinning
<1> QED
  BY <1>2, <1>7, <1>8 DEF Alone

\* A request that is not idle has a node left to allocate.
LEMMA RoomToAllocate ==
  ASSUME CacheInv, NEW t \in Threads, pc[t] # "idle"
  PROVE  mem.allocated \in Nat /\ mem.allocated < MaxRequests
<1>1. mem.allocated + Cardinality(Busy) <= requests
  BY DEF CacheInv
<1>2. mem.allocated \in Nat /\ requests \in 0 .. MaxRequests /\ conf \in Confs
  BY DEF CacheInv, TypeOK, MemType
<1>3. Busy \in SUBSET Threads /\ IsFiniteSet(Busy) /\ Cardinality(Busy) \in Nat /\ Busy # {}
  BY <1>2, ConfFacts DEF Busy
<1>4. Cardinality(Busy) # 0
  BY <1>3, FS_EmptySet
<1> QED
  BY <1>1, <1>2, <1>3, <1>4, Constants

LEMMA AloneInsert ==
  ASSUME CacheInv, conf.threads = 1, Injective, Alone, Insert(1)
  PROVE  Alone'
<1> DEFINE over == Size[file[1]] + cache_size - conf.max_cache_size
           e    == Evict(mem, hand, over)
<1>1. /\ 1 \in Threads /\ mem \in MemType /\ file[1] \in Files /\ conf \in ConfType
      /\ pc \in [Threads -> Locations] /\ UsingRn \in Lists
  BY AloneFacts, ListsAre
<1>2. pc[1] = "insert" /\ pc'[1] = "idle" /\ UNCHANGED <<conf, file, node>>
  BY <1>1 DEF Insert, At, Goto
<1>3. ~Pinning /\ ~Pinning'
  BY <1>2 DEF Pinning
<1>4. /\ Tidy(mem) /\ NonePinned(mem) /\ \A k \in mem.live : mem.name[k] # file[1]
      /\ mem.allocated < MaxRequests /\ mem.live \subseteq 1 .. mem.allocated
  BY <1>1, <1>2, <1>3, RoomToAllocate DEF Alone, CacheInv
<1>5. mem' = mem \/ mem' = Link(mem, file[1]) \/ mem' = e.mem \/ mem' = Link(e.mem, file[1])
  BY DEF Insert
<1>6. /\ e.mem \in MemType /\ Tidy(e.mem) /\ NonePinned(e.mem)
      /\ e.mem.live \subseteq mem.live /\ e.mem.name = mem.name /\ e.mem.allocated = mem.allocated
  <2>1. hand \in BucketLists /\ over \in Int
    <3>1. hand \in BucketLists /\ cache_size \in Int /\ conf.max_cache_size \in Int
      BY <1>1 DEF CacheInv, TypeOK, BucketLists, ConfType
    <3>2. Size[file[1]] \in Int
      BY <1>1, Constants
    <3> QED
      BY <3>1, <3>2
  <2> HIDE DEF over
  <2>2. e \in TidyEvictions(mem, over)
    BY <1>1, <1>4, <2>1, TidyEvict
  <2> QED
    BY <2>2 DEF TidyEvictions, Evictions, EvictType
<1> HIDE DEF e
<1>7. Tidy(mem') /\ NonePinned(mem')
  <2>1. ASSUME NEW m, m \in {mem, e.mem}
        PROVE  Tidy(m) /\ NonePinned(m) /\ Tidy(Link(m, file[1])) /\ NonePinned(Link(m, file[1]))
    <3>1. /\ m \in MemType /\ Tidy(m) /\ NonePinned(m)
          /\ m.allocated < MaxRequests /\ m.live \subseteq 1 .. m.allocated
          /\ \A k \in m.live : m.name[k] # file[1]
      BY <1>1, <1>4, <1>6, <2>1
    <3> QED
      BY <1>1, <3>1, TidyLink
  <2> QED
    BY <1>5, <2>1
<1>8. Tidy(mem)' /\ NonePinned(mem)'
  BY <1>2, <1>7 DEF Tidy, Single, Flat, InBucket, NonePinned
<1> QED
  BY <1>2, <1>3, <1>8 DEF Alone

LEMMA StepAlone == CacheInv /\ AloneInv /\ [Next]_vars => AloneInv'
<1> SUFFICES ASSUME CacheInv, AloneInv, [Next]_vars, Injective', conf'.threads = 1 PROVE Alone'
  BY DEF AloneInv
<1>1. conf' = conf
  BY DEF Next, vars, Request, Lookup, ReadFile, Recheck, Insert, Pin, Copy, Unpin, Terminated
<1>2. Injective /\ conf.threads = 1 /\ Alone
  BY <1>1 DEF Injective, AloneInv
<1>3. Threads = {1}
  BY <1>2 DEF Threads
<1>4. CASE UNCHANGED vars
  BY <1>2, <1>4 DEF vars, Alone, Tidy, Single, Flat, InBucket, NonePinned, Pinning
<1>5. CASE \E t \in Threads : \/ \E f \in Files : Request(t, f)
                             \/ Lookup(t) \/ ReadFile(t) \/ Recheck(t) \/ Insert(t)
                             \/ Pin(t) \/ Copy(t) \/ Unpin(t)
  BY <1>2, <1>3, <1>5, AloneRequest, AloneLookup, AloneReadFile, AloneRecheck, AloneInsert,
     AlonePin, AloneCopy, AloneUnpin
<1> QED
  BY <1>4, <1>5 DEF Next, Terminated

THEOREM AloneInvariance == Spec => []AloneInv
<1> QED
  BY InitAlone, StepAlone, CacheInvariance, PTL DEF Spec

\* Reach of a list without a second node.
LEMMA ReachAlone ==
  ASSUME mem \in MemType, Flat(mem), NEW l \in Lists,
         mem.head[l] \in mem.live \cup {Nil}
  PROVE  Reach(l) = {mem.head[l]} \ {Nil}
<1> DEFINE w == Walk(mem, l)
<1>1. w[1] = mem.head[l]
  BY WalkFacts
<1>2. ASSUME NEW k \in Nodes, k # 1 PROVE w[k] = Nil
  <2>1. k \in 2 .. (MaxRequests + 1) /\ k - 1 \in 1 .. (MaxRequests + 1)
    BY <1>2, Constants
  <2>2. w[k] = LET p == w[k - 1] IN IF p \in mem.live THEN mem.next[p] ELSE Nil
    BY <2>1, WalkFacts
  <2> HIDE DEF w
  <2> QED
    BY <2>2 DEF Flat, MemType
<1>3. mem.head[l] # Nil => 1 \in Nodes
  <2>1. mem.head[l] # Nil => mem.head[l] \in Nodes
    BY DEF MemType
  <2> QED
    BY <2>1, Constants
<1> HIDE DEF w
<1>4. {w[k] : k \in Nodes} \ {Nil} = {mem.head[l]} \ {Nil}
  BY <1>1, <1>2, <1>3
<1> QED
  BY <1>4 DEF Reach, w

LEMMA OneIs == \A x : Cardinality({x}) = 1 /\ IsFiniteSet({x})
BY FS_Singleton

\* With one thread and no collisions the lists stay whole: each bucket holds the
\* files that belong there, once, and counts them, and usingrn holds the file
\* being sent, through every hit, miss, eviction and pin.
THEOREM IntactCorrect == Spec => []Intact
<1>1. ASSUME CacheInv, Alone, Injective, conf.threads = 1
      PROVE  /\ \A b \in BucketLists : /\ Reach(b) = InBucket(mem, b)
                                       /\ mem.num_files[b] = Cardinality(Reach(b))
             /\ \A f \in Files : Cardinality(CopiesOf(f)) <= 1
             /\ Pinning => Reach(UsingRn) = {node[1]} /\ mem.num_files[UsingRn] = 1
             /\ ~Pinning => Reach(UsingRn) = {} /\ mem.num_files[UsingRn] = 0
  <2>1. /\ mem \in MemType /\ Closed(mem) /\ Flat(mem) /\ Single(mem)
        /\ conf \in ConfType /\ UsingRn \in Lists /\ BucketLists \subseteq Lists
    BY <1>1, AloneFacts, ListsAre DEF Alone, Tidy
  <2>2. \A l \in Lists : Reach(l) = {mem.head[l]} \ {Nil}
    BY <2>1, ReachAlone DEF Closed
  <2>3. ASSUME NEW b \in BucketLists
        PROVE  /\ Reach(b) = InBucket(mem, b) /\ mem.num_files[b] = Cardinality(Reach(b))
               /\ Cardinality(InBucket(mem, b)) <= 1 /\ IsFiniteSet(InBucket(mem, b))
    <3>1. CASE mem.head[b] = Nil
      <4>1. Reach(b) = {} /\ InBucket(mem, b) = {} /\ mem.num_files[b] = 0
        BY <2>1, <2>2, <3>1 DEF Single
      <4> QED
        BY <4>1, FS_EmptySet
    <3>2. CASE mem.head[b] # Nil
      <4>1. Reach(b) = {mem.head[b]} /\ InBucket(mem, b) = {mem.head[b]} /\ mem.num_files[b] = 1
        BY <2>1, <2>2, <3>2 DEF Single
      <4> DEFINE I == InBucket(mem, b)
      <4>2. Cardinality(I) = 1 /\ IsFiniteSet(I)
        BY <4>1, OneIs
      <4>3. Reach(b) = I
        BY <4>1
      <4> HIDE DEF I
      <4>4. mem.num_files[b] = Cardinality(Reach(b)) /\ Cardinality(I) <= 1
        BY <4>1, <4>2, <4>3
      <4> QED
        BY <4>2, <4>3, <4>4 DEF I
    <3> QED
      BY <3>1, <3>2
  <2>4. ASSUME NEW f \in Files PROVE Cardinality(CopiesOf(f)) <= 1
    <3> DEFINE b == conf.hash[f]
    <3>1. b \in BucketLists
      BY <2>1 DEF ConfType, BucketLists
    <3>2. CopiesOf(f) \subseteq InBucket(mem, b)
      BY DEF CopiesOf, InBucket
    <3>3. IsFiniteSet(CopiesOf(f)) /\ Cardinality(CopiesOf(f)) <= Cardinality(InBucket(mem, b))
      BY <2>3, <3>1, <3>2, FS_Subset
    <3>4. Cardinality(CopiesOf(f)) \in Nat /\ Cardinality(InBucket(mem, b)) \in Nat
      BY <2>3, <3>1, <3>3, FS_CardinalityType
    <3> QED
      BY <2>3, <3>1, <3>3, <3>4
  <2>5. ASSUME Pinning PROVE Reach(UsingRn) = {node[1]} /\ mem.num_files[UsingRn] = 1
    <3>1. mem.head[UsingRn] = node[1] /\ node[1] \in mem.live /\ mem.num_files[UsingRn] = 1
      BY <1>1, <2>5 DEF Alone, Pinning
    <3>2. node[1] # Nil
      BY <2>1, <3>1, Constants DEF MemType
    <3> QED
      BY <2>1, <2>2, <3>1, <3>2
  <2>6. ASSUME ~Pinning PROVE Reach(UsingRn) = {} /\ mem.num_files[UsingRn] = 0
    BY <1>1, <2>1, <2>2, <2>6 DEF Alone, NonePinned
  <2> QED
    BY <2>3, <2>4, <2>5, <2>6
<1>2. CacheInv /\ AloneInv => Intact
  <2>1. Lists \ {UsingRn} = BucketLists
    BY ListsAre
  <2> QED
    BY <1>1, <2>1 DEF AloneInv, Intact, InBucket, Pinning
<1> QED
  BY <1>2, CacheInvariance, AloneInvariance, PTL

-----------------------------------------------------------------------------
(* Room for a copy of every file by every thread, and no collisions: nothing *)
(* is evicted, and whoever looks for a file that is there finds it.          *)

SizeSum == FoldSet(LAMBDA f, s : s + Size[f], 0, Files)

LEMMA SizeSumIs == \E F : IsSum(F, Files, Size) /\ SizeSum = F[Files]
<1>1. PICK F \in [SUBSET Files -> Nat] : IsSum(F, Files, Size)
  <2>1. Size \in [Files -> Nat]
    BY Constants
  <2> QED
    BY <2>1, SumExists
<1>2. PICK G : G = CHOOSE f : IsSum(f, Files, Size)
  OBVIOUS
<1>3. IsSum(G, Files, Size)
  BY <1>1, <1>2
<1>4. SizeSum = G[Files]
  BY <1>2 DEF SizeSum, FoldSet, MapThenFoldSet, IsSum, Choice
<1> QED
  BY <1>3, <1>4

LEMMA SizeSumNat == SizeSum \in Nat
<1>1. PICK F : IsSum(F, Files, Size) /\ SizeSum = F[Files]
  BY SizeSumIs
<1> DEFINE W == Size
           A == Files
<1>2. \A x \in A : W[x] \in Nat
  BY Constants
<1>3. IsFiniteSet(A) /\ IsSum(F, A, W)
  BY <1>1
<1> HIDE DEF W, A
<1>4. \A s \in SUBSET A : F[s] \in Nat
  BY <1>2, <1>3, SumRemove
<1>5. F[A] \in Nat
  BY <1>4
<1> QED
  BY <1>1, <1>5 DEF A

LEMMA AllFitNow == AllFit <=> conf.threads * SizeSum <= conf.max_cache_size
BY DEF AllFit, SizeSum

LEMMA AllFitThen == AllFit' <=> conf'.threads * SizeSum <= conf'.max_cache_size
<1>1. (AllFit <=> conf.threads * SizeSum <= conf.max_cache_size)'
  BY AllFitNow, PTL
<1> QED
  BY <1>1

LEMMA Multiples ==
  ASSUME NEW a \in Nat, NEW b \in Nat, NEW s \in Nat
  PROVE  /\ (a + 1) * s = a * s + s
         /\ a * (b + s) = a * b + a * s
         /\ a * s \in Nat
         /\ b <= a => b * s <= a * s
<1>1. (a + 1) * s = a * s + s /\ a * (b + s) = a * b + a * s /\ a * s \in Nat
  OBVIOUS
<1>2. ASSUME b <= a PROVE b * s <= a * s
  <2>1. PICK d \in Nat : a = b + d
    <3>1. a - b \in Nat /\ a = b + (a - b)
      BY <1>2
    <3> QED
      BY <3>1
  <2>2. a * s = b * s + d * s /\ d * s \in Nat /\ b * s \in Nat
    BY <2>1
  <2> QED
    BY <2>2
<1> QED
  BY <1>1, <1>2

\* Adding the copies of one file.
LEMMA TotalCopies ==
  ASSUME NEW name \in [Nodes -> Files], NEW A \in SUBSET Nodes, NEW C \in SUBSET Nodes,
         A \cap C = {}, NEW f \in Files, \A n \in C : name[n] = f
  PROVE  Total(name, A \cup C) = Total(name, A) + Cardinality(C) * Size[f]
<1> DEFINE s == Size[f]
           T == {j \in Nat : \A D \in SUBSET C : Cardinality(D) = j =>
                                Total(name, A \cup D) = Total(name, A) + j * s}
<1>1. \A D \in SUBSET C : IsFiniteSet(D) /\ Cardinality(D) \in Nat /\ (Cardinality(D) = 0 <=> D = {})
  <2>1. \A D \in SUBSET C : IsFiniteSet(D)
    BY NodesFinite
  <2> QED
    BY <2>1, FS_CardinalityType, FS_EmptySet
<1>2. s \in Nat
  BY Constants
<1>3. \A D \in SUBSET Nodes : Total(name, D) \in Nat
  BY TotalFacts
<1> HIDE DEF s
<1>4. 0 \in T
  <2>1. 0 * s = 0
    BY <1>2
  <2>2. \A D \in SUBSET C : Cardinality(D) = 0 => A \cup D = A
    BY <1>1
  <2> QED
    BY <1>3, <2>1, <2>2
<1>5. ASSUME NEW j \in Nat, j \in T PROVE j + 1 \in T
  <2> SUFFICES ASSUME NEW D \in SUBSET C, Cardinality(D) = j + 1
               PROVE  Total(name, A \cup D) = Total(name, A) + (j + 1) * s
    OBVIOUS
  <2>1. PICK d : d \in D
    BY <1>1
  <2> DEFINE E == D \ {d}
             AD == A \cup D
             AE == A \cup E
  <2>2. Cardinality(E) = j
    <3>1. Cardinality(E) = Cardinality(D) - 1
      BY <1>1, <2>1, FS_RemoveElement
    <3> QED
      BY <3>1
  <2>3. AE = AD \ {d} /\ d \in AD /\ AD \in SUBSET Nodes /\ AE \in SUBSET Nodes
    BY <2>1
  <2>4. Total(name, AE) = Total(name, A) + j * s
    BY <1>5, <2>2
  <2> HIDE DEF AD, AE, E
  <2>5. Total(name, AD) = Total(name, AE) + s
    <3>1. Total(name, AD) = Total(name, AD \ {d}) + Size[name[d]]
      BY <2>3, TotalFacts
    <3> QED
      BY <2>1, <2>3, <3>1 DEF s
  <2>6. (j + 1) * s = j * s + s /\ j * s \in Nat
    BY <1>2, Multiples
  <2>7. Total(name, AD) = Total(name, A) + (j + 1) * s
    BY <1>2, <1>3, <2>4, <2>5, <2>6
  <2> QED
    BY <2>7 DEF AD
<1> HIDE DEF T
<1>6. Nat \subseteq T
  BY <1>4, <1>5, SetInduction
<1>7. Cardinality(C) \in T
  BY <1>1, <1>6
<1> QED
  BY <1>7 DEF T, s

\* With at most k copies of each file the files have at most k times their sizes.
LEMMA TotalBound ==
  ASSUME NEW name \in [Nodes -> Files], NEW ns \in SUBSET Nodes, NEW k \in Nat,
         \A f \in Files : Cardinality({n \in ns : name[n] = f}) <= k
  PROVE  Total(name, ns) <= k * SizeSum
<1>1. PICK F : IsSum(F, Files, Size) /\ SizeSum = F[Files]
  BY SizeSumIs
<1>2. \A G \in SUBSET Files : F[G] \in Nat /\ \A x \in G : F[G] = F[G \ {x}] + Size[x]
  <2> DEFINE W == Size
             A == Files
  <2>1. \A x \in A : W[x] \in Nat
    BY Constants
  <2>2. IsFiniteSet(A) /\ IsSum(F, A, W)
    BY <1>1
  <2> HIDE DEF W, A
  <2>3. \A s \in SUBSET A : F[s] \in Nat /\ \A x \in s : F[s] = F[s \ {x}] + W[x]
    BY <2>1, <2>2, SumRemove
  <2> QED
    BY <2>3 DEF W, A
<1> DEFINE Of(G) == {n \in ns : name[n] \in G}
           T == {j \in Nat : \A G \in SUBSET Files : Cardinality(G) = j => Total(name, Of(G)) <= k * F[G]}
<1>3. \A G \in SUBSET Files : IsFiniteSet(G) /\ Cardinality(G) \in Nat /\ (Cardinality(G) = 0 <=> G = {})
  <2>1. \A G \in SUBSET Files : IsFiniteSet(G)
    BY FS_Subset
  <2> QED
    BY <2>1, FS_CardinalityType, FS_EmptySet
<1>4. 0 \in T
  <2> SUFFICES ASSUME NEW G \in SUBSET Files, Cardinality(G) = 0 PROVE Total(name, Of(G)) <= k * F[G]
    OBVIOUS
  <2>1. G = {} /\ Of(G) = {}
    BY <1>3
  <2>2. Total(name, Of(G)) = 0
    BY <2>1, TotalFacts
  <2>3. k * F[G] \in Nat
    BY <1>2, Multiples
  <2> HIDE DEF Of
  <2> QED
    BY <2>2, <2>3
<1>5. ASSUME NEW j \in Nat, j \in T PROVE j + 1 \in T
  <2> SUFFICES ASSUME NEW G \in SUBSET Files, Cardinality(G) = j + 1 PROVE Total(name, Of(G)) <= k * F[G]
    OBVIOUS
  <2>1. PICK x : x \in G
    BY <1>3
  <2> DEFINE H == G \ {x}
             C == {n \in ns : name[n] = x}
  <2>2. Cardinality(H) = j
    <3>1. Cardinality(H) = Cardinality(G) - 1
      BY <1>3, <2>1, FS_RemoveElement
    <3> QED
      BY <3>1
  <2>3. Total(name, Of(H)) <= k * F[H]
    <3>1. H \in SUBSET Files
      OBVIOUS
    <3> QED
      BY <1>5, <2>2, <3>1
  <2>4. /\ Of(G) = Of(H) \cup C /\ Of(H) \cap C = {} /\ Of(H) \in SUBSET Nodes /\ C \in SUBSET Nodes
        /\ x \in Files /\ \A n \in C : name[n] = x
    BY <2>1
  <2>5. Cardinality(C) <= k /\ Cardinality(C) \in Nat
    <3>1. IsFiniteSet(C)
      BY <2>4, NodesFinite
    <3> QED
      BY <2>4, <3>1, FS_CardinalityType
  <2>6. F[G] = F[H] + Size[x] /\ F[G] \in Nat /\ F[H] \in Nat /\ Size[x] \in Nat
    BY <1>2, <2>1, <2>4, Constants
  <2> HIDE DEF Of, H, C
  <2>7. Total(name, Of(G)) = Total(name, Of(H)) + Cardinality(C) * Size[x]
    BY <2>4, TotalCopies
  <2>8. Total(name, Of(H)) \in Nat
    BY <2>4, TotalFacts
  <2>9. /\ k * (F[H] + Size[x]) = k * F[H] + k * Size[x]
        /\ Cardinality(C) * Size[x] <= k * Size[x]
        /\ k * F[H] \in Nat /\ k * Size[x] \in Nat /\ Cardinality(C) * Size[x] \in Nat
    BY <2>5, <2>6, Multiples
  <2> QED
    BY <2>3, <2>6, <2>7, <2>8, <2>9
<1>6. Cardinality(Files) \in T
  <2> HIDE DEF T
  <2>1. Nat \subseteq T
    BY <1>4, <1>5, SetInduction
  <2> QED
    BY <1>3, <2>1
<1>7. Of(Files) = ns
  OBVIOUS
<1> HIDE DEF Of
<1> QED
  BY <1>1, <1>6, <1>7

Copies(m, f) == {n \in m.live : m.name[n] = f}

\* Threads that are about to insert f.
Inserters(f) == {t \in Threads : pc[t] = "insert" /\ file[t] = f}

\* A bucket with a head has a node that belongs there at its head, and the
\* bucket of every node has a head.
Heads(m) ==
    /\ \A b \in BucketLists :
          /\ m.num_files[b] >= 0
          /\ m.head[b] # Nil => m.num_files[b] >= 1 /\ conf.hash[m.name[m.head[b]]] = b
    /\ \A n \in m.live : m.head[conf.hash[m.name[n]]] # Nil

\* Everyone who will insert a file has been counted, so that cache_size stays
\* within what AllFit promises.
Roomy ==
    /\ Closed(mem) /\ Heads(mem)
    /\ \A t \in Threads : pc[t] \in {"pin", "copy", "unpin"} => node[t] \in mem.live
    /\ \A f \in Files : Cardinality(Copies(mem, f)) + Cardinality(Inserters(f)) <= conf.threads
    /\ cache_size = Total(mem.name, mem.live)

RoomyInv == Injective /\ AllFit => Roomy

LEMMA RoomyFacts ==
  ASSUME CacheInv
  PROVE  /\ mem \in MemType /\ conf \in Confs /\ conf \in ConfType
         /\ conf.threads \in Nat /\ conf.threads > 0
         /\ file \in [Threads -> Files] /\ node \in [Threads -> Ptrs] /\ pc \in [Threads -> Locations]
         /\ cache_size \in Nat /\ UsingRn \in Lists
         /\ \A t \in Threads : Bucket(t) \in BucketLists /\ Bucket(t) \in Lists
         /\ \A f \in Files : /\ Inserters(f) \subseteq Threads /\ IsFiniteSet(Inserters(f))
                             /\ Cardinality(Inserters(f)) \in Nat
         /\ Cardinality(Threads) = conf.threads
<1>1. TypeOK
  BY DEF CacheInv
<1>2. conf \in ConfType /\ conf.threads \in Nat /\ conf.threads > 0 /\ Threads = 1 .. conf.threads
      /\ \A T \in SUBSET Threads : IsFiniteSet(T) /\ Cardinality(T) \in Nat
  BY <1>1, ConfFacts DEF TypeOK
<1>3. \A t \in Threads : Bucket(t) \in BucketLists /\ Bucket(t) \in Lists
  BY <1>1, <1>2, ListsAre DEF TypeOK, ConfType, Bucket, BucketLists
<1>4. \A f \in Files : Inserters(f) \in SUBSET Threads
  BY DEF Inserters
<1>5. Cardinality(Threads) = conf.threads
  <2>1. Cardinality(1 .. conf.threads) = conf.threads
    BY <1>2, FS_Interval
  <2> QED
    BY <1>2, <2>1
<1> QED
  BY <1>1, <1>2, <1>3, <1>4, <1>5, ListsAre DEF TypeOK

LEMMA CopiesFinite ==
  ASSUME NEW m \in MemType, NEW f
  PROVE  Copies(m, f) \in SUBSET Nodes /\ IsFiniteSet(Copies(m, f)) /\ Cardinality(Copies(m, f)) \in Nat
<1>1. Copies(m, f) \in SUBSET Nodes
  BY DEF Copies, MemType
<1>2. IsFiniteSet(Copies(m, f))
  BY <1>1, NodesFinite
<1> QED
  BY <1>1, <1>2, FS_CardinalityType

\* A file that is there is found at the head of its bucket.
LEMMA HeadIsCopy ==
  ASSUME conf \in ConfType, Injective, NEW m \in MemType, Closed(m), Heads(m),
         NEW f \in Files, NEW k \in m.live, m.name[k] = f
  PROVE  Search(m, conf.hash[f], f).node # Nil
<1> DEFINE b == conf.hash[f]
<1>1. b \in BucketLists /\ b \in Lists
  BY ListsAre DEF ConfType, BucketLists
<1>2. m.head[b] # Nil
  BY DEF Heads
<1>3. m.head[b] \in m.live /\ m.head[b] \in Nodes
  BY <1>1, <1>2 DEF Closed, MemType
<1>4. m.name[m.head[b]] = f /\ m.num_files[b] >= 1
  <2>1. conf.hash[m.name[m.head[b]]] = b /\ m.num_files[b] >= 1
    BY <1>1, <1>2 DEF Heads
  <2>2. m.name[m.head[b]] \in Files
    BY <1>3 DEF MemType
  <2> QED
    BY <2>1, <2>2 DEF Injective
<1> HIDE DEF b
<1>5. Search(m, b, f).node = m.head[b]
  BY <1>1, <1>2, <1>4, ClosedSearch
<1> QED
  BY <1>2, <1>5 DEF b

LEMMA InitRoomy == Init => RoomyInv
<1> SUFFICES ASSUME Init PROVE Roomy
  BY DEF RoomyInv
<1>1. CacheInv
  BY InitCache
<1>2. \A t \in Threads : pc[t] = "idle"
  BY DEF Init
<1>3. /\ \A l \in Lists : mem.head[l] = Nil /\ mem.num_files[l] = 0
      /\ mem.live = {} /\ mem.fault = FALSE /\ Flat(mem) /\ cache_size = 0
  BY DEF Init, Flat
<1>4. Closed(mem) /\ Heads(mem)
  BY <1>3, ListsAre DEF Closed, Heads, Flat
<1>5. ASSUME NEW f \in Files
      PROVE  Cardinality(Copies(mem, f)) + Cardinality(Inserters(f)) <= conf.threads
  <2>1. Copies(mem, f) = {} /\ Inserters(f) = {}
    BY <1>2, <1>3 DEF Copies, Inserters
  <2>2. Cardinality(Copies(mem, f)) = 0 /\ Cardinality(Inserters(f)) = 0
    BY <2>1, FS_EmptySet
  <2> QED
    BY <1>1, <2>2, RoomyFacts
<1>6. Total(mem.name, mem.live) = 0
  <2>1. mem.name \in [Nodes -> Files] /\ mem.live \in SUBSET Nodes
    BY <1>1, RoomyFacts DEF MemType
  <2> QED
    BY <1>3, <2>1, TotalFacts
<1> QED
  BY <1>2, <1>3, <1>4, <1>5, <1>6 DEF Roomy

\* A step that leaves the files and the buckets alone.
LEMMA RoomySame ==
  ASSUME CacheInv, Roomy, UNCHANGED <<conf, cache_size>>,
         SameNodes(mem, mem'), Closed(mem'), OtherLists(mem, mem', UsingRn),
         \A s \in Threads : pc'[s] \in {"pin", "copy", "unpin"} => node'[s] \in mem.live,
         \A f \in Files : Copies(mem, f) = {} \/
            \A s \in Threads : pc'[s] = "insert" /\ file'[s] = f => pc[s] = "insert" /\ file[s] = f
  PROVE  Roomy'
<1>1. Heads(mem')
  <2>1. \A b \in BucketLists : mem'.head[b] = mem.head[b] /\ mem'.num_files[b] = mem.num_files[b]
    BY ListsAre DEF OtherLists
  <2>2. mem'.live = mem.live /\ mem'.name = mem.name
    BY DEF SameNodes
  <2>3. Heads(mem)
    BY DEF Roomy
  <2>4. \A n \in mem.live : conf.hash[mem.name[n]] \in BucketLists
    BY RoomyFacts DEF ConfType, BucketLists, MemType
  <2> QED
    BY <2>1, <2>2, <2>3, <2>4 DEF Heads
<1>2. Heads(mem)' /\ Closed(mem)'
  <2>1. conf' = conf
    OBVIOUS
  <2> QED
    BY <1>1, <2>1 DEF Heads, Closed
<1>3. Threads' = Threads
  BY DEF Threads
<1>4. ASSUME NEW f \in Files
      PROVE  (Cardinality(Copies(mem, f)) + Cardinality(Inserters(f)) <= conf.threads)'
  <2>1. Copies(mem, f)' = Copies(mem, f)
    BY DEF Copies, SameNodes
  <2>2. Inserters(f)' \in SUBSET Threads
    BY <1>3 DEF Inserters
  <2>3. IsFiniteSet(Threads) /\ IsFiniteSet(Inserters(f)')
        /\ Cardinality(Inserters(f)') \in Nat /\ Cardinality(Inserters(f)') <= Cardinality(Threads)
    <3>1. IsFiniteSet(Threads)
      BY RoomyFacts, ConfFacts
    <3> QED
      BY <2>2, <3>1, FS_Subset, FS_CardinalityType
  <2>4. CASE Copies(mem, f) = {}
    <3>1. Cardinality(Copies(mem, f)) = 0
      BY <2>4, FS_EmptySet
    <3> QED
      BY <2>1, <2>3, <3>1, RoomyFacts
  <2>5. CASE \A s \in Threads : pc'[s] = "insert" /\ file'[s] = f => pc[s] = "insert" /\ file[s] = f
    <3>1. Inserters(f)' \in SUBSET Inserters(f)
      BY <1>3, <2>5 DEF Inserters
    <3>2. Cardinality(Inserters(f)') <= Cardinality(Inserters(f)) /\ Cardinality(Inserters(f)) \in Nat
      BY <3>1, RoomyFacts, FS_Subset
    <3>3. Cardinality(Copies(mem, f)) + Cardinality(Inserters(f)) <= conf.threads
          /\ Cardinality(Copies(mem, f)) \in Nat /\ conf.threads \in Nat
      BY RoomyFacts, CopiesFinite DEF Roomy
    <3> QED
      BY <2>1, <2>3, <3>2, <3>3
  <2> QED
    BY <2>4, <2>5
<1>5. (\A t \in Threads : pc[t] \in {"pin", "copy", "unpin"} => node[t] \in mem.live)'
  BY <1>3 DEF SameNodes
<1>6. (cache_size = Total(mem.name, mem.live))'
  <2>1. cache_size = Total(mem.name, mem.live)
    BY DEF Roomy
  <2>2. mem'.name = mem.name /\ mem'.live = mem.live /\ cache_size' = cache_size
    BY DEF SameNodes
  <2> QED
    BY <2>1, <2>2
<1> QED
  BY <1>2, <1>4, <1>5, <1>6 DEF Roomy

\* Every step but an insertion.
LEMMA RoomyStep ==
  ASSUME CacheInv, Injective, Roomy, NEW t \in Threads,
         \/ \E f \in Files : Request(t, f)
         \/ Lookup(t) \/ ReadFile(t) \/ Recheck(t) \/ Pin(t) \/ Copy(t) \/ Unpin(t)
  PROVE  Roomy'
<1>1. /\ mem \in MemType /\ conf \in ConfType /\ pc \in [Threads -> Locations]
      /\ file \in [Threads -> Files] /\ node \in [Threads -> Ptrs]
      /\ UsingRn \in Lists /\ Bucket(t) \in Lists /\ file[t] \in Files
  BY RoomyFacts
<1>2. /\ Closed(mem) /\ Heads(mem)
      /\ \A s \in Threads : pc[s] \in {"pin", "copy", "unpin"} => node[s] \in mem.live
  BY DEF Roomy
<1>3. SameNodes(mem, mem) /\ OtherLists(mem, mem, UsingRn)
  BY DEF SameNodes, OtherLists
<1> DEFINE hit == Search(mem, Bucket(t), file[t])
<1>4. hit.mem = mem /\ (hit.node # Nil => hit.node \in mem.live)
  BY <1>1, <1>2, ClosedSearch, SearchType
<1>5. hit.node = Nil => Copies(mem, file[t]) = {}
  <2> SUFFICES ASSUME hit.node = Nil, NEW k \in Copies(mem, file[t]) PROVE FALSE
    OBVIOUS
  <2>1. k \in mem.live /\ mem.name[k] = file[t]
    BY DEF Copies
  <2> QED
    BY <1>1, <1>2, <2>1, HeadIsCopy DEF Bucket
<1> HIDE DEF hit
<1>6. CASE \E f \in Files : Request(t, f)
  <2>1. PICK f \in Files : Request(t, f)
    BY <1>6
  <2>2. /\ UNCHANGED <<conf, mem, cache_size, node>>
        /\ pc' = [pc EXCEPT ![t] = "lookup"] /\ file' = [file EXCEPT ![t] = f]
    BY <2>1 DEF Request, Goto
  <2>3. /\ \A s \in Threads : pc'[s] \in {"pin", "copy", "unpin"} => node'[s] \in mem.live
        /\ \A s \in Threads : pc'[s] = "insert" => pc[s] = "insert" /\ file'[s] = file[s]
    BY <1>1, <1>2, <2>2
  <2> QED
    BY <1>2, <1>3, <2>2, <2>3, RoomySame
<1>7. CASE Lookup(t)
  <2>1. /\ UNCHANGED <<conf, mem, cache_size, file>>
        /\ pc' = [pc EXCEPT ![t] = IF hit.node = Nil THEN "read" ELSE "pin"]
        /\ node' = [node EXCEPT ![t] = hit.node]
    BY <1>4, <1>7 DEF Lookup, Goto, hit
  <2>2. /\ \A s \in Threads : pc'[s] \in {"pin", "copy", "unpin"} => node'[s] \in mem.live
        /\ \A s \in Threads : pc'[s] = "insert" => pc[s] = "insert"
    BY <1>1, <1>2, <1>4, <2>1
  <2> QED
    BY <1>2, <1>3, <2>1, <2>2, RoomySame
<1>8. CASE ReadFile(t)
  <2>1. PICK l \in {"recheck", "idle"} : Goto(t, l)
    BY <1>8 DEF ReadFile
  <2>2. UNCHANGED <<conf, mem, cache_size, file, node>> /\ pc' = [pc EXCEPT ![t] = l]
    BY <1>8, <2>1 DEF ReadFile, Goto
  <2>3. /\ \A s \in Threads : pc'[s] \in {"pin", "copy", "unpin"} => node'[s] \in mem.live
        /\ \A s \in Threads : pc'[s] = "insert" => pc[s] = "insert"
    BY <1>1, <1>2, <2>2
  <2> QED
    BY <1>2, <1>3, <2>2, <2>3, RoomySame
<1>9. CASE Recheck(t)
  <2>1. /\ UNCHANGED <<conf, mem, cache_size, file, node>>
        /\ pc' = [pc EXCEPT ![t] = IF hit.node = Nil THEN "insert" ELSE "idle"]
    BY <1>4, <1>9 DEF Recheck, Goto, hit
  <2>2. /\ \A s \in Threads : pc'[s] \in {"pin", "copy", "unpin"} => node'[s] \in mem.live
        /\ \A s \in Threads : pc'[s] = "insert" => pc[s] = "insert" \/ (s = t /\ hit.node = Nil)
    BY <1>1, <1>2, <2>1
  <2>3. ASSUME NEW f \in Files
        PROVE  \/ Copies(mem, f) = {}
               \/ \A s \in Threads : pc'[s] = "insert" /\ file'[s] = f => pc[s] = "insert" /\ file[s] = f
    BY <1>5, <2>1, <2>2
  <2> QED
    BY <1>2, <1>3, <2>1, <2>2, <2>3, RoomySame
<1>10. CASE Pin(t)
  <2>1. /\ UNCHANGED <<conf, cache_size, file, node>> /\ pc[t] = "pin"
        /\ pc' = [pc EXCEPT ![t] = "copy"] /\ mem' = Enqueue(mem, UsingRn, node[t])
    BY <1>10 DEF Pin, Goto, At
  <2>2. node[t] \in mem.live /\ node[t] \in Nodes
    BY <1>1, <1>2, <2>1 DEF MemType
  <2>3. SameNodes(mem, mem') /\ Closed(mem') /\ OtherLists(mem, mem', UsingRn)
    BY <1>1, <1>2, <2>1, <2>2, ClosedEnqueue, EnqueueType
  <2>4. /\ \A s \in Threads : pc'[s] \in {"pin", "copy", "unpin"} => node'[s] \in mem.live
        /\ \A s \in Threads : pc'[s] = "insert" => pc[s] = "insert"
    BY <1>1, <1>2, <2>1, <2>2
  <2> QED
    BY <2>1, <2>3, <2>4, RoomySame
<1>11. CASE Copy(t)
  <2>1. /\ UNCHANGED <<conf, cache_size, file, node>> /\ pc[t] = "copy"
        /\ pc' = [pc EXCEPT ![t] = "unpin"] /\ mem' = Access(mem, {node[t]})
    BY <1>11 DEF Copy, Goto, At
  <2>2. mem' = mem
    <3>1. {node[t]} \subseteq mem.live
      BY <1>2, <2>1
    <3> QED
      BY <1>1, <1>2, <2>1, <3>1, ClosedAccess
  <2>3. /\ \A s \in Threads : pc'[s] \in {"pin", "copy", "unpin"} => node'[s] \in mem.live
        /\ \A s \in Threads : pc'[s] = "insert" => pc[s] = "insert"
    BY <1>1, <1>2, <2>1
  <2> QED
    BY <1>2, <1>3, <2>1, <2>2, <2>3, RoomySame
<1>12. CASE Unpin(t)
  <2>1. /\ UNCHANGED <<conf, cache_size, file, node>>
        /\ pc' = [pc EXCEPT ![t] = "idle"] /\ mem' = Pop(mem, UsingRn, file[t])
    BY <1>12 DEF Unpin, Goto
  <2>2. SameNodes(mem, mem') /\ Closed(mem') /\ OtherLists(mem, mem', UsingRn)
    BY <1>1, <1>2, <2>1, ClosedPop, PopType
  <2>3. /\ \A s \in Threads : pc'[s] \in {"pin", "copy", "unpin"} => node'[s] \in mem.live
        /\ \A s \in Threads : pc'[s] = "insert" => pc[s] = "insert"
    BY <1>1, <1>2, <2>1
  <2> QED
    BY <2>1, <2>2, <2>3, RoomySame
<1> QED
  BY <1>6, <1>7, <1>8, <1>9, <1>10, <1>11, <1>12

\* The head of a list after an append.
LEMMA EnqueueHead ==
  ASSUME NEW m \in MemType, Closed(m), NEW l \in Lists, NEW n, n \in m.live,
         NEW r, r = Enqueue(m, l, n)
  PROVE  /\ Closed(r) /\ OtherLists(m, r, l) /\ r.num_files[l] = m.num_files[l] + 1
         /\ r.head[l] = n \/ (r.head[l] = m.head[l] /\ m.head[l] # Nil)
BY ClosedEnqueue

\* The file linked into its bucket, whether or not it is the first of its copies.
LEMMA RoomyLink ==
  ASSUME conf \in ConfType, NEW m \in MemType, Closed(m), Heads(m), NEW f \in Files,
         m.allocated < MaxRequests, m.live \subseteq 1 .. m.allocated
  PROVE  Closed(Link(m, f)) /\ Heads(Link(m, f))
<1> DEFINE n == m.allocated + 1
           l == conf.hash[f]
           a == [m EXCEPT !.allocated = n, !.live = @ \cup {n}, !.name[n] = f]
           r == Link(m, f)
<1>1. m.allocated \in 0 .. MaxRequests /\ m.name \in [Nodes -> Files] /\ m.live \in SUBSET Nodes
  BY DEF MemType
<1>2. n \in Nodes /\ n \notin m.live /\ n \in 0 .. MaxRequests
  BY <1>1, Constants
<1>3. l \in BucketLists /\ l \in Lists
  BY ListsAre DEF ConfType, BucketLists
<1>4. r = Enqueue(a, l, n)
  BY DEF Link
<1> HIDE DEF n, l
<1>5. /\ a \in MemType /\ a.live = m.live \cup {n} /\ a.name = [m.name EXCEPT ![n] = f]
      /\ a.head = m.head /\ a.num_files = m.num_files /\ a.next = m.next /\ a.prev = m.prev
      /\ a.fault = m.fault
  BY <1>2 DEF MemType
<1> HIDE DEF a, r
<1>6. Closed(a) /\ n \in a.live
  BY <1>5 DEF Closed
<1>7. /\ Closed(r) /\ OtherLists(a, r, l) /\ SameNodes(a, r)
      /\ r.num_files[l] = a.num_files[l] + 1
      /\ r.head[l] = n \/ (r.head[l] = a.head[l] /\ a.head[l] # Nil)
  <2>1. /\ Closed(r) /\ OtherLists(a, r, l) /\ r.num_files[l] = a.num_files[l] + 1
        /\ r.head[l] = n \/ (r.head[l] = a.head[l] /\ a.head[l] # Nil)
    BY <1>3, <1>4, <1>5, <1>6, EnqueueHead
  <2>2. SameNodes(a, r)
    BY <1>2, <1>3, <1>4, <1>5, EnqueueType
  <2> QED
    BY <2>1, <2>2
<1>8. r.live = m.live \cup {n} /\ r.name = [m.name EXCEPT ![n] = f]
  BY <1>5, <1>7 DEF SameNodes
<1>9. n # Nil
  BY <1>2, Constants
<1>10. ASSUME NEW b \in BucketLists
       PROVE  /\ r.num_files[b] >= 0
              /\ r.head[b] # Nil => r.num_files[b] >= 1 /\ conf.hash[r.name[r.head[b]]] = b
              /\ m.head[b] # Nil => r.head[b] # Nil
  <2>1. /\ m.num_files[b] >= 0 /\ m.num_files[b] \in Int /\ b \in Lists
        /\ m.head[b] # Nil => m.num_files[b] >= 1 /\ conf.hash[m.name[m.head[b]]] = b
    BY ListsAre DEF Heads, MemType
  <2>2. m.head[b] # Nil => m.head[b] \in m.live /\ r.name[m.head[b]] = m.name[m.head[b]]
    <3>1. Closed(m)
      OBVIOUS
    <3>2. m.head[b] # Nil => m.head[b] \in m.live
      BY <2>1, <3>1 DEF Closed
    <3> QED
      BY <1>1, <1>2, <1>8, <3>2
  <2>3. CASE b # l
    <3>1. r.head[b] = m.head[b] /\ r.num_files[b] = m.num_files[b]
      BY <1>5, <1>7, <2>1, <2>3 DEF OtherLists
    <3> QED
      BY <2>1, <2>2, <3>1
  <2>4. CASE b = l
    <3>1. r.num_files[b] = m.num_files[b] + 1
      BY <1>5, <1>7, <2>4
    <3>2. conf.hash[r.name[n]] = l
      BY <1>1, <1>2, <1>8 DEF l
    <3>3. r.head[b] = n \/ (r.head[b] = m.head[b] /\ m.head[b] # Nil)
      BY <1>5, <1>7, <2>4
    <3> QED
      BY <1>9, <2>1, <2>2, <2>4, <3>1, <3>2, <3>3
  <2> QED
    BY <2>3, <2>4
<1>11. ASSUME NEW k \in r.live PROVE r.head[conf.hash[r.name[k]]] # Nil
  <2>1. CASE k = n
    <3>1. conf.hash[r.name[k]] = l
      BY <1>1, <1>2, <1>8, <2>1 DEF l
    <3> QED
      BY <1>7, <1>9, <3>1
  <2>2. CASE k # n
    <3>1. k \in m.live /\ r.name[k] = m.name[k] /\ m.name[k] \in Files
      BY <1>1, <1>2, <1>8, <2>2
    <3>2. conf.hash[m.name[k]] \in BucketLists /\ m.head[conf.hash[m.name[k]]] # Nil
      BY <3>1 DEF Heads, ConfType, BucketLists
    <3> QED
      BY <1>10, <3>1, <3>2
  <2> QED
    BY <2>1, <2>2
<1>12. Heads(r)
  BY <1>10, <1>11 DEF Heads
<1> QED
  BY <1>7, <1>12 DEF r

\* With a copy of f counted for every thread that has one or will, there is room
\* for the next.
LEMMA RoomyInsert ==
  ASSUME CacheInv, Injective, AllFit, Roomy, NEW t \in Threads, Insert(t)
  PROVE  Roomy'
<1> DEFINE f    == file[t]
           size == Size[f]
           r    == Link(mem, f)
           n    == mem.allocated + 1
<1>1. /\ mem \in MemType /\ conf \in Confs /\ conf \in ConfType /\ pc \in [Threads -> Locations]
      /\ f \in Files /\ conf.threads \in Nat /\ cache_size \in Nat
      /\ conf.max_cache_size \in Nat /\ size \in Nat
  BY RoomyFacts, ConfFacts, Constants
<1>2. /\ Closed(mem) /\ Heads(mem)
      /\ \A s \in Threads : pc[s] \in {"pin", "copy", "unpin"} => node[s] \in mem.live
      /\ \A g \in Files : Cardinality(Copies(mem, g)) + Cardinality(Inserters(g)) <= conf.threads
      /\ cache_size = Total(mem.name, mem.live)
  BY DEF Roomy
<1>3. pc[t] = "insert" /\ pc' = [pc EXCEPT ![t] = "idle"] /\ UNCHANGED <<conf, file, node>>
  BY DEF Insert, At, Goto
<1>4. mem.allocated < MaxRequests /\ mem.live \subseteq 1 .. mem.allocated
  BY <1>3, RoomToAllocate DEF CacheInv
<1>5. /\ n \in Nodes /\ n \notin mem.live /\ r \in MemType
      /\ r.live = mem.live \cup {n} /\ r.name = [mem.name EXCEPT ![n] = f]
      /\ Total(r.name, r.live) = Total(mem.name, mem.live) + size
  BY <1>1, <1>4, LinkFacts
<1>6. Closed(r) /\ Heads(r)
  BY <1>1, <1>2, <1>4, RoomyLink
<1> HIDE DEF r, n, f
<1>7. mem.name \in [Nodes -> Files] /\ mem.live \in SUBSET Nodes
  BY <1>1 DEF MemType
<1>8. ASSUME NEW g \in Files
      PROVE  Cardinality(Copies(r, g)) + Cardinality(Inserters(g)') <= conf.threads
  <2>1. /\ IsFiniteSet(Copies(mem, g)) /\ Cardinality(Copies(mem, g)) \in Nat
        /\ IsFiniteSet(Inserters(g)) /\ Cardinality(Inserters(g)) \in Nat
    BY <1>1, CopiesFinite, RoomyFacts
  <2>2. Threads' = Threads
    BY <1>3 DEF Threads
  <2>3. CASE g = f
    <3>1. Copies(r, g) = Copies(mem, g) \cup {n} /\ n \notin Copies(mem, g)
      BY <1>5, <1>7, <2>3 DEF Copies
    <3>2. Cardinality(Copies(r, g)) = Cardinality(Copies(mem, g)) + 1
      BY <2>1, <3>1, FS_AddElement
    <3>3. Inserters(g)' = Inserters(g) \ {t} /\ t \in Inserters(g)
      BY <1>1, <1>3, <2>2, <2>3 DEF Inserters, f
    <3>4. Cardinality(Inserters(g)') = Cardinality(Inserters(g)) - 1
      <4>1. Cardinality(Inserters(g) \ {t}) = Cardinality(Inserters(g)) - 1
        BY <2>1, <3>3, FS_RemoveElement
      <4> QED
        BY <3>3, <4>1
    <3> QED
      BY <1>1, <1>2, <2>1, <3>2, <3>4
  <2>4. CASE g # f
    <3>1. Copies(r, g) = Copies(mem, g)
      BY <1>5, <1>7, <2>4 DEF Copies
    <3>2. Inserters(g)' = Inserters(g)
      BY <1>1, <1>3, <2>2, <2>4 DEF Inserters, f
    <3> QED
      BY <1>2, <3>1, <3>2
  <2> QED
    BY <2>3, <2>4
<1>9. Total(r.name, r.live) <= conf.max_cache_size
  <2>1. \A g \in Files : Cardinality({k \in r.live : r.name[k] = g}) <= conf.threads
    <3> TAKE g \in Files
    <3>1. Inserters(g)' \subseteq Inserters(g)
      BY <1>1, <1>3 DEF Inserters, Threads
    <3>2. IsFiniteSet(Inserters(g)') /\ Cardinality(Inserters(g)') \in Nat
      BY <3>1, RoomyFacts, FS_Subset, FS_CardinalityType
    <3>3. Cardinality(Copies(r, g)) \in Nat
      BY <1>5, CopiesFinite
    <3>4. Cardinality(Copies(r, g)) <= conf.threads
      BY <1>1, <1>8, <3>2, <3>3
    <3> QED
      BY <3>4 DEF Copies
  <2>2. r.name \in [Nodes -> Files] /\ r.live \in SUBSET Nodes
    BY <1>5 DEF MemType
  <2>3. Total(r.name, r.live) <= conf.threads * SizeSum
    BY <1>1, <2>1, <2>2, TotalBound
  <2>4. conf.threads * SizeSum <= conf.max_cache_size
    BY AllFitNow
  <2>5. conf.threads * SizeSum \in Nat
    <3>1. SizeSum \in Nat
      BY SizeSumNat
    <3> QED
      BY <1>1, <3>1, Multiples
  <2>6. Total(r.name, r.live) \in Nat
    BY <2>2, TotalFacts
  <2> QED
    BY <1>1, <2>3, <2>4, <2>5, <2>6
<1>10. mem' = r /\ cache_size' = cache_size + size
  <2>1. ~(size > conf.max_cache_size) /\ ~(size + cache_size - conf.max_cache_size > 0)
    BY <1>1, <1>2, <1>5, <1>9
  <2> QED
    BY <2>1 DEF Insert, r, f
<1>11. Closed(mem)' /\ Heads(mem)'
  <2>1. Closed(mem') /\ Heads(mem') /\ conf' = conf
    BY <1>3, <1>6, <1>10
  <2> QED
    BY <2>1 DEF Closed, Heads
<1>12. (\A s \in Threads : pc[s] \in {"pin", "copy", "unpin"} => node[s] \in mem.live)'
  <2>1. Threads' = Threads
    BY <1>3 DEF Threads
  <2> QED
    BY <1>1, <1>2, <1>3, <1>5, <1>10, <2>1
<1>13. (\A g \in Files : Cardinality(Copies(mem, g)) + Cardinality(Inserters(g)) <= conf.threads)'
  <2> SUFFICES ASSUME NEW g \in Files
               PROVE  Cardinality(Copies(mem, g)') + Cardinality(Inserters(g)') <= conf'.threads
    OBVIOUS
  <2>1. Copies(mem, g)' = Copies(r, g)
    BY <1>10 DEF Copies
  <2> QED
    BY <1>3, <1>8, <2>1
<1>14. (cache_size = Total(mem.name, mem.live))'
  BY <1>2, <1>5, <1>10
<1> QED
  BY <1>11, <1>12, <1>13, <1>14 DEF Roomy

LEMMA StepRoomy == CacheInv /\ RoomyInv /\ [Next]_vars => RoomyInv'
<1> SUFFICES ASSUME CacheInv, RoomyInv, [Next]_vars, Injective', AllFit' PROVE Roomy'
  BY DEF RoomyInv
<1>1. conf' = conf
  BY DEF Next, vars, Request, Lookup, ReadFile, Recheck, Insert, Pin, Copy, Unpin, Terminated
<1>2. Injective /\ AllFit /\ Roomy
  <2>1. Injective
    BY <1>1 DEF Injective
  <2>2. AllFit
    BY <1>1, AllFitNow, AllFitThen
  <2> QED
    BY <2>1, <2>2 DEF RoomyInv
<1>3. CASE UNCHANGED vars
  <2>1. Threads' = Threads
    BY <1>1 DEF Threads
  <2>2. UNCHANGED <<conf, mem, cache_size, pc, file, node>>
    BY <1>3 DEF vars
  <2>3. SameNodes(mem, mem') /\ OtherLists(mem, mem', UsingRn) /\ Closed(mem')
    BY <1>2, <2>2 DEF SameNodes, OtherLists, Roomy
  <2>4. \A s \in Threads : pc'[s] \in {"pin", "copy", "unpin"} => node'[s] \in mem.live
    BY <1>2, <2>2 DEF Roomy
  <2>5. \A s \in Threads : pc'[s] = "insert" => pc[s] = "insert" /\ file'[s] = file[s]
    BY <2>2
  <2> QED
    BY <1>2, <2>2, <2>3, <2>4, <2>5, RoomySame
<1>4. CASE \E t \in Threads : \/ \E f \in Files : Request(t, f)
                             \/ Lookup(t) \/ ReadFile(t) \/ Recheck(t) \/ Insert(t)
                             \/ Pin(t) \/ Copy(t) \/ Unpin(t)
  BY <1>2, <1>4, RoomyStep, RoomyInsert
<1> QED
  BY <1>3, <1>4 DEF Next, Terminated

\* With room for everything and no collisions, the heads of the buckets, the
\* nodes that threads hold and the counts of copies: an inductive invariant.
THEOREM RoomyInvariance == Spec => []RoomyInv
<1> QED
  BY InitRoomy, StepRoomy, CacheInvariance, PTL DEF Spec

\* Without collisions the cache never follows NULL or a freed pointer, with one
\* thread or with room for everything.
THEOREM SafeUseCorrect == Spec => []SafeUse
<1>1. AloneInv /\ RoomyInv => SafeUse
  BY DEF AloneInv, Alone, Tidy, RoomyInv, Roomy, Closed, SafeUse
<1> QED
  BY <1>1, AloneInvariance, RoomyInvariance, PTL

\* With room for everything and no collisions no file is in memory more often
\* than there are threads, however they race to insert it.
THEOREM CopiesCorrect == Spec => []CopiesBounded
<1>1. CacheInv /\ RoomyInv => CopiesBounded
  <2> SUFFICES ASSUME CacheInv, Roomy, NEW f \in Files
               PROVE  Cardinality(CopiesOf(f)) <= conf.threads
    BY DEF CopiesBounded, RoomyInv
  <2>1. CopiesOf(f) = Copies(mem, f)
    BY DEF CopiesOf, Copies
  <2>2. Cardinality(Copies(mem, f)) \in Nat /\ Cardinality(Inserters(f)) \in Nat /\ conf.threads \in Nat
    BY RoomyFacts, CopiesFinite
  <2>3. Cardinality(Copies(mem, f)) + Cardinality(Inserters(f)) <= conf.threads
    BY DEF Roomy
  <2> QED
    BY <2>1, <2>2, <2>3
<1> QED
  BY <1>1, CacheInvariance, RoomyInvariance, PTL

-----------------------------------------------------------------------------
(* One thread and any hash function: every list comes to an end. *)

\* A list comes to an end after as many nodes as it counts, and a bucket has only
\* nodes whose names hash to it.
EndsInTime(m, l) ==
    /\ m.num_files[l] \in 0 .. m.allocated /\ m.head[l] <= m.allocated
    /\ \A k \in 1 .. (MaxRequests + 1) :
          /\ k > m.num_files[l] => Walk(m, l)[k] = Nil
          /\ l \in BucketLists /\ Walk(m, l)[k] # Nil => conf.hash[m.name[Walk(m, l)[k]]] = l

Orderly(m) ==
    /\ \A l \in Lists : EndsInTime(m, l)
    /\ \A n \in Nodes : m.next[n] <= m.allocated

\* What holds of the head and is passed on along the pointers holds of a walk.
LEMMA WalkIn ==
  ASSUME NEW m \in MemType, NEW l \in Lists, NEW S, m.head[l] \in S[1],
         \A k \in 1 .. MaxRequests : \A p \in S[k] :
            (IF p \in m.live THEN m.next[p] ELSE Nil) \in S[k + 1]
  PROVE  \A k \in 1 .. (MaxRequests + 1) : Walk(m, l)[k] \in S[k]
<1> DEFINE w == Walk(m, l)
           T == {k \in Nat : k <= MaxRequests => w[k + 1] \in S[k + 1]}
<1>1. /\ w[1] = m.head[l]
      /\ \A k \in 2 .. (MaxRequests + 1) : w[k] = IF w[k - 1] \in m.live THEN m.next[w[k - 1]] ELSE Nil
  BY WalkFacts
<1> HIDE DEF w
<1>2. 0 \in T
  BY <1>1
<1>3. ASSUME NEW k \in Nat, k \in T PROVE k + 1 \in T
  <2>1. SUFFICES ASSUME k + 1 <= MaxRequests PROVE w[(k + 1) + 1] \in S[(k + 1) + 1]
    OBVIOUS
  <2>2. w[k + 1] \in S[k + 1] /\ k + 1 \in 1 .. MaxRequests
    BY <1>3, <2>1, Constants
  <2>3. (k + 1) + 1 \in 2 .. (MaxRequests + 1) /\ ((k + 1) + 1) - 1 = k + 1
    BY <2>1, Constants
  <2>4. w[(k + 1) + 1] = IF w[k + 1] \in m.live THEN m.next[w[k + 1]] ELSE Nil
    BY <1>1, <2>3
  <2> QED
    BY <2>2, <2>4
<1>4. Nat \subseteq T
  <2> HIDE DEF T
  <2> QED
    BY <1>2, <1>3, SetInduction
<1>5. ASSUME NEW k \in 1 .. (MaxRequests + 1) PROVE w[k] \in S[k]
  <2>1. k - 1 \in Nat /\ k - 1 <= MaxRequests /\ (k - 1) + 1 = k
    BY Constants
  <2> QED
    BY <1>4, <2>1
<1> QED
  BY <1>5 DEF w

\* The nodes of a walk are allocated ones.
LEMMA WalkAllocated ==
  ASSUME NEW m \in MemType, NEW l \in Lists, Orderly(m)
  PROVE  \A k \in 1 .. (MaxRequests + 1) : Walk(m, l)[k] \in 0 .. m.allocated
<1> DEFINE S == [k \in 1 .. (MaxRequests + 1) |-> 0 .. m.allocated]
<1>1. /\ m.allocated \in 0 .. MaxRequests /\ m.head[l] \in Ptrs /\ m.live \subseteq Nodes
      /\ \A n \in Nodes : m.next[n] \in Ptrs /\ m.next[n] <= m.allocated
      /\ m.head[l] <= m.allocated
  BY DEF MemType, Orderly, EndsInTime
<1>2. \A k \in 1 .. (MaxRequests + 1) : S[k] = 0 .. m.allocated
  OBVIOUS
<1>3. 1 \in 1 .. (MaxRequests + 1) /\ \A k \in 1 .. MaxRequests : k \in 1 .. (MaxRequests + 1) /\ k + 1 \in 1 .. (MaxRequests + 1)
  BY Constants
<1> HIDE DEF S
<1>4. m.head[l] \in S[1]
  <2> DEFINE h == m.head[l]
  <2>1. h \in Ptrs /\ h <= m.allocated /\ m.allocated \in 0 .. MaxRequests
    BY <1>1
  <2> HIDE DEF h
  <2>2. h \in 0 .. m.allocated
    BY <2>1, Constants DEF Ptrs
  <2>3. S[1] = 0 .. m.allocated
    BY <1>2, <1>3
  <2> QED
    BY <2>2, <2>3 DEF h
<1>5. ASSUME NEW k \in 1 .. MaxRequests, NEW p \in S[k]
      PROVE  (IF p \in m.live THEN m.next[p] ELSE Nil) \in S[k + 1]
  <2>1. \A n \in Nodes : m.next[n] \in 0 .. m.allocated
    BY <1>1, Constants DEF Ptrs, Nodes
  <2>2. Nil \in 0 .. m.allocated
    BY <1>1, Constants
  <2>3. (IF p \in m.live THEN m.next[p] ELSE Nil) \in 0 .. m.allocated
    BY <1>1, <2>1, <2>2
  <2> QED
    BY <1>2, <1>3, <2>3
<1>6. \A k \in 1 .. (MaxRequests + 1) : Walk(m, l)[k] \in S[k]
  BY <1>4, <1>5, WalkIn
<1> QED
  BY <1>2, <1>6

\* Memory r with the same nodes as m, or fewer, and pointers of m or none.
Shorter(m, r) ==
    /\ r.name = m.name /\ r.allocated = m.allocated /\ r.live \subseteq m.live
    /\ \A n \in Nodes : r.next[n] \in {m.next[n], Nil}

\* A list whose head is left alone.
LEMMA SameHead ==
  ASSUME NEW m \in MemType, NEW r \in MemType, Orderly(m), Shorter(m, r), NEW l \in Lists,
         r.head[l] = m.head[l], r.num_files[l] = m.num_files[l]
  PROVE  EndsInTime(r, l)
<1> DEFINE w == Walk(m, l)
           v == Walk(r, l)
           S == [k \in 1 .. (MaxRequests + 1) |-> {w[k], Nil}]
<1>1. /\ r.live \subseteq m.live /\ m.live \subseteq Nodes /\ Nil \notin Nodes
      /\ \A n \in Nodes : r.next[n] \in {m.next[n], Nil}
  BY Constants DEF Shorter, MemType
<1>2. /\ w[1] = m.head[l]
      /\ \A k \in 2 .. (MaxRequests + 1) : w[k] = IF w[k - 1] \in m.live THEN m.next[w[k - 1]] ELSE Nil
  BY WalkFacts
<1> HIDE DEF w
<1>3. \A k \in 1 .. (MaxRequests + 1) : S[k] = {w[k], Nil}
  OBVIOUS
<1> HIDE DEF S
<1>4. r.head[l] \in S[1]
  BY <1>2, <1>3, Constants
<1>5. ASSUME NEW k \in 1 .. MaxRequests, NEW p \in S[k]
      PROVE  (IF p \in r.live THEN r.next[p] ELSE Nil) \in S[k + 1]
  <2>1. k \in 1 .. (MaxRequests + 1) /\ k + 1 \in 2 .. (MaxRequests + 1) /\ k + 1 \in 1 .. (MaxRequests + 1) /\ (k + 1) - 1 = k
    BY Constants
  <2>2. p \in {w[k], Nil} /\ w[k + 1] = IF w[k] \in m.live THEN m.next[w[k]] ELSE Nil
    BY <1>2, <1>3, <2>1
  <2>3. (IF p \in r.live THEN r.next[p] ELSE Nil) \in {w[k + 1], Nil}
    BY <1>1, <2>2
  <2> QED
    BY <1>3, <2>1, <2>3
<1>6. \A k \in 1 .. (MaxRequests + 1) : v[k] \in S[k]
  BY <1>4, <1>5, WalkIn
<1>7. EndsInTime(m, l)
  BY DEF Orderly
<1> HIDE DEF v
<1>8. ASSUME NEW k \in 1 .. (MaxRequests + 1)
      PROVE  /\ k > r.num_files[l] => v[k] = Nil
             /\ l \in BucketLists /\ v[k] # Nil => conf.hash[r.name[v[k]]] = l
  <2>1. v[k] \in {w[k], Nil}
    BY <1>3, <1>6
  <2> QED
    BY <1>7, <2>1 DEF EndsInTime, w, Shorter
<1> QED
  BY <1>7, <1>8 DEF EndsInTime, v, Shorter

\* A list that loses its head, which is there.
LEMMA LostHead ==
  ASSUME NEW m \in MemType, NEW r \in MemType, Orderly(m), Shorter(m, r), NEW l \in Lists,
         m.head[l] \in m.live,
         r.head[l] = m.next[m.head[l]], r.num_files[l] = m.num_files[l] - 1
  PROVE  EndsInTime(r, l)
<1> DEFINE w == Walk(m, l)
           v == Walk(r, l)
           S == [k \in 1 .. (MaxRequests + 1) |-> IF k <= MaxRequests THEN {w[k + 1], Nil} ELSE {Nil}]
           N == MaxRequests
<1>1. /\ r.live \subseteq m.live /\ m.live \subseteq Nodes /\ Nil \notin Nodes
      /\ \A n \in Nodes : r.next[n] \in {m.next[n], Nil}
  BY Constants DEF Shorter, MemType
<1>2. /\ w[1] = m.head[l]
      /\ \A k \in 2 .. (N + 1) : w[k] = IF w[k - 1] \in m.live THEN m.next[w[k - 1]] ELSE Nil
  BY WalkFacts
<1>0. EndsInTime(m, l)
  BY DEF Orderly
<1>3. /\ m.num_files[l] \in 0 .. m.allocated /\ m.allocated \in 0 .. N /\ N \in Nat
      /\ \A k \in 1 .. (N + 1) : k > m.num_files[l] => w[k] = Nil
  BY <1>0, Constants DEF EndsInTime, MemType
<1>4. m.num_files[l] >= 1 /\ N >= 1
  <2>1. w[1] # Nil /\ 1 \in 1 .. (N + 1)
    BY <1>1, <1>2, <1>3
  <2>2. ~(1 > m.num_files[l])
    BY <1>3, <2>1
  <2> QED
    BY <1>3, <2>2
<1>5. w[N + 1] = Nil
  BY <1>3
<1>6. \A k \in 1 .. N : S[k] = {w[k + 1], Nil}
  BY <1>3
<1>7. S[N + 1] = {Nil}
  BY <1>3
<1> HIDE DEF w, S
<1>8. r.head[l] \in S[1]
  <2>1. 1 \in 1 .. N /\ 2 \in 2 .. (N + 1)
    BY <1>3, <1>4
  <2>2. w[2] = m.next[w[1]]
    BY <1>2, <2>1
  <2> QED
    BY <1>2, <1>6, <2>1, <2>2
<1>9. ASSUME NEW k \in 1 .. N, NEW p \in S[k]
      PROVE  (IF p \in r.live THEN r.next[p] ELSE Nil) \in S[k + 1]
  <2>1. CASE k < N
    <3>1. k + 1 \in 1 .. N /\ (k + 1) + 1 \in 2 .. (N + 1) /\ ((k + 1) + 1) - 1 = k + 1
      BY <1>3, <2>1
    <3>2. p \in {w[k + 1], Nil} /\ w[(k + 1) + 1] = IF w[k + 1] \in m.live THEN m.next[w[k + 1]] ELSE Nil
      BY <1>2, <1>6, <3>1
    <3>3. (IF p \in r.live THEN r.next[p] ELSE Nil) \in {w[(k + 1) + 1], Nil}
      BY <1>1, <3>2
    <3> QED
      BY <1>6, <3>1, <3>3
  <2>2. CASE k = N
    <3>1. p = Nil
      BY <1>5, <1>6, <2>2
    <3> QED
      BY <1>1, <1>7, <2>2, <3>1
  <2> QED
    BY <1>3, <2>1, <2>2
<1>10. \A k \in 1 .. (N + 1) : v[k] \in S[k]
  BY <1>8, <1>9, WalkIn
<1> HIDE DEF v
<1>11. ASSUME NEW k \in 1 .. (N + 1)
       PROVE  /\ k > r.num_files[l] => v[k] = Nil
              /\ l \in BucketLists /\ v[k] # Nil => conf.hash[r.name[v[k]]] = l
  <2>1. CASE k <= N
    <3>1. k \in 1 .. N /\ k + 1 \in 1 .. (N + 1)
      BY <1>3, <2>1
    <3>2. v[k] \in {w[k + 1], Nil}
      BY <1>6, <1>10, <3>1
    <3>3. k > m.num_files[l] - 1 => w[k + 1] = Nil
      BY <1>3, <3>1
    <3>4. l \in BucketLists /\ w[k + 1] # Nil => conf.hash[m.name[w[k + 1]]] = l
      BY <1>0, <3>1 DEF EndsInTime, w
    <3> QED
      BY <3>2, <3>3, <3>4 DEF Shorter
  <2>2. CASE k = N + 1
    BY <1>7, <1>10, <2>2
  <2> QED
    BY <1>3, <2>1, <2>2
<1>12. r.head[l] <= m.allocated
  BY <1>1, <1>2 DEF Orderly
<1> QED
  BY <1>3, <1>4, <1>11, <1>12 DEF EndsInTime, v, Shorter

\* Memory in which no list has changed but for what Shorter allows, or for heads
\* that were taken away.
LEMMA OrderlyShorter ==
  ASSUME NEW m \in MemType, NEW r \in MemType, Orderly(m), Shorter(m, r),
         \A l \in Lists :
            \/ r.head[l] = m.head[l] /\ r.num_files[l] = m.num_files[l]
            \/ /\ m.head[l] \in m.live
               /\ r.head[l] = m.next[m.head[l]] /\ r.num_files[l] = m.num_files[l] - 1
  PROVE  Orderly(r)
<1>1. \A l \in Lists : EndsInTime(r, l)
  BY SameHead, LostHead
<1>2. ASSUME NEW n \in Nodes PROVE r.next[n] <= r.allocated
  <2>1. r.next[n] \in {m.next[n], Nil} /\ r.allocated = m.allocated /\ m.next[n] <= m.allocated
    BY DEF Shorter, Orderly
  <2>2. m.allocated \in Nat
    BY DEF MemType
  <2> QED
    BY <2>1, <2>2, Constants
<1> QED
  BY <1>1, <1>2 DEF Orderly

\* A list of one node.
LEMMA OneNode ==
  ASSUME NEW r \in MemType, NEW l \in Lists, NEW n \in 1 .. r.allocated, n \in Nodes,
         r.head[l] = n, r.next[n] = Nil, r.num_files[l] \in 1 .. r.allocated,
         l \in BucketLists => conf.hash[r.name[n]] = l
  PROVE  EndsInTime(r, l)
<1> DEFINE v == Walk(r, l)
           S == [k \in 1 .. (MaxRequests + 1) |-> IF k = 1 THEN {n} ELSE {Nil}]
<1>1. S[1] = {n} /\ \A k \in 2 .. (MaxRequests + 1) : S[k] = {Nil}
  BY Constants
<1>2. Nil \notin r.live
  BY Constants DEF MemType
<1> HIDE DEF S
<1>3. ASSUME NEW k \in 1 .. MaxRequests, NEW p \in S[k]
      PROVE  (IF p \in r.live THEN r.next[p] ELSE Nil) \in S[k + 1]
  <2>1. k + 1 \in 2 .. (MaxRequests + 1) /\ (k = 1 \/ k \in 2 .. (MaxRequests + 1))
    BY Constants
  <2>2. p = n \/ p = Nil
    BY <1>1, <2>1
  <2>3. (IF p \in r.live THEN r.next[p] ELSE Nil) = Nil
    BY <1>2, <2>2
  <2> QED
    BY <1>1, <2>1, <2>3
<1>4. \A k \in 1 .. (MaxRequests + 1) : v[k] \in S[k]
  BY <1>1, <1>3, WalkIn
<1> HIDE DEF v
<1>5. ASSUME NEW k \in 1 .. (MaxRequests + 1)
      PROVE  /\ k > r.num_files[l] => v[k] = Nil
             /\ l \in BucketLists /\ v[k] # Nil => conf.hash[r.name[v[k]]] = l
  <2>1. CASE k = 1
    BY <1>1, <1>4, <2>1
  <2>2. CASE k \in 2 .. (MaxRequests + 1)
    BY <1>1, <1>4, <2>2
  <2> QED
    BY <2>1, <2>2, Constants
<1> QED
  BY <1>5 DEF EndsInTime, v

\* What appending n to l makes of the pointers: n is the head of l, or follows a
\* node of l; and nothing follows n.
LEMMA EnqueueShape ==
  ASSUME NEW m \in MemType, NEW l \in Lists, NEW n \in Nodes
  PROVE  LET r == Enqueue(m, l, n)
         IN  /\ r.head[l] \in {m.head[l], n} /\ r.num_files[l] = m.num_files[l] + 1
             /\ OtherLists(m, r, l)
             /\ r.next[n] = Nil
             /\ \A p \in Nodes \ {n} :
                   \/ r.next[p] = m.next[p]
                   \/ /\ r.next[p] = n
                      /\ \E k \in Nodes : p = Walk(m, l)[k]
             /\ m.head[l] = Nil => r.head[l] = n /\ \A p \in Nodes \ {n} : r.next[p] = m.next[p]
<1> DEFINE w     == Walk(m, l)
           trail == {k \in Nodes : w[k] # Nil}
           last  == w[Max(trail)]
           r     == Enqueue(m, l, n)
<1>1. CASE m.num_files[l] = 0 \/ m.head[l] = Nil
  <2> DEFINE a == Access(m, {n})
  <2>1. a \in MemType /\ a.head = m.head /\ a.num_files = m.num_files /\ a.next = m.next
    BY AccessFacts
  <2>2. r = [a EXCEPT !.head[l] = n, !.next[n] = Nil, !.prev[n] = Nil, !.num_files[l] = @ + 1]
    BY <1>1 DEF Enqueue
  <2> HIDE DEF a, r
  <2>3. /\ r.head = [a.head EXCEPT ![l] = n] /\ r.num_files = [a.num_files EXCEPT ![l] = @ + 1]
        /\ r.next = [a.next EXCEPT ![n] = Nil]
    BY <2>1, <2>2 DEF MemType
  <2>4. /\ r.head[l] = n /\ r.num_files[l] = m.num_files[l] + 1 /\ r.next[n] = Nil
        /\ \A p \in Nodes \ {n} : r.next[p] = m.next[p]
        /\ \A o \in Lists \ {l} : r.head[o] = m.head[o] /\ r.num_files[o] = m.num_files[o]
    BY <2>1, <2>3 DEF MemType
  <2> QED
    BY <2>4 DEF r, OtherLists
<1>2. CASE ~(m.num_files[l] = 0 \/ m.head[l] = Nil)
  <2> DEFINE a == Access(m, {n} \cup {w[k] : k \in trail})
  <2>1. a \in MemType /\ a.head = m.head /\ a.num_files = m.num_files /\ a.next = m.next
    BY AccessFacts
  <2>2. last \in Nodes /\ \E k \in Nodes : last = w[k]
    <3>1. n \in 1 .. MaxRequests /\ 1 \in Nodes
      BY DEF Nodes
    <3>2. trail \in SUBSET Nodes /\ trail # {}
      BY <1>2, <3>1, WalkFacts
    <3>3. Max(trail) \in trail
      <4> HIDE DEF trail
      <4> QED
        BY <3>2, MinMax
    <3>4. Max(trail) \in 1 .. (MaxRequests + 1) /\ last # Nil /\ Max(trail) \in Nodes
      BY <3>3, Constants
    <3>5. last \in Ptrs
      BY <3>4, WalkFacts
    <3> QED
      BY <3>4, <3>5, Constants
  <2>3. r = [a EXCEPT !.prev[n] = last, !.next[last] = n, !.next[n] = Nil, !.num_files[l] = @ + 1]
    BY <1>2 DEF Enqueue
  <2> HIDE DEF a, last, r
  <2>4. /\ r.head = a.head /\ r.num_files = [a.num_files EXCEPT ![l] = @ + 1]
        /\ r.next = [[a.next EXCEPT ![last] = n] EXCEPT ![n] = Nil]
    BY <2>1, <2>3 DEF MemType
  <2>5. /\ r.head = m.head /\ r.num_files[l] = m.num_files[l] + 1
        /\ \A o \in Lists \ {l} : r.num_files[o] = m.num_files[o]
    BY <2>1, <2>4 DEF MemType
  <2>6. /\ r.next[n] = Nil
        /\ \A p \in Nodes \ {n} : r.next[p] = IF p = last THEN n ELSE m.next[p]
    <3> DEFINE x == [m.next EXCEPT ![last] = n]
    <3>1. m.next \in [Nodes -> Ptrs] /\ r.next = [x EXCEPT ![n] = Nil]
      BY <2>1, <2>4 DEF MemType
    <3>2. DOMAIN x = Nodes /\ \A p \in Nodes : x[p] = IF p = last THEN n ELSE m.next[p]
      BY <2>2, <3>1
    <3> HIDE DEF x
    <3> QED
      BY <3>1, <3>2
  <2> QED
    BY <1>2, <2>2, <2>5, <2>6 DEF r, OtherLists
<1> QED
  BY <1>1, <1>2

\* A node that is sent is the only one on usingrn.
LEMMA OrderlyPin ==
  ASSUME NEW m \in MemType, Orderly(m), NonePinned(m), NEW n \in 1 .. m.allocated
  PROVE  LET r == Enqueue(m, UsingRn, n)
         IN  /\ r \in MemType /\ SameNodes(m, r) /\ Orderly(r)
             /\ r.head[UsingRn] = n /\ r.num_files[UsingRn] = 1 /\ r.next[n] = Nil
<1> DEFINE r == Enqueue(m, UsingRn, n)
<1>1. n \in Nodes /\ m.allocated \in 0 .. MaxRequests /\ UsingRn \in Lists
  BY ListsAre DEF MemType, Nodes
<1>2. r \in MemType /\ SameNodes(m, r)
  BY <1>1, EnqueueType
<1>3. /\ r.head[UsingRn] = n /\ r.num_files[UsingRn] = 1 /\ r.next[n] = Nil
      /\ \A p \in Nodes \ {n} : r.next[p] = m.next[p]
      /\ OtherLists(m, r, UsingRn)
  BY <1>1, EnqueueShape DEF NonePinned
<1> HIDE DEF r
<1>4. Shorter(m, r)
  BY <1>2, <1>3 DEF Shorter, SameNodes
<1>5. ASSUME NEW l \in Lists PROVE EndsInTime(r, l)
  <2>1. CASE l = UsingRn
    <3>1. n \in 1 .. r.allocated /\ 1 \in 1 .. r.allocated
      BY <1>1, <1>2 DEF SameNodes
    <3> QED
      BY <1>1, <1>2, <1>3, <2>1, <3>1, OneNode, ListsAre
  <2>2. CASE l # UsingRn
    BY <1>2, <1>3, <1>4, <2>2, SameHead DEF OtherLists
  <2> QED
    BY <2>1, <2>2
<1>6. ASSUME NEW p \in Nodes PROVE r.next[p] <= r.allocated
  <2>1. r.next[p] \in {m.next[p], Nil} /\ r.allocated = m.allocated /\ m.next[p] <= m.allocated
    BY <1>4 DEF Shorter, Orderly
  <2> QED
    BY <1>1, <2>1, Constants
<1>7. Orderly(r)
  BY <1>5, <1>6 DEF Orderly
<1> QED
  BY <1>2, <1>3, <1>7 DEF r

\* The head of a list is unlinked.
LEMMA UnlinkHead ==
  ASSUME NEW m \in MemType, NEW l \in Lists, NEW c \in Nodes, c = m.head[l]
  PROVE  LET r == Unlink(m, l, c)
         IN  /\ r.head[l] = m.next[c] /\ r.num_files[l] = m.num_files[l] - 1
             /\ OtherLists(m, r, l)
             /\ r.next = [m.next EXCEPT ![c] = Nil]
<1> DEFINE p   == m.prev[c]
           x   == m.next[c]
           top == c = m.head[l] \/ p = Nil
           a   == Access(m, ({x} \cup IF top THEN {} ELSE {p}) \ {Nil})
           a2  == IF top THEN [a EXCEPT !.head[l] = x] ELSE [a EXCEPT !.next[p] = x]
           a3  == IF x = Nil THEN a2 ELSE [a2 EXCEPT !.prev[x] = IF top THEN Nil ELSE p]
           r   == Unlink(m, l, c)
<1>1. top
  OBVIOUS
<1>2. r = [a3 EXCEPT !.prev[c] = Nil, !.next[c] = Nil, !.num_files[l] = @ - 1]
  BY DEF Unlink
<1>3. a \in MemType /\ a.head = m.head /\ a.num_files = m.num_files /\ a.next = m.next
  BY AccessFacts
<1>4. a2 = [a EXCEPT !.head[l] = x]
  BY <1>1
<1>5. x \in Ptrs
  BY DEF MemType
<1> HIDE DEF a, a2, a3, x, top, r
<1>6. /\ a2.head = [m.head EXCEPT ![l] = x] /\ a2.num_files = m.num_files /\ a2.next = m.next
      /\ DOMAIN a2 = DOMAIN a /\ a2 = [f \in DOMAIN a2 |-> a2[f]]
  BY <1>3, <1>4 DEF MemType
<1>7. /\ a3.head = a2.head /\ a3.num_files = a2.num_files /\ a3.next = a2.next
      /\ DOMAIN a3 = DOMAIN a2
  BY <1>3, <1>6 DEF a3, MemType
<1>8. DOMAIN a = {"head", "num_files", "next", "prev", "name", "live", "allocated", "fault"}
  BY <1>3 DEF MemType
<1>9. /\ r.head = a3.head /\ r.num_files = [a3.num_files EXCEPT ![l] = @ - 1]
      /\ r.next = [a3.next EXCEPT ![c] = Nil]
  BY <1>2, <1>6, <1>7, <1>8
<1>10. /\ r.head[l] = x /\ r.num_files[l] = m.num_files[l] - 1
       /\ \A o \in Lists \ {l} : r.head[o] = m.head[o] /\ r.num_files[o] = m.num_files[o]
  BY <1>6, <1>7, <1>9 DEF MemType
<1> QED
  BY <1>6, <1>7, <1>9, <1>10 DEF r, x, OtherLists

\* The head of l is popped if the search for its name meets a node that is there.
LEMMA PopHead ==
  ASSUME NEW m \in MemType, NEW l \in Lists, NEW f \in Files, m.num_files[l] # 0,
         NEW c \in Nodes, c = m.head[l], m.name[c] = f
  PROVE  LET r == Pop(m, l, f)
         IN  IF c \in m.live
             THEN /\ r.head[l] = m.next[c] /\ r.num_files[l] = m.num_files[l] - 1
                  /\ OtherLists(m, r, l)
                  /\ r.next = [m.next EXCEPT ![c] = Nil]
             ELSE /\ r.fault
                  /\ r.head = m.head /\ r.num_files = m.num_files /\ r.next = m.next
<1> DEFINE w  == Walk(m, l)
           at == FoundAt(m, w, f, MaxRequests)
           m1 == Searched(m, w, f, MaxRequests)
           r  == Pop(m, l, f)
<1>1. w[1] = c /\ 1 \in Nodes /\ 1 <= MaxRequests /\ c # Nil
  <2>1. w[1] = c
    BY WalkFacts
  <2> QED
    BY <2>1, Constants
<1>2. 1 .. (1 - 1) = {}
  OBVIOUS
<1>3. 1 \in Steps(m, w, f, MaxRequests)
  BY <1>1, <1>2 DEF Steps
<1>4. /\ m1 \in MemType /\ SameNodes(m, m1) /\ m1.head = m.head /\ m1.num_files = m.num_files
      /\ m1.next = m.next /\ m1.prev = m.prev
      /\ m1.fault = (m.fault \/ ~({w[k] : k \in Steps(m, w, f, MaxRequests)} \subseteq m.live))
  BY AccessFacts DEF Searched
<1>5. r = IF at = {} THEN m1 ELSE Unlink(m1, l, w[Min(at)])
  BY DEF Pop
<1>6. CASE c \in m.live
  <2>1. 1 \in at
    BY <1>1, <1>3, <1>6 DEF FoundAt
  <2>2. at \in SUBSET Nodes
    BY DEF FoundAt, Steps
  <2> HIDE DEF at, w, m1, r
  <2>3. Min(at) \in at /\ Min(at) <= 1
    BY <2>1, <2>2, MinMax
  <2>4. Min(at) = 1
    <3> DEFINE k == Min(at)
    <3> HIDE DEF k
    <3>1. k \in Nodes /\ k <= 1
      BY <2>2, <2>3 DEF k
    <3>2. k = 1
      BY <3>1, Constants
    <3> QED
      BY <3>2 DEF k
  <2>5. r = Unlink(m1, l, c)
    BY <1>1, <1>5, <2>1, <2>4
  <2>6. /\ r.head[l] = m1.next[c] /\ r.num_files[l] = m1.num_files[l] - 1
        /\ OtherLists(m1, r, l) /\ r.next = [m1.next EXCEPT ![c] = Nil]
    <3>1. c = m1.head[l] /\ m1 \in MemType
      BY <1>4
    <3> QED
      BY <2>5, <3>1, UnlinkHead
  <2> QED
    BY <1>4, <1>6, <2>6 DEF r, OtherLists
<1>7. CASE c \notin m.live
  <2>1. at = {}
    <3>1. ASSUME NEW k \in at PROVE FALSE
      <4>1. k \in Nodes /\ w[k] \in m.live /\ \A j \in 1 .. (k - 1) : w[j] \in m.live
        BY <3>1 DEF FoundAt, Steps
      <4>2. k # 1
        BY <1>1, <1>7, <4>1
      <4>3. 1 \in 1 .. (k - 1)
        BY <4>1, <4>2, Constants
      <4> QED
        BY <1>1, <1>7, <4>1, <4>3
    <3> QED
      BY <3>1
  <2>2. ~({w[k] : k \in Steps(m, w, f, MaxRequests)} \subseteq m.live)
    BY <1>1, <1>3, <1>7
  <2> HIDE DEF at, w, m1, r
  <2>3. r = m1
    BY <1>5, <2>1
  <2> QED
    BY <1>4, <1>7, <2>2, <2>3 DEF r
<1> QED
  BY <1>6, <1>7

\* A search changes no list, and an empty list has nothing to find.
LEMMA SearchLeaves ==
  ASSUME NEW m \in MemType, NEW l \in Lists, NEW f \in Files
  PROVE  LET s == Search(m, l, f)
         IN  /\ s.mem \in MemType /\ SameNodes(m, s.mem)
             /\ s.mem.head = m.head /\ s.mem.num_files = m.num_files /\ s.mem.next = m.next
             /\ m.num_files[l] = 0 => s.node = Nil
<1> DEFINE w  == Walk(m, l)
           at == FoundAt(m, w, f, m.num_files[l])
           m1 == Searched(m, w, f, m.num_files[l])
<1>1. /\ m1 \in MemType /\ SameNodes(m, m1)
      /\ m1.head = m.head /\ m1.num_files = m.num_files /\ m1.next = m.next
  BY AccessFacts DEF Searched
<1>2. Search(m, l, f) = [node |-> IF at = {} THEN Nil ELSE w[Min(at)], mem |-> m1]
  BY DEF Search, Searchable
<1>3. m.num_files[l] = 0 => at = {}
  BY Constants DEF FoundAt, Steps
<1> HIDE DEF w, at, m1
<1> QED
  BY <1>1, <1>2, <1>3

\* The first node of a file that is put at the end of its bucket.
LEMMA OrderlyLink ==
  ASSUME conf \in ConfType, NEW m \in MemType, Orderly(m), NonePinned(m), NEW f \in Files,
         m.allocated < MaxRequests, m.live \subseteq 1 .. m.allocated
  PROVE  Orderly(Link(m, f)) /\ NonePinned(Link(m, f))
<1> DEFINE n == m.allocated + 1
           b == conf.hash[f]
           a == [m EXCEPT !.allocated = n, !.live = @ \cup {n}, !.name[n] = f]
           r == Link(m, f)
           N == MaxRequests
<1>1. /\ m.allocated \in 0 .. N /\ m.name \in [Nodes -> Files] /\ m.live \in SUBSET Nodes
      /\ N \in Nat
  BY Constants DEF MemType
<1>2. n \in Nodes /\ n \notin m.live /\ n \in 0 .. N /\ n \notin 0 .. m.allocated /\ n # Nil
  BY <1>1, Constants
<1>3. b \in BucketLists /\ b \in Lists
  BY ListsAre DEF ConfType, BucketLists
<1>n. n = m.allocated + 1
  OBVIOUS
<1> HIDE DEF n
<1>4. /\ a \in MemType /\ a.live = m.live \cup {n} /\ a.name = [m.name EXCEPT ![n] = f]
      /\ a.allocated = n /\ a.head = m.head /\ a.next = m.next /\ a.num_files = m.num_files
  BY <1>2 DEF MemType
<1>5. r = Enqueue(a, b, n)
  BY DEF Link, n
<1> HIDE DEF a, b
<1>6. /\ r \in MemType /\ r.live = m.live \cup {n} /\ r.name = [m.name EXCEPT ![n] = f]
      /\ r.allocated = n
  BY <1>2, <1>3, <1>4, <1>5, EnqueueType DEF SameNodes
<1>7. \A l \in Lists : \A k \in 1 .. (N + 1) : Walk(m, l)[k] # n
  BY <1>2, WalkAllocated
<1>8. \A k \in 1 .. (N + 1) : Walk(a, b)[k] = Walk(m, b)[k]
  <2> DEFINE w == Walk(m, b)
             S == [k \in 1 .. (N + 1) |-> {w[k]}]
  <2>1. /\ w[1] = m.head[b]
        /\ \A k \in 2 .. (N + 1) : w[k] = IF w[k - 1] \in m.live THEN m.next[w[k - 1]] ELSE Nil
    BY <1>3, WalkFacts
  <2>2. \A k \in 1 .. (N + 1) : S[k] = {w[k]}
    OBVIOUS
  <2>3. \A k \in 1 .. (N + 1) : w[k] # n
    BY <1>3, <1>7
  <2> HIDE DEF w, S
  <2>4. a.head[b] \in S[1]
    BY <1>1, <1>4, <2>1, <2>2
  <2>5. ASSUME NEW k \in 1 .. N, NEW p \in S[k]
        PROVE  (IF p \in a.live THEN a.next[p] ELSE Nil) \in S[k + 1]
    <3>1. k \in 1 .. (N + 1) /\ k + 1 \in 2 .. (N + 1) /\ k + 1 \in 1 .. (N + 1) /\ (k + 1) - 1 = k
      BY <1>1
    <3>2. p = w[k] /\ p # n /\ w[k + 1] = IF p \in m.live THEN m.next[p] ELSE Nil
      BY <2>1, <2>2, <2>3, <3>1
    <3> QED
      BY <1>4, <2>2, <3>1, <3>2
  <2>6. \A k \in 1 .. (N + 1) : Walk(a, b)[k] \in S[k]
    BY <1>3, <1>4, <2>4, <2>5, WalkIn
  <2> QED
    BY <2>2, <2>6 DEF w
<1>9. /\ r.head[b] \in {m.head[b], n} /\ r.num_files[b] = m.num_files[b] + 1
      /\ OtherLists(a, r, b)
      /\ r.next[n] = Nil
      /\ \A p \in Nodes \ {n} : \/ r.next[p] = m.next[p]
                                \/ r.next[p] = n /\ \E k \in Nodes : p = Walk(a, b)[k]
  BY <1>2, <1>3, <1>4, <1>5, EnqueueShape
<1> HIDE DEF r
<1>10. \A p \in Nodes \ {n} : \/ r.next[p] = m.next[p]
                              \/ r.next[p] = n /\ \E k \in Nodes : p = Walk(m, b)[k]
  <2>1. \A k \in Nodes : k \in 1 .. (N + 1)
    BY Constants
  <2> QED
    BY <1>8, <1>9, <2>1
<1>11. /\ m.live \subseteq Nodes /\ Nil \notin Nodes
       /\ \A p : p # n => (p \in r.live <=> p \in m.live)
  BY <1>1, <1>6, Constants
<1>12. \A l \in Lists : EndsInTime(m, l)
  BY DEF Orderly
<1>13. ASSUME NEW o \in Lists, o # b PROVE EndsInTime(r, o)
  <2> DEFINE w == Walk(m, o)
             v == Walk(r, o)
             S == [k \in 1 .. (N + 1) |-> {w[k]}]
  <2>1. /\ w[1] = m.head[o]
        /\ \A k \in 2 .. (N + 1) : w[k] = IF w[k - 1] \in m.live THEN m.next[w[k - 1]] ELSE Nil
    BY WalkFacts
  <2>2. \A k \in 1 .. (N + 1) : S[k] = {w[k]}
    OBVIOUS
  <2>3. \A k \in 1 .. (N + 1) : w[k] # n
    BY <1>7
  <2>4. ASSUME NEW k \in 1 .. (N + 1), w[k] \in Nodes PROVE r.next[w[k]] = m.next[w[k]]
    <3>1. SUFFICES ASSUME NEW j \in Nodes, w[k] = Walk(m, b)[j] PROVE FALSE
      BY <1>10, <2>3, <2>4
    <3>2. j \in 1 .. (N + 1) /\ w[k] # Nil
      BY <2>4, Constants
    <3>3. conf.hash[m.name[w[k]]] = b
      BY <1>3, <1>12, <3>1, <3>2 DEF EndsInTime
    <3>4. CASE o \in BucketLists
      <4>1. conf.hash[m.name[w[k]]] = o
        BY <1>12, <3>2, <3>4 DEF EndsInTime
      <4> QED
        BY <1>13, <3>3, <4>1
    <3>5. CASE o = UsingRn
      <4>1. w[k] = Nil
        BY <1>1, <1>12, <3>5 DEF EndsInTime, NonePinned
      <4> QED
        BY <3>2, <4>1
    <3> QED
      BY <3>4, <3>5, ListsAre
  <2> HIDE DEF w, S
  <2>5. r.head[o] = m.head[o] /\ r.num_files[o] = m.num_files[o]
    BY <1>4, <1>9, <1>13 DEF OtherLists
  <2>6. r.head[o] \in S[1]
    BY <1>1, <2>1, <2>2, <2>5
  <2>7. ASSUME NEW k \in 1 .. N, NEW p \in S[k]
        PROVE  (IF p \in r.live THEN r.next[p] ELSE Nil) \in S[k + 1]
    <3>1. k \in 1 .. (N + 1) /\ k + 1 \in 2 .. (N + 1) /\ k + 1 \in 1 .. (N + 1) /\ (k + 1) - 1 = k
      BY <1>1
    <3>2. p = w[k] /\ p # n /\ w[k + 1] = IF p \in m.live THEN m.next[p] ELSE Nil
      BY <2>1, <2>2, <2>3, <3>1
    <3>3. p \in m.live => r.next[p] = m.next[p]
      BY <1>11, <2>4, <3>1, <3>2
    <3> QED
      BY <1>11, <2>2, <3>1, <3>2, <3>3
  <2>8. \A k \in 1 .. (N + 1) : v[k] = w[k]
    <3>1. \A k \in 1 .. (N + 1) : v[k] \in S[k]
      BY <1>6, <2>6, <2>7, WalkIn
    <3> QED
      BY <2>2, <3>1
  <2> HIDE DEF v
  <2>9. ASSUME NEW k \in 1 .. (N + 1)
        PROVE  /\ k > r.num_files[o] => v[k] = Nil
               /\ o \in BucketLists /\ v[k] # Nil => conf.hash[r.name[v[k]]] = o
    <3>1. /\ k > m.num_files[o] => w[k] = Nil
          /\ o \in BucketLists /\ w[k] # Nil => conf.hash[m.name[w[k]]] = o
      BY <1>12 DEF EndsInTime, w
    <3>2. w[k] # Nil => r.name[w[k]] = m.name[w[k]]
      <4>1. w[k] \in Ptrs
        BY WalkFacts DEF w
      <4> QED
        BY <1>1, <1>6, <2>3, <4>1, Constants
    <3> QED
      BY <2>5, <2>8, <3>1, <3>2
  <2>10. r.num_files[o] \in 0 .. r.allocated /\ r.head[o] <= r.allocated
    <3>1. m.num_files[o] \in 0 .. m.allocated /\ m.head[o] <= m.allocated /\ m.head[o] \in Ptrs
      BY <1>12 DEF EndsInTime, MemType
    <3>2. r.num_files[o] \in 0 .. m.allocated /\ r.head[o] <= m.allocated /\ r.head[o] \in Ptrs
      BY <2>5, <3>1
    <3>3. r.allocated = m.allocated + 1 /\ m.allocated \in 0 .. MaxRequests
      BY <1>6, <1>n DEF MemType
    <3> DEFINE c == r.num_files[o]
               h == r.head[o]
    <3>4. c \in 0 .. m.allocated /\ h <= m.allocated /\ h \in Ptrs
      BY <3>2
    <3> HIDE DEF c, h
    <3>5. c \in 0 .. r.allocated /\ h <= r.allocated
      BY <1>1, <3>3, <3>4, Constants DEF Ptrs
    <3> QED
      BY <3>5 DEF c, h
  <2> QED
    BY <2>9, <2>10 DEF EndsInTime, v
<1>14. EndsInTime(r, b)
  <2> DEFINE w == Walk(m, b)
             v == Walk(r, b)
             c == m.num_files[b]
             S == [k \in 1 .. (N + 1) |-> {w[k], Nil} \cup IF k <= c + 1 THEN {n} ELSE {}]
  <2>1. /\ w[1] = m.head[b]
        /\ \A k \in 2 .. (N + 1) : w[k] = IF w[k - 1] \in m.live THEN m.next[w[k - 1]] ELSE Nil
    BY <1>3, WalkFacts
  <2>2. /\ \A k \in 1 .. (N + 1) : w[k] \in S[k] /\ Nil \in S[k] /\ (k <= c + 1 => n \in S[k])
        /\ \A k \in 1 .. (N + 1) : \A p \in S[k] : p \in {w[k], Nil} \/ (p = n /\ k <= c + 1)
    OBVIOUS
  <2>3. c \in 0 .. m.allocated /\ \A k \in 1 .. (N + 1) : k > c => w[k] = Nil
    BY <1>3, <1>12 DEF EndsInTime
  <2>c. r.num_files[b] = c + 1
    BY <1>9
  <2> HIDE DEF w, S, c
  <2>4. r.head[b] \in S[1]
    BY <1>1, <1>9, <2>1, <2>2, <2>3
  <2>5. ASSUME NEW k \in 1 .. N, NEW p \in S[k]
        PROVE  (IF p \in r.live THEN r.next[p] ELSE Nil) \in S[k + 1]
    <3>1. k \in 1 .. (N + 1) /\ k + 1 \in 2 .. (N + 1) /\ k + 1 \in 1 .. (N + 1) /\ (k + 1) - 1 = k
      BY <1>1
    <3>2. CASE p = n \/ p \notin r.live
      <4>1. (IF p \in r.live THEN r.next[p] ELSE Nil) = Nil
        BY <1>9, <3>2
      <4> QED
        BY <2>2, <3>1, <4>1
    <3>3. CASE p # n /\ p \in r.live
      <4>1. p \in m.live /\ p \in Nodes /\ p # Nil
        BY <1>11, <3>3
      <4>2. p = w[k] /\ w[k + 1] = m.next[p]
        BY <2>1, <2>2, <3>1, <3>3, <4>1
      <4>3. k <= c
        BY <1>1, <2>3, <3>1, <4>1, <4>2
      <4>4. k + 1 <= c + 1
        BY <2>3, <4>3
      <4>5. r.next[p] = m.next[p] \/ r.next[p] = n
        BY <1>10, <3>3, <4>1
      <4> QED
        BY <2>2, <3>1, <3>3, <4>2, <4>4, <4>5
    <3> QED
      BY <3>2, <3>3
  <2>6. \A k \in 1 .. (N + 1) : v[k] \in S[k]
    BY <1>3, <1>6, <2>4, <2>5, WalkIn
  <2> HIDE DEF v
  <2>7. ASSUME NEW k \in 1 .. (N + 1)
        PROVE  /\ k > r.num_files[b] => v[k] = Nil
               /\ v[k] # Nil => conf.hash[r.name[v[k]]] = b
    <3>1. v[k] \in {w[k], Nil} \/ (v[k] = n /\ k <= c + 1)
      BY <2>2, <2>6
    <3>2. w[k] # Nil => conf.hash[m.name[w[k]]] = b /\ r.name[w[k]] = m.name[w[k]]
      <4>1. w[k] \in Ptrs /\ w[k] # n
        BY <1>3, <1>7, WalkFacts DEF w
      <4>2. w[k] # Nil => conf.hash[m.name[w[k]]] = b
        BY <1>3, <1>12 DEF EndsInTime, w
      <4> QED
        BY <1>1, <1>6, <4>1, <4>2, Constants
    <3>3. conf.hash[r.name[n]] = b
      BY <1>1, <1>2, <1>6 DEF b
    <3>4. k > c + 1 => k > c
      BY <2>3
    <3>5. k > c + 1 => ~(k <= c + 1)
      BY <2>3
    <3> QED
      BY <2>3, <2>c, <3>1, <3>2, <3>3, <3>4, <3>5
  <2>8. r.num_files[b] \in 0 .. r.allocated /\ r.head[b] <= r.allocated
    <3>1. m.head[b] <= m.allocated /\ m.head[b] \in Ptrs
      BY <1>3, <1>12 DEF EndsInTime, MemType
    <3>2. r.head[b] = m.head[b] \/ r.head[b] = n
      BY <1>9
    <3>3. r.num_files[b] \in 0 .. r.allocated
      <4>1. c \in Nat /\ c <= m.allocated /\ m.allocated \in Nat
        BY <1>1, <2>3
      <4>2. c + 1 \in 0 .. n
        BY <1>n, <4>1
      <4> QED
        BY <1>6, <2>c, <4>2
    <3>4. r.head[b] <= r.allocated
      BY <1>1, <1>6, <1>n, <3>1, <3>2 DEF Ptrs, Nodes, Nil
    <3> QED
      BY <3>3, <3>4
  <2> QED
    BY <2>7, <2>8 DEF EndsInTime, v
<1>15. ASSUME NEW p \in Nodes PROVE r.next[p] <= r.allocated
  <2>1. r.next[p] \in {Nil, n, m.next[p]} /\ m.next[p] <= m.allocated /\ m.next[p] \in Ptrs
    BY <1>9, <1>10 DEF Orderly, MemType
  <2> QED
    BY <1>1, <1>6, <1>n, <2>1 DEF Ptrs, Nodes, Nil
<1>16. Orderly(r)
  BY <1>13, <1>14, <1>15 DEF Orderly
<1>17. NonePinned(r)
  BY <1>3, <1>4, <1>9, ListsAre DEF OtherLists, NonePinned
<1> QED
  BY <1>16, <1>17 DEF r

LoneEvictions(m, amount) ==
    {e \in Evictions(m, amount) : Orderly(e.mem) /\ NonePinned(e.mem)}

\* A bound on the turns an eviction has still to make: it frees a file in every
\* turn in which it looks at one, as nothing is pinned.
Spare(e) ==
    3 * Cardinality(e.mem.live) + (IF ~e.open THEN 1 ELSE IF e.left <= 0 THEN 2 ELSE 0)

Progresses(e, x) == EvictDone(x) \/ Spare(x) < Spare(e)

LEMMA SpareIs ==
  ASSUME NEW e \in EvictType
  PROVE  /\ IsFiniteSet(e.mem.live) /\ Cardinality(e.mem.live) \in 0 .. MaxRequests
         /\ Spare(e) \in 0 .. (3 * MaxRequests + 2)
<1>1. e.mem.live \in SUBSET Nodes
  BY DEF EvictType, MemType
<1>2. IsFiniteSet(Nodes) /\ Cardinality(Nodes) = MaxRequests
  BY FS_Interval, Constants DEF Nodes
<1>3. IsFiniteSet(e.mem.live) /\ Cardinality(e.mem.live) <= MaxRequests
  BY <1>1, <1>2, FS_Subset
<1>4. Cardinality(e.mem.live) \in Nat
  BY <1>3, FS_CardinalityType
<1> DEFINE c == Cardinality(e.mem.live)
           s == IF ~e.open THEN 1 ELSE IF e.left <= 0 THEN 2 ELSE 0
<1>5. Spare(e) = 3 * c + s /\ s \in 0 .. 2
  BY DEF Spare
<1> HIDE DEF c, s
<1>6. c \in Nat /\ c <= MaxRequests
  BY <1>3, <1>4 DEF c
<1>7. Spare(e) \in 0 .. (3 * MaxRequests + 2)
  BY <1>5, <1>6, Constants
<1> QED
  BY <1>3, <1>4, <1>7, Constants

\* The file at the head is freed, or is not there.
LEMMA LoneHead ==
  ASSUME NEW m \in MemType, NEW amount \in Int, NEW e \in LoneEvictions(m, amount),
         e.open, ~(e.left <= 0)
  PROVE  EvictHead(e, amount) \in LoneEvictions(m, amount) /\ Progresses(e, EvictHead(e, amount))
<1> DEFINE c   == e.mem.head[e.hand]
           f   == e.mem.name[c]
           m1  == Access(e.mem, {c})
           m2  == Pop(m1, e.hand, f)
           m3  == Search(m2, UsingRn, f).mem
           mm  == [m3 EXCEPT !.live = @ \ {c}]
           got == e.got + Size[f]
           res == IF got >= amount THEN "ok" ELSE e.result
           x   == EvictHead(e, amount)
<1>1. /\ e \in Evictions(m, amount) /\ e \in EvictType /\ e.mem \in MemType
      /\ Orderly(e.mem) /\ NonePinned(e.mem)
      /\ e.hand \in BucketLists /\ e.hand \in Lists /\ e.hand # UsingRn /\ e.left \in Int
  BY ListsAre DEF LoneEvictions, Evictions, EvictType, BucketLists
<1>2. x \in Evictions(m, amount) /\ x \in EvictType
  BY <1>1, EvictHeadKeeps DEF Evictions
<1>3. CASE c \notin e.mem.live
  <2>1. x = [e EXCEPT !.mem.fault = TRUE]
    BY <1>3 DEF EvictHead
  <2> HIDE DEF x
  <2>2. x.mem = [e.mem EXCEPT !.fault = TRUE]
    BY <1>1, <2>1 DEF EvictType
  <2>3. /\ x.mem.fault /\ x.mem.head = e.mem.head /\ x.mem.num_files = e.mem.num_files
        /\ x.mem.next = e.mem.next /\ SameNodes(e.mem, x.mem) /\ x.mem \in MemType
    BY <1>1, <2>2 DEF MemType, SameNodes
  <2>4. Shorter(e.mem, x.mem)
    BY <2>3 DEF Shorter, SameNodes
  <2>5. Orderly(x.mem) /\ NonePinned(x.mem)
    BY <1>1, <2>3, <2>4, OrderlyShorter DEF NonePinned
  <2> QED
    BY <1>2, <2>3, <2>5 DEF LoneEvictions, Progresses, EvictDone, x
<1>4. CASE c \in e.mem.live
  <2>1. c \in Nodes /\ f \in Files /\ c # Nil
    BY <1>1, <1>4, Constants DEF MemType
  <2>2. e.mem.num_files[e.hand] # 0
    <3>1. EndsInTime(e.mem, e.hand) /\ Walk(e.mem, e.hand)[1] = c /\ 1 \in 1 .. (MaxRequests + 1)
      BY <1>1, WalkFacts, Constants DEF Orderly
    <3> QED
      BY <2>1, <3>1 DEF EndsInTime
  <2>3. /\ m1 \in MemType /\ SameNodes(e.mem, m1) /\ m1.head = e.mem.head
        /\ m1.num_files = e.mem.num_files /\ m1.next = e.mem.next
    BY <1>1, AccessFacts
  <2>4. x = IF Search(m2, UsingRn, f).node # Nil
            THEN [e EXCEPT !.mem = Enqueue(m3, e.hand, c), !.left = @ - 1]
            ELSE [e EXCEPT !.mem = mm, !.left = @ - 1, !.got = got, !.result = res]
    <3> DEFINE g == m1.name[c]
    <3>1. g = f
      BY <2>3 DEF SameNodes
    <3>2. x = LET p == Pop(m1, e.hand, g)
                  u == Search(p, UsingRn, g)
                  q == e.got + Size[g]
              IN  IF u.node # Nil
                  THEN [e EXCEPT !.mem = Enqueue(u.mem, e.hand, c), !.left = @ - 1]
                  ELSE [e EXCEPT !.mem = [u.mem EXCEPT !.live = @ \ {c}], !.left = @ - 1,
                                 !.got = q, !.result = IF q >= amount THEN "ok" ELSE @]
      BY <1>4 DEF EvictHead
    <3> HIDE DEF f, g, m1, x
    <3> QED
      BY <3>1, <3>2
  <2> HIDE DEF f, m1, x
  <2>5. /\ m2 \in MemType /\ SameNodes(m1, m2)
        /\ m2.head[e.hand] = m1.next[c] /\ m2.num_files[e.hand] = m1.num_files[e.hand] - 1
        /\ OtherLists(m1, m2, e.hand)
        /\ m2.next = [m1.next EXCEPT ![c] = Nil]
    <3>1. m1.num_files[e.hand] # 0 /\ c = m1.head[e.hand] /\ m1.name[c] = f /\ c \in m1.live
      BY <1>4, <2>2, <2>3 DEF SameNodes, f
    <3> QED
      BY <1>1, <2>1, <2>3, <3>1, PopType, PopHead
  <2> HIDE DEF m2
  <2>6. m2.num_files[UsingRn] = 0 /\ m2.head[UsingRn] = Nil
    BY <1>1, <2>3, <2>5, ListsAre DEF OtherLists, NonePinned
  <2>7. /\ Search(m2, UsingRn, f).node = Nil
        /\ m3 \in MemType /\ SameNodes(m2, m3)
        /\ m3.head = m2.head /\ m3.num_files = m2.num_files /\ m3.next = m2.next
    BY <2>1, <2>5, <2>6, SearchLeaves, ListsAre
  <2>8. x = [e EXCEPT !.mem = mm, !.left = @ - 1, !.got = got, !.result = res]
    BY <2>4, <2>7
  <2> HIDE DEF m3
  <2>9. /\ mm \in MemType /\ mm.live = e.mem.live \ {c} /\ mm.name = e.mem.name
        /\ mm.allocated = e.mem.allocated
        /\ mm.head = m2.head /\ mm.num_files = m2.num_files /\ mm.next = m2.next
    BY <2>3, <2>5, <2>7 DEF MemType, SameNodes
  <2>10. x.mem = mm /\ x.left = e.left - 1 /\ x.open = e.open
    <3> HIDE DEF mm, got, res, c
    <3> QED
      BY <1>1, <2>8 DEF EvictType
  <2> HIDE DEF mm
  <2>11. Orderly(mm)
    <3>1. Shorter(e.mem, mm)
      <4>1. \A p \in Nodes : mm.next[p] \in {e.mem.next[p], Nil}
        <5>1. e.mem.next \in [Nodes -> Ptrs]
          BY <1>1 DEF MemType
        <5> QED
          BY <2>3, <2>5, <2>9, <5>1
      <4> QED
        BY <2>9, <4>1 DEF Shorter
    <3>2. \A l \in Lists :
             \/ mm.head[l] = e.mem.head[l] /\ mm.num_files[l] = e.mem.num_files[l]
             \/ /\ e.mem.head[l] \in e.mem.live
                /\ mm.head[l] = e.mem.next[e.mem.head[l]]
                /\ mm.num_files[l] = e.mem.num_files[l] - 1
      BY <1>4, <2>3, <2>5, <2>9 DEF OtherLists
    <3> HIDE DEF c
    <3> QED
      BY <1>1, <2>9, <3>1, <3>2, OrderlyShorter
  <2>12. NonePinned(mm)
    BY <2>6, <2>9 DEF NonePinned
  <2>13. Spare(x) < Spare(e)
    <3> DEFINE a == Cardinality(e.mem.live)
               b == Cardinality(x.mem.live)
               s == IF ~x.open THEN 1 ELSE IF x.left <= 0 THEN 2 ELSE 0
    <3>1. b = a - 1 /\ a \in Nat /\ b \in Nat
      <4>1. IsFiniteSet(e.mem.live) /\ a \in Nat
        BY <1>1, SpareIs
      <4>2. x.mem.live = e.mem.live \ {c}
        BY <2>9, <2>10
      <4>3. b = a - 1
        <5>1. Cardinality(e.mem.live \ {c}) = Cardinality(e.mem.live) - 1
          <6> HIDE DEF c
          <6> QED
            BY <1>4, <4>1, FS_RemoveElement
        <5> QED
          BY <4>2, <5>1
      <4>4. b \in Nat
        BY <1>2, SpareIs
      <4> QED
        BY <4>1, <4>3, <4>4
    <3>2. Spare(x) = 3 * b + s /\ s \in 0 .. 2
      BY DEF Spare
    <3>3. Spare(e) = 3 * a + 0
      BY DEF Spare
    <3> HIDE DEF a, b, s
    <3> QED
      BY <3>1, <3>2, <3>3
  <2> QED
    BY <1>2, <2>10, <2>11, <2>12, <2>13 DEF LoneEvictions, Progresses, x
<1> QED
  BY <1>3, <1>4

LEMMA LoneTurn ==
  ASSUME NEW m \in MemType, NEW amount \in Int, NEW e \in LoneEvictions(m, amount)
  PROVE  /\ EvictTurn(e, amount) \in LoneEvictions(m, amount)
         /\ EvictDone(e) \/ Progresses(e, EvictTurn(e, amount))
         /\ EvictDone(e) => EvictTurn(e, amount) = e
<1> DEFINE x == EvictTurn(e, amount)
<1>1. /\ e \in Evictions(m, amount) /\ e \in EvictType /\ e.mem \in MemType
      /\ Orderly(e.mem) /\ NonePinned(e.mem) /\ e.hand \in Lists /\ e.left \in Int
      /\ e.open \in BOOLEAN
  BY ListsAre DEF LoneEvictions, Evictions, EvictType, BucketLists
<1>2. x \in Evictions(m, amount) /\ x \in EvictType
  BY <1>1, EvictTurnKeeps DEF Evictions
<1>s. Cardinality(e.mem.live) \in Nat
  BY <1>1, SpareIs
<1>3. CASE EvictDone(e)
  <2>1. EvictTurn(e, amount) = e
    BY <1>3 DEF EvictTurn
  <2> QED
    BY <1>3, <2>1
<1>4. CASE ~EvictDone(e) /\ ~e.open
  <2> DEFINE h == e.mem.head[e.hand]
  <2>1. x = OpenBucket(e)
    BY <1>4 DEF EvictTurn
  <2>2. CASE h = Nil
    <3>1. x = [e EXCEPT !.result = "fail"]
      BY <2>1, <2>2 DEF OpenBucket
    <3> HIDE DEF x
    <3>2. x.mem = e.mem /\ x.result = "fail"
      BY <1>1, <3>1 DEF EvictType
    <3> QED
      BY <1>1, <1>2, <1>4, <3>2 DEF LoneEvictions, Progresses, EvictDone, x
  <2>3. CASE h # Nil
    <3> DEFINE mm == Access(e.mem, {h})
               c  == e.mem.num_files[e.hand]
    <3>1. c >= 1
      <4>1. EndsInTime(e.mem, e.hand) /\ Walk(e.mem, e.hand)[1] = h /\ 1 \in 1 .. (MaxRequests + 1)
        BY <1>1, WalkFacts, Constants DEF Orderly
      <4>2. ~(1 > c) /\ c \in Int
        BY <2>3, <4>1 DEF EndsInTime
      <4> QED
        BY <4>2
    <3>2. /\ mm \in MemType /\ SameNodes(e.mem, mm) /\ mm.head = e.mem.head
          /\ mm.num_files = e.mem.num_files /\ mm.next = e.mem.next
      BY <1>1, AccessFacts
    <3>3. x = [e EXCEPT !.mem = mm, !.left = c, !.open = TRUE]
      BY <2>1, <2>3 DEF OpenBucket
    <3> HIDE DEF x, mm, c
    <3>4. x.mem = mm /\ x.left = c /\ x.open = TRUE
      BY <1>1, <3>3 DEF EvictType
    <3>5. Shorter(e.mem, mm)
      BY <3>2 DEF Shorter, SameNodes
    <3>6. Orderly(mm) /\ NonePinned(mm)
      BY <1>1, <3>2, <3>5, OrderlyShorter DEF NonePinned
    <3>7. Spare(x) < Spare(e)
      <4> DEFINE a == Cardinality(e.mem.live)
      <4>1. Spare(e) = 3 * a + 1
        BY <1>4 DEF Spare
      <4>2. c \in Int
        BY <1>1 DEF c, MemType
      <4>3. ~(x.left <= 0) /\ x.mem.live = e.mem.live
        BY <3>1, <3>2, <3>4, <4>2 DEF SameNodes
      <4>4. Spare(x) = 3 * a + 0
        BY <3>4, <4>3 DEF Spare
      <4> HIDE DEF a
      <4>5. a \in Nat
        BY <1>s DEF a
      <4> QED
        BY <4>1, <4>4, <4>5
    <3> QED
      BY <1>2, <1>4, <3>4, <3>6, <3>7 DEF LoneEvictions, Progresses, x
  <2> QED
    BY <1>4, <2>2, <2>3
<1>5. CASE ~EvictDone(e) /\ e.open /\ e.left <= 0
  <2>1. x = [e EXCEPT !.open = FALSE, !.hand = (@ + 1) % Buckets]
    BY <1>5 DEF EvictTurn, NextBucket
  <2> HIDE DEF x
  <2>2. x.mem = e.mem /\ x.open = FALSE
    BY <1>1, <2>1 DEF EvictType
  <2>3. Spare(x) < Spare(e)
    <3> DEFINE a == Cardinality(e.mem.live)
    <3>1. Spare(e) = 3 * a + 2 /\ Spare(x) = 3 * a + 1
      BY <1>5, <2>2 DEF Spare
    <3> HIDE DEF a
    <3>2. a \in Nat
      BY <1>s DEF a
    <3> QED
      BY <3>1, <3>2
  <2> QED
    BY <1>1, <1>2, <1>5, <2>2, <2>3 DEF LoneEvictions, Progresses, x
<1>6. CASE ~EvictDone(e) /\ e.open /\ ~(e.left <= 0)
  <2>1. x = EvictHead(e, amount)
    BY <1>6 DEF EvictTurn
  <2> QED
    BY <1>6, <2>1, LoneHead
<1> QED
  <2> HIDE DEF x
  <2> QED
    BY <1>3, <1>4, <1>5, <1>6, Zenon

\* One thread evicts without going round in circles, and in the turns it has.
LEMMA LoneEvict ==
  ASSUME NEW m \in MemType, NEW h \in BucketLists, NEW amount \in Int,
         Orderly(m), NonePinned(m)
  PROVE  /\ Evict(m, h, amount) \in LoneEvictions(m, amount)
         /\ EvictDone(Evict(m, h, amount))
<1> DEFINE r == IF amount > conf.max_cache_size THEN "fail" ELSE "none"
           start == [mem |-> m, hand |-> h, open |-> FALSE, left |-> 0, got |-> 0, result |-> r]
           V == LoneEvictions(m, amount)
<1>1. r \in {"none", "fail"}
  OBVIOUS
<1>2. start \in V
  <2> HIDE DEF r
  <2>1. m.name \in [Nodes -> Files] /\ m.live \in SUBSET Nodes
    BY DEF MemType
  <2>2. Total(m.name, m.live) \in Nat
    BY <2>1, TotalFacts
  <2>3. EvictParts(m, amount, m, h, FALSE, 0, 0, r)
    BY <1>1, <2>2 DEF EvictParts, BucketLists
  <2>4. start \in Evictions(m, amount)
    BY <2>3, EvictRecord
  <2> QED
    BY <2>4 DEF LoneEvictions
<1>3. \A e \in V : EvictTurn(e, amount) \in V
  BY LoneTurn
<1>4. PICK u : TurnsOf(u, V, amount, start, Evict(m, h, amount))
  <2>1. start = [mem |-> m, hand |-> h, open |-> FALSE, left |-> 0, got |-> 0,
                 result |-> IF amount > conf.max_cache_size THEN "fail" ELSE "none"]
    OBVIOUS
  <2> HIDE DEF V, start
  <2> QED
    BY <1>2, <1>3, <2>1, EvictSequence
<1>t. /\ u[0] = start
      /\ \A k \in 1 .. EvictTurns : u[k] = EvictTurn(u[k - 1], amount)
      /\ \A k \in 0 .. EvictTurns : u[k] \in V
      /\ Evict(m, h, amount) = u[EvictTurns]
  BY <1>4 DEF TurnsOf
<1>5. /\ EvictTurns \in Nat /\ EvictTurns >= 3 * MaxRequests + 2
      /\ MaxRequests \in Nat
  BY Constants DEF EvictTurns
<1>6. Spare(start) <= 3 * MaxRequests + 1
  <2> DEFINE c == Cardinality(m.live)
  <2>1. start \in EvictType /\ start.mem = m /\ start.open = FALSE
    BY <1>2 DEF LoneEvictions, Evictions
  <2> HIDE DEF start
  <2>2. c \in 0 .. MaxRequests
    BY <2>1, SpareIs
  <2>3. Spare(start) = 3 * c + 1
    BY <2>1 DEF Spare
  <2> HIDE DEF c
  <2> QED
    BY <1>5, <2>2, <2>3
<1>7. \A k \in 0 .. EvictTurns : Spare(u[k]) \in Nat
  <2>1. ASSUME NEW k \in 0 .. EvictTurns PROVE Spare(u[k]) \in Nat
    <3>1. u[k] \in EvictType
      BY <1>t DEF LoneEvictions, Evictions
    <3>2. Spare(u[k]) \in 0 .. (3 * MaxRequests + 2)
      BY <3>1, SpareIs
    <3> QED
      BY <1>5, <3>2
  <2> QED
    BY <2>1
<1> HIDE DEF start, V
<1> DEFINE T == {k \in Nat : k <= EvictTurns =>
                    EvictDone(u[k]) \/ Spare(u[k]) + k <= 3 * MaxRequests + 1}
<1>8. 0 \in T
  <2>1. 0 \in 0 .. EvictTurns
    BY <1>5
  <2>2. Spare(u[0]) \in Nat
    BY <1>7, <2>1
  <2> QED
    BY <1>t, <1>5, <1>6, <2>2
<1>9. ASSUME NEW k \in Nat, k \in T PROVE k + 1 \in T
  <2> SUFFICES ASSUME k + 1 <= EvictTurns
               PROVE  EvictDone(u[k + 1]) \/ Spare(u[k + 1]) + (k + 1) <= 3 * MaxRequests + 1
    OBVIOUS
  <2>1. /\ k \in 0 .. EvictTurns /\ k + 1 \in 0 .. EvictTurns /\ k + 1 \in 1 .. EvictTurns
        /\ (k + 1) - 1 = k
    BY <1>5
  <2>2. u[k + 1] = EvictTurn(u[k], amount) /\ u[k] \in V
    BY <1>t, <2>1
  <2>3. Spare(u[k]) \in Nat /\ Spare(u[k + 1]) \in Nat
    BY <1>7, <2>1
  <2>4. EvictDone(u[k]) \/ Spare(u[k]) + k <= 3 * MaxRequests + 1
    BY <1>5, <1>9, <2>1
  <2>5. /\ EvictDone(u[k]) \/ Progresses(u[k], u[k + 1])
        /\ EvictDone(u[k]) => u[k + 1] = u[k]
    BY <2>2, LoneTurn DEF V
  <2>6. CASE EvictDone(u[k])
    BY <2>5, <2>6
  <2>7. CASE ~EvictDone(u[k])
    <3>1. EvictDone(u[k + 1]) \/ Spare(u[k + 1]) < Spare(u[k])
      BY <2>5, <2>7 DEF Progresses
    <3> QED
      BY <1>5, <2>3, <2>4, <2>7, <3>1
  <2> QED
    BY <2>6, <2>7
<1>10. EvictTurns \in T /\ EvictTurns \in 0 .. EvictTurns
  <2> HIDE DEF T
  <2>1. Nat \subseteq T
    BY <1>8, <1>9, SetInduction
  <2> QED
    BY <1>5, <2>1
<1>11. EvictDone(u[EvictTurns])
  <2>1. Spare(u[EvictTurns]) \in Nat
    BY <1>7, <1>10
  <2>2. EvictDone(u[EvictTurns]) \/ Spare(u[EvictTurns]) + EvictTurns <= 3 * MaxRequests + 1
    BY <1>5, <1>10
  <2> QED
    BY <1>5, <2>1, <2>2
<1> QED
  BY <1>t, <1>10, <1>11 DEF V

\* What one thread relies on whatever the hash: the lists end, the node it found
\* has its file, though it may have been freed, and usingrn is empty unless it sends.
Lone ==
    /\ Orderly(mem)
    /\ pc[1] \in {"pin", "copy", "unpin"} =>
          node[1] \in 1 .. mem.allocated /\ mem.name[node[1]] = file[1]
    /\ ~mem.fault =>
          IF Pinning THEN /\ mem.head[UsingRn] = node[1] /\ mem.num_files[UsingRn] = 1
                          /\ mem.next[node[1]] = Nil
          ELSE NonePinned(mem)

LoneInv == conf.threads = 1 => Lone

LEMMA LoneFacts ==
  ASSUME CacheInv, conf.threads = 1
  PROVE  /\ Threads = {1} /\ mem \in MemType /\ conf \in ConfType
         /\ file[1] \in Files /\ Bucket(1) \in Lists /\ UsingRn \in Lists
         /\ pc \in [Threads -> Locations] /\ node \in [Threads -> Ptrs]
         /\ mem.allocated \in 0 .. MaxRequests /\ 1 .. mem.allocated \subseteq Nodes
<1>1. TypeOK
  BY DEF CacheInv
<1>2. Threads = {1}
  BY DEF Threads
<1>3. mem \in MemType /\ conf \in ConfType /\ file[1] \in Files
  BY <1>1, <1>2, ConfFacts DEF TypeOK
<1>4. Bucket(1) \in Lists
  BY <1>3, ListsAre DEF Bucket, ConfType, BucketLists
<1>5. mem.allocated \in 0 .. MaxRequests
  BY <1>3 DEF MemType
<1>6. 1 .. mem.allocated \subseteq Nodes
  BY <1>5, Constants
<1> QED
  BY <1>1, <1>2, <1>3, <1>4, <1>5, <1>6, ListsAre DEF TypeOK

\* Memory with the same lists as before.
LEMMA SameLists ==
  ASSUME NEW m \in MemType, NEW r \in MemType, SameNodes(m, r), r.head = m.head,
         r.num_files = m.num_files, r.next = m.next
  PROVE  /\ Orderly(m) => Orderly(r)
         /\ NonePinned(m) => NonePinned(r)
<1>1. Shorter(m, r)
  BY DEF Shorter, SameNodes
<1> QED
  BY <1>1, OrderlyShorter DEF NonePinned

LEMMA OrderlyThen ==
  ASSUME UNCHANGED conf, Orderly(mem')
  PROVE  Orderly(mem)'
BY DEF Orderly, EndsInTime

LEMMA InitLone == Init => LoneInv
<1> SUFFICES ASSUME Init, conf.threads = 1 PROVE Lone
  BY DEF LoneInv
<1>1. pc[1] = "idle"
  BY DEF Init, Threads
<1>2. /\ \A l \in Lists : mem.head[l] = Nil /\ mem.num_files[l] = 0
      /\ mem.allocated = 0 /\ mem.live = {} /\ \A n \in Nodes : mem.next[n] = Nil
  BY DEF Init
<1>3. mem \in MemType
  BY InitCache DEF CacheInv, TypeOK
<1>4. ASSUME NEW l \in Lists PROVE EndsInTime(mem, l)
  <2>1. Walk(mem, l)[1] = Nil /\ \A k \in 2 .. (MaxRequests + 1) : Walk(mem, l)[k] = Nil
    BY <1>2, <1>3, WalkFacts
  <2>2. \A k \in 1 .. (MaxRequests + 1) : k = 1 \/ k \in 2 .. (MaxRequests + 1)
    BY Constants
  <2> QED
    BY <1>2, <2>1, <2>2, Constants DEF EndsInTime
<1>5. Orderly(mem)
  BY <1>2, <1>4, Constants DEF Orderly
<1> QED
  BY <1>1, <1>2, <1>5, ListsAre DEF Lone, Pinning, NonePinned

LEMMA LoneRequest ==
  ASSUME CacheInv, conf.threads = 1, Lone, NEW f \in Files, Request(1, f)
  PROVE  Lone'
<1>1. 1 \in Threads /\ pc[1] = "idle" /\ pc'[1] = "lookup" /\ UNCHANGED <<mem, conf>> /\ ~mem.fault
  BY LoneFacts DEF Request, At, Goto
<1>2. ~Pinning /\ ~Pinning'
  BY <1>1 DEF Pinning
<1>3. Orderly(mem)'
  BY <1>1, OrderlyThen DEF Lone
<1> QED
  BY <1>1, <1>2, <1>3 DEF Lone, NonePinned

LEMMA LoneReadFile ==
  ASSUME CacheInv, conf.threads = 1, Lone, ReadFile(1)
  PROVE  Lone'
<1>1. PICK l \in {"recheck", "idle"} : Goto(1, l)
  BY DEF ReadFile
<1>2. pc[1] = "read" /\ pc'[1] = l /\ UNCHANGED <<mem, conf>> /\ ~mem.fault
  BY <1>1, LoneFacts DEF ReadFile, At, Goto
<1>3. ~Pinning /\ ~Pinning'
  BY <1>2 DEF Pinning
<1>4. Orderly(mem)'
  BY <1>2, OrderlyThen DEF Lone
<1> QED
  BY <1>2, <1>3, <1>4 DEF Lone, NonePinned

LEMMA LoneLookup ==
  ASSUME CacheInv, conf.threads = 1, Lone, Lookup(1)
  PROVE  Lone'
<1> DEFINE hit == Search(mem, Bucket(1), file[1])
<1>1. /\ 1 \in Threads /\ mem \in MemType /\ file[1] \in Files /\ Bucket(1) \in Lists
      /\ node \in [Threads -> Ptrs] /\ pc \in [Threads -> Locations]
  BY LoneFacts
<1>2. /\ hit.mem \in MemType /\ SameNodes(mem, hit.mem) /\ hit.mem.head = mem.head
      /\ hit.mem.num_files = mem.num_files /\ hit.mem.next = mem.next
  BY <1>1, SearchLeaves
<1>3. hit.node # Nil => hit.node \in 1 .. mem.allocated /\ mem.name[hit.node] = file[1]
  BY <1>1, SearchType DEF CacheInv
<1> HIDE DEF hit
<1>4. /\ ~mem.fault /\ pc[1] = "lookup" /\ pc'[1] = (IF hit.node = Nil THEN "read" ELSE "pin")
      /\ mem' = hit.mem /\ node'[1] = hit.node /\ UNCHANGED <<conf, file>>
  BY <1>1 DEF Lookup, At, Goto, hit
<1>5. ~Pinning /\ ~Pinning'
  BY <1>4 DEF Pinning
<1>6. Orderly(mem') /\ NonePinned(mem')
  BY <1>1, <1>2, <1>4, <1>5, SameLists DEF Lone
<1>7. Orderly(mem)' /\ NonePinned(mem)'
  BY <1>4, <1>6, OrderlyThen DEF NonePinned
<1> QED
  BY <1>2, <1>3, <1>4, <1>5, <1>7 DEF Lone, SameNodes

LEMMA LoneRecheck ==
  ASSUME CacheInv, conf.threads = 1, Lone, Recheck(1)
  PROVE  Lone'
<1> DEFINE idk == Search(mem, Bucket(1), file[1])
<1>1. /\ 1 \in Threads /\ mem \in MemType /\ file[1] \in Files /\ Bucket(1) \in Lists
      /\ pc \in [Threads -> Locations]
  BY LoneFacts
<1>2. /\ idk.mem \in MemType /\ SameNodes(mem, idk.mem) /\ idk.mem.head = mem.head
      /\ idk.mem.num_files = mem.num_files /\ idk.mem.next = mem.next
  BY <1>1, SearchLeaves
<1> HIDE DEF idk
<1>3. /\ ~mem.fault /\ pc[1] = "recheck" /\ pc'[1] = (IF idk.node = Nil THEN "insert" ELSE "idle")
      /\ mem' = idk.mem /\ UNCHANGED <<conf, file, node>>
  BY <1>1 DEF Recheck, At, Goto, idk
<1>4. ~Pinning /\ ~Pinning' /\ pc'[1] \notin {"pin", "copy", "unpin"}
  BY <1>3 DEF Pinning
<1>5. Orderly(mem') /\ NonePinned(mem')
  BY <1>1, <1>2, <1>3, <1>4, SameLists DEF Lone
<1>6. Orderly(mem)' /\ NonePinned(mem)'
  BY <1>3, <1>5, OrderlyThen DEF NonePinned
<1> QED
  BY <1>4, <1>6 DEF Lone

LEMMA LonePin ==
  ASSUME CacheInv, conf.threads = 1, Lone, Pin(1)
  PROVE  Lone'
<1>1. 1 \in Threads /\ mem \in MemType /\ pc \in [Threads -> Locations] /\ UsingRn \in Lists
  BY LoneFacts
<1>2. /\ ~mem.fault /\ pc[1] = "pin" /\ pc'[1] = "copy"
      /\ mem' = Enqueue(mem, UsingRn, node[1]) /\ UNCHANGED <<conf, file, node>>
  BY <1>1 DEF Pin, At, Goto
<1>3. /\ node[1] \in 1 .. mem.allocated /\ mem.name[node[1]] = file[1]
      /\ Orderly(mem) /\ NonePinned(mem)
  BY <1>2 DEF Lone, Pinning
<1>4. /\ SameNodes(mem, mem') /\ Orderly(mem')
      /\ mem'.head[UsingRn] = node[1] /\ mem'.num_files[UsingRn] = 1 /\ mem'.next[node[1]] = Nil
  BY <1>1, <1>2, <1>3, OrderlyPin
<1>5. Orderly(mem)' /\ Pinning'
  BY <1>2, <1>4, OrderlyThen DEF Pinning
<1> QED
  BY <1>2, <1>3, <1>4, <1>5 DEF Lone, SameNodes

LEMMA LoneCopy ==
  ASSUME CacheInv, conf.threads = 1, Lone, Copy(1)
  PROVE  Lone'
<1>1. 1 \in Threads /\ mem \in MemType /\ pc \in [Threads -> Locations]
  BY LoneFacts
<1>2. /\ ~mem.fault /\ pc[1] = "copy" /\ pc'[1] = "unpin" /\ mem' = Access(mem, {node[1]})
      /\ UNCHANGED <<conf, file, node>>
  BY <1>1 DEF Copy, At, Goto
<1>3. /\ mem' \in MemType /\ SameNodes(mem, mem') /\ mem'.head = mem.head
      /\ mem'.num_files = mem.num_files /\ mem'.next = mem.next
  BY <1>1, <1>2, AccessFacts
<1>4. Pinning /\ Pinning'
  BY <1>2 DEF Pinning
<1>5. Orderly(mem')
  BY <1>1, <1>3, SameLists DEF Lone
<1>6. Orderly(mem)'
  BY <1>2, <1>5, OrderlyThen
<1> QED
  BY <1>2, <1>3, <1>4, <1>6 DEF Lone, SameNodes

\* The node that is taken off usingrn is its only one, or is not there any more.
LEMMA LoneUnpin ==
  ASSUME CacheInv, conf.threads = 1, Lone, Unpin(1)
  PROVE  Lone'
<1> DEFINE c == node[1]
<1>1. /\ 1 \in Threads /\ mem \in MemType /\ file[1] \in Files
      /\ pc \in [Threads -> Locations] /\ UsingRn \in Lists /\ 1 .. mem.allocated \subseteq Nodes
  BY LoneFacts
<1>2. /\ ~mem.fault /\ pc[1] = "unpin" /\ pc'[1] = "idle" /\ mem' = Pop(mem, UsingRn, file[1])
      /\ UNCHANGED <<conf, file, node>>
  BY <1>1 DEF Unpin, At, Goto
<1>3. /\ c = mem.head[UsingRn] /\ mem.num_files[UsingRn] = 1 /\ mem.next[c] = Nil
      /\ c \in Nodes /\ mem.name[c] = file[1] /\ Orderly(mem)
  BY <1>1, <1>2 DEF Lone, Pinning
<1> HIDE DEF c
<1>4. mem' \in MemType /\ SameNodes(mem, mem')
  BY <1>1, <1>2, PopType
<1>5. IF c \in mem.live
      THEN /\ mem'.head[UsingRn] = mem.next[c]
           /\ mem'.num_files[UsingRn] = mem.num_files[UsingRn] - 1
           /\ OtherLists(mem, mem', UsingRn)
           /\ mem'.next = [mem.next EXCEPT ![c] = Nil]
      ELSE /\ mem'.fault
           /\ mem'.head = mem.head /\ mem'.num_files = mem.num_files /\ mem'.next = mem.next
  BY <1>1, <1>2, <1>3, PopHead
<1>6. ~Pinning' /\ pc'[1] \notin {"pin", "copy", "unpin"}
  BY <1>2 DEF Pinning
<1>7. CASE c \in mem.live
  <2>1. mem.next \in [Nodes -> Ptrs]
    BY <1>1 DEF MemType
  <2>2. \A p \in Nodes : mem'.next[p] \in {mem.next[p], Nil}
    BY <1>5, <1>7, <2>1
  <2>3. Shorter(mem, mem')
    BY <1>4, <2>2 DEF Shorter, SameNodes
  <2>4. \A l \in Lists :
           \/ mem'.head[l] = mem.head[l] /\ mem'.num_files[l] = mem.num_files[l]
           \/ /\ mem.head[l] \in mem.live
              /\ mem'.head[l] = mem.next[mem.head[l]]
              /\ mem'.num_files[l] = mem.num_files[l] - 1
    BY <1>3, <1>5, <1>7 DEF OtherLists
  <2>5. Orderly(mem')
    BY <1>1, <1>3, <1>4, <2>3, <2>4, OrderlyShorter
  <2>6. NonePinned(mem')
    BY <1>3, <1>5, <1>7 DEF NonePinned
  <2>7. Orderly(mem)' /\ NonePinned(mem)'
    BY <1>2, <2>5, <2>6, OrderlyThen DEF NonePinned
  <2> QED
    BY <1>6, <2>7 DEF Lone
<1>8. CASE c \notin mem.live
  <2>1. Orderly(mem')
    BY <1>1, <1>3, <1>4, <1>5, <1>8, SameLists
  <2>2. Orderly(mem)'
    BY <1>2, <2>1, OrderlyThen
  <2> QED
    BY <1>5, <1>6, <1>8, <2>2 DEF Lone
<1> QED
  BY <1>7, <1>8

LEMMA LoneInsert ==
  ASSUME CacheInv, conf.threads = 1, Lone, Insert(1)
  PROVE  Lone'
<1> DEFINE over == Size[file[1]] + cache_size - conf.max_cache_size
           e    == Evict(mem, hand, over)
<1>1. /\ 1 \in Threads /\ mem \in MemType /\ file[1] \in Files /\ conf \in ConfType
      /\ pc \in [Threads -> Locations]
  BY LoneFacts
<1>2. ~mem.fault /\ pc[1] = "insert" /\ pc'[1] = "idle" /\ UNCHANGED <<conf, file, node>>
  BY <1>1 DEF Insert, At, Goto
<1>3. ~Pinning /\ ~Pinning' /\ pc'[1] \notin {"pin", "copy", "unpin"}
  BY <1>2 DEF Pinning
<1>4. /\ Orderly(mem) /\ NonePinned(mem)
      /\ mem.allocated < MaxRequests /\ mem.live \subseteq 1 .. mem.allocated
  BY <1>1, <1>2, <1>3, RoomToAllocate DEF Lone, CacheInv
<1>5. mem' = mem \/ mem' = Link(mem, file[1]) \/ mem' = e.mem \/ mem' = Link(e.mem, file[1])
  BY DEF Insert
<1>6. /\ e.mem \in MemType /\ Orderly(e.mem) /\ NonePinned(e.mem)
      /\ e.mem.live \subseteq mem.live /\ e.mem.allocated = mem.allocated
  <2>1. hand \in BucketLists /\ over \in Int
    <3>1. hand \in BucketLists /\ cache_size \in Int /\ conf.max_cache_size \in Int
      BY <1>1 DEF CacheInv, TypeOK, BucketLists, ConfType
    <3>2. Size[file[1]] \in Int
      BY <1>1, Constants
    <3> QED
      BY <3>1, <3>2
  <2> HIDE DEF over
  <2>2. e \in LoneEvictions(mem, over)
    BY <1>1, <1>4, <2>1, LoneEvict
  <2> QED
    BY <2>2 DEF LoneEvictions, Evictions, EvictType
<1> HIDE DEF e
<1>7. Orderly(mem') /\ NonePinned(mem')
  <2>1. ASSUME NEW m, m \in {mem, e.mem}
        PROVE  /\ Orderly(m) /\ NonePinned(m)
               /\ Orderly(Link(m, file[1])) /\ NonePinned(Link(m, file[1]))
    <3>1. /\ m \in MemType /\ Orderly(m) /\ NonePinned(m)
          /\ m.allocated < MaxRequests /\ m.live \subseteq 1 .. m.allocated
      BY <1>1, <1>4, <1>6, <2>1
    <3> QED
      BY <1>1, <3>1, OrderlyLink
  <2> QED
    BY <1>5, <2>1
<1>8. Orderly(mem)' /\ NonePinned(mem)'
  BY <1>2, <1>7, OrderlyThen DEF NonePinned
<1> QED
  BY <1>3, <1>8 DEF Lone

LEMMA StepLone == CacheInv /\ LoneInv /\ [Next]_vars => LoneInv'
<1> SUFFICES ASSUME CacheInv, LoneInv, [Next]_vars, conf'.threads = 1 PROVE Lone'
  BY DEF LoneInv
<1>1. conf' = conf
  BY DEF Next, vars, Request, Lookup, ReadFile, Recheck, Insert, Pin, Copy, Unpin, Terminated
<1>2. conf.threads = 1 /\ Lone
  BY <1>1 DEF LoneInv
<1>3. Threads = {1}
  BY <1>2 DEF Threads
<1>4. CASE UNCHANGED vars
  <2>1. Orderly(mem)'
    BY <1>2, <1>4, OrderlyThen DEF vars, Lone
  <2> QED
    BY <1>2, <1>4, <2>1 DEF vars, Lone, NonePinned, Pinning
<1>5. CASE \E t \in Threads : \/ \E f \in Files : Request(t, f)
                             \/ Lookup(t) \/ ReadFile(t) \/ Recheck(t) \/ Insert(t)
                             \/ Pin(t) \/ Copy(t) \/ Unpin(t)
  BY <1>2, <1>3, <1>5, LoneRequest, LoneLookup, LoneReadFile, LoneRecheck, LoneInsert,
     LonePin, LoneCopy, LoneUnpin
<1> QED
  BY <1>4, <1>5 DEF Next, Terminated

\* One thread, any hash function: the lists of nodes end within the number of
\* files they count, a bucket holds only files of its hash, and usingrn holds
\* the one file that is being sent.
THEOREM LoneInvariance == Spec => []LoneInv
<1> QED
  BY InitLone, StepLone, CacheInvariance, PTL DEF Spec

\* With one worker and any hash function no search or append runs in a circle,
\* and an eviction ends (cache_evict's loop, do_server_request's scans): what
\* the code's single-threaded runs promise, for any number of requests, files,
\* buckets and sizes.
THEOREM SearchesEndCorrect == Spec => []SearchesEnd
<1>1. CacheInv /\ LoneInv => SearchesEnd
  <2> SUFFICES ASSUME CacheInv, conf.threads = 1, Lone PROVE SearchesEnd
    BY DEF LoneInv, SearchesEnd
  <2>1. /\ Threads = {1} /\ mem \in MemType /\ file[1] \in Files /\ conf \in ConfType
        /\ mem.allocated \in 0 .. MaxRequests
    BY LoneFacts
  <2>2. ASSUME NEW l \in Lists PROVE Walk(mem, l)[MaxRequests + 1] = Nil
    <3>1. EndsInTime(mem, l)
      BY DEF Lone, Orderly
    <3>2. MaxRequests + 1 \in 1 .. (MaxRequests + 1) /\ MaxRequests + 1 > mem.num_files[l]
      BY <2>1, <3>1, Constants DEF EndsInTime
    <3> QED
      BY <3>1, <3>2 DEF EndsInTime
  <2>3. ASSUME At(1, "insert")
        PROVE  EvictDone(Evict(mem, hand, Size[file[1]] + cache_size - conf.max_cache_size))
    <3> DEFINE over == Size[file[1]] + cache_size - conf.max_cache_size
    <3>1. Orderly(mem) /\ NonePinned(mem)
      BY <2>3 DEF At, Lone, Pinning
    <3>2. hand \in BucketLists /\ cache_size \in Int /\ conf.max_cache_size \in Int
      BY <2>1 DEF CacheInv, TypeOK, BucketLists, ConfType
    <3>3. Size[file[1]] \in Int
      BY <2>1, Constants
    <3>4. over \in Int
      BY <3>2, <3>3
    <3> HIDE DEF over
    <3>5. EvictDone(Evict(mem, hand, over))
      BY <2>1, <3>1, <3>2, <3>4, LoneEvict
    <3> QED
      BY <3>5 DEF over
  <2> QED
    BY <2>1, <2>2, <2>3 DEF SearchesEnd
<1> QED
  BY <1>1, LoneInvariance, CacheInvariance, PTL
=============================================================================
