--------------------------- MODULE AsyncIo_proofs ---------------------------
(***************************************************************************)
(* Proofs about AsyncIo for a kernel in which a context runs to its end    *)
(* (Smp = FALSE), with any number of threads and operations, with and      *)
(* without timeouts: each operation has one owner between two requests, no *)
(* call works on a freed one, each result is posted once, and no input is  *)
(* missed.  The invariant is Core of AsyncIo_refs_proofs with Ports, Packs *)
(* and Polls of AsyncIo_polls_proofs.                                      *)
(***************************************************************************)
EXTENDS AsyncIo_polls_proofs, FiniteSetTheorems

-----------------------------------------------------------------------------
(* Lists of calls: what AsyncIo_refs_proofs uses of counting.              *)

\* The places of the positions K are 1 .. Cardinality(K), in the same order.
LEMMA PlaceOrder ==
  ASSUME NEW n \in Nat, NEW K \in SUBSET (1 .. n)
  PROVE  /\ IsFiniteSet(K) /\ Cardinality(K) \in Nat
         /\ \A k \in K : Place(k, K) \in 1 .. Cardinality(K)
         /\ \A j, k \in K : j < k => Place(j, K) < Place(k, K)
         /\ \A i \in 1 .. Cardinality(K) : \E k \in K : Place(k, K) = i
<1> DEFINE Upto(k) == {j \in K : j <= k}
           f == [k \in K |-> Cardinality(Upto(k))]
           m == Cardinality(K)
<1>0. IsFiniteSet(1 .. n) /\ \A k \in K : k \in Int
  BY FS_Interval
<1>1. IsFiniteSet(K) /\ m \in Nat
  BY <1>0, FS_Subset, FS_CardinalityType, Zenon
<1>2. \A k \in K : IsFiniteSet(Upto(k)) /\ Cardinality(Upto(k)) \in Nat /\ Cardinality(Upto(k)) <= m
  <2> SUFFICES ASSUME NEW k \in K
               PROVE  IsFiniteSet(Upto(k)) /\ Cardinality(Upto(k)) \in Nat /\ Cardinality(Upto(k)) <= m
    BY Zenon
  <2>1. Upto(k) \in SUBSET K
    BY Zenon
  <2> HIDE DEF Upto
  <2> QED BY <1>1, <2>1, FS_Subset, FS_CardinalityType, Zenon
<1>3. \A k \in K : Cardinality(Upto(k)) >= 1
  <2> SUFFICES ASSUME NEW k \in K PROVE Cardinality(Upto(k)) >= 1
    BY Zenon
  <2>1. k \in Upto(k)
    OBVIOUS
  <2> HIDE DEF Upto
  <2>2. Cardinality(Upto(k)) # 0
    BY <1>2, <2>1, FS_EmptySet, Zenon
  <2> QED BY <1>2, <2>2
<1>4. ASSUME NEW j \in K, NEW k \in K, j < k
      PROVE  Cardinality(Upto(j)) < Cardinality(Upto(k))
  <2>1. Upto(j) \in SUBSET Upto(k) /\ k \in Upto(k) /\ k \notin Upto(j)
    <3>1. j \in Int /\ k \in Int /\ k <= k /\ ~(k <= j)
      BY <1>0, <1>4
    <3>2. \A i \in K : i <= j => i <= k
      BY <1>0, <1>4, <3>1
    <3> QED BY <3>1, <3>2, Zenon
  <2> HIDE DEF Upto
  <2>2. Cardinality(Upto(j)) <= Cardinality(Upto(k)) /\ Cardinality(Upto(k)) # Cardinality(Upto(j))
    BY <1>2, <2>1, FS_Subset, Zenon
  <2> QED BY <1>2, <2>2
<1>5. \A k \in K : Place(k, K) = Cardinality(Upto(k))
  BY Zenon DEF Place
<1> HIDE DEF Upto
<1>6. f \in [K -> 1 .. m]
  BY <1>1, <1>2, <1>3
<1>7. \A j, k \in K : f[j] = f[k] => j = k
  <2> SUFFICES ASSUME NEW j \in K, NEW k \in K, j # k PROVE f[j] # f[k]
    BY Zenon
  <2>1. j < k \/ k < j
    OBVIOUS
  <2> QED BY <1>2, <1>4, <2>1
<1> HIDE DEF f
<1>8. f \in Injection(K, 1 .. m)
  BY <1>6, <1>7, Zenon DEF Injection, IsInjective
<1>9. IsFiniteSet(1 .. m) /\ Cardinality(1 .. m) = m
  BY <1>1, FS_Interval
<1>10. f \in Surjection(K, 1 .. m)
  BY <1>8, <1>9, FS_Injection, Zenon
<1>11. \A i \in 1 .. m : \E k \in K : f[k] = i
  BY <1>10, Zenon DEF Surjection
<1>12. \A k \in K : f[k] = Place(k, K)
  BY <1>5, Zenon DEF f
<1> QED BY <1>1, <1>2, <1>3, <1>4, <1>5, <1>11, <1>12

\* The i-th element left is the one at the position with that place.
LEMMA KeptAt ==
  ASSUME NEW S, NEW q \in Seq(S), NEW K \in SUBSET DOMAIN q
  PROVE  /\ Keep(q, K) \in Seq(S)
         /\ DOMAIN Keep(q, K) = 1 .. Cardinality(K)
         /\ \A k \in K : Keep(q, K)[Place(k, K)] = q[k]
         /\ \A i \in 1 .. Cardinality(K) :
              \E k \in K : Place(k, K) = i /\ Keep(q, K)[i] = q[k]
<1> DEFINE m == Cardinality(K)
           at(i) == CHOOSE k \in K : Place(k, K) = i
<1>1. DOMAIN q = 1 .. Len(q) /\ Len(q) \in Nat
  OBVIOUS
<1>2. /\ m \in Nat
      /\ \A k \in K : Place(k, K) \in 1 .. m
      /\ \A j, k \in K : j < k => Place(j, K) < Place(k, K)
      /\ \A i \in 1 .. m : \E k \in K : Place(k, K) = i
  BY <1>1, PlaceOrder, Zenon
<1>3. \A i \in 1 .. m : at(i) \in K /\ Place(at(i), K) = i
  BY <1>2, Zenon
<1>4. \A j, k \in K : Place(j, K) = Place(k, K) => j = k
  <2> SUFFICES ASSUME NEW j \in K, NEW k \in K, j # k PROVE Place(j, K) # Place(k, K)
    BY Zenon
  <2>1. j < k \/ k < j
    BY <1>1
  <2> QED BY <1>2, <2>1
<1> HIDE DEF at
<1>5. Keep(q, K) = [i \in 1 .. m |-> q[at(i)]]
  BY Zenon DEF Keep, at
<1>6. \A i \in 1 .. m : q[at(i)] \in S
  BY <1>3
<1>7. \A k \in K : at(Place(k, K)) = k
  BY <1>2, <1>3, <1>4, Zenon
<1> QED BY <1>2, <1>3, <1>5, <1>6, <1>7

LEMMA NoneCounted ==
  ASSUME NEW q, NEW e, ~Has(q, e)
  PROVE  Count(q, e) = 0
<1>1. {k \in DOMAIN q : q[k] = e} = {}
  BY Zenon DEF Has
<1> QED BY <1>1, FS_EmptySet, Zenon DEF Count

LEMMA OneCounted ==
  ASSUME NEW q, NEW e, NEW i \in DOMAIN q, q[i] = e, \A j \in DOMAIN q : q[j] = e => j = i
  PROVE  Count(q, e) = 1
<1>1. {k \in DOMAIN q : q[k] = e} = {i}
  BY Zenon
<1> QED BY <1>1, FS_Singleton, Zenon DEF Count

LEMMA CountedNat ==
  ASSUME NEW S, NEW q \in Seq(S), NEW e
  PROVE  /\ Count(q, e) \in Nat
         /\ Has(q, e) <=> Count(q, e) > 0
<1> DEFINE K == {k \in DOMAIN q : q[k] = e}
<1>1. IsFiniteSet(DOMAIN q)
  BY FS_Interval
<1>2. K \in SUBSET DOMAIN q
  BY Zenon
<1>3. Has(q, e) <=> K # {}
  BY Zenon DEF Has
<1> HIDE DEF K
<1>4. IsFiniteSet(K) /\ Cardinality(K) \in Nat
  BY <1>1, <1>2, FS_Subset, FS_CardinalityType, Zenon
<1>5. Cardinality(K) = 0 <=> K = {}
  BY <1>4, FS_EmptySet, Zenon
<1>6. Count(q, e) = Cardinality(K)
  BY Zenon DEF Count, K
<1> QED BY <1>3, <1>4, <1>5, <1>6

LEMMA ReplacedCounted ==
  ASSUME NEW S, NEW v \in Seq(S), NEW w \in Seq(S), w # <<>>, NEW p \in Seq(S), Replaced(v, w, p),
         NEW e
  PROVE  Count(v, e) = Count(p, e) + Count(w, e) - (IF w[1] = e THEN 1 ELSE 0)
<1> DEFINE V == {k \in DOMAIN v : v[k] = e}
           P == {k \in DOMAIN p : p[k] = e}
           W == {k \in DOMAIN w : w[k] = e}
           U == W \ {1}
           X == V \ P
           f == [k \in U |-> k - 1 + Len(p)]
<1>1. /\ Len(p) \in Nat /\ Len(w) \in Nat /\ DOMAIN w = 1 .. Len(w) /\ DOMAIN p = 1 .. Len(p)
      /\ DOMAIN v = 1 .. Len(v) /\ Len(v) = Len(p) + Len(w) - 1 /\ Len(w) >= 1
  BY DEF Replaced
<1>2. IsFiniteSet(V) /\ IsFiniteSet(P) /\ IsFiniteSet(W) /\ IsFiniteSet(U)
  <2>1. V \in SUBSET (1 .. Len(v)) /\ P \in SUBSET (1 .. Len(p)) /\ W \in SUBSET (1 .. Len(w))
        /\ U \in SUBSET (1 .. Len(w)) /\ Len(v) \in Nat
    BY <1>1
  <2> HIDE DEF V, P, W, U, X, f
  <2> QED BY <1>1, <2>1, PlaceOrder, Zenon
<1>3. P \subseteq V
  BY <1>1 DEF Replaced
<1>4. f \in Bijection(U, X)
  <2>1. \A k \in U : k \in 2 .. Len(w) /\ w[k] = e
    BY <1>1
  <2>2. \A k \in U : f[k] \in X
    <3> SUFFICES ASSUME NEW k \in U PROVE f[k] \in X
      BY Zenon
    <3>1. k \in 2 .. Len(w) /\ f[k] = k - 1 + Len(p) /\ v[k - 1 + Len(p)] = e
      BY <2>1, Zenon DEF Replaced
    <3> QED BY <1>1, <3>1
  <2>3. \A i \in X : \E k \in U : f[k] = i
    <3> SUFFICES ASSUME NEW i \in X PROVE \E k \in U : f[k] = i
      BY Zenon
    <3>0. i \in DOMAIN v /\ v[i] = e /\ ~(i \in 1 .. Len(p) /\ v[i] = p[i])
      BY <1>1, Zenon
    <3>1. i - Len(p) + 1 \in 2 .. Len(w) /\ v[i] = w[i - Len(p) + 1]
      BY <3>0, ReplacedFrom
    <3>2. i - Len(p) + 1 \in U /\ f[i - Len(p) + 1] = i
      BY <1>1, <3>0, <3>1
    <3> QED BY <3>2, Zenon
  <2>4. \A j, k \in U : f[j] = f[k] => j = k
    BY <1>1, <2>1
  <2>5. f \in [U -> X]
    BY <2>2, Zenon
  <2> HIDE DEF f, U, X
  <2> QED BY <2>3, <2>4, <2>5, Zenon DEF Bijection, Injection, Surjection, IsInjective
<1>5. Cardinality(V) = Cardinality(P) + Cardinality(X)
  <2>1. X \cap P = {} /\ X \cup P = V
    BY <1>3, Zenon
  <2>2. X \in SUBSET V
    BY Zenon
  <2> HIDE DEF V, P, X, W, U, f
  <2>4. IsFiniteSet(X)
    BY <1>2, <2>2, FS_Subset, Zenon
  <2>3. Cardinality(X \cup P) = Cardinality(X) + Cardinality(P) - Cardinality(X \cap P)
    BY <1>2, <2>4, FS_Union, Zenon
  <2>5. Cardinality(X) \in Nat /\ Cardinality(P) \in Nat /\ Cardinality({}) = 0
    BY <1>2, <2>4, FS_EmptySet, FS_CardinalityType, Zenon
  <2>6. Cardinality(X \cup P) = Cardinality(V) /\ Cardinality(X \cap P) = 0
    BY <2>1, <2>5, Zenon
  <2> QED BY <2>3, <2>5, <2>6
<1>6. Cardinality(X) = Cardinality(U)
  <2> HIDE DEF f, X, U
  <2>1. ExistsBijection(U, X)
    BY <1>4, Zenon DEF ExistsBijection
  <2> QED BY <1>2, <2>1, FS_Bijection, Zenon
<1>7. Cardinality(U) = Cardinality(W) - (IF w[1] = e THEN 1 ELSE 0)
  <2>1. 1 \in W <=> w[1] = e
    BY <1>1
  <2> HIDE DEF W
  <2> QED BY <1>2, <2>1, FS_RemoveElement, FS_CardinalityType
<1> HIDE DEF V, P, W, U, X
<1>8. Cardinality(U) \in Nat /\ Cardinality(P) \in Nat /\ Cardinality(W) \in Nat
  BY <1>2, FS_CardinalityType, Zenon
<1>9. Count(v, e) = Cardinality(V) /\ Count(p, e) = Cardinality(P) /\ Count(w, e) = Cardinality(W)
  BY Zenon DEF Count, V, P, W
<1> QED BY <1>5, <1>6, <1>7, <1>8, <1>9, Zenon

\* Nothing is removed.
LEMMA AllKept ==
  ASSUME NEW S, NEW q \in Seq(S)
  PROVE  Keep(q, DOMAIN q) = q
<1> DEFINE n == Len(q)
           K == 1 .. n
<1>1. n \in Nat /\ DOMAIN q = K
  OBVIOUS
<1> HIDE DEF n
<1>2. \A k \in K : Place(k, K) = k
  <2> SUFFICES ASSUME NEW k \in K PROVE Place(k, K) = k
    BY Zenon
  <2>1. {j \in K : j <= k} = 1 .. k
    BY <1>1
  <2>2. 1 \in Int /\ k \in Int /\ k >= 1
    BY <1>1
  <2>3. Cardinality(1 .. k) = k
    BY <2>2, FS_Interval
  <2> QED BY <2>1, <2>3, Zenon DEF Place
<1>3. Cardinality(K) = n
  <2>1. 1 \in Int /\ n \in Int
    BY <1>1
  <2>2. Cardinality(K) = IF 1 > n THEN 0 ELSE n - 1 + 1
    BY <2>1, FS_Interval, Zenon
  <2> QED BY <1>1, <2>2
<1> DEFINE v == Keep(q, K)
<1> HIDE DEF K, v
<1>4. /\ v \in Seq(S) /\ DOMAIN v = 1 .. Cardinality(K)
      /\ \A k \in K : v[Place(k, K)] = q[k]
  BY <1>1, KeptAt DEF v
<1>5. \A k \in K : v[k] = q[k]
  BY <1>2, <1>4, Zenon
<1>6. DOMAIN v = K
  BY <1>3, <1>4, Zenon DEF K
<1>7. v \in [K -> S] /\ q \in [K -> S]
  BY <1>1, <1>4, <1>6
<1>9. v = q
  BY <1>5, <1>7
<1> QED BY <1>1, <1>9, Zenon DEF v

LEMMA OthersKept ==
  ASSUME NEW S, NEW q \in Seq(S), NEW a, \A i, j \in DOMAIN q : q[i] = q[j] => i = j
  PROVE  /\ Without(q, a) \in Seq(S)
         /\ \A i, j \in DOMAIN Without(q, a) : Without(q, a)[i] = Without(q, a)[j] => i = j
         /\ \A e : Has(Without(q, a), e) <=> Has(q, e) /\ e # a
<1> DEFINE K == {i \in DOMAIN q : q[i] # a}
           v == Keep(q, K)
<1>1. K \in SUBSET DOMAIN q /\ \A i \in DOMAIN q : i \in K <=> q[i] # a
  BY Zenon
<1>2. DOMAIN q = 1 .. Len(q) /\ Len(q) \in Nat
  OBVIOUS
<1> HIDE DEF K
<1>3. /\ v \in Seq(S) /\ DOMAIN v = 1 .. Cardinality(K)
      /\ \A k \in K : v[Place(k, K)] = q[k]
      /\ \A i \in 1 .. Cardinality(K) : \E k \in K : Place(k, K) = i /\ v[i] = q[k]
  BY <1>1, KeptAt
<1>4. \A k \in K : Place(k, K) \in 1 .. Cardinality(K)
  BY <1>1, <1>2, PlaceOrder, Zenon
<1> HIDE DEF v
<1>5. ASSUME NEW i \in DOMAIN v, NEW j \in DOMAIN v, v[i] = v[j] PROVE i = j
  <2>1. PICK k \in K : Place(k, K) = i /\ v[i] = q[k]
    BY <1>3, Zenon
  <2>2. PICK m \in K : Place(m, K) = j /\ v[j] = q[m]
    BY <1>3, Zenon
  <2>3. k = m
    BY <1>1, <1>5, <2>1, <2>2, Zenon
  <2> QED BY <2>1, <2>2, <2>3, Zenon
<1>6. ASSUME NEW e PROVE Has(v, e) <=> Has(q, e) /\ e # a
  <2>1. Has(v, e) => Has(q, e) /\ e # a
    BY <1>1, <1>3 DEF Has
  <2>2. ASSUME NEW k \in DOMAIN q, q[k] = e, e # a PROVE Has(v, e)
    <3>1. k \in K
      BY <1>1, <2>2, Zenon
    <3> QED BY <1>3, <1>4, <2>2, <3>1, Zenon DEF Has
  <2> QED BY <2>1, <2>2, Zenon DEF Has
<1>7. v = Without(q, a)
  BY Zenon DEF v, K, Without
<1> QED BY <1>3, <1>5, <1>6, <1>7, Zenon

\* All that the accounts of the operations use of lists.
LEMMA ListsHold == ListFacts
<1>1. \A q, e : ~Has(q, e) => Count(q, e) = 0
  BY NoneCounted, Zenon
<1>2. \A q, e : \A i \in DOMAIN q : q[i] = e /\ (\A j \in DOMAIN q : q[j] = e => j = i)
        => Count(q, e) = 1
  BY OneCounted, Zenon
<1>3. \A S, e : \A q \in Seq(S) : Count(q, e) \in Nat /\ (Has(q, e) <=> Count(q, e) > 0)
  BY CountedNat, Zenon
<1>4. \A S, e : \A v, w, p \in Seq(S) : w # <<>> /\ Replaced(v, w, p)
        => Count(v, e) = Count(p, e) + Count(w, e) - (IF w[1] = e THEN 1 ELSE 0)
  BY ReplacedCounted
<1>5. \A S : \A q \in Seq(S) : Keep(q, DOMAIN q) = q
  BY AllKept, Zenon
<1>6. \A S, a : \A q \in Seq(S) : Distinct(q)
        => /\ Without(q, a) \in Seq(S) /\ Distinct(Without(q, a))
           /\ \A e : Has(Without(q, a), e) <=> Has(q, e) /\ e # a
  BY OthersKept, Zenon DEF Distinct
<1>7. \A S : \A q \in Seq(S) : \A K \in SUBSET DOMAIN q :
        /\ Keep(q, K) \in Seq(S)
        /\ DOMAIN Keep(q, K) = 1 .. Cardinality(K)
        /\ \A k \in K : Keep(q, K)[Place(k, K)] = q[k]
        /\ \A i \in 1 .. Cardinality(K) :
             \E k \in K : Place(k, K) = i /\ Keep(q, K)[i] = q[k]
  BY KeptAt, Zenon
<1>8. \A n \in Nat : \A K \in SUBSET (1 .. n) :
        /\ \A k \in K : Place(k, K) \in 1 .. Cardinality(K)
        /\ \A j, k \in K : j < k => Place(j, K) < Place(k, K)
  BY PlaceOrder, Zenon
<1> QED BY <1>1, <1>2, <1>3, <1>4, <1>5, <1>6, <1>7, <1>8, Zenon DEF ListFacts

USE ListsHold

-----------------------------------------------------------------------------
(* The invariant holds, and what it says between two requests.              *)

IInv == Core /\ Bare(Todo) /\ Ports /\ Packs /\ Polls

LEMMA IInvInit == Init => IInv
<1> SUFFICES ASSUME Init PROVE IInv
  BY Zenon
<1>1. Core
  BY CoreInit, Zenon
<1>2. Todo = <<>>
  <2>1. work["req"] = <<>> /\ work["cb"] = <<>>
    BY Zenon DEF Init, Ctx
  <2>2. <<>> \o <<>> = <<>>
    OBVIOUS
  <2> QED BY <2>1, <2>2, Zenon DEF Todo
<1>3. DOMAIN Todo = {}
  BY <1>2
<1>4. Bare(Todo)
  BY <1>3, Zenon DEF Bare
<1>5. \A a \in Async : asy[a].ref = 0 /\ asy[a].result = None /\ packets[a] = <<>>
  BY Zenon DEF Init, NoAsync
<1>6. Ports
  <2>1. \A q \in Queue : qfd[q]
    BY Zenon DEF Init
  <2> QED BY <1>3, <1>5, <2>1 DEF Ports
<1>7. Packs
  BY <1>5, Zenon DEF Packs
<1>8. Polls
  <2>1. fd.state = "uninit" /\ fd.pending = {}
    BY Zenon DEF Init
  <2> QED BY <1>3, <2>1, Zenon DEF Polls, Armed, Followed, Fresh
<1> QED BY <1>1, <1>4, <1>6, <1>7, <1>8, Zenon DEF IInv

LEMMA IInvNext ==
  ASSUME IInv, Smp = FALSE, [Next]_vars
  PROVE  IInv'
<1>1. Core /\ Bare(Todo) /\ Ports /\ Packs /\ Polls
  BY Zenon DEF IInv
<1>2. Core'
  BY <1>1, CoreNext, Zenon
<1>3. Ports' /\ Bare(Todo)'
  BY <1>1, PortsNext, Zenon
<1>4. Packs'
  BY <1>1, PacksNext, Zenon
<1>5. Polls'
  BY <1>1, PollsNext, Zenon
<1> QED BY <1>2, <1>3, <1>4, <1>5, Zenon DEF IInv

LEMMA IdleOpen ==
  ASSUME Core, Idle
  PROVE  /\ Todo = <<>> /\ DOMAIN Todo = {}
         /\ \A x : ~Has(Todo, x) /\ Count(Todo, x) = 0
         /\ \A op, a : ~Heads(Todo, op, a)
         /\ \A a : ~Resulted(a)
<1>1. Todo = <<>>
  <2>1. work["req"] = <<>> /\ work["cb"] = <<>>
    BY Zenon DEF Idle, Ctx
  <2>2. <<>> \o <<>> = <<>>
    OBVIOUS
  <2> QED BY <2>1, <2>2, Zenon DEF Todo
<1>2. DOMAIN Todo = {}
  BY <1>1
<1>3. \A x : ~Has(Todo, x)
  BY <1>2, Zenon DEF Has
<1>4. \A x : Count(Todo, x) = 0
  BY <1>3, CountNone, Zenon DEF Has
<1>5. ASSUME NEW a, Resulted(a) PROVE FALSE
  <2>1. \A x, y : <<x, y>> # <<>>
    BY Zenon
  <2> QED BY <1>1, <1>5, <2>1, Zenon DEF Resulted
<1> QED BY <1>1, <1>2, <1>3, <1>4, <1>5 DEF Heads

\* The APCs of an operation are those of its thread.
LEMMA OutstandingIs ==
  ASSUME Core, Idle, NEW a \in Async, NEW x
  PROVE  x \in Outstanding(a) <=>
           /\ asy[a].thread \in Thread
           /\ \/ x = <<asy[a].thread, 0>> /\ Runs(a)
              \/ \E i \in DOMAIN sysApc[asy[a].thread] :
                   x = <<asy[a].thread, i>> /\ sysApc[asy[a].thread][i].a = a
<1> DEFINE o == asy[a].thread
<1>1. \A t \in Thread : running[t] # None /\ running[t].a = a => t = o
  BY Zenon DEF Core, Apcs
<1>2. \A t \in Thread : \A i \in DOMAIN sysApc[t] : sysApc[t][i].a = a => t = o
  BY DEF Core, Apcs
<1>3. Runs(a) <=> o \in Thread /\ running[o] # None /\ running[o].a = a
  BY IdleOpen, Zenon DEF Runs
<1>4. x \in Outstanding(a) <=>
        \/ \E t \in Thread : running[t] # None /\ running[t].a = a /\ x = <<t, 0>>
        \/ \E t \in Thread : \E i \in DOMAIN sysApc[t] : sysApc[t][i].a = a /\ x = <<t, i>>
  BY DEF Outstanding
<1> HIDE DEF o
<1>5. x \in Outstanding(a) <=>
        /\ o \in Thread
        /\ \/ x = <<o, 0>> /\ Runs(a)
           \/ \E i \in DOMAIN sysApc[o] : x = <<o, i>> /\ sysApc[o][i].a = a
  BY <1>1, <1>2, <1>3, <1>4, Zenon
<1> QED BY <1>5, Zenon DEF o

LEMMA IdleOwner ==
  ASSUME Core
  PROVE  OneOwner
<1> SUFFICES ASSUME Idle, NEW a \in Async, asy[a].life = "live"
             PROVE  /\ asy[a].ref = 1
                    /\ IF asy[a].status = "pending" THEN asy[a].apc /\ Outstanding(a) = {}
                       ELSE \E x \in Outstanding(a) : Outstanding(a) = {x}
  BY Zenon DEF OneOwner
<1>1. RefExact(a) /\ Exclusive(a) /\ Living(a) /\ Owned(a)
  BY Zenon DEF Core, Account
<1>2. asy[a].ref \in Nat /\ asy[a].thread \in Thread
  BY <1>1, Zenon DEF Core, TypeOK, AsyncType, Living
<1>3. asy[a].ref # 0
  BY <1>1, IdleOpen, Zenon DEF Living
<1>4. asy[a].ref = 1 /\ Held(a)
  BY <1>1, <1>2, <1>3, IdleOpen DEF RefExact
<1>5. CASE asy[a].status = "pending"
  <2>1. Pends(a)
    BY <1>5, IdleOpen, Zenon DEF Pends
  <2>2. ~Posted(a) /\ ~Runs(a) /\ asy[a].apc
    BY <1>1, <2>1, Zenon DEF Exclusive
  <2>3. Outstanding(a) = {}
    BY <2>2, OutstandingIs, Zenon DEF Posted
  <2> QED BY <1>4, <1>5, <2>2, <2>3, Zenon
<1>6. CASE asy[a].status # "pending"
  <2>1. Posted(a) \/ Runs(a)
    BY <1>4, <1>6, Zenon DEF Held, Pends
  <2>2. CASE Posted(a)
    <3>1. ~Runs(a)
      BY <1>1, <2>2, Zenon DEF Exclusive
    <3>2. PICK i \in DOMAIN sysApc[asy[a].thread] : sysApc[asy[a].thread][i].a = a
      BY <2>2, Zenon DEF Posted
    <3>3. \A j \in DOMAIN sysApc[asy[a].thread] : sysApc[asy[a].thread][j].a = a => j = i
      BY <1>2, <3>2 DEF Core, Apcs
    <3>4. \A x : x \in Outstanding(a) <=> x = <<asy[a].thread, i>>
      BY <1>2, <3>1, <3>2, <3>3, OutstandingIs
    <3>5. Outstanding(a) = {<<asy[a].thread, i>>}
      BY <3>4, Zenon
    <3> QED BY <1>4, <1>6, <3>5, Zenon
  <2>3. CASE Runs(a) /\ ~Posted(a)
    <3>1. \A x : x \in Outstanding(a) <=> x = <<asy[a].thread, 0>>
      BY <1>2, <2>3, OutstandingIs, Zenon DEF Posted
    <3>2. Outstanding(a) = {<<asy[a].thread, 0>>}
      BY <3>1, Zenon
    <3> QED BY <1>4, <1>6, <3>2, Zenon
  <2> QED BY <2>1, <2>2, <2>3, Zenon
<1> QED BY <1>5, <1>6, Zenon

LEMMA HeadLive ==
  ASSUME Core, Bare(Todo)
  PROVE  NoStaleAsync
<1> SUFFICES ASSUME NEW c \in Ctx, work[c] # <<>>, Arg(c).op # "async_wake_up_by", Arg(c).a \in Async
             PROVE  \/ asy[Arg(c).a].life = "live"
                    \/ /\ Arg(c).op = "async_terminate" /\ Arg(c).s = "cancelled"
                       /\ asy[Arg(c).a].thread \in dead
  BY Zenon DEF NoStaleAsync
<1>1. /\ Todo[1] = Arg(c) /\ 1 \in DOMAIN Todo /\ Todo \in Seq(CallType)
      /\ Arg(c) \in CallType /\ Fine(Arg(c))
  BY HeadFine, Zenon
<1>2. Arg(c).op \in Ops
  BY <1>1, Zenon DEF CallType
<1>3. CASE Arg(c).op \in FdOps
  <2>1. Arg(c).a = None
    BY <1>1, <1>3, Zenon DEF Bare
  <2> QED BY <2>1, AsyncIoAssumption, Zenon
<1>4. CASE Arg(c).op = "dequeue_apc"
  <2>1. Arg(c).a \in Thread
    BY <1>1, <1>4, Zenon DEF Fine
  <2> QED BY <2>1, AsyncIoAssumption, Zenon
<1>5. CASE Arg(c).op \in CoveredOps
  BY <1>1, <1>5, CoveredLive, Zenon
<1>6. CASE Arg(c).op = "async_terminate"
  <2>1. TermAt(asy, dead, qfd, Todo, 1)
    BY <1>1, <1>6, Zenon DEF Core, Calls, Terminates
  <2>2. asy[Arg(c).a].ref > 0 \/ (Arg(c).s = "cancelled" /\ asy[Arg(c).a].thread \in dead)
    BY <1>1, <2>1, Zenon DEF TermAt
  <2>3. asy[Arg(c).a].life # "live" => asy[Arg(c).a].ref = 0
    BY Zenon DEF Core, Account, Living
  <2> QED BY <1>6, <2>2, <2>3
<1> QED BY <1>2, <1>3, <1>4, <1>5, <1>6 DEF Ops, FdOps, CoveredOps

\* What the code asserts when it goes on with an operation: async_set_result,
\* assert( async->status != STATUS_PENDING ), and release_object,
\* assert( obj->refcount ).
ResultAwaited == \A c \in Ctx : Now(c, "async_set_result") => asy[Arg(c).a].status # "pending"
RefsLeft == \A c \in Ctx : Now(c, "release") => asy[Arg(c).a].ref > 0

LEMMA HeadAsserts ==
  ASSUME Core
  PROVE  ApcAllocated /\ ResultAwaited /\ RefsLeft
<1> SUFFICES ASSUME NEW c \in Ctx, work[c] # <<>>
             PROVE  /\ Arg(c).op = "async_queue_apc" => asy[Arg(c).a].apc
                    /\ Arg(c).op = "async_set_result" => asy[Arg(c).a].status # "pending"
                    /\ Arg(c).op = "release" => asy[Arg(c).a].ref > 0
  BY Zenon DEF ApcAllocated, ResultAwaited, RefsLeft, Now, Arg
<1> DEFINE a == Arg(c).a
<1>1. /\ Todo[1] = Arg(c) /\ 1 \in DOMAIN Todo /\ Todo \in Seq(CallType) /\ Todo # <<>>
      /\ Fine(Arg(c))
  BY HeadFine, Zenon
<1>2. CASE Arg(c).op \in {"async_queue_apc", "async_set_result"}
  <2>1. a \in Async
    BY <1>1, <1>2, Zenon DEF Fine, CoveredOps
  <2>2. Exclusive(a)
    BY <2>1, Zenon DEF Core, Account
  <2>3. Heads(Todo, Arg(c).op, a)
    BY <1>1, Zenon DEF Heads
  <2>4. ASSUME Arg(c).op = "async_set_result" PROVE asy[a].status # "pending"
    <3>1. ~Pends(a)
      BY <2>2, <2>3, <2>4, Zenon DEF Exclusive, Resulting, Held
    <3>2. asy[a].life = "live"
      BY <1>1, <1>2, CoveredLive, Zenon DEF CoveredOps
    <3>3. ~Heads(Todo, "restart", a)
      BY <1>1, <2>4, Zenon DEF Heads
    <3> QED BY <3>1, <3>2, <3>3, Zenon DEF Pends
  <2>5. ASSUME Arg(c).op = "async_queue_apc" PROVE asy[a].apc
    BY <2>2, <2>3, <2>5, Zenon DEF Exclusive, Queueing
  <2> QED BY <1>2, <2>4, <2>5, Zenon
<1>3. CASE Arg(c).op = "release"
  <2>1. Arg(c) = ReleaseOf(a)
    BY <1>1, <1>3, Zenon DEF Fine
  <2>2. Has(Todo, ReleaseOf(a))
    BY <1>1, <2>1, Zenon DEF Has
  <2>3. asy[a].ref > 0
    BY <1>1, <1>3, <2>2, CoveredLive, Zenon DEF CoveredOps
  <2> QED BY <1>3, <2>3, Zenon
<1>4. CASE Arg(c).op \notin {"async_queue_apc", "async_set_result", "release"}
  BY <1>4, Zenon
<1> QED BY <1>2, <1>3, <1>4, Zenon

LEMMA PacksOnce ==
  ASSUME Packs
  PROVE  PacketOnce
<1>1. \A x : Len(<<x>>) = 1
  BY Zenon
<1>2. Len(<<>>) = 0
  BY Zenon
<1>3. ASSUME NEW a \in Async PROVE Len(packets[a]) = 0 \/ Len(packets[a]) = 1
  <2>1. packets[a] = <<>> \/ packets[a] = <<asy[a].result>>
    BY Zenon DEF Packs
  <2> QED BY <1>1, <1>2, <2>1, Zenon
<1>4. \A a \in Async : Len(packets[a]) <= 1
  <2>1. \A n : n = 0 \/ n = 1 => n <= 1
    OBVIOUS
  <2> QED BY <1>3, <2>1, Zenon
<1>5. \A a \in Async : asy[a].owed /\ asy[a].result # None => packets[a] = <<asy[a].result>>
  BY Zenon DEF Packs
<1> QED BY <1>4, <1>5, Zenon DEF PacketOnce

LEMMA PollsIdle ==
  ASSUME Core, Polls
  PROVE  NoMissedInput
<1> SUFFICES ASSUME Idle, fd.open, fd.state = "added", NEW q \in PollEvents
             PROVE  q \in fd.key /\ q \notin ready
  BY Zenon DEF NoMissedInput
<1>1. DOMAIN Todo = {} /\ Todo = <<>>
  BY IdleOpen, Zenon
<1>2. ~Full(asy, Todo) /\ ~Rearms(Todo) /\ ~Wakes(Todo, q)
  BY <1>1, Zenon DEF Full, Rearms, Wakes
<1>3. q \in Queue
  BY Zenon DEF PollEvents
<1>4. Armed(fd, ready, asy, PollEvents, Todo)
  BY Zenon DEF Polls
<1> QED BY <1>2, <1>3, <1>4, Zenon DEF Armed

-----------------------------------------------------------------------------
(* Theorems, for a kernel in which a context runs to its end (Smp = FALSE). *)

LEMMA Invariance ==
  ASSUME Smp = FALSE
  PROVE  Spec => []IInv
<1>1. Init => IInv
  BY IInvInit, Zenon
<1>2. IInv /\ [Next]_vars => IInv'
  BY IInvNext, Zenon
<1> QED BY <1>1, <1>2, PTL DEF Spec

\* Between two requests every operation that is not over has one reference:
\* its queue holds it while it is pending, with the APC for its end
\* allocated; afterwards exactly one APC does, on its way to the thread or
\* back.  Cancellation, timeout, close and the death of the thread meet in
\* any order, for any number of threads and operations.
THEOREM OperationsOwned ==
  ASSUME Smp = FALSE
  PROVE  Spec => []OneOwner
<1>1. IInv => OneOwner
  BY IdleOwner, Zenon DEF IInv
<1> QED BY <1>1, Invariance, PTL

\* No call works on a struct async that async_destroy has freed, but for the
\* async_terminate of async_wake_up_by on an operation of a dead thread that
\* was ended while the same list was walked.
THEOREM OperationsLive ==
  ASSUME Smp = FALSE
  PROVE  Spec => []NoStaleAsync
<1>1. IInv => NoStaleAsync
  BY HeadLive, Zenon DEF IInv
<1> QED BY <1>1, Invariance, PTL

\* The assertions of the asynchronous operations: async_terminate has an APC
\* to queue, async_set_result is called for an operation that was woken, and
\* release_object is called with a reference left.
THEOREM AsyncAsserts ==
  ASSUME Smp = FALSE
  PROVE  Spec => [](ApcAllocated /\ ResultAwaited /\ RefsLeft)
<1>1. IInv => ApcAllocated /\ ResultAwaited /\ RefsLeft
  BY HeadAsserts, Zenon DEF IInv
<1> QED BY <1>1, Invariance, PTL

\* async_set_result posts the packet of an operation once, with the result
\* it ends with, to the port of the descriptor or, when the descriptor was
\* closed, to the one free_async_queue kept; restarts post none.
THEOREM CompletionOnce ==
  ASSUME Smp = FALSE
  PROVE  Spec => []PacketOnce
<1>1. IInv => PacketOnce
  BY PacksOnce, Zenon DEF IInv
<1> QED BY <1>1, Invariance, PTL

\* Between two requests a descriptor that is polled sleeps on all that its
\* first pending operations wait for, and none of it is there: whatever woke
\* or ended an operation looked at the file again.
THEOREM InputNotMissed ==
  ASSUME Smp = FALSE
  PROVE  Spec => []NoMissedInput
<1>1. IInv => NoMissedInput
  BY PollsIdle, Zenon DEF IInv
<1> QED BY <1>1, Invariance, PTL
=============================================================================
