---------------------------- MODULE SampleProofs ----------------------------
(***************************************************************************)
(* Proofs about the sample application for any products, filters, users,   *)
(* repositories and pages: the queue of the thunks, the inventory and the  *)
(* cart, the numbers of the todos and the order of the pages.              *)
(***************************************************************************)
EXTENDS Sample, Integers, SequenceTheorems, FiniteSetTheorems, TLAPS

-----------------------------------------------------------------------------
(* Sequences and counting *)

LEMMA Joined ==
    ASSUME NEW X, NEW q \in Seq(X), NEW n \in Nat, NEW f \in [1..n -> X]
    PROVE  /\ q \o f \in Seq(X)
           /\ Len(q) \in Nat /\ DOMAIN q = 1..Len(q)
           /\ DOMAIN (q \o f) = 1..(Len(q) + n) /\ Len(q \o f) = Len(q) + n
           /\ \A i \in DOMAIN q : (q \o f)[i] = q[i]
           /\ \A k \in 1..n : (q \o f)[Len(q) + k] = f[k]
<1>1. f \in Seq(X)
  BY SeqDef
<1>2. Len(f) = n
  BY <1>1, LenProperties
<1>3. q \o f \in Seq(X) /\ Len(q \o f) = Len(q) + n
      /\ \A i \in 1..(Len(q) + n) : (q \o f)[i] = IF i <= Len(q) THEN q[i] ELSE f[i - Len(q)]
  BY <1>1, <1>2, ConcatProperties
<1>4. Len(q) \in Nat /\ DOMAIN q = 1..Len(q) /\ DOMAIN (q \o f) = 1..(Len(q) + n)
  BY <1>3, LenProperties
<1>5. \A i \in DOMAIN q : (q \o f)[i] = q[i]
  BY <1>3, <1>4
<1>6. \A k \in 1..n : (q \o f)[Len(q) + k] = f[k]
  BY <1>3, <1>4
<1>7. QED
  BY <1>3, <1>4, <1>5, <1>6

LEMMA JoinedOne ==
    ASSUME NEW X, NEW x \in X, NEW n \in Nat, NEW f \in [1..n -> X]
    PROVE  /\ <<x>> \o f \in Seq(X)
           /\ DOMAIN (<<x>> \o f) = 1..(1 + n)
           /\ (<<x>> \o f)[1] = x
           /\ \A k \in 1..n : (<<x>> \o f)[1 + k] = f[k]
<1>1. PICK one : one = <<x>>
  OBVIOUS
<1>2. one \in Seq(X) /\ Len(one) = 1 /\ one[1] = x
  BY <1>1
<1>3. f \in Seq(X)
  BY SeqDef
<1>4. Len(f) = n
  BY <1>3, LenProperties
<1>5. one \o f \in Seq(X) /\ Len(one \o f) = 1 + n
      /\ \A i \in 1..(1 + n) : (one \o f)[i] = IF i <= 1 THEN one[i] ELSE f[i - 1]
  BY <1>2, <1>3, <1>4, ConcatProperties
<1>6. DOMAIN (one \o f) = 1..(1 + n)
  BY <1>5, LenProperties
<1>7. (one \o f)[1] = x
  BY <1>2, <1>5
<1>8. \A k \in 1..n : (one \o f)[1 + k] = f[k]
  BY <1>5
<1>9. QED
  BY <1>1, <1>5, <1>6, <1>7, <1>8

LEMMA Behind ==
    ASSUME NEW X, NEW q \in Seq(X), q # <<>>
    PROVE  /\ Len(q) \in Nat \ {0} /\ DOMAIN q = 1..Len(q)
           /\ Tail(q) \in Seq(X) /\ Head(q) \in X /\ Head(q) = q[1]
           /\ Len(Tail(q)) = Len(q) - 1 /\ DOMAIN Tail(q) = 1..(Len(q) - 1)
           /\ \A i \in 1..(Len(q) - 1) : Tail(q)[i] = q[i + 1]
<1>1. Len(q) \in Nat /\ Len(q) # 0 /\ DOMAIN q = 1..Len(q)
  BY LenProperties, EmptySeq
<1>2. /\ Tail(q) \in Seq(X) /\ Head(q) \in X /\ Len(Tail(q)) = Len(q) - 1 /\ Head(q) = q[1]
      /\ \A i \in 1..Len(Tail(q)) : Tail(q)[i] = q[i + 1]
  BY HeadTailProperties
<1>3. QED
  BY <1>1, <1>2, LenProperties

(* How many of the numbers up to n belong to K. *)
Upto(K, n) == Cardinality({j \in 1..n : j \in K})

LEMMA UptoGrows ==
    ASSUME NEW K, NEW n \in Nat
    PROVE  /\ Upto(K, n) \in 0..n
           /\ Upto(K, 0) = 0
           /\ Upto(K, n + 1) = Upto(K, n) + (IF n + 1 \in K THEN 1 ELSE 0)
<1> DEFINE U(m) == {j \in 1..m : j \in K}
<1>1. IsFiniteSet(U(n)) /\ Cardinality(U(n)) \in Nat /\ Cardinality(U(n)) <= n
  <2>1. IsFiniteSet(1..n) /\ Cardinality(1..n) = n
    BY FS_Interval
  <2>2. U(n) \in SUBSET (1..n)
    OBVIOUS
  <2>3. IsFiniteSet(U(n)) /\ Cardinality(U(n)) <= n
    BY <2>1, <2>2, FS_Subset
  <2>4. QED
    BY <2>3, FS_CardinalityType
<1>2. Upto(K, n) \in 0..n /\ Upto(K, 0) = 0
  <2>1. U(0) = {}
    OBVIOUS
  <2>2. Upto(K, 0) = 0
    BY <2>1, FS_EmptySet DEF Upto
  <2>3. QED
    BY <1>1, <2>2 DEF Upto
<1>3. CASE n + 1 \in K
  <2>1. U(n + 1) = U(n) \cup {n + 1} /\ n + 1 \notin U(n)
    BY <1>3
  <2>2. Cardinality(U(n + 1)) = Cardinality(U(n)) + 1
    BY <1>1, <2>1, FS_AddElement
  <2>3. QED
    BY <1>2, <1>3, <2>2 DEF Upto
<1>4. CASE n + 1 \notin K
  <2>1. U(n + 1) = U(n)
    BY <1>4
  <2>2. QED
    BY <1>2, <1>4, <2>1 DEF Upto
<1>5. QED
  BY <1>3, <1>4

(* The elements of K are counted in their order, and all of them by the    *)
(* last number.                                                            *)
LEMMA UptoOrders ==
    ASSUME NEW n \in Nat, NEW K \in SUBSET (1..n)
    PROVE  /\ Cardinality(K) = Upto(K, n)
           /\ \A k \in 1..n : Upto(K, k) \in Nat /\ Upto(K, k) <= Cardinality(K)
           /\ \A k \in K : Upto(K, k) > 0
           /\ \A j, k \in K : Upto(K, j) = Upto(K, k) => j = k
<1> DEFINE U(m) == {j \in 1..m : j \in K}
<1>1. IsFiniteSet(1..n)
  BY FS_Interval
<1>2. U(n) = K
  OBVIOUS
<1>3. \A m \in 1..n : U(m) \in SUBSET K
  OBVIOUS
<1>4. IsFiniteSet(K) /\ Cardinality(K) \in Nat
  BY <1>1, FS_Subset, FS_CardinalityType
<1>5. \A m \in 1..n : Cardinality(U(m)) <= Cardinality(K) /\ IsFiniteSet(U(m))
  BY <1>3, <1>4, FS_Subset
<1>6. \A m \in 1..n : Cardinality(U(m)) \in Nat
  BY <1>5, FS_CardinalityType
<1>7. ASSUME NEW j \in 0..n, NEW k \in K, j < k
      PROVE  Cardinality(U(j)) < Cardinality(U(k))
  <2>1. k \in 1..n /\ k \in U(k) /\ k \notin U(j)
    BY <1>7
  <2>2. U(j) \in SUBSET U(k) /\ U(j) # U(k)
    BY <1>7, <2>1
  <2>3. IsFiniteSet(U(k))
    BY <1>5, <2>1
  <2>4. Cardinality(U(j)) <= Cardinality(U(k)) /\ Cardinality(U(j)) # Cardinality(U(k))
    BY <2>2, <2>3, FS_Subset
  <2>5. IsFiniteSet(U(j))
    BY <2>2, <2>3, FS_Subset
  <2>6. Cardinality(U(j)) \in Nat /\ Cardinality(U(k)) \in Nat
    BY <2>3, <2>5, FS_CardinalityType
  <2>7. QED
    BY <2>4, <2>6
<1>8. \A k \in K : Upto(K, k) > 0
  <2> SUFFICES ASSUME NEW k \in K PROVE Cardinality(U(k)) > 0
    BY DEF Upto
  <2>1. k \in 1..n /\ 0 \in 0..n /\ 0 < k
    OBVIOUS
  <2>2. Cardinality(U(0)) < Cardinality(U(k))
    BY <1>7, <2>1
  <2>3. U(0) = {}
    OBVIOUS
  <2>4. Cardinality(U(0)) = 0
    BY <2>3, FS_EmptySet
  <2>5. Cardinality(U(k)) \in Nat
    BY <1>6, <2>1
  <2>6. QED
    BY <2>2, <2>4, <2>5
<1>9. ASSUME NEW j \in K, NEW k \in K, Upto(K, j) = Upto(K, k)
      PROVE  j = k
  <2>1. Cardinality(U(j)) = Cardinality(U(k)) /\ j \in 1..n /\ k \in 1..n
    BY <1>9 DEF Upto
  <2>2. Cardinality(U(j)) \in Nat
    BY <1>6, <2>1
  <2>3. ~(j < k) /\ ~(k < j)
    BY <1>7, <2>1, <2>2
  <2>4. QED
    BY <2>1, <2>3
<1>10. QED
  BY <1>2, <1>5, <1>6, <1>8, <1>9 DEF Upto

(* Without the first number the others are one earlier. *)
LEMMA UptoShifts ==
    ASSUME NEW n \in Nat, NEW K, NEW L, \A j \in 1..n : j \in L <=> j + 1 \in K
    PROVE  Upto(L, n) = Upto(K, n + 1) - (IF 1 \in K THEN 1 ELSE 0)
<1> DEFINE A == {j \in 1..n : j \in L}
           B == {j \in 1..(n + 1) : j \in K}
           f == [j \in A |-> j + 1]
<1>1. IsFiniteSet(1..n) /\ IsFiniteSet(1..(n + 1))
  BY FS_Interval
<1>2. IsFiniteSet(A) /\ IsFiniteSet(B)
  BY <1>1, FS_Subset
<1>3. f \in Bijection(A, B \ {1})
  <2>1. f \in [A -> B \ {1}]
    OBVIOUS
  <2>2. \A i, j \in A : f[i] = f[j] => i = j
    OBVIOUS
  <2>3. \A k \in B \ {1} : k - 1 \in A /\ f[k - 1] = k
    OBVIOUS
  <2>4. QED
    BY <2>1, <2>2, <2>3 DEF Bijection, Injection, Surjection, IsInjective
<1>4. Cardinality(B \ {1}) = Cardinality(A)
  BY <1>2, <1>3, FS_Bijection DEF ExistsBijection
<1>5. Cardinality(A) \in Nat /\ Cardinality(B) \in Nat
  BY <1>2, FS_CardinalityType
<1>6. Cardinality(B \ {1}) = IF 1 \in B THEN Cardinality(B) - 1 ELSE Cardinality(B)
  BY <1>2, FS_RemoveElement
<1>7. 1 \in B <=> 1 \in K
  OBVIOUS
<1>8. QED
  BY <1>4, <1>5, <1>6, <1>7 DEF Upto

-----------------------------------------------------------------------------
(* The store of any route: messages M, or those of thunks, travel on the   *)
(* bus B; the queue Q holds functions of T under thunkIds up to g.         *)

LEMMA StoreCounts == ASSUME NEW X PROVE S!Cardinality(X) = Cardinality(X)
  BY Zenon DEF S!Cardinality, Cardinality

ThunkMessage == [type : {"ABus.Thunk"}, thunkId : Nat]

ThunksIn(B) == {k \in DOMAIN B : B[k].type = "ABus.Thunk"}

Actions(M, F) ==
    /\ \A m \in M : m.type # "ABus.Thunk" /\ "run" \notin DOMAIN m
    /\ \A t \in F : "run" \in DOMAIN t

Kept(B, Q, g, M, F) ==
    /\ g \in Nat
    /\ B \in Seq(M \cup ThunkMessage)
    /\ DOMAIN Q \subseteq 1..g
    /\ \A id \in DOMAIN Q : Q[id] \in F
    /\ \A k \in ThunksIn(B) : B[k].thunkId \in DOMAIN Q
    /\ \A id \in DOMAIN Q : \E k \in ThunksIn(B) : B[k].thunkId = id
    /\ \A j, k \in ThunksIn(B) : B[j].thunkId = B[k].thunkId => j = k

(* A thunkId on the bus belongs to one function and is given to it once.   *)
LEMMA KeptQueued ==
    ASSUME NEW B, NEW Q, NEW g, NEW M, NEW F, Kept(B, Q, g, M, F)
    PROVE  /\ {B[k].thunkId : k \in ThunksIn(B)} = DOMAIN Q
           /\ Cardinality(ThunksIn(B)) = Cardinality(DOMAIN Q)
<1> DEFINE f == [k \in ThunksIn(B) |-> B[k].thunkId]
<1>1. {B[k].thunkId : k \in ThunksIn(B)} = DOMAIN Q
  <2>1. \A k \in ThunksIn(B) : B[k].thunkId \in DOMAIN Q
    BY DEF Kept
  <2>2. \A id \in DOMAIN Q : \E k \in ThunksIn(B) : B[k].thunkId = id
    BY DEF Kept
  <2>3. QED
    BY <2>1, <2>2
<1>2. f \in Bijection(ThunksIn(B), DOMAIN Q)
  BY DEF Kept, Bijection, Injection, Surjection, IsInjective
<1>3. DOMAIN B = 1..Len(B) /\ Len(B) \in Nat
  BY LenProperties DEF Kept
<1>4. IsFiniteSet(ThunksIn(B))
  <2>1. IsFiniteSet(1..Len(B)) /\ ThunksIn(B) \in SUBSET (1..Len(B))
    BY <1>3, FS_Interval DEF ThunksIn
  <2>2. QED
    BY <2>1, FS_Subset
<1>5. QED
  BY <1>1, <1>2, <1>4, FS_Bijection DEF ExistsBijection

(* A message that is no thunk's leaves the bus. *)
LEMMA KeptBehind ==
    ASSUME NEW B, NEW Q, NEW g, NEW M, NEW F, Kept(B, Q, g, M, F),
           B # <<>>, Head(B).type # "ABus.Thunk"
    PROVE  Kept(Tail(B), Q, g, M, F)
<1>1. /\ Len(B) \in Nat \ {0} /\ DOMAIN B = 1..Len(B)
      /\ Tail(B) \in Seq(M \cup ThunkMessage) /\ Head(B) = B[1]
      /\ DOMAIN Tail(B) = 1..(Len(B) - 1)
      /\ \A i \in 1..(Len(B) - 1) : Tail(B)[i] = B[i + 1]
  BY Behind DEF Kept
<1>2. \A k \in ThunksIn(Tail(B)) : k + 1 \in ThunksIn(B) /\ Tail(B)[k] = B[k + 1]
  BY <1>1 DEF ThunksIn
<1>3. \A k \in ThunksIn(B) : k - 1 \in ThunksIn(Tail(B)) /\ Tail(B)[k - 1] = B[k]
  <2> SUFFICES ASSUME NEW k \in ThunksIn(B)
               PROVE  k - 1 \in ThunksIn(Tail(B)) /\ Tail(B)[k - 1] = B[k]
    OBVIOUS
  <2>1. k \in 1..Len(B) /\ k # 1
    BY <1>1 DEF ThunksIn
  <2>2. k - 1 \in 1..(Len(B) - 1) /\ (k - 1) + 1 = k
    BY <1>1, <2>1
  <2>3. Tail(B)[k - 1] = B[k]
    BY <1>1, <2>2
  <2>4. QED
    BY <1>1, <2>2, <2>3 DEF ThunksIn
<1>4. \A j, k \in ThunksIn(Tail(B)) : Tail(B)[j].thunkId = Tail(B)[k].thunkId => j = k
  <2> SUFFICES ASSUME NEW j \in ThunksIn(Tail(B)), NEW k \in ThunksIn(Tail(B)),
                      Tail(B)[j].thunkId = Tail(B)[k].thunkId
               PROVE  j = k
    OBVIOUS
  <2>1. j \in Nat /\ k \in Nat
    BY <1>1 DEF ThunksIn
  <2>2. /\ j + 1 \in ThunksIn(B) /\ k + 1 \in ThunksIn(B)
        /\ B[j + 1].thunkId = B[k + 1].thunkId
    BY <1>2
  <2>3. \A i, l \in ThunksIn(B) : B[i].thunkId = B[l].thunkId => i = l
    BY DEF Kept
  <2>4. j + 1 = k + 1
    BY <2>2, <2>3
  <2>5. QED
    BY <2>1, <2>4
<1>5. \A id \in DOMAIN Q : \E k \in ThunksIn(Tail(B)) : Tail(B)[k].thunkId = id
  <2>1. \A id \in DOMAIN Q : \E k \in ThunksIn(B) : B[k].thunkId = id
    BY DEF Kept
  <2>2. QED
    BY <1>3, <2>1
<1>6. \A k \in ThunksIn(Tail(B)) : Tail(B)[k].thunkId \in DOMAIN Q
  <2>1. \A k \in ThunksIn(B) : B[k].thunkId \in DOMAIN Q
    BY DEF Kept
  <2>2. QED
    BY <1>2, <2>1
<1>7. g \in Nat /\ DOMAIN Q \subseteq 1..g /\ \A id \in DOMAIN Q : Q[id] \in F
  BY DEF Kept
<1>8. QED
  BY <1>1, <1>4, <1>5, <1>6, <1>7 DEF Kept

(* The message of a thunk leaves the bus and its function the queue. *)
LEMMA KeptBehindThunk ==
    ASSUME NEW B, NEW Q, NEW g, NEW M, NEW F, Kept(B, Q, g, M, F),
           B # <<>>, Head(B).type = "ABus.Thunk"
    PROVE  /\ Head(B).thunkId \in DOMAIN Q
           /\ Kept(Tail(B), [id \in DOMAIN Q \ {Head(B).thunkId} |-> Q[id]], g, M, F)
<1> DEFINE R == [id \in DOMAIN Q \ {Head(B).thunkId} |-> Q[id]]
<1>1. /\ Len(B) \in Nat \ {0} /\ DOMAIN B = 1..Len(B)
      /\ Tail(B) \in Seq(M \cup ThunkMessage) /\ Head(B) = B[1]
      /\ DOMAIN Tail(B) = 1..(Len(B) - 1)
      /\ \A i \in 1..(Len(B) - 1) : Tail(B)[i] = B[i + 1]
  BY Behind DEF Kept
<1>2. \A k \in ThunksIn(Tail(B)) : k + 1 \in ThunksIn(B) /\ Tail(B)[k] = B[k + 1] /\ k \in Nat \ {0}
  BY <1>1 DEF ThunksIn
<1>3. 1 \in ThunksIn(B)
  BY <1>1 DEF ThunksIn
<1>4. \A k \in ThunksIn(Tail(B)) : B[k + 1].thunkId # B[1].thunkId
  <2> SUFFICES ASSUME NEW k \in ThunksIn(Tail(B)), B[k + 1].thunkId = B[1].thunkId PROVE FALSE
    OBVIOUS
  <2>1. k + 1 = 1
    BY <1>2, <1>3 DEF Kept
  <2>2. QED
    BY <1>2, <2>1
<1>5. \A k \in ThunksIn(B) : k # 1 => k - 1 \in ThunksIn(Tail(B)) /\ Tail(B)[k - 1] = B[k]
  <2> SUFFICES ASSUME NEW k \in ThunksIn(B), k # 1
               PROVE  k - 1 \in ThunksIn(Tail(B)) /\ Tail(B)[k - 1] = B[k]
    OBVIOUS
  <2>1. k \in 1..Len(B)
    BY <1>1 DEF ThunksIn
  <2>2. k - 1 \in 1..(Len(B) - 1) /\ (k - 1) + 1 = k
    BY <1>1, <2>1
  <2>3. Tail(B)[k - 1] = B[k]
    BY <1>1, <2>2
  <2>4. QED
    BY <1>1, <2>2, <2>3 DEF ThunksIn
<1>6. \A j, k \in ThunksIn(Tail(B)) : Tail(B)[j].thunkId = Tail(B)[k].thunkId => j = k
  <2> SUFFICES ASSUME NEW j \in ThunksIn(Tail(B)), NEW k \in ThunksIn(Tail(B)),
                      Tail(B)[j].thunkId = Tail(B)[k].thunkId
               PROVE  j = k
    OBVIOUS
  <2>1. /\ j + 1 \in ThunksIn(B) /\ k + 1 \in ThunksIn(B)
        /\ B[j + 1].thunkId = B[k + 1].thunkId
    BY <1>2
  <2>2. \A i, l \in ThunksIn(B) : B[i].thunkId = B[l].thunkId => i = l
    BY DEF Kept
  <2>3. j + 1 = k + 1
    BY <2>1, <2>2
  <2>4. QED
    BY <1>2, <2>3
<1>7. Head(B).thunkId \in DOMAIN Q
  BY <1>1, <1>3 DEF Kept
<1>8. \A k \in ThunksIn(Tail(B)) : Tail(B)[k].thunkId \in DOMAIN R
  <2>1. \A k \in ThunksIn(B) : B[k].thunkId \in DOMAIN Q
    BY DEF Kept
  <2>2. Head(B).thunkId = B[1].thunkId
    BY <1>1
  <2>3. QED
    BY <1>2, <1>4, <2>1, <2>2
<1>9. \A id \in DOMAIN R : \E k \in ThunksIn(Tail(B)) : Tail(B)[k].thunkId = id
  <2> SUFFICES ASSUME NEW id \in DOMAIN R
               PROVE  \E k \in ThunksIn(Tail(B)) : Tail(B)[k].thunkId = id
    OBVIOUS
  <2>1. PICK k \in ThunksIn(B) : B[k].thunkId = id
    BY DEF Kept
  <2>2. k # 1
    BY <1>1, <2>1
  <2>3. QED
    BY <1>5, <2>1, <2>2
<1>10. DOMAIN R \subseteq 1..g /\ \A id \in DOMAIN R : R[id] \in F
  BY DEF Kept
<1>11. QED
  BY <1>1, <1>6, <1>7, <1>8, <1>9, <1>10 DEF Kept

(* What store.dispatch does: messages are put at the end of the bus, and   *)
(* the functions among them into the queue.                                *)
LEMMA DispatchKeeps ==
    ASSUME NEW M, NEW F, Actions(M, F), NEW actions \in Seq(M \cup F), NEW before, NEW left,
           Kept(before, left, guids, M, F), S!Dispatch(actions, before, left)
    PROVE  /\ Kept(bus', queue', guids', M, F)
           /\ Len(before) \in Nat /\ Len(actions) \in Nat
           /\ DOMAIN before = 1..Len(before) /\ DOMAIN actions = 1..Len(actions)
           /\ DOMAIN bus' = 1..(Len(before) + Len(actions))
           /\ \A k \in DOMAIN before : bus'[k] = before[k]
           /\ \A k \in DOMAIN actions :
                IF "run" \in DOMAIN actions[k] THEN bus'[Len(before) + k].type = "ABus.Thunk"
                ELSE bus'[Len(before) + k] = actions[k]
           /\ \A i \in DOMAIN left : i \in DOMAIN queue' /\ queue'[i] = left[i]
           /\ \A i \in DOMAIN queue' \ DOMAIN left :
                 \E k \in DOMAIN actions : "run" \in DOMAIN actions[k] /\ queue'[i] = actions[k]
<1> DEFINE L == Len(before)
           n == Len(actions)
           K == {k \in DOMAIN actions : S!IsThunk(actions[k])}
           id(k) == guids + Upto(K, k)
           sent == [k \in 1..n |-> IF k \in K THEN [type |-> "ABus.Thunk", thunkId |-> id(k)]
                                   ELSE actions[k]]
<1>1. /\ n \in Nat /\ DOMAIN actions = 1..n /\ \A k \in 1..n : actions[k] \in M \cup F
      /\ guids \in Nat /\ before \in Seq(M \cup ThunkMessage)
  BY LenProperties, ElementOfSeq DEF Kept
<1>2. K \in SUBSET (1..n)
  BY <1>1
<1>3. /\ Cardinality(K) = Upto(K, n)
      /\ \A k \in 1..n : Upto(K, k) \in Nat /\ Upto(K, k) <= Cardinality(K)
      /\ \A k \in K : Upto(K, k) > 0
      /\ \A j, k \in K : Upto(K, j) = Upto(K, k) => j = k
  <2> HIDE DEF K, n
  <2>1. QED
    BY <1>1, <1>2, UptoOrders
<1>4. Cardinality(K) \in Nat
  <2>1. IsFiniteSet(1..n)
    BY <1>1, FS_Interval
  <2>2. QED
    BY <1>2, <2>1, FS_Subset, FS_CardinalityType
<1>5. \A k \in 1..n : S!NewIds(actions)[k] = id(k)
  <2> SUFFICES ASSUME NEW k \in 1..n PROVE S!NewIds(actions)[k] = id(k)
    OBVIOUS
  <2>1. {j \in 1..k : S!IsThunk(actions[j])} = {j \in 1..k : j \in K}
    BY <1>1
  <2>2. S!NewIds(actions)[k] = guids + Cardinality({j \in 1..k : S!IsThunk(actions[j])})
    BY <1>1, StoreCounts DEF S!NewIds
  <2>3. QED
    BY <2>1, <2>2 DEF Upto
<1>6. \A k \in 1..n : k \in K <=> S!IsThunk(actions[k])
  BY <1>1
<1>7. guids' = guids + Cardinality(K)
  BY StoreCounts DEF S!Dispatch
<1>8. bus' = before \o sent
  <2>1. bus' = before \o [k \in DOMAIN actions |->
                IF S!IsThunk(actions[k]) THEN [type |-> "ABus.Thunk", thunkId |-> S!NewIds(actions)[k]]
                ELSE actions[k]]
    BY DEF S!Dispatch
  <2> HIDE DEF K, id
  <2>2. [k \in DOMAIN actions |->
                IF S!IsThunk(actions[k]) THEN [type |-> "ABus.Thunk", thunkId |-> S!NewIds(actions)[k]]
                ELSE actions[k]] = sent
    BY <1>1, <1>5, <1>6
  <2>3. QED
    BY <2>1, <2>2
<1>9. /\ DOMAIN queue' = DOMAIN left \cup {id(k) : k \in K}
      /\ \A i \in DOMAIN left : queue'[i] = left[i]
      /\ \A i \in {id(k) : k \in K} \ DOMAIN left : queue'[i] = actions[CHOOSE k \in K : id(k) = i]
  <2> DEFINE new == S!NewIds(actions)
             chosen(i) == CHOOSE k \in K : new[k] = i
  <2>1. queue' = [i \in DOMAIN left \cup {new[k] : k \in K} |->
                       IF i \in DOMAIN left THEN left[i] ELSE actions[chosen(i)]]
    BY Zenon DEF S!Dispatch
  <2>2. \A k \in K : S!NewIds(actions)[k] = id(k)
    BY <1>2, <1>5
  <2> HIDE DEF K, id
  <2>3. {S!NewIds(actions)[k] : k \in K} = {id(k) : k \in K}
    BY <2>2
  <2>4. \A i : chosen(i) = CHOOSE k \in K : id(k) = i
    BY <2>2
  <2> HIDE DEF new, chosen
  <2>5. /\ DOMAIN queue' = DOMAIN left \cup {new[k] : k \in K}
        /\ \A i \in DOMAIN left : queue'[i] = left[i]
        /\ \A i \in {new[k] : k \in K} \ DOMAIN left : queue'[i] = actions[chosen(i)]
    BY <2>1
  <2>6. {new[k] : k \in K} = {id(k) : k \in K}
    BY <2>3 DEF new
  <2>7. QED
    BY <2>4, <2>5, <2>6
<1>10. \A k \in K : id(k) \in Nat /\ id(k) > guids /\ id(k) <= guids'
  BY <1>1, <1>2, <1>3, <1>4, <1>7
<1>11. \A j, k \in K : id(j) = id(k) => j = k
  BY <1>1, <1>2, <1>3
<1>12. \A k \in K : id(k) \notin DOMAIN left
  BY <1>1, <1>10 DEF Kept
<1>13. \A k \in K : queue'[id(k)] = actions[k]
  <2> SUFFICES ASSUME NEW k \in K PROVE queue'[id(k)] = actions[k]
    OBVIOUS
  <2> HIDE DEF K, id
  <2>1. \A j \in K : id(j) = id(k) <=> j = k
    BY <1>11
  <2>2. (CHOOSE j \in K : id(j) = id(k)) = k
    BY <2>1
  <2>3. QED
    BY <1>9, <1>12, <2>2
<1>14. sent \in [1..n -> M \cup ThunkMessage]
  <2> SUFFICES ASSUME NEW k \in 1..n PROVE sent[k] \in M \cup ThunkMessage
    OBVIOUS
  <2>1. CASE k \in K
    BY <1>10, <2>1 DEF ThunkMessage
  <2>2. CASE k \notin K
    BY <1>1, <1>6, <2>2 DEF Actions, S!IsThunk
  <2>3. QED
    BY <2>1, <2>2
<1> HIDE DEF sent
<1>15. /\ bus' \in Seq(M \cup ThunkMessage)
       /\ L \in Nat /\ DOMAIN before = 1..L
       /\ DOMAIN bus' = 1..(L + n)
       /\ \A k \in DOMAIN before : bus'[k] = before[k]
       /\ \A k \in 1..n : bus'[L + k] = sent[k]
  <2>1. before \in Seq(M \cup ThunkMessage) /\ n \in Nat
    BY <1>1
  <2> HIDE DEF K, id, n
  <2>2. /\ before \o sent \in Seq(M \cup ThunkMessage)
        /\ L \in Nat /\ DOMAIN before = 1..L
        /\ DOMAIN (before \o sent) = 1..(L + n)
        /\ \A k \in DOMAIN before : (before \o sent)[k] = before[k]
        /\ \A k \in 1..n : (before \o sent)[L + k] = sent[k]
    BY <1>14, <2>1, Joined
  <2>3. QED
    BY <1>8, <2>2
<1>16. /\ \A k \in K : sent[k].type = "ABus.Thunk" /\ sent[k].thunkId = id(k)
       /\ \A k \in (1..n) \ K : sent[k] = actions[k]
  BY <1>2 DEF sent
<1>17. \A k \in 1..n : k \notin K => actions[k] \in M /\ actions[k].type # "ABus.Thunk"
  BY <1>1, <1>6 DEF Actions, S!IsThunk
<1>18. \A k \in K : actions[k] \in F
  BY <1>1, <1>2, <1>6 DEF Actions, S!IsThunk
<1>19. \A k \in 1..n : k \in K <=> "run" \in DOMAIN actions[k]
  BY <1>6 DEF S!IsThunk
<1> HIDE DEF K, id, n, L
<1>20. ThunksIn(bus') = ThunksIn(before) \cup {L + k : k \in K}
  <2>1. \A i \in 1..L : i \in ThunksIn(bus') <=> i \in ThunksIn(before)
    BY <1>1, <1>15 DEF ThunksIn
  <2>2. ASSUME NEW k \in 1..n
        PROVE  L + k \in ThunksIn(bus') <=> k \in K
    <3>1. L + k \in DOMAIN bus' /\ bus'[L + k] = sent[k]
      BY <1>1, <1>15
    <3>2. sent[k].type = "ABus.Thunk" <=> k \in K
      BY <1>16, <1>17
    <3>3. QED
      BY <3>1, <3>2 DEF ThunksIn
  <2>3. \A i \in 1..(L + n) : i \in 1..L \/ (i - L \in 1..n /\ L + (i - L) = i)
    BY <1>1, <1>15
  <2>4. ThunksIn(bus') \subseteq 1..(L + n) /\ ThunksIn(before) \subseteq 1..L
    BY <1>15 DEF ThunksIn
  <2>5. ASSUME NEW i \in ThunksIn(bus')
        PROVE  i \in ThunksIn(before) \cup {L + k : k \in K}
    BY <2>1, <2>2, <2>3, <2>4
  <2>6. ASSUME NEW i \in ThunksIn(before)
        PROVE  i \in ThunksIn(bus')
    BY <2>1, <2>4
  <2>7. ASSUME NEW k \in K
        PROVE  L + k \in ThunksIn(bus')
    BY <1>2, <2>2
  <2>8. QED
    BY <2>5, <2>6, <2>7
<1>21. /\ \A i \in ThunksIn(before) : bus'[i].thunkId = before[i].thunkId
       /\ \A k \in K : bus'[L + k].thunkId = id(k)
  <2>1. \A i \in ThunksIn(before) : bus'[i] = before[i]
    BY <1>15 DEF ThunksIn
  <2>2. \A k \in K : bus'[L + k] = sent[k]
    BY <1>2, <1>15
  <2>3. \A k \in K : bus'[L + k].thunkId = id(k)
    BY <1>16, <2>2
  <2>4. \A i \in ThunksIn(before) : bus'[i].thunkId = before[i].thunkId
    BY <2>1
  <2>5. QED
    BY <2>3, <2>4
<1>22. /\ \A i \in ThunksIn(before) : before[i].thunkId \in DOMAIN left
       /\ \A i \in DOMAIN left : \E k \in ThunksIn(before) : before[k].thunkId = i
       /\ \A j, k \in ThunksIn(before) : before[j].thunkId = before[k].thunkId => j = k
       /\ DOMAIN left \subseteq 1..guids
       /\ \A i \in DOMAIN left : left[i] \in F
  BY DEF Kept
<1>23. Kept(bus', queue', guids', M, F)
  <2>1. \A i \in ThunksIn(bus') : bus'[i].thunkId \in DOMAIN queue'
    BY <1>9, <1>20, <1>21, <1>22
  <2>2. \A i \in DOMAIN queue' : \E k \in ThunksIn(bus') : bus'[k].thunkId = i
    BY <1>9, <1>20, <1>21, <1>22
  <2>3. \A j, k \in ThunksIn(bus') : bus'[j].thunkId = bus'[k].thunkId => j = k
    BY <1>11, <1>12, <1>20, <1>21, <1>22
  <2>4. guids' \in Nat /\ DOMAIN queue' \subseteq 1..guids'
    BY <1>1, <1>4, <1>7, <1>9, <1>10, <1>22
  <2>5. \A i \in DOMAIN queue' : queue'[i] \in F
    BY <1>9, <1>13, <1>18, <1>22
  <2>6. QED
    BY <1>15, <2>1, <2>2, <2>3, <2>4, <2>5 DEF Kept
<1>24. /\ L \in Nat /\ n \in Nat /\ DOMAIN before = 1..L /\ DOMAIN actions = 1..n
       /\ DOMAIN bus' = 1..(L + n) /\ \A k \in DOMAIN before : bus'[k] = before[k]
  BY <1>1, <1>15
<1>25. \A k \in DOMAIN actions :
          IF "run" \in DOMAIN actions[k] THEN bus'[L + k].type = "ABus.Thunk"
          ELSE bus'[L + k] = actions[k]
  <2> SUFFICES ASSUME NEW k \in 1..n
               PROVE  IF "run" \in DOMAIN actions[k] THEN bus'[L + k].type = "ABus.Thunk"
                      ELSE bus'[L + k] = actions[k]
    BY <1>1
  <2>1. bus'[L + k] = sent[k]
    BY <1>15
  <2>2. IF "run" \in DOMAIN actions[k] THEN sent[k].type = "ABus.Thunk" ELSE sent[k] = actions[k]
    BY <1>16, <1>19
  <2>3. QED
    BY <2>1, <2>2
<1>26. \A i \in DOMAIN left : i \in DOMAIN queue' /\ queue'[i] = left[i]
  BY <1>9
<1>27. \A i \in DOMAIN queue' \ DOMAIN left :
          \E k \in DOMAIN actions : "run" \in DOMAIN actions[k] /\ queue'[i] = actions[k]
  BY <1>1, <1>2, <1>9, <1>13, <1>19
<1>28. QED
  BY <1>23, <1>24, <1>25, <1>26, <1>27 DEF L, n

-----------------------------------------------------------------------------
(* Todos *)

LEMMA TodosDispatch ==
    ASSUME NEW actions, NEW before, NEW left, T!Dispatch(actions, before, left)
    PROVE  S!Dispatch(actions, before, left)
  BY Zenon DEF T!Dispatch, S!Dispatch, T!NewIds, S!NewIds, T!IsThunk, S!IsThunk,
     T!Cardinality, S!Cardinality

Todo == [id : Nat, completed : BOOLEAN]

TodosMessage ==
    [type : {"ADD_TODO", "TOGGLE_TODO"}, id : Nat] \cup
    [type : {"SET_VISIBILITY_FILTER"}, filter : Filter] \cup
    [type : {"test_message"}]

Created(B) == {k \in DOMAIN B : B[k].type = "ADD_TODO"}

(* The todos on the bus are those numbered from n on that were created. *)
Numbered(B, n, next) ==
    /\ {B[k].id : k \in Created(B)} = n..(next - 1)
    /\ \A j, k \in Created(B) : j < k => B[j].id < B[k].id

TodosState ==
    /\ todos \in Seq(Todo)
    /\ nextTodoId \in Nat
    /\ Len(todos) <= nextTodoId
    /\ \A k \in DOMAIN todos : todos[k].id = k - 1
    /\ Numbered(bus, Len(todos), nextTodoId)

TodosInv == TodosState /\ Kept(bus, queue, guids, TodosMessage, {})

LEMMA TodosActions == Actions(TodosMessage, {})
  BY DEF Actions, TodosMessage

(* The first todo on the bus is the next one of the list. *)
LEMMA NumberedBehind ==
    ASSUME NEW B \in Seq(TodosMessage \cup ThunkMessage), B # <<>>,
           NEW n \in Nat, NEW a \in Nat, Numbered(B, n, a)
    PROVE  /\ Head(B).type # "ADD_TODO" => Numbered(Tail(B), n, a)
           /\ Head(B).type = "ADD_TODO" =>
                 Head(B).id = n /\ n < a /\ Numbered(Tail(B), n + 1, a)
<1> DEFINE R == Tail(B)
<1>1. /\ Len(B) \in Nat \ {0} /\ DOMAIN B = 1..Len(B) /\ Head(B) = B[1]
      /\ DOMAIN R = 1..(Len(B) - 1) /\ \A i \in 1..(Len(B) - 1) : R[i] = B[i + 1]
  BY Behind
<1> HIDE DEF R
<1>2. \A k \in Created(R) : k \in Nat \ {0} /\ k + 1 \in Created(B) /\ R[k] = B[k + 1]
  BY <1>1 DEF Created
<1>3. \A k \in Created(B) \ {1} : k - 1 \in Created(R) /\ R[k - 1] = B[k] /\ 1 < k
  <2> SUFFICES ASSUME NEW k \in Created(B) \ {1}
               PROVE  k - 1 \in Created(R) /\ R[k - 1] = B[k] /\ 1 < k
    OBVIOUS
  <2>1. k \in 1..Len(B)
    BY <1>1 DEF Created
  <2>2. k - 1 \in 1..(Len(B) - 1) /\ (k - 1) + 1 = k /\ 1 < k
    BY <1>1, <2>1
  <2>3. R[k - 1] = B[k]
    BY <1>1, <2>2
  <2>4. QED
    BY <1>1, <2>2, <2>3 DEF Created
<1>4. {R[k].id : k \in Created(R)} = {B[k].id : k \in Created(B) \ {1}}
  <2>1. \A k \in Created(R) : k + 1 \in Created(B) \ {1} /\ R[k] = B[k + 1]
    BY <1>2
  <2>2. QED
    BY <1>3, <2>1
<1>5. ASSUME NEW j \in Created(R), NEW k \in Created(R), j < k
      PROVE  R[j].id < R[k].id
  BY <1>2, <1>5 DEF Numbered
<1>6. 1 \in Created(B) <=> Head(B).type = "ADD_TODO"
  BY <1>1 DEF Created
<1>7. CASE Head(B).type # "ADD_TODO"
  <2>1. {R[k].id : k \in Created(R)} = {B[k].id : k \in Created(B)}
    BY <1>4, <1>6, <1>7
  <2>2. QED
    BY <1>5, <1>7, <2>1 DEF Numbered, R
<1>8. CASE Head(B).type = "ADD_TODO"
  <2>1. \A k \in Created(B) \ {1} : B[1].id < B[k].id
    BY <1>3, <1>6, <1>8 DEF Numbered
  <2>2. {B[k].id : k \in Created(B)} = n..(a - 1)
    BY DEF Numbered
  <2>3. B[1].id \in n..(a - 1)
    BY <1>6, <1>8, <2>2
  <2>4. B[1].id = n
    <3>1. n \in n..(a - 1)
      BY <2>3
    <3>2. PICK k \in Created(B) : B[k].id = n
      BY <2>2, <3>1
    <3>3. k = 1
      BY <2>1, <2>3, <3>2
    <3>4. QED
      BY <3>2, <3>3
  <2>5. {B[k].id : k \in Created(B) \ {1}} = (n + 1)..(a - 1)
    <3>1. \A k \in Created(B) \ {1} : B[k].id \in n..(a - 1) /\ n < B[k].id
      BY <2>1, <2>2, <2>4
    <3>2. ASSUME NEW x \in (n + 1)..(a - 1)
          PROVE  \E k \in Created(B) \ {1} : B[k].id = x
      <4>1. x \in n..(a - 1) /\ x # n
        OBVIOUS
      <4>2. PICK k \in Created(B) : B[k].id = x
        BY <2>2, <4>1
      <4>3. QED
        BY <2>4, <4>1, <4>2
    <3>3. QED
      BY <3>1, <3>2
  <2>6. n < a
    BY <2>3, <2>4
  <2>7. {R[k].id : k \in Created(R)} = (n + 1)..(a - 1)
    BY Zenon, <1>4, <2>5
  <2>8. QED
    BY <1>1, <1>5, <1>8, <2>4, <2>6, <2>7 DEF Numbered, R
<1>9. QED
  BY <1>7, <1>8

(* Todos that are published together follow those on the bus. *)
LEMMA TodosDispatched ==
    ASSUME NEW actions \in Seq(TodosMessage), NEW before,
           Kept(before, queue, guids, TodosMessage, {}), T!Dispatch(actions, before, queue),
           NEW n \in Nat, NEW a \in Nat, NEW b \in Nat, n <= a, a <= b, Numbered(before, n, a),
           NEW A, A = {k \in DOMAIN actions : actions[k].type = "ADD_TODO"},
           {actions[k].id : k \in A} = a..(b - 1),
           \A j, k \in A : j < k => actions[j].id < actions[k].id
    PROVE  Kept(bus', queue', guids', TodosMessage, {}) /\ Numbered(bus', n, b)
<1>1. actions \in Seq(TodosMessage \cup {})
  OBVIOUS
<1>2. S!Dispatch(actions, before, queue)
  BY TodosDispatch
<1>3. /\ Kept(bus', queue', guids', TodosMessage, {})
      /\ Len(before) \in Nat /\ Len(actions) \in Nat
      /\ DOMAIN before = 1..Len(before) /\ DOMAIN actions = 1..Len(actions)
      /\ DOMAIN bus' = 1..(Len(before) + Len(actions))
      /\ \A k \in DOMAIN before : bus'[k] = before[k]
      /\ \A k \in DOMAIN actions :
            IF "run" \in DOMAIN actions[k] THEN bus'[Len(before) + k].type = "ABus.Thunk"
            ELSE bus'[Len(before) + k] = actions[k]
  BY <1>1, <1>2, TodosActions, DispatchKeeps
<1>4. \A k \in 1..Len(actions) : "run" \notin DOMAIN actions[k]
  <2>1. \A k \in 1..Len(actions) : actions[k] \in TodosMessage
    BY ElementOfSeq
  <2>2. \A m \in TodosMessage : "run" \notin DOMAIN m
    BY TodosActions DEF Actions
  <2>3. QED
    BY <2>1, <2>2
<1>5. \A k \in 1..Len(actions) : bus'[Len(before) + k] = actions[k]
  BY <1>3, <1>4
<1> DEFINE L == Len(before)
           l == Len(actions)
           on == bus'
<1>6. L \in Nat /\ l \in Nat /\ DOMAIN before = 1..L /\ DOMAIN on = 1..(L + l)
      /\ (\A k \in 1..L : on[k] = before[k]) /\ \A k \in 1..l : on[L + k] = actions[k]
  BY <1>3, <1>5
<1>7. A \subseteq 1..l
  BY <1>3
<1>8. DOMAIN actions = 1..l
  BY <1>3
<1> HIDE DEF L, l, on
<1>9. A = {k \in 1..l : on[L + k].type = "ADD_TODO"}
  BY <1>6, <1>8
<1>10. {on[L + k].id : k \in A} = a..(b - 1)
  BY <1>6, <1>7
<1>11. \A j, k \in A : j < k => on[L + j].id < on[L + k].id
  BY <1>6, <1>7
<1>12. Created(on) = Created(before) \cup {L + k : k \in A}
  <2>1. \A k \in Created(on) : k \in 1..L \/ (k - L \in 1..l /\ L + (k - L) = k)
    BY <1>6 DEF Created
  <2>2. \A k \in 1..L : k \in Created(on) <=> k \in Created(before)
    BY <1>6 DEF Created
  <2>3. \A k \in 1..l : L + k \in Created(on) <=> k \in A
    <3> SUFFICES ASSUME NEW k \in 1..l PROVE L + k \in Created(on) <=> k \in A
      OBVIOUS
    <3>1. L + k \in DOMAIN on
      BY <1>6
    <3>2. L + k \in Created(on) <=> on[L + k].type = "ADD_TODO"
      BY <3>1 DEF Created
    <3>3. on[L + k].type = "ADD_TODO" <=> k \in A
      BY <1>9
    <3>4. QED
      BY <3>2, <3>3
  <2>4. Created(before) \subseteq 1..L /\ A \subseteq 1..l
    BY <1>6, <1>7 DEF Created
  <2>5. ASSUME NEW k \in Created(on) PROVE k \in Created(before) \cup {L + j : j \in A}
    BY <2>1, <2>2, <2>3
  <2>6. ASSUME NEW k \in Created(before) PROVE k \in Created(on)
    BY <2>2, <2>4
  <2>7. ASSUME NEW k \in A PROVE L + k \in Created(on)
    BY <2>3, <2>4
  <2>8. QED
    BY <2>5, <2>6, <2>7
<1>13. \A k \in Created(before) : k \in 1..L /\ on[k] = before[k] /\ before[k].id \in n..(a - 1)
  BY <1>6 DEF Created, Numbered
<1>14. \A k \in A : k \in 1..l /\ on[L + k].id \in a..(b - 1)
  BY <1>7, <1>10
<1>15. {on[k].id : k \in Created(on)} = n..(b - 1)
  <2>1. {on[k].id : k \in Created(on)} = {before[k].id : k \in Created(before)} \cup {on[L + k].id : k \in A}
    BY <1>12, <1>13
  <2>2. n..(b - 1) = (n..(a - 1)) \cup (a..(b - 1))
    OBVIOUS
  <2>3. QED
    BY <1>10, <2>1, <2>2 DEF Numbered
<1>16. ASSUME NEW j \in Created(on), NEW k \in Created(on), j < k
      PROVE  on[j].id < on[k].id
  <2>1. CASE j \in Created(before) /\ k \in Created(before)
    BY <1>13, <1>16, <2>1 DEF Numbered
  <2>2. CASE j \in Created(before) /\ k \notin Created(before)
    <3>1. PICK i \in A : k = L + i
      BY <1>12, <2>2
    <3>2. on[j].id \in n..(a - 1) /\ on[k].id \in a..(b - 1)
      BY <1>13, <1>14, <2>2, <3>1
    <3>3. \A x \in n..(a - 1) : \A y \in a..(b - 1) : x < y
      OBVIOUS
    <3>4. QED
      BY <3>2, <3>3
  <2>3. CASE j \notin Created(before) /\ k \in Created(before)
    BY <1>6, <1>12, <1>13, <1>14, <1>16, <2>3
  <2>4. CASE j \notin Created(before) /\ k \notin Created(before)
    <3>1. PICK i \in A : j = L + i
      BY <1>12, <2>4
    <3>2. PICK h \in A : k = L + h
      BY <1>12, <2>4
    <3>3. i < h
      BY <1>6, <1>14, <1>16, <3>1, <3>2
    <3>4. QED
      BY <1>11, <3>1, <3>2, <3>3
  <2>5. QED
    BY <2>1, <2>2, <2>3, <2>4
<1>17. QED
  BY <1>3, <1>15, <1>16 DEF Numbered, on

(* A click publishes one message, a new todo or not. *)
LEMMA TodosUse ==
    ASSUME TodosInv, NEW m \in TodosMessage, T!Use(m), nextTodoId' \in Nat,
           m.type = "ADD_TODO" => m.id = nextTodoId /\ nextTodoId' = nextTodoId + 1,
           m.type # "ADD_TODO" => nextTodoId' = nextTodoId
    PROVE  TodosInv'
<1> DEFINE A == {k \in DOMAIN <<m>> : <<m>>[k].type = "ADD_TODO"}
<1>1. /\ <<m>> \in Seq(TodosMessage) /\ DOMAIN <<m>> = {1} /\ <<m>>[1] = m
      /\ T!Dispatch(<<m>>, bus, queue) /\ todos' = todos
  BY DEF T!Use, T!Dispatched
<1>2. nextTodoId \in Nat /\ Len(todos) \in Nat /\ Len(todos) <= nextTodoId
      /\ Numbered(bus, Len(todos), nextTodoId) /\ nextTodoId <= nextTodoId'
  BY DEF TodosInv, TodosState
<1>3. {<<m>>[k].id : k \in A} = nextTodoId..(nextTodoId' - 1)
  <2>1. CASE m.type = "ADD_TODO"
    <3>1. A = {1}
      BY <1>1, <2>1
    <3>2. nextTodoId..(nextTodoId' - 1) = {nextTodoId}
      BY <1>2, <2>1
    <3> HIDE DEF A
    <3>3. QED
      BY <1>1, <2>1, <3>1, <3>2
  <2>2. CASE m.type # "ADD_TODO"
    <3>1. A = {}
      BY <1>1, <2>2
    <3>2. nextTodoId' = nextTodoId
      BY <2>2
    <3>3. \A x \in Nat : x..(x - 1) = {}
      OBVIOUS
    <3>4. nextTodoId..(nextTodoId' - 1) = {}
      BY <1>2, <3>2, <3>3
    <3>5. QED
      BY <3>1, <3>4
  <2>3. QED
    BY <2>1, <2>2
<1>4. \A j, k \in A : j < k => <<m>>[j].id < <<m>>[k].id
  BY <1>1
<1> HIDE DEF A
<1>5. Kept(bus', queue', guids', TodosMessage, {}) /\ Numbered(bus', Len(todos), nextTodoId')
  BY <1>1, <1>2, <1>3, <1>4, TodosDispatched DEF A, TodosInv
<1>6. QED
  BY <1>1, <1>2, <1>5 DEF TodosInv, TodosState

LEMMA TodosClicks ==
    ASSUME TodosInv, T!SubmitTodo \/ T!ClickTodo \/ T!ClickFilter
    PROVE  TodosInv'
<1>1. nextTodoId \in Nat
  BY DEF TodosInv, TodosState
<1>2. CASE T!SubmitTodo
  <2> DEFINE m == T!addTodo(nextTodoId)
  <2>1. m \in TodosMessage /\ m.type = "ADD_TODO" /\ m.id = nextTodoId
    BY <1>1 DEF T!addTodo, TodosMessage
  <2>2. T!Use(m) /\ nextTodoId' = nextTodoId + 1
    BY <1>2 DEF T!SubmitTodo
  <2> HIDE DEF m
  <2>3. QED
    BY <1>1, <2>1, <2>2, TodosUse
<1>3. CASE T!ClickTodo
  <2>1. PICK id \in T!getVisibleTodos :
           T!Use([type |-> "TOGGLE_TODO", id |-> id]) /\ nextTodoId' = nextTodoId
    BY <1>3 DEF T!ClickTodo
  <2>2. id \in Nat
    BY ElementOfSeq DEF T!getVisibleTodos, TodosInv, TodosState, Todo
  <2> DEFINE m == [type |-> "TOGGLE_TODO", id |-> id]
  <2>3. m \in TodosMessage /\ m.type # "ADD_TODO"
    BY <2>2 DEF TodosMessage
  <2> HIDE DEF m
  <2>4. QED
    BY <1>1, <2>1, <2>3, TodosUse DEF m
<1>4. CASE T!ClickFilter
  <2>1. PICK f \in Filter :
           T!Use([type |-> "SET_VISIBILITY_FILTER", filter |-> f]) /\ nextTodoId' = nextTodoId
    BY <1>4 DEF T!ClickFilter
  <2> DEFINE m == [type |-> "SET_VISIBILITY_FILTER", filter |-> f]
  <2>2. m \in TodosMessage /\ m.type # "ADD_TODO"
    BY DEF TodosMessage
  <2> HIDE DEF m
  <2>3. QED
    BY <1>1, <2>1, <2>2, TodosUse DEF m
<1>5. QED
  BY <1>2, <1>3, <1>4

(* The message of a filter is answered with five todos. *)
LEMMA TodosFiltered ==
    ASSUME TodosInv, bus # <<>>, Head(bus).type # "ABus.Thunk", T!reduceFilter
    PROVE  TodosInv'
<1> DEFINE test == [type |-> "test_message"]
           more == [i \in 1..5 |-> T!addTodo(nextTodoId + i - 1)]
           A == {k \in DOMAIN (<<test>> \o more) : (<<test>> \o more)[k].type = "ADD_TODO"}
<1>1. /\ nextTodoId \in Nat /\ Len(todos) \in Nat /\ Len(todos) <= nextTodoId
      /\ Numbered(bus, Len(todos), nextTodoId)
  BY DEF TodosInv, TodosState
<1>2. /\ todos' = todos /\ nextTodoId' = nextTodoId + 5
      /\ T!Dispatch(<<test>> \o more, Tail(bus), queue)
      /\ Head(bus).type = "SET_VISIBILITY_FILTER"
  BY DEF T!reduceFilter, T!MoreTodos, T!action
<1>3. test \in TodosMessage /\ test.type # "ADD_TODO"
  BY DEF TodosMessage
<1>4. \A i \in 1..5 : more[i].type = "ADD_TODO" /\ more[i].id = nextTodoId + i - 1
                      /\ more[i] \in TodosMessage
  BY <1>1 DEF TodosMessage, T!addTodo
<1>5. more \in [1..5 -> TodosMessage]
  BY <1>4
<1> HIDE DEF test, more
<1> HIDE DEF A
<1>6. /\ <<test>> \o more \in Seq(TodosMessage)
      /\ DOMAIN (<<test>> \o more) = 1..6
      /\ (<<test>> \o more)[1] = test
      /\ \A k \in 1..5 : (<<test>> \o more)[1 + k] = more[k]
  <2> DEFINE five == 5
  <2>1. five \in Nat /\ more \in [1..five -> TodosMessage] /\ test \in TodosMessage
    BY <1>3, <1>5
  <2> HIDE DEF five
  <2>2. /\ <<test>> \o more \in Seq(TodosMessage)
        /\ DOMAIN (<<test>> \o more) = 1..(1 + five)
        /\ (<<test>> \o more)[1] = test
        /\ \A k \in 1..five : (<<test>> \o more)[1 + k] = more[k]
    BY <2>1, JoinedOne
  <2>3. QED
    BY <2>2 DEF five
<1>7. \A k \in 2..6 : (<<test>> \o more)[k].type = "ADD_TODO" /\ (<<test>> \o more)[k].id = nextTodoId + k - 2
  <2> SUFFICES ASSUME NEW k \in 2..6
               PROVE  (<<test>> \o more)[k].type = "ADD_TODO" /\ (<<test>> \o more)[k].id = nextTodoId + k - 2
    OBVIOUS
  <2>1. k - 1 \in 1..5 /\ 1 + (k - 1) = k
    OBVIOUS
  <2>2. (<<test>> \o more)[k] = more[k - 1]
    BY <1>6, <2>1
  <2>3. QED
    <3>1. /\ more[k - 1].type = "ADD_TODO"
          /\ more[k - 1].id = nextTodoId + (k - 1) - 1
      BY <1>4, <2>1
    <3>2. nextTodoId + (k - 1) - 1 = nextTodoId + k - 2
      BY <1>1
    <3>3. QED
      BY <2>2, <3>1, <3>2
<1>8. A = 2..6
  <2>1. \A k \in 1..6 : k = 1 \/ k \in 2..6
    OBVIOUS
  <2>2. QED
    BY <1>3, <1>6, <1>7, <2>1 DEF A
<1> DEFINE actions == <<test>> \o more
<1>9. A = {k \in DOMAIN actions : actions[k].type = "ADD_TODO"}
  BY DEF A
<1>10. /\ actions \in Seq(TodosMessage) /\ T!Dispatch(actions, Tail(bus), queue)
       /\ \A k \in A : actions[k].id = nextTodoId + k - 2
  BY <1>2, <1>6, <1>7, <1>8
<1> HIDE DEF actions
<1>11. {actions[k].id : k \in A} = nextTodoId..(nextTodoId' - 1)
  <2>1. \A k \in 2..6 : nextTodoId + k - 2 \in nextTodoId..(nextTodoId' - 1)
    BY <1>1, <1>2
  <2>2. \A x \in nextTodoId..(nextTodoId' - 1) : x - nextTodoId + 2 \in 2..6
                                                 /\ nextTodoId + (x - nextTodoId + 2) - 2 = x
    BY <1>1, <1>2
  <2>3. QED
    <3>1. ASSUME NEW x \in nextTodoId..(nextTodoId' - 1)
          PROVE  \E k \in A : actions[k].id = x
      <4>1. x - nextTodoId + 2 \in A /\ nextTodoId + (x - nextTodoId + 2) - 2 = x
        BY <1>8, <2>2
      <4>2. actions[x - nextTodoId + 2].id = x
        BY <1>10, <4>1
      <4>3. QED
        BY <4>1, <4>2
    <3>2. \A k \in A : actions[k].id \in nextTodoId..(nextTodoId' - 1)
      BY <1>8, <1>10, <2>1
    <3>3. QED
      BY <3>1, <3>2
<1>12. ASSUME NEW j \in A, NEW k \in A, j < k
       PROVE  actions[j].id < actions[k].id
  <2>1. actions[j].id = nextTodoId + j - 2 /\ actions[k].id = nextTodoId + k - 2
    BY <1>10
  <2>2. j \in 2..6 /\ k \in 2..6
    BY <1>8
  <2>3. QED
    BY <1>1, <1>12, <2>1, <2>2
<1>13. Kept(Tail(bus), queue, guids, TodosMessage, {})
  BY KeptBehind DEF TodosInv
<1>14. Numbered(Tail(bus), Len(todos), nextTodoId)
  BY <1>1, <1>2, NumberedBehind DEF TodosInv, Kept
<1>15. nextTodoId' \in Nat /\ nextTodoId <= nextTodoId'
  BY <1>1, <1>2
<1>16. Kept(bus', queue', guids', TodosMessage, {}) /\ Numbered(bus', Len(todos), nextTodoId')
  BY <1>1, <1>9, <1>10, <1>11, <1>12, <1>13, <1>14, <1>15, TodosDispatched
<1>17. QED
  BY <1>1, <1>2, <1>15, <1>16 DEF TodosInv, TodosState

(* The reducer takes the first todo of the bus, and nothing else. *)
LEMMA TodosReduced ==
    ASSUME TodosInv, bus # <<>>, Head(bus).type # "ABus.Thunk", T!reduceTodos
    PROVE  TodosInv'
<1> DEFINE m == Head(bus)
<1>1. /\ nextTodoId \in Nat /\ Len(todos) \in Nat /\ Len(todos) <= nextTodoId
      /\ todos \in Seq(Todo) /\ DOMAIN todos = 1..Len(todos)
      /\ \A k \in DOMAIN todos : todos[k].id = k - 1
      /\ Numbered(bus, Len(todos), nextTodoId)
  BY LenProperties DEF TodosInv, TodosState
<1>2. /\ nextTodoId' = nextTodoId /\ T!Dispatch(<<>>, Tail(bus), queue)
      /\ todos' = CASE m.type = "ADD_TODO" -> Append(todos, [id |-> m.id, completed |-> FALSE])
                    [] m.type = "TOGGLE_TODO" ->
                         [k \in DOMAIN todos |-> IF todos[k].id = m.id
                                                 THEN [todos[k] EXCEPT !.completed = ~@] ELSE todos[k]]
                    [] OTHER -> todos
  BY DEF T!reduceTodos, T!action
<1>3. Kept(Tail(bus), queue, guids, TodosMessage, {})
  BY KeptBehind DEF TodosInv
<1>4. /\ m.type # "ADD_TODO" => Numbered(Tail(bus), Len(todos), nextTodoId)
      /\ m.type = "ADD_TODO" =>
            m.id = Len(todos) /\ Len(todos) < nextTodoId
            /\ Numbered(Tail(bus), Len(todos) + 1, nextTodoId)
  BY <1>1, NumberedBehind DEF TodosInv, Kept
<1> HIDE DEF m
<1>5. ASSUME NEW n \in Nat, n <= nextTodoId, Numbered(Tail(bus), n, nextTodoId)
      PROVE  Kept(bus', queue', guids', TodosMessage, {}) /\ Numbered(bus', n, nextTodoId')
  <2> DEFINE actions == <<>>
             A == {k \in DOMAIN actions : actions[k].type = "ADD_TODO"}
             before == Tail(bus)
  <2>1. A = {} /\ actions \in Seq(TodosMessage)
    OBVIOUS
  <2>2. nextTodoId..(nextTodoId - 1) = {}
    BY <1>1
  <2>3. A = {k \in DOMAIN actions : actions[k].type = "ADD_TODO"}
    OBVIOUS
  <2>4. T!Dispatch(actions, before, queue) /\ Kept(before, queue, guids, TodosMessage, {})
        /\ Numbered(before, n, nextTodoId)
    BY <1>2, <1>3, <1>5
  <2> HIDE DEF actions, A, before
  <2>5. {actions[k].id : k \in A} = nextTodoId..(nextTodoId - 1)
        /\ \A j, k \in A : j < k => actions[j].id < actions[k].id
    BY <2>1, <2>2
  <2>6. nextTodoId \in Nat /\ n <= nextTodoId /\ nextTodoId <= nextTodoId
    BY <1>1, <1>5
  <2>7. Kept(bus', queue', guids', TodosMessage, {}) /\ Numbered(bus', n, nextTodoId)
    BY <2>1, <2>3, <2>4, <2>5, <2>6, TodosDispatched
  <2>8. QED
    BY <1>2, <2>7
<1>6. CASE m.type = "ADD_TODO"
  <2> DEFINE new == [id |-> m.id, completed |-> FALSE]
  <2>1. todos' = Append(todos, new)
    BY <1>2, <1>6
  <2>2. new \in Todo /\ new.id = Len(todos)
    BY <1>1, <1>4, <1>6 DEF Todo
  <2> HIDE DEF new
  <2>3. /\ todos' \in Seq(Todo) /\ Len(todos') = Len(todos) + 1
        /\ \A k \in 1..Len(todos) : todos'[k] = todos[k]
        /\ todos'[Len(todos) + 1] = new
    BY <1>1, <2>1, <2>2, AppendProperties
  <2>4. DOMAIN todos' = 1..(Len(todos) + 1)
    BY <2>3, LenProperties
  <2>5. \A k \in DOMAIN todos' : todos'[k].id = k - 1
    <3> SUFFICES ASSUME NEW k \in DOMAIN todos' PROVE todos'[k].id = k - 1
      OBVIOUS
    <3>1. k \in 1..Len(todos) \/ k = Len(todos) + 1
      BY <1>1, <2>4
    <3>2. k \in 1..Len(todos) => todos'[k].id = k - 1
      BY <1>1, <2>3
    <3>3. k = Len(todos) + 1 => todos'[k].id = k - 1
      BY <1>1, <2>2, <2>3
    <3>4. QED
      BY <3>1, <3>2, <3>3
  <2>6. Len(todos) + 1 \in Nat /\ Len(todos) + 1 <= nextTodoId
    BY <1>1, <1>4, <1>6
  <2>7. Kept(bus', queue', guids', TodosMessage, {}) /\ Numbered(bus', Len(todos) + 1, nextTodoId')
    BY <1>4, <1>5, <1>6, <2>6
  <2>8. Numbered(bus', Len(todos'), nextTodoId') /\ Len(todos') <= nextTodoId' /\ nextTodoId' \in Nat
    BY <1>1, <1>2, <2>3, <2>6, <2>7
  <2>9. QED
    BY <2>3, <2>5, <2>7, <2>8 DEF TodosInv, TodosState
<1>7. CASE m.type # "ADD_TODO"
  <2>1. \A k \in DOMAIN todos : todos[k] \in Todo
    BY <1>1, ElementOfSeq
  <2>2. /\ todos' \in [1..Len(todos) -> Todo]
        /\ \A k \in 1..Len(todos) : todos'[k].id = todos[k].id
    <3>1. CASE m.type = "TOGGLE_TODO"
      <4>1. todos' = [k \in 1..Len(todos) |-> IF todos[k].id = m.id
                          THEN [todos[k] EXCEPT !.completed = ~@] ELSE todos[k]]
        BY <1>1, <1>2, <3>1
      <4>2. \A k \in 1..Len(todos) : todos'[k] \in Todo /\ todos'[k].id = todos[k].id
        BY <1>1, <2>1, <4>1 DEF Todo
      <4>3. QED
        BY <4>1, <4>2
    <3>2. CASE m.type # "TOGGLE_TODO"
      <4>1. todos' = todos
        BY <1>2, <1>7, <3>2
      <4>2. QED
        BY <1>1, <2>1, <4>1
    <3>3. QED
      BY <3>1, <3>2
  <2>3. todos' \in Seq(Todo)
    BY <1>1, <2>2, SeqDef
  <2>4. Len(todos') = Len(todos) /\ DOMAIN todos' = 1..Len(todos)
    BY <1>1, <2>2, <2>3, LenProperties
  <2>5. Kept(bus', queue', guids', TodosMessage, {}) /\ Numbered(bus', Len(todos), nextTodoId')
    BY <1>1, <1>4, <1>5, <1>7
  <2>6. \A k \in DOMAIN todos' : todos'[k].id = k - 1
    BY <1>1, <2>2, <2>4
  <2>7. Numbered(bus', Len(todos'), nextTodoId') /\ Len(todos') <= nextTodoId' /\ nextTodoId' \in Nat
    BY <1>1, <1>2, <2>4, <2>5
  <2>8. QED
    BY <2>3, <2>5, <2>6, <2>7 DEF TodosInv, TodosState
<1>8. QED
  BY <1>6, <1>7

LEMMA TodosNextKeeps ==
    ASSUME TodosInv, T!TodosNext
    PROVE  TodosInv'
<1>1. CASE T!SubmitTodo \/ T!ClickTodo \/ T!ClickFilter
  BY <1>1, TodosClicks
<1>2. CASE T!Reduce
  <2>1. bus # <<>> /\ Head(bus).type # "ABus.Thunk"
    BY <1>2 DEF T!Reduce, T!Received
  <2>2. T!reduceFilter \/ T!reduceTodos
    BY <1>2 DEF T!Reduce
  <2>3. QED
    BY <2>1, <2>2, TodosFiltered, TodosReduced
<1>3. QED
  BY <1>1, <1>2 DEF T!TodosNext

-----------------------------------------------------------------------------
(* Dispatching nothing, one message or one thunk *)

LEMMA NothingSent ==
    ASSUME NEW M, NEW F, Actions(M, F), NEW before, NEW left, Kept(before, left, guids, M, F),
           S!Dispatch(<<>>, before, left)
    PROVE  /\ Kept(bus', queue', guids', M, F)
           /\ DOMAIN bus' = DOMAIN before /\ \A k \in DOMAIN before : bus'[k] = before[k]
           /\ DOMAIN queue' = DOMAIN left /\ \A i \in DOMAIN left : queue'[i] = left[i]
<1> DEFINE none == <<>>
<1>1. none \in Seq(M \cup F) /\ S!Dispatch(none, before, left)
  OBVIOUS
<1>2. Len(none) = 0 /\ DOMAIN none = {}
  OBVIOUS
<1> HIDE DEF none
<1>3. /\ Kept(bus', queue', guids', M, F)
      /\ Len(before) \in Nat
      /\ DOMAIN before = 1..Len(before)
      /\ DOMAIN bus' = 1..(Len(before) + Len(none))
      /\ \A k \in DOMAIN before : bus'[k] = before[k]
      /\ \A i \in DOMAIN left : i \in DOMAIN queue' /\ queue'[i] = left[i]
      /\ \A i \in DOMAIN queue' \ DOMAIN left :
            \E k \in DOMAIN none : "run" \in DOMAIN none[k] /\ queue'[i] = none[k]
  BY <1>1, DispatchKeeps
<1>4. DOMAIN queue' = DOMAIN left
  BY <1>2, <1>3
<1>5. QED
  BY <1>2, <1>3, <1>4

LEMMA OneSent ==
    ASSUME NEW M, NEW F, Actions(M, F), NEW before, NEW left, Kept(before, left, guids, M, F),
           NEW a \in M \cup F, S!Dispatch(<<a>>, before, left)
    PROVE  /\ Kept(bus', queue', guids', M, F)
           /\ Len(before) \in Nat /\ DOMAIN before = 1..Len(before)
           /\ DOMAIN bus' = 1..(Len(before) + 1)
           /\ \A k \in DOMAIN before : bus'[k] = before[k]
           /\ a \in F => bus'[Len(before) + 1].type = "ABus.Thunk"
           /\ a \in M => bus'[Len(before) + 1] = a
           /\ \A i \in DOMAIN left : i \in DOMAIN queue' /\ queue'[i] = left[i]
           /\ \A i \in DOMAIN queue' \ DOMAIN left : a \in F /\ queue'[i] = a
<1> DEFINE one == <<a>>
<1>1. one \in Seq(M \cup F) /\ Len(one) = 1 /\ DOMAIN one = {1} /\ one[1] = a
  OBVIOUS
<1>2. S!Dispatch(one, before, left)
  OBVIOUS
<1> HIDE DEF one
<1>3. /\ Kept(bus', queue', guids', M, F)
      /\ Len(before) \in Nat
      /\ DOMAIN before = 1..Len(before)
      /\ DOMAIN bus' = 1..(Len(before) + Len(one))
      /\ \A k \in DOMAIN before : bus'[k] = before[k]
      /\ \A k \in DOMAIN one :
            IF "run" \in DOMAIN one[k] THEN bus'[Len(before) + k].type = "ABus.Thunk"
            ELSE bus'[Len(before) + k] = one[k]
      /\ \A i \in DOMAIN left : i \in DOMAIN queue' /\ queue'[i] = left[i]
      /\ \A i \in DOMAIN queue' \ DOMAIN left :
            \E k \in DOMAIN one : "run" \in DOMAIN one[k] /\ queue'[i] = one[k]
  BY <1>1, <1>2, DispatchKeeps
<1>4. a \in F <=> "run" \in DOMAIN a
  BY DEF Actions
<1>5. a \in M <=> "run" \notin DOMAIN a
  BY DEF Actions
<1>6. \A i \in DOMAIN queue' \ DOMAIN left : a \in F /\ queue'[i] = a
  BY <1>1, <1>3, <1>4
<1>7. IF "run" \in DOMAIN a THEN bus'[Len(before) + 1].type = "ABus.Thunk"
      ELSE bus'[Len(before) + 1] = a
  BY <1>1, <1>3
<1>8. QED
  BY <1>1, <1>3, <1>4, <1>5, <1>6, <1>7

-----------------------------------------------------------------------------
(* Shopping cart *)

LEMMA CartDispatch ==
    ASSUME NEW actions, NEW before, NEW left, C!Dispatch(actions, before, left)
    PROVE  S!Dispatch(actions, before, left)
  BY Zenon DEF C!Dispatch, S!Dispatch, C!NewIds, S!NewIds, C!IsThunk, S!IsThunk,
     C!Cardinality, S!Cardinality

LEMMA CartCounts == ASSUME NEW X PROVE C!Cardinality(X) = Cardinality(X)
  BY Zenon DEF C!Cardinality, Cardinality

(* Additions of a product as they are reduced and as thunks, checkouts as  *)
(* thunks and as the requests that are reduced.                            *)
Additions(p) == [type : {"ADD_TO_CART"}, productId : {p}, ahead : Nat]
Presses(p) == [run : {"addToCart"}, productId : {p}]
Checkouts == [run : {"checkout"}, products : [Product -> Nat], coming : [Product -> Nat],
              alone : BOOLEAN]
Requests == [type : {"CHECKOUT_REQUEST"}, products : [Product -> Nat],
             coming : [Product -> Nat], alone : BOOLEAN]

ShopMessage ==
    [type : {"RECEIVE_PRODUCTS"}] \cup
    [type : {"CHECKOUT_SUCCESS"}, cart : Seq(Product) \X [Product -> Nat]]

CartMessage ==
    [type : {"ADD_TO_CART"}, productId : Product, ahead : Nat] \cup Requests \cup ShopMessage

CartThunk ==
    [run : {"addToCart"}, productId : Product] \cup [run : {"getAllProducts"}] \cup Checkouts

LEMMA CartActions == Actions(CartMessage, CartThunk)
  BY DEF Actions, CartMessage, CartThunk, ShopMessage, Requests, Checkouts

CartTypes ==
    /\ inventory = <<>> \/ inventory \in [Product -> Int]
    /\ addedIds \in Seq(Product)
    /\ quantityById \in [Product -> Nat]
    /\ shop \in Seq(ShopMessage)
    /\ inventory = <<>> => addedIds = <<>> /\ quantityById = C!Nothing
    /\ \A p \in Product : p \in C!ToSet(addedIds) <=> quantityById[p] > 0

(* The products are loaded once: by one thunk, one timer of the shop or    *)
(* one message, and not again.                                             *)
Loading(Q) == {i \in DOMAIN Q : Q[i].run = "getAllProducts"}
Receiving(q) == {k \in DOMAIN q : q[k].type = "RECEIVE_PRODUCTS"}

LoadsOnce(B, Q, s) ==
    /\ \A i, j \in Loading(Q) : i = j
    /\ \A i, j \in Receiving(s) : i = j
    /\ \A i, j \in Receiving(B) : i = j
    /\ Loading(Q) = {} \/ Receiving(s) = {}
    /\ Loading(Q) = {} \/ Receiving(B) = {}
    /\ Receiving(s) = {} \/ Receiving(B) = {}

HasLoaded(B, Q, s) == Loading(Q) = {} /\ Receiving(s) = {} /\ Receiving(B) = {}

(* Without products nothing is put into the cart. *)
NothingAdded(B, Q) ==
    /\ \A k \in DOMAIN B : B[k].type # "ADD_TO_CART"
    /\ \A i \in DOMAIN Q : Q[i].run # "addToCart"

(* When it was published the product was in stock: since then only what    *)
(* was ahead of it has left.                                               *)
Adds(B, p) == {k \in DOMAIN B : B[k].type = "ADD_TO_CART" /\ B[k].productId = p}

AddsBehind(B, inv) ==
    \A k \in DOMAIN B :
        B[k].type = "ADD_TO_CART" =>
            inv[B[k].productId] + B[k].ahead > Upto(Adds(B, B[k].productId), k - 1)

(* What is on its way: messages B, functions Q, answers s of the shop.     *)
CartWay(B, Q, s, inv) ==
    /\ LoadsOnce(B, Q, s)
    /\ inv # <<>> => HasLoaded(B, Q, s)
    /\ inv = <<>> => NothingAdded(B, Q)
    /\ AddsBehind(B, inv)

(* What is on its way in its order: messages, and functions at the place   *)
(* of theirs.                                                              *)
OnWay(B, Q) == [k \in DOMAIN B |-> IF B[k].type = "ABus.Thunk" THEN Q[B[k].thunkId] ELSE B[k]]

At(D, X) == {k \in DOMAIN D : D[k] \in X}

(* In the cart, with what will be added before a checkout is reduced, is   *)
(* no more than the checkout buys and what was coming at its click: all    *)
(* additions on the bus are reduced before the request of a thunk on the   *)
(* bus.  One that was alone stays the next to empty the cart.  e counts    *)
(* additions between a thunk and their message.                            *)
CheckoutsOn(D, L, q, e) ==
    \A k \in 1..L :
        /\ D[k] \in Checkouts =>
             /\ \A p \in Product :
                  q[p] + e[p] + Upto(At(D, Presses(p)), k - 1) + Upto(At(D, Additions(p)), L)
                    <= D[k].products[p] + D[k].coming[p]
             /\ D[k].alone => /\ \A j \in 1..L : D[j] \notin Requests
                              /\ \A j \in 1..(k - 1) : D[j] \notin Checkouts
                              /\ \A p \in Product : q[p] >= D[k].products[p]
        /\ D[k] \in Requests =>
             /\ \A p \in Product :
                  q[p] + Upto(At(D, Additions(p)), k - 1) <= D[k].products[p] + D[k].coming[p]
             /\ D[k].alone => /\ \A j \in 1..(k - 1) : D[j] \notin Requests
                              /\ \A p \in Product : q[p] >= D[k].products[p]

CheckoutsWay == CheckoutsOn(OnWay(bus, queue), Len(bus), quantityById, C!Nothing)

CartInv ==
    /\ CartTypes
    /\ Kept(bus, queue, guids, CartMessage, CartThunk)
    /\ CartWay(bus, queue, shop, inventory)
    /\ CheckoutsWay

(* The first of a sequence of messages leaves it. *)
LEMMA ReceivingBehind ==
    ASSUME NEW X, NEW q \in Seq(X), q # <<>>, \A i, j \in Receiving(q) : i = j
    PROVE  /\ \A i, j \in Receiving(Tail(q)) : i = j
           /\ Receiving(q) = {} => Receiving(Tail(q)) = {}
           /\ Head(q).type = "RECEIVE_PRODUCTS" => Receiving(q) # {} /\ Receiving(Tail(q)) = {}
<1>1. /\ Len(q) \in Nat \ {0} /\ DOMAIN q = 1..Len(q) /\ Head(q) = q[1]
      /\ DOMAIN Tail(q) = 1..(Len(q) - 1)
      /\ \A i \in 1..(Len(q) - 1) : Tail(q)[i] = q[i + 1]
  BY Behind
<1>2. \A k \in Receiving(Tail(q)) : k \in Nat \ {0} /\ k + 1 \in Receiving(q)
  BY <1>1 DEF Receiving
<1>3. ASSUME NEW i \in Receiving(Tail(q)), NEW j \in Receiving(Tail(q))
      PROVE  i = j
  <2>1. i + 1 = j + 1 /\ i \in Nat /\ j \in Nat
    BY <1>2
  <2>2. QED
    BY <2>1
<1>4. ASSUME Head(q).type = "RECEIVE_PRODUCTS", NEW k \in Receiving(Tail(q))
      PROVE  FALSE
  <2>1. 1 \in Receiving(q)
    BY <1>1, <1>4 DEF Receiving
  <2>2. k + 1 = 1
    BY <1>2, <2>1
  <2>3. QED
    BY <1>2, <2>2
<1>5. Head(q).type = "RECEIVE_PRODUCTS" => 1 \in Receiving(q)
  BY <1>1 DEF Receiving
<1>6. Receiving(q) = {} => Receiving(Tail(q)) = {}
  BY <1>2
<1>7. QED
  BY <1>3, <1>4, <1>5, <1>6

(* A message of another kind is added, or none. *)
LEMMA ReceivingOn ==
    ASSUME NEW B, NEW R, NEW L \in Nat, DOMAIN B = 1..L, DOMAIN R = 1..L \/ DOMAIN R = 1..(L + 1),
           \A k \in 1..L : R[k] = B[k]
    PROVE  /\ L + 1 \in DOMAIN R /\ R[L + 1].type = "RECEIVE_PRODUCTS" =>
                  Receiving(R) = Receiving(B) \cup {L + 1}
           /\ ~(L + 1 \in DOMAIN R /\ R[L + 1].type = "RECEIVE_PRODUCTS") =>
                  Receiving(R) = Receiving(B)
<1>1. \A k \in 1..(L + 1) : k \in 1..L \/ k = L + 1
  OBVIOUS
<1>2. \A k \in 1..L : k \in Receiving(R) <=> k \in Receiving(B)
  BY DEF Receiving
<1>3. Receiving(B) \subseteq 1..L /\ Receiving(R) \subseteq 1..(L + 1)
  BY DEF Receiving
<1>4. L + 1 \in Receiving(R) <=> L + 1 \in DOMAIN R /\ R[L + 1].type = "RECEIVE_PRODUCTS"
  BY DEF Receiving
<1>5. L + 1 \notin 1..L
  OBVIOUS
<1>6. QED
  BY <1>1, <1>2, <1>3, <1>4, <1>5

LEMMA AddsOn ==
    ASSUME NEW B, NEW R, NEW L \in Nat, DOMAIN B = 1..L, DOMAIN R = 1..L \/ DOMAIN R = 1..(L + 1),
           \A k \in 1..L : R[k] = B[k], NEW p, NEW n \in 0..L
    PROVE  Upto(Adds(R, p), n) = Upto(Adds(B, p), n)
<1>1. \A j \in 1..n : j \in DOMAIN B /\ j \in DOMAIN R /\ R[j] = B[j]
  OBVIOUS
<1>2. {j \in 1..n : j \in Adds(R, p)} = {j \in 1..n : j \in Adds(B, p)}
  BY <1>1 DEF Adds
<1>3. QED
  BY <1>2 DEF Upto

LEMMA AddsTail ==
    ASSUME NEW X, NEW q \in Seq(X), q # <<>>, NEW p, NEW n \in 0..(Len(q) - 1)
    PROVE  Upto(Adds(Tail(q), p), n) = Upto(Adds(q, p), n + 1) -
               (IF Head(q).type = "ADD_TO_CART" /\ Head(q).productId = p THEN 1 ELSE 0)
<1>1. /\ Len(q) \in Nat \ {0} /\ DOMAIN q = 1..Len(q) /\ Head(q) = q[1]
      /\ DOMAIN Tail(q) = 1..(Len(q) - 1)
      /\ \A i \in 1..(Len(q) - 1) : Tail(q)[i] = q[i + 1]
  BY Behind
<1> DEFINE K == Adds(q, p)
           R == Adds(Tail(q), p)
<1>2. \A j \in 1..n : j \in R <=> j + 1 \in K
  <2> SUFFICES ASSUME NEW j \in 1..n PROVE j \in R <=> j + 1 \in K
    OBVIOUS
  <2>1. j \in DOMAIN Tail(q) /\ j + 1 \in DOMAIN q /\ Tail(q)[j] = q[j + 1]
    BY <1>1
  <2>2. QED
    BY <2>1 DEF Adds
<1>3. 1 \in K <=> Head(q).type = "ADD_TO_CART" /\ Head(q).productId = p
  BY <1>1 DEF Adds
<1>4. n \in Nat
  BY <1>1
<1> HIDE DEF K, R
<1>5. Upto(R, n) = Upto(K, n + 1) - (IF 1 \in K THEN 1 ELSE 0)
  BY <1>2, <1>4, UptoShifts
<1>6. QED
  BY <1>3, <1>5 DEF K, R

(* The bus after nothing was dispatched. *)
LEMMA CartNothing ==
    ASSUME NEW before, NEW left, Kept(before, left, guids, CartMessage, CartThunk),
           CartWay(before, left, shop', inventory'), C!Dispatch(<<>>, before, left)
    PROVE  /\ Kept(bus', queue', guids', CartMessage, CartThunk)
           /\ CartWay(bus', queue', shop', inventory')
<1>1. S!Dispatch(<<>>, before, left)
  BY CartDispatch
<1>2. /\ Kept(bus', queue', guids', CartMessage, CartThunk)
      /\ DOMAIN bus' = DOMAIN before /\ \A k \in DOMAIN before : bus'[k] = before[k]
      /\ DOMAIN queue' = DOMAIN left /\ \A i \in DOMAIN left : queue'[i] = left[i]
  BY <1>1, CartActions, NothingSent
<1>3. Receiving(bus') = Receiving(before) /\ Loading(queue') = Loading(left)
  BY <1>2 DEF Receiving, Loading
<1>4. \A p : Adds(bus', p) = Adds(before, p)
  BY <1>2 DEF Adds
<1>5. AddsBehind(bus', inventory')
  BY <1>2, <1>4 DEF CartWay, AddsBehind
<1>6. LoadsOnce(bus', queue', shop') /\ (inventory' # <<>> => HasLoaded(bus', queue', shop'))
  BY <1>3 DEF CartWay, LoadsOnce, HasLoaded
<1>7. inventory' = <<>> => NothingAdded(bus', queue')
  BY <1>2 DEF CartWay, NothingAdded
<1>8. QED
  BY <1>2, <1>5, <1>6, <1>7 DEF CartWay

(* The bus after one message or one thunk was dispatched. *)
LEMMA CartOne ==
    ASSUME NEW before, NEW left, Kept(before, left, guids, CartMessage, CartThunk),
           CartWay(before, left, shop', inventory'),
           NEW a \in CartMessage \cup CartThunk, C!Dispatch(<<a>>, before, left),
           a \in CartThunk =>
               a.run # "getAllProducts" /\ (a.run = "addToCart" => inventory' # <<>>),
           a \in CartMessage /\ a.type = "RECEIVE_PRODUCTS" =>
               HasLoaded(before, left, shop') /\ inventory' = <<>>,
           a \in CartMessage /\ a.type = "ADD_TO_CART" =>
               /\ inventory' # <<>>
               /\ inventory'[a.productId] + a.ahead > Upto(Adds(before, a.productId), Len(before))
    PROVE  /\ Kept(bus', queue', guids', CartMessage, CartThunk)
           /\ CartWay(bus', queue', shop', inventory')
<1> DEFINE L == Len(before)
<1>1. S!Dispatch(<<a>>, before, left)
  BY CartDispatch
<1>2. /\ Kept(bus', queue', guids', CartMessage, CartThunk)
      /\ L \in Nat /\ DOMAIN before = 1..L /\ DOMAIN bus' = 1..(L + 1)
      /\ \A k \in 1..L : bus'[k] = before[k]
      /\ a \in CartThunk => bus'[L + 1].type = "ABus.Thunk"
      /\ a \in CartMessage => bus'[L + 1] = a
      /\ \A i \in DOMAIN left : i \in DOMAIN queue' /\ queue'[i] = left[i]
      /\ \A i \in DOMAIN queue' \ DOMAIN left : a \in CartThunk /\ queue'[i] = a
  BY <1>1, CartActions, OneSent
<1> HIDE DEF L
<1>3. Loading(queue') = Loading(left)
  BY <1>2 DEF Loading
<1>4. L + 1 \in DOMAIN bus' /\ \A k \in DOMAIN bus' : k \in 1..L \/ k = L + 1
  BY <1>2
<1>5. /\ a \in CartMessage /\ a.type = "RECEIVE_PRODUCTS" =>
             Receiving(bus') = Receiving(before) \cup {L + 1}
      /\ ~(a \in CartMessage /\ a.type = "RECEIVE_PRODUCTS") => Receiving(bus') = Receiving(before)
  BY <1>2, <1>4, ReceivingOn
<1>6. LoadsOnce(bus', queue', shop') /\ (inventory' # <<>> => HasLoaded(bus', queue', shop'))
  <2>1. CASE a \in CartMessage /\ a.type = "RECEIVE_PRODUCTS"
    <3>1. /\ Receiving(bus') = {L + 1} /\ Loading(queue') = {} /\ Receiving(shop') = {}
          /\ inventory' = <<>>
      BY <1>3, <1>5, <2>1 DEF HasLoaded
    <3>2. QED
      BY <3>1 DEF LoadsOnce
  <2>2. CASE ~(a \in CartMessage /\ a.type = "RECEIVE_PRODUCTS")
    BY <1>3, <1>5, <2>2 DEF CartWay, LoadsOnce, HasLoaded
  <2>3. QED
    BY <2>1, <2>2
<1>7. inventory' = <<>> => NothingAdded(bus', queue')
  <2> SUFFICES ASSUME inventory' = <<>> PROVE NothingAdded(bus', queue')
    OBVIOUS
  <2>1. NothingAdded(before, left)
    BY DEF CartWay
  <2>2. bus'[L + 1].type # "ADD_TO_CART"
    BY <1>2
  <2>3. \A i \in DOMAIN queue' \ DOMAIN left : queue'[i].run # "addToCart"
    BY <1>2
  <2>4. \A k \in DOMAIN bus' : bus'[k].type # "ADD_TO_CART"
    BY <1>2, <1>4, <2>1, <2>2 DEF NothingAdded
  <2>5. \A i \in DOMAIN queue' : queue'[i].run # "addToCart"
    BY <1>2, <2>1, <2>3 DEF NothingAdded
  <2>6. QED
    BY <2>4, <2>5 DEF NothingAdded
<1>8. ASSUME NEW k \in DOMAIN bus', bus'[k].type = "ADD_TO_CART"
      PROVE  inventory'[bus'[k].productId] + bus'[k].ahead > Upto(Adds(bus', bus'[k].productId), k - 1)
  <2> DEFINE p == bus'[k].productId
  <2>1. k - 1 \in 0..L
    BY <1>2
  <2> HIDE DEF p
  <2>2. Upto(Adds(bus', p), k - 1) = Upto(Adds(before, p), k - 1)
    BY <1>2, <2>1, AddsOn
  <2>3. CASE k \in 1..L
    <3>1. bus'[k] = before[k] /\ k \in DOMAIN before
      BY <1>2, <2>3
    <3>2. inventory'[before[k].productId] + before[k].ahead > Upto(Adds(before, before[k].productId), k - 1)
      BY <1>8, <3>1 DEF CartWay, AddsBehind
    <3>3. QED
      BY <2>2, <3>1, <3>2 DEF p
  <2>4. CASE k = L + 1
    <3>1. a \in CartMessage /\ bus'[k] = a /\ a.type = "ADD_TO_CART"
      BY <1>2, <1>8, <2>4
    <3>2. inventory'[a.productId] + a.ahead > Upto(Adds(before, a.productId), L)
      BY <3>1 DEF L
    <3>3. k - 1 = L
      BY <1>2, <2>4
    <3>4. QED
      BY <2>2, <3>1, <3>2, <3>3 DEF p
  <2>5. QED
    BY <1>4, <2>3, <2>4
<1>9. QED
  BY <1>2, <1>6, <1>7, <1>8 DEF CartWay, AddsBehind

(* The first message leaves the bus, and its function the queue. *)
LEMMA CartBehind ==
    ASSUME NEW X, NEW B \in Seq(X), B # <<>>, NEW Q, NEW s, NEW inv, CartWay(B, Q, s, inv),
           NEW R, DOMAIN R \subseteq DOMAIN Q, \A i \in DOMAIN R : R[i] = Q[i],
           Head(B).type # "ADD_TO_CART"
    PROVE  /\ CartWay(Tail(B), R, s, inv)
           /\ Head(B).type = "RECEIVE_PRODUCTS" => inv = <<>> /\ HasLoaded(Tail(B), R, s)
<1>1. /\ Len(B) \in Nat \ {0} /\ DOMAIN B = 1..Len(B) /\ Head(B) = B[1]
      /\ DOMAIN Tail(B) = 1..(Len(B) - 1)
      /\ \A i \in 1..(Len(B) - 1) : Tail(B)[i] = B[i + 1]
  BY Behind
<1>2. /\ \A i, j \in Receiving(Tail(B)) : i = j
      /\ Receiving(B) = {} => Receiving(Tail(B)) = {}
      /\ Head(B).type = "RECEIVE_PRODUCTS" => Receiving(B) # {} /\ Receiving(Tail(B)) = {}
  BY ReceivingBehind DEF CartWay, LoadsOnce
<1>3. Loading(R) \subseteq Loading(Q)
  BY DEF Loading
<1>4. LoadsOnce(Tail(B), R, s) /\ (inv # <<>> => HasLoaded(Tail(B), R, s))
  BY <1>2, <1>3 DEF CartWay, LoadsOnce, HasLoaded
<1>5. Head(B).type = "RECEIVE_PRODUCTS" => inv = <<>> /\ HasLoaded(Tail(B), R, s)
  BY <1>2, <1>3 DEF CartWay, LoadsOnce, HasLoaded
<1>6. inv = <<>> => NothingAdded(Tail(B), R)
  <2> SUFFICES ASSUME inv = <<>> PROVE NothingAdded(Tail(B), R)
    OBVIOUS
  <2>1. NothingAdded(B, Q)
    BY DEF CartWay
  <2>2. \A k \in DOMAIN Tail(B) : k + 1 \in DOMAIN B /\ Tail(B)[k] = B[k + 1]
    BY <1>1
  <2>3. \A k \in DOMAIN Tail(B) : Tail(B)[k].type # "ADD_TO_CART"
    BY <2>1, <2>2 DEF NothingAdded
  <2>4. QED
    BY <2>1, <2>3 DEF NothingAdded
<1>7. ASSUME NEW k \in DOMAIN Tail(B), Tail(B)[k].type = "ADD_TO_CART"
      PROVE  inv[Tail(B)[k].productId] + Tail(B)[k].ahead
                > Upto(Adds(Tail(B), Tail(B)[k].productId), k - 1)
  <2> DEFINE p == Tail(B)[k].productId
  <2>1. k + 1 \in DOMAIN B /\ Tail(B)[k] = B[k + 1] /\ k - 1 \in 0..(Len(B) - 1) /\ (k - 1) + 1 = k
        /\ (k + 1) - 1 = k
    BY <1>1
  <2>2. inv[B[k + 1].productId] + B[k + 1].ahead > Upto(Adds(B, B[k + 1].productId), (k + 1) - 1)
    BY <1>7, <2>1 DEF CartWay, AddsBehind
  <2> HIDE DEF p
  <2>3. Upto(Adds(Tail(B), p), k - 1) = Upto(Adds(B, p), (k - 1) + 1) - 0
    BY <2>1, AddsTail
  <2>4. k \in Nat /\ Upto(Adds(B, p), k) \in Nat
    BY <1>1, UptoGrows
  <2>5. QED
    BY <2>1, <2>2, <2>3, <2>4 DEF p
<1>8. QED
  BY <1>4, <1>5, <1>6, <1>7 DEF CartWay, AddsBehind

-----------------------------------------------------------------------------
(* Checkouts on their way *)

LEMMA AtOn ==
    ASSUME NEW D, NEW R, NEW L \in Nat, DOMAIN D = 1..L, DOMAIN R = 1..L \/ DOMAIN R = 1..(L + 1),
           \A k \in 1..L : R[k] = D[k], NEW X, NEW n \in 0..L
    PROVE  Upto(At(R, X), n) = Upto(At(D, X), n)
<1>1. \A j \in 1..n : j \in DOMAIN D /\ j \in DOMAIN R /\ R[j] = D[j]
  OBVIOUS
<1>2. {j \in 1..n : j \in At(R, X)} = {j \in 1..n : j \in At(D, X)}
  BY <1>1 DEF At
<1>3. QED
  BY <1>2 DEF Upto

(* R is D without its first, of L.                                         *)
Rest(R, D, L) ==
    /\ L \in Nat \ {0} /\ DOMAIN D = 1..L /\ DOMAIN R = 1..(L - 1)
    /\ \A k \in 1..(L - 1) : R[k] = D[k + 1]

LEMMA AtBehind ==
    ASSUME NEW D, NEW R, NEW L, Rest(R, D, L), NEW X, NEW n \in 0..(L - 1)
    PROVE  Upto(At(R, X), n) = Upto(At(D, X), n + 1) - (IF D[1] \in X THEN 1 ELSE 0)
<1> USE DEF Rest
<1>1. \A j \in 1..n : j \in At(R, X) <=> j + 1 \in At(D, X)
  <2> SUFFICES ASSUME NEW j \in 1..n PROVE j \in At(R, X) <=> j + 1 \in At(D, X)
    OBVIOUS
  <2>1. j \in DOMAIN R /\ j + 1 \in DOMAIN D /\ R[j] = D[j + 1]
    OBVIOUS
  <2>2. QED
    BY <2>1 DEF At
<1>2. 1 \in At(D, X) <=> D[1] \in X
  BY DEF At
<1>3. n \in Nat
  OBVIOUS
<1>4. Upto(At(R, X), n) = Upto(At(D, X), n + 1) - (IF 1 \in At(D, X) THEN 1 ELSE 0)
  BY <1>1, <1>3, UptoShifts
<1>5. QED
  BY <1>2, <1>4

(* What may be put behind the others: an addition that was counted, a      *)
(* checkout or a request that knows what is on its way.                    *)
Fits(a, D, L, q, e) ==
    /\ \A p \in Product : a \in Additions(p) => e[p] >= 1
    /\ a \in Checkouts =>
         /\ \A p \in Product :
              q[p] + Upto(At(D, Presses(p)), L) + Upto(At(D, Additions(p)), L)
                <= a.products[p] + a.coming[p]
         /\ a.alone => /\ \A j \in 1..L : D[j] \notin Requests /\ D[j] \notin Checkouts
                       /\ \A p \in Product : q[p] >= a.products[p]
    /\ a \in Requests =>
         /\ \A p \in Product : q[p] + Upto(At(D, Additions(p)), L) <= a.products[p] + a.coming[p]
         /\ a.alone => /\ \A j \in 1..L : D[j] \notin Requests
                       /\ \A p \in Product : q[p] >= a.products[p]
         /\ \A k \in 1..L : D[k] \in Checkouts => ~D[k].alone

LEMMA CheckoutsOneMore ==
    ASSUME NEW L \in Nat, NEW D, NEW R, DOMAIN D = 1..L, DOMAIN R = 1..(L + 1),
           \A k \in 1..L : R[k] = D[k],
           NEW q \in [Product -> Nat], NEW e \in [Product -> Nat],
           CheckoutsOn(D, L, q, e), Fits(R[L + 1], D, L, q, e)
    PROVE  CheckoutsOn(R, L + 1, q, C!Nothing)
<1> DEFINE a == R[L + 1]
           pressed(p) == Upto(At(D, Presses(p)), L)
           added(p) == Upto(At(D, Additions(p)), L)
<1>1. \A k \in 1..(L + 1) : k \in 1..L \/ k = L + 1
  OBVIOUS
<1>2. \A p \in Product : C!Nothing[p] = 0
  BY DEF C!Nothing
<1>3. \A X : \A n \in 0..L : Upto(At(R, X), n) = Upto(At(D, X), n)
  BY AtOn
<1>4. \A X : Upto(At(R, X), L + 1) = Upto(At(D, X), L) + (IF a \in X THEN 1 ELSE 0)
  <2> TAKE X
  <2>1. Upto(At(R, X), L + 1) = Upto(At(R, X), L) + (IF L + 1 \in At(R, X) THEN 1 ELSE 0)
    BY UptoGrows
  <2>2. L + 1 \in At(R, X) <=> a \in X
    BY DEF At
  <2>3. L \in 0..L
    OBVIOUS
  <2>4. QED
    BY <1>3, <2>1, <2>2, <2>3
<1>5. \A X : \A n \in Nat : Upto(X, n) \in Nat
  BY UptoGrows
<1> HIDE DEF a
<1>6. ASSUME NEW k \in 1..L, D[k] \in Checkouts
      PROVE  /\ \A p \in Product :
                  q[p] + C!Nothing[p] + Upto(At(R, Presses(p)), k - 1) + Upto(At(R, Additions(p)), L + 1)
                    <= D[k].products[p] + D[k].coming[p]
             /\ D[k].alone => /\ \A j \in 1..(L + 1) : R[j] \notin Requests
                              /\ \A j \in 1..(k - 1) : R[j] \notin Checkouts
                              /\ \A p \in Product : q[p] >= D[k].products[p]
  <2>1. ASSUME NEW p \in Product
        PROVE  q[p] + C!Nothing[p] + Upto(At(R, Presses(p)), k - 1) + Upto(At(R, Additions(p)), L + 1)
                 <= D[k].products[p] + D[k].coming[p]
    <3>1. q[p] + e[p] + Upto(At(D, Presses(p)), k - 1) + added(p) <= D[k].products[p] + D[k].coming[p]
      BY <1>6 DEF CheckoutsOn
    <3>2. k - 1 \in 0..L /\ k - 1 \in Nat
      OBVIOUS
    <3>3. Upto(At(R, Presses(p)), k - 1) = Upto(At(D, Presses(p)), k - 1)
      BY <1>3, <3>2
    <3>4. Upto(At(R, Additions(p)), L + 1) = added(p) + (IF a \in Additions(p) THEN 1 ELSE 0)
      BY <1>4
    <3>5. a \in Additions(p) => e[p] >= 1
      BY DEF Fits, a
    <3>6. /\ q[p] \in Nat /\ e[p] \in Nat /\ added(p) \in Nat
          /\ Upto(At(D, Presses(p)), k - 1) \in Nat
      BY <1>5, <3>2
    <3>7. D[k].products[p] \in Nat /\ D[k].coming[p] \in Nat
      BY <1>6 DEF Checkouts
    <3> DEFINE once == IF a \in Additions(p) THEN 1 ELSE 0
           x == added(p)
           y == Upto(At(D, Presses(p)), k - 1)
           b == D[k].products[p] + D[k].coming[p]
    <3>8. once \in Nat /\ once <= e[p]
      BY <3>5, <3>6
    <3>9. b \in Nat /\ x \in Nat /\ y \in Nat /\ q[p] + e[p] + y + x <= b
      <4>1. b \in Nat
        BY <3>7
      <4>2. x \in Nat /\ y \in Nat
        BY <3>6
      <4>3. q[p] + e[p] + y + x <= b
        BY <3>1, Zenon
      <4>4. QED
        BY <4>1, <4>2, <4>3
    <3> HIDE DEF once, x, y, b
    <3>10. q[p] + 0 + y + (x + once) <= b
      BY <3>6, <3>8, <3>9
    <3>11. C!Nothing[p] = 0 /\ Upto(At(R, Additions(p)), L + 1) = x + once
      BY <1>2, <3>4 DEF x, once
    <3>12. QED
      BY <3>3, <3>10, <3>11 DEF y, b
  <2>2. ASSUME D[k].alone
        PROVE  /\ \A j \in 1..(L + 1) : R[j] \notin Requests
               /\ \A j \in 1..(k - 1) : R[j] \notin Checkouts
               /\ \A p \in Product : q[p] >= D[k].products[p]
    <3>1. /\ \A j \in 1..L : D[j] \notin Requests
          /\ \A j \in 1..(k - 1) : D[j] \notin Checkouts
          /\ \A p \in Product : q[p] >= D[k].products[p]
      BY <1>6, <2>2 DEF CheckoutsOn
    <3>2. a \notin Requests
      BY <1>6, <2>2 DEF Fits, a
    <3>3. \A j \in 1..(k - 1) : j \in 1..L
      OBVIOUS
    <3>4. QED
      BY <1>1, <3>1, <3>2, <3>3 DEF a
  <2>3. QED
    BY <2>1, <2>2
<1>7. ASSUME NEW k \in 1..L, D[k] \in Requests
      PROVE  /\ \A p \in Product :
                  q[p] + Upto(At(R, Additions(p)), k - 1) <= D[k].products[p] + D[k].coming[p]
             /\ D[k].alone => /\ \A j \in 1..(k - 1) : R[j] \notin Requests
                              /\ \A p \in Product : q[p] >= D[k].products[p]
  <2>1. k - 1 \in 0..L /\ \A j \in 1..(k - 1) : j \in 1..L
    OBVIOUS
  <2>2. \A p \in Product : Upto(At(R, Additions(p)), k - 1) = Upto(At(D, Additions(p)), k - 1)
    BY <1>3, <2>1
  <2>3. \A p \in Product :
           q[p] + Upto(At(D, Additions(p)), k - 1) <= D[k].products[p] + D[k].coming[p]
    BY <1>7 DEF CheckoutsOn
  <2>4. D[k].alone => /\ \A j \in 1..(k - 1) : D[j] \notin Requests
                      /\ \A p \in Product : q[p] >= D[k].products[p]
    BY <1>7 DEF CheckoutsOn
  <2>5. QED
    BY <2>1, <2>2, <2>3, <2>4
<1>8. ASSUME a \in Checkouts
      PROVE  /\ \A p \in Product :
                  q[p] + C!Nothing[p] + Upto(At(R, Presses(p)), L) + Upto(At(R, Additions(p)), L + 1)
                    <= a.products[p] + a.coming[p]
             /\ a.alone => /\ \A j \in 1..(L + 1) : R[j] \notin Requests
                           /\ \A j \in 1..L : R[j] \notin Checkouts
                           /\ \A p \in Product : q[p] >= a.products[p]
  <2>1. ASSUME NEW p \in Product
        PROVE  q[p] + C!Nothing[p] + Upto(At(R, Presses(p)), L) + Upto(At(R, Additions(p)), L + 1)
                 <= a.products[p] + a.coming[p]
    <3>1. q[p] + pressed(p) + added(p) <= a.products[p] + a.coming[p]
      BY <1>8 DEF Fits, a
    <3>2. Upto(At(R, Presses(p)), L) = pressed(p)
      <4>1. L \in 0..L
        OBVIOUS
      <4>2. QED
        BY <1>3, <4>1
    <3>3. a \notin Additions(p)
      BY <1>8 DEF Checkouts, Additions
    <3>4. Upto(At(R, Additions(p)), L + 1) = added(p)
      <4>1. Upto(At(R, Additions(p)), L + 1) = added(p) + 0
        BY <1>4, <3>3
      <4>2. added(p) \in Nat
        BY <1>5
      <4> HIDE DEF added
      <4>3. QED
        BY <4>1, <4>2
    <3>5. q[p] \in Nat
      OBVIOUS
    <3> HIDE DEF added, pressed
    <3>6. QED
      BY <1>2, <3>1, <3>2, <3>4, <3>5
  <2>2. a \notin Requests
    BY <1>8 DEF Checkouts, Requests
  <2>3. a.alone => /\ \A j \in 1..L : D[j] \notin Requests /\ D[j] \notin Checkouts
                   /\ \A p \in Product : q[p] >= a.products[p]
    BY <1>8 DEF Fits, a
  <2>4. R[L + 1] = a
    BY DEF a
  <2>5. QED
    BY <1>1, <2>1, <2>2, <2>3, <2>4
<1>9. ASSUME a \in Requests
      PROVE  /\ \A p \in Product :
                  q[p] + Upto(At(R, Additions(p)), L) <= a.products[p] + a.coming[p]
             /\ a.alone => /\ \A j \in 1..L : R[j] \notin Requests
                           /\ \A p \in Product : q[p] >= a.products[p]
  <2>1. L \in 0..L
    OBVIOUS
  <2>2. \A p \in Product : Upto(At(R, Additions(p)), L) = added(p)
    BY <1>3, <2>1
  <2>3. /\ \A p \in Product : q[p] + added(p) <= a.products[p] + a.coming[p]
        /\ a.alone => /\ \A j \in 1..L : D[j] \notin Requests
                      /\ \A p \in Product : q[p] >= a.products[p]
    BY <1>9 DEF Fits, a
  <2> HIDE DEF added
  <2>4. QED
    BY <2>2, <2>3
<1>10. \A k \in 1..L : R[k] = D[k]
  OBVIOUS
<1>11. R[L + 1] = a /\ (L + 1) - 1 = L
  BY DEF a
<1>12. QED
  BY <1>1, <1>6, <1>7, <1>8, <1>9, <1>10, <1>11 DEF CheckoutsOn

(* The first is reduced, or its function runs. *)
LEMMA CheckoutsFirst ==
    ASSUME NEW L \in Nat \ {0}, NEW D, NEW R, Rest(R, D, L),
           NEW q \in [Product -> Nat], NEW q2 \in [Product -> Nat], NEW e \in [Product -> Nat],
           CheckoutsOn(D, L, q, C!Nothing),
           \/ D[1] \in Requests /\ q2 = C!Nothing
           \/ \A p \in Product : q2[p] = q[p] + (IF D[1] \in Additions(p) THEN 1 ELSE 0),
           \A p \in Product : e[p] <= IF D[1] \in Presses(p) THEN 1 ELSE 0
    PROVE  CheckoutsOn(R, L - 1, q2, e)
<1> DEFINE d == D[1]
           add(p) == IF d \in Additions(p) THEN 1 ELSE 0
           press(p) == IF d \in Presses(p) THEN 1 ELSE 0
<1>1. \A k \in 1..(L - 1) : k + 1 \in 1..L /\ k - 1 \in 0..(L - 1) /\ (k - 1) + 1 = k
                            /\ (k + 1) - 1 = k /\ k \in Nat
  OBVIOUS
<1>2. \A X : \A n \in 0..(L - 1) : Upto(At(R, X), n) = Upto(At(D, X), n + 1) - (IF d \in X THEN 1 ELSE 0)
  BY AtBehind
<1>3. \A X : \A n \in Nat : Upto(X, n) \in Nat
  BY UptoGrows
<1>4. \A p \in Product : q2[p] <= q[p] + add(p) /\ q2[p] \in Nat /\ q[p] \in Nat /\ e[p] \in Nat
                         /\ C!Nothing[p] = 0
  BY DEF C!Nothing
<1>5. d \notin Requests => \A p \in Product : q2[p] >= q[p]
  OBVIOUS
<1>6. \A p \in Product : e[p] <= press(p)
  OBVIOUS
<1> HIDE DEF d
<1>7. ASSUME NEW k \in 1..(L - 1), R[k] \in Checkouts
      PROVE  /\ \A p \in Product :
                  q2[p] + e[p] + Upto(At(R, Presses(p)), k - 1) + Upto(At(R, Additions(p)), L - 1)
                    <= R[k].products[p] + R[k].coming[p]
             /\ R[k].alone => /\ \A j \in 1..(L - 1) : R[j] \notin Requests
                              /\ \A j \in 1..(k - 1) : R[j] \notin Checkouts
                              /\ \A p \in Product : q2[p] >= R[k].products[p]
  <2> DEFINE c == R[k]
  <2>1. c = D[k + 1]
    BY DEF Rest
  <2>2. ASSUME NEW p \in Product
        PROVE  q2[p] + e[p] + Upto(At(R, Presses(p)), k - 1) + Upto(At(R, Additions(p)), L - 1)
                 <= c.products[p] + c.coming[p]
    <3>1. D[k + 1] \in Checkouts /\ k + 1 \in 1..L /\ (k + 1) - 1 = k
      BY <1>1, <1>7, <2>1
    <3>2. q[p] + C!Nothing[p] + Upto(At(D, Presses(p)), (k + 1) - 1) + Upto(At(D, Additions(p)), L)
            <= D[k + 1].products[p] + D[k + 1].coming[p]
      BY <3>1 DEF CheckoutsOn
    <3>3. Upto(At(R, Presses(p)), k - 1) = Upto(At(D, Presses(p)), k) - press(p)
      BY <1>1, <1>2
    <3>4. Upto(At(R, Additions(p)), L - 1) = Upto(At(D, Additions(p)), L) - add(p)
      <4>1. L - 1 \in 0..(L - 1) /\ (L - 1) + 1 = L
        OBVIOUS
      <4>2. QED
        BY <1>2, <4>1
    <3>5. Upto(At(D, Presses(p)), k) \in Nat /\ Upto(At(D, Additions(p)), L) \in Nat
      BY <1>1, <1>3
    <3>6. c.products[p] \in Nat /\ c.coming[p] \in Nat
      BY <1>7 DEF Checkouts
    <3>7. add(p) \in Nat /\ press(p) \in Nat
      OBVIOUS
    <3>8. q[p] + C!Nothing[p] + Upto(At(D, Presses(p)), k) + Upto(At(D, Additions(p)), L)
            <= c.products[p] + c.coming[p]
      BY <2>1, <3>1, <3>2
    <3>9. /\ q2[p] <= q[p] + add(p) /\ q2[p] \in Nat /\ q[p] \in Nat /\ e[p] \in Nat
          /\ e[p] <= press(p) /\ C!Nothing[p] = 0
      BY <1>4, <1>6
    <3>10. q[p] + 0 + Upto(At(D, Presses(p)), k) + Upto(At(D, Additions(p)), L)
             <= c.products[p] + c.coming[p]
      BY <3>8, <3>9
    <3> HIDE DEF add, press, c
    <3>11. QED
      BY <3>3, <3>4, <3>5, <3>6, <3>7, <3>9, <3>10
  <2>3. ASSUME c.alone
        PROVE  /\ \A j \in 1..(L - 1) : R[j] \notin Requests
               /\ \A j \in 1..(k - 1) : R[j] \notin Checkouts
               /\ \A p \in Product : q2[p] >= c.products[p]
    <3>1. D[k + 1] \in Checkouts /\ D[k + 1].alone /\ k + 1 \in 1..L /\ (k + 1) - 1 = k
      BY <1>1, <1>7, <2>1, <2>3
    <3>2. /\ \A j \in 1..L : D[j] \notin Requests
          /\ \A j \in 1..((k + 1) - 1) : D[j] \notin Checkouts
          /\ \A p \in Product : q[p] >= D[k + 1].products[p]
      BY <3>1 DEF CheckoutsOn
    <3>3. d \notin Requests
      BY <3>2 DEF d
    <3>4. \A j \in 1..(k - 1) : j + 1 \in 1..k /\ j \in 1..(L - 1)
      OBVIOUS
    <3>5. \A p \in Product : c.products[p] \in Nat
      BY <1>7 DEF Checkouts
    <3>6. \A p \in Product : q[p] >= c.products[p] /\ q2[p] >= q[p]
      BY <1>5, <2>1, <3>2, <3>3
    <3> HIDE DEF c
    <3>7. \A p \in Product : q2[p] >= c.products[p]
      BY <1>4, <3>5, <3>6
    <3>8. QED
      BY <1>1, <3>1, <3>2, <3>4, <3>7 DEF Rest
  <2>4. QED
    BY <2>2, <2>3
<1>8. ASSUME NEW k \in 1..(L - 1), R[k] \in Requests
      PROVE  /\ \A p \in Product :
                  q2[p] + Upto(At(R, Additions(p)), k - 1) <= R[k].products[p] + R[k].coming[p]
             /\ R[k].alone => /\ \A j \in 1..(k - 1) : R[j] \notin Requests
                              /\ \A p \in Product : q2[p] >= R[k].products[p]
  <2> DEFINE c == R[k]
  <2>1. c = D[k + 1] /\ D[k + 1] \in Requests /\ k + 1 \in 1..L /\ (k + 1) - 1 = k
    BY <1>1, <1>8 DEF Rest
  <2>2. ASSUME NEW p \in Product
        PROVE  q2[p] + Upto(At(R, Additions(p)), k - 1) <= c.products[p] + c.coming[p]
    <3>1. q[p] + Upto(At(D, Additions(p)), (k + 1) - 1) <= D[k + 1].products[p] + D[k + 1].coming[p]
      BY <2>1 DEF CheckoutsOn
    <3>2. Upto(At(R, Additions(p)), k - 1) = Upto(At(D, Additions(p)), k) - add(p)
      BY <1>1, <1>2
    <3>3. Upto(At(D, Additions(p)), k) \in Nat
      BY <1>1, <1>3
    <3>4. c.products[p] \in Nat /\ c.coming[p] \in Nat /\ add(p) \in Nat
      BY <1>8 DEF Requests
    <3>5. q[p] + Upto(At(D, Additions(p)), k) <= c.products[p] + c.coming[p]
      BY <2>1, <3>1
    <3>6. q2[p] <= q[p] + add(p) /\ q2[p] \in Nat /\ q[p] \in Nat
      BY <1>4
    <3> HIDE DEF add, c
    <3>7. QED
      BY <3>2, <3>3, <3>4, <3>5, <3>6
  <2>3. ASSUME c.alone
        PROVE  /\ \A j \in 1..(k - 1) : R[j] \notin Requests
               /\ \A p \in Product : q2[p] >= c.products[p]
    <3>1. /\ \A j \in 1..((k + 1) - 1) : D[j] \notin Requests
          /\ \A p \in Product : q[p] >= D[k + 1].products[p]
      BY <2>1, <2>3 DEF CheckoutsOn
    <3>2. 1 \in 1..k
      BY <1>1
    <3>3. d \notin Requests
      BY <2>1, <3>1, <3>2 DEF d
    <3>4. \A j \in 1..(k - 1) : j + 1 \in 1..k /\ j \in 1..(L - 1)
      OBVIOUS
    <3>5. \A p \in Product : c.products[p] \in Nat
      BY <1>8 DEF Requests
    <3>6. \A p \in Product : q[p] >= c.products[p] /\ q2[p] >= q[p]
      BY <1>5, <2>1, <3>1, <3>3
    <3> HIDE DEF c
    <3>7. \A p \in Product : q2[p] >= c.products[p]
      BY <1>4, <3>5, <3>6
    <3>8. QED
      BY <1>1, <2>1, <3>1, <3>4, <3>7 DEF Rest
  <2>4. QED
    BY <2>2, <2>3
<1>9. QED
  BY <1>7, <1>8 DEF CheckoutsOn

(* The request of the first fits behind the others. *)
LEMMA RequestFits ==
    ASSUME NEW L \in Nat \ {0}, NEW D, NEW R, Rest(R, D, L),
           NEW q \in [Product -> Nat], CheckoutsOn(D, L, q, C!Nothing), D[1] \in Checkouts,
           NEW a, a \in Requests, a.products = D[1].products, a.coming = D[1].coming,
           a.alone = D[1].alone
    PROVE  Fits(a, R, L - 1, q, C!Nothing)
<1>1. 1 \in 1..L /\ 1 - 1 = 0 /\ L - 1 \in 0..(L - 1) /\ (L - 1) + 1 = L /\ L - 1 \in Nat
  OBVIOUS
<1>2. ASSUME NEW p \in Product
      PROVE  q[p] + Upto(At(R, Additions(p)), L - 1) <= a.products[p] + a.coming[p]
  <2>1. q[p] + C!Nothing[p] + Upto(At(D, Presses(p)), 0) + Upto(At(D, Additions(p)), L)
          <= D[1].products[p] + D[1].coming[p]
    BY <1>1 DEF CheckoutsOn
  <2>2. Upto(At(D, Presses(p)), 0) = 0 /\ Upto(At(D, Additions(p)), L) \in Nat
    BY UptoGrows
  <2>3. C!Nothing[p] = 0
    BY DEF C!Nothing
  <2>4. D[1] \notin Additions(p)
    BY DEF Checkouts, Additions
  <2>5. Upto(At(R, Additions(p)), L - 1) = Upto(At(D, Additions(p)), L) - 0
    BY <1>1, <2>4, AtBehind
  <2>6. a.products[p] \in Nat /\ a.coming[p] \in Nat /\ q[p] \in Nat
    BY DEF Requests
  <2>7. q[p] + 0 + 0 + Upto(At(D, Additions(p)), L) <= a.products[p] + a.coming[p]
    BY <2>1, <2>2, <2>3
  <2>8. QED
    BY <2>2, <2>5, <2>6, <2>7
<1>3. a.alone => /\ \A j \in 1..L : D[j] \notin Requests
                 /\ \A p \in Product : q[p] >= a.products[p]
  BY <1>1 DEF CheckoutsOn
<1>4. \A k \in 1..(L - 1) : k + 1 \in 1..L /\ 1 \in 1..((k + 1) - 1)
  OBVIOUS
<1>5. \A k \in 1..(L - 1) : R[k] \in Checkouts => ~R[k].alone
  BY <1>4 DEF CheckoutsOn, Rest
<1>6. a \notin Checkouts /\ \A p : a \notin Additions(p)
  BY DEF Requests, Checkouts, Additions
<1>7. QED
  BY <1>2, <1>3, <1>4, <1>5, <1>6 DEF Fits, Rest

(* The same of the bus: nothing is dispatched, one action is, the first    *)
(* message leaves.                                                         *)
LEMMA WayNothing ==
    ASSUME NEW before, NEW left, Kept(before, left, guids, CartMessage, CartThunk),
           C!Dispatch(<<>>, before, left),
           CheckoutsOn(OnWay(before, left), Len(before), quantityById', C!Nothing)
    PROVE  CheckoutsWay'
<1>1. S!Dispatch(<<>>, before, left)
  BY CartDispatch
<1>2. /\ Kept(bus', queue', guids', CartMessage, CartThunk)
      /\ DOMAIN bus' = DOMAIN before /\ \A k \in DOMAIN before : bus'[k] = before[k]
      /\ DOMAIN queue' = DOMAIN left /\ \A i \in DOMAIN left : queue'[i] = left[i]
  BY <1>1, CartActions, NothingSent
<1>3. Len(bus') = Len(before)
  <2>1. /\ Len(bus') \in Nat /\ DOMAIN bus' = 1..Len(bus')
        /\ Len(before) \in Nat /\ DOMAIN before = 1..Len(before)
    BY <1>2, LenProperties DEF Kept
  <2>2. \A m, n \in Nat : 1..m = 1..n => m = n
    OBVIOUS
  <2>3. QED
    BY <1>2, <2>1, <2>2
<1>4. \A k \in DOMAIN before : before[k].type = "ABus.Thunk" => before[k].thunkId \in DOMAIN left
  BY DEF Kept, ThunksIn
<1>5. OnWay(bus', queue') = OnWay(before, left)
  BY <1>2, <1>4 DEF OnWay
<1>6. QED
  BY <1>3, <1>5 DEF CheckoutsWay, C!Nothing

LEMMA WayOne ==
    ASSUME NEW before, NEW left, Kept(before, left, guids, CartMessage, CartThunk),
           NEW a \in CartMessage \cup CartThunk, C!Dispatch(<<a>>, before, left),
           quantityById' \in [Product -> Nat], NEW e \in [Product -> Nat],
           CheckoutsOn(OnWay(before, left), Len(before), quantityById', e),
           Fits(a, OnWay(before, left), Len(before), quantityById', e)
    PROVE  CheckoutsWay'
<1> DEFINE L == Len(before)
           D == OnWay(before, left)
           R == OnWay(bus', queue')
<1>1. S!Dispatch(<<a>>, before, left)
  BY CartDispatch
<1>2. /\ Kept(bus', queue', guids', CartMessage, CartThunk)
      /\ L \in Nat /\ DOMAIN before = 1..L /\ DOMAIN bus' = 1..(L + 1)
      /\ \A k \in 1..L : bus'[k] = before[k]
      /\ a \in CartThunk => bus'[L + 1].type = "ABus.Thunk"
      /\ a \in CartMessage => bus'[L + 1] = a
      /\ \A i \in DOMAIN left : i \in DOMAIN queue' /\ queue'[i] = left[i]
      /\ \A i \in DOMAIN queue' \ DOMAIN left : a \in CartThunk /\ queue'[i] = a
  BY <1>1, CartActions, OneSent
<1>3. Len(bus') = L + 1
  <2>1. Len(bus') \in Nat /\ DOMAIN bus' = 1..Len(bus')
    BY <1>2, LenProperties DEF Kept
  <2> HIDE DEF L
  <2>2. QED
    BY <1>2, <2>1
<1> HIDE DEF L
<1>4. DOMAIN D = 1..L /\ DOMAIN R = 1..(L + 1)
  BY <1>2 DEF OnWay
<1>5. \A k \in 1..L : R[k] = D[k]
  <2>1. \A k \in 1..L : before[k].type = "ABus.Thunk" => before[k].thunkId \in DOMAIN left
    BY <1>2 DEF Kept, ThunksIn
  <2>2. \A k \in 1..L : k \in DOMAIN bus'
    BY <1>2
  <2>3. QED
    BY <1>2, <2>1, <2>2 DEF OnWay
<1>6. R[L + 1] = a
  <2>1. L + 1 \in DOMAIN bus' /\ L + 1 \notin 1..L
    BY <1>2
  <2>2. CASE a \in CartMessage
    <3>1. bus'[L + 1] = a /\ a.type # "ABus.Thunk"
      BY <1>2, <2>2, CartActions DEF Actions
    <3>2. QED
      BY <2>1, <3>1 DEF OnWay
  <2>3. CASE a \in CartThunk
    <3> DEFINE i == bus'[L + 1].thunkId
    <3>1. L + 1 \in ThunksIn(bus')
      BY <1>2, <2>1, <2>3 DEF ThunksIn
    <3>2. i \in DOMAIN queue'
      BY <1>2, <3>1 DEF Kept
    <3>3. i \notin DOMAIN left
      <4> SUFFICES ASSUME i \in DOMAIN left PROVE FALSE
        OBVIOUS
      <4>1. PICK k \in ThunksIn(before) : before[k].thunkId = i
        BY DEF Kept
      <4>2. k \in 1..L /\ bus'[k] = before[k]
        BY <1>2, <4>1 DEF ThunksIn
      <4>3. k \in DOMAIN bus'
        BY <1>2, <4>2
      <4>4. k \in ThunksIn(bus') /\ bus'[k].thunkId = i
        BY <4>1, <4>2, <4>3 DEF ThunksIn
      <4>5. k = L + 1
        BY <1>2, <3>1, <4>4 DEF Kept
      <4>6. QED
        BY <2>1, <4>2, <4>5
    <3>4. queue'[i] = a
      BY <1>2, <3>2, <3>3
    <3>5. bus'[L + 1].type = "ABus.Thunk"
      BY <1>2, <2>3
    <3>6. QED
      BY <2>1, <3>4, <3>5 DEF OnWay
  <2>4. QED
    BY <2>2, <2>3
<1>7. CheckoutsOn(D, L, quantityById', e) /\ Fits(R[L + 1], D, L, quantityById', e)
  BY <1>6 DEF L
<1> HIDE DEF D, R
<1>8. CheckoutsOn(R, L + 1, quantityById', C!Nothing)
  BY <1>2, <1>4, <1>5, <1>7, CheckoutsOneMore
<1>9. QED
  BY <1>3, <1>8 DEF CheckoutsWay, R, C!Nothing

LEMMA WayBehind ==
    ASSUME NEW B, NEW Q, NEW g, NEW M, NEW F, Kept(B, Q, g, M, F), B # <<>>,
           NEW left, Kept(Tail(B), left, g, M, F), \A i \in DOMAIN left : left[i] = Q[i]
    PROVE  /\ Len(B) \in Nat \ {0} /\ Len(Tail(B)) = Len(B) - 1
           /\ Rest(OnWay(Tail(B), left), OnWay(B, Q), Len(B))
           /\ OnWay(B, Q)[1] = IF Head(B).type = "ABus.Thunk" THEN Q[Head(B).thunkId] ELSE Head(B)
<1>1. /\ Len(B) \in Nat \ {0} /\ DOMAIN B = 1..Len(B) /\ Head(B) = B[1]
      /\ Len(Tail(B)) = Len(B) - 1 /\ DOMAIN Tail(B) = 1..(Len(B) - 1)
      /\ \A i \in 1..(Len(B) - 1) : Tail(B)[i] = B[i + 1]
  BY Behind DEF Kept
<1>2. \A k \in 1..(Len(B) - 1) : Tail(B)[k].type = "ABus.Thunk" =>
          Tail(B)[k].thunkId \in DOMAIN left
  BY <1>1 DEF Kept, ThunksIn
<1>3. DOMAIN OnWay(B, Q) = 1..Len(B) /\ DOMAIN OnWay(Tail(B), left) = 1..(Len(B) - 1)
  BY <1>1 DEF OnWay
<1>4. ASSUME NEW k \in 1..(Len(B) - 1)
      PROVE  OnWay(Tail(B), left)[k] = OnWay(B, Q)[k + 1]
  <2>1. k \in DOMAIN Tail(B) /\ k + 1 \in DOMAIN B /\ Tail(B)[k] = B[k + 1]
    BY <1>1
  <2>2. QED
    BY <1>2, <2>1 DEF OnWay
<1>5. 1 \in DOMAIN B
  BY <1>1
<1>6. Rest(OnWay(Tail(B), left), OnWay(B, Q), Len(B))
  BY <1>1, <1>3, <1>4 DEF Rest
<1>7. QED
  BY <1>1, <1>5, <1>6 DEF OnWay

LEMMA CartClicked ==
    ASSUME CartInv, NEW a \in CartThunk, a.run # "getAllProducts",
           a.run = "addToCart" => inventory # <<>>, C!Click(a),
           Fits(a, OnWay(bus, queue), Len(bus), quantityById, C!Nothing)
    PROVE  CartInv'
<1>1. /\ inventory' = inventory /\ addedIds' = addedIds /\ quantityById' = quantityById
      /\ shop' = shop /\ C!Dispatch(<<a>>, bus, queue)
  BY DEF C!Click, C!products, C!cart, C!Dispatched
<1>2. a \notin CartMessage
  BY CartActions DEF Actions
<1>3. /\ Kept(bus, queue, guids, CartMessage, CartThunk)
      /\ CartWay(bus, queue, shop', inventory')
  BY <1>1 DEF CartInv
<1>4. /\ Kept(bus', queue', guids', CartMessage, CartThunk)
      /\ CartWay(bus', queue', shop', inventory')
  BY <1>1, <1>2, <1>3, CartOne
<1>5. CartTypes'
  BY <1>1 DEF CartInv, CartTypes, C!ToSet, C!Nothing
<1>6. CheckoutsWay'
  <2>1. /\ quantityById' \in [Product -> Nat] /\ C!Nothing \in [Product -> Nat]
        /\ CheckoutsOn(OnWay(bus, queue), Len(bus), quantityById', C!Nothing)
        /\ Fits(a, OnWay(bus, queue), Len(bus), quantityById', C!Nothing)
    BY <1>1 DEF CartInv, CartTypes, CheckoutsWay, C!Nothing
  <2>2. QED
    BY <1>1, <1>3, <2>1, WayOne
<1>7. QED
  BY <1>4, <1>5, <1>6 DEF CartInv

(* What a checkout knows of the bus at its click. *)
LEMMA CheckoutKnows ==
    ASSUME CartInv, NEW a, a = [run |-> "checkout", products |-> C!getCartProducts,
                                coming |-> [p \in Product |-> C!Coming(p)], alone |-> C!Alone]
    PROVE  a \in Checkouts /\ Fits(a, OnWay(bus, queue), Len(bus), quantityById, C!Nothing)
<1> DEFINE L == Len(bus)
           D == OnWay(bus, queue)
           pressed(p) == Upto(At(D, Presses(p)), L)
           added(p) == Upto(At(D, Additions(p)), L)
<1>1. /\ L \in Nat /\ DOMAIN bus = 1..L /\ \A k \in 1..L : bus[k] \in CartMessage \cup ThunkMessage
      /\ \A k \in 1..L : bus[k].type = "ABus.Thunk" =>
            bus[k].thunkId \in DOMAIN queue /\ queue[bus[k].thunkId] \in CartThunk
  BY LenProperties, ElementOfSeq DEF CartInv, Kept, ThunksIn
<1>2. /\ DOMAIN D = 1..L
      /\ \A k \in 1..L : D[k] = IF bus[k].type = "ABus.Thunk" THEN queue[bus[k].thunkId] ELSE bus[k]
  BY <1>1 DEF OnWay
<1> HIDE DEF L, D
<1>3. ASSUME NEW p \in Product
      PROVE  C!Coming(p) = pressed(p) + added(p) /\ pressed(p) \in Nat /\ added(p) \in Nat
  <2>1. \A k \in 1..L : D[k] \in Additions(p) <=> bus[k].type = "ADD_TO_CART" /\ bus[k].productId = p
    <3> SUFFICES ASSUME NEW k \in 1..L
                 PROVE  D[k] \in Additions(p) <=> bus[k].type = "ADD_TO_CART" /\ bus[k].productId = p
      OBVIOUS
    <3>1. CASE bus[k].type = "ABus.Thunk"
      <4>1. D[k] \in CartThunk
        BY <1>1, <1>2, <3>1
      <4>2. D[k] \notin Additions(p)
        BY <4>1 DEF CartThunk, Checkouts, Additions
      <4>3. QED
        BY <3>1, <4>2
    <3>2. CASE bus[k].type # "ABus.Thunk"
      <4>1. D[k] = bus[k] /\ bus[k] \in CartMessage
        BY <1>1, <1>2, <3>2 DEF ThunkMessage
      <4>2. QED
        BY <4>1 DEF CartMessage, Requests, ShopMessage, Additions
    <3>3. QED
      BY <3>1, <3>2
  <2>2. \A k \in 1..L : D[k] \in Presses(p) <=> C!Running(k, "addToCart") /\ queue[bus[k].thunkId].productId = p
    <3> SUFFICES ASSUME NEW k \in 1..L
                 PROVE  D[k] \in Presses(p) <=>
                           C!Running(k, "addToCart") /\ queue[bus[k].thunkId].productId = p
      OBVIOUS
    <3>1. CASE bus[k].type = "ABus.Thunk"
      <4>1. D[k] = queue[bus[k].thunkId] /\ D[k] \in CartThunk
        BY <1>1, <1>2, <3>1
      <4>2. D[k] \in Presses(p) <=> D[k].run = "addToCart" /\ D[k].productId = p
        BY <4>1 DEF CartThunk, Checkouts, Presses
      <4>3. QED
        BY <3>1, <4>1, <4>2 DEF C!Running
    <3>2. CASE bus[k].type # "ABus.Thunk"
      <4>1. D[k] = bus[k] /\ bus[k] \in CartMessage
        BY <1>1, <1>2, <3>2 DEF ThunkMessage
      <4>2. D[k] \notin Presses(p)
        BY <4>1 DEF CartMessage, Requests, ShopMessage, Presses
      <4>3. QED
        BY <3>2, <4>2 DEF C!Running
    <3>3. QED
      BY <3>1, <3>2
  <2>3. C!Adding(p) = {k \in 1..L : k \in At(D, Additions(p))}
    BY <1>1, <1>2, <2>1 DEF C!Adding, At
  <2>4. C!AboutToAdd(p) = {k \in 1..L : k \in At(D, Presses(p))}
    BY <1>1, <1>2, <2>2 DEF C!AboutToAdd, At
  <2>5. C!Coming(p) = added(p) + pressed(p)
    BY <2>3, <2>4, CartCounts DEF C!Coming, Upto
  <2>6. pressed(p) \in Nat /\ added(p) \in Nat
    BY <1>1, UptoGrows
  <2> HIDE DEF pressed, added
  <2>7. QED
    BY <2>5, <2>6
<1>4. C!Alone => \A j \in 1..L : D[j] \notin Requests /\ D[j] \notin Checkouts
  <2> SUFFICES ASSUME C!Alone, NEW j \in 1..L
               PROVE  D[j] \notin Requests /\ D[j] \notin Checkouts
    OBVIOUS
  <2>1. bus[j].type # "CHECKOUT_REQUEST" /\ ~C!Running(j, "checkout")
    BY <1>1 DEF C!Alone
  <2>2. CASE bus[j].type = "ABus.Thunk"
    <3>1. D[j] = queue[bus[j].thunkId] /\ D[j] \in CartThunk /\ D[j].run # "checkout"
      BY <1>1, <1>2, <2>1, <2>2 DEF C!Running
    <3>2. QED
      BY <3>1 DEF CartThunk, Checkouts, Requests
  <2>3. CASE bus[j].type # "ABus.Thunk"
    <3>1. D[j] = bus[j] /\ bus[j] \in CartMessage
      BY <1>1, <1>2, <2>3 DEF ThunkMessage
    <3>2. QED
      BY <2>1, <3>1 DEF CartMessage, Requests, ShopMessage, Checkouts
  <2>4. QED
    BY <2>2, <2>3
<1>5. quantityById \in [Product -> Nat] /\ C!getCartProducts = quantityById
  <2>1. /\ quantityById \in [Product -> Nat]
        /\ \A p \in Product : p \in C!ToSet(addedIds) <=> quantityById[p] > 0
    BY DEF CartInv, CartTypes
  <2>2. \A p \in Product :
           (IF p \in C!ToSet(addedIds) THEN quantityById[p] ELSE 0) = quantityById[p]
    BY <2>1
  <2>3. C!getCartProducts = [p \in Product |-> quantityById[p]]
    BY <2>2 DEF C!getCartProducts
  <2>4. QED
    BY <2>1, <2>3
<1>6. /\ a.products = quantityById /\ a.alone = C!Alone
      /\ \A p \in Product : a.coming[p] = pressed(p) + added(p)
  BY <1>3, <1>5
<1>7. a \in Checkouts
  <2>1. [p \in Product |-> C!Coming(p)] \in [Product -> Nat]
    BY <1>3
  <2>2. C!Alone \in BOOLEAN
    BY DEF C!Alone
  <2>3. QED
    BY <1>5, <2>1, <2>2 DEF Checkouts
<1>8. \A p \in Product : quantityById[p] + pressed(p) + added(p) <= a.products[p] + a.coming[p]
  <2> SUFFICES ASSUME NEW p \in Product
               PROVE  quantityById[p] + pressed(p) + added(p) <= a.products[p] + a.coming[p]
    OBVIOUS
  <2>1. pressed(p) \in Nat /\ added(p) \in Nat
    BY <1>3
  <2>2. a.products[p] = quantityById[p] /\ a.coming[p] = pressed(p) + added(p) /\ quantityById[p] \in Nat
    BY <1>5, <1>6
  <2> HIDE DEF pressed, added
  <2>3. QED
    BY <2>1, <2>2
<1>9. \A p \in Product : quantityById[p] >= a.products[p]
  BY <1>5, <1>6
<1>10. a \notin Requests /\ \A p : a \notin Additions(p)
  BY <1>7 DEF Checkouts, Requests, Additions
<1>11. Fits(a, D, L, quantityById, C!Nothing)
  BY <1>4, <1>6, <1>8, <1>9, <1>10 DEF Fits
<1>12. QED
  BY <1>7, <1>11 DEF D, L

LEMMA CartClicks ==
    ASSUME CartInv, C!ClickCheckout \/ \E p \in Product : C!ClickAddToCart(p)
    PROVE  CartInv'
<1>1. CASE C!ClickCheckout
  <2> DEFINE a == [run |-> "checkout", products |-> C!getCartProducts,
                   coming |-> [p \in Product |-> C!Coming(p)], alone |-> C!Alone]
  <2>1. a.run = "checkout" /\ C!Click(a)
    BY <1>1 DEF C!ClickCheckout
  <2>2. a \in Checkouts /\ Fits(a, OnWay(bus, queue), Len(bus), quantityById, C!Nothing)
    BY CheckoutKnows
  <2> HIDE DEF a
  <2>3. a \in CartThunk
    BY <2>2 DEF CartThunk
  <2>4. QED
    BY <2>1, <2>2, <2>3, CartClicked
<1>2. ASSUME NEW p \in Product, C!ClickAddToCart(p)
      PROVE  CartInv'
  <2> DEFINE a == [run |-> "addToCart", productId |-> p]
  <2>1. a \in CartThunk /\ a.run = "addToCart"
    BY DEF CartThunk
  <2>2. C!Click(a) /\ p \in DOMAIN inventory
    BY <1>2 DEF C!ClickAddToCart
  <2>3. inventory # <<>>
    BY <2>2
  <2>4. a \notin Checkouts /\ a \notin Requests /\ \A x : a \notin Additions(x)
    <3>1. "type" \notin DOMAIN a /\ a.run # "checkout"
      OBVIOUS
    <3> HIDE DEF a
    <3>2. QED
      BY <3>1 DEF Checkouts, Requests, Additions
  <2> HIDE DEF a
  <2>5. Fits(a, OnWay(bus, queue), Len(bus), quantityById, C!Nothing)
    BY <2>4 DEF Fits
  <2>6. QED
    BY <2>1, <2>2, <2>3, <2>5, CartClicked
<1>3. QED
  BY <1>1, <1>2

(* What the function of a thunk dispatches comes behind the bus. *)
LEMMA CartThunks ==
    ASSUME CartInv, C!RunThunk
    PROVE  CartInv'
<1> DEFINE i == Head(bus).thunkId
           before == Tail(bus)
           left == [id \in DOMAIN queue \ {i} |-> queue[id]]
           t == queue[i]
<1>1. /\ bus # <<>> /\ Head(bus).type = "ABus.Thunk"
      /\ inventory' = inventory /\ addedIds' = addedIds /\ quantityById' = quantityById
      /\ C!addToCart \/ C!getProducts \/ C!checkout
  BY DEF C!RunThunk, C!ReceivedThunk, C!products, C!cart
<1>2. /\ CartTypes /\ Kept(bus, queue, guids, CartMessage, CartThunk)
      /\ CartWay(bus, queue, shop, inventory) /\ CheckoutsWay
      /\ bus \in Seq(CartMessage \cup ThunkMessage)
  BY DEF CartInv, Kept
<1>3. /\ i \in DOMAIN queue
      /\ Kept(before, left, guids, CartMessage, CartThunk)
  BY <1>1, <1>2, KeptBehindThunk
<1>4. t \in CartThunk /\ C!thunk = t
  BY <1>2, <1>3 DEF Kept, C!thunk
<1>5. DOMAIN left \subseteq DOMAIN queue /\ \A id \in DOMAIN left : left[id] = queue[id]
  OBVIOUS
<1>6. CartWay(before, left, shop, inventory)
  <2> HIDE DEF left
  <2>1. Head(bus).type # "ADD_TO_CART"
    BY <1>1
  <2>2. QED
    BY <1>1, <1>2, <1>5, <2>1, CartBehind
<1>7. /\ quantityById' \in [Product -> Nat]
      /\ \A e \in [Product -> Nat] :
            (\A p \in Product : e[p] <= IF t \in Presses(p) THEN 1 ELSE 0) =>
               CheckoutsOn(OnWay(before, left), Len(before), quantityById', e)
      /\ \A r \in Requests :
            /\ t \in Checkouts
            /\ r.products = t.products /\ r.coming = t.coming /\ r.alone = t.alone
            => Fits(r, OnWay(before, left), Len(before), quantityById', C!Nothing)
  <2> DEFINE D == OnWay(bus, queue)
             R == OnWay(before, left)
             L == Len(bus)
  <2> HIDE DEF left, t
  <2>1. /\ L \in Nat \ {0} /\ Len(before) = L - 1 /\ Rest(R, D, L)
        /\ D[1] = IF Head(bus).type = "ABus.Thunk" THEN queue[Head(bus).thunkId] ELSE Head(bus)
    BY <1>1, <1>2, <1>3, <1>5, WayBehind
  <2>2. D[1] = t
    BY <1>1, <2>1 DEF t
  <2>3. quantityById \in [Product -> Nat] /\ quantityById' = quantityById
    BY <1>1, <1>2 DEF CartTypes
  <2>4. CheckoutsOn(D, L, quantityById, C!Nothing)
    BY <1>2 DEF CheckoutsWay
  <2>5. t \notin Requests /\ \A p : t \notin Additions(p)
    BY <1>4 DEF CartThunk, Checkouts, Requests, Additions
  <2> HIDE DEF before, D, R, L
  <2>6. \A p \in Product :
           quantityById'[p] = quantityById[p] + (IF D[1] \in Additions(p) THEN 1 ELSE 0)
    BY <2>2, <2>3, <2>5
  <2>7. ASSUME NEW e \in [Product -> Nat],
               \A p \in Product : e[p] <= IF t \in Presses(p) THEN 1 ELSE 0
        PROVE  CheckoutsOn(R, Len(before), quantityById', e)
    <3>1. \A p \in Product : e[p] <= IF D[1] \in Presses(p) THEN 1 ELSE 0
      BY <2>2, <2>7
    <3>2. CheckoutsOn(R, L - 1, quantityById', e)
      BY <2>1, <2>3, <2>4, <2>6, <3>1, CheckoutsFirst
    <3>3. QED
      BY <2>1, <3>2
  <2>8. ASSUME NEW r \in Requests, t \in Checkouts,
               r.products = t.products, r.coming = t.coming, r.alone = t.alone
        PROVE  Fits(r, R, Len(before), quantityById', C!Nothing)
    <3>1. D[1] \in Checkouts /\ r.products = D[1].products /\ r.coming = D[1].coming
          /\ r.alone = D[1].alone
      BY <2>2, <2>8
    <3>2. Fits(r, R, L - 1, quantityById, C!Nothing)
      BY <2>1, <2>3, <2>4, <3>1, RequestFits
    <3>3. QED
      BY <2>1, <2>3, <3>2
  <2>9. QED
    BY <2>3, <2>7, <2>8 DEF R
<1>8. /\ C!Nothing \in [Product -> Nat]
       /\ CheckoutsOn(OnWay(before, left), Len(before), quantityById', C!Nothing)
  <2> HIDE DEF before, left, t
  <2>1. /\ C!Nothing \in [Product -> Nat]
        /\ \A p \in Product : C!Nothing[p] <= IF t \in Presses(p) THEN 1 ELSE 0
    BY DEF C!Nothing
  <2>2. QED
    BY <1>7, <2>1
<1>9. ASSUME NEW actions, C!ThunkDispatches(actions)
      PROVE  C!Dispatch(actions, before, left)
  BY <1>9 DEF C!ThunkDispatches
<1>10. shop \in Seq(ShopMessage)
  BY <1>2 DEF CartTypes
<1>11. CASE C!addToCart
  <2>1. /\ shop' = shop /\ t.run = "addToCart"
        /\ C!ThunkDispatches(IF C!InStock(t.productId) THEN <<C!addToCartUnsafe(t.productId)>> ELSE <<>>)
    BY <1>4, <1>11 DEF C!addToCart
  <2>2. CartTypes'
    BY <1>1, <1>2, <2>1 DEF CartTypes, C!ToSet, C!Nothing
  <2>3. CartWay(before, left, shop', inventory')
    BY <1>1, <1>6, <2>1
  <2>4. CASE ~C!InStock(t.productId)
    <3>1. C!Dispatch(<<>>, before, left)
      BY <1>9, <2>1, <2>4
    <3> HIDE DEF before, left
    <3>2. /\ Kept(bus', queue', guids', CartMessage, CartThunk)
          /\ CartWay(bus', queue', shop', inventory')
      BY <1>3, <2>3, <3>1, CartNothing
    <3>3. CheckoutsWay'
      BY <1>3, <1>8, <3>1, WayNothing
    <3>4. QED
      BY <2>2, <3>2, <3>3 DEF CartInv
  <2>5. CASE C!InStock(t.productId)
    <3> DEFINE p == t.productId
               n == Upto(Adds(before, p), Len(before))
               a == C!addToCartUnsafe(p)
    <3>1. p \in Product /\ inventory[p] > 0
      BY <1>4, <2>1, <2>5 DEF CartThunk, Checkouts, C!InStock
    <3>2. inventory # <<>>
      <4>1. ~NothingAdded(bus, queue)
        BY <1>3, <2>1 DEF NothingAdded
      <4>2. QED
        BY <1>2, <4>1 DEF CartWay
    <3>3. inventory \in [Product -> Int]
      BY <1>2, <3>2 DEF CartTypes
    <3>4. C!Ahead(p) = n /\ n \in Nat
      <4>1. /\ Len(bus) \in Nat \ {0} /\ DOMAIN bus = 1..Len(bus) /\ Len(before) = Len(bus) - 1
            /\ DOMAIN before = 1..(Len(bus) - 1)
        BY <1>1, <1>2, Behind
      <4>2. C!Ahead(p) = Cardinality({k \in DOMAIN bus : bus[k].type = "ADD_TO_CART" /\ bus[k].productId = p})
        BY CartCounts DEF C!Ahead, C!Adding
      <4>3. {k \in DOMAIN bus : bus[k].type = "ADD_TO_CART" /\ bus[k].productId = p}
              = {k \in 1..Len(bus) : k \in Adds(bus, p)}
        BY <4>1 DEF Adds
      <4>4. C!Ahead(p) = Upto(Adds(bus, p), Len(bus))
        BY <4>2, <4>3 DEF Upto
      <4>5. Len(before) \in 0..(Len(bus) - 1) /\ Len(before) + 1 = Len(bus)
        BY <4>1
      <4>6. ~(Head(bus).type = "ADD_TO_CART" /\ Head(bus).productId = p)
        BY <1>1
      <4> HIDE DEF p
      <4>7. n = Upto(Adds(bus, p), Len(before) + 1) - 0
        BY <1>1, <1>2, <4>5, <4>6, AddsTail
      <4>8. Upto(Adds(bus, p), Len(bus)) \in Nat
        BY <4>1, UptoGrows
      <4>9. QED
        BY <4>4, <4>5, <4>7, <4>8
    <3>5. a = [type |-> "ADD_TO_CART", productId |-> p, ahead |-> n]
      BY <3>4 DEF C!addToCartUnsafe
    <3> HIDE DEF p, n
    <3>6. a \in CartMessage /\ a.type = "ADD_TO_CART" /\ a.productId = p /\ a.ahead = n
      BY <3>1, <3>4, <3>5 DEF CartMessage
    <3>7. C!Dispatch(<<a>>, before, left)
      BY <1>9, <2>1, <2>5 DEF p
    <3>8. inventory'[a.productId] + a.ahead > Upto(Adds(before, a.productId), Len(before))
      <4>1. inventory'[p] \in Int /\ inventory'[p] > 0
        BY <1>1, <3>1, <3>3
      <4>2. Upto(Adds(before, p), Len(before)) = n
        BY DEF n
      <4>3. QED
        BY <3>4, <3>6, <4>1, <4>2
    <3>9. a \notin CartThunk
      BY <3>6, CartActions DEF Actions
    <3>10. inventory' # <<>>
      BY <1>1, <3>2
    <3> DEFINE e == [x \in Product |-> IF x = p THEN 1 ELSE 0]
    <3>11. /\ e \in [Product -> Nat]
           /\ CheckoutsOn(OnWay(before, left), Len(before), quantityById', e)
           /\ Fits(a, OnWay(before, left), Len(before), quantityById', e)
      <4>1. t \in Presses(p)
        BY <1>4, <2>1 DEF CartThunk, Checkouts, Presses, p
      <4>2. e \in [Product -> Nat] /\ e[p] = 1
        BY <3>1
      <4>3. \A x \in Product : e[x] <= IF t \in Presses(x) THEN 1 ELSE 0
        BY <4>1
      <4>4. a \notin Checkouts /\ a \notin Requests /\ \A x : a \in Additions(x) => x = p
        BY <3>5 DEF Checkouts, Requests, Additions
      <4> HIDE DEF e, before, left, t, a
      <4>5. CheckoutsOn(OnWay(before, left), Len(before), quantityById', e)
        BY <1>7, <4>2, <4>3
      <4>6. \A x \in Product : a \in Additions(x) => e[x] >= 1
        BY <4>2, <4>4
      <4>7. Fits(a, OnWay(before, left), Len(before), quantityById', e)
        BY <4>4, <4>6 DEF Fits
      <4>8. QED
        BY <4>2, <4>5, <4>7
    <3> HIDE DEF a, before, left, e
    <3>12. /\ Kept(bus', queue', guids', CartMessage, CartThunk)
           /\ CartWay(bus', queue', shop', inventory')
      BY <1>3, <2>3, <3>6, <3>7, <3>8, <3>9, <3>10, CartOne
    <3>13. CheckoutsWay'
      BY <1>3, <1>7, <3>6, <3>7, <3>11, WayOne
    <3>14. QED
      BY <2>2, <3>12, <3>13 DEF CartInv
  <2>6. QED
    BY <2>4, <2>5
<1>12. CASE C!getProducts
  <2> DEFINE m == [type |-> "RECEIVE_PRODUCTS"]
  <2>1. shop' = Append(shop, m) /\ t.run = "getAllProducts" /\ C!ThunkDispatches(<<>>)
    BY <1>4, <1>12 DEF C!getProducts
  <2>2. m \in ShopMessage /\ m.type = "RECEIVE_PRODUCTS"
    BY DEF ShopMessage
  <2> HIDE DEF m
  <2>3. /\ shop' \in Seq(ShopMessage) /\ DOMAIN shop = 1..Len(shop) /\ Len(shop) \in Nat
        /\ DOMAIN shop' = 1..(Len(shop) + 1)
        /\ \A k \in 1..Len(shop) : shop'[k] = shop[k]
        /\ shop'[Len(shop) + 1] = m
    BY <1>10, <2>1, <2>2, AppendProperties, LenProperties
  <2>4. CartTypes'
    BY <1>1, <1>2, <2>3 DEF CartTypes, C!ToSet, C!Nothing
  <2>5. i \in Loading(queue)
    BY <1>3, <2>1 DEF Loading
  <2>6. /\ Receiving(shop) = {} /\ Receiving(bus) = {} /\ Loading(left) = {} /\ inventory = <<>>
    <3>1. \A j \in Loading(queue) : j = i
      BY <1>2, <2>5 DEF CartWay, LoadsOnce
    <3>2. Loading(left) = {}
      BY <3>1 DEF Loading
    <3>3. QED
      BY <1>2, <2>5, <3>2 DEF CartWay, LoadsOnce, HasLoaded
  <2>7. Receiving(shop') = {Len(shop) + 1}
    <3>1. Receiving(shop') = Receiving(shop) \cup {Len(shop) + 1}
      BY <2>2, <2>3, ReceivingOn
    <3>2. QED
      BY <2>6, <3>1
  <2>8. Receiving(before) = {}
    BY <1>1, <1>2, <2>6, ReceivingBehind
  <2>9. CartWay(before, left, shop', inventory')
    <3> HIDE DEF before, left
    <3>1. LoadsOnce(before, left, shop')
      BY <2>6, <2>7, <2>8 DEF LoadsOnce
    <3>2. QED
      BY <1>1, <1>6, <2>6, <3>1 DEF CartWay
  <2>10. C!Dispatch(<<>>, before, left)
    BY <1>9, <2>1
  <2> HIDE DEF before, left
  <2>11. /\ Kept(bus', queue', guids', CartMessage, CartThunk)
         /\ CartWay(bus', queue', shop', inventory')
    BY <1>3, <2>9, <2>10, CartNothing
  <2>12. CheckoutsWay'
    BY <1>3, <1>8, <2>10, WayNothing
  <2>13. QED
    BY <2>4, <2>11, <2>12 DEF CartInv
<1>13. CASE C!checkout
  <2> DEFINE m == [type |-> "CHECKOUT_SUCCESS", cart |-> C!cart]
             a == [type |-> "CHECKOUT_REQUEST", products |-> t.products, coming |-> t.coming,
                   alone |-> t.alone]
  <2>1. shop' = Append(shop, m) /\ C!ThunkDispatches(<<a>>) /\ t.run = "checkout"
    BY <1>4, <1>13 DEF C!checkout
  <2>2. m \in ShopMessage /\ m.type = "CHECKOUT_SUCCESS"
    BY <1>2 DEF ShopMessage, CartTypes, C!cart
  <2>3. t \in Checkouts
    <3> HIDE DEF t
    <3>1. QED
      BY <1>4, <2>1 DEF CartThunk
  <2>4. /\ a \in Requests /\ a.type = "CHECKOUT_REQUEST"
         /\ a.products = t.products /\ a.coming = t.coming /\ a.alone = t.alone
    <3> HIDE DEF t
    <3>1. QED
      BY <2>3 DEF Requests, Checkouts
  <2>5. a \in CartMessage
    <3> HIDE DEF a
    <3>1. QED
      BY <2>4 DEF CartMessage
  <2> HIDE DEF m, a
  <2>6. /\ shop' \in Seq(ShopMessage) /\ DOMAIN shop = 1..Len(shop) /\ Len(shop) \in Nat
        /\ DOMAIN shop' = 1..(Len(shop) + 1)
        /\ \A k \in 1..Len(shop) : shop'[k] = shop[k]
        /\ shop'[Len(shop) + 1] = m
    BY <1>10, <2>1, <2>2, AppendProperties, LenProperties
  <2>7. CartTypes'
    BY <1>1, <1>2, <2>6 DEF CartTypes, C!ToSet, C!Nothing
  <2>8. Receiving(shop') = Receiving(shop)
    BY <2>2, <2>6, ReceivingOn
  <2>9. CartWay(before, left, shop', inventory')
    BY <1>1, <1>6, <2>8 DEF CartWay, LoadsOnce, HasLoaded
  <2>10. C!Dispatch(<<a>>, before, left)
    BY <1>9, <2>1
  <2>11. a \notin CartThunk
    BY <2>5, CartActions DEF Actions
  <2>12. Fits(a, OnWay(before, left), Len(before), quantityById', C!Nothing)
    <3> HIDE DEF before, left, t
    <3>1. QED
      BY <1>7, <2>3, <2>4
  <2> HIDE DEF before, left
  <2>13. /\ Kept(bus', queue', guids', CartMessage, CartThunk)
         /\ CartWay(bus', queue', shop', inventory')
    BY <1>3, <2>9, <2>10, <2>11, <2>4, <2>5, CartOne
  <2>14. CheckoutsWay'
    BY <1>3, <1>7, <1>8, <2>10, <2>12, <2>5, WayOne
  <2>15. QED
    BY <2>7, <2>13, <2>14 DEF CartInv
<1>14. QED
  BY <1>1, <1>11, <1>12, <1>13

(* The shop answers in the order of its timers. *)
LEMMA CartAnswers ==
    ASSUME CartInv, C!ShopAnswers
    PROVE  CartInv'
<1> DEFINE a == Head(shop)
<1>1. /\ shop # <<>> /\ shop' = Tail(shop) /\ C!Dispatch(<<a>>, bus, queue)
      /\ inventory' = inventory /\ addedIds' = addedIds /\ quantityById' = quantityById
  BY DEF C!ShopAnswers, C!products, C!cart, C!Dispatched
<1>2. /\ CartTypes /\ Kept(bus, queue, guids, CartMessage, CartThunk) /\ CheckoutsWay
      /\ CartWay(bus, queue, shop, inventory) /\ shop \in Seq(ShopMessage)
  BY DEF CartInv, CartTypes
<1>3. shop' \in Seq(ShopMessage) /\ a \in ShopMessage
  BY <1>1, <1>2, Behind
<1>4. a \in CartMessage /\ a.type # "ADD_TO_CART"
  BY <1>3 DEF ShopMessage, CartMessage
<1>5. a \notin CartThunk
  BY <1>4, CartActions DEF Actions
<1> HIDE DEF a
<1>6. /\ \A i, j \in Receiving(shop') : i = j
      /\ Receiving(shop) = {} => Receiving(shop') = {}
      /\ a.type = "RECEIVE_PRODUCTS" => Receiving(shop) # {} /\ Receiving(shop') = {}
  BY <1>1, <1>2, ReceivingBehind DEF a, CartWay, LoadsOnce
<1>7. CartWay(bus, queue, shop', inventory')
  BY <1>1, <1>2, <1>6 DEF CartWay, LoadsOnce, HasLoaded
<1>8. a.type = "RECEIVE_PRODUCTS" => HasLoaded(bus, queue, shop') /\ inventory' = <<>>
  BY <1>1, <1>2, <1>6 DEF CartWay, LoadsOnce, HasLoaded
<1>9. /\ Kept(bus', queue', guids', CartMessage, CartThunk)
      /\ CartWay(bus', queue', shop', inventory')
  BY <1>1, <1>2, <1>4, <1>5, <1>7, <1>8, CartOne
<1>10. CartTypes'
  BY <1>1, <1>2, <1>3 DEF CartTypes, C!ToSet, C!Nothing
<1>11. CheckoutsWay'
  <2>1. a \notin Checkouts /\ a \notin Requests /\ \A p : a \notin Additions(p)
    BY <1>3 DEF ShopMessage, Checkouts, Requests, Additions
  <2>2. /\ quantityById' \in [Product -> Nat] /\ C!Nothing \in [Product -> Nat]
        /\ CheckoutsOn(OnWay(bus, queue), Len(bus), quantityById', C!Nothing)
    BY <1>1, <1>2 DEF CartTypes, CheckoutsWay, C!Nothing
  <2>3. Fits(a, OnWay(bus, queue), Len(bus), quantityById', C!Nothing)
    BY <2>1 DEF Fits
  <2>4. QED
    BY <1>1, <1>2, <1>4, <2>2, <2>3, WayOne
<1>12. QED
  BY <1>9, <1>10, <1>11 DEF CartInv

(* The reducers take the first message. *)
LEMMA CartReduced ==
    ASSUME CartInv, C!CartAssumption, C!Reduce
    PROVE  CartInv' /\ C!AddedBehind
<1> DEFINE m == Head(bus)
           before == Tail(bus)
<1>1. /\ bus # <<>> /\ m.type # "ABus.Thunk" /\ shop' = shop
      /\ C!Dispatch(<<>>, before, queue)
      /\ inventory' = CASE m.type = "RECEIVE_PRODUCTS" -> Stock
                        [] m.type = "ADD_TO_CART" -> [inventory EXCEPT ![m.productId] = @ - 1]
                        [] OTHER -> inventory
      /\ C!reduceCart
  BY DEF C!Reduce, C!Received, C!reduceProducts, C!action
<1>2. /\ CartTypes /\ Kept(bus, queue, guids, CartMessage, CartThunk) /\ CheckoutsWay
      /\ CartWay(bus, queue, shop, inventory)
      /\ bus \in Seq(CartMessage \cup ThunkMessage)
  BY DEF CartInv, Kept
<1>3. /\ Len(bus) \in Nat \ {0} /\ DOMAIN bus = 1..Len(bus) /\ m = bus[1]
      /\ DOMAIN before = 1..(Len(bus) - 1)
      /\ \A i \in 1..(Len(bus) - 1) : before[i] = bus[i + 1]
      /\ m \in CartMessage \cup ThunkMessage
  BY <1>1, <1>2, Behind
<1>4. m \in CartMessage
  BY <1>1, <1>3 DEF ThunkMessage
<1>5. Kept(before, queue, guids, CartMessage, CartThunk)
  BY <1>1, <1>2, KeptBehind
<1>6. ASSUME quantityById' \in [Product -> Nat],
             \/ m \in Requests /\ quantityById' = C!Nothing
             \/ \A p \in Product :
                   quantityById'[p] = quantityById[p] + (IF m \in Additions(p) THEN 1 ELSE 0)
      PROVE  CheckoutsWay'
  <2> DEFINE D == OnWay(bus, queue)
             R == OnWay(before, queue)
             L == Len(bus)
  <2>1. /\ L \in Nat \ {0} /\ Len(before) = L - 1 /\ Rest(R, D, L)
        /\ D[1] = m
    BY <1>1, <1>2, <1>5, WayBehind
  <2>2. CheckoutsOn(D, L, quantityById, C!Nothing) /\ quantityById \in [Product -> Nat]
    BY <1>2 DEF CheckoutsWay, CartTypes
  <2>3. /\ C!Nothing \in [Product -> Nat]
        /\ \A p \in Product : C!Nothing[p] <= IF m \in Presses(p) THEN 1 ELSE 0
    BY DEF C!Nothing
  <2> HIDE DEF m, before, D, R, L
  <2>4. CheckoutsOn(R, L - 1, quantityById', C!Nothing)
    BY <1>6, <2>1, <2>2, <2>3, CheckoutsFirst
  <2>5. CheckoutsOn(R, Len(before), quantityById', C!Nothing)
    BY <2>1, <2>4
  <2>6. QED
    BY <1>1, <1>5, <2>5, WayNothing DEF R
<1>7. CASE m.type = "ADD_TO_CART"
  <2> DEFINE p == m.productId
  <2>1. p \in Product /\ m.ahead \in Nat
    BY <1>4, <1>7 DEF CartMessage, Requests, ShopMessage
  <2>2. inventory \in [Product -> Int]
    <3>1. ~NothingAdded(bus, queue)
      BY <1>3, <1>7 DEF NothingAdded
    <3>2. QED
      BY <1>2, <3>1 DEF CartWay, CartTypes
  <2>3. inventory # <<>>
    BY <2>1, <2>2
  <2>4. inventory' = [inventory EXCEPT ![p] = @ - 1]
    BY <1>1, <1>7
  <2>5. inventory' \in [Product -> Int] /\ inventory' # <<>>
        /\ \A q \in Product : inventory'[q] = IF q = p THEN inventory[q] - 1 ELSE inventory[q]
    BY <2>1, <2>2, <2>4
  <2>6. /\ addedIds' = IF p \in C!ToSet(addedIds) THEN addedIds ELSE Append(addedIds, p)
        /\ quantityById' = [quantityById EXCEPT ![p] = @ + 1]
    BY <1>1, <1>7 DEF C!reduceCart, C!action
  <2> HIDE DEF p
  <2>7. addedIds \in Seq(Product) /\ quantityById \in [Product -> Nat]
    BY <1>2 DEF CartTypes
  <2>8. /\ addedIds' \in Seq(Product)
        /\ \A q : q \in C!ToSet(addedIds') <=> q \in C!ToSet(addedIds) \/ q = p
    <3>1. CASE p \in C!ToSet(addedIds)
      BY <2>6, <2>7, <3>1
    <3>2. CASE p \notin C!ToSet(addedIds)
      <4>1. addedIds' = Append(addedIds, p)
        BY <2>6, <3>2
      <4>2. /\ addedIds' \in Seq(Product) /\ Len(addedIds') = Len(addedIds) + 1
            /\ \A k \in 1..Len(addedIds) : addedIds'[k] = addedIds[k]
            /\ addedIds'[Len(addedIds) + 1] = p
        BY <2>1, <2>7, <4>1, AppendProperties
      <4>3. DOMAIN addedIds = 1..Len(addedIds) /\ Len(addedIds) \in Nat
            /\ DOMAIN addedIds' = 1..(Len(addedIds) + 1)
        BY <2>7, <4>2, LenProperties
      <4>4. \A k \in DOMAIN addedIds' : k \in DOMAIN addedIds \/ k = Len(addedIds) + 1
        BY <4>3
      <4>5. Len(addedIds) + 1 \in DOMAIN addedIds' /\ DOMAIN addedIds \subseteq DOMAIN addedIds'
        BY <4>3
      <4>6. \A q : q \in C!ToSet(addedIds) <=> \E k \in DOMAIN addedIds : addedIds[k] = q
        BY DEF C!ToSet
      <4>7. \A q : q \in C!ToSet(addedIds') <=> \E k \in DOMAIN addedIds' : addedIds'[k] = q
        BY DEF C!ToSet
      <4>8. QED
        BY <4>2, <4>3, <4>4, <4>5, <4>6, <4>7
    <3>3. QED
      BY <3>1, <3>2
  <2>9. /\ quantityById' \in [Product -> Nat]
        /\ \A q \in Product : quantityById'[q] = IF q = p THEN quantityById[q] + 1 ELSE quantityById[q]
    BY <2>1, <2>6, <2>7
  <2>10. CartTypes'
    <3>1. \A q \in Product : q \in C!ToSet(addedIds) <=> quantityById[q] > 0
      BY <1>2 DEF CartTypes
    <3>2. \A q \in Product : q \in C!ToSet(addedIds') <=> quantityById'[q] > 0
      BY <2>7, <2>8, <2>9, <3>1
    <3>3. shop' \in Seq(ShopMessage)
      BY <1>1, <1>2 DEF CartTypes
    <3>4. (C!ToSet(addedIds))' = C!ToSet(addedIds')
      BY DEF C!ToSet
    <3>5. QED
      BY <2>5, <2>8, <2>9, <3>2, <3>3, <3>4 DEF CartTypes
  <2>11. CheckoutsWay'
    <3>1. \A q \in Product : m \in Additions(q) <=> q = p
      BY <1>4, <1>7, <2>1 DEF Additions, CartMessage, Requests, ShopMessage, p
    <3>2. \A q \in Product :
             quantityById'[q] = quantityById[q] + (IF m \in Additions(q) THEN 1 ELSE 0)
      BY <2>7, <2>9, <3>1
    <3>3. QED
      BY <1>6, <2>9, <3>2
  <2>12. /\ m = bus[1] /\ 1 \in DOMAIN bus
         /\ inventory[p] + m.ahead > Upto(Adds(bus, p), 0)
    <3>1. inventory[bus[1].productId] + bus[1].ahead > Upto(Adds(bus, bus[1].productId), 1 - 1)
      BY <1>2, <1>3, <1>7 DEF CartWay, AddsBehind
    <3>2. QED
      BY <1>3, <3>1 DEF p
  <2>13. C!AddedBehind
    <3>1. Upto(Adds(bus, p), 0) = 0
      BY UptoGrows
    <3>2. inventory'[p] >= 0 - m.ahead
      BY <2>1, <2>2, <2>5, <2>12, <3>1
    <3>3. \A q \in DOMAIN inventory : inventory'[q] < inventory[q] => q = p
      BY <2>2, <2>5
    <3>4. C!action = m
      BY DEF C!action
    <3>5. QED
      BY <3>2, <3>3, <3>4 DEF C!AddedBehind
  <2>14. ASSUME NEW k \in DOMAIN before, before[k].type = "ADD_TO_CART"
         PROVE  inventory'[before[k].productId] + before[k].ahead
                   > Upto(Adds(before, before[k].productId), k - 1)
    <3> DEFINE q == before[k].productId
               u == Upto(Adds(bus, q), k)
    <3>1. k + 1 \in DOMAIN bus /\ before[k] = bus[k + 1] /\ k - 1 \in 0..(Len(bus) - 1)
          /\ (k - 1) + 1 = k /\ (k + 1) - 1 = k /\ k \in Nat
      BY <1>3
    <3>2. inventory[bus[k + 1].productId] + bus[k + 1].ahead
             > Upto(Adds(bus, bus[k + 1].productId), (k + 1) - 1)
      BY <1>2, <2>14, <3>1 DEF CartWay, AddsBehind
    <3>3. inventory[q] + before[k].ahead > u
      BY <3>1, <3>2
    <3>4. q \in Product /\ before[k].ahead \in Nat
      <4>1. before[k] \in CartMessage \cup ThunkMessage
        BY <1>2, <3>1, ElementOfSeq, <1>3
      <4>2. before[k] \in CartMessage
        BY <2>14, <4>1 DEF ThunkMessage
      <4>3. QED
        BY <2>14, <4>2 DEF CartMessage, Requests, ShopMessage
    <3> HIDE DEF q, u
    <3>5. Upto(Adds(before, q), k - 1) = Upto(Adds(bus, q), (k - 1) + 1) -
             (IF m.type = "ADD_TO_CART" /\ m.productId = q THEN 1 ELSE 0)
      BY <1>1, <1>2, <3>1, AddsTail
    <3>6. Upto(Adds(before, q), k - 1) = u - (IF p = q THEN 1 ELSE 0)
      BY <1>7, <3>1, <3>5 DEF p, u
    <3>7. u \in Nat
      BY <3>1, UptoGrows DEF u
    <3>8. inventory'[q] = IF q = p THEN inventory[q] - 1 ELSE inventory[q]
      BY <2>5, <3>4
    <3>9. inventory[q] \in Int
      BY <2>2, <3>4
    <3>10. inventory'[q] + before[k].ahead > Upto(Adds(before, q), k - 1)
      BY <3>3, <3>4, <3>6, <3>7, <3>8, <3>9
    <3>11. QED
      BY <3>10 DEF q
  <2>15. CartWay(before, queue, shop', inventory')
    <3>1. HasLoaded(bus, queue, shop)
      BY <1>2, <2>3 DEF CartWay
    <3>2. Receiving(before) = {}
      BY <1>1, <1>2, <3>1, ReceivingBehind DEF CartWay, LoadsOnce, HasLoaded
    <3>3. HasLoaded(before, queue, shop')
      BY <1>1, <3>1, <3>2 DEF HasLoaded
    <3>4. QED
      BY <2>5, <2>14, <3>3 DEF CartWay, AddsBehind, LoadsOnce, HasLoaded
  <2> HIDE DEF before, m
  <2>16. /\ Kept(bus', queue', guids', CartMessage, CartThunk)
         /\ CartWay(bus', queue', shop', inventory')
    BY <1>1, <1>5, <2>15, CartNothing
  <2>17. QED
    BY <2>10, <2>11, <2>13, <2>16 DEF CartInv
<1>8. CASE m.type # "ADD_TO_CART"
  <2>1. /\ CartWay(before, queue, shop, inventory)
        /\ m.type = "RECEIVE_PRODUCTS" => inventory = <<>> /\ HasLoaded(before, queue, shop)
    BY <1>1, <1>2, <1>8, CartBehind
  <2>2. m.type # "RECEIVE_PRODUCTS" => inventory' = inventory
    BY <1>1, <1>8
  <2>3. m.type = "RECEIVE_PRODUCTS" => inventory' = Stock
    BY <1>1
  <2>4. Stock \in [Product -> Nat]
    BY DEF C!CartAssumption
  <2>5. CartWay(before, queue, shop', inventory')
    <3>1. CASE m.type = "RECEIVE_PRODUCTS"
      <4>1. HasLoaded(before, queue, shop) /\ NothingAdded(before, queue)
        BY <2>1, <3>1 DEF CartWay
      <4>2. AddsBehind(before, inventory')
        BY <4>1 DEF NothingAdded, AddsBehind
      <4>3. QED
        BY <1>1, <4>1, <4>2 DEF CartWay, LoadsOnce, HasLoaded
    <3>2. CASE m.type # "RECEIVE_PRODUCTS"
      BY <1>1, <2>1, <2>2, <3>2
    <3>3. QED
      BY <3>1, <3>2
  <2>6. CartTypes' /\ CheckoutsWay'
    <3>1. /\ addedIds \in Seq(Product) /\ quantityById \in [Product -> Nat]
          /\ C!Nothing = [p \in Product |-> 0] /\ C!Nothing \in [Product -> Nat]
          /\ shop' = shop /\ shop \in Seq(ShopMessage)
          /\ \A p \in Product : p \in C!ToSet(addedIds) <=> quantityById[p] > 0
      BY <1>1, <1>2 DEF CartTypes, C!Nothing
    <3>2. \A p : m \notin Additions(p)
      BY <1>8 DEF Additions
    <3>3. inventory' = <<>> \/ inventory' \in [Product -> Int]
      BY <1>2, <2>2, <2>3, <2>4 DEF CartTypes
    <3>4. (C!ToSet(addedIds))' = C!ToSet(addedIds') /\ C!Nothing' = C!Nothing
      BY DEF C!ToSet, C!Nothing
    <3>5. CASE m.type = "CHECKOUT_REQUEST"
      <4>1. addedIds' = <<>> /\ quantityById' = C!Nothing
        BY <1>1, <3>5 DEF C!reduceCart, C!action, C!initialQuantities
      <4>2. C!ToSet(addedIds') = {}
        BY <4>1 DEF C!ToSet
      <4>3. m \in Requests
        BY <1>4, <3>5 DEF CartMessage, ShopMessage
      <4>4. CheckoutsWay'
        BY <1>6, <3>1, <4>1, <4>3
      <4>5. \A p \in Product : p \in C!ToSet(addedIds') <=> quantityById'[p] > 0
        BY <3>1, <4>1, <4>2
      <4>6. addedIds' \in Seq(Product) /\ quantityById' \in [Product -> Nat]
        BY <3>1, <4>1
      <4>7. CartTypes'
        BY <3>1, <3>3, <3>4, <4>1, <4>5, <4>6 DEF CartTypes
      <4>8. QED
        BY <4>4, <4>7
    <3>6. CASE m.type # "CHECKOUT_REQUEST"
      <4>1. addedIds' = addedIds /\ quantityById' = quantityById
        BY <1>1, <1>8, <3>6 DEF C!reduceCart, C!action, C!cart
      <4>2. \A p \in Product :
               quantityById'[p] = quantityById[p] + (IF m \in Additions(p) THEN 1 ELSE 0)
        BY <3>1, <3>2, <4>1
      <4>3. CheckoutsWay'
        BY <1>6, <3>1, <4>1, <4>2
      <4>4. inventory' = <<>> => addedIds' = <<>> /\ quantityById' = C!Nothing
        BY <1>2, <2>1, <2>2, <4>1 DEF CartTypes
      <4>5. CartTypes'
        BY <3>1, <3>3, <3>4, <4>1, <4>4 DEF CartTypes
      <4>6. QED
        BY <4>3, <4>5
    <3>7. QED
      BY <3>5, <3>6
  <2>7. C!AddedBehind
    <3>1. \A q \in DOMAIN inventory : ~(inventory'[q] < inventory[q])
      <4>1. CASE inventory = <<>>
        BY <4>1
      <4>2. CASE inventory # <<>>
        <5>1. inventory \in [Product -> Int] /\ inventory' = inventory
          BY <1>2, <2>1, <2>2, <4>2 DEF CartTypes
        <5>2. QED
          BY <5>1
      <4>3. QED
        BY <4>1, <4>2
    <3>2. QED
      BY <3>1 DEF C!AddedBehind
  <2> HIDE DEF before, m
  <2>8. /\ Kept(bus', queue', guids', CartMessage, CartThunk)
        /\ CartWay(bus', queue', shop', inventory')
    BY <1>1, <1>5, <2>5, CartNothing
  <2>9. QED
    BY <2>6, <2>7, <2>8 DEF CartInv
<1>9. QED
  BY <1>7, <1>8

LEMMA CartNextKeeps ==
    ASSUME CartInv, C!CartAssumption, C!CartNext
    PROVE  CartInv' /\ C!AddedBehind
<1>1. CASE C!Reduce
  BY <1>1, CartReduced
<1>2. ASSUME inventory' = inventory
      PROVE  C!AddedBehind
  <2>1. \A q \in DOMAIN inventory : inventory[q] \in Int
    BY DEF CartInv, CartTypes
  <2>2. QED
    BY <1>2, <2>1 DEF C!AddedBehind
<1>3. CASE C!ClickCheckout \/ \E p \in Product : C!ClickAddToCart(p)
  <2>1. CartInv'
    BY <1>3, CartClicks
  <2>2. inventory' = inventory
    BY <1>3 DEF C!ClickCheckout, C!ClickAddToCart, C!Click, C!products
  <2>3. QED
    BY <1>2, <2>1, <2>2
<1>4. CASE C!RunThunk
  BY <1>2, <1>4, CartThunks DEF C!RunThunk, C!products
<1>5. CASE C!ShopAnswers
  BY <1>2, <1>5, CartAnswers DEF C!ShopAnswers, C!products
<1>6. QED
  BY <1>1, <1>3, <1>4, <1>5 DEF C!CartNext

-----------------------------------------------------------------------------
(* Paging *)

LEMMA PagingDispatch ==
    ASSUME NEW actions, NEW before, NEW left, P!Dispatch(actions, before, left)
    PROVE  S!Dispatch(actions, before, left)
  BY Zenon DEF P!Dispatch, S!Dispatch, P!NewIds, S!NewIds, P!IsThunk, S!IsThunk,
     P!Cardinality, S!Cardinality

Pagination == [isFetching : BOOLEAN, nextPageUrl : Nat, pageCount : Nat, ids : Seq(Nat)]

(* The pages of a key that were asked for: one of those that came or the   *)
(* next, and the server has it.                                            *)
Fetchable(pag, k) == {n \in Nat \ {0} : n <= Len(pag[k].ids) + 1 /\ n <= Pages[k]}

PagingCall(pag) ==
    [type : {"entity"}, key : P!Key \cup {Nowhere}, url : {1}] \cup
    {c \in [type : {"pages"}, key : P!Key, url : Nat] : c.url \in Fetchable(pag, c.key)}

PagingMessage(pag) ==
    [type : {"REQUEST", "SUCCESS", "FAILURE"}, of : {"entity"}, key : P!Key \cup {Nowhere}, url : {1}]
    \cup {m \in [type : {"REQUEST", "SUCCESS", "FAILURE"}, of : {"pages"}, key : P!Key, url : Nat] :
             m.url \in Fetchable(pag, m.key)}
    \cup [type : {"RESET_ERROR_MESSAGE", "Bus.Error"}]

PagingThunk ==
    [run : {"loadEntity"}, key : P!Key \cup {Nowhere}] \cup
    [run : {"loadPages"}, key : P!Key, nextPage : BOOLEAN]

LEMMA PagingActions == ASSUME NEW pag PROVE Actions(PagingMessage(pag), PagingThunk)
<1>1. \A m \in PagingMessage(pag) : m.type # "ABus.Thunk" /\ "run" \notin DOMAIN m
  BY DEF PagingMessage
<1>2. \A t \in PagingThunk : "run" \in DOMAIN t
  BY DEF PagingThunk
<1>3. QED
  BY <1>1, <1>2 DEF Actions

(* No page is listed that the server does not have. *)
PagesListed(p, k) ==
    /\ p \in Pagination
    /\ p.ids = [n \in 1..Len(p.ids) |-> n]
    /\ Len(p.ids) <= Pages[k]
    /\ p.nextPageUrl <= Len(p.ids) + 1
    /\ p.nextPageUrl <= Pages[k]
    /\ p.nextPageUrl = 0 => Len(p.ids) = Pages[k]

PagingState ==
    /\ DOMAIN pagination = P!Key
    /\ \A k \in P!Key : PagesListed(pagination[k], k)

PagingInv ==
    /\ PagingState
    /\ calls \in Seq(PagingCall(pagination))
    /\ Kept(bus, queue, guids, PagingMessage(pagination), PagingThunk)

(* What was asked for stays so while more pages come. *)
LEMMA FetchableGrows ==
    ASSUME NEW pag, NEW pag1,
           \A k \in P!Key : Len(pag[k].ids) \in Nat /\ Len(pag1[k].ids) \in Nat
                            /\ Len(pag[k].ids) <= Len(pag1[k].ids)
    PROVE  /\ PagingCall(pag) \subseteq PagingCall(pag1)
           /\ PagingMessage(pag) \subseteq PagingMessage(pag1)
<1>1. \A k \in P!Key : Fetchable(pag, k) \subseteq Fetchable(pag1, k)
  BY DEF Fetchable
<1>2. PagingCall(pag) \subseteq PagingCall(pag1)
  BY <1>1 DEF PagingCall
<1>3. PagingMessage(pag) \subseteq PagingMessage(pag1)
  <2> SUFFICES ASSUME NEW m \in PagingMessage(pag) PROVE m \in PagingMessage(pag1)
    OBVIOUS
  <2>1. CASE m \in [type : {"REQUEST", "SUCCESS", "FAILURE"}, of : {"pages"}, key : P!Key, url : Nat]
             /\ m.url \in Fetchable(pag, m.key)
    BY <1>1, <2>1 DEF PagingMessage
  <2>2. CASE m \notin [type : {"REQUEST", "SUCCESS", "FAILURE"}, of : {"pages"}, key : P!Key, url : Nat]
             \/ m.url \notin Fetchable(pag, m.key)
    BY <2>2 DEF PagingMessage
  <2>3. QED
    BY <2>1, <2>2
<1>4. QED
  BY <1>2, <1>3

LEMMA SeqGrows ==
    ASSUME NEW X, NEW Y, X \subseteq Y, NEW q \in Seq(X)
    PROVE  q \in Seq(Y)
<1>1. Len(q) \in Nat /\ q \in [1..Len(q) -> X]
  BY LenProperties
<1>2. q \in [1..Len(q) -> Y]
  BY <1>1
<1>3. QED
  BY <1>1, <1>2, SeqDef

LEMMA KeptGrows ==
    ASSUME NEW B, NEW Q, NEW g, NEW M, NEW N, NEW F, M \subseteq N, Kept(B, Q, g, M, F)
    PROVE  Kept(B, Q, g, N, F)
<1>1. B \in Seq(M \cup ThunkMessage)
  BY DEF Kept
<1>2. M \cup ThunkMessage \subseteq N \cup ThunkMessage
  OBVIOUS
<1>3. B \in Seq(N \cup ThunkMessage)
  BY <1>1, <1>2, SeqGrows
<1>4. QED
  BY <1>3 DEF Kept

(* What was dispatched is on the bus or in the queue. *)
LEMMA PagingSent ==
    ASSUME pagination' = pagination, NEW before, NEW left,
           Kept(before, left, guids, PagingMessage(pagination), PagingThunk),
           NEW actions \in Seq(PagingMessage(pagination) \cup PagingThunk),
           P!Dispatch(actions, before, left)
    PROVE  Kept(bus', queue', guids', PagingMessage(pagination'), PagingThunk)
<1>1. S!Dispatch(actions, before, left)
  BY PagingDispatch
<1>2. Actions(PagingMessage(pagination), PagingThunk)
  BY PagingActions
<1>3. Kept(bus', queue', guids', PagingMessage(pagination), PagingThunk)
  BY <1>1, <1>2, DispatchKeeps
<1>4. QED
  BY <1>3

(* A page is opened, a button clicked, a test user loaded or a call        *)
(* answered.                                                               *)
LEMMA PagingWaits ==
    ASSUME PagingInv, pagination' = pagination, calls' \in Seq(PagingCall(pagination)),
           NEW actions \in Seq(PagingMessage(pagination) \cup PagingThunk),
           P!Dispatch(actions, bus, queue)
    PROVE  PagingInv'
<1>1. Kept(bus', queue', guids', PagingMessage(pagination'), PagingThunk)
  BY PagingSent DEF PagingInv
<1>2. PagingState'
  BY DEF PagingInv, PagingState, PagesListed
<1>3. calls' \in Seq(PagingCall(pagination'))
  OBVIOUS
<1>4. QED
  BY <1>1, <1>2, <1>3 DEF PagingInv

LEMMA PagingVisits ==
    ASSUME PagingInv, P!PagingAssumption, NEW k \in P!Key, P!Visit(k) \/ P!ClickLoadMore(k)
    PROVE  PagingInv'
<1> DEFINE A == PagingMessage(pagination) \cup PagingThunk
<1>1. /\ pagination' = pagination /\ calls' = calls /\ calls \in Seq(PagingCall(pagination))
  BY DEF P!Visit, P!ClickLoadMore, P!state, PagingInv
<1>2. ASSUME NEW j \in P!Key
      PROVE  P!Loaded(j) \in Seq(A)
  <2>1. P!loadEntity(j) \in PagingThunk /\ P!loadPages(j, FALSE) \in PagingThunk
    BY DEF P!loadEntity, P!loadPages, PagingThunk
  <2> DEFINE t == P!loadEntity(j)
             u == P!loadPages(j, FALSE)
  <2>2. <<>> \in Seq(A) /\ <<t, u>> \in Seq(A)
    <3>1. t \in PagingThunk /\ u \in PagingThunk
      BY <2>1
    <3> HIDE DEF t, u
    <3>2. QED
      BY <3>1
  <2>3. QED
    BY <2>2 DEF P!Loaded, P!loadData
<1>3. CASE P!Visit(k)
  <2>1. k \in Repo => Owner[k] \in P!Key
    BY DEF P!PagingAssumption, P!Key
  <2> DEFINE actions == IF k \in Repo THEN P!Loaded(k) \o P!Loaded(Owner[k]) ELSE P!Loaded(k)
  <2>2. CASE k \in Repo
    <3>1. P!Loaded(k) \in Seq(A) /\ P!Loaded(Owner[k]) \in Seq(A)
      BY <1>2, <2>1, <2>2
    <3> HIDE DEF A
    <3>2. P!Loaded(k) \o P!Loaded(Owner[k]) \in Seq(A)
      BY <3>1, ConcatProperties
    <3>3. QED
      BY <1>1, <1>3, <2>2, <3>2, PagingWaits DEF A, P!Visit, P!Dispatched
  <2>3. CASE k \notin Repo
    BY <1>1, <1>2, <1>3, <2>3, PagingWaits DEF P!Visit, P!Dispatched
  <2>4. QED
    BY <2>2, <2>3
<1>4. CASE P!ClickLoadMore(k)
  <2>1. P!loadPages(k, TRUE) \in PagingThunk
    BY DEF P!loadPages, PagingThunk
  <2> DEFINE t == P!loadPages(k, TRUE)
  <2>2. t \in PagingThunk /\ P!Dispatch(<<t>>, bus, queue)
    BY <1>4, <2>1 DEF P!ClickLoadMore, P!Dispatched
  <2> HIDE DEF t
  <2>3. <<t>> \in Seq(A)
    BY <2>2
  <2>4. QED
    BY <1>1, <2>2, <2>3, PagingWaits
<1>5. QED
  BY <1>3, <1>4

LEMMA PagingClicks ==
    ASSUME PagingInv, P!ClickDismiss \/ P!LoadTestUser
    PROVE  PagingInv'
<1> DEFINE A == PagingMessage(pagination) \cup PagingThunk
<1>1. /\ pagination' = pagination /\ calls' = calls /\ calls \in Seq(PagingCall(pagination))
  BY DEF P!ClickDismiss, P!LoadTestUser, P!state, PagingInv
<1>2. CASE P!ClickDismiss
  <2> DEFINE m == [type |-> "RESET_ERROR_MESSAGE"]
  <2>1. m \in PagingMessage(pagination)
    BY DEF PagingMessage
  <2>2. P!Dispatch(<<m>>, bus, queue)
    BY <1>2 DEF P!ClickDismiss, P!Dispatched
  <2> HIDE DEF m
  <2>3. <<m>> \in Seq(A)
    BY <2>1
  <2>4. QED
    BY <1>1, <2>2, <2>3, PagingWaits
<1>3. CASE P!LoadTestUser
  <2>1. P!loadEntity(Nowhere) \in PagingThunk
    BY DEF P!loadEntity, PagingThunk
  <2>2. <<P!loadEntity(Nowhere)>> \in Seq(A)
    BY <2>1
  <2>3. P!Dispatch(<<P!loadEntity(Nowhere)>>, bus, queue)
    BY <1>3 DEF P!LoadTestUser, P!Dispatched
  <2>4. QED
    BY <1>1, <2>2, <2>3, PagingWaits
<1>4. QED
  BY <1>2, <1>3

(* What is reported of a call asks for the same page. *)
LEMMA PagingReported ==
    ASSUME NEW pag, NEW call \in PagingCall(pag), NEW type \in {"REQUEST", "SUCCESS", "FAILURE"}
    PROVE  P!Reported(call, type) \in PagingMessage(pag)
<1> DEFINE m == P!Reported(call, type)
<1>1. m = [type |-> type, of |-> call.type, key |-> call.key, url |-> call.url]
  BY DEF P!Reported
<1>2. CASE call \in [type : {"entity"}, key : P!Key \cup {Nowhere}, url : {1}]
  <2>1. m \in [type : {"REQUEST", "SUCCESS", "FAILURE"}, of : {"entity"}, key : P!Key \cup {Nowhere}, url : {1}]
    BY <1>1, <1>2
  <2>2. QED
    BY <2>1 DEF PagingMessage
<1>3. CASE call \in [type : {"pages"}, key : P!Key, url : Nat] /\ call.url \in Fetchable(pag, call.key)
  <2>1. m \in [type : {"REQUEST", "SUCCESS", "FAILURE"}, of : {"pages"}, key : P!Key, url : Nat]
    BY <1>1, <1>3
  <2>2. m.url \in Fetchable(pag, m.key)
    BY <1>1, <1>3
  <2>3. QED
    BY <2>1, <2>2 DEF PagingMessage
<1>4. QED
  BY <1>2, <1>3 DEF PagingCall

LEMMA PagingAnswers ==
    ASSUME PagingInv, P!AnyAnswer
    PROVE  PagingInv'
<1> DEFINE A == PagingMessage(pagination) \cup PagingThunk
           X == PagingCall(pagination)
<1>1. PICK n \in DOMAIN calls, outcome \in {"SUCCESS", "FAILURE"} : P!Answer(n, outcome)
  BY DEF P!AnyAnswer
<1>2. /\ pagination' = pagination /\ calls' = P!RemoveAt(calls, n)
      /\ P!Dispatch(<<P!Reported(calls[n], outcome)>>, bus, queue)
  BY <1>1 DEF P!Answer, P!state, P!Dispatched
<1>3. calls \in Seq(X) /\ DOMAIN calls = 1..Len(calls) /\ Len(calls) \in Nat /\ calls[n] \in X
  BY LenProperties, ElementOfSeq DEF PagingInv
<1> HIDE DEF X
<1>4. calls' \in Seq(X)
  <2>1. calls' = SubSeq(calls, 1, n - 1) \o SubSeq(calls, n + 1, Len(calls))
    BY <1>2 DEF P!RemoveAt
  <2>2. n \in 1..Len(calls)
    BY <1>3
  <2>3. SubSeq(calls, 1, n - 1) \in Seq(X) /\ SubSeq(calls, n + 1, Len(calls)) \in Seq(X)
    BY <1>3, <2>2, SubSeqProperties
  <2>4. QED
    BY <2>1, <2>3, ConcatProperties
<1>5. P!Reported(calls[n], outcome) \in PagingMessage(pagination)
  BY <1>1, <1>3, PagingReported DEF X
<1>6. <<P!Reported(calls[n], outcome)>> \in Seq(A)
  BY <1>5
<1>7. QED
  BY <1>2, <1>4, <1>6, PagingWaits DEF X

(* What the function of a thunk dispatches comes behind the bus. *)
LEMMA PagingRan ==
    ASSUME PagingInv, P!ReceivedThunk, pagination' = pagination,
           calls' \in Seq(PagingCall(pagination)),
           NEW actions \in Seq(PagingMessage(pagination) \cup PagingThunk),
           P!ThunkDispatches(actions)
    PROVE  PagingInv'
<1> DEFINE before == Tail(bus)
           left == [id \in DOMAIN queue \ {Head(bus).thunkId} |-> queue[id]]
<1>1. P!Dispatch(actions, before, left)
  BY DEF P!ThunkDispatches
<1>2. Kept(before, left, guids, PagingMessage(pagination), PagingThunk)
  BY KeptBehindThunk DEF PagingInv, P!ReceivedThunk
<1> HIDE DEF before, left
<1>3. Kept(bus', queue', guids', PagingMessage(pagination'), PagingThunk)
  BY <1>1, <1>2, PagingSent
<1>4. PagingState'
  BY DEF PagingInv, PagingState, PagesListed
<1>5. calls' \in Seq(PagingCall(pagination'))
  OBVIOUS
<1>6. QED
  BY <1>3, <1>4, <1>5 DEF PagingInv

(* A call that has an endpoint is one of those the server knows. *)
LEMMA PagingApi ==
    ASSUME PagingInv, P!ReceivedThunk, pagination' = pagination,
           NEW call, call.url # 0 => call \in PagingCall(pagination), P!api(call)
    PROVE  PagingInv'
<1> DEFINE A == PagingMessage(pagination) \cup PagingThunk
           X == PagingCall(pagination)
<1>1. calls \in Seq(X)
  BY DEF PagingInv
<1>2. CASE call.url = 0
  <2> DEFINE m == [type |-> "Bus.Error"]
  <2>1. m \in PagingMessage(pagination)
    BY DEF PagingMessage
  <2>2. P!ThunkDispatches(<<m>>) /\ calls' = calls
    BY <1>2 DEF P!api, P!Null
  <2> HIDE DEF m
  <2>3. <<m>> \in Seq(A)
    BY <2>1
  <2>4. QED
    BY <1>1, <2>2, <2>3, PagingRan
<1>3. CASE call.url # 0
  <2>1. P!ThunkDispatches(<<P!Reported(call, "REQUEST")>>) /\ calls' = Append(calls, call)
    BY <1>3 DEF P!api, P!Null
  <2>2. P!Reported(call, "REQUEST") \in PagingMessage(pagination)
    BY <1>3, PagingReported
  <2>3. <<P!Reported(call, "REQUEST")>> \in Seq(A)
    BY <2>2
  <2> HIDE DEF X
  <2>4. calls' \in Seq(X)
    BY <1>1, <1>3, <2>1, AppendProperties DEF X
  <2>5. QED
    BY <2>1, <2>3, <2>4, PagingRan DEF X
<1>4. QED
  BY <1>2, <1>3

LEMMA PagingThunks ==
    ASSUME PagingInv, P!RunThunk
    PROVE  PagingInv'
<1> DEFINE t == P!thunk
<1>1. /\ P!ReceivedThunk /\ pagination' = pagination
      /\ P!RunLoadEntity \/ P!RunLoadStarred \/ P!RunLoadStargazers
  BY DEF P!RunThunk, P!state
<1>2. t \in PagingThunk
  <2>1. Head(bus).thunkId \in DOMAIN queue
    BY <1>1, KeptBehindThunk DEF PagingInv, P!ReceivedThunk
  <2>2. QED
    BY <2>1 DEF PagingInv, Kept, P!thunk
<1> HIDE DEF t
<1>3. /\ t.run = "loadEntity" => t.key \in P!Key \cup {Nowhere}
      /\ t.run = "loadPages" => t.key \in P!Key
  BY <1>2 DEF PagingThunk
<1>4. CASE calls' = calls /\ P!ThunkDispatches(<<>>)
  <2> DEFINE none == <<>>
  <2>1. none \in Seq(PagingMessage(pagination) \cup PagingThunk) /\ P!ThunkDispatches(none)
    BY <1>4
  <2>2. calls' \in Seq(PagingCall(pagination))
    BY <1>4 DEF PagingInv
  <2> HIDE DEF none
  <2>3. QED
    BY <1>1, <2>1, <2>2, PagingRan
<1>5. CASE P!RunLoadEntity
  <2>1. CASE t.key \in full
    BY <1>4, <1>5, <2>1 DEF P!RunLoadEntity, t
  <2>2. CASE t.key \notin full
    <3> DEFINE call == P!Call("entity", t.key, P!First)
    <3>1. P!api(call) /\ t.run = "loadEntity"
      BY <1>5, <2>2 DEF P!RunLoadEntity, t
    <3>2. call = [type |-> "entity", key |-> t.key, url |-> 1]
      BY DEF P!Call, P!First
    <3>3. call \in PagingCall(pagination)
      BY <1>3, <3>1, <3>2 DEF PagingCall
    <3> HIDE DEF call
    <3>4. QED
      BY <1>1, <3>1, <3>3, PagingApi
  <2>3. QED
    BY <2>1, <2>2
<1>6. CASE t.run = "loadPages" /\ P!api(P!Call("pages", t.key, pagination[t.key].nextPageUrl))
  <2> DEFINE n == pagination[t.key].nextPageUrl
             call == P!Call("pages", t.key, n)
  <2>1. t.key \in P!Key
    BY <1>3, <1>6
  <2>2. PagesListed(pagination[t.key], t.key)
    BY <2>1 DEF PagingInv, PagingState
  <2>3. n \in Nat /\ n <= Len(pagination[t.key].ids) + 1 /\ n <= Pages[t.key]
    BY <2>2 DEF PagesListed, Pagination
  <2>4. n # 0 => n \in Fetchable(pagination, t.key)
    BY <2>3 DEF Fetchable
  <2> HIDE DEF n
  <2>5. call = [type |-> "pages", key |-> t.key, url |-> n]
    BY DEF P!Call
  <2>6. call.url # 0 => call \in PagingCall(pagination)
    BY <2>1, <2>3, <2>4, <2>5 DEF PagingCall
  <2>7. P!api(call)
    BY <1>6 DEF n
  <2> HIDE DEF call
  <2>8. QED
    BY <1>1, <2>6, <2>7, PagingApi
<1>7. CASE P!RunLoadStarred
  <2>1. t.run = "loadPages" /\
        (\/ P!ThunkDispatches(<<>>) /\ calls' = calls
         \/ P!api(P!Call("pages", t.key, pagination[t.key].nextPageUrl)))
    BY <1>7 DEF P!RunLoadStarred, t
  <2>2. QED
    BY <1>4, <1>6, <2>1
<1>8. CASE P!RunLoadStargazers
  BY <1>6, <1>8 DEF P!RunLoadStargazers, t
<1>9. QED
  BY <1>1, <1>5, <1>7, <1>8

(* One more answer keeps the pages in their order. *)
LEMMA PageListed ==
    ASSUME NEW k, Pages[k] \in Nat \ {0}, NEW p, PagesListed(p, k), NEW n \in Nat \ {0},
           n <= Len(p.ids) + 1, n <= Pages[k], NEW ids, ids = P!Union(p.ids, n)
    PROVE  /\ ids \in Seq(Nat) /\ ids = [i \in 1..Len(ids) |-> i]
           /\ Len(ids) \in Nat /\ Len(p.ids) <= Len(ids) /\ n <= Len(ids) /\ Len(ids) <= Pages[k]
<1>1. /\ p.ids \in Seq(Nat) /\ p.ids = [i \in 1..Len(p.ids) |-> i] /\ Len(p.ids) \in Nat
      /\ Len(p.ids) <= Pages[k]
  BY LenProperties DEF PagesListed, Pagination
<1> DEFINE q == p.ids
<1>2. q \in Seq(Nat) /\ q = [i \in 1..Len(q) |-> i] /\ Len(q) \in Nat /\ Len(q) <= Pages[k]
      /\ n <= Len(q) + 1 /\ ids = P!Union(q, n)
  BY <1>1
<1> HIDE DEF q
<1>3. P!ToSet(q) = 1..Len(q)
  <2>1. DOMAIN q = 1..Len(q) /\ \A i \in DOMAIN q : q[i] = i
    BY <1>2
  <2>2. P!ToSet(q) = {q[i] : i \in DOMAIN q}
    BY DEF P!ToSet
  <2>3. QED
    BY <2>1, <2>2
<1>4. CASE n <= Len(q)
  <2>1. n \in P!ToSet(q)
    BY <1>2, <1>3, <1>4
  <2>2. ids = P!Union(q, n)
    BY <1>2
  <2>3. ids = q
    BY Zenon, <2>1, <2>2 DEF P!Union
  <2>4. QED
    BY <1>2, <1>4, <2>3 DEF q
<1>5. CASE n = Len(q) + 1
  <2>1. ids = Append(q, n)
    BY <1>2, <1>3, <1>5 DEF P!Union
  <2>2. /\ ids \in Seq(Nat) /\ Len(ids) = Len(q) + 1
        /\ \A i \in 1..Len(q) : ids[i] = q[i]
        /\ ids[Len(q) + 1] = n
    BY <1>2, <2>1, AppendProperties
  <2>3. ids \in [1..(Len(q) + 1) -> Nat]
    BY <2>2, LenProperties
  <2>4. \A i \in 1..(Len(q) + 1) : ids[i] = i
    <3>1. \A i \in 1..Len(q) : q[i] = i
      BY <1>2
    <3>2. \A i \in 1..(Len(q) + 1) : i \in 1..Len(q) \/ i = Len(q) + 1
      BY <1>2
    <3>3. QED
      BY <1>5, <2>2, <3>1, <3>2
  <2>5. ids = [i \in 1..Len(ids) |-> i]
    BY <2>2, <2>3, <2>4
  <2>6. QED
    BY <1>2, <1>5, <2>2, <2>5 DEF q
<1>6. QED
  BY <1>2, <1>4, <1>5

LEMMA PagesPaginated ==
    ASSUME NEW k \in P!Key, Pages[k] \in Nat \ {0}, NEW p, PagesListed(p, k),
           P!action.type \in {"REQUEST", "SUCCESS", "FAILURE"}, P!action.key = k,
           P!action.url \in Nat \ {0}, P!action.url <= Len(p.ids) + 1, P!action.url <= Pages[k]
    PROVE  /\ PagesListed(P!Paginated(p), k)
           /\ Len(p.ids) \in Nat /\ Len(P!Paginated(p).ids) \in Nat
           /\ Len(p.ids) <= Len(P!Paginated(p).ids)
<1>1. p \in Pagination /\ p.ids \in Seq(Nat) /\ Len(p.ids) \in Nat
  BY LenProperties DEF PagesListed, Pagination
<1>2. CASE P!action.type # "SUCCESS"
  <2>1. \E b \in BOOLEAN : P!Paginated(p) = [p EXCEPT !.isFetching = b]
    BY <1>2 DEF P!Paginated, P!Failed
  <2>2. PICK b \in BOOLEAN : P!Paginated(p) = [p EXCEPT !.isFetching = b]
    BY <2>1
  <2> DEFINE q == P!Paginated(p)
  <2>3. q \in Pagination /\ q.ids = p.ids /\ q.nextPageUrl = p.nextPageUrl
    BY <1>1, <2>2 DEF Pagination
  <2> HIDE DEF q
  <2>4. PagesListed(q, k) /\ Len(q.ids) = Len(p.ids)
    BY <1>1, <2>3 DEF PagesListed
  <2>5. QED
    BY <1>1, <2>4 DEF q
<1>3. CASE P!action.type = "SUCCESS"
  <2> DEFINE n == P!action.url
             ids == P!Union(p.ids, n)
             next == P!NextPageUrl(k, n)
             q == P!Paginated(p)
  <2>1. q = [isFetching |-> FALSE, ids |-> ids, nextPageUrl |-> next, pageCount |-> p.pageCount + 1]
    BY <1>3 DEF P!Paginated
  <2>2. n \in Nat \ {0} /\ n <= Len(p.ids) + 1 /\ n <= Pages[k]
    OBVIOUS
  <2>3. next = IF n < Pages[k] THEN n + 1 ELSE 0
    BY DEF P!NextPageUrl, P!Null
  <2> HIDE DEF n, next, q
  <2>4. /\ ids \in Seq(Nat) /\ ids = [i \in 1..Len(ids) |-> i]
        /\ Len(ids) \in Nat /\ Len(p.ids) <= Len(ids) /\ n <= Len(ids) /\ Len(ids) <= Pages[k]
    BY <2>2, PageListed
  <2> HIDE DEF ids
  <2>5. /\ next \in Nat /\ next <= Len(ids) + 1 /\ next <= Pages[k]
        /\ next = 0 => Len(ids) = Pages[k]
    BY <2>2, <2>3, <2>4
  <2>6. p.pageCount + 1 \in Nat
    BY <1>1 DEF Pagination
  <2>7. q \in Pagination
    BY <2>1, <2>4, <2>5, <2>6 DEF Pagination
  <2>8. q.ids = ids /\ q.nextPageUrl = next
    BY <2>1
  <2>9. PagesListed(q, k)
    BY <2>4, <2>5, <2>7, <2>8 DEF PagesListed
  <2>10. QED
    BY <1>1, <2>4, <2>8, <2>9 DEF q
<1>4. QED
  BY <1>2, <1>3

LEMMA PagingReduced ==
    ASSUME PagingInv, P!PagingAssumption, P!Reduce
    PROVE  PagingInv'
<1> DEFINE m == Head(bus)
           before == Tail(bus)
<1>1. /\ bus # <<>> /\ m.type # "ABus.Thunk" /\ calls' = calls
      /\ P!Dispatch(<<>>, before, queue) /\ P!action = m
      /\ pagination' = IF m.type \in {"REQUEST", "SUCCESS", "FAILURE"} /\ m.of = "pages"
                       THEN [pagination EXCEPT ![m.key] = P!Paginated(@)] ELSE pagination
  BY DEF P!Reduce, P!Received, P!reducePagination, P!action
<1>2. /\ DOMAIN pagination = P!Key /\ \A k \in P!Key : PagesListed(pagination[k], k)
      /\ calls \in Seq(PagingCall(pagination))
      /\ bus \in Seq(PagingMessage(pagination) \cup ThunkMessage)
  BY DEF PagingInv, PagingState, Kept
<1>3. m \in PagingMessage(pagination)
  <2>1. m \in PagingMessage(pagination) \cup ThunkMessage
    BY <1>1, <1>2, Behind
  <2>2. QED
    BY <1>1, <2>1 DEF ThunkMessage
<1>4. Kept(before, queue, guids, PagingMessage(pagination), PagingThunk)
  BY <1>1, KeptBehind DEF PagingInv
<1> HIDE DEF m, before
<1>5. \A k \in P!Key : Len(pagination[k].ids) \in Nat
  BY <1>2, LenProperties DEF PagesListed, Pagination
<1>6. /\ DOMAIN pagination' = P!Key
      /\ \A k \in P!Key : /\ PagesListed(pagination'[k], k)
                          /\ Len(pagination'[k].ids) \in Nat
                          /\ Len(pagination[k].ids) <= Len(pagination'[k].ids)
  <2>1. CASE m.type \in {"REQUEST", "SUCCESS", "FAILURE"} /\ m.of = "pages"
    <3> DEFINE k == m.key
               p == pagination[k]
               q == P!Paginated(p)
    <3>1. k \in P!Key /\ m.url \in Fetchable(pagination, k)
      BY <1>3, <2>1 DEF PagingMessage
    <3>2. Pages[k] \in Nat \ {0}
      BY <3>1 DEF P!PagingAssumption
    <3>3. m.url \in Nat \ {0} /\ m.url <= Len(p.ids) + 1 /\ m.url <= Pages[k]
      BY <3>1 DEF Fetchable
    <3>4. PagesListed(p, k)
      BY <1>2, <3>1
    <3> HIDE DEF p
    <3>5. PagesListed(q, k) /\ Len(p.ids) \in Nat /\ Len(q.ids) \in Nat /\ Len(p.ids) <= Len(q.ids)
      BY <1>1, <2>1, <3>1, <3>2, <3>3, <3>4, PagesPaginated
    <3>6. pagination' = [pagination EXCEPT ![k] = q]
      BY <1>1, <2>1 DEF p
    <3> HIDE DEF q, k
    <3>7. DOMAIN pagination' = P!Key /\ pagination'[k] = q
          /\ \A j \in P!Key \ {k} : pagination'[j] = pagination[j]
      BY <1>2, <3>1, <3>6
    <3>8. QED
      BY <1>2, <1>5, <3>5, <3>7 DEF p
  <2>2. CASE ~(m.type \in {"REQUEST", "SUCCESS", "FAILURE"} /\ m.of = "pages")
    <3>1. pagination' = pagination
      BY <1>1, <2>2
    <3>2. QED
      BY <1>2, <1>5, <3>1
  <2>3. QED
    BY <2>1, <2>2
<1>7. /\ PagingCall(pagination) \subseteq PagingCall(pagination')
      /\ PagingMessage(pagination) \subseteq PagingMessage(pagination')
  BY <1>5, <1>6, FetchableGrows
<1>8. calls' \in Seq(PagingCall(pagination'))
  BY <1>1, <1>2, <1>7, SeqGrows
<1>9. Kept(before, queue, guids, PagingMessage(pagination'), PagingThunk)
  BY <1>4, <1>7, KeptGrows
<1>10. Kept(bus', queue', guids', PagingMessage(pagination'), PagingThunk)
  <2>1. S!Dispatch(<<>>, before, queue)
    BY <1>1, PagingDispatch
  <2>2. Actions(PagingMessage(pagination'), PagingThunk)
    BY PagingActions
  <2>3. QED
    BY <1>9, <2>1, <2>2, NothingSent
<1>11. QED
  BY <1>6, <1>8, <1>10 DEF PagingInv, PagingState

LEMMA PagingNextKeeps ==
    ASSUME PagingInv, P!PagingAssumption, P!PagingNext
    PROVE  PagingInv'
<1>1. CASE \E k \in P!Key : P!Visit(k) \/ P!ClickLoadMore(k)
  BY <1>1, PagingVisits
<1>2. CASE P!ClickDismiss \/ P!LoadTestUser
  BY <1>2, PagingClicks
<1>3. CASE P!RunThunk
  BY <1>3, PagingThunks
<1>4. CASE P!AnyAnswer
  BY <1>4, PagingAnswers
<1>5. CASE P!Reduce
  BY <1>5, PagingReduced
<1>6. QED
  BY <1>1, <1>2, <1>3, <1>4, <1>5 DEF P!PagingNext

-----------------------------------------------------------------------------
(* The sample application *)

(* The invariant: the messages and functions of the route that is open are *)
(* those it sends, the others have not begun.                              *)
SampleInv ==
    /\ PagingState
    /\ route = "shopping-cart" => CartInv
    /\ route = "todos" => TodosInv
    /\ route = "real-world" => PagingInv
    /\ route \notin {"shopping-cart", "todos", "real-world"} => Kept(bus, queue, guids, {}, {})

LEMMA KeptEmpty == ASSUME NEW M, NEW F PROVE Kept(<<>>, <<>>, 0, M, F)
  BY DEF Kept, ThunksIn

LEMMA SampleInit ==
    ASSUME RoutesAssumption, Init
    PROVE  SampleInv
<1>1. /\ inventory = <<>> /\ addedIds = <<>> /\ quantityById = C!Nothing /\ shop = <<>>
      /\ todos = <<>> /\ nextTodoId = 0
      /\ pagination = [k \in P!Key |-> P!NoPages] /\ calls = <<>>
  BY DEF Init, C!CartInit, T!TodosInit, P!PagingInit
<1>2. C!ToSet(addedIds) = {} /\ C!Nothing \in [Product -> Nat] /\ \A p \in Product : C!Nothing[p] = 0
  BY <1>1 DEF C!ToSet, C!Nothing
<1>3. PagingState
  <2> DEFINE p == P!NoPages
  <2>1. p \in Pagination /\ p.ids = <<>> /\ p.nextPageUrl = 1
    BY DEF P!NoPages, P!First, Pagination
  <2> HIDE DEF p
  <2>2. Len(p.ids) = 0 /\ p.ids = [n \in 1..Len(p.ids) |-> n]
    BY <2>1
  <2>3. \A k \in P!Key : Pages[k] \in Nat \ {0}
    BY DEF RoutesAssumption, P!PagingAssumption
  <2>4. \A k \in P!Key : PagesListed(p, k)
    BY <2>1, <2>2, <2>3 DEF PagesListed
  <2>5. QED
    BY <1>1, <2>4 DEF PagingState, p
<1>4. route # "shopping-cart" => bus = <<>> /\ queue = <<>> /\ guids = 0
  BY DEF Init, S!StoreInit
<1>5. route # "shopping-cart" =>
        \A M, F : Kept(bus, queue, guids, M, F)
  BY <1>4, KeptEmpty
<1>6. ASSUME route = "shopping-cart" PROVE CartInv
  <2> DEFINE m == [type |-> "ABus.Thunk", thunkId |-> 1]
             t == C!getAllProducts
  <2>1. bus = <<m>> /\ queue = [id \in {1} |-> t] /\ guids = 1
    BY <1>6 DEF Init, C!CartStarts
  <2>2. m \in ThunkMessage /\ m.type = "ABus.Thunk" /\ m.thunkId = 1
    BY DEF ThunkMessage
  <2>3. t \in CartThunk /\ t.run = "getAllProducts"
    BY DEF C!getAllProducts, CartThunk
  <2> HIDE DEF m, t
  <2>4. /\ bus \in Seq(CartMessage \cup ThunkMessage) /\ DOMAIN bus = {1} /\ bus[1] = m
        /\ DOMAIN queue = {1} /\ queue[1] = t
    BY <2>1, <2>2
  <2>5. ThunksIn(bus) = {1}
    BY <2>2, <2>4 DEF ThunksIn
  <2>6. Kept(bus, queue, guids, CartMessage, CartThunk)
    BY <2>1, <2>2, <2>3, <2>4, <2>5 DEF Kept
  <2>7. Loading(queue) = {1} /\ Receiving(shop) = {} /\ Receiving(bus) = {}
    BY <1>1, <2>2, <2>3, <2>4 DEF Loading, Receiving
  <2>8. NothingAdded(bus, queue) /\ AddsBehind(bus, inventory)
    BY <2>2, <2>3, <2>4 DEF NothingAdded, AddsBehind
  <2>9. CartWay(bus, queue, shop, inventory)
    BY <1>1, <2>7, <2>8 DEF CartWay, LoadsOnce
  <2>10. CartTypes
    <3>1. \A p \in Product : p \in C!ToSet(addedIds) <=> quantityById[p] > 0
      BY <1>1, <1>2
    <3>2. <<>> \in Seq(Product) /\ <<>> \in Seq(ShopMessage)
      OBVIOUS
    <3>3. QED
      BY <1>1, <1>2, <3>1, <3>2 DEF CartTypes
  <2>11. CheckoutsWay
    <3> DEFINE D == OnWay(bus, queue)
    <3>1. D[1] = t /\ Len(bus) = 1
      BY <2>1, <2>2, <2>4 DEF OnWay
    <3>2. t \notin Checkouts /\ t \notin Requests
      BY <2>3 DEF Checkouts, Requests, t, C!getAllProducts
    <3> HIDE DEF D
    <3>3. \A k \in 1..1 : k = 1
      OBVIOUS
    <3>4. CheckoutsOn(D, 1, quantityById, C!Nothing)
      BY <3>1, <3>2, <3>3 DEF CheckoutsOn
    <3>5. QED
      BY <3>1, <3>4 DEF CheckoutsWay, D
  <2>12. QED
    BY <2>6, <2>9, <2>10, <2>11 DEF CartInv
<1>7. ASSUME route = "todos" PROVE TodosInv
  <2>1. Kept(bus, queue, guids, TodosMessage, {}) /\ bus = <<>>
    BY <1>4, <1>5, <1>7
  <2>2. Numbered(<<>>, 0, 0)
    <3>1. Created(<<>>) = {} /\ 0..(0 - 1) = {}
      BY DEF Created
    <3>2. QED
      BY <3>1 DEF Numbered
  <2>3. <<>> \in Seq(Todo) /\ Len(<<>>) = 0 /\ DOMAIN <<>> = {}
    OBVIOUS
  <2>4. TodosState
    BY <1>1, <2>1, <2>2, <2>3 DEF TodosState
  <2>5. QED
    BY <2>1, <2>4 DEF TodosInv
<1>8. ASSUME route = "real-world" PROVE PagingInv
  <2>1. Kept(bus, queue, guids, PagingMessage(pagination), PagingThunk)
    BY <1>5, <1>8
  <2>2. calls \in Seq(PagingCall(pagination))
    BY <1>1
  <2>3. QED
    BY <1>3, <2>1, <2>2 DEF PagingInv
<1>9. route \notin {"shopping-cart", "todos", "real-world"} => Kept(bus, queue, guids, {}, {})
  BY <1>5
<1>10. QED
  BY <1>3, <1>6, <1>7, <1>8, <1>9 DEF SampleInv

LEMMA SampleStep ==
    ASSUME RoutesAssumption, SampleInv, [Next]_vars
    PROVE  /\ SampleInv'
           /\ route = "shopping-cart" => C!AddedBehind
<1>1. CASE UNCHANGED vars
  <2>1. /\ route' = route /\ bus' = bus /\ queue' = queue /\ guids' = guids
        /\ inventory' = inventory /\ addedIds' = addedIds /\ quantityById' = quantityById
        /\ shop' = shop
        /\ todos' = todos /\ nextTodoId' = nextTodoId
        /\ pagination' = pagination /\ calls' = calls
    BY <1>1 DEF vars, cartState, todosState, pagingState
  <2>2. PagingState'
    BY <2>1 DEF SampleInv, PagingState, PagesListed
  <2>3. route = "shopping-cart" => CartInv' /\ C!AddedBehind
    <3> SUFFICES ASSUME route = "shopping-cart" PROVE CartInv' /\ C!AddedBehind
      OBVIOUS
    <3>1. CartInv
      BY DEF SampleInv
    <3>2. CartInv'
      BY <2>1, <3>1 DEF CartInv, CartTypes, CheckoutsWay, C!ToSet, C!Nothing
    <3>3. \A p \in DOMAIN inventory : inventory[p] \in Int
      BY <3>1 DEF CartInv, CartTypes
    <3>4. C!AddedBehind
      BY <2>1, <3>3 DEF C!AddedBehind
    <3>5. QED
      BY <3>2, <3>4
  <2>4. route = "todos" => TodosInv'
    BY <2>1 DEF SampleInv, TodosInv, TodosState
  <2>5. route = "real-world" => PagingInv'
    BY <2>1, <2>2 DEF SampleInv, PagingInv
  <2>6. QED
    BY <2>1, <2>2, <2>3, <2>4, <2>5 DEF SampleInv
<1>2. CASE ShoppingCart(C!CartNext)
  <2>1. /\ route = "shopping-cart" /\ route' = route /\ pagination' = pagination /\ C!CartNext
    BY <1>2 DEF ShoppingCart, pagingState
  <2>2. CartInv /\ C!CartAssumption
    BY <2>1 DEF SampleInv, RoutesAssumption
  <2>3. CartInv' /\ C!AddedBehind
    BY <2>1, <2>2, CartNextKeeps
  <2>4. PagingState'
    BY <2>1 DEF SampleInv, PagingState, PagesListed
  <2>5. QED
    BY <2>1, <2>3, <2>4 DEF SampleInv
<1>3. CASE Listing(T!TodosNext)
  <2>1. route = "todos" /\ route' = route /\ pagination' = pagination /\ T!TodosNext
    BY <1>3 DEF Listing, pagingState
  <2>2. TodosInv'
    BY <2>1, TodosNextKeeps DEF SampleInv
  <2>3. PagingState'
    BY <2>1 DEF SampleInv, PagingState, PagesListed
  <2>4. QED
    BY <2>1, <2>2, <2>3 DEF SampleInv
<1>4. CASE RealWorld(P!PagingNext)
  <2>1. route = "real-world" /\ route' = route /\ P!PagingNext
    BY <1>4 DEF RealWorld
  <2>2. PagingInv'
    BY <2>1, PagingNextKeeps DEF SampleInv, RoutesAssumption
  <2>3. QED
    BY <2>1, <2>2 DEF SampleInv, PagingInv
<1>5. QED
  BY <1>1, <1>2, <1>3, <1>4 DEF Next

(* The invariant holds in every state, from the route that is opened.      *)
THEOREM SampleInvariant == Spec => []SampleInv
<1>1. Init => SampleInv
  BY SampleInit, RoutesAssumption
<1>2. SampleInv /\ [Next]_vars => SampleInv'
  BY SampleStep, RoutesAssumption
<1>3. QED
  BY <1>1, <1>2, PTL DEF Spec

(* redux-abus-thunk 16-19, 46-55: thunk messages and functions in the      *)
(* queue belong together, for whatever actions the routes dispatch.        *)
THEOREM ThunksAreQueued == Spec => []ThunksQueued
<1>1. ASSUME NEW M, NEW F, Kept(bus, queue, guids, M, F)
      PROVE  ThunksQueued
  <2>1. /\ {bus[k].thunkId : k \in ThunksIn(bus)} = DOMAIN queue
        /\ Cardinality(ThunksIn(bus)) = Cardinality(DOMAIN queue)
    BY <1>1, KeptQueued
  <2>2. S!Thunks = ThunksIn(bus)
    BY DEF S!Thunks, ThunksIn
  <2>3. /\ S!Cardinality(S!Thunks) = Cardinality(S!Thunks)
        /\ S!Cardinality(DOMAIN queue) = Cardinality(DOMAIN queue)
    BY StoreCounts
  <2>4. QED
    BY <2>1, <2>2, <2>3 DEF ThunksQueued, S!ThunksQueued
<1>2. SampleInv => ThunksQueued
  BY <1>1 DEF SampleInv, CartInv, TodosInv, PagingInv
<1>3. QED
  BY <1>2, SampleInvariant, PTL

(* actions/index.js 36-48, cart.js 46-47: for any stock and any clicks, what  *)
(* a checkout empties it has bought, but for additions that were clicked    *)
(* before it and came in between, and what it buys was still in the cart    *)
(* unless another checkout was on its way.                                  *)
THEOREM EmptiedWasBought == Spec => []EmptiedIsBought
<1>1. SampleInv => EmptiedIsBought
  <2> SUFFICES ASSUME CartInv, bus # <<>>, Head(bus).type = "CHECKOUT_REQUEST", NEW p \in Product
               PROVE  /\ quantityById[p] <= Head(bus).products[p] + Head(bus).coming[p]
                      /\ Head(bus).alone => quantityById[p] >= Head(bus).products[p]
    BY DEF SampleInv, EmptiedIsBought, C!EmptiedIsBought, C!Received, C!action
  <2> DEFINE m == Head(bus)
             D == OnWay(bus, queue)
  <2>1. /\ bus \in Seq(CartMessage \cup ThunkMessage) /\ quantityById \in [Product -> Nat]
        /\ CheckoutsOn(D, Len(bus), quantityById, C!Nothing)
    BY DEF CartInv, Kept, CartTypes, CheckoutsWay
  <2>2. Len(bus) \in Nat \ {0} /\ DOMAIN bus = 1..Len(bus) /\ m = bus[1] /\ 1 \in 1..Len(bus)
        /\ m \in CartMessage \cup ThunkMessage
    BY <2>1, Behind
  <2>3. D[1] = m
    BY <2>2 DEF OnWay
  <2>4. m \in Requests
    BY <2>2 DEF CartMessage, ShopMessage, ThunkMessage
  <2> HIDE DEF m, D
  <2>5. /\ quantityById[p] + Upto(At(D, Additions(p)), 1 - 1) <= m.products[p] + m.coming[p]
        /\ m.alone => quantityById[p] >= m.products[p]
    BY <2>1, <2>2, <2>3, <2>4 DEF CheckoutsOn
  <2>6. Upto(At(D, Additions(p)), 0) = 0 /\ quantityById[p] \in Nat
    BY <2>1, UptoGrows
  <2>7. quantityById[p] + 0 <= m.products[p] + m.coming[p]
    BY <2>5, <2>6
  <2>8. QED
    BY <2>5, <2>6, <2>7 DEF m
<1>2. QED
  BY <1>1, SampleInvariant, PTL

(* actions/index.js 25-34: no step takes more than there is in stock,      *)
(* unless for additions that were ahead when the stock was looked at.      *)
THEOREM SoldBehindOthers == Spec => OversoldByThoseAhead
<1>1. SampleInv /\ [Next]_vars => [route = "shopping-cart" => C!AddedBehind]_vars
  BY SampleStep, RoutesAssumption
<1>2. QED
  BY <1>1, SampleInvariant, PTL DEF Spec, OversoldByThoseAhead

(* todos.js 1-21: with any filters, todos of the user and those of the     *)
(* subscription are listed in the order of their numbers.                  *)
THEOREM TodosAreNumbered == Spec => []TodosNumberedInOrder
<1>1. SampleInv => TodosNumberedInOrder
  <2> SUFFICES ASSUME SampleInv, route = "todos" PROVE T!TodosNumberedInOrder
    BY DEF TodosNumberedInOrder
  <2>1. TodosState
    BY DEF SampleInv, TodosInv
  <2>2. QED
    BY <2>1 DEF TodosState, Numbered, Created, T!TodosNumberedInOrder
<1>2. QED
  BY <1>1, SampleInvariant, PTL

(* paginate.ts 16-46: for any numbers of pages and however answers come,   *)
(* the pages of a list are the first ones, once each and in their order.   *)
THEOREM PagesAreInOrder == Spec => []PagesInOrder
<1>1. SampleInv => PagesInOrder
  <2> SUFFICES ASSUME SampleInv, NEW k \in P!Key
               PROVE  LET p == pagination[k]
                      IN  /\ p.ids = [n \in 1..Len(p.ids) |-> n]
                          /\ p.nextPageUrl <= Len(p.ids) + 1
                          /\ p.nextPageUrl = P!Null => Len(p.ids) = Pages[k]
    BY DEF PagesInOrder, P!PagesInOrder
  <2>1. PagesListed(pagination[k], k)
    BY DEF SampleInv, PagingState
  <2>2. QED
    BY <2>1 DEF PagesListed, P!Null
<1>2. QED
  BY <1>1, SampleInvariant, PTL
=============================================================================
