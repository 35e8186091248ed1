--------------------------- MODULE BubblesProofs ---------------------------
(***************************************************************************)
(* Proofs about Bubbles, for every set of definitions and every program    *)
(* under test: a flow that resolves and is valid was observed whole, what  *)
(* is compared with a bubble is never the bus's complaint of a command     *)
(* without handler, and bubbles are sent once, in their turn.              *)
(***************************************************************************)
EXTENDS Bubbles, SequenceTheorems, FiniteSetTheorems, WellFoundedInduction, TLAPS

-----------------------------------------------------------------------------
(* Sequences *)

LEMMA Indexed ==
    ASSUME NEW S, NEW q \in Seq(S)
    PROVE  /\ Len(q) \in Nat /\ DOMAIN q = 1..Len(q)
           /\ \A i \in 1..Len(q) : q[i] \in S
           /\ (q = <<>> <=> Len(q) = 0)
  BY LenProperties, EmptySeq

LEMMA Joined ==
    ASSUME NEW S, NEW q \in Seq(S), NEW r \in Seq(S)
    PROVE  /\ q \o r \in Seq(S)
           /\ Len(q \o r) = Len(q) + Len(r)
           /\ \A i \in 1..Len(q) : (q \o r)[i] = q[i]
           /\ \A i \in 1..Len(r) : (q \o r)[Len(q) + i] = r[i]
           /\ \A i \in 1..Len(q \o r) : (i \in 1..Len(q) /\ (q \o r)[i] = q[i])
                    \/ (i - Len(q) \in 1..Len(r) /\ (q \o r)[i] = r[i - Len(q)])
<1>1. Len(q) \in Nat /\ Len(r) \in Nat
  BY LenProperties
<1>2. q \o r \in Seq(S) /\ Len(q \o r) = Len(q) + Len(r)
      /\ \A i \in 1..(Len(q) + Len(r)) : (q \o r)[i] = IF i <= Len(q) THEN q[i] ELSE r[i - Len(q)]
  BY ConcatProperties
<1>3. \A i \in 1..Len(r) : (q \o r)[Len(q) + i] = r[i]
  <2> SUFFICES ASSUME NEW i \in 1..Len(r) PROVE (q \o r)[Len(q) + i] = r[i]
    OBVIOUS
  <2>1. Len(q) + i \in 1..(Len(q) + Len(r)) /\ ~(Len(q) + i <= Len(q)) /\ Len(q) + i - Len(q) = i
    BY <1>1
  <2>2. QED
    BY <1>2, <2>1
<1>4. QED
  BY <1>1, <1>2, <1>3

LEMMA One ==
    ASSUME NEW S, NEW x \in S
    PROVE  <<x>> \in Seq(S) /\ Len(<<x>>) = 1 /\ <<x>>[1] = x
  OBVIOUS

LEMMA Listed ==
    ASSUME NEW S, NEW n \in Nat, NEW f \in [1..n -> S]
    PROVE  f \in Seq(S) /\ Len(f) = n
<1>1. f \in Seq(S)
  BY SeqDef
<1>2. QED
  BY <1>1, LenProperties

LEMMA Wider == ASSUME NEW S, NEW T, S \subseteq T, NEW q \in Seq(S) PROVE q \in Seq(T)
<1>1. Len(q) \in Nat /\ q \in [1..Len(q) -> S]
  BY LenProperties
<1>2. q \in [1..Len(q) -> T]
  BY <1>1
<1>3. QED
  BY <1>1, <1>2, Listed

LEMMA Behind ==
    ASSUME NEW S, NEW q \in Seq(S), q # <<>>
    PROVE  Head(q) \in S /\ Tail(q) \in Seq(S)
  BY HeadTailProperties

LEMMA Added ==
    ASSUME NEW S, NEW q \in Seq(S), NEW x \in S
    PROVE  /\ Append(q, x) \in Seq(S) /\ Len(Append(q, x)) = Len(q) + 1
           /\ \A i \in 1..Len(q) : Append(q, x)[i] = q[i]
           /\ Append(q, x)[Len(q) + 1] = x
  BY AppendProperties

LEMMA Least ==
    ASSUME NEW T, T \subseteq Nat, T # {}
    PROVE  \E x \in T : \A y \in T : x <= y
<1>1. PICK x \in T : \A y \in T : ~(<<y, x>> \in OpToRel(<, Nat))
  BY WFMin, NatLessThanWellFounded
<1>2. ASSUME NEW y \in T PROVE x <= y
  <2>1. x \in Nat /\ y \in Nat
    OBVIOUS
  <2>2. ~(<<y, x>> \in OpToRel(<, Nat))
    BY <1>1
  <2>3. ~(y < x)
    BY <2>1, <2>2 DEF OpToRel
  <2>4. QED
    BY <2>1, <2>3
<1>3. QED
  BY <1>2

-----------------------------------------------------------------------------
(* Elements chosen from a sequence *)

Upto(I, k) == {j \in I : j <= k}

LEMMA Counts ==
    ASSUME NEW n \in Nat, NEW I \in SUBSET (1..n)
    PROVE  /\ Cardinality(I) \in Nat
           /\ Upto(I, n) = I
           /\ Cardinality(Upto(I, 0)) = 0
           /\ \A k \in Nat : Cardinality(Upto(I, k)) \in Nat
           /\ \A k \in Nat : Cardinality(Upto(I, k + 1)) =
                                Cardinality(Upto(I, k)) + (IF k + 1 \in I THEN 1 ELSE 0)
<1>1. IsFiniteSet(1..n)
  BY FS_Interval
<1>2. IsFiniteSet(I)
  BY <1>1, FS_Subset
<1>3. ASSUME NEW k PROVE IsFiniteSet(Upto(I, k)) /\ Cardinality(Upto(I, k)) \in Nat
  <2>1. Upto(I, k) \in SUBSET I
    BY DEF Upto
  <2>2. QED
    BY <1>2, <2>1, FS_Subset, FS_CardinalityType
<1>0. \A j \in I : j \in Nat /\ 1 <= j /\ j <= n
  OBVIOUS
<1>4. Upto(I, n) = I
  BY <1>0 DEF Upto
<1>5. Upto(I, 0) = {}
  <2>1. \A j \in I : ~(j <= 0)
    BY <1>0
  <2>2. QED
    BY <2>1 DEF Upto
<1>6. ASSUME NEW k \in Nat
      PROVE  Cardinality(Upto(I, k + 1)) = Cardinality(Upto(I, k)) + (IF k + 1 \in I THEN 1 ELSE 0)
  <2>1. CASE k + 1 \in I
    <3>0. \A j \in I : j <= k + 1 <=> j <= k \/ j = k + 1
      BY <1>0
    <3>1. Upto(I, k + 1) = Upto(I, k) \cup {k + 1}
      BY <2>1, <3>0 DEF Upto
    <3>2. k + 1 \notin Upto(I, k)
      BY DEF Upto
    <3>3. Cardinality(Upto(I, k) \cup {k + 1}) = Cardinality(Upto(I, k)) + 1
      BY <1>3, <3>2, FS_AddElement
    <3>4. QED
      BY <2>1, <3>1, <3>3
  <2>2. CASE k + 1 \notin I
    <3>0. \A j \in I : j <= k + 1 <=> j <= k
      BY <1>0, <2>2
    <3>1. Upto(I, k + 1) = Upto(I, k)
      BY <3>0 DEF Upto
    <3>2. QED
      BY <1>3, <2>2, <3>1
  <2>3. QED
    BY <2>1, <2>2
<1>7. QED
  BY <1>2, <1>3, <1>4, <1>5, <1>6, FS_CardinalityType, FS_EmptySet

(* There is an i-th element. *)
LEMMA Nth ==
    ASSUME NEW n \in Nat, NEW I \in SUBSET (1..n), NEW i \in 1..Cardinality(I)
    PROVE  \E k \in I : Cardinality({j \in I : j <= k}) = i
<1> DEFINE T == {k \in Nat : Cardinality(Upto(I, k)) >= i}
<1>1. Cardinality(I) \in Nat /\ i \in Nat /\ i > 0 /\ i <= Cardinality(I)
  BY Counts
<1>2. n \in T
  BY <1>1, Counts
<1>3. PICK k \in T : \A y \in T : k <= y
  BY <1>2, Least
<1>4. k \in Nat /\ Cardinality(Upto(I, k)) \in Nat /\ Cardinality(Upto(I, k)) >= i
  BY <1>3, Counts
<1>5. k # 0
  <2>1. Cardinality(Upto(I, 0)) = 0
    BY Counts
  <2>2. QED
    BY <1>1, <1>4, <2>1
<1>6. PICK h \in Nat : k = h + 1
  BY <1>4, <1>5
<1>7. Cardinality(Upto(I, h)) \in Nat /\ ~(Cardinality(Upto(I, h)) >= i)
  <2>1. h \notin T
    BY <1>3, <1>6
  <2>2. Cardinality(Upto(I, h)) \in Nat
    BY Counts
  <2>3. QED
    BY <2>1, <2>2
<1>8. Cardinality(Upto(I, k)) = Cardinality(Upto(I, h)) + (IF k \in I THEN 1 ELSE 0)
  BY <1>6, Counts
<1>9. k \in I /\ Cardinality(Upto(I, k)) = i
  BY <1>1, <1>4, <1>7, <1>8
<1>10. QED
  BY <1>9 DEF Upto

LEMMA Selected ==
    ASSUME NEW S, NEW q \in Seq(S), NEW I \in SUBSET DOMAIN q
    PROVE  /\ Cardinality(I) \in Nat
           /\ Select(q, I) \in Seq(S)
           /\ Len(Select(q, I)) = Cardinality(I)
           /\ \A i \in 1..Cardinality(I) : \E k \in I : Select(q, I)[i] = q[k]
<1>1. Len(q) \in Nat /\ I \in SUBSET (1..Len(q)) /\ \A k \in I : q[k] \in S
  BY Indexed
<1>2. Cardinality(I) \in Nat
  BY <1>1, Counts
<1>3. ASSUME NEW i \in 1..Cardinality(I)
      PROVE  \E k \in I : Select(q, I)[i] = q[k]
  <2>1. \E k \in I : Cardinality({j \in I : j <= k}) = i
    BY <1>1, Nth
  <2>2. PICK k : k = CHOOSE x \in I : Cardinality({j \in I : j <= x}) = i
    OBVIOUS
  <2>3. k \in I
    BY <2>1, <2>2
  <2>4. Select(q, I)[i] = q[k]
    BY <2>2 DEF Select
  <2>5. QED
    BY <2>3, <2>4
<1>4. \A i \in 1..Cardinality(I) : Select(q, I)[i] \in S
  BY <1>1, <1>3
<1>5. Select(q, I) \in [1..Cardinality(I) -> S]
  BY <1>4 DEF Select
<1>6. QED
  BY <1>2, <1>3, <1>5, Listed

-----------------------------------------------------------------------------
(* The flow of a definition *)

FlowRecord ==
    [name : STRING \cup {"delay"}, intent : Intents \cup {"delay"}, delay : BOOLEAN,
     with : Seq(Bubble), source : {"inject", "system", "substitute", "override"}]

(* What is asked has a type of reply. *)
Answerable(b) ==
    b.intent = "sendReply" /\ b.name \in DOMAIN TypeOf => TypeOf[b.name] \in DOMAIN ReplyType

FlowBubble == {b \in FlowRecord : Answerable(b)}

(* Bubble i is there, and is a message. *)
Solid(f, i) == i \in DOMAIN f /\ f[i].intent # "delay"

SubstitutesFollowed(f) ==
    \A i \in DOMAIN f : f[i].source = "substitute" => Solid(f, i + 1) /\ f[i + 1].source = "system"

OverridesFollowed(f) ==
    \A i \in DOMAIN f : f[i].source = "override" =>
        \A k \in DOMAIN f[i].with :
            Solid(f, i + k) /\ (AnswersUnmarked => f[i + k].source = "system")

NoTwoDelays(f) == \A i \in DOMAIN f : i + 1 \in DOMAIN f => Solid(f, i) \/ Solid(f, i + 1)

FlowOK(f) ==
    /\ f \in Seq(FlowBubble)
    /\ SubstitutesFollowed(f)
    /\ OverridesFollowed(f)
    /\ NoTwoDelays(f)

(* Two flows one after the other, without two delays where they meet. *)
LEMMA Glued ==
    ASSUME NEW f, FlowOK(f), NEW g, FlowOK(g), g # <<>>,
           f # <<>> => Solid(f, Len(f)) \/ Solid(g, 1)
    PROVE  /\ FlowOK(f \o g) /\ f \o g # <<>>
           /\ Solid(f, 1) \/ (f = <<>> /\ Solid(g, 1)) => Solid(f \o g, 1)
<1> DEFINE h == f \o g
<1>1. /\ f \in Seq(FlowBubble) /\ g \in Seq(FlowBubble) /\ h \in Seq(FlowBubble)
      /\ Len(f) \in Nat /\ Len(g) \in Nat /\ Len(g) # 0
      /\ DOMAIN f = 1..Len(f) /\ DOMAIN g = 1..Len(g)
      /\ Len(h) = Len(f) + Len(g) /\ DOMAIN h = 1..(Len(f) + Len(g))
  <2>1. f \in Seq(FlowBubble) /\ g \in Seq(FlowBubble)
    BY DEF FlowOK
  <2>2. h \in Seq(FlowBubble) /\ Len(h) = Len(f) + Len(g)
    BY <2>1, Joined
  <2>3. QED
    BY <2>1, <2>2, Indexed
<1>2. /\ \A i \in 1..Len(f) : h[i] = f[i]
      /\ \A i \in 1..Len(g) : h[Len(f) + i] = g[i]
  BY <1>1, Joined
<1>3. ASSUME NEW i \in 1..(Len(f) + Len(g))
      PROVE  \/ i \in 1..Len(f)
             \/ \E j \in 1..Len(g) : i = Len(f) + j
  <2>1. CASE i <= Len(f)
    BY <1>1, <2>1
  <2>2. CASE ~(i <= Len(f))
    <3>1. i - Len(f) \in 1..Len(g) /\ i = Len(f) + (i - Len(f))
      BY <1>1, <2>2
    <3>2. QED
      BY <3>1
  <2>3. QED
    BY <2>1, <2>2
<1>4. \A i : Solid(f, i) => Solid(h, i) /\ h[i] = f[i]
  BY <1>1, <1>2 DEF Solid
<1>5. \A i : Solid(g, i) => Solid(h, Len(f) + i) /\ h[Len(f) + i] = g[i]
  BY <1>1, <1>2 DEF Solid
<1>6. SubstitutesFollowed(h)
  <2> SUFFICES ASSUME NEW i \in 1..(Len(f) + Len(g)), h[i].source = "substitute"
               PROVE  Solid(h, i + 1) /\ h[i + 1].source = "system"
    BY <1>1 DEF SubstitutesFollowed
  <2>1. CASE i \in 1..Len(f)
    <3>1. Solid(f, i + 1) /\ f[i + 1].source = "system"
      BY <1>1, <1>2, <2>1 DEF FlowOK, SubstitutesFollowed
    <3>2. QED
      BY <1>4, <3>1
  <2>2. CASE \E j \in 1..Len(g) : i = Len(f) + j
    <3>1. PICK j \in 1..Len(g) : i = Len(f) + j
      BY <2>2
    <3>2. Solid(g, j + 1) /\ g[j + 1].source = "system"
      BY <1>1, <1>2, <3>1 DEF FlowOK, SubstitutesFollowed
    <3>3. i + 1 = Len(f) + (j + 1)
      BY <1>1, <3>1
    <3>4. QED
      BY <1>5, <3>2, <3>3
  <2>3. QED
    BY <1>3, <2>1, <2>2
<1>7. OverridesFollowed(h)
  <2> SUFFICES ASSUME NEW i \in 1..(Len(f) + Len(g)), h[i].source = "override",
                      NEW k \in DOMAIN h[i].with
               PROVE  Solid(h, i + k) /\ (AnswersUnmarked => h[i + k].source = "system")
    BY <1>1 DEF OverridesFollowed
  <2>0. k \in Nat
    <3>1. h[i] \in FlowBubble
      BY <1>1, Indexed
    <3>2. h[i].with \in Seq(Bubble)
      BY <3>1 DEF FlowBubble, FlowRecord
    <3>3. DOMAIN h[i].with = 1..Len(h[i].with) /\ Len(h[i].with) \in Nat
      BY <3>2, Indexed
    <3>4. QED
      BY <3>3
  <2>1. CASE i \in 1..Len(f)
    <3>1. Solid(f, i + k) /\ (AnswersUnmarked => f[i + k].source = "system")
      BY <1>1, <1>2, <2>1 DEF FlowOK, OverridesFollowed
    <3>2. QED
      BY <1>4, <3>1
  <2>2. CASE \E j \in 1..Len(g) : i = Len(f) + j
    <3>1. PICK j \in 1..Len(g) : i = Len(f) + j
      BY <2>2
    <3>2. Solid(g, j + k) /\ (AnswersUnmarked => g[j + k].source = "system")
      BY <1>1, <1>2, <3>1 DEF FlowOK, OverridesFollowed
    <3>3. i + k = Len(f) + (j + k)
      BY <1>1, <2>0, <3>1
    <3>4. QED
      BY <1>5, <3>2, <3>3
  <2>3. QED
    BY <1>3, <2>1, <2>2
<1>8. NoTwoDelays(h)
  <2> SUFFICES ASSUME NEW i \in 1..(Len(f) + Len(g)), i + 1 \in 1..(Len(f) + Len(g))
               PROVE  Solid(h, i) \/ Solid(h, i + 1)
    BY <1>1 DEF NoTwoDelays
  <2>1. CASE i \in 1..Len(f) /\ i + 1 \in 1..Len(f)
    <3>1. Solid(f, i) \/ Solid(f, i + 1)
      BY <1>1, <2>1 DEF FlowOK, NoTwoDelays
    <3>2. QED
      BY <1>4, <3>1
  <2>2. CASE \E j \in 1..Len(g) : i = Len(f) + j
    <3>1. PICK j \in 1..Len(g) : i = Len(f) + j
      BY <2>2
    <3>2. i + 1 = Len(f) + (j + 1) /\ j + 1 \in 1..Len(g)
      BY <1>1, <3>1
    <3>3. Solid(g, j) \/ Solid(g, j + 1)
      BY <1>1, <3>2 DEF FlowOK, NoTwoDelays
    <3>4. QED
      BY <1>5, <3>1, <3>2, <3>3
  <2>3. CASE i \in 1..Len(f) /\ ~(i + 1 \in 1..Len(f))
    <3>0. i = Len(f) /\ Len(f) # 0
      <4>1. Len(f) \in Nat /\ i \in 1..Len(f) /\ ~(i + 1 \in 1..Len(f))
        BY <1>1, <2>3
      <4>2. QED
        BY <4>1
    <3>1. i = Len(f) /\ f # <<>>
      BY <1>1, <3>0, Indexed
    <3>2. Solid(f, i) \/ Solid(g, 1)
      BY <3>1
    <3>3. QED
      BY <1>4, <1>5, <3>1, <3>2
  <2>4. QED
    BY <1>3, <2>1, <2>2, <2>3
<1>9. h # <<>>
  BY <1>1, Indexed
<1>10. Solid(f, 1) \/ (f = <<>> /\ Solid(g, 1)) => Solid(h, 1)
  <2>1. CASE Solid(f, 1)
    BY <1>4, <2>1
  <2>2. CASE f = <<>> /\ Solid(g, 1)
    <3>1. Len(f) + 1 = 1
      BY <1>1, <2>2, Indexed
    <3>2. QED
      BY <1>5, <2>2, <3>1
  <2>3. QED
    BY <2>1, <2>2
<1>11. QED
  BY <1>1, <1>6, <1>7, <1>8, <1>9, <1>10 DEF FlowOK

LEMMA Associative ==
    ASSUME NEW S, NEW q \in Seq(S), NEW r \in Seq(S), NEW t \in Seq(S)
    PROVE  (q \o r) \o t = q \o (r \o t)
  BY ConcatAssociative

LEMMA AppendedThen ==
    ASSUME NEW S, NEW q \in Seq(S), NEW x \in S, NEW t \in Seq(S)
    PROVE  Append(q, x) \o t = q \o (<<x>> \o t)
<1> DEFINE one == <<x>>
<1>1. one \in Seq(S) /\ Append(q, x) = q \o one
  BY AppendIsConcat
<1> HIDE DEF one
<1>2. (q \o one) \o t = q \o (one \o t)
  BY <1>1, Associative
<1>3. QED
  BY <1>1, <1>2 DEF one

LEMMA AnyRecord ==
    ASSUME NEW name \in STRING \cup {"delay"}, NEW intent \in Intents \cup {"delay"}, NEW delay \in BOOLEAN,
           NEW with \in Seq(Bubble), NEW source \in {"inject", "system", "substitute", "override"}
    PROVE  [name |-> name, intent |-> intent, source |-> source, delay |-> delay, with |-> with] \in FlowRecord
  BY DEF FlowRecord

LEMMA DelayFlow == DelayBubble \in FlowBubble /\ DelayBubble.source = "inject"
<1>1. /\ "delay" \in STRING \cup {"delay"}
      /\ "delay" \in Intents \cup {"delay"}
      /\ "inject" \in {"inject", "system", "substitute", "override"}
  BY Zenon
<1>2. <<>> \in Seq(Bubble)
  OBVIOUS
<1>3. DelayBubble \in FlowRecord
  BY <1>1, <1>2, AnyRecord, Zenon DEF DelayBubble
<1>4. Answerable(DelayBubble)
  BY DEF DelayBubble, Answerable
<1>5. QED
  BY <1>3, <1>4 DEF DelayBubble, FlowBubble

(* A bubble alone, when nothing has to follow it. *)
LEMMA Alone ==
    ASSUME NEW b \in FlowBubble, b.source \in {"inject", "system"}
    PROVE  FlowOK(<<b>>) /\ <<b>> # <<>> /\ (b.intent # "delay" => Solid(<<b>>, 1))
<1>1. <<b>> \in Seq(FlowBubble) /\ DOMAIN <<b>> = {1} /\ <<b>>[1] = b /\ <<b>> # <<>>
  OBVIOUS
<1>2. SubstitutesFollowed(<<b>>) /\ OverridesFollowed(<<b>>)
  BY <1>1 DEF SubstitutesFollowed, OverridesFollowed
<1>3. NoTwoDelays(<<b>>)
  BY <1>1 DEF NoTwoDelays
<1>4. Solid(<<b>>, 1) <=> b.intent # "delay"
  BY <1>1 DEF Solid
<1>5. QED
  BY <1>1, <1>2, <1>3, <1>4 DEF FlowOK

LEMMA BubblesFlow ==
    ASSUME NEW b \in Bubble
    PROVE  /\ b \in FlowBubble /\ b.source \in {"inject", "system"} /\ b.intent # "delay"
           /\ [b EXCEPT !.source = "substitute", !.delay = FALSE] \in FlowBubble
           /\ [b EXCEPT !.source = "system"] \in FlowBubble
           /\ \A with \in Seq(Bubble) : [b EXCEPT !.source = "override", !.with = with] \in FlowBubble
<1>1. b \in [name : STRING, intent : Intents, source : {"inject", "system"}, delay : BOOLEAN, with : {<<>>}]
  BY DEF Bubble
<1>2. Answerable(b)
  BY DEF Answerable, Bubble
<1>3. <<>> \in Seq(Bubble)
  OBVIOUS
<1>4. b.intent # "delay"
  BY <1>1 DEF Intents
<1>5. /\ b \in FlowRecord
      /\ [b EXCEPT !.source = "substitute", !.delay = FALSE] \in FlowRecord
      /\ [b EXCEPT !.source = "system"] \in FlowRecord
      /\ \A with \in Seq(Bubble) : [b EXCEPT !.source = "override", !.with = with] \in FlowRecord
  BY <1>1, <1>3 DEF FlowRecord
<1>6. \A x \in FlowRecord : x.intent = b.intent /\ x.name = b.name => x \in FlowBubble
  BY <1>2 DEF Answerable, FlowBubble
<1>7. QED
  BY <1>1, <1>4, <1>5, <1>6

LEMMA SubstituteFlow ==
    ASSUME NEW b \in Bubble
    PROVE  LET s == <<[b EXCEPT !.source = "substitute", !.delay = FALSE], [b EXCEPT !.source = "system"]>>
           IN  FlowOK(s) /\ s # <<>> /\ Solid(s, 1)
<1> DEFINE b1 == [b EXCEPT !.source = "substitute", !.delay = FALSE]
           b2 == [b EXCEPT !.source = "system"]
           s == <<b1, b2>>
<1>1. b1 \in FlowBubble /\ b2 \in FlowBubble
  BY BubblesFlow
<1>2. b \in [name : STRING, intent : Intents, source : {"inject", "system"}, delay : BOOLEAN, with : {<<>>}]
  BY DEF Bubble
<1>3. /\ b1.source = "substitute" /\ b2.source = "system"
      /\ b1.intent # "delay" /\ b2.intent # "delay"
  BY <1>2 DEF Intents
<1> HIDE DEF b1, b2
<1>4. s \in Seq(FlowBubble) /\ DOMAIN s = {1, 2} /\ s[1] = b1 /\ s[2] = b2 /\ s # <<>>
  BY <1>1
<1> HIDE DEF s
<1>5. \A i \in {1, 2} : Solid(s, i)
  BY <1>3, <1>4 DEF Solid
<1>6. SubstitutesFollowed(s)
  BY <1>3, <1>4, <1>5 DEF SubstitutesFollowed
<1>7. OverridesFollowed(s)
  BY <1>3, <1>4 DEF OverridesFollowed
<1>8. NoTwoDelays(s)
  BY <1>4, <1>5 DEF NoTwoDelays
<1>9. FlowOK(s) /\ s # <<>> /\ Solid(s, 1)
  BY <1>4, <1>5, <1>6, <1>7, <1>8 DEF FlowOK
<1>10. QED
  BY <1>9 DEF s, b1, b2

LEMMA OverrideFlow ==
    ASSUME NEW b \in Bubble, NEW with \in Seq(Bubble),
           AnswersUnmarked => \A j \in DOMAIN with : with[j].source = "system"
    PROVE  LET s == <<[b EXCEPT !.source = "override", !.with = with]>> \o with
           IN  FlowOK(s) /\ s # <<>> /\ Solid(s, 1)
<1> DEFINE b1 == [b EXCEPT !.source = "override", !.with = with]
           s == <<b1>> \o with
<1>1. b1 \in FlowBubble
  BY BubblesFlow
<1>2. b \in [name : STRING, intent : Intents, source : {"inject", "system"}, delay : BOOLEAN, with : {<<>>}]
  BY DEF Bubble
<1>3. b1.source = "override" /\ b1.intent # "delay" /\ b1.with = with
  BY <1>2 DEF Intents
<1> HIDE DEF b1
<1>4. /\ with \in Seq(FlowBubble) /\ Len(with) \in Nat /\ DOMAIN with = 1..Len(with)
      /\ \A j \in 1..Len(with) : with[j] \in Bubble
  <2>1. Bubble \subseteq FlowBubble
    BY BubblesFlow
  <2>2. QED
    BY <2>1, Wider, Indexed
<1>5. /\ <<b1>> \in Seq(FlowBubble) /\ Len(<<b1>>) = 1 /\ <<b1>>[1] = b1
  BY <1>1
<1>6. /\ s \in Seq(FlowBubble) /\ Len(s) = 1 + Len(with)
      /\ \A i \in 1..1 : s[i] = <<b1>>[i]
      /\ \A j \in 1..Len(with) : s[1 + j] = with[j]
  BY <1>4, <1>5, Joined
<1> HIDE DEF s
<1>7. DOMAIN s = 1..(1 + Len(with)) /\ s[1] = b1 /\ s # <<>>
  <2>1. DOMAIN s = 1..Len(s) /\ (s = <<>> <=> Len(s) = 0)
    BY <1>6, Indexed
  <2>2. QED
    BY <1>4, <1>5, <1>6, <2>1
<1>8. \A j \in 1..Len(with) : /\ Solid(s, 1 + j) /\ s[1 + j].source \in {"inject", "system"}
                              /\ AnswersUnmarked => s[1 + j].source = "system"
  <2> SUFFICES ASSUME NEW j \in 1..Len(with)
               PROVE  /\ Solid(s, 1 + j) /\ s[1 + j].source \in {"inject", "system"}
                      /\ AnswersUnmarked => s[1 + j].source = "system"
    OBVIOUS
  <2>1. s[1 + j] = with[j] /\ 1 + j \in DOMAIN s
    BY <1>4, <1>6, <1>7
  <2>2. with[j].source \in {"inject", "system"} /\ with[j].intent # "delay"
    BY <1>4, BubblesFlow
  <2>3. AnswersUnmarked => with[j].source = "system"
    BY <1>4
  <2>4. QED
    BY <2>1, <2>2, <2>3 DEF Solid
<1>9. \A i \in DOMAIN s : i = 1 \/ \E j \in 1..Len(with) : i = 1 + j
  <2> SUFFICES ASSUME NEW i \in DOMAIN s, i # 1 PROVE \E j \in 1..Len(with) : i = 1 + j
    OBVIOUS
  <2>1. i - 1 \in 1..Len(with) /\ i = 1 + (i - 1)
    BY <1>4, <1>7
  <2>2. QED
    BY <2>1
<1>10. \A i \in DOMAIN s : Solid(s, i)
  <2>1. Solid(s, 1)
    BY <1>3, <1>4, <1>7 DEF Solid
  <2>2. QED
    BY <1>8, <1>9, <2>1
<1>11. SubstitutesFollowed(s)
  BY <1>3, <1>7, <1>8, <1>9 DEF SubstitutesFollowed
<1>12. OverridesFollowed(s)
  <2>1. \A i \in DOMAIN s : s[i].source = "override" => i = 1
    BY <1>8, <1>9
  <2>2. QED
    BY <1>3, <1>4, <1>7, <1>8, <2>1 DEF OverridesFollowed
<1>13. NoTwoDelays(s)
  BY <1>10 DEF NoTwoDelays
<1>14. 1 \in DOMAIN s
  BY <1>4, <1>7
<1>15. FlowOK(s) /\ s # <<>> /\ Solid(s, 1)
  BY <1>6, <1>7, <1>10, <1>11, <1>12, <1>13, <1>14 DEF FlowOK
<1>16. QED
  BY <1>15 DEF s, b1

(* A token adds to a flow what keeps it one. *)
LEMMA AddKeepsFlow ==
    ASSUME NEW f, FlowOK(f), NEW token \in Token, f # <<>> \/ token.form # "delay",
           token.form = "override" /\ AnswersUnmarked =>
               \A j \in DOMAIN token.with : token.with[j].source = "system"
    PROVE  /\ FlowOK(addBubble(f, token)) /\ addBubble(f, token) # <<>>
           /\ Solid(f, 1) \/ f = <<>> => Solid(addBubble(f, token), 1)
<1>1. f \in Seq(FlowBubble) /\ Len(f) \in Nat /\ DOMAIN f = 1..Len(f) /\ (f = <<>> <=> Len(f) = 0)
  <2>1. f \in Seq(FlowBubble)
    BY DEF FlowOK
  <2>2. QED
    BY <2>1, Indexed
<1>2. CASE token.form = "delay"
  <2>1. addBubble(f, token) = addDelay(f) /\ f # <<>>
    BY <1>2 DEF addBubble
  <2>2. Last(f) = f[Len(f)] /\ Len(f) \in DOMAIN f
    BY <1>1, <2>1 DEF Last
  <2>3. CASE Last(f).intent = "delay"
    BY <2>1, <2>3 DEF addDelay
  <2>4. CASE Last(f).intent # "delay"
    <3>1. Solid(f, Len(f))
      BY <2>2, <2>4 DEF Solid
    <3>2. DelayBubble \in FlowBubble /\ DelayBubble.source \in {"inject", "system"}
      BY DelayFlow
    <3>3. FlowOK(<<DelayBubble>>) /\ <<DelayBubble>> # <<>>
      BY <3>2, Alone
    <3>4. addDelay(f) = f \o <<DelayBubble>>
      BY <1>1, <2>4, <3>2, AppendIsConcat DEF addDelay
    <3>5. QED
      BY <2>1, <3>1, <3>3, <3>4, Glued
  <2>5. QED
    BY <2>3, <2>4
<1>3. CASE token.form = "plain"
  <2>1. token.bubble \in Bubble
    BY <1>3 DEF Token
  <2>2. token.bubble \in FlowBubble
    BY <2>1, BubblesFlow
  <2>3. FlowOK(<<token.bubble>>) /\ <<token.bubble>> # <<>> /\ Solid(<<token.bubble>>, 1)
    BY <2>1, BubblesFlow, Alone
  <2>4. addBubble(f, token) = f \o <<token.bubble>>
    BY <1>1, <1>3, <2>2, AppendIsConcat DEF addBubble
  <2>5. QED
    BY <2>3, <2>4, Glued
<1>4. CASE token.form = "substitute"
  <2>1. token.bubble \in Bubble
    BY <1>4 DEF Token
  <2>2. addBubble(f, token) = f \o <<[token.bubble EXCEPT !.source = "substitute", !.delay = FALSE],
                                     [token.bubble EXCEPT !.source = "system"]>>
    BY <1>4 DEF addBubble
  <2>3. QED
    BY <2>1, <2>2, SubstituteFlow, Glued
<1>5. CASE token.form = "override"
  <2> DEFINE b == [token.bubble EXCEPT !.source = "override", !.with = token.with]
  <2>1. token.bubble \in Bubble /\ token.with \in Seq(Bubble)
    BY <1>5 DEF Token
  <2>2. b \in FlowBubble /\ token.with \in Seq(FlowBubble)
    <3>1. Bubble \subseteq FlowBubble
      BY BubblesFlow
    <3>2. token.with \in Seq(FlowBubble)
      BY <2>1, <3>1, Wider
    <3>3. QED
      BY <2>1, <3>2, BubblesFlow
  <2>3. FlowOK(<<b>> \o token.with) /\ <<b>> \o token.with # <<>> /\ Solid(<<b>> \o token.with, 1)
    BY <1>5, <2>1, OverrideFlow
  <2>4. addBubble(f, token) = Append(f, b) \o token.with
    BY <1>5 DEF addBubble
  <2> HIDE DEF b
  <2>5. Append(f, b) \o token.with = f \o (<<b>> \o token.with)
    <3>1. f \in Seq(FlowBubble)
      BY <1>1
    <3>2. PICK q \in Seq(FlowBubble), x \in FlowBubble, w \in Seq(FlowBubble) : q = f /\ x = b /\ w = token.with
      BY <2>2, <3>1
    <3>3. Append(q, x) \o w = q \o (<<x>> \o w)
      BY AppendedThen
    <3>4. QED
      BY <3>2, <3>3
  <2>6. QED
    BY <2>3, <2>4, <2>5, Glued
<1>6. QED
  BY <1>2, <1>3, <1>4, <1>5 DEF Token

LEMMA FlowOfDefinition ==
    ASSUME NEW definition \in Definitions, definition[1].form # "delay"
    PROVE  /\ FlowOK(getWorkflowDefinition(definition))
           /\ Solid(getWorkflowDefinition(definition), 1)
<1> DEFINE N == Len(definition)
           Built(f, n) == f = [m \in 0..n |-> IF m = 0 THEN <<>> ELSE addBubble(f[m - 1], definition[m])]
<1>1. /\ definition \in Seq(Token) /\ N \in Nat /\ N # 0 /\ DOMAIN definition = 1..N
      /\ \A k \in 1..N : definition[k] \in Token
  <2>1. definition \in Seq(Token) /\ definition # <<>>
    BY BubblesAssumption
  <2>2. QED
    BY <2>1, Indexed
<1>2. \E f : Built(f, N)
  <2> SUFFICES ASSUME ~(\E f : Built(f, N)) PROVE FALSE
    OBVIOUS
  <2> DEFINE T == {n \in Nat : ~(\E f : Built(f, n))}
  <2>1. PICK n \in T : \A y \in T : n <= y
    <3>1. N \in T
      BY <1>1
    <3>2. QED
      BY <3>1, Least
  <2>2. n \in Nat
    OBVIOUS
  <2>3. n # 0
    <3>1. Built([m \in 0..0 |-> <<>>], 0)
      OBVIOUS
    <3>2. QED
      BY <3>1
  <2>4. PICK h \in Nat : n = h + 1
    BY <2>2, <2>3
  <2>5. PICK f : Built(f, h)
    <3>1. h \notin T
      <4>1. ~(n <= h)
        BY <2>4
      <4>2. QED
        BY <2>1, <4>1
    <3>2. QED
      BY <3>1
  <2> DEFINE g == [m \in 0..n |-> IF m = n THEN addBubble(f[h], definition[n]) ELSE f[m]]
  <2>6. Built(g, n)
    <3>1. \A m \in 0..h : f[m] = IF m = 0 THEN <<>> ELSE addBubble(f[m - 1], definition[m])
      BY <2>5
    <3>2. ASSUME NEW m \in 0..n
          PROVE  g[m] = IF m = 0 THEN <<>> ELSE addBubble(g[m - 1], definition[m])
      <4>1. CASE m = n
        <5>1. m - 1 = h /\ h \in 0..n /\ h # n /\ m # 0
          BY <2>4, <4>1
        <5>2. g[h] = f[h]
          BY <5>1
        <5>3. QED
          BY <4>1, <5>1, <5>2
      <4>2. CASE m # n
        <5>1. m \in 0..h
          BY <2>4, <4>2
        <5>2. g[m] = f[m]
          BY <4>2
        <5>3. CASE m = 0
          BY <3>1, <5>1, <5>2, <5>3
        <5>4. CASE m # 0
          <6>1. m - 1 \in 0..n /\ m - 1 # n
            BY <2>4, <5>1, <5>4
          <6>2. g[m - 1] = f[m - 1]
            BY <6>1
          <6>3. QED
            BY <3>1, <5>1, <5>2, <5>4, <6>2
        <5>5. QED
          BY <5>3, <5>4
      <4>3. QED
        BY <4>1, <4>2
    <3>3. QED
      BY <3>2
  <2>7. QED
    BY <2>6
<1>3. \E f : /\ Built(f, N) /\ getWorkflowDefinition(definition) = f[N]
  <2> DEFINE f == CHOOSE f : Built(f, N)
  <2>1. Built(f, N)
    BY <1>2
  <2>2. getWorkflowDefinition(definition) = f[N]
    BY DEF getWorkflowDefinition
  <2>3. QED
    BY <2>1, <2>2
<1>4. PICK f : Built(f, N) /\ getWorkflowDefinition(definition) = f[N]
  BY <1>3
<1>5. f[0] = <<>> /\ \A m \in 1..N : f[m] = addBubble(f[m - 1], definition[m])
  BY <1>1, <1>4
<1> HIDE DEF Built
<1> DEFINE Good(n) == n = 0 \/ (FlowOK(f[n]) /\ Solid(f[n], 1))
<1>6. Good(N)
  <2> SUFFICES ASSUME ~Good(N) PROVE FALSE
    OBVIOUS
  <2> DEFINE T == {n \in 1..N : ~Good(n)}
  <2>1. PICK n \in T : \A y \in T : n <= y
    <3>1. N \in T /\ T \subseteq Nat
      BY <1>1
    <3>2. QED
      BY <3>1, Least
  <2>2. n \in 1..N /\ ~Good(n)
    OBVIOUS
  <2>3. PICK h \in 0..N : n = h + 1
    BY <1>1, <2>2
  <2>4. Good(h)
    <3>1. h = 0 \/ (h \in 1..N /\ ~(n <= h))
      BY <1>1, <2>3
    <3>2. QED
      BY <2>1, <3>1
  <2>5. /\ FlowOK(f[h]) /\ (f[h] # <<>> \/ definition[n].form # "delay")
        /\ Solid(f[h], 1) \/ f[h] = <<>>
    <3>1. CASE h = 0
      <4>1. FlowOK(<<>>)
        BY DEF FlowOK, SubstitutesFollowed, OverridesFollowed, NoTwoDelays
      <4>2. QED
        BY <1>5, <2>3, <3>1, <4>1
    <3>2. CASE h # 0
      BY <2>4, <3>2 DEF Solid
    <3>3. QED
      BY <3>1, <3>2
  <2>6. definition[n] \in Token
    BY <1>1, <2>2
  <2>7. definition[n].form = "override" /\ AnswersUnmarked =>
            \A j \in DOMAIN definition[n].with : definition[n].with[j].source = "system"
    BY <1>1, <2>2 DEF AnswersUnmarked
  <2>8. f[n] = addBubble(f[h], definition[n])
    <3>1. f[n] = addBubble(f[n - 1], definition[n]) /\ n - 1 = h
      BY <1>5, <2>2, <2>3
    <3>2. QED
      BY <3>1
  <2>9. FlowOK(f[n]) /\ Solid(f[n], 1)
    BY <2>5, <2>6, <2>7, <2>8, AddKeepsFlow
  <2>10. QED
    BY <2>2, <2>9
<1>7. QED
  BY <1>1, <1>4, <1>6

-----------------------------------------------------------------------------
(* Moving along the flow *)

(* The bubbles that are messages. *)
Messages(f) == {k \in DOMAIN f : f[k].intent # "delay"}

(* What the test runner can send. *)
Sendable == {b \in FlowBubble : b.intent # "delay" /\ b.name \in DOMAIN TypeOf}

FlowInv(f) == FlowOK(f) /\ \A i : Solid(f, i) => f[i] \in Sendable

LEMMA FlowFacts ==
    ASSUME NEW f, FlowOK(f)
    PROVE  /\ f \in Seq(FlowBubble) /\ Len(f) \in Nat /\ DOMAIN f = 1..Len(f)
           /\ \A i \in 1..Len(f) : f[i] \in FlowBubble
           /\ (f = <<>> <=> Len(f) = 0)
  BY Indexed DEF FlowOK

LEMMA EmptyFlow == FlowInv(<<>>) /\ Len(<<>>) = 0 /\ Messages(<<>>) = {}
  BY DEF FlowInv, FlowOK, SubstitutesFollowed, OverridesFollowed, NoTwoDelays, Solid, Messages

(* The flow g is f with other delays. *)
SameFlow(f, g) ==
    /\ FlowInv(g) /\ Len(g) = Len(f) /\ Messages(g) = Messages(f)
    /\ DOMAIN g = DOMAIN f
    /\ \A i \in DOMAIN f : /\ g[i].intent = f[i].intent /\ g[i].source = f[i].source
                           /\ g[i].with = f[i].with /\ g[i].name = f[i].name

LEMMA DelayAdded ==
    ASSUME NEW f, FlowInv(f), NEW k \in DOMAIN f, NEW g, g = [f EXCEPT ![k].delay = TRUE]
    PROVE  SameFlow(f, g)
<1> DEFINE b == [f[k] EXCEPT !.delay = TRUE]
<1>1. /\ f \in Seq(FlowBubble) /\ Len(f) \in Nat /\ DOMAIN f = 1..Len(f)
      /\ \A i \in DOMAIN f : f[i] \in FlowBubble
  BY FlowFacts DEF FlowInv
<1>2. b \in FlowBubble /\ b.intent = f[k].intent /\ b.source = f[k].source
      /\ b.with = f[k].with /\ b.name = f[k].name
  <2>1. f[k] \in FlowRecord /\ Answerable(f[k])
    BY <1>1 DEF FlowBubble
  <2>2. b \in FlowRecord /\ b.intent = f[k].intent /\ b.source = f[k].source
        /\ b.with = f[k].with /\ b.name = f[k].name
    BY <2>1 DEF FlowRecord
  <2>3. Answerable(b)
    BY <2>1, <2>2 DEF Answerable
  <2>4. QED
    BY <2>2, <2>3 DEF FlowBubble
<1> HIDE DEF b
<1>3. g = [f EXCEPT ![k] = b]
  BY DEF b
<1>4. g \in Seq(FlowBubble)
  <2>1. g \in [1..Len(f) -> FlowBubble]
    BY <1>1, <1>2, <1>3
  <2>2. QED
    BY <1>1, <2>1, Listed
<1>5. DOMAIN g = DOMAIN f /\ Len(g) = Len(f)
  <2>1. DOMAIN g = DOMAIN f
    BY <1>3
  <2>2. QED
    BY <1>1, <1>4, <2>1, LenProperties
<1>6. \A i \in DOMAIN f : /\ g[i].intent = f[i].intent /\ g[i].source = f[i].source
                          /\ g[i].with = f[i].with /\ g[i].name = f[i].name
                          /\ g[i] \in FlowBubble
  BY <1>1, <1>2, <1>3
<1>7. \A i : Solid(g, i) <=> Solid(f, i)
  BY <1>5, <1>6 DEF Solid
<1>8. SubstitutesFollowed(g)
  <2> SUFFICES ASSUME NEW i \in DOMAIN f, f[i].source = "substitute"
               PROVE  Solid(g, i + 1) /\ g[i + 1].source = "system"
    BY <1>5, <1>6 DEF SubstitutesFollowed
  <2>1. Solid(f, i + 1) /\ f[i + 1].source = "system"
    BY DEF FlowInv, FlowOK, SubstitutesFollowed
  <2>2. QED
    BY <1>6, <1>7, <2>1 DEF Solid
<1>9. OverridesFollowed(g)
  <2> SUFFICES ASSUME NEW i \in DOMAIN g, g[i].source = "override", NEW j \in DOMAIN g[i].with
               PROVE  Solid(g, i + j) /\ (AnswersUnmarked => g[i + j].source = "system")
    BY DEF OverridesFollowed
  <2>0. i \in DOMAIN f /\ f[i].source = "override" /\ j \in DOMAIN f[i].with
    <3>1. g[i].with = f[i].with /\ g[i].source = f[i].source /\ i \in DOMAIN f
      BY <1>5, <1>6
    <3>2. QED
      BY <3>1
  <2>1. Solid(f, i + j) /\ (AnswersUnmarked => f[i + j].source = "system")
    BY <2>0 DEF FlowInv, FlowOK, OverridesFollowed
  <2>2. QED
    BY <1>6, <1>7, <2>1 DEF Solid
<1>10. NoTwoDelays(g)
  <2>1. NoTwoDelays(f)
    BY DEF FlowInv, FlowOK
  <2>2. QED
    BY <1>5, <1>7, <2>1 DEF NoTwoDelays
<1>11. \A i : Solid(g, i) => g[i] \in Sendable
  <2> SUFFICES ASSUME NEW i, Solid(f, i) PROVE g[i] \in Sendable
    BY <1>7
  <2>1. f[i] \in Sendable /\ i \in DOMAIN f
    BY DEF FlowInv, Solid
  <2>2. QED
    BY <1>6, <2>1 DEF Sendable
<1>12. Messages(g) = Messages(f)
  BY <1>5, <1>6 DEF Messages
<1>13. QED
  BY <1>4, <1>5, <1>6, <1>8, <1>9, <1>10, <1>11, <1>12 DEF FlowInv, FlowOK, SameFlow

LEMMA Between ==
    \A a, b \in Nat : /\ a + 2 <= b /\ a + 3 > b => a + 2 = b
                      /\ a + 1 <= b /\ a + 2 > b => a + 1 = b
                      /\ a <= b /\ a + 1 > b => a = b
  OBVIOUS

(* The next bubble: the one after that at index + 1, or after a delay. *)
LEMMA Moved ==
    ASSUME FlowOK(flow), index \in 0..Len(flow), index + 1 <= Len(flow)
    PROVE  /\ NextBubble \in Nat /\ NextBubble - 1 \in (index + 1)..Len(flow)
           /\ \/ NextBubble - 1 = index + 1
              \/ NextBubble - 1 = index + 2 /\ flow[index + 2].intent = "delay"
           /\ isLastMessage(NextBubble) => NextBubble - 1 = Len(flow)
           /\ NextBubble <= Len(flow) => Solid(flow, NextBubble)
<1>1. Len(flow) \in Nat /\ DOMAIN flow = 1..Len(flow) /\ index \in Nat
  BY FlowFacts
<1>2. CASE DelayFollows
  <2>1. NextBubble = index + 3 /\ index + 2 <= Len(flow) /\ flow[index + 2].intent = "delay"
    BY <1>2 DEF NextBubble, DelayFollows
  <2>2. index + 3 <= Len(flow) => Solid(flow, index + 3)
    <3>1. SUFFICES ASSUME index + 3 <= Len(flow) PROVE Solid(flow, index + 3)
      OBVIOUS
    <3>2. index + 2 \in DOMAIN flow /\ (index + 2) + 1 = index + 3 /\ index + 3 \in DOMAIN flow
      BY <1>1, <2>1, <3>1
    <3>3. Solid(flow, index + 2) \/ Solid(flow, (index + 2) + 1)
      BY <3>2 DEF FlowOK, NoTwoDelays
    <3>4. QED
      BY <2>1, <3>2, <3>3 DEF Solid
  <2>3. NextBubble \in Nat /\ NextBubble - 1 = index + 2
    BY <1>1, <2>1
  <2>4. NextBubble - 1 \in (index + 1)..Len(flow)
    BY <1>1, <2>1, <2>3
  <2>5. isLastMessage(NextBubble) => NextBubble - 1 = Len(flow)
    <3>1. isLastMessage(NextBubble) <=> index + 3 > Len(flow)
      BY <2>1 DEF isLastMessage
    <3>2. index + 3 > Len(flow) => index + 2 = Len(flow)
      <4>1. Len(flow) \in Nat /\ index \in Nat /\ index + 2 <= Len(flow)
        BY <1>1, <2>1
      <4>2. QED
        BY <4>1, Between
    <3>3. QED
      BY <2>3, <3>1, <3>2
  <2>6. NextBubble <= Len(flow) => Solid(flow, NextBubble)
    BY <2>1, <2>2
  <2>7. QED
    BY <2>1, <2>3, <2>4, <2>5, <2>6
<1>3. CASE ~DelayFollows
  <2>1. NextBubble = index + 2
    BY <1>3 DEF NextBubble
  <2>2. index + 2 <= Len(flow) => Solid(flow, index + 2)
    BY <1>1, <1>3 DEF DelayFollows, Solid
  <2>3. NextBubble \in Nat /\ NextBubble - 1 = index + 1
    BY <1>1, <2>1
  <2>4. NextBubble - 1 \in (index + 1)..Len(flow)
    BY <1>1, <2>3
  <2>5. isLastMessage(NextBubble) => NextBubble - 1 = Len(flow)
    <3>1. isLastMessage(NextBubble) <=> index + 2 > Len(flow)
      BY <2>1 DEF isLastMessage
    <3>2. index + 2 > Len(flow) => index + 1 = Len(flow)
      <4>1. Len(flow) \in Nat /\ index \in Nat /\ index + 1 <= Len(flow)
        BY <1>1
      <4>2. QED
        BY <4>1, Between
    <3>3. QED
      BY <2>3, <3>1, <3>2
  <2>6. NextBubble <= Len(flow) => Solid(flow, NextBubble)
    BY <2>1, <2>2
  <2>7. QED
    BY <2>3, <2>4, <2>5, <2>6
<1>4. QED
  BY <1>2, <1>3

LEMMA InjectedNext ==
    ASSUME FlowOK(flow), index \in 0..Len(flow), index + 1 <= Len(flow)
    PROVE  /\ Injected \in Seq(Nat)
           /\ \A j \in 1..Len(Injected) : Solid(flow, Injected[j]) /\ Injected[j] = NextBubble
                                          /\ flow[NextBubble].source = "inject"
           /\ Len(Injected) \in {0, 1}
           /\ Injected # <<>> => NextBubble \in DOMAIN flow /\ Len(Injected) = 1
<1>1. NextBubble \in Nat /\ (NextBubble <= Len(flow) => Solid(flow, NextBubble))
  BY Moved
<1>2. CASE NextBubble <= Len(flow) /\ flow[NextBubble].source = "inject"
  <2>1. Injected = <<NextBubble>>
    BY <1>2 DEF Injected
  <2>2. <<NextBubble>> \in Seq(Nat) /\ Len(<<NextBubble>>) = 1 /\ <<NextBubble>>[1] = NextBubble
    BY <1>1, One
  <2>3. Solid(flow, NextBubble) /\ NextBubble \in DOMAIN flow
    BY <1>1, <1>2 DEF Solid
  <2>4. QED
    BY <1>2, <2>1, <2>2, <2>3
<1>3. CASE ~(NextBubble <= Len(flow) /\ flow[NextBubble].source = "inject")
  <2>1. Injected = <<>>
    BY <1>3 DEF Injected
  <2>2. QED
    BY <2>1
<1>4. QED
  BY <1>2, <1>3

LEMMA AnswersNext ==
    ASSUME FlowOK(flow), index \in 0..Len(flow), index + 1 <= Len(flow)
    PROVE  /\ Answers \in Seq(Nat)
           /\ \A j \in 1..Len(Answers) : Solid(flow, Answers[j]) /\ Answers[j] = index + 1 + j
           /\ Answers # <<>> =>
                \/ /\ flow[index + 1].source = "substitute"
                   /\ Len(Answers) = 1
                   /\ Solid(flow, index + 2) /\ flow[index + 2].source = "system"
                \/ /\ flow[index + 1].source = "override"
                   /\ Len(Answers) = Len(flow[index + 1].with)
                   /\ Solid(flow, index + 2)
                   /\ AnswersUnmarked => flow[index + 2].source = "system"
<1> DEFINE b == flow[index + 1]
           n == Len(b.with)
<1>1. /\ index \in Nat /\ index + 1 \in DOMAIN flow /\ b \in FlowBubble
  BY FlowFacts
<1>2. b.with \in Seq(Bubble) /\ n \in Nat /\ DOMAIN b.with = 1..n
  <2>1. b.with \in Seq(Bubble)
    BY <1>1 DEF FlowBubble, FlowRecord
  <2>2. QED
    BY <2>1, Indexed
<1>3. CASE b.source = "substitute"
  <2>1. Answers = <<index + 2>>
    BY <1>3 DEF Answers
  <2>2. Solid(flow, (index + 1) + 1) /\ flow[(index + 1) + 1].source = "system"
    BY <1>1, <1>3 DEF FlowOK, SubstitutesFollowed
  <2>3. Solid(flow, index + 2) /\ flow[index + 2].source = "system"
    <3>1. (index + 1) + 1 = index + 2
      BY <1>1
    <3>2. QED
      BY <2>2, <3>1
  <2>4. <<index + 2>> \in Seq(Nat) /\ Len(<<index + 2>>) = 1 /\ <<index + 2>>[1] = index + 2
    BY <1>1, One
  <2>5. QED
    BY <1>1, <1>3, <2>1, <2>3, <2>4
<1>4. CASE b.source = "override"
  <2>1. Answers = [k \in 1..n |-> index + 1 + k]
    BY <1>2, <1>4 DEF Answers
  <2>2. Answers \in Seq(Nat) /\ Len(Answers) = n
    <3>1. Answers \in [1..n -> Nat]
      BY <1>1, <1>2, <2>1
    <3>2. QED
      BY <1>2, <3>1, Listed
  <2>3. \A k \in 1..n : Solid(flow, index + 1 + k) /\ (AnswersUnmarked => flow[index + 1 + k].source = "system")
    BY <1>1, <1>2, <1>4 DEF FlowOK, OverridesFollowed
  <2>4. \A j \in 1..Len(Answers) : Solid(flow, Answers[j]) /\ Answers[j] = index + 1 + j
    BY <2>1, <2>2, <2>3
  <2>5. ASSUME Answers # <<>>
        PROVE  Solid(flow, index + 2) /\ (AnswersUnmarked => flow[index + 2].source = "system")
    <3>1. n # 0
      BY <2>2, <2>5, Indexed
    <3>2. 1 \in 1..n /\ index + 1 + 1 = index + 2
      BY <1>1, <1>2, <3>1
    <3>3. QED
      BY <2>3, <3>2
  <2>6. QED
    BY <1>4, <2>2, <2>4, <2>5
<1>5. CASE b.source \notin {"substitute", "override"}
  <2>1. Answers = <<>>
    BY <1>5 DEF Answers
  <2>2. QED
    BY <2>1
<1>6. QED
  BY <1>3, <1>4, <1>5

-----------------------------------------------------------------------------
(* The invariant *)

Ended == index = Len(flow)

Command(m) == m.intent \in {"send", "sendReply"}

(* What a timer of the bus is about.  The bus complains of commands only   *)
(* after the flow.                                                         *)
Outgoing == {t \in [stage : {"outbound"}, message : Message] : t.message.type = BusError => Ended}

Incoming ==
    {t \in [stage : {"inbound"}, message : Message, number : 1..Len(observed)] :
        /\ observed[t.number] = t.message
        /\ t.message.type \notin Handled /\ Command(t.message) => Ended}

Delays == [bubble : Sendable, about : 0..Len(observed)]

Receivers == {n \in 1..Len(observed) : observed[n].type \in Handled}

(* The messages of the flow that were passed. *)
Passed == Cardinality(Upto(Messages(flow), index))

NothingYet ==
    /\ flow = <<>> /\ index = 0 /\ terminate = NoType
    /\ observed = <<>> /\ timers = <<>> /\ delayed = {} /\ handling = {}
    /\ completions = 0 /\ ~isComplete /\ dispatched = <<>>

ErrorsLate == \A i \in 1..Len(observed) : observed[i].type = BusError => i > Cardinality(Messages(flow))

BubblesInv ==
    /\ FlowInv(flow)
    /\ index \in 0..Len(flow)
    /\ observed \in Seq(Message)
    /\ timers \in Seq(Outgoing \cup Incoming)
    /\ delayed \in SUBSET Delays
    /\ handling \in SUBSET Receivers
    /\ completions \in Nat
    /\ completions > 0 \/ isComplete => Ended
    /\ status = "resolved" => isComplete
    /\ terminate # NoType => flow = <<>>
    /\ status = "idle" => NothingYet
    /\ Passed <= Len(observed)
    /\ ErrorsLate

LEMMA BubblesInit == Init => BubblesInv
<1> SUFFICES ASSUME Init PROVE BubblesInv
  OBVIOUS
<1>1. FlowInv(flow) /\ Len(flow) = 0 /\ Messages(flow) = {}
  BY EmptyFlow DEF Init
<1>2. index = 0 /\ index \in 0..Len(flow)
  BY <1>1 DEF Init
<1>3. observed = <<>> /\ observed \in Seq(Message) /\ Len(observed) = 0
  BY DEF Init
<1>4. timers \in Seq(Outgoing \cup Incoming)
  BY DEF Init
<1>5. delayed \in SUBSET Delays /\ handling \in SUBSET Receivers /\ completions \in Nat
  BY DEF Init
<1>6. ~isComplete /\ completions = 0 /\ status = "idle" /\ terminate = NoType
  BY DEF Init
<1>7. NothingYet
  BY DEF Init, NothingYet
<1>8. Passed = 0
  <2>1. Upto(Messages(flow), index) = {}
    BY <1>1 DEF Upto
  <2>2. QED
    BY <2>1, FS_EmptySet DEF Passed
<1>9. ErrorsLate
  BY <1>3 DEF ErrorsLate
<1>10. Ended
  BY <1>1, <1>2 DEF Ended
<1>11. QED
  BY <1>1, <1>2, <1>3, <1>4, <1>5, <1>6, <1>7, <1>8, <1>9, <1>10 DEF BubblesInv

-----------------------------------------------------------------------------
(* What is sent *)

Ordinary == {m \in Message : m.type # BusError}

LEMMA SentIsOrdinary ==
    ASSUME NEW b \in Sendable, observed' \in Seq(Message), NEW about \in 0..Len(observed'), ~Lost(b, about)
    PROVE  Sent(b, about) \in Ordinary
<1>1. Len(observed') \in Nat /\ \A i \in 1..Len(observed') : observed'[i] \in Message
  BY Indexed
<1>2. about \in Nat
  BY <1>1
<1>3. b \in FlowRecord /\ Answerable(b) /\ b.intent \in Intents /\ b.name \in DOMAIN TypeOf
  <2>1. b \in FlowRecord /\ Answerable(b) /\ b.intent # "delay" /\ b.name \in DOMAIN TypeOf
    BY DEF Sendable, FlowBubble
  <2>2. b.intent \in Intents
    BY <2>1 DEF FlowRecord
  <2>3. QED
    BY <2>1, <2>2
<1>4. TypeOf[b.name] \in STRING \ {NoType, BusError}
  BY <1>3, BubblesAssumption
<1>5. CASE b.intent = "reply"
  <2>1. about # 0 /\ observed'[about].intent = "sendReply"
    BY <1>5 DEF Lost
  <2>2. observed'[about] \in Message
    BY <1>1, <1>2, <2>1
  <2>3. observed'[about].type \in DOMAIN ReplyType
    BY <2>1, <2>2 DEF Message
  <2>4. ReplyType[observed'[about].type] \in STRING \ {NoType, BusError}
    BY <2>3, BubblesAssumption
  <2>5. PICK type : type = ReplyType[observed'[about].type]
    OBVIOUS
  <2>6. Sent(b, about) = [type |-> type, intent |-> "reply", replyTo |-> about]
    BY <1>5, <2>5 DEF Sent
  <2>7. [type |-> type, intent |-> "reply", replyTo |-> about] \in Ordinary
    BY <1>2, <2>4, <2>5 DEF Ordinary, Message, Intents
  <2>8. QED
    BY <2>6, <2>7
<1>6. CASE b.intent # "reply"
  <2>1. PICK type : type = TypeOf[b.name]
    OBVIOUS
  <2>2. Sent(b, about) = [type |-> type, intent |-> b.intent, replyTo |-> 0]
    BY <1>6, <2>1 DEF Sent
  <2>3. b.intent = "sendReply" => type \in DOMAIN ReplyType
    BY <1>3, <2>1 DEF Answerable
  <2>4. type \in STRING \ {NoType, BusError}
    BY <1>4, <2>1
  <2>5. [type |-> type, intent |-> b.intent, replyTo |-> 0] \in Ordinary
    BY <1>3, <2>3, <2>4 DEF Ordinary, Message
  <2>6. QED
    BY <2>2, <2>5
<1>7. QED
  BY <1>5, <1>6

LEMMA OutboundTimers ==
    ASSUME NEW T, NEW M, \A m \in M : [stage |-> "outbound", message |-> m] \in T, NEW q \in Seq(M)
    PROVE  Outbound(q) \in Seq(T)
<1>1. Len(q) \in Nat /\ DOMAIN q = 1..Len(q) /\ \A i \in 1..Len(q) : q[i] \in M
  BY Indexed
<1>2. Outbound(q) \in [1..Len(q) -> T]
  BY <1>1 DEF Outbound
<1>3. QED
  BY <1>1, <1>2, Listed

(* The bubbles numbered ks go to timers: T are timers, D those with a delay. *)
LEMMA Dispatched ==
    ASSUME NEW ks \in Seq(Nat), NEW f, FlowInv(f), \A j \in 1..Len(ks) : Solid(f, ks[j]),
           observed' \in Seq(Message), NEW about \in 0..Len(observed'),
           NEW T, \A m \in Ordinary : [stage |-> "outbound", message |-> m] \in T,
           NEW D, \A b \in Sendable : [bubble |-> b, about |-> about] \in D, delayed \in SUBSET D,
           NEW before \in Seq(T), NEW after \in Seq(T),
           Dispatch(ks, f, about, before, after)
    PROVE  /\ timers' \in Seq(T) /\ delayed' \in SUBSET D /\ dispatched' = dispatched \o ks
<1> DEFINE I == {j \in DOMAIN ks : ~f[ks[j]].delay /\ ~Lost(f[ks[j]], about)}
           now == Select(ks, I)
           out == [j \in DOMAIN now |-> Sent(f[now[j]], about)]
<1>1. Len(ks) \in Nat /\ DOMAIN ks = 1..Len(ks)
  BY Indexed
<1>2. \A j \in DOMAIN ks : f[ks[j]] \in Sendable
  BY <1>1 DEF FlowInv
<1>3. /\ Cardinality(I) \in Nat /\ now \in Seq(Nat) /\ Len(now) = Cardinality(I)
      /\ \A i \in 1..Cardinality(I) : \E k \in I : now[i] = ks[k]
  <2>1. I \in SUBSET DOMAIN ks
    OBVIOUS
  <2> HIDE DEF I
  <2>2. QED
    BY <2>1, Selected
<1>4. \A k \in I : f[ks[k]] \in Sendable /\ ~Lost(f[ks[k]], about)
  BY <1>2
<1>5. timers' = before \o Outbound(out) \o after
  BY DEF Dispatch
<1>6. DOMAIN now = 1..Len(now) /\ Len(now) \in Nat
  BY <1>3, Indexed
<1> HIDE DEF I, now
<1>7. ASSUME NEW j \in 1..Len(now)
      PROVE  Sent(f[now[j]], about) \in Ordinary
  <2>1. PICK k \in I : now[j] = ks[k]
    BY <1>3
  <2>2. f[now[j]] \in Sendable /\ ~Lost(f[now[j]], about)
    BY <1>4, <2>1
  <2>3. QED
    BY <2>2, SentIsOrdinary
<1>8. out \in Seq(Ordinary)
  <2>1. out \in [1..Len(now) -> Ordinary]
    BY <1>6, <1>7
  <2>2. QED
    BY <1>6, <2>1, Listed
<1> HIDE DEF out
<1>9. Outbound(out) \in Seq(T)
  BY <1>8, OutboundTimers
<1>10. timers' \in Seq(T)
  <2>1. before \o Outbound(out) \in Seq(T)
    BY <1>9, Joined
  <2>2. QED
    BY <1>5, <2>1, Joined
<1>11. delayed' \in SUBSET D
  <2>1. delayed' = delayed \cup {[bubble |-> f[k], about |-> about] : k \in {j \in ToSet(ks) : f[j].delay}}
    BY DEF Dispatch
  <2>2. \A k \in ToSet(ks) : f[k] \in Sendable
    BY <1>2 DEF ToSet
  <2>3. QED
    BY <2>1, <2>2
<1>12. dispatched' = dispatched \o ks
  BY DEF Dispatch
<1>13. QED
  BY <1>10, <1>11, <1>12

(* Timers stay what they are while more is observed and an ended flow is   *)
(* an ended flow.                                                          *)
LEMMA TimersStay ==
    ASSUME observed \in Seq(Message), observed' \in Seq(Message), Len(observed) <= Len(observed'),
           \A i \in 1..Len(observed) : observed'[i] = observed[i], Ended => Ended'
    PROVE  /\ Outgoing \cup Incoming \subseteq Outgoing' \cup Incoming'
           /\ Delays \subseteq Delays' /\ Receivers \subseteq Receivers'
           /\ \A m \in Ordinary : [stage |-> "outbound", message |-> m] \in Outgoing' \cup Incoming'
<1>1. Len(observed) \in Nat /\ Len(observed') \in Nat
  BY LenProperties
<1>2. 1..Len(observed) \subseteq 1..Len(observed') /\ 0..Len(observed) \subseteq 0..Len(observed')
  BY <1>1
<1>3. Outgoing \subseteq Outgoing' /\ Incoming \subseteq Incoming'
  BY <1>2 DEF Outgoing, Incoming
<1>4. Delays \subseteq Delays'
  BY <1>2 DEF Delays
<1>5. Receivers \subseteq Receivers'
  BY <1>2 DEF Receivers
<1>6. \A m \in Ordinary : [stage |-> "outbound", message |-> m] \in Outgoing'
  BY DEF Ordinary, Outgoing
<1>7. QED
  BY <1>3, <1>4, <1>5, <1>6

-----------------------------------------------------------------------------
(* The steps *)

Timer == Outgoing \cup Incoming

(* A step of something else. *)
LEMMA Unmoved ==
    ASSUME BubblesInv, flow' = flow, index' = index, observed' = observed, terminate' = terminate
    PROVE  /\ FlowInv(flow') /\ index' \in 0..Len(flow') /\ observed' \in Seq(Message)
           /\ terminate' # NoType => flow' = <<>>
           /\ Passed' <= Len(observed') /\ ErrorsLate' /\ (Ended' <=> Ended)
           /\ timers \in Seq(Timer') /\ delayed \in SUBSET Delays' /\ handling \in SUBSET Receivers'
           /\ \A m \in Ordinary : [stage |-> "outbound", message |-> m] \in Timer'
<1>1. FlowInv(flow') /\ index' \in 0..Len(flow') /\ observed' \in Seq(Message)
      /\ (terminate' # NoType => flow' = <<>>)
  BY DEF BubblesInv
<1>2. Passed' <= Len(observed') /\ ErrorsLate'
  BY DEF BubblesInv, Passed, ErrorsLate
<1>3. Ended' <=> Ended
  BY DEF Ended
<1>4. Len(observed) \in Nat
  BY LenProperties DEF BubblesInv
<1>5. /\ Timer \subseteq Timer' /\ Delays \subseteq Delays' /\ Receivers \subseteq Receivers'
      /\ \A m \in Ordinary : [stage |-> "outbound", message |-> m] \in Timer'
  <2>1. Len(observed) <= Len(observed') /\ \A i \in 1..Len(observed) : observed'[i] = observed[i]
    BY <1>4
  <2>2. observed \in Seq(Message)
    BY DEF BubblesInv
  <2>3. QED
    BY <1>1, <1>3, <2>1, <2>2, TimersStay DEF Timer
<1>6. timers \in Seq(Timer) /\ delayed \in SUBSET Delays /\ handling \in SUBSET Receivers
  BY DEF BubblesInv, Timer
<1>7. timers \in Seq(Timer')
  BY <1>5, <1>6, Wider
<1>8. QED
  BY <1>1, <1>2, <1>3, <1>5, <1>6, <1>7

LEMMA HeadOfTimers ==
    ASSUME BubblesInv, timers # <<>>
    PROVE  /\ Head(timers) \in Outgoing \/ Head(timers) \in Incoming
           /\ Tail(timers) \in Seq(Timer)
           /\ Head(timers).stage = "outbound" => Head(timers) \in Outgoing
           /\ Head(timers).stage = "inbound" => Head(timers) \in Incoming
           /\ Head(timers).message \in Message
<1>1. timers \in Seq(Timer)
  BY DEF BubblesInv, Timer
<1>2. Head(timers) \in Timer /\ Tail(timers) \in Seq(Timer)
  BY <1>1, Behind
<1>3. \A t \in Outgoing : t.stage = "outbound" /\ t.message \in Message
  BY DEF Outgoing
<1>4. \A t \in Incoming : t.stage = "inbound" /\ t.message \in Message
  BY DEF Incoming
<1>5. QED
  BY <1>2, <1>3, <1>4 DEF Timer

LEMMA ExecuteUntilKeeps ==
    ASSUME BubblesInv, NEW call \in Until, ExecuteUntil(call[1], call[2])
    PROVE  BubblesInv'
<1>1. NothingYet
  BY DEF ExecuteUntil, BubblesInv
<1>2. call[1] \in Message
  BY BubblesAssumption
<1>3. /\ flow' = <<>> /\ index' = 0 /\ observed' = <<>> /\ delayed' = {} /\ handling' = {}
      /\ completions' = 0 /\ ~isComplete' /\ status' = "running"
      /\ timers' = Outbound(<<call[1]>>)
  BY <1>1 DEF ExecuteUntil, NothingYet
<1>4. FlowInv(flow') /\ Len(flow') = 0 /\ Messages(flow') = {}
  BY <1>3, EmptyFlow
<1>5. Ended' /\ index' \in 0..Len(flow')
  BY <1>3, <1>4 DEF Ended
<1>6. timers' \in Seq((Outgoing \cup Incoming)')
  <2>1. \A m \in Message : [stage |-> "outbound", message |-> m] \in Outgoing'
    BY <1>5 DEF Outgoing
  <2>2. <<call[1]>> \in Seq(Message)
    BY <1>2, One
  <2>3. Outbound(<<call[1]>>) \in Seq(Outgoing' \cup Incoming')
    BY <2>1, <2>2, OutboundTimers
  <2>4. QED
    BY <1>3, <2>3
<1>7. Passed' <= Len(observed')
  <2>1. Passed' = Cardinality(Upto(Messages(flow'), index'))
    BY DEF Passed
  <2>2. Upto(Messages(flow'), index') = {}
    BY <1>4 DEF Upto
  <2>3. Len(observed') = 0
    BY <1>3
  <2>4. QED
    BY <2>1, <2>2, <2>3, FS_EmptySet
<1>8. ErrorsLate' /\ observed' \in Seq(Message)
  BY <1>3 DEF ErrorsLate
<1>9. delayed' \in SUBSET Delays' /\ handling' \in SUBSET Receivers' /\ completions' \in Nat
  BY <1>3
<1>10. QED
  BY <1>3, <1>4, <1>5, <1>6, <1>7, <1>8, <1>9 DEF BubblesInv

LEMMA ExecuteKeeps ==
    ASSUME BubblesInv, NEW definition \in Definitions, Execute(definition)
    PROVE  BubblesInv' /\ dispatched' \in {<<>>, <<1>>}
<1>1. /\ flow = <<>> /\ index = 0 /\ terminate = NoType /\ observed = <<>> /\ timers = <<>>
      /\ delayed = {} /\ handling = {} /\ completions = 0 /\ ~isComplete /\ dispatched = <<>>
  BY DEF Execute, BubblesInv, NothingYet
<1>2. /\ index' = 0 /\ terminate' = NoType /\ observed' = <<>> /\ handling' = {}
      /\ completions' = 0 /\ ~isComplete'
  BY <1>1 DEF Execute
<1>3. observed' \in Seq(Message) /\ Len(observed') = 0 /\ ErrorsLate'
  BY <1>2 DEF ErrorsLate
<1>4. CASE Faulty(definition)
  <2>1. /\ status' = "rejected" /\ flow' = flow /\ timers' = timers /\ delayed' = delayed
        /\ dispatched' = dispatched
    BY <1>4 DEF Execute
  <2>2. /\ FlowInv(flow') /\ index' \in 0..Len(flow') /\ Passed' <= Len(observed')
        /\ timers' \in Seq(Timer') /\ delayed' \in SUBSET Delays' /\ handling' \in SUBSET Receivers'
    BY <1>1, <1>2, <2>1, Unmoved
  <2>3. BubblesInv'
    BY <1>2, <1>3, <2>1, <2>2 DEF BubblesInv, Timer
  <2>4. QED
    BY <1>1, <2>1, <2>3
<1>5. CASE ~Faulty(definition)
  <2> DEFINE f == getWorkflowDefinition(definition)
  <2>1. /\ status' = "running" /\ flow' = f /\ Dispatch(<<1>>, flow', 0, timers, <<>>)
    BY <1>5 DEF Execute
  <2>2. /\ definition[1].form # "delay"
        /\ \A k \in DOMAIN f : f[k].intent # "delay" => f[k].name \in DOMAIN TypeOf
    BY <1>5 DEF Faulty
  <2>3. FlowOK(f) /\ Solid(f, 1)
    BY <2>2, FlowOfDefinition
  <2>4. FlowInv(f)
    <3>1. \A i \in DOMAIN f : f[i] \in FlowBubble
      BY <2>3, FlowFacts
    <3> HIDE DEF f
    <3>2. QED
      BY <2>2, <2>3, <3>1 DEF FlowInv, Solid, Sendable
  <2> HIDE DEF f
  <2>5. Len(flow') \in Nat /\ Len(flow') # 0 /\ FlowInv(flow') /\ Solid(flow', 1)
    BY <2>1, <2>3, <2>4, FlowFacts DEF Solid
  <2>6. index' \in 0..Len(flow') /\ Passed' <= Len(observed')
    <3>1. Messages(flow') \in SUBSET (1..Len(flow'))
      BY <2>1, <2>3, FlowFacts DEF Messages
    <3>2. Cardinality(Upto(Messages(flow'), 0)) = 0
      BY <2>5, <3>1, Counts
    <3>3. Passed' = Cardinality(Upto(Messages(flow'), index'))
      BY DEF Passed
    <3>4. QED
      BY <1>2, <1>3, <2>5, <3>2, <3>3
  <2>7. timers' \in Seq(Timer') /\ delayed' \in SUBSET Delays' /\ dispatched' = dispatched \o <<1>>
    <3>1. \A m \in Ordinary : [stage |-> "outbound", message |-> m] \in Timer'
      BY DEF Timer, Outgoing, Ordinary
    <3>2. \A b \in Sendable : [bubble |-> b, about |-> 0] \in Delays'
      BY <1>3 DEF Delays
    <3>3. <<1>> \in Seq(Nat) /\ \A j \in 1..Len(<<1>>) : Solid(flow', <<1>>[j])
      BY <2>5
    <3>4. timers \in Seq(Timer') /\ <<>> \in Seq(Timer') /\ delayed \in SUBSET Delays'
      BY <1>1
    <3>5. 0 \in 0..Len(observed')
      BY <1>3
    <3>6. QED
      BY <1>3, <2>1, <2>5, <3>1, <3>2, <3>3, <3>4, <3>5, Dispatched
  <2>8. dispatched' = <<1>>
    BY <1>1, <2>7
  <2>9. BubblesInv'
    BY <1>2, <1>3, <2>1, <2>5, <2>6, <2>7 DEF BubblesInv, Timer
  <2>10. QED
    BY <2>8, <2>9
<1>6. QED
  BY <1>4, <1>5

LEMMA DelayElapsesKeeps ==
    ASSUME BubblesInv, NEW d \in delayed, DelayElapses(d)
    PROVE  BubblesInv'
<1>1. /\ delayed' = delayed \ {d} /\ flow' = flow /\ index' = index /\ terminate' = terminate
      /\ status' = status /\ isComplete' = isComplete /\ observed' = observed
      /\ completions' = completions /\ handling' = handling /\ dispatched' = dispatched
  BY DEF DelayElapses
<1>2. status # "idle"
  BY DEF BubblesInv, NothingYet
<1>3. /\ FlowInv(flow') /\ index' \in 0..Len(flow') /\ observed' \in Seq(Message)
      /\ terminate' # NoType => flow' = <<>>
      /\ Passed' <= Len(observed') /\ ErrorsLate' /\ (Ended' <=> Ended)
      /\ timers \in Seq(Timer') /\ delayed \in SUBSET Delays' /\ handling \in SUBSET Receivers'
      /\ \A m \in Ordinary : [stage |-> "outbound", message |-> m] \in Timer'
  BY <1>1, Unmoved
<1>4. d.bubble \in Sendable /\ d.about \in 0..Len(observed')
  <2>1. d \in Delays'
    BY <1>3
  <2>2. QED
    BY <2>1 DEF Delays
<1>5. timers' \in Seq(Timer')
  <2>1. CASE Lost(d.bubble, d.about)
    <3>1. timers' = timers \o <<>>
      BY <2>1 DEF DelayElapses
    <3>2. <<>> \in Seq(Timer')
      OBVIOUS
    <3>3. QED
      BY <1>3, <3>1, <3>2, Joined
  <2>2. CASE ~Lost(d.bubble, d.about)
    <3>1. timers' = timers \o Outbound(<<Sent(d.bubble, d.about)>>)
      BY <2>2 DEF DelayElapses
    <3>2. Sent(d.bubble, d.about) \in Ordinary
      BY <1>3, <1>4, <2>2, SentIsOrdinary
    <3>3. <<Sent(d.bubble, d.about)>> \in Seq(Ordinary)
      BY <3>2, One
    <3>4. Outbound(<<Sent(d.bubble, d.about)>>) \in Seq(Timer')
      BY <1>3, <3>3, OutboundTimers
    <3>5. QED
      BY <1>3, <3>1, <3>4, Joined
  <2>3. QED
    BY <2>1, <2>2
<1>6. delayed' \in SUBSET Delays' /\ handling' \in SUBSET Receivers'
  BY <1>1, <1>3
<1>7. /\ completions' \in Nat /\ (completions' > 0 \/ isComplete' => Ended')
      /\ status' = "resolved" => isComplete'
      /\ status' # "idle"
  BY <1>1, <1>2, <1>3 DEF BubblesInv
<1>8. QED
  BY <1>3, <1>5, <1>6, <1>7 DEF BubblesInv, Timer

LEMMA CompleteKeeps ==
    ASSUME BubblesInv, Complete
    PROVE  BubblesInv'
<1>1. /\ completions > 0 /\ completions' = completions - 1 /\ isComplete' = TRUE
      /\ status' = IF status = "running" THEN "resolved" ELSE status
      /\ flow' = flow /\ index' = index /\ terminate' = terminate /\ observed' = observed
      /\ timers' = timers /\ delayed' = delayed /\ handling' = handling
  BY DEF Complete
<1>2. /\ FlowInv(flow') /\ index' \in 0..Len(flow') /\ observed' \in Seq(Message)
      /\ terminate' # NoType => flow' = <<>>
      /\ Passed' <= Len(observed') /\ ErrorsLate' /\ (Ended' <=> Ended)
      /\ timers' \in Seq(Timer') /\ delayed' \in SUBSET Delays' /\ handling' \in SUBSET Receivers'
  BY <1>1, Unmoved
<1>3. Ended' /\ completions' \in Nat
  BY <1>1, <1>2 DEF BubblesInv
<1>4. status # "idle"
  BY <1>1 DEF BubblesInv, NothingYet
<1>5. status' # "idle" /\ isComplete'
  BY <1>1, <1>4
<1>6. QED
  BY <1>2, <1>3, <1>5 DEF BubblesInv, Timer

LEMMA ReceiveKeeps ==
    ASSUME BubblesInv, Receive
    PROVE  BubblesInv'
<1> DEFINE m == Head(timers).message
           error == [type |-> BusError, intent |-> "publish", replyTo |-> 0]
<1>1. /\ timers # <<>> /\ Head(timers).stage = "inbound"
      /\ flow' = flow /\ index' = index /\ terminate' = terminate
      /\ status' = status /\ isComplete' = isComplete /\ observed' = observed
      /\ completions' = completions /\ delayed' = delayed /\ dispatched' = dispatched
  BY DEF Receive
<1>2. status # "idle"
  BY <1>1 DEF BubblesInv, NothingYet
<1>3. /\ FlowInv(flow') /\ index' \in 0..Len(flow') /\ observed' \in Seq(Message)
      /\ terminate' # NoType => flow' = <<>>
      /\ Passed' <= Len(observed') /\ ErrorsLate' /\ (Ended' <=> Ended)
      /\ timers \in Seq(Timer') /\ delayed \in SUBSET Delays' /\ handling \in SUBSET Receivers'
  BY <1>1, Unmoved
<1>4. Head(timers) \in Incoming
  BY <1>1, HeadOfTimers
<1>5. /\ m \in Message /\ Head(timers).number \in 1..Len(observed)
      /\ observed[Head(timers).number] = m
      /\ m.type \notin Handled /\ Command(m) => Ended
  BY <1>4 DEF Incoming
<1>6. Tail(timers) \in Seq(Timer')
  BY <1>1, <1>3, Behind
<1>7. timers' \in Seq(Timer')
  <2>1. CASE m.type \notin Handled /\ m.intent \in {"send", "sendReply"}
    <3>1. timers' = Tail(timers) \o Outbound(<<error>>)
      BY <2>1 DEF Receive
    <3>2. Ended'
      BY <1>3, <1>5, <2>1 DEF Command
    <3>3. error \in Message
      BY BubblesAssumption DEF Message, Intents
    <3>4. \A x \in Message : [stage |-> "outbound", message |-> x] \in Timer'
      BY <3>2 DEF Timer, Outgoing
    <3> HIDE DEF error
    <3>5. Outbound(<<error>>) \in Seq(Timer')
      <4>1. <<error>> \in Seq(Message)
        BY <3>3, One
      <4>2. QED
        BY <3>4, <4>1, OutboundTimers
    <3>6. QED
      BY <1>6, <3>1, <3>5, Joined
  <2>2. CASE ~(m.type \notin Handled /\ m.intent \in {"send", "sendReply"})
    <3>1. timers' = Tail(timers) \o <<>>
      BY <2>2 DEF Receive
    <3>2. <<>> \in Seq(Timer')
      OBVIOUS
    <3>3. QED
      BY <1>6, <3>1, <3>2, Joined
  <2>3. QED
    BY <2>1, <2>2
<1>8. handling' \in SUBSET Receivers'
  <2>1. CASE m.type \in Handled
    <3>1. handling' = handling \cup {Head(timers).number}
      BY <2>1 DEF Receive
    <3>2. Head(timers).number \in Receivers'
      BY <1>1, <1>5, <2>1 DEF Receivers
    <3>3. QED
      BY <1>3, <3>1, <3>2
  <2>2. CASE m.type \notin Handled
    <3>1. handling' = handling
      BY <2>2 DEF Receive
    <3>2. QED
      BY <1>3, <3>1
  <2>3. QED
    BY <2>1, <2>2
<1>9. /\ completions' \in Nat /\ (completions' > 0 \/ isComplete' => Ended')
      /\ status' = "resolved" => isComplete'
      /\ status' # "idle" /\ delayed' \in SUBSET Delays'
  BY <1>1, <1>2, <1>3 DEF BubblesInv
<1>10. QED
  BY <1>3, <1>7, <1>8, <1>9 DEF BubblesInv, Timer

LEMMA HandlerSendsKeeps ==
    ASSUME BubblesInv, NEW n \in handling, NEW m \in Reactions[observed[n].type], HandlerSends(n, m)
    PROVE  BubblesInv'
<1>1. /\ flow' = flow /\ index' = index /\ terminate' = terminate
      /\ status' = status /\ isComplete' = isComplete /\ observed' = observed
      /\ completions' = completions /\ delayed' = delayed /\ handling' = handling
      /\ dispatched' = dispatched
      /\ timers' = timers \o Outbound(<<m>>)
  BY DEF HandlerSends
<1>2. status # "idle"
  BY DEF BubblesInv, NothingYet
<1>3. /\ FlowInv(flow') /\ index' \in 0..Len(flow') /\ observed' \in Seq(Message)
      /\ terminate' # NoType => flow' = <<>>
      /\ Passed' <= Len(observed') /\ ErrorsLate' /\ (Ended' <=> Ended)
      /\ timers \in Seq(Timer') /\ delayed \in SUBSET Delays' /\ handling \in SUBSET Receivers'
      /\ \A x \in Ordinary : [stage |-> "outbound", message |-> x] \in Timer'
  BY <1>1, Unmoved
<1>4. m \in Ordinary
  <2>1. observed[n].type \in Handled
    BY DEF BubblesInv, Receivers
  <2>2. QED
    BY <2>1, BubblesAssumption DEF Ordinary
<1>5. timers' \in Seq(Timer')
  <2>1. <<m>> \in Seq(Ordinary)
    BY <1>4, One
  <2>2. Outbound(<<m>>) \in Seq(Timer')
    BY <1>3, <2>1, OutboundTimers
  <2>3. QED
    BY <1>1, <1>3, <2>2, Joined
<1>6. /\ completions' \in Nat /\ (completions' > 0 \/ isComplete' => Ended')
      /\ status' = "resolved" => isComplete'
      /\ status' # "idle" /\ delayed' \in SUBSET Delays' /\ handling' \in SUBSET Receivers'
  BY <1>1, <1>2, <1>3 DEF BubblesInv
<1>7. QED
  BY <1>3, <1>5, <1>6 DEF BubblesInv, Timer

-----------------------------------------------------------------------------
(* A message is observed *)

LEMMA PassedOn ==
    ASSUME observed' \in Seq(Message), NEW n \in 1..Len(observed'), NEW m \in Message, observed'[n] = m,
           NEW handled, handled \/ ~handled, ~handled /\ m.type \notin Handled /\ Command(m) => Ended'
    PROVE  PassOn(m, n, handled) \in Seq(Timer')
<1>1. CASE handled
  <2>1. PassOn(m, n, handled) = <<>>
    BY <1>1 DEF PassOn
  <2>2. QED
    BY <2>1
<1>2. CASE ~handled
  <2>1. PassOn(m, n, handled) = <<[stage |-> "inbound", message |-> m, number |-> n]>>
    BY <1>2 DEF PassOn
  <2>2. [stage |-> "inbound", message |-> m, number |-> n] \in Incoming'
    BY <1>2 DEF Incoming
  <2>3. <<[stage |-> "inbound", message |-> m, number |-> n]>> \in Seq(Timer')
    BY <2>2, One DEF Timer
  <2>4. QED
    BY <2>1, <2>3
<1>3. QED
  BY <1>1, <1>2

(* What every way of observing a message has to show. *)
LEMMA Watched ==
    ASSUME BubblesInv, Observe,
           FlowInv(flow'), Len(flow') = Len(flow), Messages(flow') = Messages(flow),
           index' \in 0..Len(flow'), Ended => Ended', flow = <<>> => flow' = <<>>,
           completions' \in Nat, completions' > 0 \/ isComplete => Ended',
           Passed' <= Passed + 1,
           timers' \in Seq(Timer'), delayed' \in SUBSET Delays'
    PROVE  BubblesInv'
<1> DEFINE m == Head(timers).message
<1>1. /\ timers # <<>> /\ Head(timers).stage = "outbound"
      /\ observed' = Append(observed, m)
      /\ terminate' = terminate /\ status' = status /\ isComplete' = isComplete /\ handling' = handling
  BY DEF Observe
<1>2. status # "idle"
  BY <1>1 DEF BubblesInv, NothingYet
<1>3. Head(timers) \in Outgoing /\ m \in Message
  BY <1>1, HeadOfTimers
<1>4. m.type = BusError => Ended
  BY <1>3 DEF Outgoing
<1>5. /\ observed' \in Seq(Message) /\ Len(observed') = Len(observed) + 1 /\ Len(observed) \in Nat
      /\ \A i \in 1..Len(observed) : observed'[i] = observed[i]
      /\ observed'[Len(observed) + 1] = m
  <2>1. observed \in Seq(Message)
    BY DEF BubblesInv
  <2> HIDE DEF m
  <2>2. QED
    BY <1>1, <1>3, <2>1, Added, LenProperties
<1>6. handling' \in SUBSET Receivers'
  <2>1. Receivers \subseteq Receivers'
    <3>1. Len(observed) <= Len(observed') /\ observed \in Seq(Message)
      BY <1>5 DEF BubblesInv
    <3>2. QED
      BY <1>5, <3>1, TimersStay
  <2>2. QED
    BY <1>1, <2>1 DEF BubblesInv
<1>7. Messages(flow) \in SUBSET (1..Len(flow)) /\ Len(flow) \in Nat
  BY FlowFacts DEF Messages, BubblesInv, FlowInv
<1>8. Passed \in Nat /\ Passed' \in Nat /\ Passed <= Len(observed)
  <2>1. index \in Nat /\ index' \in Nat
    BY <1>7 DEF BubblesInv
  <2>2. \A k \in Nat : Cardinality(Upto(Messages(flow), k)) \in Nat
    BY <1>7, Counts
  <2>3. Passed = Cardinality(Upto(Messages(flow), index))
    BY DEF Passed
  <2>4. Passed' = Cardinality(Upto(Messages(flow), index'))
    BY DEF Passed
  <2>5. Passed <= Len(observed)
    BY DEF BubblesInv
  <2>6. QED
    BY <2>1, <2>2, <2>3, <2>4, <2>5
<1>9. Passed' <= Len(observed')
  BY <1>5, <1>8
<1>10. ErrorsLate'
  <2>1. SUFFICES ASSUME NEW i \in 1..Len(observed'), observed'[i].type = BusError
                 PROVE  i > Cardinality(Messages(flow))
    BY DEF ErrorsLate
  <2>2. CASE i \in 1..Len(observed)
    BY <1>5, <2>1, <2>2 DEF BubblesInv, ErrorsLate
  <2>3. CASE i \notin 1..Len(observed)
    <3>1. i = Len(observed) + 1
      BY <1>5, <2>3
    <3>2. index = Len(flow)
      BY <1>4, <1>5, <2>1, <3>1 DEF Ended
    <3>3. Passed = Cardinality(Messages(flow))
      <4>1. Upto(Messages(flow), Len(flow)) = Messages(flow)
        BY <1>7, Counts
      <4>2. QED
        BY <3>2, <4>1 DEF Passed
    <3>4. QED
      BY <1>5, <1>8, <3>1, <3>3
  <2>4. QED
    BY <2>2, <2>3
<1>11. (terminate' # NoType => flow' = <<>>) /\ (status' = "resolved" => isComplete') /\ status' # "idle"
  BY <1>1, <1>2 DEF BubblesInv
<1>12. completions' > 0 \/ isComplete' => Ended'
  BY <1>1
<1>13. QED
  BY <1>5, <1>6, <1>9, <1>10, <1>11, <1>12 DEF BubblesInv, Timer

(* What is needed to send and to pass on. *)
LEMMA Observed ==
    ASSUME BubblesInv, Observe, Ended => Ended'
    PROVE  LET m == Head(timers).message
           IN  /\ m \in Message
               /\ observed' \in Seq(Message) /\ Len(observed) + 1 \in 1..Len(observed')
               /\ observed'[Len(observed) + 1] = m
               /\ Tail(timers) \in Seq(Timer') /\ delayed \in SUBSET Delays'
               /\ \A x \in Ordinary : [stage |-> "outbound", message |-> x] \in Timer'
               /\ \A b \in Sendable : \A i \in 0..Len(observed') : [bubble |-> b, about |-> i] \in Delays'
<1> DEFINE m == Head(timers).message
<1>1. /\ timers # <<>> /\ observed' = Append(observed, m) /\ m \in Message /\ Tail(timers) \in Seq(Timer)
  BY HeadOfTimers DEF Observe
<1>2. /\ observed' \in Seq(Message) /\ Len(observed') = Len(observed) + 1 /\ Len(observed) \in Nat
      /\ \A i \in 1..Len(observed) : observed'[i] = observed[i]
      /\ observed'[Len(observed) + 1] = m
  <2>1. observed \in Seq(Message)
    BY DEF BubblesInv
  <2> HIDE DEF m
  <2>2. QED
    BY <1>1, <2>1, Added, LenProperties
<1>3. Len(observed) <= Len(observed') /\ observed \in Seq(Message) /\ Len(observed) + 1 \in 1..Len(observed')
  BY <1>2 DEF BubblesInv
<1>4. /\ Timer \subseteq Timer' /\ Delays \subseteq Delays'
      /\ \A x \in Ordinary : [stage |-> "outbound", message |-> x] \in Timer'
  BY <1>2, <1>3, TimersStay DEF Timer
<1>5. Tail(timers) \in Seq(Timer') /\ delayed \in SUBSET Delays'
  <2>1. Tail(timers) \in Seq(Timer')
    BY <1>1, <1>4, Wider
  <2>2. delayed \in SUBSET Delays
    BY DEF BubblesInv
  <2>3. QED
    BY <1>4, <2>1, <2>2
<1>6. \A b \in Sendable : \A i \in 0..Len(observed') : [bubble |-> b, about |-> i] \in Delays'
  BY DEF Delays
<1>7. QED
  BY <1>1, <1>2, <1>3, <1>4, <1>5, <1>6

LEMMA FinishKeeps ==
    ASSUME BubblesInv, Observe, isComplete \/ Head(timers).message.type = terminate,
           Finish(Head(timers).message)
    PROVE  BubblesInv'
<1> DEFINE m == Head(timers).message
<1>1. /\ flow' = flow /\ index' = index /\ delayed' = delayed
      /\ timers' = Tail(timers) \o PassOn(m, Len(observed) + 1, hasRegisteredHandler(m))
      /\ completions' = completions + (IF m.type = terminate THEN 1 ELSE 0)
  BY DEF Finish
<1>2. Ended' <=> Ended
  BY <1>1 DEF Ended
<1>3. /\ m \in Message
      /\ observed' \in Seq(Message) /\ Len(observed) + 1 \in 1..Len(observed')
      /\ observed'[Len(observed) + 1] = m
      /\ Tail(timers) \in Seq(Timer') /\ delayed \in SUBSET Delays'
  BY <1>2, Observed
<1>4. Ended
  <2>1. CASE isComplete
    BY <2>1 DEF BubblesInv
  <2>2. CASE m.type = terminate
    <3>1. terminate # NoType
      BY <1>3, <2>2 DEF Message
    <3>2. flow = <<>> /\ index \in 0..Len(flow)
      BY <3>1 DEF BubblesInv
    <3>3. Len(flow) = 0
      BY <3>2
    <3>4. QED
      BY <3>2, <3>3 DEF Ended
  <2>3. QED
    BY <2>1, <2>2
<1>5. PassOn(m, Len(observed) + 1, hasRegisteredHandler(m)) \in Seq(Timer')
  <2>1. hasRegisteredHandler(m) \/ ~hasRegisteredHandler(m)
    OBVIOUS
  <2>2. PassOn(m, Len(observed) + 1, TRUE) \in Seq(Timer') /\ PassOn(m, Len(observed) + 1, FALSE) \in Seq(Timer')
    BY <1>2, <1>3, <1>4, PassedOn
  <2>3. QED
    BY <2>2 DEF PassOn
<1> HIDE DEF m
<1>6. timers' \in Seq(Timer')
  BY <1>1, <1>3, <1>5, Joined
<1>7. FlowInv(flow') /\ Len(flow') = Len(flow) /\ Messages(flow') = Messages(flow)
      /\ index' \in 0..Len(flow')
  BY <1>1 DEF BubblesInv
<1>8. completions' \in Nat /\ delayed' \in SUBSET Delays'
  BY <1>1, <1>3 DEF BubblesInv
<1>9. Passed' = Passed
  BY <1>1 DEF Passed
<1>10. Passed' <= Passed + 1
  <2>1. Passed \in Nat
    <3>1. Messages(flow) \in SUBSET (1..Len(flow)) /\ Len(flow) \in Nat /\ index \in Nat
      <4>1. Len(flow) \in Nat /\ DOMAIN flow = 1..Len(flow) /\ index \in 0..Len(flow)
        BY FlowFacts DEF BubblesInv, FlowInv
      <4>2. QED
        BY <4>1 DEF Messages
    <3>2. QED
      BY <3>1, Counts DEF Passed
  <2>2. QED
    BY <1>9, <2>1
<1>11. QED
  BY <1>1, <1>2, <1>4, <1>6, <1>7, <1>8, <1>10, Watched

LEMMA ExtraKeeps ==
    ASSUME BubblesInv, Observe, Extra(Head(timers).message)
    PROVE  BubblesInv'
<1> DEFINE m == Head(timers).message
<1>1. /\ flow' = flow /\ index' = index /\ delayed' = delayed /\ completions' = completions
      /\ timers' = Tail(timers) \o PassOn(m, Len(observed) + 1, FALSE)
      /\ index + 1 > Len(flow)
  BY DEF Extra
<1>2. Ended' <=> Ended
  BY <1>1 DEF Ended
<1>3. /\ m \in Message
      /\ observed' \in Seq(Message) /\ Len(observed) + 1 \in 1..Len(observed')
      /\ observed'[Len(observed) + 1] = m
      /\ Tail(timers) \in Seq(Timer') /\ delayed \in SUBSET Delays'
  BY <1>2, Observed
<1>0. Len(flow) \in Nat /\ DOMAIN flow = 1..Len(flow) /\ index \in 0..Len(flow)
  BY FlowFacts DEF BubblesInv, FlowInv
<1>4. Ended
  <2>1. Len(flow) \in Nat /\ index \in Nat /\ index <= Len(flow)
    BY <1>0
  <2>2. QED
    BY <1>1, <2>1, Between DEF Ended
<1>5. PassOn(m, Len(observed) + 1, FALSE) \in Seq(Timer')
  BY <1>2, <1>3, <1>4, PassedOn
<1> HIDE DEF m
<1>6. timers' \in Seq(Timer')
  BY <1>1, <1>3, <1>5, Joined
<1>7. FlowInv(flow') /\ Len(flow') = Len(flow) /\ Messages(flow') = Messages(flow)
      /\ index' \in 0..Len(flow')
  BY <1>1 DEF BubblesInv
<1>8. completions' \in Nat /\ delayed' \in SUBSET Delays'
  BY <1>1, <1>3 DEF BubblesInv
<1>9. Passed' = Passed
  BY <1>1 DEF Passed
<1>10. Passed' <= Passed + 1
  <2>1. Messages(flow) \in SUBSET (1..Len(flow)) /\ index \in Nat
    BY <1>0 DEF Messages
  <2>2. Passed \in Nat
    BY <1>0, <2>1, Counts DEF Passed
  <2>3. QED
    BY <1>9, <2>2
<1>11. QED
  BY <1>1, <1>2, <1>4, <1>6, <1>7, <1>8, <1>10, Watched

(* One bubble is consumed, and the delay after it. *)
LEMMA OnePassed ==
    ASSUME FlowOK(flow), index \in 0..Len(flow), index + 1 <= Len(flow), index' = NextBubble - 1,
           Messages(flow') = Messages(flow)
    PROVE  Passed' <= Passed + 1
<1> DEFINE M == Messages(flow)
           C(k) == Cardinality(Upto(M, k))
<1>1. Len(flow) \in Nat /\ DOMAIN flow = 1..Len(flow) /\ index \in Nat
  BY FlowFacts
<1>2. M \in SUBSET (1..Len(flow))
  BY <1>1 DEF Messages
<1>3. Passed = C(index) /\ Passed' = C(index')
  BY DEF Passed
<1>4. index + 2 \in M => flow[index + 2].intent # "delay"
  BY DEF Messages
<1> HIDE DEF M
<1>5. /\ C(index) \in Nat /\ C(index + 1) \in Nat
      /\ C(index + 1) = C(index) + (IF index + 1 \in M THEN 1 ELSE 0)
      /\ C((index + 1) + 1) = C(index + 1) + (IF (index + 1) + 1 \in M THEN 1 ELSE 0)
  <2>1. index + 1 \in Nat
    BY <1>1
  <2>2. QED
    BY <1>1, <1>2, <2>1, Counts
<1> HIDE DEF C
<1>6. C(index) \in Nat /\ C(index + 1) \in Nat /\ C(index + 1) <= C(index) + 1
  BY <1>5
<1>7. CASE index' = index + 1
  BY <1>3, <1>6, <1>7
<1>8. CASE index' = index + 2 /\ flow[index + 2].intent = "delay"
  <2>1. index + 2 \notin M
    BY <1>4, <1>8
  <2>2. C((index + 1) + 1) = C(index + 1) + (IF (index + 1) + 1 \in M THEN 1 ELSE 0)
    BY <1>5
  <2>3. (index + 1) + 1 = index + 2
    BY <1>1
  <2>4. C(index + 2) = C(index + 1)
    BY <1>6, <2>1, <2>2, <2>3
  <2>5. QED
    BY <1>3, <1>6, <1>8, <2>4
<1>9. QED
  BY <1>7, <1>8, Moved

LEMMA FollowKeeps ==
    ASSUME BubblesInv, Observe, Follow(Head(timers).message)
    PROVE  /\ BubblesInv' /\ dispatched' = dispatched \o (Answers \o Injected)
           /\ index + 1 <= Len(flow) /\ index' = NextBubble - 1
           /\ Len(flow') = Len(flow)
           /\ \A i \in DOMAIN flow : flow'[i].source = flow[i].source /\ flow'[i].with = flow[i].with
<1> DEFINE m == Head(timers).message
           n == Len(observed) + 1
           handled == flow[index + 1].source \in {"substitute", "override"} \/ ~hasRegisteredHandler(m)
           after == PassOn(m, n, handled)
<1>1. /\ index + 1 <= Len(flow) /\ index' = NextBubble - 1
      /\ flow' = IF Injected = <<>> THEN flow ELSE Delayed(NextBubble)
      /\ Dispatch(Answers \o Injected, flow', n, Tail(timers), after)
      /\ completions' = completions + (IF isLastMessage(NextBubble) THEN 1 ELSE 0)
  BY DEF Follow, IndexMoves
<1>2. FlowInv(flow) /\ FlowOK(flow) /\ index \in 0..Len(flow)
  BY DEF BubblesInv, FlowInv
<1>3. Len(flow) \in Nat /\ DOMAIN flow = 1..Len(flow) /\ index \in Nat
  BY <1>2, FlowFacts
<1>4. /\ NextBubble \in Nat /\ NextBubble - 1 \in (index + 1)..Len(flow)
      /\ isLastMessage(NextBubble) => NextBubble - 1 = Len(flow)
  BY <1>1, <1>2, Moved
<1>5. /\ Injected \in Seq(Nat) /\ \A j \in 1..Len(Injected) : Solid(flow, Injected[j])
      /\ Injected # <<>> => NextBubble \in DOMAIN flow
  BY <1>1, <1>2, InjectedNext
<1>6. Answers \in Seq(Nat) /\ \A j \in 1..Len(Answers) : Solid(flow, Answers[j])
  BY <1>1, <1>2, AnswersNext
<1>7. /\ FlowInv(flow') /\ Len(flow') = Len(flow) /\ Messages(flow') = Messages(flow)
      /\ DOMAIN flow' = DOMAIN flow
      /\ \A i \in DOMAIN flow : /\ flow'[i].intent = flow[i].intent /\ flow'[i].source = flow[i].source
                                /\ flow'[i].with = flow[i].with
  <2>1. CASE flow' = flow
    BY <1>2, <2>1
  <2>2. CASE flow' # flow
    <3>1. NextBubble \in DOMAIN flow /\ flow' = Delayed(NextBubble)
      BY <1>1, <1>5, <2>2
    <3>2. flow' = [flow EXCEPT ![NextBubble].delay = TRUE]
      BY <2>2, <3>1 DEF Delayed
    <3>3. PICK g : g = flow'
      OBVIOUS
    <3>4. SameFlow(flow, g)
      BY <1>2, <3>1, <3>2, <3>3, DelayAdded
    <3>5. QED
      BY <3>3, <3>4 DEF SameFlow
  <2>3. QED
    BY <2>1, <2>2
<1>8. index' \in 0..Len(flow') /\ ~Ended
  <2>1. index' \in 0..Len(flow)
    BY <1>1, <1>3, <1>4
  <2>2. index # Len(flow)
    <3>1. Len(flow) \in Nat /\ index \in Nat /\ index + 1 <= Len(flow)
      BY <1>1, <1>3
    <3>2. QED
      BY <3>1
  <2>3. QED
    BY <1>7, <2>1, <2>2 DEF Ended
<1>9. /\ m \in Message
      /\ observed' \in Seq(Message) /\ n \in 1..Len(observed') /\ observed'[n] = m
      /\ Tail(timers) \in Seq(Timer') /\ delayed \in SUBSET Delays'
      /\ \A x \in Ordinary : [stage |-> "outbound", message |-> x] \in Timer'
      /\ \A b \in Sendable : \A i \in 0..Len(observed') : [bubble |-> b, about |-> i] \in Delays'
  BY <1>8, Observed
<1> HIDE DEF after
<1>10. after \in Seq(Timer')
  <2>1. CASE handled
    <3>1. after = <<>>
      BY <2>1 DEF after, PassOn
    <3>2. QED
      BY <3>1
  <2>2. CASE ~handled
    <3>1. after = PassOn(m, n, FALSE)
      BY <2>2 DEF after, PassOn
    <3>2. ~(m.type \notin Handled /\ Command(m))
      BY <2>2 DEF hasRegisteredHandler, Command
    <3>3. QED
      BY <1>9, <3>1, <3>2, PassedOn
  <2>3. QED
    BY <2>1, <2>2
<1>11. /\ timers' \in Seq(Timer') /\ delayed' \in SUBSET Delays'
       /\ dispatched' = dispatched \o (Answers \o Injected)
  <2> DEFINE ks == Answers \o Injected
  <2>1. ks \in Seq(Nat)
    BY <1>5, <1>6, Joined
  <2>2. \A j \in 1..Len(ks) : Solid(flow, ks[j])
    <3>1. \A j \in 1..Len(ks) : (j \in 1..Len(Answers) /\ ks[j] = Answers[j])
                \/ (j - Len(Answers) \in 1..Len(Injected) /\ ks[j] = Injected[j - Len(Answers)])
      BY <1>5, <1>6, Joined
    <3> HIDE DEF ks
    <3>2. QED
      BY <1>5, <1>6, <3>1
  <2> HIDE DEF ks
  <2>3. \A j \in 1..Len(ks) : Solid(flow', ks[j])
    BY <1>7, <2>2 DEF Solid
  <2>4. n \in 0..Len(observed')
    <3>1. Len(observed') \in Nat
      BY <1>9, LenProperties
    <3>2. QED
      BY <1>9, <3>1
  <2>5. Dispatch(ks, flow', n, Tail(timers), after)
    BY <1>1 DEF ks, after
  <2>6. \A b \in Sendable : [bubble |-> b, about |-> n] \in Delays'
    BY <1>9, <2>4
  <2> HIDE DEF n
  <2>7. timers' \in Seq(Timer') /\ delayed' \in SUBSET Delays' /\ dispatched' = dispatched \o ks
    BY <1>7, <1>9, <1>10, <2>1, <2>3, <2>4, <2>5, <2>6, Dispatched
  <2>8. QED
    BY <2>7 DEF ks
<1>12. completions' \in Nat /\ (completions' > 0 \/ isComplete => Ended')
  <2>1. completions = 0 /\ ~isComplete
    BY <1>8 DEF BubblesInv
  <2>2. QED
    BY <1>1, <1>4, <1>7, <2>1 DEF Ended
<1>13. Passed' <= Passed + 1
  BY <1>1, <1>2, <1>7, OnePassed
<1>14. flow = <<>> => flow' = <<>>
  BY <1>7, <1>2, FlowFacts DEF FlowInv
<1>15. BubblesInv'
  BY <1>7, <1>8, <1>11, <1>12, <1>13, <1>14, Watched
<1>16. QED
  BY <1>1, <1>7, <1>11, <1>15

LEMMA ObserveKeeps == BubblesInv /\ Observe => BubblesInv'
<1> SUFFICES ASSUME BubblesInv, Observe PROVE BubblesInv'
  OBVIOUS
<1>1. \/ /\ isComplete \/ Head(timers).message.type = terminate
         /\ Finish(Head(timers).message)
      \/ Follow(Head(timers).message) \/ Extra(Head(timers).message)
  BY DEF Observe
<1>2. QED
  BY <1>1, FinishKeeps, FollowKeeps, ExtraKeeps

LEMMA NextKeeps == BubblesInv /\ [Next]_vars => BubblesInv'
<1> SUFFICES ASSUME BubblesInv, [Next]_vars PROVE BubblesInv'
  OBVIOUS
<1>1. CASE UNCHANGED vars
  <2>1. /\ flow' = flow /\ index' = index /\ terminate' = terminate
        /\ status' = status /\ isComplete' = isComplete /\ observed' = observed
        /\ completions' = completions /\ delayed' = delayed /\ handling' = handling
        /\ dispatched' = dispatched /\ timers' = timers
    BY <1>1 DEF vars
  <2>2. /\ FlowInv(flow') /\ index' \in 0..Len(flow') /\ observed' \in Seq(Message)
        /\ terminate' # NoType => flow' = <<>>
        /\ Passed' <= Len(observed') /\ ErrorsLate' /\ (Ended' <=> Ended)
        /\ timers' \in Seq(Timer') /\ delayed' \in SUBSET Delays' /\ handling' \in SUBSET Receivers'
    BY <2>1, Unmoved
  <2>3. /\ completions' \in Nat /\ (completions' > 0 \/ isComplete' => Ended')
        /\ status' = "resolved" => isComplete'
    BY <2>1, <2>2 DEF BubblesInv
  <2>4. status' = "idle" => NothingYet'
    BY <2>1 DEF BubblesInv, NothingYet
  <2>5. QED
    BY <2>2, <2>3, <2>4 DEF BubblesInv, Timer
<1>2. QED
  BY <1>1, ExecuteKeeps, ExecuteUntilKeeps, ObserveKeeps, DelayElapsesKeeps, CompleteKeeps,
     ReceiveKeeps, HandlerSendsKeeps DEF Next

LEMMA BubblesInvariance == Spec => []BubblesInv
  BY BubblesInit, NextKeeps, PTL DEF Spec

(* Bubbles.ts 219-222, 242, BubblesTask.ts 8-10: a message compared with a *)
(* bubble is never the bus's complaint that a command has no handler.      *)
THEOREM ErrorsNeverCompared == Spec => []ErrorsAreExtra
<1>1. BubblesInv => ErrorsAreExtra
  <2> SUFFICES ASSUME BubblesInv, NEW i \in DOMAIN observed, observed[i].type = BusError
               PROVE  i > Len(Expected)
    BY DEF ErrorsAreExtra
  <2>1. flow \in Seq(FlowBubble) /\ Messages(flow) \in SUBSET DOMAIN flow
    BY DEF BubblesInv, FlowInv, FlowOK, Messages
  <2>2. Expected = Select(flow, Messages(flow))
    BY DEF Expected, Messages
  <2>3. Len(Expected) = Cardinality(Messages(flow))
    BY <2>1, <2>2, Selected
  <2>4. i \in 1..Len(observed)
    BY Indexed DEF BubblesInv
  <2>5. QED
    BY <2>3, <2>4 DEF BubblesInv, ErrorsLate
<1>2. QED
  BY <1>1, BubblesInvariance, PTL

(* Bubbles.ts 120-149, 365-373: a flow that has resolved and is valid was  *)
(* observed to its last bubble, although validate looks at the observed    *)
(* messages only.                                                          *)
THEOREM NothingIsMissing == Spec => []ResolvedAndValidIsWholeFlow
<1>1. BubblesInv => ResolvedAndValidIsWholeFlow
  <2> SUFFICES ASSUME BubblesInv, status = "resolved", Valid PROVE Len(observed) = Len(Expected)
    BY DEF ResolvedAndValidIsWholeFlow
  <2>1. flow \in Seq(FlowBubble) /\ Messages(flow) \in SUBSET DOMAIN flow /\ FlowOK(flow)
    BY DEF BubblesInv, FlowInv, FlowOK, Messages
  <2>2. Expected = Select(flow, Messages(flow))
    BY DEF Expected, Messages
  <2>3. Len(Expected) = Cardinality(Messages(flow)) /\ Len(Expected) \in Nat
    BY <2>1, <2>2, Selected
  <2>4. Len(observed) \in Nat /\ DOMAIN observed = 1..Len(observed)
    BY Indexed DEF BubblesInv
  <2>5. Len(observed) <= Len(Expected)
    <3>1. CASE Len(observed) = 0
      BY <2>3, <3>1
    <3>2. CASE Len(observed) # 0
      <4>1. Len(observed) \in DOMAIN observed
        BY <2>4, <3>2
      <4>2. QED
        BY <4>1 DEF Valid
    <3>3. QED
      BY <3>1, <3>2
  <2>6. index = Len(flow) /\ Passed <= Len(observed)
    BY DEF BubblesInv, Ended
  <2>7. Passed = Cardinality(Messages(flow))
    <3>1. Len(flow) \in Nat /\ Messages(flow) \in SUBSET (1..Len(flow))
      BY <2>1, FlowFacts
    <3>2. Upto(Messages(flow), Len(flow)) = Messages(flow)
      BY <3>1, Counts
    <3>3. QED
      BY <2>6, <3>2 DEF Passed
  <2>8. QED
    BY <2>3, <2>4, <2>5, <2>6, <2>7
<1>2. QED
  BY <1>1, BubblesInvariance, PTL

-----------------------------------------------------------------------------
(* The order of what is sent *)

Reached(i, f, k) ==
    \/ k <= i + 1
    \/ \E b \in 1..i : f[b].source = "override" /\ k \in (b + 1)..(b + Len(f[b].with))

InTurn(q, i, f) ==
    /\ q \in Seq(Nat)
    /\ \A k \in 1..Len(q) : /\ \A j \in 1..(k - 1) : q[j] < q[k]
                            /\ Reached(i, f, q[k])

(* What lies beyond the bubble awaited was sent only as the answer to an   *)
(* overridden request, and all up to it is "system".                       *)
LEMMA NotBeyond ==
    ASSUME AnswersUnmarked, NEW f, FlowOK(f), NEW i \in 0..Len(f), NEW k \in Nat, Reached(i, f, k),
           NEW x \in Nat, x > i, f[x].source # "system"
    PROVE  k <= i + 1 \/ k < x
<1> SUFFICES ASSUME ~(k <= i + 1), ~(k < x) PROVE FALSE
  OBVIOUS
<1>1. Len(f) \in Nat /\ DOMAIN f = 1..Len(f) /\ \A b \in 1..Len(f) : f[b] \in FlowBubble
  BY FlowFacts
<1>2. PICK b \in 1..i : f[b].source = "override" /\ k \in (b + 1)..(b + Len(f[b].with))
  BY DEF Reached
<1>3. b \in DOMAIN f /\ b \in Nat /\ i \in Nat
  BY <1>1
<1>4. f[b].with \in Seq(Bubble)
  BY <1>1, <1>3 DEF FlowBubble, FlowRecord
<1>5. Len(f[b].with) \in Nat /\ DOMAIN f[b].with = 1..Len(f[b].with)
  BY <1>4, Indexed
<1>6. x - b \in 1..Len(f[b].with) /\ b + (x - b) = x
  BY <1>2, <1>3, <1>5
<1>7. \A j \in DOMAIN f[b].with : f[b + j].source = "system"
  BY <1>2, <1>3 DEF FlowOK, OverridesFollowed
<1>8. f[b + (x - b)].source = "system"
  BY <1>5, <1>6, <1>7
<1>9. QED
  BY <1>6, <1>8

LEMMA StillReached ==
    ASSUME NEW f, NEW g, FlowOK(f), NEW i \in 0..Len(f), NEW h \in Nat, h >= i, NEW k, k \in Nat, Reached(i, f, k),
           \A b \in DOMAIN f : g[b].source = f[b].source /\ g[b].with = f[b].with
    PROVE  Reached(h, g, k)
<1>1. Len(f) \in Nat /\ DOMAIN f = 1..Len(f) /\ i \in Nat
  BY FlowFacts
<1>2. CASE k <= i + 1
  BY <1>1, <1>2 DEF Reached
<1>3. CASE ~(k <= i + 1)
  <2>1. PICK b \in 1..i : f[b].source = "override" /\ k \in (b + 1)..(b + Len(f[b].with))
    BY <1>3 DEF Reached
  <2>2. b \in 1..h /\ b \in DOMAIN f
    BY <1>1
  <2>3. g[b].source = "override" /\ k \in (b + 1)..(b + Len(g[b].with))
    BY <2>1, <2>2
  <2>4. QED
    BY <2>2, <2>3 DEF Reached
<1>4. QED
  BY <1>2, <1>3

(* Later bubbles are sent after. *)
LEMMA SentAfter ==
    ASSUME NEW q \in Seq(Nat), NEW ks \in Seq(Nat), NEW i, NEW f, NEW h, NEW g,
           InTurn(q, i, f),
           \A k \in Nat : Reached(i, f, k) => Reached(h, g, k),
           \A j \in 1..Len(ks) : /\ \A l \in 1..(j - 1) : ks[l] < ks[j]
                                 /\ Reached(h, g, ks[j])
                                 /\ \A k \in 1..Len(q) : q[k] < ks[j]
    PROVE  InTurn(q \o ks, h, g)
<1> DEFINE r == q \o ks
<1>1. /\ r \in Seq(Nat) /\ Len(r) = Len(q) + Len(ks)
      /\ \A j \in 1..Len(q) : r[j] = q[j]
      /\ \A j \in 1..Len(ks) : r[Len(q) + j] = ks[j]
      /\ \A j \in 1..Len(r) : (j \in 1..Len(q) /\ r[j] = q[j])
               \/ (j - Len(q) \in 1..Len(ks) /\ r[j] = ks[j - Len(q)])
  BY Joined
<1>2. Len(q) \in Nat /\ Len(ks) \in Nat /\ \A j \in 1..Len(q) : q[j] \in Nat
  BY Indexed
<1> HIDE DEF r
<1>3. ASSUME NEW k \in 1..Len(r)
      PROVE  (\A j \in 1..(k - 1) : r[j] < r[k]) /\ Reached(h, g, r[k])
  <2>1. CASE k \in 1..Len(q)
    <3>1. (\A j \in 1..(k - 1) : q[j] < q[k]) /\ Reached(i, f, q[k]) /\ r[k] = q[k]
      BY <1>1, <2>1 DEF InTurn
    <3>2. \A j \in 1..(k - 1) : r[j] = q[j]
      <4>1. \A j \in 1..(k - 1) : j \in 1..Len(q)
        BY <1>2, <2>1
      <4>2. QED
        BY <1>1, <4>1
    <3>3. Reached(h, g, q[k])
      BY <1>2, <2>1, <3>1
    <3>4. QED
      BY <3>1, <3>2, <3>3
  <2>2. CASE k \notin 1..Len(q)
    <3>1. k - Len(q) \in 1..Len(ks) /\ r[k] = ks[k - Len(q)]
      BY <1>1, <2>2
    <3>2. PICK m \in 1..Len(ks) : m = k - Len(q)
      BY <3>1
    <3>3. r[k] = ks[m] /\ k = Len(q) + m
      BY <1>1, <1>2, <3>1, <3>2
    <3>4. ASSUME NEW j \in 1..(k - 1)
          PROVE  r[j] < r[k]
      <4>1. CASE j \in 1..Len(q)
        <5>1. r[j] = q[j]
          BY <1>1, <4>1
        <5>2. q[j] < ks[m]
          BY <4>1
        <5>3. QED
          BY <3>3, <5>1, <5>2
      <4>2. CASE j \notin 1..Len(q)
        <5>1. j - Len(q) \in 1..(m - 1) /\ Len(q) + (j - Len(q)) = j
          BY <1>2, <3>3, <4>2
        <5>2. ks[j - Len(q)] < ks[m]
          BY <5>1
        <5>3. j - Len(q) \in 1..Len(ks)
          BY <1>2, <5>1
        <5>4. r[j] = ks[j - Len(q)]
          BY <1>1, <5>1, <5>3
        <5>5. QED
          BY <3>3, <5>2, <5>4
      <4>3. QED
        BY <4>1, <4>2
    <3>5. QED
      BY <3>3, <3>4
  <2>3. QED
    BY <2>1, <2>2
<1>4. InTurn(r, h, g)
  BY <1>1, <1>3 DEF InTurn
<1>5. QED
  BY <1>4 DEF r

LEMMA FollowInTurn ==
    ASSUME AnswersUnmarked, BubblesInv, Observe, Follow(Head(timers).message), InTurn(dispatched, index, flow)
    PROVE  InTurn(dispatched', index', flow')
<1> DEFINE ks == Answers \o Injected
<1>1. /\ dispatched' = dispatched \o ks
      /\ index + 1 <= Len(flow) /\ index' = NextBubble - 1 /\ Len(flow') = Len(flow)
      /\ \A i \in DOMAIN flow : flow'[i].source = flow[i].source /\ flow'[i].with = flow[i].with
  BY FollowKeeps
<1>2. FlowOK(flow) /\ index \in 0..Len(flow)
  BY DEF BubblesInv, FlowInv
<1>3. Len(flow) \in Nat /\ DOMAIN flow = 1..Len(flow) /\ index \in Nat
  BY <1>2, FlowFacts
<1>4. /\ NextBubble \in Nat /\ NextBubble - 1 \in (index + 1)..Len(flow)
      /\ \/ NextBubble - 1 = index + 1
         \/ NextBubble - 1 = index + 2 /\ flow[index + 2].intent = "delay"
  BY <1>1, <1>2, Moved
<1>5. /\ Injected \in Seq(Nat) /\ Len(Injected) \in {0, 1}
      /\ \A j \in 1..Len(Injected) : Injected[j] = NextBubble /\ flow[NextBubble].source = "inject"
  BY <1>1, <1>2, InjectedNext
<1>6. /\ Answers \in Seq(Nat)
      /\ \A j \in 1..Len(Answers) : Answers[j] = index + 1 + j
      /\ Answers # <<>> =>
           \/ /\ flow[index + 1].source = "substitute"
              /\ Len(Answers) = 1
              /\ Solid(flow, index + 2) /\ flow[index + 2].source = "system"
           \/ /\ flow[index + 1].source = "override"
              /\ Len(Answers) = Len(flow[index + 1].with)
              /\ Solid(flow, index + 2) /\ flow[index + 2].source = "system"
  BY <1>1, <1>2, AnswersNext
<1>7. dispatched \in Seq(Nat) /\ Len(dispatched) \in Nat
      /\ \A k \in 1..Len(dispatched) : dispatched[k] \in Nat /\ Reached(index, flow, dispatched[k])
  BY Indexed DEF InTurn
<1>8. \A k \in Nat : Reached(index, flow, k) => Reached(index', flow', k)
  <2>1. index' \in Nat /\ index' >= index
    BY <1>1, <1>3, <1>4
  <2>2. QED
    BY <1>1, <1>2, <2>1, StillReached
<1>9. CASE Answers = <<>>
  <2>1. ks = Injected
    BY <1>5, <1>9
  <2>2. ASSUME NEW j \in 1..Len(Injected)
        PROVE  /\ \A l \in 1..(j - 1) : Injected[l] < Injected[j]
               /\ Reached(index', flow', Injected[j])
               /\ \A k \in 1..Len(dispatched) : dispatched[k] < Injected[j]
    <3>1. j = 1 /\ Injected[j] = NextBubble /\ flow[NextBubble].source = "inject"
      BY <1>5
    <3>2. NextBubble = index' + 1 /\ NextBubble > index /\ NextBubble > index + 1
      BY <1>1, <1>3, <1>4
    <3>3. Reached(index', flow', NextBubble)
      BY <1>4, <3>2 DEF Reached
    <3>4. ASSUME NEW k \in 1..Len(dispatched)
          PROVE  dispatched[k] < NextBubble
      <4>1. dispatched[k] <= index + 1 \/ dispatched[k] < NextBubble
        BY <1>2, <1>4, <1>7, <3>1, <3>2, NotBeyond
      <4>2. dispatched[k] \in Nat
        BY <1>7
      <4>3. QED
        BY <1>3, <1>4, <3>2, <4>1, <4>2
    <3>5. QED
      BY <3>1, <3>3, <3>4
  <2>3. InTurn(dispatched \o Injected, index', flow')
    BY <1>5, <1>7, <1>8, <2>2, SentAfter
  <2>4. QED
    BY <1>1, <2>1, <2>3
<1>10. CASE Answers # <<>>
  <2>1. Solid(flow, index + 2) /\ flow[index + 2].source = "system" /\ flow[index + 1].source # "system"
    BY <1>6, <1>10
  <2>2. NextBubble = index + 2
    BY <1>3, <1>4, <2>1 DEF Solid
  <2>3. Injected = <<>>
    BY <2>1, <2>2 DEF Injected
  <2>4. ks = Answers
    BY <1>6, <2>3
  <2>5. ASSUME NEW j \in 1..Len(Answers)
        PROVE  /\ \A l \in 1..(j - 1) : Answers[l] < Answers[j]
               /\ Reached(index', flow', Answers[j])
               /\ \A k \in 1..Len(dispatched) : dispatched[k] < Answers[j]
    <3>1. Answers[j] = index + 1 + j /\ j \in Nat /\ j > 0 /\ Len(Answers) \in Nat
      BY <1>6, Indexed
    <3>2. \A l \in 1..(j - 1) : Answers[l] < Answers[j]
      <4>1. SUFFICES ASSUME NEW l \in 1..(j - 1) PROVE Answers[l] < Answers[j]
        OBVIOUS
      <4>2. l \in 1..Len(Answers) /\ l < j /\ l \in Nat
        BY <3>1
      <4>3. Answers[l] = index + 1 + l
        BY <1>6, <4>2
      <4>4. QED
        BY <1>3, <3>1, <4>2, <4>3
    <3>3. Reached(index', flow', Answers[j])
      <4>1. index' = index + 1 /\ index + 1 \in DOMAIN flow
        BY <1>1, <1>3, <2>2
      <4>2. CASE flow[index + 1].source = "override" /\ Len(Answers) = Len(flow[index + 1].with)
        <5>1. flow'[index + 1].source = "override" /\ Len(Answers) = Len(flow'[index + 1].with)
          BY <1>1, <4>1, <4>2
        <5>2. Answers[j] \in ((index + 1) + 1)..((index + 1) + Len(Answers))
          BY <1>3, <3>1
        <5>3. index + 1 \in 1..index'
          BY <1>3, <4>1
        <5>4. QED
          BY <5>1, <5>2, <5>3 DEF Reached
      <4>3. CASE Len(Answers) = 1
        <5>1. Answers[j] <= index' + 1
          BY <1>3, <3>1, <4>1, <4>3
        <5>2. QED
          BY <5>1 DEF Reached
      <4>4. QED
        BY <1>6, <1>10, <4>2, <4>3
    <3>4. ASSUME NEW k \in 1..Len(dispatched)
          PROVE  dispatched[k] < Answers[j]
      <4>1. dispatched[k] <= index + 1 \/ dispatched[k] < index + 1
        <5>1. index + 1 \in Nat /\ index + 1 > index
          BY <1>3
        <5>2. QED
          BY <1>2, <1>7, <2>1, <5>1, NotBeyond
      <4>2. dispatched[k] \in Nat
        BY <1>7
      <4>3. QED
        BY <1>3, <3>1, <4>1, <4>2
    <3>5. QED
      BY <3>2, <3>3, <3>4
  <2>6. InTurn(dispatched \o Answers, index', flow')
    BY <1>6, <1>7, <1>8, <2>5, SentAfter
  <2>7. QED
    BY <1>1, <2>4, <2>6
<1>11. QED
  BY <1>9, <1>10

LEMMA NextInTurn ==
    ASSUME AnswersUnmarked, BubblesInv, InTurn(dispatched, index, flow), [Next]_vars
    PROVE  InTurn(dispatched', index', flow')
<1>1. CASE dispatched' = dispatched /\ index' = index /\ flow' = flow
  BY <1>1
<1>2. ASSUME NEW definition \in Definitions, Execute(definition)
      PROVE  InTurn(dispatched', index', flow')
  <2>1. dispatched' \in {<<>>, <<1>>}
    BY <1>2, ExecuteKeeps
  <2>2. index' = 0
    BY <1>2 DEF Execute, BubblesInv, NothingYet
  <2>3. CASE dispatched' = <<>>
    BY <2>3 DEF InTurn
  <2>4. CASE dispatched' = <<1>>
    <3>1. Reached(index', flow', 1)
      BY <2>2 DEF Reached
    <3>2. QED
      BY <2>4, <3>1 DEF InTurn
  <2>5. QED
    BY <2>1, <2>3, <2>4
<1>3. ASSUME Observe
      PROVE  InTurn(dispatched', index', flow')
  <2>1. CASE Follow(Head(timers).message)
    BY <1>3, <2>1, FollowInTurn
  <2>2. CASE Extra(Head(timers).message) \/ Finish(Head(timers).message)
    BY <1>1, <2>2 DEF Extra, Finish
  <2>3. QED
    BY <1>3, <2>1, <2>2 DEF Observe
<1>4. QED
  BY <1>1, <1>2, <1>3 DEF Next, vars, ExecuteUntil, DelayElapses, Complete, Receive, HandlerSends

(* Bubbles.ts 342-363, 450-467: Bubbles sends a bubble at most once, in    *)
(* the order of the flow, and never one that follows a bubble nothing was  *)
(* observed for, but for the answers to an overridden request; if no such  *)
(* answer is marked with "!" itself.                                       *)
THEOREM BubblesSendInTurn == ASSUME AnswersUnmarked PROVE Spec => []SentInTurn
<1>1. Init => InTurn(dispatched, index, flow)
  BY DEF Init, InTurn
<1>2. BubblesInv /\ InTurn(dispatched, index, flow) /\ [Next]_vars => InTurn(dispatched, index, flow)'
  BY NextInTurn
<1>3. InTurn(dispatched, index, flow) => SentInTurn
  <2> SUFFICES ASSUME InTurn(dispatched, index, flow) PROVE SentInTurn
    OBVIOUS
  <2>1. DOMAIN dispatched = 1..Len(dispatched)
    BY Indexed DEF InTurn
  <2>2. QED
    BY <2>1 DEF InTurn, SentInTurn, Reached
<1>4. QED
  BY <1>1, <1>2, <1>3, BubblesInvariance, PTL DEF Spec
=============================================================================
