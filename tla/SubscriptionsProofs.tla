------------------------ MODULE SubscriptionsProofs ------------------------
(***************************************************************************)
(* Proofs about Subscriptions for any classes, filters, calls and events:  *)
(* a wait takes the first event that matches and only that one, and an     *)
(* instance that was unregistered has no handler left.                     *)
(***************************************************************************)
EXTENDS Subscriptions, SequenceTheorems, TLAPS

(* Operators on the values of the variables: M the subscriptions, P the    *)
(* events processed, R the refusals, D the pending subscribers, O the ids  *)
(* of instances, W a wait.                                                 *)

Has(M, id) == \E s \in M : s.id = id

Withheld(R, e, W, type) == \E r \in R : r.event = e /\ Precedes(r.by, W, type)

AnswersTo(P, R, W) ==
    {e \in DOMAIN P :
        e > W.since /\ P[e] \in Matches[W.filter] /\ ~Withheld(R, e, W, P[e])}

Subscription == [id : Id, filter : Filter, owner : Instance \cup {Undefined}]

WaitRecord == [filter : Filter, id : Id, status : {"waiting", "resolved", "rejected"},
               since : Nat, event : Nat]

(* A wait is subscribed until it has been handed the first matching event  *)
(* that comes up to it, the one being processed; who is pending then comes *)
(* behind it.  Only it has its id.                                         *)
WaitKept(W, M, P, R, D, O) ==
    /\ W \in WaitRecord /\ W.since <= Len(P)
    /\ Has(M, W.id) <=> (AnswersTo(P, R, W) = {} \/ Has(D, W.id))
    /\ Has(D, W.id) => AnswersTo(P, R, W) = {Len(P)}
    /\ ~Has(D, W.id) /\ AnswersTo(P, R, W) = {Len(P)} =>
         \A t \in D : Precedes(W, t, P[Len(P)])
    /\ W.status = "resolved" =>
         W.event \in AnswersTo(P, R, W) /\ \A e \in AnswersTo(P, R, W) : W.event <= e
    /\ W.status = "resolved" => ~Has(M, W.id)
    /\ W.status = "waiting" => Has(M, W.id)
    /\ \A s \in M \cup D : s.id = W.id => s.filter = W.filter
    /\ \A i \in Instance : W.id \notin O[i]

WaitsKept ==
    \A w \in DOMAIN waits :
        WaitKept(waits[w], messageSubscriptions, processed, refusals, loop.pending, subscriptionsOf)

(* Every id has been drawn by a call. *)
DrawnBy(n, id) == id[1] \in 1..n

IdsDrawn(n, M, D, O) ==
    /\ \A s \in M \cup D : DrawnBy(n, s.id)
    /\ \A i \in Instance : \A id \in O[i] : DrawnBy(n, id)

Unique(M) == \A s, t \in M : s.id = t.id => s = t

TypeOK ==
    /\ subscribing \in Nat
    /\ messageSubscriptions \subseteq Subscription
    /\ subscriptionsOf \in [Instance -> SUBSET Id]
    /\ waits \in Seq(WaitRecord)
    /\ processed \in Seq(Type)
    /\ loop.event = 0 => loop = NoLoop
    /\ loop.event # 0 => loop.event = Len(processed)
    /\ loop.pending \subseteq Subscription
    /\ loop = [event |-> loop.event, pending |-> loop.pending]
    /\ \A r \in refusals : r.event \in 1..Len(processed)

(* The subscriptions of an instance are in its list. *)
OwnersKnown ==
    \A s \in messageSubscriptions, i \in Instance : s.owner = i => s.id \in subscriptionsOf[i]

(* Only a subscription made with the policy is busy; no wait is one. *)
PoliciesOK ==
    /\ busy \subseteq ignoring
    /\ \A id \in ignoring : DrawnBy(subscribing, id)
    /\ \A w \in DOMAIN waits : waits[w].id \notin ignoring

SubscriptionsInv ==
    /\ TypeOK
    /\ IdsDrawn(subscribing, messageSubscriptions, loop.pending, subscriptionsOf)
    /\ \A w \in DOMAIN waits : DrawnBy(subscribing, waits[w].id)
    /\ Unique(messageSubscriptions) /\ Unique(loop.pending)
    /\ \A v, w \in DOMAIN waits : waits[v].id = waits[w].id => v = w
    /\ OwnersKnown
    /\ PoliciesOK
    /\ WaitsKept

-----------------------------------------------------------------------------
(* What may change around a wait *)

LEMMA Appended ==
    ASSUME NEW S, NEW q \in Seq(S), NEW x
    PROVE  /\ Len(q) \in Nat /\ DOMAIN q = 1..Len(q)
           /\ Len(Append(q, x)) = Len(q) + 1
           /\ DOMAIN Append(q, x) = 1..(Len(q) + 1)
           /\ \A i \in 1..Len(q) : Append(q, x)[i] = q[i]
           /\ Append(q, x)[Len(q) + 1] = x
           /\ x \in S => Append(q, x) \in Seq(S)
<1> DEFINE T == S \cup {x}
<1>1. q \in Seq(T) /\ x \in T
  BY SeqMonotonic
<1>2. /\ Append(q, x) \in Seq(T) /\ Len(Append(q, x)) = Len(q) + 1
      /\ \A i \in 1..Len(q) : Append(q, x)[i] = q[i]
      /\ Append(q, x)[Len(q) + 1] = x
  BY <1>1, AppendProperties
<1>3. x \in S => Append(q, x) \in Seq(S)
  BY AppendProperties
<1>4. QED
  BY <1>1, <1>2, <1>3, LenProperties

LEMMA EarlierAsymmetric ==
    ASSUME NEW a \in Id, NEW b \in Id, Earlier(a, b)
    PROVE  ~Earlier(b, a)
<1> SUFFICES ASSUME Earlier(b, a) PROVE FALSE
  OBVIOUS
<1>1. \A p \in 1..4 : a[p] \in Nat /\ b[p] \in Nat
  <2>1. a[1] \in Nat /\ a[2] \in Nat /\ a[3] \in Nat /\ a[4] \in Nat
    BY DEF Id
  <2>2. b[1] \in Nat /\ b[2] \in Nat /\ b[3] \in Nat /\ b[4] \in Nat
    BY DEF Id
  <2>3. \A p \in 1..4 : p = 1 \/ p = 2 \/ p = 3 \/ p = 4
    OBVIOUS
  <2>4. QED
    BY <2>1, <2>2, <2>3
<1>2. PICK p \in 1..4 : a[p] < b[p] /\ \A q \in 1..(p - 1) : a[q] = b[q]
  BY DEF Earlier
<1>3. PICK h \in 1..4 : b[h] < a[h] /\ \A q \in 1..(h - 1) : b[q] = a[q]
  BY DEF Earlier
<1>4. CASE p < h
  BY <1>1, <1>2, <1>3, <1>4
<1>5. CASE h < p
  BY <1>1, <1>2, <1>3, <1>5
<1>6. CASE p = h
  BY <1>1, <1>2, <1>3, <1>6
<1>7. QED
  BY <1>4, <1>5, <1>6

(* Of two subscribers at most one comes before the other. *)
LEMMA PrecedesAsymmetric ==
    ASSUME NEW s, NEW t, s.id \in Id, t.id \in Id, NEW type, Precedes(s, t, type)
    PROVE  ~Precedes(t, s, type)
  BY EarlierAsymmetric DEF Precedes

(* Other subscriptions come and go, and other subscribers get the event. *)
LEMMA KeptByOthers ==
    ASSUME NEW W, NEW M, NEW M2, NEW P, NEW D, NEW D2, NEW O, NEW O2, NEW R,
           WaitKept(W, M, P, R, D, O), D2 \subseteq D,
           Has(M2, W.id) <=> Has(M, W.id), Has(D2, W.id) <=> Has(D, W.id),
           \A s \in M2 : s.id = W.id => s \in M,
           \A i \in Instance : W.id \notin O2[i]
    PROVE  WaitKept(W, M2, P, R, D2, O2)
  BY DEF WaitKept

(* The next event is processed: a subscribed wait is among its subscribers *)
(* exactly when the event matches.                                         *)
LEMMA KeptByEvent ==
    ASSUME NEW W, NEW M, NEW P \in Seq(Type), NEW R, NEW O, WaitKept(W, M, P, R, {}, O),
           NEW type \in Type, \A r \in R : r.event \in 1..Len(P)
    PROVE  WaitKept(W, M, Append(P, type), R,
                    {s \in M : s.filter = type \/ (s.filter \in Wildcard /\ type \in Matches[s.filter])},
                    O)
<1> DEFINE n == Len(P) + 1
           P2 == Append(P, type)
           D2 == {s \in M : s.filter = type
                             \/ (s.filter \in Wildcard /\ type \in Matches[s.filter])}
<1>1. /\ Len(P) \in Nat /\ DOMAIN P = 1..Len(P) /\ Len(P2) = n /\ DOMAIN P2 = 1..n
      /\ \A i \in 1..Len(P) : P2[i] = P[i]
      /\ P2[n] = type
  BY Appended
<1>2. /\ W.filter \in Filter /\ W.since \in Nat /\ W.since <= Len(P)
  BY DEF WaitKept, WaitRecord
<1>3. \A f \in Filter : (f = type \/ (f \in Wildcard /\ type \in Matches[f])) <=> type \in Matches[f]
  BY SubscriptionsAssumption
<1>4. Has(D2, W.id) <=> (Has(M, W.id) /\ type \in Matches[W.filter])
  BY <1>2, <1>3 DEF Has, WaitKept
<1>5. D2 \subseteq M
  OBVIOUS
<1>6. ~Withheld(R, n, W, type)
  BY <1>1 DEF Withheld
<1> HIDE DEF P2, D2, n
<1>7. \A e : e \in DOMAIN P2 <=> e \in DOMAIN P \/ e = n
  BY <1>1 DEF n
<1>8. AnswersTo(P2, R, W) =
        IF type \in Matches[W.filter] THEN AnswersTo(P, R, W) \cup {n} ELSE AnswersTo(P, R, W)
  <2>1. \A e \in DOMAIN P : P2[e] = P[e]
    BY <1>1
  <2>2. n > W.since
    BY <1>1, <1>2 DEF n
  <2>3. QED
    BY <1>1, <1>6, <1>7, <2>1, <2>2 DEF AnswersTo
<1>9. AnswersTo(P, R, W) \subseteq 1..Len(P) /\ n \in Nat /\ \A e \in 1..Len(P) : e <= n /\ e # n
  BY <1>1 DEF AnswersTo, n
<1>10. ~Has({}, W.id)
  BY DEF Has
<1>11. Has(M, W.id) <=> AnswersTo(P, R, W) = {}
  BY <1>10 DEF WaitKept
<1>12. Has(M, W.id) <=> (AnswersTo(P2, R, W) = {} \/ Has(D2, W.id))
  BY <1>4, <1>8, <1>11
<1>13. Has(D2, W.id) => AnswersTo(P2, R, W) = {Len(P2)}
  BY <1>1, <1>4, <1>8, <1>11
<1>14. ~Has(D2, W.id) => AnswersTo(P2, R, W) # {Len(P2)}
  BY <1>1, <1>4, <1>8, <1>9, <1>11
<1>15. W.status = "resolved" =>
         W.event \in AnswersTo(P2, R, W) /\ \A e \in AnswersTo(P2, R, W) : W.event <= e
  BY <1>8, <1>9 DEF WaitKept
<1>16. W \in WaitRecord /\ W.since <= Len(P2)
  BY <1>1, <1>2 DEF WaitKept, n
<1>17. \A s \in M \cup D2 : s.id = W.id => s.filter = W.filter
  BY <1>5 DEF WaitKept
<1>18. WaitKept(W, M, P2, R, D2, O)
  BY <1>12, <1>13, <1>14, <1>15, <1>16, <1>17 DEF WaitKept
<1>19. QED
  BY <1>18 DEF P2, D2

(* The wait gets the event: its subscription goes, and if it still waits   *)
(* it is resolved by this event.                                           *)
LEMMA KeptByAnswer ==
    ASSUME NEW W, NEW M, NEW P \in Seq(Type), NEW R, NEW D, NEW D2, NEW O,
           WaitKept(W, M, P, R, D, O),
           Has(D, W.id), ~Has(D2, W.id), D2 \subseteq D,
           \A t \in D2 : Precedes(W, t, P[Len(P)]), NEW W2,
           W2 = IF W.status = "waiting"
                THEN [W EXCEPT !.status = "resolved", !.event = Len(P)] ELSE W
    PROVE  WaitKept(W2, {s \in M : s.id # W.id}, P, R, D2, O)
<1> DEFINE M2 == {s \in M : s.id # W.id}
<1>1. Len(P) \in Nat /\ W \in WaitRecord
  BY LenProperties DEF WaitKept
<1>2. /\ W2 \in WaitRecord /\ W2.id = W.id /\ W2.since = W.since /\ W2.filter = W.filter
      /\ W2.status # "waiting"
      /\ W2.status = "resolved" =>
           W2.event = Len(P) \/ (W.status = "resolved" /\ W2.event = W.event)
  BY <1>1 DEF WaitRecord
<1>3. AnswersTo(P, R, W2) = AnswersTo(P, R, W) /\ AnswersTo(P, R, W) = {Len(P)}
  BY <1>2 DEF AnswersTo, Withheld, Precedes, WaitKept
<1>4. ~Has(M2, W.id) /\ \A s \in M2 : s.id # W.id
  BY DEF Has
<1> HIDE DEF M2
<1>5. W2.status = "resolved" =>
        W2.event \in AnswersTo(P, R, W2) /\ \A e \in AnswersTo(P, R, W2) : W2.event <= e
  BY <1>1, <1>2, <1>3 DEF WaitKept
<1>6. \A t \in D2 : Precedes(W2, t, P[Len(P)])
  BY <1>2 DEF Precedes
<1>7. \A s \in M2 \cup D2 : s.id = W2.id => s.filter = W2.filter
  BY <1>2, <1>4 DEF WaitKept
<1>8. WaitKept(W2, M2, P, R, D2, O)
  BY <1>2, <1>3, <1>4, <1>5, <1>6, <1>7 DEF WaitKept
<1>9. QED
  BY <1>8 DEF M2

(* A subscriber that comes before all others refuses the event: the waits  *)
(* that are pending miss it, those that got it keep it.                    *)
LEMMA KeptByRefusal ==
    ASSUME NEW W, NEW M, NEW P \in Seq(Type), NEW R, NEW D, NEW O, WaitKept(W, M, P, R, D, O),
           D \subseteq Subscription, NEW s \in D, s.id # W.id,
           \A t \in D \ {s} : Precedes(s, t, P[Len(P)])
    PROVE  WaitKept(W, M, P, R \cup {[event |-> Len(P), by |-> s]}, {}, O)
<1> DEFINE n  == Len(P)
           R2 == R \cup {[event |-> n, by |-> s]}
<1>1. n \in Nat /\ DOMAIN P = 1..n /\ W \in WaitRecord /\ W.id \in Id /\ s.id \in Id
  BY LenProperties DEF WaitKept, WaitRecord, Subscription
<1>2. ASSUME NEW e, NEW type
      PROVE  Withheld(R2, e, W, type) <=> Withheld(R, e, W, type) \/ (e = n /\ Precedes(s, W, type))
  <2> DEFINE new == [event |-> n, by |-> s]
  <2>1. new.event = n /\ new.by = s
    OBVIOUS
  <2> HIDE DEF new
  <2>2. \A r : r \in R2 <=> r \in R \/ r = new
    BY DEF new
  <2>3. QED
    BY <2>1, <2>2 DEF Withheld
<1> HIDE DEF R2
<1>3. AnswersTo(P, R2, W) = IF Precedes(s, W, P[n]) THEN AnswersTo(P, R, W) \ {n}
                            ELSE AnswersTo(P, R, W)
  BY <1>2 DEF AnswersTo
<1>4. ~Has({}, W.id)
  BY DEF Has
<1>5. Has(M, W.id) <=> AnswersTo(P, R2, W) = {}
  <2>1. CASE Has(D, W.id)
    <3>1. PICK t \in D : t.id = W.id
      BY <2>1 DEF Has
    <3>2. t.filter = W.filter /\ t # s
      BY <3>1 DEF WaitKept
    <3>3. Precedes(s, W, P[n])
      BY <3>1, <3>2 DEF Precedes
    <3>4. QED
      BY <1>3, <2>1, <3>3 DEF WaitKept
  <2>2. CASE ~Has(D, W.id)
    <3>1. CASE AnswersTo(P, R, W) = {n}
      <4>1. Precedes(W, s, P[n])
        BY <2>2, <3>1 DEF WaitKept
      <4>2. ~Precedes(s, W, P[n])
        BY <1>1, <4>1, PrecedesAsymmetric
      <4>3. QED
        BY <1>3, <2>2, <4>2 DEF WaitKept
    <3>2. CASE AnswersTo(P, R, W) # {n}
      BY <1>3, <2>2, <3>2 DEF WaitKept
    <3>3. QED
      BY <3>1, <3>2
  <2>3. QED
    BY <2>1, <2>2
<1>6. W.status = "resolved" =>
         W.event \in AnswersTo(P, R2, W) /\ \A e \in AnswersTo(P, R2, W) : W.event <= e
  <2> SUFFICES ASSUME W.status = "resolved"
               PROVE  W.event \in AnswersTo(P, R2, W)
    BY <1>3 DEF WaitKept
  <2>1. /\ W.event \in AnswersTo(P, R, W) /\ \A e \in AnswersTo(P, R, W) : W.event <= e
        /\ AnswersTo(P, R2, W) # {}
    BY <1>5 DEF WaitKept
  <2>2. AnswersTo(P, R, W) \subseteq 1..n
    BY <1>1 DEF AnswersTo
  <2>3. CASE W.event = n
    BY <1>1, <1>3, <2>1, <2>2, <2>3
  <2>4. CASE W.event # n
    BY <1>3, <2>1, <2>4
  <2>5. QED
    BY <2>3, <2>4
<1>7. WaitKept(W, M, P, R2, {}, O)
  BY <1>4, <1>5, <1>6 DEF WaitKept
<1>8. QED
  BY <1>7 DEF R2

(* A new wait is subscribed, and nothing it waits for has happened yet. *)
LEMMA KeptAtFirst ==
    ASSUME NEW W \in WaitRecord, NEW M, NEW P \in Seq(Type), NEW R, NEW D, NEW O,
           W.status = "waiting", W.since = Len(P), Has(M, W.id), ~Has(D, W.id),
           \A s \in M \cup D : s.id = W.id => s.filter = W.filter,
           \A i \in Instance : W.id \notin O[i]
    PROVE  WaitKept(W, M, P, R, D, O)
<1>1. Len(P) \in Nat /\ DOMAIN P = 1..Len(P)
  BY LenProperties
<1>2. AnswersTo(P, R, W) = {}
  BY <1>1 DEF AnswersTo
<1>3. QED
  BY <1>1, <1>2 DEF WaitKept
-----------------------------------------------------------------------------
(* What a call of registerHandlers adds *)

LEMMA MethodsTyped ==
    ASSUME NEW call \in Calls, NEW k \in DOMAIN call, NEW e \in DOMAIN ClassesOf(call[k])
    PROVE  /\ k \in Nat /\ e \in Nat
           /\ Methods(call[k], e) \in Seq(Filter)
<1> DEFINE arg == call[k]
           Argument == Instance \cup Class \cup {"exports"}
<1>1. call \in Seq(Argument)
  BY SubscriptionsAssumption
<1>2. k \in 1..Len(call) /\ Len(call) \in Nat
  BY <1>1, LenProperties
<1>3. arg \in Argument
  BY <1>1, <1>2, ElementOfSeq
<1>4. ClassesOf(arg) \in Seq(Class)
  <2>1. \A c \in Class : <<c>> \in Seq(Class)
    OBVIOUS
  <2>2. CASE arg \in Instance
    <3>1. ClassOf[arg] \in Class
      BY <2>2, SubscriptionsAssumption
    <3>2. CASE ClassesOf(arg) = Exports
      BY <3>2, SubscriptionsAssumption
    <3>3. CASE ClassesOf(arg) # Exports
      BY <2>1, <2>2, <3>1, <3>3 DEF ClassesOf
    <3>4. QED
      BY <3>2, <3>3
  <2>3. CASE arg \notin Instance /\ arg = "exports"
    BY <2>3, SubscriptionsAssumption DEF ClassesOf
  <2>4. CASE arg \notin Instance /\ arg # "exports"
    BY <1>3, <2>1, <2>4 DEF ClassesOf
  <2>5. QED
    BY <2>2, <2>3, <2>4
<1> HIDE DEF arg
<1>5. e \in 1..Len(ClassesOf(arg)) /\ Len(ClassesOf(arg)) \in Nat
  BY <1>4, LenProperties DEF arg
<1>6. ClassesOf(arg)[e] \in Class
  BY <1>4, <1>5, ElementOfSeq
<1>7. Methods(arg, e) \in Seq(Filter)
  BY <1>6, SubscriptionsAssumption DEF Methods, Handlers
<1>8. QED
  BY <1>2, <1>5, <1>7 DEF arg

LEMMA AddedTyped ==
    ASSUME subscribing \in Nat, NEW call \in Calls, NEW k \in DOMAIN call, NEW s \in Added(call, k)
    PROVE  /\ s \in Subscription
           /\ \E e, j \in Nat : /\ s.id = <<subscribing + 1, k, e, j>>
                                /\ s.filter = Methods(call[k], e)[j]
                                /\ s.owner = OwnerOf(call[k])
<1>0. PICK e \in DOMAIN ClassesOf(call[k]) : \E j \in DOMAIN Methods(call[k], e) :
           s = [id |-> <<subscribing + 1, k, e, j>>, filter |-> Methods(call[k], e)[j],
                owner |-> OwnerOf(call[k])]
  BY DEF Added
<1>1. PICK j \in DOMAIN Methods(call[k], e) :
           s = [id |-> <<subscribing + 1, k, e, j>>, filter |-> Methods(call[k], e)[j],
                owner |-> OwnerOf(call[k])]
  BY <1>0
<1>2. k \in Nat /\ e \in Nat /\ Methods(call[k], e) \in Seq(Filter)
  BY MethodsTyped
<1> DEFINE m == Methods(call[k], e)
           id == <<subscribing + 1, k, e, j>>
<1>3. j \in Nat /\ m[j] \in Filter
  <2> HIDE DEF m
  <2>1. m \in Seq(Filter) /\ j \in DOMAIN m
    BY <1>2 DEF m
  <2>2. j \in 1..Len(m) /\ Len(m) \in Nat
    BY <2>1, LenProperties
  <2>3. QED
    BY <2>1, <2>2, ElementOfSeq
<1>4. id \in Id
  BY <1>2, <1>3 DEF Id
<1>5. OwnerOf(call[k]) \in Instance \cup {Undefined}
  BY DEF OwnerOf
<1> HIDE DEF m, id
<1>6. s = [id |-> id, filter |-> m[j], owner |-> OwnerOf(call[k])]
  BY <1>1 DEF m, id
<1>7. s \in Subscription
  BY <1>3, <1>4, <1>5, <1>6 DEF Subscription
<1>8. s.id = id /\ s.filter = m[j] /\ s.owner = OwnerOf(call[k])
  BY <1>6
<1>9. QED
  BY <1>2, <1>3, <1>7, <1>8 DEF m, id

LEMMA AddedUnique ==
    ASSUME subscribing \in Nat, NEW call \in Calls,
           NEW k \in DOMAIN call, NEW s \in Added(call, k),
           NEW h \in DOMAIN call, NEW t \in Added(call, h), s.id = t.id
    PROVE  s = t
<1>1. PICK e, j \in Nat : /\ s.id = <<subscribing + 1, k, e, j>>
                          /\ s.filter = Methods(call[k], e)[j]
                          /\ s.owner = OwnerOf(call[k])
  BY AddedTyped
<1>2. PICK f, i \in Nat : /\ t.id = <<subscribing + 1, h, f, i>>
                          /\ t.filter = Methods(call[h], f)[i]
                          /\ t.owner = OwnerOf(call[h])
  BY AddedTyped
<1>3. k = h /\ e = f /\ j = i
  <2>1. s.id[2] = k /\ s.id[3] = e /\ s.id[4] = j
    BY <1>1
  <2>2. t.id[2] = h /\ t.id[3] = f /\ t.id[4] = i
    BY <1>2
  <2>3. QED
    BY <2>1, <2>2
<1>4. s.filter = t.filter /\ s.owner = t.owner
  BY <1>1, <1>2, <1>3
<1>5. s \in Subscription /\ t \in Subscription
  BY AddedTyped
<1>6. QED
  BY <1>4, <1>5 DEF Subscription
-----------------------------------------------------------------------------
(* The invariant holds at first and after every step *)

LEMMA InitInv == Init => SubscriptionsInv
<1> SUFFICES ASSUME Init PROVE SubscriptionsInv
  OBVIOUS
<1>1. loop.pending = {} /\ loop.event = 0 /\ DOMAIN waits = {}
  BY DEF Init, NoLoop
<1>2. waits \in Seq(WaitRecord) /\ processed \in Seq(Type)
  BY EmptySeq DEF Init
<1>3. TypeOK
  BY <1>1, <1>2 DEF Init, TypeOK, NoLoop
<1>4. QED
  BY <1>1, <1>3 DEF Init, SubscriptionsInv, IdsDrawn, Unique, OwnersKnown, PoliciesOK, WaitsKept

LEMMA WaitTyped ==
    ASSUME SubscriptionsInv, NEW w \in DOMAIN waits
    PROVE  /\ waits[w] \in WaitRecord /\ waits[w].id \in Id
           /\ waits[w].id[1] \in 1..subscribing
           /\ WaitKept(waits[w], messageSubscriptions, processed, refusals, loop.pending, subscriptionsOf)
<1>1. waits[w] \in WaitRecord
  BY DEF SubscriptionsInv, WaitsKept, WaitKept
<1>2. QED
  BY <1>1 DEF SubscriptionsInv, WaitsKept, WaitRecord, DrawnBy

LEMMA RegisterKeepsInv ==
    ASSUME SubscriptionsInv, NEW call \in Calls, RegisterHandlers(call)
    PROVE  SubscriptionsInv'
<1> DEFINE taken == {k \in DOMAIN call : \A h \in 1..k : ~Refused(call[h])}
           new   == UNION {Added(call, k) : k \in taken}
           n     == subscribing + 1
<1>1. /\ messageSubscriptions' = messageSubscriptions \cup new
      /\ subscribing' = n
      /\ subscriptionsOf' = [i \in Instance |->
                               subscriptionsOf[i] \cup {s.id : s \in {t \in new : t.owner = i}}]
      /\ waits' = waits /\ processed' = processed /\ loop' = loop
      /\ ignoring' = ignoring /\ busy' = busy /\ refusals' = refusals
  BY DEF RegisterHandlers, policyVars
<1>2. subscribing \in Nat /\ n \in Nat /\ n > subscribing /\ n \in 1..n
  BY DEF SubscriptionsInv, TypeOK
<1>3. \A s \in new : s \in Subscription /\ s.id[1] = n /\ s.id \in Id
  <2> SUFFICES ASSUME NEW s \in new PROVE s \in Subscription /\ s.id[1] = n /\ s.id \in Id
    OBVIOUS
  <2>1. PICK k \in DOMAIN call : s \in Added(call, k)
    OBVIOUS
  <2>2. s \in Subscription /\ s.id[1] = n
    BY <1>2, <2>1, AddedTyped
  <2>3. QED
    BY <2>2 DEF Subscription
<1>4. Unique(new)
  <2> SUFFICES ASSUME NEW s \in new, NEW t \in new, s.id = t.id PROVE s = t
    BY DEF Unique
  <2>1. PICK k \in DOMAIN call : s \in Added(call, k)
    OBVIOUS
  <2>2. PICK h \in DOMAIN call : t \in Added(call, h)
    OBVIOUS
  <2>3. QED
    BY <1>2, <2>1, <2>2, AddedUnique
<1> HIDE DEF new, n
<1>5. \A id : DrawnBy(subscribing, id) => DrawnBy(n, id) /\ id[1] # n
  BY <1>2 DEF DrawnBy
<1>6. \A s \in new : DrawnBy(n, s.id)
  BY <1>2, <1>3 DEF DrawnBy
<1>7. TypeOK'
  <2>1. messageSubscriptions' \subseteq Subscription
    BY <1>1, <1>3 DEF SubscriptionsInv, TypeOK
  <2>2. subscriptionsOf' \in [Instance -> SUBSET Id]
    BY <1>1, <1>3 DEF SubscriptionsInv, TypeOK
  <2>3. QED
    BY <1>1, <1>2, <2>1, <2>2 DEF SubscriptionsInv, TypeOK
<1>8. IdsDrawn(n, messageSubscriptions', loop.pending, subscriptionsOf')
  BY <1>1, <1>5, <1>6 DEF SubscriptionsInv, IdsDrawn
<1>9. Unique(messageSubscriptions')
  <2>1. \A s \in messageSubscriptions : s.id[1] # n
    BY <1>5 DEF SubscriptionsInv, IdsDrawn
  <2>2. QED
    BY <1>1, <1>3, <1>4, <2>1 DEF SubscriptionsInv, Unique
<1>10. OwnersKnown'
  BY <1>1 DEF SubscriptionsInv, OwnersKnown
<1>11. WaitsKept'
  <2> SUFFICES ASSUME NEW w \in DOMAIN waits
               PROVE  WaitKept(waits[w], messageSubscriptions', processed, refusals, loop.pending, subscriptionsOf')
    BY <1>1 DEF WaitsKept
  <2>1. WaitKept(waits[w], messageSubscriptions, processed, refusals, loop.pending, subscriptionsOf)
    BY WaitTyped
  <2>2. waits[w].id[1] # n
    BY <1>5 DEF SubscriptionsInv
  <2>3. \A s \in messageSubscriptions' : s.id = waits[w].id => s \in messageSubscriptions
    BY <1>1, <1>3, <2>2
  <2>4. Has(messageSubscriptions', waits[w].id) <=> Has(messageSubscriptions, waits[w].id)
    BY <1>1, <2>3 DEF Has
  <2>5. \A i \in Instance : waits[w].id \notin subscriptionsOf'[i]
    BY <1>1, <1>3, <2>1, <2>2 DEF WaitKept
  <2>6. QED
    BY <2>1, <2>3, <2>4, <2>5, KeptByOthers
<1>12. PoliciesOK'
  BY <1>1, <1>5 DEF SubscriptionsInv, PoliciesOK
<1>13. QED
  BY <1>1, <1>5, <1>7, <1>8, <1>9, <1>10, <1>11, <1>12 DEF SubscriptionsInv

LEMMA UnregisterKeepsInv ==
    ASSUME SubscriptionsInv, NEW i \in Instance, UnregisterHandlers(i)
    PROVE  SubscriptionsInv'
<1> DEFINE M2 == messageSubscriptions'
<1>1. PICK ids \in SUBSET subscriptionsOf[i] :
          M2 = {s \in messageSubscriptions : s.id \notin ids}
  BY DEF UnregisterHandlers, Without
<1>2. /\ subscribing' = subscribing /\ subscriptionsOf' = subscriptionsOf /\ waits' = waits
      /\ processed' = processed /\ loop' = loop
      /\ ignoring' = ignoring /\ busy' = busy /\ refusals' = refusals
  BY DEF UnregisterHandlers, policyVars
<1>3. M2 \subseteq messageSubscriptions
  BY <1>1
<1>4. WaitsKept'
  <2> SUFFICES ASSUME NEW w \in DOMAIN waits
               PROVE  WaitKept(waits[w], M2, processed, refusals, loop.pending, subscriptionsOf)
    BY <1>2 DEF WaitsKept
  <2>1. WaitKept(waits[w], messageSubscriptions, processed, refusals, loop.pending, subscriptionsOf)
    BY WaitTyped
  <2>2. waits[w].id \notin ids
    BY <2>1 DEF WaitKept
  <2>3. Has(M2, waits[w].id) <=> Has(messageSubscriptions, waits[w].id)
    BY <1>1, <2>2 DEF Has
  <2>4. \A s \in M2 : s.id = waits[w].id => s \in messageSubscriptions
    BY <1>3
  <2>5. \A j \in Instance : waits[w].id \notin subscriptionsOf[j]
    BY <2>1 DEF WaitKept
  <2>6. QED
    BY <2>1, <2>3, <2>4, <2>5, KeptByOthers
<1>5. TypeOK'
  BY <1>2, <1>3 DEF SubscriptionsInv, TypeOK
<1>6. QED
  BY <1>2, <1>3, <1>4, <1>5 DEF SubscriptionsInv, IdsDrawn, Unique, OwnersKnown, PoliciesOK

LEMMA SubscribeKeepsInv ==
    ASSUME SubscriptionsInv, NEW f \in Filter, Subscribe(f)
    PROVE  SubscriptionsInv'
<1> DEFINE n   == subscribing + 1
           id  == <<n, 1, 1, 1>>
           sub == [id |-> id, filter |-> f, owner |-> Undefined]
           M2  == messageSubscriptions'
<1>1. /\ subscribing' = n /\ M2 = messageSubscriptions \cup {sub}
      /\ ignoring' = ignoring \cup {id}
      /\ UNCHANGED <<subscriptionsOf, busy, waits, processed, loop, refusals>>
  BY DEF Subscribe
<1>2. subscribing \in Nat /\ n \in Nat /\ n > subscribing /\ n \in 1..n
  BY DEF SubscriptionsInv, TypeOK
<1>3. id \in Id /\ id[1] = n
  BY <1>2 DEF Id
<1> HIDE DEF id, n
<1>4. /\ sub \in Subscription /\ sub.id = id
      /\ sub.owner = Undefined /\ Undefined \notin Instance
  BY <1>3, SubscriptionsAssumption DEF Subscription
<1> HIDE DEF sub
<1>5. \A d : DrawnBy(subscribing, d) => DrawnBy(n, d) /\ d # id
  BY <1>2, <1>3 DEF DrawnBy, n
<1>6. DrawnBy(n, id)
  BY <1>2, <1>3 DEF DrawnBy
<1>7. TypeOK'
  <2>1. M2 \subseteq Subscription
    BY <1>1, <1>4 DEF SubscriptionsInv, TypeOK
  <2>2. QED
    BY <1>1, <1>2, <2>1 DEF SubscriptionsInv, TypeOK
<1>8. \A s \in messageSubscriptions \cup loop.pending : s.id # id
  BY <1>5 DEF SubscriptionsInv, IdsDrawn
<1>9. IdsDrawn(n, M2, loop.pending, subscriptionsOf)
  BY <1>1, <1>4, <1>5, <1>6 DEF SubscriptionsInv, IdsDrawn
<1>10. Unique(M2)
  BY <1>1, <1>4, <1>8 DEF SubscriptionsInv, Unique
<1>11. OwnersKnown'
  BY <1>1, <1>4 DEF SubscriptionsInv, OwnersKnown
<1>12. \A w \in DOMAIN waits : DrawnBy(n, waits[w].id) /\ waits[w].id # id
  BY <1>5 DEF SubscriptionsInv
<1>13. PoliciesOK'
  BY <1>1, <1>5, <1>6, <1>12 DEF SubscriptionsInv, PoliciesOK
<1>14. WaitsKept'
  <2> SUFFICES ASSUME NEW w \in DOMAIN waits
               PROVE  WaitKept(waits[w], M2, processed, refusals, loop.pending, subscriptionsOf)
    BY <1>1 DEF WaitsKept
  <2>1. WaitKept(waits[w], messageSubscriptions, processed, refusals, loop.pending, subscriptionsOf)
    BY WaitTyped
  <2>2. Has(M2, waits[w].id) <=> Has(messageSubscriptions, waits[w].id)
    BY <1>1, <1>4, <1>12 DEF Has
  <2>3. \A s \in M2 : s.id = waits[w].id => s \in messageSubscriptions
    BY <1>1, <1>4, <1>12
  <2>4. \A i \in Instance : waits[w].id \notin subscriptionsOf[i]
    BY <2>1 DEF WaitKept
  <2>5. QED
    BY <2>1, <2>2, <2>3, <2>4, KeptByOthers
<1>15. QED
  BY <1>1, <1>7, <1>9, <1>10, <1>11, <1>12, <1>13, <1>14 DEF SubscriptionsInv

LEMMA WaitForEventKeepsInv ==
    ASSUME SubscriptionsInv, NEW f \in Filter, WaitForEvent(f)
    PROVE  SubscriptionsInv'
<1> DEFINE n   == subscribing + 1
           id  == <<n, 1, 1, 1>>
           sub == [id |-> id, filter |-> f, owner |-> Undefined]
           W   == [filter |-> f, id |-> id, status |-> "waiting",
                   since |-> Len(processed), event |-> 0]
           M2  == messageSubscriptions'
           new == Len(waits) + 1
<1>1. /\ subscribing' = n /\ M2 = messageSubscriptions \cup {sub} /\ waits' = Append(waits, W)
      /\ subscriptionsOf' = subscriptionsOf /\ processed' = processed /\ loop' = loop
      /\ ignoring' = ignoring /\ busy' = busy /\ refusals' = refusals
  BY DEF WaitForEvent, policyVars
<1>2. /\ subscribing \in Nat /\ n \in Nat /\ n > subscribing /\ n \in 1..n
      /\ processed \in Seq(Type) /\ Len(processed) \in Nat
  BY LenProperties DEF SubscriptionsInv, TypeOK
<1>3. id \in Id /\ id[1] = n
  BY <1>2 DEF Id
<1> HIDE DEF id, n
<1>4. /\ sub \in Subscription /\ sub.id = id /\ sub.filter = f
      /\ sub.owner = Undefined /\ Undefined \notin Instance
  BY <1>3, SubscriptionsAssumption DEF Subscription
<1>5. /\ W \in WaitRecord /\ W.id = id /\ W.filter = f
      /\ W.status = "waiting" /\ W.since = Len(processed)
  BY <1>2, <1>3 DEF WaitRecord
<1> HIDE DEF W, sub
<1>6. \A d : DrawnBy(subscribing, d) => DrawnBy(n, d) /\ d # id
  BY <1>2, <1>3 DEF DrawnBy, n
<1>7. DrawnBy(n, id)
  BY <1>2, <1>3 DEF DrawnBy
<1>8. /\ waits' \in Seq(WaitRecord)
      /\ Len(waits) \in Nat /\ DOMAIN waits = 1..Len(waits) /\ DOMAIN waits' = 1..new
      /\ \A w \in DOMAIN waits : waits'[w] = waits[w]
      /\ waits'[new] = W
  BY <1>1, <1>5, Appended DEF SubscriptionsInv, TypeOK
<1>9. \A w \in DOMAIN waits' : w \in DOMAIN waits \/ w = new
  BY <1>8
<1> HIDE DEF new
<1>10. TypeOK'
  <2>1. M2 \subseteq Subscription
    BY <1>1, <1>4 DEF SubscriptionsInv, TypeOK
  <2>2. QED
    BY <1>1, <1>2, <1>8, <2>1 DEF SubscriptionsInv, TypeOK
<1>11. \A s \in messageSubscriptions \cup loop.pending : s.id # id
  BY <1>6 DEF SubscriptionsInv, IdsDrawn
<1>12. \A i \in Instance : id \notin subscriptionsOf[i]
  BY <1>6 DEF SubscriptionsInv, IdsDrawn
<1>13. \A w \in DOMAIN waits : waits[w].id # id
  BY <1>6 DEF SubscriptionsInv
<1>14. IdsDrawn(n, M2, loop.pending, subscriptionsOf)
  BY <1>1, <1>4, <1>6, <1>7 DEF SubscriptionsInv, IdsDrawn
<1>15. \A w \in DOMAIN waits' : DrawnBy(n, waits'[w].id)
  BY <1>5, <1>6, <1>7, <1>8, <1>9 DEF SubscriptionsInv
<1>16. Unique(M2)
  BY <1>1, <1>4, <1>11 DEF SubscriptionsInv, Unique
<1>17. \A v, w \in DOMAIN waits' : waits'[v].id = waits'[w].id => v = w
  BY <1>5, <1>8, <1>9, <1>13 DEF SubscriptionsInv
<1>18. OwnersKnown'
  BY <1>1, <1>4 DEF SubscriptionsInv, OwnersKnown
<1>19. WaitsKept'
  <2> SUFFICES ASSUME NEW w \in DOMAIN waits'
               PROVE  WaitKept(waits'[w], M2, processed, refusals, loop.pending, subscriptionsOf)
    BY <1>1 DEF WaitsKept
  <2>1. CASE w = new
    <3>1. Has(M2, W.id) /\ ~Has(loop.pending, W.id)
      BY <1>1, <1>4, <1>5, <1>11 DEF Has
    <3>2. \A s \in M2 \cup loop.pending : s.id = W.id => s.filter = W.filter
      BY <1>1, <1>4, <1>5, <1>11
    <3>3. WaitKept(W, M2, processed, refusals, loop.pending, subscriptionsOf)
      BY <1>2, <1>5, <1>12, <3>1, <3>2, KeptAtFirst
    <3>4. QED
      BY <1>8, <2>1, <3>3
  <2>2. CASE w \in DOMAIN waits
    <3>1. WaitKept(waits[w], messageSubscriptions, processed, refusals, loop.pending, subscriptionsOf)
      BY <2>2, WaitTyped
    <3>2. waits[w].id # id
      BY <1>13, <2>2
    <3>3. Has(M2, waits[w].id) <=> Has(messageSubscriptions, waits[w].id)
      BY <1>1, <1>4, <3>2 DEF Has
    <3>4. \A s \in M2 : s.id = waits[w].id => s \in messageSubscriptions
      BY <1>1, <1>4, <3>2
    <3>5. \A i \in Instance : waits[w].id \notin subscriptionsOf[i]
      BY <3>1 DEF WaitKept
    <3>6. WaitKept(waits[w], M2, processed, refusals, loop.pending, subscriptionsOf)
      BY <3>1, <3>3, <3>4, <3>5, KeptByOthers
    <3>7. QED
      BY <1>8, <2>2, <3>6
  <2>3. QED
    BY <1>9, <2>1, <2>2
<1>20. \A d \in ignoring : DrawnBy(n, d) /\ d # id
  BY <1>6 DEF SubscriptionsInv, PoliciesOK
<1>21. PoliciesOK'
  BY <1>1, <1>5, <1>8, <1>9, <1>20 DEF SubscriptionsInv, PoliciesOK
<1>22. QED
  BY <1>1, <1>10, <1>14, <1>15, <1>16, <1>17, <1>18, <1>19, <1>21 DEF SubscriptionsInv

(* The records of waits change, their ids do not. *)
LEMMA WaitChanged ==
    ASSUME SubscriptionsInv, NEW w \in DOMAIN waits, NEW W \in WaitRecord, W.id = waits[w].id,
           waits' = [waits EXCEPT ![w] = W]
    PROVE  /\ waits' \in Seq(WaitRecord) /\ DOMAIN waits' = DOMAIN waits
           /\ waits'[w] = W
           /\ \A v \in DOMAIN waits : v # w => waits'[v] = waits[v]
           /\ \A v \in DOMAIN waits : waits'[v].id = waits[v].id
<1>1. waits \in Seq(WaitRecord) /\ DOMAIN waits = 1..Len(waits)
  BY LenProperties DEF SubscriptionsInv, TypeOK
<1>2. waits' \in Seq(WaitRecord) /\ Len(waits') = Len(waits)
  BY <1>1, ExceptSeq
<1>3. \A v \in DOMAIN waits : waits'[v] = IF v = w THEN W ELSE waits[v]
  BY <1>1, ExceptSeq
<1>4. DOMAIN waits' = 1..Len(waits')
  BY <1>2, LenProperties
<1>5. QED
  BY <1>1, <1>2, <1>3, <1>4

LEMMA TimeOutKeepsInv ==
    ASSUME SubscriptionsInv, NEW w \in DOMAIN waits, TimeOut(w)
    PROVE  SubscriptionsInv'
<1> DEFINE W  == waits[w]
           W2 == [W EXCEPT !.status = "rejected"]
<1>1. /\ waits' = [waits EXCEPT ![w] = W2]
      /\ UNCHANGED <<messageSubscriptions, subscribing, subscriptionsOf, processed, loop>>
      /\ UNCHANGED <<ignoring, busy, refusals>> /\ W.status = "waiting"
  BY DEF TimeOut, policyVars
<1>2. WaitKept(W, messageSubscriptions, processed, refusals, loop.pending, subscriptionsOf)
  BY WaitTyped
<1>3. /\ W2 \in WaitRecord /\ W2.id = W.id /\ W2.since = W.since /\ W2.filter = W.filter
      /\ W2.status = "rejected"
  BY <1>2 DEF WaitKept, WaitRecord
<1> HIDE DEF W2
<1>4. /\ AnswersTo(processed, refusals, W2) = AnswersTo(processed, refusals, W)
      /\ \A t, type : Precedes(W2, t, type) <=> Precedes(W, t, type)
  BY <1>3 DEF AnswersTo, Withheld, Precedes
<1>5. WaitKept(W2, messageSubscriptions, processed, refusals, loop.pending, subscriptionsOf)
  BY <1>2, <1>3, <1>4 DEF WaitKept
<1>6. /\ waits' \in Seq(WaitRecord) /\ DOMAIN waits' = DOMAIN waits
      /\ waits'[w] = W2
      /\ \A v \in DOMAIN waits : v # w => waits'[v] = waits[v]
      /\ \A v \in DOMAIN waits : waits'[v].id = waits[v].id
  BY <1>1, <1>3, WaitChanged
<1>7. WaitsKept'
  BY <1>1, <1>5, <1>6 DEF SubscriptionsInv, WaitsKept
<1>8. TypeOK'
  BY <1>1, <1>6 DEF SubscriptionsInv, TypeOK
<1>9. QED
  BY <1>1, <1>6, <1>7, <1>8 DEF SubscriptionsInv, IdsDrawn, Unique, OwnersKnown, PoliciesOK

LEMMA BeginEventKeepsInv ==
    ASSUME SubscriptionsInv, NEW type \in Type, BeginEvent(type)
    PROVE  SubscriptionsInv'
<1> DEFINE P2 == Append(processed, type)
           D2 == Subscribers(type)
<1>1. /\ loop = NoLoop /\ processed' = P2
      /\ loop' = [event |-> Len(processed) + 1, pending |-> D2]
      /\ UNCHANGED <<messageSubscriptions, subscribing, subscriptionsOf, waits>>
      /\ UNCHANGED <<ignoring, busy, refusals>>
  BY DEF BeginEvent, policyVars
<1>2. loop.pending = {} /\ loop'.pending = D2 /\ loop'.event = Len(processed) + 1
  BY <1>1 DEF NoLoop
<1>3. P2 \in Seq(Type) /\ Len(P2) = Len(processed) + 1 /\ Len(processed) \in Nat
  BY Appended DEF SubscriptionsInv, TypeOK
<1>4. D2 \subseteq messageSubscriptions
  BY DEF Subscribers
<1>5. WaitsKept'
  <2> SUFFICES ASSUME NEW w \in DOMAIN waits
               PROVE  WaitKept(waits[w], messageSubscriptions, P2, refusals, D2, subscriptionsOf)
    BY <1>1, <1>2 DEF WaitsKept
  <2>1. WaitKept(waits[w], messageSubscriptions, processed, refusals, {}, subscriptionsOf)
    BY <1>2, WaitTyped
  <2>2. processed \in Seq(Type) /\ \A r \in refusals : r.event \in 1..Len(processed)
    BY DEF SubscriptionsInv, TypeOK
  <2>3. QED
    BY <2>1, <2>2, KeptByEvent DEF Subscribers
<1> HIDE DEF P2, D2
<1>6. TypeOK'
  <2>1. D2 \subseteq Subscription
    BY <1>4 DEF SubscriptionsInv, TypeOK
  <2>2. loop'.event # 0 /\ loop'.event = Len(processed')
    BY <1>1, <1>2, <1>3
  <2>3. loop' = [event |-> loop'.event, pending |-> loop'.pending]
    BY <1>1, <1>2
  <2>4. \A r \in refusals : r.event \in 1..Len(P2)
    BY <1>3 DEF SubscriptionsInv, TypeOK
  <2>5. QED
    BY <1>1, <1>2, <1>3, <2>1, <2>2, <2>3, <2>4 DEF SubscriptionsInv, TypeOK
<1>7. QED
  BY <1>1, <1>2, <1>4, <1>5, <1>6 DEF SubscriptionsInv, IdsDrawn, Unique, OwnersKnown, PoliciesOK

LEMMA DeliverKeepsInv ==
    ASSUME SubscriptionsInv, NEW s \in loop.pending, Deliver(s)
    PROVE  SubscriptionsInv'
<1> DEFINE D  == loop.pending
           D2 == D \ {s}
           M2 == messageSubscriptions'
<1>1. /\ loop' = [loop EXCEPT !.pending = @ \ {s}]
      /\ UNCHANGED <<subscribing, subscriptionsOf, processed, ignoring, refusals>>
      /\ busy' \subseteq busy \cup ignoring
      /\ \A t \in D2 : Precedes(s, t, processed[loop.event])
  BY DEF Deliver, IsNext
<1>2. loop' = [event |-> loop.event, pending |-> D2]
  BY <1>1 DEF SubscriptionsInv, TypeOK
<1>3. loop'.pending = D2 /\ loop'.event = loop.event
  BY <1>2
<1>4. loop.event # 0 /\ loop.event = Len(processed) /\ processed \in Seq(Type)
  BY DEF SubscriptionsInv, TypeOK, NoLoop
<1>5. \A t \in D : t.id = s.id => t = s
  BY DEF SubscriptionsInv, Unique
<1>6. \A id : id # s.id => (Has(D2, id) <=> Has(D, id))
  BY DEF Has
<1>7. ASSUME NEW v \in DOMAIN waits, waits[v].id # s.id,
             M2 \subseteq messageSubscriptions,
             \A t \in messageSubscriptions \ M2 : t.id = s.id
      PROVE  WaitKept(waits[v], M2, processed, refusals, D2, subscriptionsOf)
  <2>1. WaitKept(waits[v], messageSubscriptions, processed, refusals, D, subscriptionsOf)
    BY WaitTyped
  <2>2. Has(M2, waits[v].id) <=> Has(messageSubscriptions, waits[v].id)
    BY <1>7 DEF Has
  <2>3. \A t \in M2 : t.id = waits[v].id => t \in messageSubscriptions
    BY <1>7
  <2>4. \A i \in Instance : waits[v].id \notin subscriptionsOf[i]
    BY <2>1 DEF WaitKept
  <2>5. Has(D2, waits[v].id) <=> Has(D, waits[v].id)
    BY <1>6, <1>7
  <2>6. QED
    BY <2>1, <2>2, <2>3, <2>4, <2>5, KeptByOthers
<1>8. /\ M2 \subseteq messageSubscriptions
      /\ waits' \in Seq(WaitRecord) /\ DOMAIN waits' = DOMAIN waits
      /\ \A v \in DOMAIN waits : waits'[v].id = waits[v].id
      /\ \A v \in DOMAIN waits : WaitKept(waits'[v], M2, processed, refusals, D2, subscriptionsOf)
  <2>1. CASE \E w \in DOMAIN waits : waits[w].id = s.id /\ AnswerWait(w)
    <3>1. PICK w \in DOMAIN waits : waits[w].id = s.id /\ AnswerWait(w)
      BY <2>1
    <3> DEFINE W  == waits[w]
               W2 == IF W.status = "waiting"
                     THEN [W EXCEPT !.status = "resolved", !.event = Len(processed)] ELSE W
    <3>2. M2 = {t \in messageSubscriptions : t.id # W.id}
      BY <3>1 DEF AnswerWait, Without
    <3>3. waits' = [waits EXCEPT ![w] = W2]
      BY <1>4, <3>1 DEF AnswerWait
    <3>4. WaitKept(W, messageSubscriptions, processed, refusals, D, subscriptionsOf)
      BY WaitTyped
    <3>5. W2 \in WaitRecord /\ W2.id = W.id
      BY <1>4, <3>4, LenProperties DEF WaitKept, WaitRecord
    <3>6. Has(D, W.id) /\ ~Has(D2, W.id)
      BY <1>5, <3>1 DEF Has
    <3>14. \A t \in D2 : Precedes(W, t, processed[Len(processed)])
      <4>1. s.filter = W.filter /\ s.id = W.id
        BY <3>1, <3>4 DEF WaitKept
      <4>2. QED
        BY <1>1, <1>4, <4>1 DEF Precedes
    <3>7. WaitKept(W2, {t \in messageSubscriptions : t.id # W.id}, processed, refusals, D2, subscriptionsOf)
      BY <1>4, <3>4, <3>6, <3>14, KeptByAnswer
    <3>8. WaitKept(W2, M2, processed, refusals, D2, subscriptionsOf)
      BY <3>2, <3>7
    <3> HIDE DEF W2
    <3>9. /\ waits' \in Seq(WaitRecord) /\ DOMAIN waits' = DOMAIN waits
          /\ waits'[w] = W2
          /\ \A v \in DOMAIN waits : v # w => waits'[v] = waits[v]
          /\ \A v \in DOMAIN waits : waits'[v].id = waits[v].id
      BY <3>3, <3>5, WaitChanged
    <3>10. M2 \subseteq messageSubscriptions /\ \A t \in messageSubscriptions \ M2 : t.id = s.id
      BY <3>1, <3>2
    <3>11. \A v \in DOMAIN waits : v # w => waits[v].id # s.id
      BY <3>1 DEF SubscriptionsInv
    <3>12. ASSUME NEW v \in DOMAIN waits
           PROVE  WaitKept(waits'[v], M2, processed, refusals, D2, subscriptionsOf)
      <4>1. CASE v = w
        BY <3>8, <3>9, <4>1
      <4>2. CASE v # w
        BY <1>7, <3>9, <3>10, <3>11, <4>2
      <4>3. QED
        BY <4>1, <4>2
    <3>13. QED
      BY <3>9, <3>10, <3>12
  <2>2. CASE /\ \A w \in DOMAIN waits : waits[w].id # s.id
             /\ UNCHANGED <<waits, messageSubscriptions>>
    BY <1>7, <2>2 DEF SubscriptionsInv, TypeOK
  <2>3. QED
    BY <2>1, <2>2 DEF Deliver
<1>9. WaitsKept'
  BY <1>1, <1>3, <1>8 DEF WaitsKept
<1>10. TypeOK'
  <2>1. loop'.event # 0 /\ loop'.event = Len(processed')
    BY <1>1, <1>3, <1>4
  <2>2. M2 \subseteq Subscription /\ D2 \subseteq Subscription
    BY <1>8 DEF SubscriptionsInv, TypeOK
  <2>3. loop' = [event |-> loop'.event, pending |-> loop'.pending]
    BY <1>2, <1>3
  <2>4. QED
    BY <1>1, <1>3, <1>8, <2>1, <2>2, <2>3 DEF SubscriptionsInv, TypeOK
<1>11. IdsDrawn(subscribing, M2, D2, subscriptionsOf) /\ Unique(M2) /\ Unique(D2)
  BY <1>8 DEF SubscriptionsInv, IdsDrawn, Unique
<1>12. PoliciesOK'
  BY <1>1, <1>8 DEF SubscriptionsInv, PoliciesOK
<1>13. QED
  BY <1>1, <1>3, <1>8, <1>9, <1>10, <1>11, <1>12 DEF SubscriptionsInv, OwnersKnown

LEMMA RefuseKeepsInv ==
    ASSUME SubscriptionsInv, NEW s \in loop.pending, Refuse(s)
    PROVE  SubscriptionsInv'
<1> DEFINE n == Len(processed)
<1>1. /\ loop' = [loop EXCEPT !.pending = {}] /\ s.id \in busy
      /\ refusals' = refusals \cup {[event |-> loop.event, by |-> s]}
      /\ UNCHANGED <<messageSubscriptions, subscribing, subscriptionsOf, waits, processed>>
      /\ UNCHANGED <<ignoring, busy>>
      /\ \A t \in loop.pending \ {s} : Precedes(s, t, processed[loop.event])
  BY DEF Refuse, IsNext
<1>2. /\ loop.event # 0 /\ loop.event = n /\ processed \in Seq(Type) /\ n \in Nat
      /\ loop.pending \subseteq Subscription
  BY LenProperties DEF SubscriptionsInv, TypeOK, NoLoop
<1>3. loop' = [event |-> loop.event, pending |-> {}]
  BY <1>1 DEF SubscriptionsInv, TypeOK
<1>4. loop'.pending = {} /\ loop'.event = loop.event
  BY <1>3
<1>5. WaitsKept'
  <2> SUFFICES ASSUME NEW w \in DOMAIN waits
               PROVE  WaitKept(waits[w], messageSubscriptions, processed,
                               refusals \cup {[event |-> n, by |-> s]}, {}, subscriptionsOf)
    BY <1>1, <1>2, <1>4 DEF WaitsKept
  <2>1. WaitKept(waits[w], messageSubscriptions, processed, refusals, loop.pending, subscriptionsOf)
    BY WaitTyped
  <2>2. s.id # waits[w].id
    BY <1>1 DEF SubscriptionsInv, PoliciesOK
  <2>3. QED
    BY <1>1, <1>2, <2>1, <2>2, KeptByRefusal
<1>6. TypeOK'
  <2>1. \A r \in refusals' : r.event \in 1..n
    BY <1>1, <1>2 DEF SubscriptionsInv, TypeOK
  <2>2. QED
    BY <1>1, <1>2, <1>3, <1>4, <2>1 DEF SubscriptionsInv, TypeOK
<1>7. QED
  BY <1>1, <1>4, <1>5, <1>6 DEF SubscriptionsInv, IdsDrawn, Unique, OwnersKnown, PoliciesOK

LEMMA HandlerEndsKeepsInv ==
    ASSUME SubscriptionsInv, NEW id, HandlerEnds(id)
    PROVE  SubscriptionsInv'
  BY DEF HandlerEnds, SubscriptionsInv, TypeOK, IdsDrawn, Unique, OwnersKnown, PoliciesOK, WaitsKept

LEMMA EndEventKeepsInv ==
    ASSUME SubscriptionsInv, EndEvent
    PROVE  SubscriptionsInv'
<1>1. /\ loop' = NoLoop /\ loop.pending = {}
      /\ UNCHANGED <<messageSubscriptions, subscribing, subscriptionsOf, waits, processed>>
      /\ UNCHANGED <<ignoring, busy, refusals>>
  BY DEF EndEvent, policyVars
<1>2. loop'.pending = {} /\ loop'.event = 0
  BY <1>1 DEF NoLoop
<1>3. TypeOK'
  BY <1>1, <1>2 DEF SubscriptionsInv, TypeOK, NoLoop
<1>4. QED
  BY <1>1, <1>2, <1>3 DEF SubscriptionsInv, IdsDrawn, Unique, OwnersKnown, PoliciesOK, WaitsKept

(* The invariant holds in every state of a program that subscribes,        *)
(* unsubscribes, waits and publishes, in any order (Bus.ts 142-402).       *)
THEOREM SubscriptionsInvariance == Spec => []SubscriptionsInv
<1>1. SubscriptionsInv /\ [Next]_vars => SubscriptionsInv'
  <2> SUFFICES ASSUME SubscriptionsInv, [Next]_vars PROVE SubscriptionsInv'
    OBVIOUS
  <2>1. CASE \E call \in Calls : RegisterHandlers(call)
    BY <2>1, RegisterKeepsInv
  <2>2. CASE \E i \in Instance : UnregisterHandlers(i)
    BY <2>2, UnregisterKeepsInv
  <2>3. CASE \E f \in Filter : WaitForEvent(f)
    BY <2>3, WaitForEventKeepsInv
  <2>4. CASE \E w \in DOMAIN waits : TimeOut(w)
    BY <2>4, TimeOutKeepsInv
  <2>5. CASE \E type \in Type : BeginEvent(type)
    BY <2>5, BeginEventKeepsInv
  <2>6. CASE \E s \in loop.pending : Deliver(s)
    BY <2>6, DeliverKeepsInv
  <2>7. CASE EndEvent
    BY <2>7, EndEventKeepsInv
  <2>8. CASE \E f \in Guarded : Subscribe(f)
    BY <2>8, SubscribeKeepsInv, SubscriptionsAssumption
  <2>9. CASE \E s \in loop.pending : Refuse(s)
    BY <2>9, RefuseKeepsInv
  <2>10. CASE \E id \in busy : HandlerEnds(id)
    BY <2>10, HandlerEndsKeepsInv
  <2>11. CASE UNCHANGED vars
    BY <2>11 DEF vars, policyVars, SubscriptionsInv, TypeOK, IdsDrawn, Unique, OwnersKnown,
                 PoliciesOK, WaitsKept
  <2>12. QED
    BY <2>1, <2>2, <2>3, <2>4, <2>5, <2>6, <2>7, <2>8, <2>9, <2>10, <2>11 DEF Next
<1>2. QED
  BY <1>1, InitInv, PTL DEF Spec

-----------------------------------------------------------------------------
(* Bus.ts 282-312, 388-402: a wait takes the first event that matches and  *)
(* is not refused ahead of it, and that one only, whoever else comes, goes *)
(* or gets it and whether or not its timer fires.                          *)
THEOREM WaitsTakeFirst == Spec => []WaitTakesFirstEvent
<1>1. SubscriptionsInv => WaitTakesFirstEvent
  <2> SUFFICES ASSUME SubscriptionsInv, NEW w \in DOMAIN waits
               PROVE  /\ waits[w].id \in Ids <=> (Answers(w) = {} \/ ~Handed(w))
                      /\ waits[w].status = "resolved" =>
                           waits[w].event \in Answers(w) /\ \A e \in Answers(w) : waits[w].event <= e
                      /\ waits[w].status = "waiting" => Answers(w) = {} \/ ~Handed(w)
    BY DEF WaitTakesFirstEvent, WaitSubscribedUntilEvent, ResolvedByFirstEvent
  <2>1. WaitKept(waits[w], messageSubscriptions, processed, refusals, loop.pending, subscriptionsOf)
    BY WaitTyped
  <2>2. Answers(w) = AnswersTo(processed, refusals, waits[w])
    BY DEF Answers, AnswersTo, KeptFrom, Withheld
  <2>3. Handed(w) <=> ~Has(loop.pending, waits[w].id)
    BY DEF Handed, Has
  <2>4. waits[w].id \in Ids <=> Has(messageSubscriptions, waits[w].id)
    BY DEF Ids, Has
  <2>5. QED
    BY <2>1, <2>2, <2>3, <2>4 DEF WaitKept
<1>2. QED
  BY <1>1, SubscriptionsInvariance, PTL

(* Bus.ts 193-204: a call of unregisterHandlers that returns has removed   *)
(* every handler of the instance, those of every call that registered it;  *)
(* it raises an error only when one of them was removed before.            *)
THEOREM UnregisteredOrError == Spec => UnregisterAllOrError
<1>1. ASSUME SubscriptionsInv, NEW i \in Instance, UnregisterHandlers(i)
      PROVE  /\ outcome' = "done" => \A s \in messageSubscriptions' : s.owner # i
             /\ outcome' = "error" => ~(subscriptionsOf[i] \subseteq Ids)
  <2> DEFINE ids  == subscriptionsOf[i]
             gone == ids \ Ids
  <2>1. /\ messageSubscriptions' = Without({id \in ids : \A g \in gone : Earlier(id, g)})
        /\ outcome' = IF gone = {} THEN "done" ELSE "error"
    BY <1>1 DEF UnregisterHandlers
  <2>2. CASE gone = {}
    <3>1. messageSubscriptions' = Without(ids)
      BY <2>1, <2>2
    <3>2. \A s \in messageSubscriptions' : s.owner # i
      BY <1>1, <3>1 DEF Without, SubscriptionsInv, OwnersKnown
    <3>3. QED
      BY <2>1, <2>2, <3>2
  <2>3. CASE gone # {}
    BY <2>1, <2>3
  <2>4. QED
    BY <2>2, <2>3
<1>2. SubscriptionsInv /\ [Next]_vars =>
        [\A i \in Instance :
            UnregisterHandlers(i) =>
                /\ outcome' = "done" =>
                     \A s \in messageSubscriptions' : s.owner # i
                /\ outcome' = "error" => ~(subscriptionsOf[i] \subseteq Ids)]_vars
  BY <1>1
<1>3. QED
  BY <1>2, SubscriptionsInvariance, PTL DEF Spec, UnregisterAllOrError
=============================================================================
