--------------------------- MODULE DevToolsProofs ---------------------------
(***************************************************************************)
(* Proofs about DevTools for any numbers of messages, subscribers and      *)
(* displays: a display shows the last deliveries that ended, and what its  *)
(* nodes wait for is running or on its way.                                *)
(***************************************************************************)
EXTENDS DevTools, SequenceTheorems, TLAPS

Delivery == [message : Nat, status : {"running", "ended"}]

TypeOK ==
    /\ tool \in {"ABusMonitor", "DevTools2"}
    /\ messages \in Seq(Nat)
    /\ processed \in Nat /\ processed <= Len(messages)
    /\ deliveries \in Seq(Delivery)
    /\ completions \in Seq(Nat)
    /\ started \in BOOLEAN
    /\ transit \in Seq(Nat)
    /\ mounted \in BOOLEAN
    /\ shown \in Seq(Nat)
    /\ visible \in BOOLEAN
    /\ mounts \in Nat /\ keys \in Nat

(* Messages and deliveries refer to what exists. *)
OriginsKnown ==
    /\ \A m \in DOMAIN messages : messages[m] \in 0..Len(deliveries)
    /\ \A d \in DOMAIN deliveries : messageId(d) \in DOMAIN messages

EndedAreCompleted ==
    \A d \in DOMAIN deliveries : Running(d) \/ \E j \in DOMAIN completions : completions[j] = d

(* q is what t ends with, element by element. *)
Ends(q, t) ==
    /\ Len(q) <= Len(t)
    /\ \A k \in 1..Len(q) : q[k] = t[Len(t) - Len(q) + k]

(* A bus that has not been started carries no records, and has no display. *)
Recording ==
    /\ ~started => transit = <<>> /\ ~mounted
    /\ Ends(transit, completions)
    /\ mounted => Ends(shown \o transit, completions)

DevToolsInv == TypeOK /\ OriginsKnown /\ EndedAreCompleted /\ Recording
-----------------------------------------------------------------------------
(* Sequences *)

LEMMA Appended ==
    ASSUME NEW S, NEW q \in Seq(S), NEW x \in S
    PROVE  /\ Len(q) \in Nat /\ DOMAIN q = 1..Len(q)
           /\ Append(q, x) \in Seq(S)
           /\ Len(Append(q, x)) = Len(q) + 1
           /\ DOMAIN Append(q, x) = 1..(Len(q) + 1)
           /\ \A i \in 1..Len(q) : Append(q, x)[i] = q[i]
           /\ Append(q, x)[Len(q) + 1] = x
  BY AppendProperties, LenProperties

LEMMA AppendedToJoined ==
    ASSUME NEW q \in Seq(Nat), NEW t \in Seq(Nat), NEW x \in Nat
    PROVE  q \o Append(t, x) = Append(q \o t, x)
<1>1. <<x>> \in Seq(Nat) /\ q \o t \in Seq(Nat)
  BY ConcatProperties
<1>2. Append(t, x) = t \o <<x>> /\ Append(q \o t, x) = (q \o t) \o <<x>>
  BY <1>1, AppendIsConcat
<1>3. (q \o t) \o <<x>> = q \o (t \o <<x>>)
  BY <1>1, ConcatAssociative
<1>4. QED
  BY <1>2, <1>3

LEMMA EndsEmpty == ASSUME NEW t \in Seq(Nat) PROVE Ends(<<>>, t)
  BY LenProperties DEF Ends

LEMMA EndsAppended ==
    ASSUME NEW q \in Seq(Nat), NEW t \in Seq(Nat), NEW x \in Nat, Ends(q, t)
    PROVE  Ends(Append(q, x), Append(t, x))
<1>1. PICK l, L : l = Len(q) /\ L = Len(t)
  OBVIOUS
<1>2. PICK r, u : r = Append(q, x) /\ u = Append(t, x)
  OBVIOUS
<1>3. /\ l \in Nat /\ L \in Nat /\ Len(r) = l + 1 /\ Len(u) = L + 1
      /\ \A k \in 1..l : r[k] = q[k]
      /\ \A k \in 1..L : u[k] = t[k]
      /\ r[l + 1] = x /\ u[L + 1] = x
  BY <1>1, <1>2, Appended
<1>4. l <= L /\ \A k \in 1..l : q[k] = t[L - l + k]
  BY <1>1 DEF Ends
<1>5. ASSUME NEW k \in 1..(l + 1) PROVE r[k] = u[(L + 1) - (l + 1) + k]
  <2>1. (L + 1) - (l + 1) + k = L - l + k
    BY <1>3
  <2>2. CASE k = l + 1
    <3>1. L - l + k = L + 1
      BY <1>3, <2>2
    <3>2. QED
      BY <1>3, <2>1, <2>2, <3>1
  <2>3. CASE k # l + 1
    <3>1. k \in 1..l /\ L - l + k \in 1..L
      BY <1>3, <1>4, <2>3
    <3>2. QED
      BY <1>3, <1>4, <2>1, <3>1
  <2>4. QED
    BY <2>2, <2>3
<1>6. l + 1 <= L + 1
  BY <1>3, <1>4
<1>7. QED
  BY <1>2, <1>3, <1>5, <1>6 DEF Ends

LEMMA EndsTail ==
    ASSUME NEW q \in Seq(Nat), NEW t \in Seq(Nat), q # <<>>, Ends(q, t)
    PROVE  Ends(Tail(q), t)
<1>1. PICK l, L, r : l = Len(q) /\ L = Len(t) /\ r = Tail(q)
  OBVIOUS
<1>2. /\ l \in Nat /\ L \in Nat /\ Len(r) = l - 1 /\ r \in Seq(Nat)
      /\ \A k \in 1..Len(r) : r[k] = q[k + 1]
  BY <1>1, HeadTailProperties, LenProperties
<1>3. l <= L /\ \A k \in 1..l : q[k] = t[L - l + k]
  BY <1>1 DEF Ends
<1>4. l - 1 \in Nat
  BY <1>2, LenProperties
<1>5. ASSUME NEW k \in 1..(l - 1) PROVE r[k] = t[L - (l - 1) + k]
  <2>1. k + 1 \in 1..l /\ L - (l - 1) + k = L - l + (k + 1)
    BY <1>2
  <2>2. QED
    BY <1>2, <1>3, <2>1
<1>6. l - 1 <= L
  BY <1>2, <1>3
<1>7. QED
  BY <1>1, <1>2, <1>5, <1>6 DEF Ends

LEMMA EndsIsSuffix ==
    ASSUME NEW q \in Seq(Nat), NEW t \in Seq(Nat), Ends(q, t)
    PROVE  IsSuffix(q, t)
<1>1. PICK l, L : l = Len(q) /\ L = Len(t)
  OBVIOUS
<1>2. l \in Nat /\ L \in Nat /\ l <= L /\ \A k \in 1..l : q[k] = t[L - l + k]
  BY <1>1, LenProperties DEF Ends
<1>3. PICK r, u : r = Reverse(q) /\ u = Reverse(t)
  OBVIOUS
<1>4. /\ \A i \in 1..l : q[l - i + 1] \in Nat
      /\ \A i \in 1..L : t[L - i + 1] \in Nat
  <2>1. /\ \A i \in 1..l : l - i + 1 \in 1..l
        /\ \A i \in 1..L : L - i + 1 \in 1..L
    BY <1>2
  <2>2. QED
    BY <1>1, <2>1, ElementOfSeq
<1>5. /\ r = [i \in 1..l |-> q[l - i + 1]]
      /\ u = [i \in 1..L |-> t[L - i + 1]]
  BY <1>1, <1>3 DEF Reverse
<1>6. /\ r \in [1..l -> Nat] /\ \A i \in 1..l : r[i] = q[l - i + 1]
      /\ u \in [1..L -> Nat] /\ \A i \in 1..L : u[i] = t[L - i + 1]
  BY <1>4, <1>5
<1>7. r \in Seq(Nat) /\ Len(r) = l /\ u \in Seq(Nat) /\ Len(u) = L
  <2>1. r \in Seq(Nat) /\ u \in Seq(Nat)
    BY <1>2, <1>6, SeqDef
  <2>2. QED
    BY <1>2, <1>6, <2>1, LenProperties
<1>8. ASSUME NEW i \in 1..l PROVE r[i] = u[i]
  <2>1. /\ l - i + 1 \in 1..l /\ i \in 1..L
        /\ L - l + (l - i + 1) = L - i + 1
    BY <1>2
  <2>2. QED
    BY <1>2, <1>6, <2>1
<1>9. PICK p : p = SubSeq(u, 1, l)
  OBVIOUS
<1>10. p \in Seq(Nat) /\ Len(p) = l /\ \A i \in 1..l : p[i] = u[i]
  <2>1. \A i \in 1..l : u[i] \in Nat
    BY <1>2, <1>6
  <2>2. /\ SubSeq(u, 1, l) \in Seq(Nat)
        /\ Len(SubSeq(u, 1, l)) = IF 1 <= l THEN l - 1 + 1 ELSE 0
        /\ \A i \in 1..(l - 1 + 1) : SubSeq(u, 1, l)[i] = u[1 + i - 1]
    BY <1>2, <2>1, SubSeqProperties
  <2>3. l - 1 + 1 = l /\ (~(1 <= l) => l = 0) /\ \A i \in 1..l : 1 + i - 1 = i
    BY <1>2
  <2>4. QED
    BY <1>9, <2>2, <2>3
<1>11. p = r
  BY <1>7, <1>8, <1>10, SeqEqual
<1>12. SubSeq(r, 1, l) = r
  BY <1>7, SubSeqFull
<1>13. QED
  BY <1>2, <1>3, <1>7, <1>9, <1>11, <1>12 DEF IsSuffix, IsPrefix
-----------------------------------------------------------------------------
(* The steps *)

LEMMA Lengths ==
    ASSUME TypeOK
    PROVE  /\ Len(messages) \in Nat /\ DOMAIN messages = 1..Len(messages)
           /\ Len(deliveries) \in Nat /\ DOMAIN deliveries = 1..Len(deliveries)
           /\ Len(completions) \in Nat /\ DOMAIN completions = 1..Len(completions)
           /\ \A d \in DOMAIN deliveries : deliveries[d] \in Delivery
           /\ shown \o transit \in Seq(Nat)
<1>1. /\ messages \in Seq(Nat) /\ deliveries \in Seq(Delivery) /\ completions \in Seq(Nat)
      /\ shown \in Seq(Nat) /\ transit \in Seq(Nat)
  BY DEF TypeOK
<1>2. \A d \in DOMAIN deliveries : deliveries[d] \in Delivery
  BY <1>1, LenProperties
<1>3. QED
  BY <1>1, <1>2, LenProperties, ConcatProperties

LEMMA InitInv == DevToolsInit => DevToolsInv
<1> SUFFICES ASSUME DevToolsInit PROVE DevToolsInv
  OBVIOUS
<1>1. /\ messages = <<>> /\ processed = 0 /\ deliveries = <<>> /\ completions = <<>>
      /\ transit = <<>> /\ shown = <<>> /\ mounted = FALSE
      /\ tool \in {"ABusMonitor", "DevTools2"} /\ started = (tool = "DevTools2")
      /\ visible = FALSE /\ mounts = 0 /\ keys = 0
  BY DEF DevToolsInit
<1>2. Len(<<>>) = 0 /\ \A S : <<>> \in Seq(S)
  BY EmptySeq
<1>3. TypeOK
  <2>1. processed \in Nat /\ processed <= Len(messages)
    BY <1>1, <1>2
  <2>2. started \in BOOLEAN /\ mounted \in BOOLEAN /\ visible \in BOOLEAN
    BY <1>1
  <2>3. QED
    BY <1>1, <1>2, <2>1, <2>2 DEF TypeOK
<1>4. OriginsKnown /\ EndedAreCompleted
  BY <1>1 DEF OriginsKnown, EndedAreCompleted
<1>5. Recording
  BY <1>1, <1>2, EndsEmpty DEF Recording
<1>6. QED
  BY <1>3, <1>4, <1>5 DEF DevToolsInv

LEMMA SendKeeps ==
    ASSUME DevToolsInv, NEW d \in 0..Len(deliveries), Send(d)
    PROVE  DevToolsInv'
<1>1. /\ messages' = Append(messages, d)
      /\ UNCHANGED <<tool, processed, deliveries, completions, started, transit, mounted, shown, mounts,
                     visible, keys>>
  BY DEF Send, dock
<1>2. TypeOK /\ messages \in Seq(Nat) /\ d \in Nat
  BY Lengths DEF DevToolsInv, TypeOK
<1>3. PICK l : l = Len(messages)
  OBVIOUS
<1>4. /\ messages' \in Seq(Nat) /\ l \in Nat /\ Len(messages') = l + 1
      /\ DOMAIN messages = 1..l /\ DOMAIN messages' = 1..(l + 1)
      /\ \A m \in 1..l : messages'[m] = messages[m]
      /\ messages'[l + 1] = d
  BY <1>1, <1>2, <1>3, Appended
<1>5. TypeOK'
  BY <1>1, <1>2, <1>3, <1>4 DEF TypeOK
<1>6. OriginsKnown'
  <2>1. \A m \in 1..(l + 1) : m \in 1..l \/ m = l + 1
    BY <1>4
  <2>2. 1..l \subseteq 1..(l + 1)
    BY <1>4
  <2>3. QED
    BY <1>1, <1>4, <2>1, <2>2 DEF DevToolsInv, OriginsKnown, messageId
<1>7. EndedAreCompleted' /\ Recording'
  BY <1>1 DEF DevToolsInv, EndedAreCompleted, Recording, Running
<1>8. QED
  BY <1>5, <1>6, <1>7 DEF DevToolsInv

LEMMA ProcessKeeps == ASSUME DevToolsInv, Process PROVE DevToolsInv'
<1>1. PICK n \in SubscriberCounts :
         deliveries' = deliveries \o [k \in 1..n |-> [message |-> processed + 1, status |-> "running"]]
  BY DEF Process
<1>2. /\ processed < Len(messages) /\ processed' = processed + 1
      /\ UNCHANGED <<tool, messages, completions, started, transit, mounted, shown, mounts, visible, keys>>
  BY DEF Process, dock
<1>3. TypeOK /\ n \in Nat
  BY DevToolsAssumption DEF DevToolsInv
<1>4. PICK l, L, new, added :
        /\ l = Len(messages) /\ L = Len(deliveries)
        /\ new = [message |-> processed + 1, status |-> "running"]
        /\ added = [k \in 1..n |-> [message |-> processed + 1, status |-> "running"]]
  OBVIOUS
<1>5. /\ l \in Nat /\ DOMAIN messages = 1..l /\ L \in Nat /\ DOMAIN deliveries = 1..L
      /\ processed \in Nat
  BY <1>3, <1>4, Lengths DEF TypeOK
<1>6. new \in Delivery /\ new.message = processed + 1 /\ new.status = "running"
  BY <1>4, <1>5 DEF Delivery
<1>7. /\ added \in [1..n -> Delivery] /\ \A k \in 1..n : added[k] = new
  BY <1>4, <1>6
<1>8. added \in Seq(Delivery) /\ Len(added) = n
  BY <1>3, <1>7, SeqDef, LenProperties
<1>9. /\ deliveries' \in Seq(Delivery) /\ Len(deliveries') = L + n
      /\ \A d \in 1..(L + n) : deliveries'[d] = IF d <= L THEN deliveries[d] ELSE added[d - L]
  <2>1. deliveries \in Seq(Delivery)
    BY <1>3 DEF TypeOK
  <2>2. /\ deliveries \o added \in Seq(Delivery)
        /\ Len(deliveries \o added) = Len(deliveries) + Len(added)
        /\ \A d \in 1..(Len(deliveries) + Len(added)) :
              (deliveries \o added)[d] = IF d <= Len(deliveries) THEN deliveries[d]
                                         ELSE added[d - Len(deliveries)]
    BY <1>8, <2>1, ConcatProperties
  <2>3. QED
    BY <1>1, <1>4, <1>8, <2>2
<1>10. DOMAIN deliveries' = 1..(L + n)
  BY <1>9, LenProperties
<1>11. \A d \in 1..(L + n) : \/ d \in DOMAIN deliveries /\ deliveries'[d] = deliveries[d]
                            \/ deliveries'[d] = new
  <2> SUFFICES ASSUME NEW d \in 1..(L + n)
               PROVE  \/ d \in DOMAIN deliveries /\ deliveries'[d] = deliveries[d]
                      \/ deliveries'[d] = new
    OBVIOUS
  <2>1. CASE d <= L
    BY <1>3, <1>5, <1>9, <2>1
  <2>2. CASE ~(d <= L)
    <3>1. d - L \in 1..n
      BY <1>3, <1>5, <2>2
    <3>2. QED
      BY <1>7, <1>9, <2>2, <3>1
  <2>3. QED
    BY <2>1, <2>2
<1>12. TypeOK'
  <2>1. processed + 1 \in Nat /\ processed + 1 <= l
    BY <1>2, <1>4, <1>5
  <2>2. QED
    BY <1>2, <1>3, <1>4, <1>9, <2>1 DEF TypeOK
<1>13. OriginsKnown'
  <2>1. \A m \in DOMAIN messages : messages[m] \in 0..(L + n)
    <3>1. 0..L \subseteq 0..(L + n)
      BY <1>3, <1>5
    <3>2. QED
      BY <1>4, <3>1 DEF DevToolsInv, OriginsKnown
  <2>2. processed + 1 \in 1..l
    BY <1>2, <1>4, <1>5
  <2>3. \A d \in 1..(L + n) : deliveries'[d].message \in 1..l
    BY <1>5, <1>6, <1>11, <2>2 DEF DevToolsInv, OriginsKnown, messageId
  <2>4. QED
    BY <1>2, <1>5, <1>9, <1>10, <2>1, <2>3 DEF OriginsKnown, messageId
<1>14. EndedAreCompleted'
  BY <1>2, <1>6, <1>10, <1>11 DEF DevToolsInv, EndedAreCompleted, Running
<1>15. Recording'
  BY <1>2 DEF DevToolsInv, Recording
<1>16. QED
  BY <1>12, <1>13, <1>14, <1>15 DEF DevToolsInv

LEMMA EndKeeps ==
    ASSUME DevToolsInv, NEW d \in DOMAIN deliveries, NEW how, End(d, how)
    PROVE  DevToolsInv'
<1>1. /\ Running(d) /\ deliveries' = [deliveries EXCEPT ![d].status = "ended"]
      /\ completions' = Append(completions, d)
      /\ transit' = IF started THEN Append(transit, d) ELSE transit
      /\ UNCHANGED <<tool, messages, processed, started, mounted, shown, mounts, visible, keys>>
  BY DEF End, Recorded, dock
<1>2. TypeOK
  BY DEF DevToolsInv
<1>3. PICK L, C : L = Len(deliveries) /\ C = Len(completions)
  OBVIOUS
<1>4. /\ L \in Nat /\ DOMAIN deliveries = 1..L /\ d \in Nat /\ deliveries \in Seq(Delivery)
      /\ C \in Nat /\ DOMAIN completions = 1..C /\ completions \in Seq(Nat)
      /\ \A e \in DOMAIN deliveries : deliveries[e] \in Delivery
      /\ transit \in Seq(Nat) /\ shown \in Seq(Nat) /\ shown \o transit \in Seq(Nat)
  BY <1>2, <1>3, Lengths DEF TypeOK
<1>5. PICK r : r = [deliveries[d] EXCEPT !.status = "ended"]
  OBVIOUS
<1>6. r \in Delivery /\ r.message = deliveries[d].message
  BY <1>4, <1>5 DEF Delivery
<1>7. /\ deliveries' \in Seq(Delivery) /\ Len(deliveries') = L
      /\ \A e \in 1..L : deliveries'[e] = IF e = d THEN r ELSE deliveries[e]
  <2>1. deliveries' = [deliveries EXCEPT ![d] = r]
    BY <1>1, <1>5
  <2>2. d \in 1..Len(deliveries)
    BY <1>3, <1>4
  <2>3. QED
    BY <1>3, <1>4, <1>6, <2>1, <2>2, ExceptSeq
<1>8. DOMAIN deliveries' = 1..L
  BY <1>7, LenProperties
<1>9. /\ completions' \in Seq(Nat) /\ DOMAIN completions' = 1..(C + 1)
      /\ \A j \in 1..C : completions'[j] = completions[j]
      /\ completions'[C + 1] = d
  BY <1>1, <1>3, <1>4, Appended
<1>10. transit' \in Seq(Nat)
  BY <1>1, <1>4, Appended
<1>11. TypeOK'
  BY <1>1, <1>2, <1>7, <1>9, <1>10 DEF TypeOK
<1>12. OriginsKnown'
  <2>1. \A e \in 1..L : deliveries'[e].message = deliveries[e].message
    BY <1>6, <1>7
  <2>2. QED
    BY <1>1, <1>3, <1>4, <1>7, <1>8, <2>1 DEF DevToolsInv, OriginsKnown, messageId
<1>13. EndedAreCompleted'
  <2> SUFFICES ASSUME NEW e \in 1..L, ~Running(e)' PROVE \E j \in DOMAIN completions' : completions'[j] = e
    BY <1>8 DEF EndedAreCompleted
  <2>1. C + 1 \in 1..(C + 1) /\ 1..C \subseteq 1..(C + 1)
    BY <1>4
  <2>2. CASE e = d
    BY <1>9, <2>1, <2>2
  <2>3. CASE e # d
    <3>1. ~Running(e)
      BY <1>7, <2>3 DEF Running
    <3>2. PICK j \in DOMAIN completions : completions[j] = e
      BY <1>4, <3>1 DEF DevToolsInv, EndedAreCompleted
    <3>3. QED
      BY <1>4, <1>9, <2>1, <3>2
  <2>4. QED
    BY <2>2, <2>3
<1>14. Recording'
  <2>1. CASE ~started
    <3>1. transit' = <<>> /\ ~mounted'
      BY <1>1, <2>1 DEF DevToolsInv, Recording
    <3>2. QED
      BY <1>1, <1>9, <2>1, <3>1, EndsEmpty DEF Recording
  <2>2. CASE started
    <3>1. transit' = Append(transit, d)
      BY <1>1, <2>2
    <3>2. Ends(transit', completions')
      BY <1>1, <1>4, <3>1, EndsAppended DEF DevToolsInv, Recording
    <3>3. shown' \o transit' = Append(shown \o transit, d)
      BY SMTT(40), <1>1, <1>4, <3>1, AppendedToJoined
    <3>4. mounted => Ends(shown' \o transit', completions')
      BY <1>1, <1>4, <3>3, EndsAppended DEF DevToolsInv, Recording
    <3>5. QED
      BY <1>1, <2>2, <3>2, <3>4 DEF Recording
  <2>3. QED
    BY <2>1, <2>2
<1>15. QED
  BY <1>11, <1>12, <1>13, <1>14 DEF DevToolsInv

LEMMA MountKeeps == ASSUME DevToolsInv, Mount PROVE DevToolsInv'
<1>1. /\ ~mounted /\ mounts' = mounts + 1 /\ mounted' = TRUE /\ shown' = <<>> /\ started' = TRUE
      /\ visible' = (tool = "DevTools2")
      /\ UNCHANGED <<tool, messages, processed, deliveries, completions, transit, keys>>
  BY DEF Mount, Opened, app
<1>2. TypeOK'
  BY <1>1, EmptySeq DEF DevToolsInv, TypeOK
<1>3. OriginsKnown' /\ EndedAreCompleted'
  BY <1>1 DEF DevToolsInv, OriginsKnown, EndedAreCompleted, messageId, Running
<1>4. Recording'
  <2>1. transit \in Seq(Nat)
    BY DEF DevToolsInv, TypeOK
  <2>2. shown' \o transit' = transit
    BY <1>1, <2>1, ConcatEmptySeq
  <2>3. QED
    BY <1>1, <2>2 DEF DevToolsInv, Recording
<1>5. QED
  BY <1>2, <1>3, <1>4 DEF DevToolsInv

LEMMA ReceiveKeeps == ASSUME DevToolsInv, Receive PROVE DevToolsInv'
<1>1. /\ transit # <<>> /\ transit' = Tail(transit)
      /\ shown' = IF mounted THEN Append(shown, Head(transit)) ELSE shown
      /\ UNCHANGED <<tool, messages, processed, deliveries, completions, started, mounted, mounts, visible, keys>>
  BY DEF Receive, processCompletedMessage, app, dock
<1>2. transit \in Seq(Nat) /\ shown \in Seq(Nat) /\ completions \in Seq(Nat)
  BY DEF DevToolsInv, TypeOK
<1>3. PICK x : x = Head(transit)
  OBVIOUS
<1>4. x \in Nat /\ transit' \in Seq(Nat)
  BY <1>1, <1>2, <1>3, HeadTailProperties
<1>5. shown' \in Seq(Nat)
  BY <1>1, <1>2, <1>3, <1>4, Appended
<1>6. TypeOK'
  BY <1>1, <1>4, <1>5 DEF DevToolsInv, TypeOK
<1>7. OriginsKnown' /\ EndedAreCompleted'
  BY <1>1 DEF DevToolsInv, OriginsKnown, EndedAreCompleted, messageId, Running
<1>8. Ends(transit', completions)
  BY <1>1, <1>2, EndsTail DEF DevToolsInv, Recording
<1>9. mounted => shown' \o transit' = shown \o transit
  <2>1. <<x>> \in Seq(Nat)
    BY <1>4
  <2>2. <<x>> \o transit' = transit
    <3>1. /\ <<x>> \o transit' \in Seq(Nat)
          /\ Len(<<x>> \o transit') = 1 + Len(transit')
          /\ \A i \in 1..(1 + Len(transit')) :
                (<<x>> \o transit')[i] = IF i <= 1 THEN x ELSE transit'[i - 1]
      BY <1>4, <2>1, ConcatProperties
    <3>2. /\ Len(transit') = Len(transit) - 1 /\ Len(transit) \in Nat /\ x = transit[1]
          /\ \A i \in 1..Len(transit') : transit'[i] = transit[i + 1]
      BY <1>1, <1>2, <1>3, HeadTailProperties, LenProperties
    <3>3. ASSUME NEW i \in 1..Len(transit) PROVE (<<x>> \o transit')[i] = transit[i]
      <4>1. 1 + Len(transit') = Len(transit)
        BY <3>2
      <4>2. CASE i = 1
        BY <3>1, <3>2, <4>1, <4>2
      <4>3. CASE i # 1
        <5>1. i - 1 \in 1..Len(transit') /\ (i - 1) + 1 = i /\ ~(i <= 1)
          BY <3>2, <4>3
        <5>2. QED
          BY <3>1, <3>2, <4>1, <5>1
      <4>4. QED
        BY <4>2, <4>3
    <3>4. Len(<<x>> \o transit') = Len(transit)
      BY <3>1, <3>2
    <3>5. QED
      BY <1>2, <3>1, <3>3, <3>4, SeqEqual
  <2>3. Append(shown, x) = shown \o <<x>>
    BY <1>2, <1>4, AppendIsConcat
  <2>4. (shown \o <<x>>) \o transit' = shown \o (<<x>> \o transit')
    BY SMTT(40), <1>2, <1>4, <2>1, ConcatAssociative
  <2>5. QED
    BY <1>1, <1>3, <2>2, <2>3, <2>4
<1>10. Recording'
  BY <1>1, <1>8, <1>9 DEF DevToolsInv, Recording
<1>11. QED
  BY <1>6, <1>7, <1>10 DEF DevToolsInv

(* What is known of the application and the records stays known while the  *)
(* display is hidden, shown, or removed.                                   *)
LEMMA ViewKeeps ==
    ASSUME DevToolsInv, Unmount \/ handleKeyDown \/ closeTools \/ UNCHANGED devToolsVars
    PROVE  DevToolsInv'
<1>1. /\ UNCHANGED <<tool, messages, processed, deliveries, completions, started, transit, shown>>
      /\ mounted' \in BOOLEAN /\ visible' \in BOOLEAN /\ mounts' \in Nat /\ keys' \in Nat
      /\ mounted' => mounted
  <2>1. mounted \in BOOLEAN /\ visible \in BOOLEAN /\ mounts \in Nat /\ keys \in Nat
    BY DEF DevToolsInv, TypeOK
  <2>2. CASE Unmount
    BY <2>1, <2>2 DEF Unmount, app, dock
  <2>3. CASE handleKeyDown
    BY <2>1, <2>3 DEF handleKeyDown, Toggled, app
  <2>4. CASE closeTools
    BY <2>1, <2>4 DEF closeTools, app
  <2>5. CASE UNCHANGED devToolsVars
    BY <2>1, <2>5 DEF devToolsVars, app, dock
  <2>6. QED
    BY <2>2, <2>3, <2>4, <2>5
<1>2. TypeOK'
  BY <1>1 DEF DevToolsInv, TypeOK
<1>3. OriginsKnown' /\ EndedAreCompleted' /\ Recording'
  BY <1>1 DEF DevToolsInv, OriginsKnown, EndedAreCompleted, Recording, messageId, Running
<1>4. QED
  BY <1>2, <1>3 DEF DevToolsInv

(* Every step of the application and its displays keeps the invariant. *)
THEOREM DevToolsInvariance == DevToolsSpec => []DevToolsInv
<1>1. DevToolsInv /\ [DevToolsNext]_devToolsVars => DevToolsInv'
  <2> SUFFICES ASSUME DevToolsInv, [DevToolsNext]_devToolsVars PROVE DevToolsInv'
    OBVIOUS
  <2>1. CASE \E d \in 0..Len(deliveries) : Send(d)
    BY <2>1, SendKeeps
  <2>2. CASE Process
    BY <2>2, ProcessKeeps
  <2>3. CASE \E d \in DOMAIN deliveries, how \in {"ended", "failed"} : End(d, how)
    BY <2>3, EndKeeps
  <2>4. CASE Mount
    BY <2>4, MountKeeps
  <2>5. CASE Receive
    BY <2>5, ReceiveKeeps
  <2>6. CASE Unmount \/ handleKeyDown \/ closeTools \/ UNCHANGED devToolsVars
    BY <2>6, ViewKeeps
  <2>7. QED
    BY <2>1, <2>2, <2>3, <2>4, <2>5, <2>6 DEF DevToolsNext
<1>2. QED
  BY <1>1, InitInv, PTL DEF DevToolsSpec
-----------------------------------------------------------------------------
(* AbusMonitorTask.ts 11-12: a display shows what ended in that order, and *)
(* lacks only what ended before the first one it shows.                    *)
THEOREM ShowsWhatEnded == DevToolsSpec => []ShownAsCompleted
<1>1. DevToolsInv => ShownAsCompleted
  <2> SUFFICES ASSUME DevToolsInv, mounted PROVE IsSuffix(shown \o transit, completions)
    BY DEF ShownAsCompleted
  <2>1. shown \o transit \in Seq(Nat) /\ completions \in Seq(Nat)
    BY Lengths DEF DevToolsInv, TypeOK
  <2>2. QED
    BY <2>1, EndsIsSuffix DEF DevToolsInv, Recording
<1>2. QED
  BY <1>1, DevToolsInvariance, PTL

(* What ended at place j of the completions is shown, on its way, or ended *)
(* before the first delivery that is shown.                                *)
LEMMA ShownOrEarlier ==
    ASSUME DevToolsInv, mounted, shown # <<>>, NEW j \in DOMAIN completions
    PROVE  \/ completions[j] \in ToSet(shown)
           \/ completions[j] \in ToSet(transit)
           \/ EndedBefore(completions[j], shown[1])
<1>1. PICK q, l, L, a, b :
        q = shown \o transit /\ l = Len(q) /\ L = Len(completions) /\ a = Len(shown) /\ b = Len(transit)
  OBVIOUS
<1>2. /\ completions \in Seq(Nat) /\ shown \in Seq(Nat) /\ transit \in Seq(Nat)
      /\ L \in Nat /\ DOMAIN completions = 1..L
  BY <1>1, Lengths DEF DevToolsInv, TypeOK
<1>3. /\ a \in Nat \ {0} /\ b \in Nat /\ DOMAIN shown = 1..a /\ DOMAIN transit = 1..b
  BY <1>1, <1>2, EmptySeq, LenProperties
<1>4. /\ l = a + b
      /\ \A i \in 1..(a + b) : q[i] = IF i <= a THEN shown[i] ELSE transit[i - a]
  BY <1>1, <1>2, ConcatProperties
<1>5. l <= L /\ \A k \in 1..l : q[k] = completions[L - l + k]
  BY <1>1 DEF DevToolsInv, Recording, Ends
<1>6. CASE j > L - l
  <2>1. PICK k : k = j - (L - l)
    OBVIOUS
  <2>2. k \in 1..l /\ L - l + k = j
    BY <1>2, <1>3, <1>4, <1>5, <1>6, <2>1
  <2>3. completions[j] = q[k]
    BY <1>5, <2>2
  <2>4. CASE k <= a
    <3>1. completions[j] = shown[k] /\ k \in 1..a
      BY <1>3, <1>4, <2>2, <2>3, <2>4
    <3>2. QED
      BY <1>3, <3>1 DEF ToSet
  <2>5. CASE ~(k <= a)
    <3>1. completions[j] = transit[k - a] /\ k - a \in 1..b
      BY <1>3, <1>4, <2>2, <2>3, <2>5
    <3>2. QED
      BY <1>3, <3>1 DEF ToSet
  <2>6. QED
    BY <2>4, <2>5
<1>7. CASE ~(j > L - l)
  <2>1. L - l + 1 \in 1..L /\ j < L - l + 1 /\ 1 \in 1..l
    BY <1>2, <1>3, <1>4, <1>5, <1>7
  <2>2. q[1] = shown[1]
    BY <1>3, <1>4, <2>1
  <2>3. completions[L - l + 1] = shown[1]
    BY <1>5, <2>1, <2>2
  <2>4. QED
    BY <1>2, <2>1, <2>3 DEF EndedBefore
<1>8. QED
  BY <1>6, <1>7

(* Abus-Monitor.tsx 78-84, 167-172: a node that lacks its parent waits for *)
(* a handler that runs or a record on its way, unless the display came too *)
(* late, for any numbers of handlers and displays.                         *)
THEOREM NodesWaitForParents == DevToolsSpec => []ParentsComing
<1>1. DevToolsInv => ParentsComing
  <2> SUFFICES ASSUME DevToolsInv, NEW d \in DOMAIN deliveries, Hanging(d), ~Running(origin(d)),
                      origin(d) \notin ToSet(transit)
               PROVE  EndedBefore(origin(d), shown[1])
    BY DEF ParentsComing
  <2>1. PICK e : e = origin(d)
    OBVIOUS
  <2>2. e \in 0..Len(deliveries) /\ e # 0 /\ mounted /\ d \in ToSet(shown) /\ ~HasNode(messageId(e))
    BY <2>1 DEF DevToolsInv, OriginsKnown, origin, Hanging
  <2>3. e \in DOMAIN deliveries
    BY <2>2, Lengths DEF DevToolsInv
  <2>4. PICK j \in DOMAIN completions : completions[j] = e
    BY <2>1, <2>3 DEF DevToolsInv, EndedAreCompleted
  <2>5. e \notin ToSet(shown)
    BY <2>2 DEF HasNode, ToSet
  <2>6. shown # <<>>
    BY <2>2 DEF ToSet
  <2>7. QED
    BY <2>1, <2>2, <2>4, <2>5, <2>6, ShownOrEarlier
<1>2. QED
  BY <1>1, DevToolsInvariance, PTL
=============================================================================
