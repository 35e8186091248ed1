-------------------------- MODULE PipelinesProofs --------------------------
(***************************************************************************)
(* Proofs about Pipelines for any transports, tasks, types, subscribers    *)
(* and messages: who a message says it is from, which conversation it is   *)
(* in, which transport a reply takes, that a failure is reported, and what *)
(* the diagrams drawn of the messages show.                                *)
(***************************************************************************)
EXTENDS Diagrams, SequenceTheorems, FiniteSetTheorems, WellFoundedInduction, TLAPS

Intent == {"publish", "send", "sendReply", "reply"}

Object == [type : Type \cup Replies, intent : Intent, id : Nat, conversation : Nat,
           correlation : Nat, sentBy : STRING, receivedBy : STRING, replyTo : Nat]

Send == [object : Nat, from : Nat, transport : Nat, type : Type \cup Replies]

Timer == [stage : {"outbound", "inbound"}, send : Nat]

Context == [object : Nat, send : Nat, subscriber : Nat, transport : Nat,
            status : {"running", "stopped", "failed"}]

TypeOK ==
    /\ transports \in Seq([Stages -> Seq(Tasks)])
    /\ routes \in [Routable -> Nat]
    /\ default \in Nat
    /\ started \in BOOLEAN
    /\ objects \in Seq(Object)
    /\ sends \in Seq(Send)
    /\ timers \in Seq(Timer)
    /\ contexts \in Seq(Context)
    /\ guids \in Nat

-----------------------------------------------------------------------------
(* The configuration is complete when the first message is sent, and the   *)
(* transport of start() still has its exception task then.                 *)
Configured ==
    /\ sends = <<>> => objects = <<>> /\ timers = <<>> /\ contexts = <<>>
    /\ sends # <<>> => started
    /\ started => routes["*"] # 0
    /\ \A r \in Routable : routes[r] <= Len(transports)
    /\ default # 0 =>
         default \in DOMAIN transports /\ "exception" \in ToSet(transports[default]["inLogical"])

(* Replies whose route only sendWithReplyAsync writes. *)
Plain(t) == t \notin Replies /\ ReplyType[t] \notin OwnRoutes

RoutesKept ==
    \A t \in Type : Plain(t) =>
        /\ sends = <<>> => routes[ReplyType[t]] = 0
        /\ routes[ReplyType[t]] \in {0, routes[t]}
        /\ \A o \in DOMAIN objects :
              objects[o].type = t /\ objects[o].intent = "sendReply" => routes[ReplyType[t]] = routes[t]
        /\ \A n \in DOMAIN sends : sends[n].type = t => sends[n].transport = getTransport(t)

(* The names a message handed to the k-th subscriber may be tagged with. *)
Names(subs, k) ==
    {Unidentified, IF NameOf(subs, k) # Unidentified THEN NameOf(subs, k) ELSE NameOf(subs, Len(subs))}

(* A call that sends refers to an object and, from a handler, to the       *)
(* handler's context; what a handler sends is an object of its own.        *)
SendOK(n) ==
    LET s == sends[n] IN
    /\ s.object \in DOMAIN objects /\ s.from \in 0..Len(contexts)
    /\ s.type = objects[s.object].type
    /\ s.from # 0 => contexts[s.from].send < n
    /\ s.type \in Type =>
         objects[s.object].receivedBy \in Names(Subscribers[s.type], Len(Subscribers[s.type]))
    /\ objects[s.object].intent = "reply" => s.from # 0
    /\ objects[s.object].intent # "reply" => s.type \in Type

SendsApart ==
    \A n, m \in DOMAIN sends :
        sends[n].object = sends[m].object => sends[n].from = sends[m].from /\ (sends[n].from # 0 => n = m)

(* Every call has one timer at most; a message from a handler is untraced  *)
(* before the first runs.                                                  *)
TimersOK ==
    /\ \A k \in DOMAIN timers : timers[k].send \in DOMAIN sends
    /\ \A j, k \in DOMAIN timers : timers[j].send = timers[k].send => j = k
    /\ \A k \in DOMAIN timers :
          (timers[k].stage = "outbound" /\ sends[timers[k].send].from # 0) =>
              /\ objects[sends[timers[k].send].object].conversation = 0
              /\ objects[sends[timers[k].send].object].correlation = 0

Single(o) == \A n, m \in DOMAIN sends : sends[n].object = o /\ sends[m].object = o => n = m

(* A handler has the message that was sent, or a copy that nobody sends;   *)
(* it says what the original says if that is not sent again.               *)
ContextOK(c) ==
    LET s    == contexts[c].send
        o    == sends[s].object
        p    == contexts[c].object
        subs == Subscribers[sends[s].type]
    IN  /\ s \in DOMAIN sends /\ p \in DOMAIN objects
        /\ sends[s].type \in Type /\ contexts[c].subscriber \in DOMAIN subs
        /\ contexts[c].transport \in DOMAIN transports
        /\ objects[p].type = sends[s].type /\ objects[p].intent = objects[o].intent
        /\ Len(subs) > 1 => \A n \in DOMAIN sends : sends[n].object # p
        /\ Len(subs) <= 1 => p = o
        /\ objects[p].receivedBy \in Names(subs, contexts[c].subscriber)
        /\ \A k \in DOMAIN timers : timers[k].send # s
        /\ Single(o) => /\ objects[p].conversation = objects[o].conversation
                        /\ objects[p].id = objects[o].id

(* What a handler sends has its name and its conversation once traced. *)
FromHandlerOK(n) ==
    LET c == sends[n].from
        m == objects[sends[n].object]
        o == sends[contexts[c].send].object
    IN  c # 0 =>
          /\ m.sentBy \in Names(Subscribers[sends[contexts[c].send].type], contexts[c].subscriber)
          /\ (m.conversation # 0 /\ Single(o)) =>
               m.conversation = objects[o].conversation /\ m.correlation = objects[o].id

PipelinesInv ==
    /\ TypeOK
    /\ Configured
    /\ RoutesKept
    /\ SendsApart
    /\ TimersOK
    /\ \A n \in DOMAIN sends : SendOK(n) /\ FromHandlerOK(n)
    /\ \A c \in DOMAIN contexts : ContextOK(c)
    /\ ReplyTakesTransportOfRequest
    /\ DefaultReportsFailures
-----------------------------------------------------------------------------
(* Sequences and names *)

LEMMA Appended ==
    ASSUME NEW S, NEW q \in Seq(S), NEW x \in S
    PROVE  /\ Len(q) \in Nat /\ DOMAIN q = 1..Len(q)
           /\ Append(q, x) \in Seq(S)
           /\ Len(Append(q, x)) = Len(q) + 1
           /\ DOMAIN Append(q, x) = 1..(Len(q) + 1)
           /\ \A i \in 1..Len(q) : Append(q, x)[i] = q[i]
           /\ Append(q, x)[Len(q) + 1] = x
  BY AppendProperties, LenProperties

LEMMA Typed ==
    ASSUME NEW S, NEW q \in Seq(S)
    PROVE  /\ Len(q) \in Nat /\ DOMAIN q = 1..Len(q)
           /\ \A i \in DOMAIN q : q[i] \in S
           /\ q = <<>> <=> DOMAIN q = {}
<1>1. Len(q) \in Nat /\ DOMAIN q = 1..Len(q) /\ q \in [1..Len(q) -> S]
  BY LenProperties
<1>2. Len(q) = 0 <=> DOMAIN q = {}
  <2>1. Len(q) # 0 => 1 \in DOMAIN q
    BY <1>1
  <2>2. Len(q) = 0 => \A i : i \notin DOMAIN q
    BY <1>1
  <2>3. QED
    BY <2>1, <2>2
<1>3. q = <<>> <=> Len(q) = 0
  BY <1>1, EmptySeq
<1>4. QED
  BY <1>1, <1>2, <1>3

LEMMA Tailed ==
    ASSUME NEW S, NEW q \in Seq(S), q # <<>>
    PROVE  /\ 1 \in DOMAIN q /\ Head(q) = q[1] /\ Head(q) \in S
           /\ Tail(q) \in Seq(S)
           /\ DOMAIN Tail(q) = 1..(Len(q) - 1)
           /\ \A i \in DOMAIN Tail(q) : i + 1 \in DOMAIN q /\ Tail(q)[i] = q[i + 1]
<1>1. Len(q) \in Nat \ {0} /\ DOMAIN q = 1..Len(q)
  BY EmptySeq, LenProperties
<1>2. Tail(q) \in Seq(S) /\ Len(Tail(q)) = Len(q) - 1
  BY HeadTailProperties
<1>3. \A i \in 1..Len(Tail(q)) : Tail(q)[i] = q[i + 1]
  BY HeadTailProperties
<1>4. DOMAIN Tail(q) = 1..Len(Tail(q))
  BY <1>2, LenProperties
<1>5. Head(q) = q[1] /\ Head(q) \in S
  BY HeadTailProperties
<1>6. QED
  BY <1>1, <1>2, <1>3, <1>4, <1>5

LEMMA Joined ==
    ASSUME NEW S, NEW q \in Seq(S), NEW n \in Nat, NEW f \in [1..n -> S]
    PROVE  /\ q \o f \in Seq(S)
           /\ DOMAIN (q \o f) = 1..(Len(q) + n)
           /\ \A i \in DOMAIN q : (q \o f)[i] = q[i]
           /\ \A k \in 1..n : (q \o f)[Len(q) + k] = f[k]
<1>1. f \in Seq(S)
  BY SeqDef
<1>2. Len(f) = n
  BY <1>1, LenProperties
<1>3. q \o f \in Seq(S) /\ Len(q \o f) = Len(q) + n
      /\ \A i \in 1..(Len(q) + n) : (q \o f)[i] = IF i <= Len(q) THEN q[i] ELSE f[i - Len(q)]
  BY <1>1, <1>2, ConcatProperties
<1>4. Len(q) \in Nat /\ DOMAIN q = 1..Len(q) /\ DOMAIN (q \o f) = 1..(Len(q) + n)
  BY <1>3, LenProperties
<1>5. \A i \in DOMAIN q : (q \o f)[i] = q[i]
  BY <1>3, <1>4
<1>6. \A k \in 1..n : (q \o f)[Len(q) + k] = f[k]
  BY <1>3, <1>4
<1>7. QED
  BY <1>3, <1>4, <1>5, <1>6

(* An identifier is a name; tagging keeps a message in its names. *)
LEMMA Tagged ==
    ASSUME NEW subs \in Seq(STRING), NEW k, NEW m, m.receivedBy \in Names(subs, Len(subs))
    PROVE  Tag(m, subs, k) \in Names(subs, k)
<1> DEFINE named == {j \in 1..k : subs[j] # Unidentified}
<1>1. CASE named = {}
  <2>1. Tag(m, subs, k) = m.receivedBy /\ NameOf(subs, k) = Unidentified
    BY <1>1 DEF Tag, NameOf
  <2>2. QED
    BY <2>1 DEF Names
<1>2. CASE named # {}
  <2>1. Tag(m, subs, k) = NameOf(subs, k)
    BY <1>2 DEF Tag, NameOf
  <2>2. QED
    BY <2>1 DEF Names
<1>3. QED
  BY <1>1, <1>2

LEMMA Latest ==
    ASSUME NEW k \in Nat, NEW J \in SUBSET (1..k), J # {}
    PROVE  \E j \in J : \A i \in J : i <= j
<1> DEFINE T == {k - j : j \in J}
<1>1. T \subseteq Nat /\ T # {}
  <2>1. \A j \in J : j \in 1..k /\ k - j \in Nat
    OBVIOUS
  <2>2. PICK j \in J : TRUE
    OBVIOUS
  <2>3. k - j \in T
    OBVIOUS
  <2>4. QED
    BY <2>1, <2>3
<1>2. PICK x \in T : \A y \in T : ~(<<y, x>> \in OpToRel(<, Nat))
  BY <1>1, WFMin, NatLessThanWellFounded
<1>3. PICK j \in J : x = k - j
  OBVIOUS
<1>4. \A i \in J : ~(k - i < k - j)
  BY <1>1, <1>2, <1>3 DEF OpToRel
<1>5. QED
  BY <1>4

LEMMA TagTyped ==
    ASSUME NEW subs \in Seq(STRING), NEW k \in DOMAIN subs, NEW m, m.receivedBy \in STRING
    PROVE  Tag(m, subs, k) \in STRING
<1> DEFINE named == {j \in 1..k : subs[j] # Unidentified}
<1>1. k \in Nat /\ \A j \in 1..k : subs[j] \in STRING
  BY Typed
<1>2. CASE named = {}
  BY <1>2 DEF Tag
<1>3. CASE named # {}
  <2>1. \E j \in named : \A i \in named : i <= j
    BY <1>1, <1>3, Latest
  <2>2. Tag(m, subs, k) = subs[CHOOSE j \in named : \A i \in named : i <= j]
    BY <1>3 DEF Tag
  <2>3. QED
    BY <1>1, <2>1, <2>2
<1>4. QED
  BY <1>2, <1>3
-----------------------------------------------------------------------------
(* Parts of a step: what it does to the sequences *)

Apart(q) == \A j, k \in DOMAIN q : q[j].send = q[k].send => j = k

TimersOf(q) == \A k \in DOMAIN q : \E j \in DOMAIN timers : q[k] = timers[j]

LEMMA AllTimers ==
    ASSUME PipelinesInv
    PROVE  timers \in Seq(Timer) /\ Apart(timers) /\ TimersOf(timers)
  BY DEF PipelinesInv, TypeOK, TimersOK, Apart, TimersOf

LEMMA OtherTimers ==
    ASSUME PipelinesInv, timers # <<>>
    PROVE  /\ Head(timers) \in Timer /\ 1 \in DOMAIN timers /\ Head(timers) = timers[1]
           /\ Head(timers).send \in DOMAIN sends
           /\ Tail(timers) \in Seq(Timer) /\ Apart(Tail(timers)) /\ TimersOf(Tail(timers))
           /\ \A k \in DOMAIN Tail(timers) : Tail(timers)[k].send # Head(timers).send
<1> DEFINE q == Tail(timers)
<1>1. timers \in Seq(Timer)
  BY DEF PipelinesInv, TypeOK
<1>2. /\ 1 \in DOMAIN timers /\ Head(timers) = timers[1] /\ Head(timers) \in Timer
      /\ q \in Seq(Timer)
      /\ DOMAIN q = 1..(Len(timers) - 1)
      /\ \A i \in DOMAIN q : i + 1 \in DOMAIN timers /\ q[i] = timers[i + 1]
  BY <1>1, Tailed
<1>3. Len(timers) \in Nat
  BY <1>1, LenProperties
<1> HIDE DEF q
<1>4. Head(timers).send \in DOMAIN sends
  BY <1>2 DEF PipelinesInv, TimersOK
<1>5. Apart(q)
  <2> SUFFICES ASSUME NEW j \in DOMAIN q, NEW k \in DOMAIN q, q[j].send = q[k].send PROVE j = k
    BY DEF Apart
  <2>1. j + 1 = k + 1
    BY <1>2 DEF PipelinesInv, TimersOK
  <2>2. QED
    BY <1>2, <1>3, <2>1
<1>6. TimersOf(q)
  BY <1>2 DEF TimersOf
<1>7. \A k \in DOMAIN q : q[k].send # Head(timers).send
  <2> SUFFICES ASSUME NEW k \in DOMAIN q, q[k].send = Head(timers).send PROVE FALSE
    OBVIOUS
  <2>1. k + 1 = 1
    BY <1>2 DEF PipelinesInv, TimersOK
  <2>2. QED
    BY <1>2, <1>3, <2>1
<1>8. QED
  BY <1>2, <1>4, <1>5, <1>6, <1>7 DEF q

LEMMA TimerAdded ==
    ASSUME NEW q \in Seq(Timer), Apart(q), NEW x \in Timer,
           \A k \in DOMAIN q : q[k].send # x.send
    PROVE  /\ Append(q, x) \in Seq(Timer) /\ Apart(Append(q, x))
           /\ \A k \in DOMAIN Append(q, x) :
                 (\E j \in DOMAIN q : Append(q, x)[k] = q[j]) \/ Append(q, x)[k] = x
<1> DEFINE T == Append(q, x)
           n == Len(q) + 1
<1>1. /\ Len(q) \in Nat /\ DOMAIN q = 1..Len(q) /\ T \in Seq(Timer)
      /\ DOMAIN T = 1..n /\ \A i \in 1..Len(q) : T[i] = q[i]
      /\ T[n] = x
  BY Appended
<1> HIDE DEF T
<1>2. \A k \in DOMAIN T : k \in DOMAIN q \/ k = n
  BY <1>1
<1>3. \A j, k \in DOMAIN T : T[j].send = T[k].send => j = k
  BY <1>1, <1>2 DEF Apart
<1>4. QED
  BY <1>1, <1>2, <1>3 DEF Apart, T

LEMMA SendAdded ==
    ASSUME TypeOK, NEW s \in Send, sends' = Append(sends, s)
    PROVE  /\ sends' \in Seq(Send) /\ Len(sends) \in Nat
           /\ DOMAIN sends' = DOMAIN sends \cup {Len(sends) + 1}
           /\ \A n \in DOMAIN sends : sends'[n] = sends[n] /\ n \in Nat /\ n < Len(sends) + 1
           /\ sends'[Len(sends) + 1] = s
<1>1. sends \in Seq(Send)
  BY DEF TypeOK
<1>2. QED
  BY <1>1, Appended

(* What a handler sent still says what it said, and so does a handler.     *)
LEMMA FromHandlerStays ==
    ASSUME NEW n, FromHandlerOK(n), sends'[n] = sends[n],
           sends[n].from # 0 =>
             /\ contexts'[sends[n].from].send = contexts[sends[n].from].send
             /\ contexts'[sends[n].from].subscriber = contexts[sends[n].from].subscriber
             /\ sends'[contexts[sends[n].from].send] = sends[contexts[sends[n].from].send]
             /\ objects'[sends[n].object] = objects[sends[n].object]
             /\ objects'[sends[contexts[sends[n].from].send].object]
                    = objects[sends[contexts[sends[n].from].send].object],
           \A o : Single(o)' => Single(o)
    PROVE  FromHandlerOK(n)'
  BY ZenonT(60) DEF FromHandlerOK

LEMMA ContextStays ==
    ASSUME NEW c, ContextOK(c), transports' = transports,
           contexts'[c].object = contexts[c].object, contexts'[c].send = contexts[c].send,
           contexts'[c].subscriber = contexts[c].subscriber,
           contexts'[c].transport = contexts[c].transport,
           contexts[c].send \in DOMAIN sends', contexts[c].object \in DOMAIN objects',
           sends'[contexts[c].send] = sends[contexts[c].send],
           objects'[contexts[c].object] = objects[contexts[c].object],
           objects'[sends[contexts[c].send].object] = objects[sends[contexts[c].send].object],
           \A k \in DOMAIN timers' : timers'[k].send # contexts[c].send,
           (\A n \in DOMAIN sends : sends[n].object # contexts[c].object) =>
               \A n \in DOMAIN sends' : sends'[n].object # contexts[c].object,
           \A o : Single(o)' => Single(o)
    PROVE  ContextOK(c)'
  BY ZenonT(60) DEF ContextOK

LEMMA SentKeeps ==
    ASSUME PipelinesInv,
           NEW s \in Send, s.from \in 0..Len(contexts), sends' = Append(sends, s),
           NEW q \in Seq(Timer), Apart(q), TimersOf(q),
           timers' = Append(q, [stage |-> "outbound", send |-> Len(sends) + 1]),
           transports' = transports,
           objects' \in Seq(Object), DOMAIN objects \subseteq DOMAIN objects',
           \A o \in DOMAIN objects : objects'[o] = objects[o],
           contexts' \in Seq(Context), DOMAIN contexts' = DOMAIN contexts,
           \A c \in DOMAIN contexts :
               /\ contexts'[c].object = contexts[c].object
               /\ contexts'[c].send = contexts[c].send
               /\ contexts'[c].subscriber = contexts[c].subscriber
               /\ contexts'[c].transport = contexts[c].transport,
           s.object \in DOMAIN objects', objects'[s.object].type = s.type,
           \/ /\ s.object \notin DOMAIN objects
              /\ objects'[s.object].conversation = 0 /\ objects'[s.object].correlation = 0
              /\ objects'[s.object].sentBy = Unidentified
              /\ objects'[s.object].receivedBy = Unidentified
              /\ objects'[s.object].intent = "reply" => s.from # 0
              /\ objects'[s.object].intent # "reply" => s.type \in Type
           \/ /\ s.from = 0
              /\ \E n \in DOMAIN sends : sends[n].object = s.object /\ sends[n].from = 0
    PROVE  /\ sends' \in Seq(Send) /\ timers' \in Seq(Timer)
           /\ SendsApart' /\ TimersOK'
           /\ \A n \in DOMAIN sends' : SendOK(n)' /\ FromHandlerOK(n)'
           /\ \A c \in DOMAIN contexts' : ContextOK(c)'
<1>0. PICK new : new = Len(sends) + 1
  OBVIOUS
<1> DEFINE x == [stage |-> "outbound", send |-> new]
<1>1. /\ sends' \in Seq(Send) /\ Len(sends) \in Nat
      /\ DOMAIN sends' = DOMAIN sends \cup {new}
      /\ \A n \in DOMAIN sends : sends'[n] = sends[n] /\ n \in Nat /\ n < new
      /\ sends'[new] = s
  BY <1>0, SendAdded DEF PipelinesInv
<1>2. new \notin DOMAIN sends
  BY <1>1
<1>3. x \in Timer /\ x.send = new /\ x.stage = "outbound"
  BY <1>1 DEF Timer
<1> HIDE DEF x
<1>4. \A k \in DOMAIN q : q[k].send \in DOMAIN sends
  BY DEF PipelinesInv, TimersOK, TimersOf
<1>5. /\ timers' \in Seq(Timer) /\ Apart(timers')
      /\ \A k \in DOMAIN timers' : (\E j \in DOMAIN q : timers'[k] = q[j]) \/ timers'[k] = x
  <2>1. timers' = Append(q, x)
    BY <1>0 DEF x
  <2>2. \A k \in DOMAIN q : q[k].send # x.send
    BY <1>2, <1>3, <1>4
  <2>3. /\ Append(q, x) \in Seq(Timer) /\ Apart(Append(q, x))
        /\ \A k \in DOMAIN Append(q, x) :
              (\E j \in DOMAIN q : Append(q, x)[k] = q[j]) \/ Append(q, x)[k] = x
    BY <1>3, <2>2, TimerAdded
  <2>4. QED
    BY <2>1, <2>3
<1>6. \A k \in DOMAIN timers' : (\E j \in DOMAIN timers : timers'[k] = timers[j]) \/ timers'[k] = x
  BY <1>5 DEF TimersOf
<1>7. \A n \in DOMAIN sends : sends[n].object \in DOMAIN objects
  BY DEF PipelinesInv, SendOK
<1>8. \A n \in DOMAIN sends : sends[n].object = s.object => sends[n].from = 0 /\ s.from = 0
  BY <1>7 DEF PipelinesInv, SendsApart
<1>9. SendsApart'
  BY <1>1, <1>2, <1>8 DEF PipelinesInv, SendsApart
<1>10. TimersOK'
  <2>1. \A k \in DOMAIN timers' : timers'[k].send \in DOMAIN sends'
    BY SMTT(40), <1>1, <1>3, <1>6 DEF PipelinesInv, TimersOK
  <2>2. ASSUME NEW k \in DOMAIN timers', timers'[k].stage = "outbound",
               sends'[timers'[k].send].from # 0
        PROVE  /\ objects'[sends'[timers'[k].send].object].conversation = 0
               /\ objects'[sends'[timers'[k].send].object].correlation = 0
    <3>1. CASE \E j \in DOMAIN timers : timers'[k] = timers[j]
      <4>1. PICK j \in DOMAIN timers : timers'[k] = timers[j]
        BY <3>1
      <4>2. timers[j].send \in DOMAIN sends /\ sends'[timers[j].send] = sends[timers[j].send]
        BY <1>1 DEF PipelinesInv, TimersOK
      <4>3. /\ objects[sends[timers[j].send].object].conversation = 0
            /\ objects[sends[timers[j].send].object].correlation = 0
        BY <2>2, <4>1, <4>2 DEF PipelinesInv, TimersOK
      <4>4. QED
        BY <1>7, <4>1, <4>2, <4>3
    <3>2. CASE timers'[k] = x
      BY <1>1, <1>3, <2>2, <3>2
    <3>3. QED
      BY <1>6, <3>1, <3>2
  <2>3. QED
    BY <1>5, <2>1, <2>2 DEF TimersOK, Apart
<1>11. Len(contexts') = Len(contexts) /\ Len(contexts) \in Nat /\ DOMAIN contexts = 1..Len(contexts)
  <2>1. contexts \in Seq(Context)
    BY DEF PipelinesInv, TypeOK
  <2>2. QED
    BY <2>1, LenProperties
<1>12. \A c \in DOMAIN contexts : contexts[c].send \in DOMAIN sends /\ contexts[c].object \in DOMAIN objects
  BY DEF PipelinesInv, ContextOK
<1>13. ASSUME NEW n \in DOMAIN sends PROVE SendOK(n)'
  <2>1. SendOK(n)
    BY DEF PipelinesInv
  <2>2. /\ sends'[n] = sends[n] /\ sends[n].object \in DOMAIN objects'
        /\ objects'[sends[n].object] = objects[sends[n].object]
    BY <1>1, <1>7
  <2>3. sends[n].from # 0 => sends[n].from \in DOMAIN contexts
    BY <1>11, <2>1 DEF SendOK
  <2>4. QED
    BY <1>11, <2>1, <2>2, <2>3 DEF SendOK
<1>14. SendOK(new)'
  <2>1. s.from # 0 => contexts'[s.from].send < new
    BY <1>1, <1>11, <1>12
  <2>2. CASE s.object \notin DOMAIN objects
    <3>1. objects'[s.object].receivedBy \in Names(Subscribers[s.type], Len(Subscribers[s.type]))
      BY <1>8, <2>2, <1>7 DEF Names
    <3>2. QED
      BY <1>1, <1>7, <1>11, <2>1, <2>2, <3>1 DEF SendOK
  <2>3. CASE s.from = 0 /\ \E n \in DOMAIN sends : sends[n].object = s.object /\ sends[n].from = 0
    <3>1. PICK n \in DOMAIN sends : sends[n].object = s.object /\ sends[n].from = 0
      BY <2>3
    <3>2. SendOK(n)
      BY DEF PipelinesInv
    <3>3. objects'[s.object] = objects[s.object] /\ s.type = sends[n].type
      BY <1>7, <3>1, <3>2 DEF SendOK
    <3>4. QED
      BY <1>1, <1>11, <2>3, <3>1, <3>2, <3>3 DEF SendOK
  <2>4. QED
    BY <2>2, <2>3
<1>15. \A o : Single(o)' => Single(o)
  BY <1>1 DEF Single
<1>16. ASSUME NEW n \in DOMAIN sends PROVE FromHandlerOK(n)'
  <2>1. FromHandlerOK(n) /\ SendOK(n)
    BY DEF PipelinesInv
  <2>2. CASE sends[n].from = 0
    BY <1>1, <2>2 DEF FromHandlerOK
  <2>3. CASE sends[n].from # 0
    <3> DEFINE c == sends[n].from
    <3>1. c \in DOMAIN contexts
      BY <1>11, <2>1, <2>3 DEF SendOK
    <3>2. /\ sends'[n] = sends[n] /\ objects'[sends[n].object] = objects[sends[n].object]
          /\ contexts'[c].send = contexts[c].send /\ contexts'[c].subscriber = contexts[c].subscriber
          /\ sends'[contexts[c].send] = sends[contexts[c].send]
          /\ objects'[sends[contexts[c].send].object] = objects[sends[contexts[c].send].object]
      BY <1>1, <1>7, <1>12, <3>1
    <3>3. QED
      BY <1>15, <2>1, <3>2, FromHandlerStays, ZenonT(60)
  <2>4. QED
    BY <2>2, <2>3
<1>17. FromHandlerOK(new)'
  BY <1>1 DEF FromHandlerOK, Names
<1>18. ASSUME NEW c \in DOMAIN contexts PROVE ContextOK(c)'
  <2> DEFINE r == contexts[c].send
             p == contexts[c].object
  <2>1. ContextOK(c)
    BY DEF PipelinesInv
  <2>2. /\ r \in DOMAIN sends /\ p \in DOMAIN objects
        /\ sends'[r] = sends[r] /\ objects'[p] = objects[p]
        /\ objects'[sends[r].object] = objects[sends[r].object]
        /\ contexts'[c].send = r /\ contexts'[c].object = p
        /\ contexts'[c].subscriber = contexts[c].subscriber
        /\ contexts'[c].transport = contexts[c].transport
    BY <1>1, <1>7, <1>12
  <2>3. \A k \in DOMAIN timers' : timers'[k].send # r
    <3>1. \A k \in DOMAIN timers : timers[k].send # r
      BY <2>1 DEF ContextOK
    <3>2. r # x.send
      BY <1>2, <1>3, <2>2
    <3> HIDE DEF r
    <3>3. QED
      BY <1>6, <3>1, <3>2
  <2>4. (\A n \in DOMAIN sends : sends[n].object # p) => \A n \in DOMAIN sends' : sends'[n].object # p
    BY <1>1, <2>2
  <2>5. r \in DOMAIN sends' /\ p \in DOMAIN objects' /\ transports' = transports
    BY <1>1, <2>2
  <2>6. QED
    BY <1>15, <2>1, <2>2, <2>3, <2>4, <2>5, ContextStays, ZenonT(60)
<1>19. QED
  BY <1>1, <1>5, <1>9, <1>10, <1>13, <1>14, <1>16, <1>17, <1>18
-----------------------------------------------------------------------------
(* Parts of a step: what becomes of the routes, the replies, the failures  *)

LEMMA RouteOfReply ==
    ASSUME TypeOK, RoutesKept, NEW type \in Type, routes' = RouteReply(type)
    PROVE  /\ routes' \in [Routable -> Nat]
           /\ \A r \in Routable : routes'[r] # routes[r] => routes'[r] = routes[type]
           /\ routes'["*"] = routes["*"]
           /\ \A t \in Type \ Replies : routes'[t] = routes[t]
           /\ \A t \in Type : Plain(t) =>
                 /\ routes'[ReplyType[t]] \in {0, routes[t]}
                 /\ routes[ReplyType[t]] = routes[t] => routes'[ReplyType[t]] = routes[t]
           /\ Plain(type) => routes'[ReplyType[type]] = routes[type]
<1> DEFINE y == ReplyType[type]
<1>1. /\ y \in Replies /\ y # "*" /\ y \in Routable /\ type \in Routable
      /\ \A t \in Type : t \in Routable /\ ReplyType[t] \in Routable
      /\ \A t \in Type : ReplyType[t] = y => t = type
      /\ "*" \in Routable
  BY PipelinesAssumption DEF Replies, Routable
<1> HIDE DEF y
<1>2. routes \in [Routable -> Nat] /\ routes' = IF routes[y] = 0 THEN [routes EXCEPT ![y] = routes[type]] ELSE routes
  BY DEF TypeOK, RouteReply, y
<1>3. /\ routes' \in [Routable -> Nat]
      /\ \A r \in Routable : routes'[r] = IF r = y /\ routes[y] = 0 THEN routes[type] ELSE routes[r]
  BY <1>1, <1>2
<1>4. \A t \in Type \ Replies : t # y
  BY <1>1
<1>5. \A t \in Type : Plain(t) => routes[ReplyType[t]] \in {0, routes[t]}
  BY DEF RoutesKept
<1>6. ASSUME NEW t \in Type, Plain(t)
      PROVE  /\ routes'[ReplyType[t]] \in {0, routes[t]}
             /\ routes[ReplyType[t]] = routes[t] => routes'[ReplyType[t]] = routes[t]
  BY <1>1, <1>3, <1>5, <1>6
<1>7. Plain(type) => routes'[y] = routes[type]
  BY <1>1, <1>3, <1>5 DEF y
<1>8. QED
  BY <1>1, <1>3, <1>4, <1>6, <1>7 DEF y

LEMMA RoutesStay ==
    ASSUME TypeOK, RoutesKept, routes' = routes, DOMAIN sends' # {},
           \A o \in DOMAIN objects' : objects'[o].intent = "sendReply" =>
               \E p \in DOMAIN objects : /\ objects[p].intent = "sendReply"
                                        /\ objects[p].type = objects'[o].type,
           \A n \in DOMAIN sends' :
               \/ n \in DOMAIN sends /\ sends'[n] = sends[n]
               \/ sends'[n].transport = getTransport(sends'[n].type)
    PROVE  RoutesKept'
<1> SUFFICES ASSUME NEW t \in Type, Plain(t)
             PROVE  /\ sends' = <<>> => routes[ReplyType[t]] = 0
                    /\ routes[ReplyType[t]] \in {0, routes[t]}
                    /\ \A o \in DOMAIN objects' :
                          objects'[o].type = t /\ objects'[o].intent = "sendReply" =>
                              routes[ReplyType[t]] = routes[t]
                    /\ \A n \in DOMAIN sends' : sends'[n].type = t => sends'[n].transport = getTransport(t)
  BY DEF RoutesKept, Plain, getTransport
<1>1. sends' # <<>>
  OBVIOUS
<1>2. QED
  BY <1>1 DEF RoutesKept

LEMMA RepliesStay ==
    ASSUME PipelinesInv,
           \A n \in DOMAIN sends' :
               \/ /\ n \in DOMAIN sends /\ sends'[n] = sends[n]
                  /\ objects'[sends[n].object].intent = objects[sends[n].object].intent
               \/ objects'[sends'[n].object].intent # "reply",
           \A n \in DOMAIN sends : sends'[n] = sends[n],
           \A c \in DOMAIN contexts : contexts'[c].send = contexts[c].send
    PROVE  ReplyTakesTransportOfRequest'
<1> SUFFICES ASSUME NEW n \in DOMAIN sends', objects'[sends'[n].object].intent = "reply",
                    sends'[contexts'[sends'[n].from].send].type \notin Replies,
                    ReplyType[sends'[contexts'[sends'[n].from].send].type] \notin OwnRoutes
             PROVE  sends'[n].transport = sends'[contexts'[sends'[n].from].send].transport
  BY DEF ReplyTakesTransportOfRequest
<1>1. n \in DOMAIN sends /\ sends'[n] = sends[n] /\ objects[sends[n].object].intent = "reply"
  OBVIOUS
<1>2. SendOK(n) /\ contexts \in Seq(Context)
  BY <1>1 DEF PipelinesInv, TypeOK
<1>3. sends[n].from \in DOMAIN contexts
  BY <1>1, <1>2, LenProperties DEF SendOK
<1>4. ContextOK(sends[n].from)
  BY <1>3 DEF PipelinesInv
<1> DEFINE r == contexts[sends[n].from].send
<1>5. /\ r \in DOMAIN sends /\ sends'[r] = sends[r]
      /\ contexts'[sends'[n].from].send = r
  BY <1>1, <1>3, <1>4 DEF ContextOK
<1>6. sends[r].type \notin Replies /\ ReplyType[sends[r].type] \notin OwnRoutes
  BY <1>5
<1>7. sends[n].transport = sends[r].transport
  BY <1>1, <1>6 DEF PipelinesInv, ReplyTakesTransportOfRequest
<1>8. QED
  BY <1>1, <1>5, <1>7

LEMMA ReportsStay ==
    ASSUME DefaultReportsFailures, default' = default, cancelled \subseteq cancelled',
           \A c \in DOMAIN contexts' :
               contexts'[c].status = "failed" => c \in DOMAIN contexts /\ contexts'[c] = contexts[c],
           \A n \in DOMAIN sends : n \in DOMAIN sends' /\ sends'[n] = sends[n]
    PROVE  DefaultReportsFailures'
<1> SUFFICES ASSUME NEW c \in DOMAIN contexts' \ cancelled', contexts'[c].status = "failed",
                    contexts'[c].transport = default
             PROVE  \E n \in DOMAIN sends' : sends'[n].from = c /\ sends'[n].type = BusError
  BY DEF DefaultReportsFailures
<1>1. PICK n \in DOMAIN sends : sends[n].from = c /\ sends[n].type = BusError
  BY DEF DefaultReportsFailures
<1>2. QED
  BY <1>1

LEMMA TransportFound ==
    ASSUME PipelinesInv, sends # <<>>, NEW r \in Routable
    PROVE  /\ getTransport(r) \in DOMAIN transports /\ getTransport(r) \in Nat /\ getTransport(r) # 0
<1>1. "*" \in Routable
  BY DEF Routable
<1>2. /\ routes \in [Routable -> Nat] /\ routes["*"] # 0
      /\ routes[r] <= Len(transports) /\ routes["*"] <= Len(transports)
  BY <1>1 DEF PipelinesInv, TypeOK, Configured
<1>3. transports \in Seq([Stages -> Seq(Tasks)])
  BY DEF PipelinesInv, TypeOK
<1>4. Len(transports) \in Nat /\ DOMAIN transports = 1..Len(transports)
  BY <1>3, LenProperties
<1>5. routes[r] \in Nat /\ routes["*"] \in Nat
  BY <1>1, <1>2
<1>6. QED
  BY <1>2, <1>4, <1>5 DEF getTransport
-----------------------------------------------------------------------------
(* The invariant holds at first and while the bus is configured *)

LEMMA ConfiguringKeeps ==
    ASSUME PipelinesInv, Configuring,
           transports' \in Seq([Stages -> Seq(Tasks)]), routes' \in [Routable -> Nat],
           default' \in Nat, started' \in BOOLEAN, Configured',
           \A t \in Type : Plain(t) => routes'[ReplyType[t]] = 0
    PROVE  PipelinesInv'
<1>1. sends = <<>> /\ UNCHANGED <<objects, sends, timers, contexts, guids>>
  BY DEF Configuring
<1>2. objects = <<>> /\ timers = <<>> /\ contexts = <<>>
  BY <1>1 DEF PipelinesInv, Configured
<1>3. DOMAIN objects = {} /\ DOMAIN sends = {} /\ DOMAIN timers = {} /\ DOMAIN contexts = {}
  BY <1>1, <1>2
<1>4. TypeOK'
  BY <1>1 DEF PipelinesInv, TypeOK
<1>5. RoutesKept'
  BY <1>1, <1>3 DEF RoutesKept, Plain
<1>6. SendsApart' /\ TimersOK' /\ ReplyTakesTransportOfRequest' /\ DefaultReportsFailures'
  BY <1>1, <1>3 DEF SendsApart, TimersOK, ReplyTakesTransportOfRequest, DefaultReportsFailures
<1>7. QED
  BY <1>1, <1>3, <1>4, <1>5, <1>6 DEF PipelinesInv

LEMMA InitPipelines == Init => PipelinesInv
<1> SUFFICES ASSUME Init PROVE PipelinesInv
  OBVIOUS
<1>1. DOMAIN objects = {} /\ DOMAIN sends = {} /\ DOMAIN timers = {} /\ DOMAIN contexts = {}
  BY DEF Init
<1>2. TypeOK
  BY EmptySeq DEF Init, TypeOK
<1>3. Configured
  <2>1. Len(transports) = 0
    BY DEF Init
  <2>2. QED
    BY <2>1 DEF Init, Configured
<1>4. RoutesKept
  <2>1. \A t \in Type : ReplyType[t] \in Routable
    BY DEF Routable, Replies
  <2>2. QED
    BY <1>1, <2>1 DEF Init, RoutesKept
<1>5. QED
  BY <1>1, <1>2, <1>3, <1>4
     DEF PipelinesInv, SendsApart, TimersOK, ReplyTakesTransportOfRequest, DefaultReportsFailures

(* Own routes are not those of plain replies. *)
LEMMA UnroutedReplies ==
    ASSUME PipelinesInv, sends = <<>>, NEW t \in Type, Plain(t)
    PROVE  ReplyType[t] \notin OwnRoutes \cup {"*"} /\ ReplyType[t] \in Routable /\ routes[ReplyType[t]] = 0
  BY PipelinesAssumption DEF PipelinesInv, RoutesKept, Plain, Routable, Replies

LEMMA NoTasksTyped ==
    /\ NoTasks \in [Stages -> Seq(Tasks)]
    /\ <<"exception">> \in Seq(Tasks)
    /\ "exception" \in ToSet(<<"exception">>)
<1>1. <<>> \in Seq(Tasks) /\ <<"exception">> \in Seq(Tasks)
  BY DEF Tasks
<1>2. "exception" \in ToSet(<<"exception">>)
  BY DEF ToSet
<1>3. QED
  BY <1>1, <1>2 DEF NoTasks

(* A transport is added and takes over a route. *)
LEMMA TransportAdded ==
    ASSUME PipelinesInv, NEW t \in [Stages -> Seq(Tasks)], NEW r \in Routable,
           transports' = Append(transports, t),
           routes' = [routes EXCEPT ![r] = Len(transports) + 1]
    PROVE  /\ transports' \in Seq([Stages -> Seq(Tasks)]) /\ routes' \in [Routable -> Nat]
           /\ Len(transports) \in Nat /\ Len(transports') = Len(transports) + 1
           /\ \A k \in DOMAIN transports : k \in DOMAIN transports' /\ transports'[k] = transports[k]
           /\ Len(transports) + 1 \in DOMAIN transports' /\ transports'[Len(transports) + 1] = t
           /\ \A x \in Routable : routes'[x] <= Len(transports')
           /\ routes["*"] # 0 => routes'["*"] # 0
           /\ routes'[r] # 0
           /\ \A x \in Routable \ {r} : routes'[x] = routes[x]
<1>1. transports \in Seq([Stages -> Seq(Tasks)]) /\ routes \in [Routable -> Nat] /\ "*" \in Routable
  BY DEF PipelinesInv, TypeOK, Routable
<1>2. /\ Len(transports) \in Nat /\ DOMAIN transports = 1..Len(transports)
      /\ transports' \in Seq([Stages -> Seq(Tasks)])
      /\ Len(transports') = Len(transports) + 1
      /\ DOMAIN transports' = 1..(Len(transports) + 1)
      /\ \A k \in 1..Len(transports) : transports'[k] = transports[k]
      /\ transports'[Len(transports) + 1] = t
  BY <1>1, Appended
<1>3. \A x \in Routable : routes[x] \in Nat /\ routes[x] <= Len(transports)
  BY <1>1 DEF PipelinesInv, Configured
<1>4. QED
  BY <1>1, <1>2, <1>3

LEMMA UsingTransportKeeps ==
    ASSUME PipelinesInv, NEW r \in OwnRoutes, UsingTransport(r)
    PROVE  PipelinesInv'
<1>1. r \in Routable
  BY PipelinesAssumption
<1>2. /\ Configuring /\ sends = <<>> /\ sends' = sends /\ objects' = objects
      /\ timers' = timers /\ contexts' = contexts
      /\ transports' = Append(transports, NoTasks)
      /\ routes' = [routes EXCEPT ![r] = Len(transports) + 1]
      /\ default' = default /\ started' = started
  BY DEF UsingTransport, Configuring
<1>3. /\ transports' \in Seq([Stages -> Seq(Tasks)]) /\ routes' \in [Routable -> Nat]
      /\ \A k \in DOMAIN transports : k \in DOMAIN transports' /\ transports'[k] = transports[k]
      /\ \A x \in Routable : routes'[x] <= Len(transports')
      /\ routes["*"] # 0 => routes'["*"] # 0
      /\ \A x \in Routable \ {r} : routes'[x] = routes[x]
  BY <1>1, <1>2, NoTasksTyped, TransportAdded
<1>4. Configured'
  BY <1>2, <1>3 DEF PipelinesInv, Configured
<1>5. \A t \in Type : Plain(t) => routes'[ReplyType[t]] = 0
  BY <1>2, <1>3, UnroutedReplies
<1>6. default' \in Nat /\ started' \in BOOLEAN
  BY <1>2 DEF PipelinesInv, TypeOK
<1>7. QED
  BY <1>2, <1>3, <1>4, <1>5, <1>6, ConfiguringKeeps

LEMMA UseTaskKeeps ==
    ASSUME PipelinesInv, NEW r \in OwnRoutes \cup {"*"}, NEW use \in Uses, UseTask(r, use)
    PROVE  PipelinesInv'
<1> DEFINE k == routes[r]
           Pipeline == [Stages -> Seq(Tasks)]
<1>1. r \in Routable /\ use[1] \in Stages /\ use[2] \in Tasks
  BY PipelinesAssumption DEF Routable
<1>2. /\ Configuring /\ sends = <<>> /\ sends' = sends /\ objects' = objects
      /\ timers' = timers /\ contexts' = contexts
      /\ k # 0
      /\ transports' = [transports EXCEPT ![k][use[1]] = Append(@, use[2])]
      /\ routes' = routes /\ default' = default /\ started' = started
  BY DEF UseTask, Configuring
<1>3. transports \in Seq(Pipeline) /\ routes \in [Routable -> Nat] /\ k <= Len(transports) /\ k \in Nat
  BY <1>1 DEF PipelinesInv, TypeOK, Configured
<1>4. Len(transports) \in Nat /\ DOMAIN transports = 1..Len(transports) /\ k \in DOMAIN transports
  BY <1>2, <1>3, LenProperties
<1>5. transports[k] \in Pipeline
  BY <1>3, <1>4, Typed
<1> DEFINE tasks == transports[k][use[1]]
           pipeline == [transports[k] EXCEPT ![use[1]] = Append(tasks, use[2])]
<1>6. tasks \in Seq(Tasks)
  BY <1>1, <1>5
<1>7. /\ Append(tasks, use[2]) \in Seq(Tasks)
      /\ DOMAIN tasks \subseteq DOMAIN Append(tasks, use[2])
      /\ \A i \in DOMAIN tasks : Append(tasks, use[2])[i] = tasks[i]
  BY <1>1, <1>6, Appended
<1>8. ToSet(tasks) \subseteq ToSet(Append(tasks, use[2]))
  BY <1>7 DEF ToSet
<1>9. /\ pipeline \in Pipeline
      /\ \A st \in Stages : ToSet(transports[k][st]) \subseteq ToSet(pipeline[st])
  BY <1>1, <1>5, <1>7, <1>8
<1>10. transports' = [transports EXCEPT ![k] = pipeline]
  BY <1>2
<1> HIDE DEF pipeline, tasks, k
<1>11. /\ transports' \in Seq(Pipeline) /\ Len(transports') = Len(transports)
       /\ \A j \in 1..Len(transports) : transports'[j] = IF j = k THEN pipeline ELSE transports[j]
  BY <1>3, <1>4, <1>9, <1>10, ExceptSeq
<1>12. DOMAIN transports' = DOMAIN transports
  BY <1>4, <1>11, LenProperties
<1>13. "inLogical" \in Stages
  BY DEF Stages
<1>14. \A j \in DOMAIN transports :
          "exception" \in ToSet(transports[j]["inLogical"]) => "exception" \in ToSet(transports'[j]["inLogical"])
  BY <1>4, <1>9, <1>11, <1>13
<1>15. Configured'
  BY <1>2, <1>11, <1>12, <1>14 DEF PipelinesInv, Configured
<1>16. \A t \in Type : Plain(t) => routes'[ReplyType[t]] = 0
  BY <1>2, UnroutedReplies
<1>17. default' \in Nat /\ started' \in BOOLEAN /\ routes' \in [Routable -> Nat]
  BY <1>2, <1>3 DEF PipelinesInv, TypeOK
<1>18. QED
  BY <1>2, <1>11, <1>15, <1>16, <1>17, ConfiguringKeeps

LEMMA StartKeeps == ASSUME PipelinesInv, Start PROVE PipelinesInv'
<1>1. /\ Configuring /\ sends = <<>> /\ sends' = sends /\ objects' = objects
      /\ timers' = timers /\ contexts' = contexts /\ started' = TRUE
  BY DEF Start, Configuring
<1>2. transports \in Seq([Stages -> Seq(Tasks)]) /\ routes \in [Routable -> Nat] /\ default \in Nat
  BY DEF PipelinesInv, TypeOK
<1>3. /\ transports' \in Seq([Stages -> Seq(Tasks)]) /\ routes' \in [Routable -> Nat] /\ default' \in Nat
      /\ Configured'
      /\ \A x \in Routable \ {"*"} : routes'[x] = routes[x]
  <2>1. CASE routes["*"] = 0
    <3> DEFINE t == [NoTasks EXCEPT !["outLogical"] = <<"exception">>, !["inLogical"] = <<"exception">>]
    <3>1. /\ transports' = Append(transports, t)
          /\ routes' = [routes EXCEPT !["*"] = Len(transports) + 1]
          /\ default' = Len(transports) + 1
      BY <2>1 DEF Start
    <3>2. t \in [Stages -> Seq(Tasks)] /\ "exception" \in ToSet(t["inLogical"]) /\ "*" \in Routable
      BY NoTasksTyped DEF Stages, Routable
    <3> HIDE DEF t
    <3>3. /\ transports' \in Seq([Stages -> Seq(Tasks)]) /\ routes' \in [Routable -> Nat]
          /\ Len(transports) \in Nat
          /\ Len(transports) + 1 \in DOMAIN transports' /\ transports'[Len(transports) + 1] = t
          /\ \A x \in Routable : routes'[x] <= Len(transports')
          /\ routes'["*"] # 0
          /\ \A x \in Routable \ {"*"} : routes'[x] = routes[x]
      BY <3>1, <3>2, TransportAdded
    <3>4. Configured'
      BY <1>1, <3>1, <3>2, <3>3 DEF PipelinesInv, Configured
    <3>5. QED
      BY <3>1, <3>3, <3>4
  <2>2. CASE routes["*"] # 0
    <3>1. transports' = transports /\ routes' = routes /\ default' = default
      BY <2>2 DEF Start
    <3>2. QED
      BY <1>1, <1>2, <2>2, <3>1 DEF PipelinesInv, Configured
  <2>3. QED
    BY <2>1, <2>2
<1>4. \A t \in Type : Plain(t) => routes'[ReplyType[t]] = 0
  BY <1>1, <1>3, UnroutedReplies
<1>5. QED
  BY <1>1, <1>3, <1>4, ConfiguringKeeps
-----------------------------------------------------------------------------
(* The invariant holds after a message is sent *)

(* What is the same for every new object. *)
LEMMA ObjectAdded ==
    ASSUME TypeOK, NEW r \in Type \cup Replies, NEW intent \in Intent, NEW id \in Nat, NEW replyTo \in Nat,
           objects' = Append(objects, NewObject(r, intent, id, replyTo))
    PROVE  /\ objects' \in Seq(Object) /\ Len(objects) + 1 \in Nat
           /\ DOMAIN objects' = DOMAIN objects \cup {Len(objects) + 1}
           /\ Len(objects) + 1 \notin DOMAIN objects
           /\ \A o \in DOMAIN objects : objects'[o] = objects[o]
           /\ objects'[Len(objects) + 1] = NewObject(r, intent, id, replyTo)
<1> DEFINE m == NewObject(r, intent, id, replyTo)
<1>1. m \in Object
  BY PipelinesAssumption DEF NewObject, Object
<1>2. objects \in Seq(Object)
  BY DEF TypeOK
<1>3. QED
  BY <1>1, <1>2, Appended

LEMMA OldMessages ==
    ASSUME PipelinesInv
    PROVE  /\ \A n \in DOMAIN sends : sends[n].object \in DOMAIN objects
           /\ contexts \in Seq(Context) /\ DOMAIN contexts = 1..Len(contexts) /\ Len(contexts) \in Nat
           /\ objects \in Seq(Object) /\ \A o \in DOMAIN objects : objects[o] \in Object
           /\ sends \in Seq(Send) /\ \A n \in DOMAIN sends : sends[n] \in Send
           /\ sends # <<>> <=> DOMAIN sends # {}
<1>1. objects \in Seq(Object) /\ contexts \in Seq(Context) /\ sends \in Seq(Send)
  BY DEF PipelinesInv, TypeOK
<1>2. \A n \in DOMAIN sends : sends[n].object \in DOMAIN objects
  BY DEF PipelinesInv, SendOK
<1>3. QED
  BY <1>1, <1>2, Typed

LEMMA SendNewKeeps ==
    ASSUME PipelinesInv, NEW type \in Type, NEW intent \in {"publish", "send", "sendReply"},
           NEW from \in 0..Len(contexts), started, SendNew(type, intent, from)
    PROVE  PipelinesInv'
<1> DEFINE id == IF intent = "sendReply" THEN guids + 1 ELSE 0
           m  == NewObject(type, intent, id, 0)
           o  == Len(objects) + 1
           t  == getTransport(type)
           s  == [object |-> o, from |-> from, transport |-> t, type |-> type]
<1>1. /\ objects' = Append(objects, m)
      /\ guids' = IF intent = "sendReply" THEN guids + 1 ELSE guids
      /\ routes' = IF intent = "sendReply" THEN RouteReply(type) ELSE routes
      /\ sends' = Append(sends, s)
      /\ timers' = Append(timers, [stage |-> "outbound", send |-> Len(sends) + 1])
      /\ transports' = transports /\ default' = default /\ started' = started /\ contexts' = contexts
      /\ cancelled' = cancelled
  BY DEF SendNew, PutInPipeline, configuration
<1>2. TypeOK /\ guids \in Nat /\ id \in Nat /\ 0 \in Nat /\ intent \in Intent /\ type \in Type \cup Replies
  BY DEF PipelinesInv, TypeOK, Intent
<1>3. type \in Routable /\ "*" \in Routable
  BY DEF Routable
<1>4. t \in Nat
  BY <1>2, <1>3 DEF TypeOK, getTransport
<1>5. /\ objects' \in Seq(Object) /\ o \in Nat
      /\ DOMAIN objects' = DOMAIN objects \cup {o} /\ o \notin DOMAIN objects
      /\ \A x \in DOMAIN objects : objects'[x] = objects[x]
      /\ objects'[o] = m
  BY <1>1, <1>2, ObjectAdded
<1>6. /\ m.type = type /\ m.intent = intent /\ m.conversation = 0 /\ m.correlation = 0
      /\ m.sentBy = Unidentified /\ m.receivedBy = Unidentified
  BY DEF NewObject
<1> HIDE DEF id, m, o, t
<1>7. /\ \A n \in DOMAIN sends : sends[n].object \in DOMAIN objects
      /\ contexts \in Seq(Context) /\ DOMAIN contexts = 1..Len(contexts) /\ Len(contexts) \in Nat
  BY OldMessages
<1>8. /\ s \in Send /\ s.object = o /\ s.from = from /\ s.type = type /\ s.transport = t
  BY <1>2, <1>4, <1>5, <1>7 DEF Send
<1> HIDE DEF s
<1>9. timers \in Seq(Timer) /\ Apart(timers) /\ TimersOf(timers)
  BY AllTimers
<1>10. /\ sends' \in Seq(Send) /\ timers' \in Seq(Timer)
       /\ SendsApart' /\ TimersOK'
       /\ \A n \in DOMAIN sends' : SendOK(n)' /\ FromHandlerOK(n)'
       /\ \A c \in DOMAIN contexts' : ContextOK(c)'
  BY ZenonT(40), <1>1, <1>5, <1>6, <1>7, <1>8, <1>9, SentKeeps
<1>11. /\ DOMAIN sends' = DOMAIN sends \cup {Len(sends) + 1}
       /\ \A n \in DOMAIN sends : sends'[n] = sends[n]
       /\ sends'[Len(sends) + 1] = s
  BY <1>1, <1>2, <1>8, SendAdded
<1>12. /\ routes' \in [Routable -> Nat] /\ routes'["*"] = routes["*"]
       /\ \A r \in Routable : routes'[r] # routes[r] => routes'[r] = routes[type]
       /\ \A u \in Type \ Replies : routes'[u] = routes[u]
       /\ \A u \in Type : Plain(u) =>
             /\ routes'[ReplyType[u]] \in {0, routes[u]}
             /\ routes[ReplyType[u]] = routes[u] => routes'[ReplyType[u]] = routes[u]
             /\ intent = "sendReply" /\ u = type => routes'[ReplyType[u]] = routes[u]
  <2>1. CASE intent = "sendReply"
    <3>1. routes' = RouteReply(type) /\ RoutesKept
      BY <1>1, <2>1 DEF PipelinesInv
    <3>2. QED
      BY <1>2, <3>1, RouteOfReply
  <2>2. CASE intent # "sendReply"
    BY <1>1, <2>2 DEF PipelinesInv, TypeOK, RoutesKept
  <2>3. QED
    BY <2>1, <2>2
<1>13. TypeOK'
  BY <1>1, <1>2, <1>5, <1>10, <1>12 DEF TypeOK
<1>14. Configured'
  <2>1. \A r \in Routable : routes'[r] <= Len(transports)
    BY <1>3, <1>12 DEF PipelinesInv, Configured
  <2>2. sends' # <<>> /\ routes'["*"] # 0
    BY <1>11, <1>12 DEF PipelinesInv, Configured
  <2>3. QED
    BY <1>1, <2>1, <2>2 DEF PipelinesInv, Configured
<1>15. RoutesKept'
  <2> SUFFICES ASSUME NEW u \in Type, Plain(u)
               PROVE  /\ sends' = <<>> => routes'[ReplyType[u]] = 0
                      /\ routes'[ReplyType[u]] \in {0, routes'[u]}
                      /\ \A x \in DOMAIN objects' :
                            objects'[x].type = u /\ objects'[x].intent = "sendReply" =>
                                routes'[ReplyType[u]] = routes'[u]
                      /\ \A n \in DOMAIN sends' :
                            sends'[n].type = u => sends'[n].transport = getTransport(u)'
    BY DEF RoutesKept, Plain
  <2>1. u \notin Replies /\ routes'[u] = routes[u] /\ getTransport(u)' = getTransport(u)
    BY <1>12 DEF Plain, getTransport
  <2>2. sends' # <<>>
    BY <1>11
  <2>3. ASSUME NEW x \in DOMAIN objects', objects'[x].type = u, objects'[x].intent = "sendReply"
        PROVE  routes'[ReplyType[u]] = routes'[u]
    <3>1. CASE x \in DOMAIN objects
      <4>1. objects[x].type = u /\ objects[x].intent = "sendReply"
        BY <1>5, <2>3, <3>1
      <4>2. routes[ReplyType[u]] = routes[u]
        BY <3>1, <4>1 DEF PipelinesInv, RoutesKept
      <4>3. QED
        BY <1>12, <2>1, <4>2
    <3>2. CASE x = o
      BY <1>5, <1>6, <1>12, <2>1, <2>3, <3>2
    <3>3. QED
      BY <1>5, <3>1, <3>2
  <2>4. ASSUME NEW n \in DOMAIN sends', sends'[n].type = u
        PROVE  sends'[n].transport = getTransport(u)
    <3>1. CASE n \in DOMAIN sends
      BY <1>11, <2>4, <3>1 DEF PipelinesInv, RoutesKept
    <3>2. CASE n = Len(sends) + 1
      BY <1>8, <1>11, <2>4, <3>2 DEF t
    <3>3. QED
      BY <1>11, <3>1, <3>2
  <2>5. QED
    BY <1>12, <2>1, <2>2, <2>3, <2>4
<1>16. ReplyTakesTransportOfRequest'
  BY <1>1, <1>5, <1>6, <1>7, <1>8, <1>11, RepliesStay
<1>17. DefaultReportsFailures'
  BY <1>1, <1>11, ReportsStay DEF PipelinesInv
<1>18. QED
  BY <1>10, <1>13, <1>14, <1>15, <1>16, <1>17 DEF PipelinesInv

LEMMA SendAgainKeeps ==
    ASSUME PipelinesInv, NEW o \in DOMAIN objects, SendAgain(o)
    PROVE  PipelinesInv'
<1> DEFINE r == objects[o].type
           t == getTransport(r)
           s == [object |-> o, from |-> 0, transport |-> t, type |-> r]
<1>1. /\ sends' = Append(sends, s)
      /\ timers' = Append(timers, [stage |-> "outbound", send |-> Len(sends) + 1])
      /\ objects[o].intent \in {"send", "publish"}
      /\ UNCHANGED <<transports, default, started, routes, objects, contexts, cancelled, guids>>
  BY DEF SendAgain, PutInPipeline, configuration
<1>2. PICK k \in DOMAIN sends : sends[k].object = o /\ sends[k].from = 0
  BY DEF SendAgain
<1>3. /\ \A n \in DOMAIN sends : sends[n].object \in DOMAIN objects
      /\ contexts \in Seq(Context) /\ DOMAIN contexts = 1..Len(contexts) /\ Len(contexts) \in Nat
      /\ objects \in Seq(Object) /\ objects[o] \in Object
      /\ sends[k] \in Send /\ sends # <<>>
  BY <1>2, OldMessages
<1>4. r \in Type \cup Replies /\ r \in Routable /\ o \in Nat
  BY <1>2, <1>3 DEF Object, Send, Routable
<1>5. t \in Nat
  BY <1>3, <1>4, TransportFound
<1> HIDE DEF r, t
<1>6. /\ s \in Send /\ s.object = o /\ s.from = 0 /\ s.type = r /\ s.transport = t
  BY <1>4, <1>5 DEF Send
<1> HIDE DEF s
<1>7. timers \in Seq(Timer) /\ Apart(timers) /\ TimersOf(timers)
  BY AllTimers
<1>8. objects'[o].type = r /\ \A x \in DOMAIN objects : objects'[x] = objects[x]
  BY <1>1 DEF r
<1>9. /\ sends' \in Seq(Send) /\ timers' \in Seq(Timer)
      /\ SendsApart' /\ TimersOK'
      /\ \A n \in DOMAIN sends' : SendOK(n)' /\ FromHandlerOK(n)'
      /\ \A c \in DOMAIN contexts' : ContextOK(c)'
  <2>1. s.from \in 0..Len(contexts) /\ s.object \in DOMAIN objects' /\ objects'[s.object].type = s.type
    BY <1>1, <1>3, <1>6, <1>8
  <2>2. /\ objects' \in Seq(Object) /\ DOMAIN objects \subseteq DOMAIN objects'
        /\ contexts' \in Seq(Context) /\ DOMAIN contexts' = DOMAIN contexts
        /\ \A c \in DOMAIN contexts :
              /\ contexts'[c].object = contexts[c].object
              /\ contexts'[c].send = contexts[c].send
              /\ contexts'[c].subscriber = contexts[c].subscriber
              /\ contexts'[c].transport = contexts[c].transport
    BY <1>1, <1>3
  <2>3. s.from = 0 /\ \E n \in DOMAIN sends : sends[n].object = s.object /\ sends[n].from = 0
    BY <1>2, <1>6
  <2>4. transports' = transports
    BY <1>1
  <2>5. QED
    BY <1>1, <1>6, <1>7, <1>8, <2>1, <2>2, <2>3, <2>4, SentKeeps
<1>10. TypeOK
  BY DEF PipelinesInv
<1>11. /\ DOMAIN sends' = DOMAIN sends \cup {Len(sends) + 1}
       /\ \A n \in DOMAIN sends : sends'[n] = sends[n]
       /\ sends'[Len(sends) + 1] = s
  BY <1>1, <1>6, <1>10, SendAdded
<1>12. TypeOK'
  BY <1>1, <1>9, <1>10 DEF TypeOK
<1>13. Configured'
  BY <1>1, <1>3, <1>11 DEF PipelinesInv, Configured
<1>14. RoutesKept'
  <2>1. RoutesKept
    BY DEF PipelinesInv
  <2>2. \A n \in DOMAIN sends' :
           \/ n \in DOMAIN sends /\ sends'[n] = sends[n]
           \/ sends'[n].transport = getTransport(sends'[n].type)
    BY <1>6, <1>11 DEF t
  <2>3. QED
    BY <1>1, <1>10, <1>11, <2>1, <2>2, RoutesStay
<1>15. ReplyTakesTransportOfRequest'
  BY <1>1, <1>6, <1>11, RepliesStay
<1>16. DefaultReportsFailures'
  BY <1>1, <1>11, ReportsStay DEF PipelinesInv
<1>17. QED
  BY <1>9, <1>12, <1>13, <1>14, <1>15, <1>16 DEF PipelinesInv
SameContexts ==
    /\ contexts' \in Seq(Context) /\ DOMAIN contexts' = DOMAIN contexts
    /\ \A c \in DOMAIN contexts :
          /\ contexts'[c].object = contexts[c].object
          /\ contexts'[c].send = contexts[c].send
          /\ contexts'[c].subscriber = contexts[c].subscriber
          /\ contexts'[c].transport = contexts[c].transport

(* A reply or an error is sent. *)
LEMMA AnswerSent ==
    ASSUME PipelinesInv, NEW r \in Type \cup Replies, NEW intent \in {"publish", "reply"},
           NEW replyTo \in Nat, NEW from \in 0..Len(contexts),
           sends # <<>>,
           objects' = Append(objects, NewObject(r, intent, 0, replyTo)),
           sends' = Append(sends, [object |-> Len(objects) + 1, from |-> from,
                                   transport |-> getTransport(r), type |-> r]),
           NEW q \in Seq(Timer), Apart(q), TimersOf(q),
           timers' = Append(q, [stage |-> "outbound", send |-> Len(sends) + 1]),
           intent = "reply" => from # 0, intent # "reply" => r \in Type,
           UNCHANGED <<transports, default, started, routes, guids>>,
           SameContexts
    PROVE  /\ TypeOK' /\ Configured' /\ RoutesKept' /\ SendsApart' /\ TimersOK'
           /\ \A n \in DOMAIN sends' : SendOK(n)' /\ FromHandlerOK(n)'
           /\ \A c \in DOMAIN contexts' : ContextOK(c)'
           /\ DOMAIN sends' = DOMAIN sends \cup {Len(sends) + 1}
           /\ \A n \in DOMAIN sends : sends'[n] = sends[n]
           /\ sends'[Len(sends) + 1].from = from /\ sends'[Len(sends) + 1].type = r
           /\ sends'[Len(sends) + 1].transport = getTransport(r)
           /\ objects'[sends'[Len(sends) + 1].object].intent = intent
           /\ \A o \in DOMAIN objects : objects'[o] = objects[o]
<1> DEFINE m == NewObject(r, intent, 0, replyTo)
           o == Len(objects) + 1
           t == getTransport(r)
           s == [object |-> o, from |-> from, transport |-> t, type |-> r]
<1>1. TypeOK /\ intent \in Intent /\ 0 \in Nat
  BY DEF PipelinesInv, Intent
<1>2. /\ objects' \in Seq(Object) /\ o \in Nat
      /\ DOMAIN objects' = DOMAIN objects \cup {o} /\ o \notin DOMAIN objects
      /\ \A x \in DOMAIN objects : objects'[x] = objects[x]
      /\ objects'[o] = m
  BY <1>1, ObjectAdded
<1>3. /\ m.type = r /\ m.intent = intent /\ m.conversation = 0 /\ m.correlation = 0
      /\ m.sentBy = Unidentified /\ m.receivedBy = Unidentified
  BY DEF NewObject
<1>4. /\ \A n \in DOMAIN sends : sends[n].object \in DOMAIN objects
      /\ Len(contexts) \in Nat
  BY OldMessages
<1>5. r \in Routable
  BY DEF Routable
<1>6. t \in Nat
  BY <1>5, TransportFound
<1>7. sends' = Append(sends, s)
  OBVIOUS
<1> HIDE DEF m, o, t
<1>8. /\ s \in Send /\ s.object = o /\ s.from = from /\ s.type = r /\ s.transport = t
  BY <1>2, <1>4, <1>6 DEF Send
<1> HIDE DEF s
<1>9. /\ sends' \in Seq(Send) /\ timers' \in Seq(Timer)
      /\ SendsApart' /\ TimersOK'
      /\ \A n \in DOMAIN sends' : SendOK(n)' /\ FromHandlerOK(n)'
      /\ \A c \in DOMAIN contexts' : ContextOK(c)'
  <2>1. s.from \in 0..Len(contexts) /\ s.object \in DOMAIN objects' /\ objects'[s.object].type = s.type
    BY <1>2, <1>3, <1>8
  <2>2. /\ contexts' \in Seq(Context) /\ DOMAIN contexts' = DOMAIN contexts
        /\ \A c \in DOMAIN contexts :
              /\ contexts'[c].object = contexts[c].object
              /\ contexts'[c].send = contexts[c].send
              /\ contexts'[c].subscriber = contexts[c].subscriber
              /\ contexts'[c].transport = contexts[c].transport
    BY DEF SameContexts
  <2>3. /\ s.object \notin DOMAIN objects
        /\ objects'[s.object].conversation = 0 /\ objects'[s.object].correlation = 0
        /\ objects'[s.object].sentBy = Unidentified
        /\ objects'[s.object].receivedBy = Unidentified
        /\ objects'[s.object].intent = "reply" => s.from # 0
        /\ objects'[s.object].intent # "reply" => s.type \in Type
    BY <1>2, <1>3, <1>8
  <2>4. transports' = transports /\ DOMAIN objects \subseteq DOMAIN objects'
    BY <1>2
  <2>5. QED
    BY <1>2, <1>7, <1>8, <2>1, <2>2, <2>3, <2>4, SentKeeps
<1>10. /\ DOMAIN sends' = DOMAIN sends \cup {Len(sends) + 1}
       /\ \A n \in DOMAIN sends : sends'[n] = sends[n]
       /\ sends'[Len(sends) + 1] = s
  BY <1>1, <1>7, <1>8, SendAdded
<1>11. TypeOK'
  BY <1>1, <1>2, <1>9 DEF TypeOK, SameContexts
<1>12. Configured'
  <2>1. sends' # <<>>
    BY <1>10
  <2>2. QED
    BY <2>1 DEF PipelinesInv, Configured
<1>13. RoutesKept'
  <2>1. RoutesKept
    BY DEF PipelinesInv
  <2>2. \A n \in DOMAIN sends' :
           \/ n \in DOMAIN sends /\ sends'[n] = sends[n]
           \/ sends'[n].transport = getTransport(sends'[n].type)
    BY <1>8, <1>10 DEF t
  <2>3. \A x \in DOMAIN objects' : objects'[x].intent = "sendReply" =>
           x \in DOMAIN objects /\ objects'[x] = objects[x]
    BY <1>2, <1>3
  <2>4. QED
    BY <1>1, <1>10, <2>1, <2>2, <2>3, RoutesStay
<1>14. QED
  BY <1>2, <1>3, <1>8, <1>9, <1>10, <1>11, <1>12, <1>13 DEF t

LEMMA HandlerFacts ==
    ASSUME PipelinesInv, NEW c \in DOMAIN contexts
    PROVE  /\ c \in Nat /\ c # 0 /\ c \in 0..Len(contexts) /\ sends # <<>> /\ contexts[c] \in Context
           /\ contexts[c].send \in DOMAIN sends /\ contexts[c].object \in DOMAIN objects
           /\ contexts[c].transport \in DOMAIN transports
           /\ contexts[c].transport \in Nat /\ contexts[c].transport # 0
           /\ objects[contexts[c].object].type = sends[contexts[c].send].type
           /\ sends[contexts[c].send].type \in Type
<1>1. /\ contexts \in Seq(Context) /\ DOMAIN contexts = 1..Len(contexts) /\ Len(contexts) \in Nat
      /\ sends # <<>> <=> DOMAIN sends # {}
  BY OldMessages
<1>2. ContextOK(c)
  BY DEF PipelinesInv
<1>3. transports \in Seq([Stages -> Seq(Tasks)])
  BY DEF PipelinesInv, TypeOK
<1>4. DOMAIN transports = 1..Len(transports) /\ Len(transports) \in Nat
  BY <1>3, LenProperties
<1>5. contexts[c].transport \in DOMAIN transports
  BY <1>2 DEF ContextOK
<1>6. contexts[c] \in Context
  BY <1>1, Typed
<1>7. QED
  BY <1>1, <1>2, <1>4, <1>5, <1>6 DEF ContextOK

LEMMA ReplyFromKeeps ==
    ASSUME PipelinesInv, NEW c \in DOMAIN contexts, ReplyFrom(c)
    PROVE  PipelinesInv'
<1> DEFINE m == objects[contexts[c].object]
           r == ReplyType[m.type]
           k == contexts[c].send
           new == Len(sends) + 1
<1>1. /\ m.intent = "sendReply"
      /\ objects' = Append(objects, NewObject(r, "reply", 0, m.id))
      /\ sends' = Append(sends, [object |-> Len(objects) + 1, from |-> c,
                                 transport |-> getTransport(r), type |-> r])
      /\ timers' = Append(timers, [stage |-> "outbound", send |-> Len(sends) + 1])
      /\ UNCHANGED <<transports, default, started, routes, contexts, cancelled, guids>>
  BY DEF ReplyFrom, PutInPipeline, configuration
<1>2. /\ c \in Nat /\ c # 0 /\ c \in 0..Len(contexts) /\ sends # <<>>
      /\ k \in DOMAIN sends /\ contexts[c].object \in DOMAIN objects
      /\ m.type = sends[k].type /\ m.type \in Type
  BY HandlerFacts
<1>3. m \in Object /\ contexts \in Seq(Context)
  BY <1>2, OldMessages
<1>4. m.id \in Nat /\ r \in Type \cup Replies
  BY <1>2, <1>3 DEF Object, Replies
<1>5. timers \in Seq(Timer) /\ Apart(timers) /\ TimersOf(timers)
  BY AllTimers
<1>6. SameContexts
  BY <1>1, <1>3 DEF SameContexts
<1> HIDE DEF m, r, k
<1>7. /\ TypeOK' /\ Configured' /\ RoutesKept' /\ SendsApart' /\ TimersOK'
      /\ \A n \in DOMAIN sends' : SendOK(n)' /\ FromHandlerOK(n)'
      /\ \A d \in DOMAIN contexts' : ContextOK(d)'
      /\ DOMAIN sends' = DOMAIN sends \cup {new}
      /\ \A n \in DOMAIN sends : sends'[n] = sends[n]
      /\ sends'[new].from = c /\ sends'[new].transport = getTransport(r)
      /\ \A o \in DOMAIN objects : objects'[o] = objects[o]
  <2>1. UNCHANGED <<transports, default, started, routes, guids>>
    BY <1>1
  <2>2. "reply" \in {"publish", "reply"} /\ ("reply" = "reply" => c # 0)
        /\ ("reply" # "reply" => r \in Type)
    BY <1>2
  <2>3. TypeOK' /\ Configured' /\ RoutesKept' /\ SendsApart' /\ TimersOK'
    BY <1>1, <1>2, <1>4, <1>5, <1>6, <2>1, <2>2, AnswerSent
  <2>4. \A n \in DOMAIN sends' : SendOK(n)' /\ FromHandlerOK(n)'
    BY <1>1, <1>2, <1>4, <1>5, <1>6, <2>1, <2>2, AnswerSent
  <2>5. \A d \in DOMAIN contexts' : ContextOK(d)'
    BY <1>1, <1>2, <1>4, <1>5, <1>6, <2>1, <2>2, AnswerSent
  <2>6. DOMAIN sends' = DOMAIN sends \cup {new} /\ \A n \in DOMAIN sends : sends'[n] = sends[n]
    BY <1>1, <1>2, <1>4, <1>5, <1>6, <2>1, <2>2, AnswerSent
  <2>7. /\ sends'[new].from = c /\ sends'[new].transport = getTransport(r)
        /\ \A o \in DOMAIN objects : objects'[o] = objects[o]
    BY <1>1, <1>2, <1>4, <1>5, <1>6, <2>1, <2>2, AnswerSent
  <2>8. QED
    BY <2>3, <2>4, <2>5, <2>6, <2>7
<1> HIDE DEF new
<1>8. DefaultReportsFailures'
  BY <1>1, <1>7, ReportsStay DEF PipelinesInv
<1>9. ReplyTakesTransportOfRequest'
  <2> SUFFICES ASSUME NEW n \in DOMAIN sends', objects'[sends'[n].object].intent = "reply",
                      sends'[contexts[sends'[n].from].send].type \notin Replies,
                      ReplyType[sends'[contexts[sends'[n].from].send].type] \notin OwnRoutes
               PROVE  sends'[n].transport = sends'[contexts[sends'[n].from].send].transport
    BY <1>1 DEF ReplyTakesTransportOfRequest
  <2>1. CASE n = new
    <3>1. sends'[contexts[sends'[n].from].send] = sends[k]
      BY <1>2, <1>7, <2>1 DEF k
    <3>2. sends[k].type = m.type /\ Plain(m.type)
      BY <1>2, <3>1 DEF Plain
    <3>3. routes[r] = routes[m.type] /\ sends[k].transport = getTransport(m.type)
      BY <1>1, <1>2, <3>2 DEF PipelinesInv, RoutesKept, m, r
    <3>4. QED
      BY <1>7, <2>1, <3>1, <3>3 DEF getTransport
  <2>2. CASE n \in DOMAIN sends
    <3>1. sends'[n] = sends[n] /\ sends[n].object \in DOMAIN objects
      BY <1>7, <2>2, OldMessages
    <3>2. objects[sends[n].object].intent = "reply"
      BY <1>7, <3>1
    <3>3. SendOK(n)
      BY <2>2 DEF PipelinesInv
    <3>4. sends[n].from \in DOMAIN contexts
      BY <3>2, <3>3, OldMessages DEF SendOK
    <3>5. contexts[sends[n].from].send \in DOMAIN sends
      BY <3>4, HandlerFacts
    <3>6. sends'[contexts[sends[n].from].send] = sends[contexts[sends[n].from].send]
      BY <1>7, <3>5
    <3>7. QED
      BY <2>2, <3>1, <3>2, <3>6 DEF PipelinesInv, ReplyTakesTransportOfRequest
  <2>3. QED
    BY <1>7, <2>1, <2>2
<1>10. QED
  BY <1>7, <1>8, <1>9 DEF PipelinesInv
(* Only the record of one handler changes. *)
LEMMA HandlerFailed ==
    ASSUME PipelinesInv, NEW c \in DOMAIN contexts, contexts' = [contexts EXCEPT ![c].status = "failed"]
    PROVE  SameContexts /\ \A d \in DOMAIN contexts : d # c => contexts'[d] = contexts[d]
<1> DEFINE C2 == [contexts[c] EXCEPT !.status = "failed"]
<1>1. contexts \in Seq(Context) /\ DOMAIN contexts = 1..Len(contexts) /\ contexts[c] \in Context
  BY OldMessages, HandlerFacts
<1>2. C2 \in Context /\ C2.object = contexts[c].object /\ C2.send = contexts[c].send
      /\ C2.subscriber = contexts[c].subscriber /\ C2.transport = contexts[c].transport
  BY <1>1 DEF Context
<1>3. contexts' = [contexts EXCEPT ![c] = C2]
  OBVIOUS
<1> HIDE DEF C2
<1>4. /\ contexts' \in Seq(Context) /\ Len(contexts') = Len(contexts)
      /\ \A d \in 1..Len(contexts) : contexts'[d] = IF d = c THEN C2 ELSE contexts[d]
  BY <1>1, <1>2, <1>3, ExceptSeq
<1>5. DOMAIN contexts' = DOMAIN contexts
  BY <1>1, <1>4, LenProperties
<1>6. QED
  BY <1>1, <1>2, <1>4, <1>5 DEF SameContexts

LEMMA DefaultCatches ==
    ASSUME PipelinesInv, default # 0
    PROVE  "exception" \in ToSet(Inbound(default))
<1> DEFINE a == transports[default]["inTransport"]
           b == transports[default]["inLogical"]
           d == transports[default]["inInvoke"]
<1>1. default \in DOMAIN transports /\ "exception" \in ToSet(b)
  BY DEF PipelinesInv, Configured
<1>2. transports[default] \in [Stages -> Seq(Tasks)]
  BY <1>1, Typed DEF PipelinesInv, TypeOK
<1>3. a \in Seq(Tasks) /\ b \in Seq(Tasks) /\ d \in Seq(Tasks)
  BY <1>2 DEF Stages
<1>4. PICK k \in DOMAIN b : b[k] = "exception"
  BY <1>1 DEF ToSet
<1> HIDE DEF a, b, d
<1>5. a \o b \in Seq(Tasks) /\ Len(a \o b) = Len(a) + Len(b) /\ Len(a) \in Nat /\ Len(b) \in Nat
      /\ \A i \in 1..(Len(a) + Len(b)) : (a \o b)[i] = IF i <= Len(a) THEN a[i] ELSE b[i - Len(a)]
  BY <1>3, ConcatProperties, LenProperties
<1>6. (a \o b) \o d \in Seq(Tasks) /\ Len((a \o b) \o d) = Len(a \o b) + Len(d) /\ Len(d) \in Nat
      /\ \A i \in 1..(Len(a \o b) + Len(d)) :
            ((a \o b) \o d)[i] = IF i <= Len(a \o b) THEN (a \o b)[i] ELSE d[i - Len(a \o b)]
  BY <1>3, <1>5, ConcatProperties, LenProperties
<1>7. DOMAIN ((a \o b) \o d) = 1..Len((a \o b) \o d)
  BY <1>6, LenProperties
<1>8. k \in 1..Len(b)
  BY <1>3, <1>4, LenProperties
<1> DEFINE j == Len(a) + k
<1>9. j \in 1..Len(a \o b) /\ j \in DOMAIN ((a \o b) \o d)
  BY <1>5, <1>6, <1>7, <1>8
<1>10. ((a \o b) \o d)[j] = b[k]
  <2>1. ((a \o b) \o d)[j] = (a \o b)[j]
    BY <1>5, <1>6, <1>8, <1>9
  <2>2. (a \o b)[j] = b[j - Len(a)] /\ j - Len(a) = k
    BY <1>5, <1>8
  <2>3. QED
    BY <2>1, <2>2
<1>11. Inbound(default) = (a \o b) \o d
  BY DEF Inbound, a, b, d
<1>12. QED
  BY <1>4, <1>9, <1>10, <1>11 DEF ToSet

LEMMA FailKeeps ==
    ASSUME PipelinesInv, NEW c \in DOMAIN contexts, Fail(c)
    PROVE  PipelinesInv'
<1> DEFINE t == contexts[c].transport
<1>1. /\ contexts' = [contexts EXCEPT ![c].status = "failed"]
      /\ UNCHANGED <<transports, default, started, routes, cancelled, guids>>
  BY DEF Fail, configuration
<1>2. SameContexts /\ \A d \in DOMAIN contexts : d # c => contexts'[d] = contexts[d]
  BY <1>1, HandlerFailed
<1>3. c \in 0..Len(contexts) /\ c # 0 /\ sends # <<>> /\ t # 0 /\ t \in Nat
  BY HandlerFacts
<1>4. timers \in Seq(Timer) /\ Apart(timers) /\ TimersOf(timers)
  BY AllTimers
<1>5. CASE "exception" \in ToSet(Inbound(t)) /\ c \notin cancelled
  <2> DEFINE new == Len(sends) + 1
  <2>1. /\ objects' = Append(objects, NewObject(BusError, "publish", 0, 0))
        /\ sends' = Append(sends, [object |-> Len(objects) + 1, from |-> c,
                                   transport |-> getTransport(BusError), type |-> BusError])
        /\ timers' = Append(timers, [stage |-> "outbound", send |-> Len(sends) + 1])
    BY <1>5 DEF Fail, PutInPipeline
  <2>2. "publish" \in {"publish", "reply"} /\ ("publish" = "reply" => c # 0)
        /\ ("publish" # "reply" => BusError \in Type)
    BY PipelinesAssumption
  <2>3. BusError \in Type \cup Replies /\ 0 \in Nat
    BY PipelinesAssumption
  <2>4. TypeOK' /\ Configured' /\ RoutesKept' /\ SendsApart' /\ TimersOK'
    BY <1>1, <1>2, <1>3, <1>4, <2>1, <2>2, <2>3, AnswerSent
  <2>5. \A n \in DOMAIN sends' : SendOK(n)' /\ FromHandlerOK(n)'
    BY <1>1, <1>2, <1>3, <1>4, <2>1, <2>2, <2>3, AnswerSent
  <2>6. \A d \in DOMAIN contexts' : ContextOK(d)'
    BY <1>1, <1>2, <1>3, <1>4, <2>1, <2>2, <2>3, AnswerSent
  <2>7. DOMAIN sends' = DOMAIN sends \cup {new} /\ \A n \in DOMAIN sends : sends'[n] = sends[n]
    BY <1>1, <1>2, <1>3, <1>4, <2>1, <2>2, <2>3, AnswerSent
  <2>8. /\ sends'[new].from = c /\ sends'[new].type = BusError
        /\ objects'[sends'[new].object].intent = "publish"
        /\ \A o \in DOMAIN objects : objects'[o] = objects[o]
    BY <1>1, <1>2, <1>3, <1>4, <2>1, <2>2, <2>3, AnswerSent
  <2> HIDE DEF new
  <2>9. ReplyTakesTransportOfRequest'
    <3>1. \A n \in DOMAIN sends : sends[n].object \in DOMAIN objects
      BY OldMessages
    <3>2. \A d \in DOMAIN contexts : contexts'[d].send = contexts[d].send
      BY <1>2 DEF SameContexts
    <3>3. QED
      BY <2>7, <2>8, <3>1, <3>2, RepliesStay
  <2>10. DefaultReportsFailures'
    <3> SUFFICES ASSUME NEW d \in DOMAIN contexts \ cancelled, contexts'[d].status = "failed",
                        contexts'[d].transport = default
                 PROVE  \E n \in DOMAIN sends' : sends'[n].from = d /\ sends'[n].type = BusError
      BY <1>1, <1>2 DEF DefaultReportsFailures, SameContexts
    <3>1. CASE d = c
      BY <2>7, <2>8, <3>1
    <3>2. CASE d # c
      BY <1>2, <2>7, <3>2 DEF PipelinesInv, DefaultReportsFailures
    <3>3. QED
      BY <3>1, <3>2
  <2>11. QED
    BY <2>4, <2>5, <2>6, <2>9, <2>10 DEF PipelinesInv
<1>6. CASE "exception" \notin ToSet(Inbound(t)) \/ c \in cancelled
  <2>1. UNCHANGED <<objects, sends, timers>>
    BY <1>6 DEF Fail
  <2>2. t # default \/ c \in cancelled
    BY <1>3, <1>6, DefaultCatches
  <2>3. Len(contexts') = Len(contexts) /\ contexts' \in Seq(Context) /\ DOMAIN contexts' = DOMAIN contexts
    BY <1>2, OldMessages, LenProperties DEF SameContexts
  <2>4. \A d \in DOMAIN contexts : ContextOK(d)'
    <3> SUFFICES ASSUME NEW d \in DOMAIN contexts PROVE ContextOK(d)'
      OBVIOUS
    <3>1. ContextOK(d)
      BY DEF PipelinesInv
    <3>2. /\ contexts'[d].object = contexts[d].object /\ contexts'[d].send = contexts[d].send
          /\ contexts'[d].subscriber = contexts[d].subscriber
          /\ contexts'[d].transport = contexts[d].transport
      BY <1>2 DEF SameContexts
    <3>3. /\ contexts[d].send \in DOMAIN sends /\ contexts[d].object \in DOMAIN objects
          /\ \A k \in DOMAIN timers : timers[k].send # contexts[d].send
      BY <3>1 DEF ContextOK
    <3>4. transports' = transports
      BY <1>1
    <3>5. \A o : Single(o)' => Single(o)
      BY <2>1 DEF Single
    <3>6. QED
      BY <2>1, <3>1, <3>2, <3>3, <3>4, <3>5, ContextStays, ZenonT(60)
  <2>5. \A n \in DOMAIN sends : SendOK(n)' /\ FromHandlerOK(n)'
    <3> SUFFICES ASSUME NEW n \in DOMAIN sends PROVE SendOK(n)' /\ FromHandlerOK(n)'
      OBVIOUS
    <3>1. SendOK(n) /\ FromHandlerOK(n)
      BY DEF PipelinesInv
    <3>2. sends[n].from # 0 => sends[n].from \in DOMAIN contexts
      BY <3>1, OldMessages DEF SendOK
    <3>3. SendOK(n)'
      BY <1>2, <2>1, <2>3, <3>1, <3>2 DEF SendOK, SameContexts
    <3>4. FromHandlerOK(n)'
      BY <1>2, <2>1, <3>1, <3>2 DEF FromHandlerOK, SameContexts, Single
    <3>5. QED
      BY <3>3, <3>4
  <2>6. DefaultReportsFailures'
    <3> SUFFICES ASSUME NEW d \in DOMAIN contexts \ cancelled, contexts'[d].status = "failed",
                        contexts'[d].transport = default
                 PROVE  \E n \in DOMAIN sends : sends[n].from = d /\ sends[n].type = BusError
      BY <1>1, <1>2, <2>1 DEF DefaultReportsFailures, SameContexts
    <3>1. d # c
      BY <1>2, <2>2 DEF SameContexts
    <3>2. QED
      BY <1>2, <3>1 DEF PipelinesInv, DefaultReportsFailures
  <2>7. ReplyTakesTransportOfRequest'
    <3>1. \A d \in DOMAIN contexts : contexts'[d].send = contexts[d].send
      BY <1>2 DEF SameContexts
    <3>2. QED
      BY <2>1, <3>1, RepliesStay
  <2>8. TypeOK' /\ Configured' /\ RoutesKept' /\ SendsApart' /\ TimersOK'
    <3>1. TypeOK'
      BY <1>1, <2>1, <2>3 DEF PipelinesInv, TypeOK
    <3>2. Configured'
      BY <1>1, <1>3, <2>1 DEF PipelinesInv, Configured
    <3>3. RoutesKept'
      BY <1>1, <2>1 DEF PipelinesInv, RoutesKept, getTransport, Plain
    <3>4. QED
      BY <2>1, <3>1, <3>2, <3>3 DEF PipelinesInv, SendsApart, TimersOK
  <2>9. QED
    BY <2>1, <2>3, <2>4, <2>5, <2>6, <2>7, <2>8 DEF PipelinesInv
<1>7. QED
  BY <1>5, <1>6
-----------------------------------------------------------------------------
(* The invariant holds after a message went through a pipeline *)

(* The first timer has run; the one that may follow it is for the same     *)
(* message, on its way in.                                                 *)
LEMMA TimerRan ==
    ASSUME PipelinesInv, timers # <<>>,
           timers' = Tail(timers) \/ timers' = Append(Tail(timers), [Head(timers) EXCEPT !.stage = "inbound"])
    PROVE  /\ timers' \in Seq(Timer) /\ Apart(timers')
           /\ \A k \in DOMAIN timers' : \E j \in DOMAIN timers : timers'[k].send = timers[j].send
           /\ \A k \in DOMAIN timers' : timers'[k].stage = "outbound" =>
                 timers'[k].send # Head(timers).send /\ \E j \in DOMAIN timers : timers'[k] = timers[j]
<1> DEFINE q == Tail(timers)
           x == [Head(timers) EXCEPT !.stage = "inbound"]
<1>1. /\ Head(timers) \in Timer /\ 1 \in DOMAIN timers /\ Head(timers) = timers[1]
      /\ q \in Seq(Timer) /\ Apart(q) /\ TimersOf(q)
      /\ \A k \in DOMAIN q : q[k].send # Head(timers).send
  BY OtherTimers
<1>2. x \in Timer /\ x.send = Head(timers).send /\ x.stage = "inbound"
  BY <1>1 DEF Timer
<1>3. \A k \in DOMAIN q : \E j \in DOMAIN timers : q[k] = timers[j]
  BY <1>1 DEF TimersOf
<1> HIDE DEF q, x
<1>4. CASE timers' = q
  BY <1>1, <1>3, <1>4
<1>5. CASE timers' = Append(q, x)
  <2>1. \A k \in DOMAIN q : q[k].send # x.send
    BY <1>1, <1>2
  <2>2. /\ Append(q, x) \in Seq(Timer) /\ Apart(Append(q, x))
        /\ \A k \in DOMAIN Append(q, x) :
              (\E j \in DOMAIN q : Append(q, x)[k] = q[j]) \/ Append(q, x)[k] = x
    BY <1>1, <1>2, <2>1, TimerAdded
  <2>3. /\ timers' \in Seq(Timer) /\ Apart(timers')
        /\ \A k \in DOMAIN timers' : (\E j \in DOMAIN q : timers'[k] = q[j]) \/ timers'[k] = x
    BY <1>5, <2>2
  <2>4. \A k \in DOMAIN timers' : timers'[k].stage = "outbound" => \E j \in DOMAIN q : timers'[k] = q[j]
    BY <1>2, <2>3
  <2>5. QED
    BY <1>1, <1>2, <1>3, <2>3, <2>4
<1>6. QED
  BY <1>4, <1>5 DEF q, x

LEMMA RunOutboundKeeps == ASSUME PipelinesInv, RunOutbound PROVE PipelinesInv'
<1>1. PICK h : h = Head(timers).send
  OBVIOUS
<1>2. PICK b : b = sends[h].object
  OBVIOUS
<1> DEFINE from   == sends[h].from
           parent == Parent(from)
           next   == guids + 1
           M2     == Traced(objects[b], parent, next)
<1>3. /\ timers # <<>> /\ Head(timers).stage = "outbound"
      /\ UNCHANGED <<transports, default, started, routes, sends, contexts, cancelled>>
      /\ \/ objects' = [objects EXCEPT ![b] = M2] /\ guids' = guids + 2
         \/ UNCHANGED <<objects, guids>>
  BY <1>1, <1>2 DEF RunOutbound, configuration
<1>4. timers' = Tail(timers) \/ timers' = Append(Tail(timers), [Head(timers) EXCEPT !.stage = "inbound"])
  <2>1. Tail(timers) \in Seq(Timer) /\ Head(timers) \in Timer
    BY <1>3, OtherTimers
  <2>2. [Head(timers) EXCEPT !.stage = "inbound"] \in Timer
    BY <2>1 DEF Timer
  <2>3. /\ Tail(timers) \o <<>> = Tail(timers)
        /\ Tail(timers) \o <<[Head(timers) EXCEPT !.stage = "inbound"]>> =
               Append(Tail(timers), [Head(timers) EXCEPT !.stage = "inbound"])
    BY <2>1, <2>2, ConcatEmptySeq, AppendIsConcat
  <2>4. QED
    BY <2>3 DEF RunOutbound
<1>5. /\ timers' \in Seq(Timer) /\ Apart(timers')
      /\ \A k \in DOMAIN timers' : \E j \in DOMAIN timers : timers'[k].send = timers[j].send
      /\ \A k \in DOMAIN timers' : timers'[k].stage = "outbound" =>
            timers'[k].send # h /\ \E j \in DOMAIN timers : timers'[k] = timers[j]
  BY <1>1, <1>3, <1>4, TimerRan
<1>6. h \in DOMAIN sends /\ 1 \in DOMAIN timers /\ timers[1].send = h /\ timers[1].stage = "outbound"
  BY <1>1, <1>3, OtherTimers
<1>7. /\ \A n \in DOMAIN sends : sends[n].object \in DOMAIN objects
      /\ objects \in Seq(Object) /\ \A o \in DOMAIN objects : objects[o] \in Object
      /\ contexts \in Seq(Context) /\ DOMAIN contexts = 1..Len(contexts) /\ Len(contexts) \in Nat
  BY OldMessages
<1>8. b \in DOMAIN objects /\ objects[b] \in Object /\ SendOK(h) /\ FromHandlerOK(h)
  BY <1>2, <1>6, <1>7 DEF PipelinesInv
<1>9. /\ from = 0 => parent = 0
      /\ from # 0 => /\ from \in DOMAIN contexts /\ parent = contexts[from].object
                     /\ parent \in DOMAIN objects /\ parent # 0 /\ ContextOK(from)
  <2>1. from # 0 => from \in DOMAIN contexts
    BY <1>7, <1>8 DEF SendOK
  <2>2. from # 0 => contexts[from].object \in DOMAIN objects /\ ContextOK(from)
    BY <2>1, HandlerFacts DEF PipelinesInv
  <2>3. 0 \notin DOMAIN objects
    BY <1>7, LenProperties
  <2>4. QED
    BY <2>1, <2>2, <2>3 DEF Parent
<1>10. guids \in Nat /\ next \in Nat /\ next + 1 \in Nat /\ guids + 2 \in Nat
  BY DEF PipelinesInv, TypeOK
<1>11. parent # 0 => objects[parent] \in Object
  BY <1>7, <1>9
<1> HIDE DEF parent, next
<1>12. /\ M2 \in Object
       /\ M2.type = objects[b].type /\ M2.intent = objects[b].intent /\ M2.receivedBy = objects[b].receivedBy
       /\ M2.sentBy = IF objects[b].sentBy # Unidentified \/ parent = 0 THEN objects[b].sentBy
                      ELSE objects[parent].receivedBy
       /\ parent # 0 => M2.conversation = objects[parent].conversation
       /\ parent # 0 /\ objects[b].correlation = 0 => M2.correlation = objects[parent].id
  BY <1>8, <1>10, <1>11 DEF Traced, Object
<1> HIDE DEF M2
<1>13. /\ objects' \in Seq(Object) /\ DOMAIN objects' = DOMAIN objects /\ guids' \in Nat
       /\ \A o \in DOMAIN objects : o # b => objects'[o] = objects[o]
       /\ objects'[b] = objects[b] \/ objects'[b] = M2
  <2>1. CASE objects' = [objects EXCEPT ![b] = M2] /\ guids' = guids + 2
    <3>1. /\ objects' \in Seq(Object) /\ Len(objects') = Len(objects)
          /\ \A o \in 1..Len(objects) : objects'[o] = IF o = b THEN M2 ELSE objects[o]
      BY <1>7, <1>8, <1>12, <2>1, ExceptSeq, LenProperties
    <3>2. DOMAIN objects' = DOMAIN objects /\ DOMAIN objects = 1..Len(objects)
      BY <1>7, <3>1, LenProperties
    <3>3. QED
      BY <1>8, <1>10, <2>1, <3>1, <3>2
  <2>2. CASE UNCHANGED <<objects, guids>>
    BY <1>7, <1>10, <2>2
  <2>3. QED
    BY <1>3, <2>1, <2>2
<1>14. \A o \in DOMAIN objects : /\ objects'[o].type = objects[o].type
                                 /\ objects'[o].intent = objects[o].intent
                                 /\ objects'[o].receivedBy = objects[o].receivedBy
  BY <1>12, <1>13
<1>15. \A n \in DOMAIN sends : sends[n].object = b /\ sends[n].from # 0 => n = h
  BY <1>2, <1>6 DEF PipelinesInv, SendsApart
<1>16. \A c \in DOMAIN contexts : Single(b) => sends[contexts[c].send].object # b
  <2> SUFFICES ASSUME NEW c \in DOMAIN contexts, Single(b), sends[contexts[c].send].object = b PROVE FALSE
    OBVIOUS
  <2>1. contexts[c].send = h
    BY <1>2, <1>6, HandlerFacts DEF Single
  <2>2. timers[1].send # contexts[c].send
    BY <1>6 DEF PipelinesInv, ContextOK
  <2>3. QED
    BY <1>6, <2>1, <2>2
<1>17. \A o : Single(o)' = Single(o)
  BY <1>3 DEF Single
<1>18. TypeOK'
  BY <1>3, <1>5, <1>13 DEF PipelinesInv, TypeOK
<1>19. Configured'
  BY <1>3, <1>6 DEF PipelinesInv, Configured
<1>20. RoutesKept'
  <2>1. TypeOK /\ RoutesKept /\ routes' = routes /\ DOMAIN sends' # {}
    BY <1>3, <1>6 DEF PipelinesInv
  <2>2. \A n \in DOMAIN sends' :
           \/ n \in DOMAIN sends /\ sends'[n] = sends[n]
           \/ sends'[n].transport = getTransport(sends'[n].type)
    BY <1>3
  <2>3. \A o \in DOMAIN objects' : objects'[o].intent = "sendReply" =>
               \E p \in DOMAIN objects : /\ objects[p].intent = "sendReply"
                                        /\ objects[p].type = objects'[o].type
    BY <1>13, <1>14
  <2>4. QED
    BY <2>1, <2>2, <2>3, RoutesStay
<1>21. SendsApart' /\ ReplyTakesTransportOfRequest' /\ DefaultReportsFailures'
  <2>1. SendsApart'
    BY <1>3 DEF PipelinesInv, SendsApart
  <2>2. ReplyTakesTransportOfRequest'
    BY <1>3, <1>7, <1>14, RepliesStay
  <2>3. DefaultReportsFailures'
    BY <1>3 DEF PipelinesInv, DefaultReportsFailures
  <2>4. QED
    BY <2>1, <2>2, <2>3
<1>22. TimersOK'
  <2>1. \A k \in DOMAIN timers' : timers'[k].send \in DOMAIN sends
    BY <1>5 DEF PipelinesInv, TimersOK
  <2>2. ASSUME NEW k \in DOMAIN timers', timers'[k].stage = "outbound", sends[timers'[k].send].from # 0
        PROVE  /\ objects'[sends[timers'[k].send].object].conversation = 0
               /\ objects'[sends[timers'[k].send].object].correlation = 0
    <3>1. PICK j \in DOMAIN timers : timers'[k] = timers[j]
      BY <1>5, <2>2
    <3>2. timers[j].send # h /\ timers[j].send \in DOMAIN sends /\ sends[timers[j].send].from # 0
      BY <1>5, <2>1, <2>2, <3>1
    <3>3. /\ objects[sends[timers[j].send].object].conversation = 0
          /\ objects[sends[timers[j].send].object].correlation = 0
      BY <2>2, <3>1 DEF PipelinesInv, TimersOK
    <3>4. sends[timers[j].send].object # b
      BY <1>15, <3>2
    <3>5. QED
      BY <1>7, <1>13, <3>1, <3>2, <3>3, <3>4
  <2>3. QED
    BY <1>3, <1>5, <2>1, <2>2 DEF TimersOK, Apart
<1>23. ASSUME NEW n \in DOMAIN sends PROVE SendOK(n)'
  <2>1. SendOK(n)
    BY DEF PipelinesInv
  <2>2. QED
    BY <1>3, <1>7, <1>13, <1>14, <2>1 DEF SendOK
<1>24. ASSUME NEW n \in DOMAIN sends PROVE FromHandlerOK(n)'
  <2> DEFINE c == sends[n].from
             o == sends[contexts[c].send].object
             names == Names(Subscribers[sends[contexts[c].send].type], contexts[c].subscriber)
  <2>1. FromHandlerOK(n) /\ SendOK(n)
    BY DEF PipelinesInv
  <2>2. CASE c = 0
    BY <1>3, <2>2 DEF FromHandlerOK
  <2>3. CASE c # 0
    <3>1. c \in DOMAIN contexts /\ contexts[c].send < n /\ contexts[c].send \in DOMAIN sends
      BY <1>7, <2>1, <2>3, HandlerFacts DEF SendOK
    <3>2. Single(o) => o # b /\ objects'[o] = objects[o]
      BY <1>7, <1>13, <1>16, <3>1
    <3>3. CASE n = h
      <4>1. objects[b].conversation = 0 /\ objects[b].correlation = 0
        BY <1>2, <1>6, <2>3, <3>3 DEF PipelinesInv, TimersOK
      <4>2. /\ parent # 0 /\ parent = contexts[c].object
            /\ objects[parent].receivedBy \in names
            /\ Single(o) => /\ objects[parent].conversation = objects[o].conversation
                            /\ objects[parent].id = objects[o].id
        BY <1>9, <2>3, <3>3 DEF ContextOK
      <4>3. objects[b].sentBy \in names
        BY <1>2, <2>1, <2>3, <3>3 DEF FromHandlerOK
      <4>4. objects'[b].sentBy \in names
        BY <1>12, <1>13, <4>2, <4>3
      <4>5. (objects'[b].conversation # 0 /\ Single(o)) =>
               objects'[b].conversation = objects[o].conversation /\ objects'[b].correlation = objects[o].id
        BY <1>12, <1>13, <4>1, <4>2
      <4>6. QED
        BY <1>2, <1>3, <1>17, <3>2, <3>3, <4>4, <4>5 DEF FromHandlerOK
    <3>4. CASE n # h
      <4>1. objects'[sends[n].object] = objects[sends[n].object]
        BY <1>7, <1>13, <1>15, <2>3, <3>4
      <4>2. QED
        BY <1>3, <1>17, <2>1, <3>2, <4>1 DEF FromHandlerOK
    <3>5. QED
      BY <3>3, <3>4
  <2>4. QED
    BY <2>2, <2>3
<1>25. ASSUME NEW c \in DOMAIN contexts PROVE ContextOK(c)'
  <2> DEFINE r == contexts[c].send
             p == contexts[c].object
             o == sends[r].object
  <2>1. ContextOK(c)
    BY DEF PipelinesInv
  <2>2. r \in DOMAIN sends /\ p \in DOMAIN objects /\ o \in DOMAIN objects
    BY <1>7, HandlerFacts
  <2>3. \A k \in DOMAIN timers' : timers'[k].send # r
    BY <1>5, <2>1 DEF ContextOK
  <2>4. Single(o) => /\ objects'[p].conversation = objects'[o].conversation
                    /\ objects'[p].id = objects'[o].id
    <3>1. CASE Len(Subscribers[sends[r].type]) <= 1
      BY <2>1, <3>1 DEF ContextOK
    <3>2. CASE ~(Len(Subscribers[sends[r].type]) <= 1)
      <4>1. Len(Subscribers[sends[r].type]) > 1
        <5>1. Subscribers[sends[r].type] \in Seq(STRING)
          BY <2>1, PipelinesAssumption DEF ContextOK
        <5>2. QED
          BY <3>2, <5>1, LenProperties
      <4>2. p # b
        BY <1>2, <1>6, <2>1, <4>1 DEF ContextOK
      <4>3. Single(o) => o # b
        BY <1>16
      <4>4. QED
        BY <1>13, <2>1, <2>2, <4>2, <4>3 DEF ContextOK
    <3>3. QED
      BY <3>1, <3>2
  <2>5. QED
    BY <1>3, <1>13, <1>14, <1>17, <2>1, <2>2, <2>3, <2>4 DEF ContextOK
<1>26. QED
  BY <1>3, <1>18, <1>19, <1>20, <1>21, <1>22, <1>23, <1>24, <1>25 DEF PipelinesInv
(* A reply is handed to its request. *)
LEMMA ReplyReceivedKeeps ==
    ASSUME PipelinesInv, timers # <<>>, timers' = Tail(timers),
           UNCHANGED <<transports, default, started, routes, objects, contexts, cancelled, sends, guids>>
    PROVE  PipelinesInv'
<1>1. /\ timers' \in Seq(Timer) /\ Apart(timers')
      /\ \A k \in DOMAIN timers' : \E j \in DOMAIN timers : timers'[k] = timers[j]
      /\ sends # <<>>
  BY OtherTimers DEF TimersOf
<1>2. TimersOK'
  BY <1>1 DEF PipelinesInv, TimersOK, Apart
<1>3. \A c \in DOMAIN contexts : ContextOK(c)'
  <2> SUFFICES ASSUME NEW c \in DOMAIN contexts PROVE ContextOK(c)'
    OBVIOUS
  <2>1. ContextOK(c)
    BY DEF PipelinesInv
  <2>2. \A k \in DOMAIN timers' : timers'[k].send # contexts[c].send
    BY <1>1, <2>1 DEF ContextOK
  <2>3. QED
    BY <2>1, <2>2 DEF ContextOK, Single
<1>4. \A n \in DOMAIN sends : SendOK(n)' /\ FromHandlerOK(n)'
  <2> SUFFICES ASSUME NEW n \in DOMAIN sends PROVE SendOK(n)' /\ FromHandlerOK(n)'
    OBVIOUS
  <2>1. SendOK(n) /\ FromHandlerOK(n)
    BY DEF PipelinesInv
  <2>2. SendOK(n)'
    BY <2>1 DEF SendOK
  <2>3. \A o : Single(o)' => Single(o)
    BY DEF Single
  <2>4. FromHandlerOK(n)'
    BY <2>1, <2>3, FromHandlerStays, ZenonT(60)
  <2>5. QED
    BY <2>2, <2>4
<1>5. TypeOK' /\ Configured'
  BY <1>1 DEF PipelinesInv, TypeOK, Configured
<1>6. RoutesKept'
  BY DEF PipelinesInv, RoutesKept, getTransport, Plain
<1>7. SendsApart' /\ ReplyTakesTransportOfRequest' /\ DefaultReportsFailures'
  BY DEF PipelinesInv, SendsApart, ReplyTakesTransportOfRequest, DefaultReportsFailures
<1>8. QED
  BY <1>2, <1>3, <1>4, <1>5, <1>6, <1>7 DEF PipelinesInv

(* A command without a single subscriber becomes an error. *)
LEMMA ErrorSentKeeps ==
    ASSUME PipelinesInv, timers # <<>>,
           objects' = Append(objects, NewObject(BusError, "publish", 0, 0)),
           sends' = Append(sends, [object |-> Len(objects) + 1, from |-> 0,
                                   transport |-> getTransport(BusError), type |-> BusError]),
           timers' = Append(Tail(timers), [stage |-> "outbound", send |-> Len(sends) + 1]),
           UNCHANGED <<transports, default, started, routes, contexts, cancelled, guids>>
    PROVE  PipelinesInv'
<1> DEFINE new == Len(sends) + 1
<1>1. Tail(timers) \in Seq(Timer) /\ Apart(Tail(timers)) /\ TimersOf(Tail(timers)) /\ sends # <<>>
  BY OtherTimers
<1>2. BusError \in Type \cup Replies /\ "publish" \in {"publish", "reply"} /\ 0 \in Nat
  BY PipelinesAssumption
<1>3. ("publish" = "reply" => 0 # 0) /\ ("publish" # "reply" => BusError \in Type)
  BY PipelinesAssumption
<1>4. 0 \in 0..Len(contexts)
  BY OldMessages
<1>5. UNCHANGED <<transports, default, started, routes, guids>>
  OBVIOUS
<1>6. SameContexts
  BY OldMessages DEF SameContexts
<1>7. TypeOK' /\ Configured' /\ RoutesKept' /\ SendsApart' /\ TimersOK'
  BY <1>1, <1>2, <1>3, <1>4, <1>5, <1>6, AnswerSent
<1>8. \A n \in DOMAIN sends' : SendOK(n)' /\ FromHandlerOK(n)'
  BY <1>1, <1>2, <1>3, <1>4, <1>5, <1>6, AnswerSent
<1>9. \A d \in DOMAIN contexts' : ContextOK(d)'
  BY <1>1, <1>2, <1>3, <1>4, <1>5, <1>6, AnswerSent
<1>10. DOMAIN sends' = DOMAIN sends \cup {new} /\ \A n \in DOMAIN sends : sends'[n] = sends[n]
  BY <1>1, <1>2, <1>3, <1>4, <1>5, <1>6, AnswerSent
<1>11. /\ objects'[sends'[new].object].intent = "publish"
       /\ \A o \in DOMAIN objects : objects'[o] = objects[o]
  BY <1>1, <1>2, <1>3, <1>4, <1>5, <1>6, AnswerSent
<1> HIDE DEF new
<1>12. ReplyTakesTransportOfRequest'
  <2>1. \A n \in DOMAIN sends : sends[n].object \in DOMAIN objects
    BY OldMessages
  <2>2. QED
    BY <1>10, <1>11, <2>1, RepliesStay
<1>13. DefaultReportsFailures'
  BY <1>10, ReportsStay DEF PipelinesInv
<1>14. QED
  BY <1>7, <1>8, <1>9, <1>12, <1>13 DEF PipelinesInv

Retagged(m, subs, k) == [m EXCEPT !.receivedBy = Tag(m, subs, k)]

LEMMA RetaggedFields ==
    ASSUME NEW m \in Object, NEW subs, NEW k
    PROVE  LET r == Retagged(m, subs, k) IN
           /\ r.type = m.type /\ r.intent = m.intent /\ r.id = m.id
           /\ r.conversation = m.conversation /\ r.correlation = m.correlation
           /\ r.sentBy = m.sentBy /\ r.receivedBy = Tag(m, subs, k)
           /\ Tag(m, subs, k) \in STRING => r \in Object
  BY DEF Retagged, Object

(* What HandTo does: the tag is written, copies and contexts are added. *)
HandedOver(n, o, m, subs) ==
    /\ m.type \in Type /\ m.type = sends[n].type /\ o \in DOMAIN objects
    /\ subs \in Seq(STRING) /\ Len(subs) \in Nat /\ DOMAIN subs = 1..Len(subs)
    /\ objects' \in Seq(Object) /\ contexts' \in Seq(Context)
    /\ DOMAIN objects \subseteq DOMAIN objects'
    /\ objects'[o] = Retagged(m, subs, Len(subs))
    /\ \A x \in DOMAIN objects : x # o => objects'[x] = objects[x]
    /\ \A x \in DOMAIN objects' \ DOMAIN objects : \E k \in DOMAIN subs :
          objects'[x] = Retagged(m, subs, k)
    /\ DOMAIN contexts \subseteq DOMAIN contexts'
    /\ \A c \in DOMAIN contexts : contexts'[c] = contexts[c]
    /\ \A c \in DOMAIN contexts' \ DOMAIN contexts :
          /\ contexts'[c].send = n /\ contexts'[c].subscriber \in DOMAIN subs
          /\ contexts'[c].transport = getTransport(m.type)
          /\ contexts'[c].status # "failed"
          /\ IF Len(subs) > 1
             THEN /\ contexts'[c].object \in DOMAIN objects' \ DOMAIN objects
                  /\ objects'[contexts'[c].object] = Retagged(m, subs, contexts'[c].subscriber)
             ELSE contexts'[c].object = o

LEMMA Handed ==
    ASSUME PipelinesInv, NEW n \in DOMAIN sends, NEW o, o = sends[n].object,
           NEW m, m = objects[o], m.intent # "reply",
           NEW subs, subs = Subscribers[m.type],
           HandTo(n, o, subs)
    PROVE  HandedOver(n, o, m, subs)
<1>0. PICK l, L, C : l = Len(subs) /\ L = Len(objects) /\ C = Len(contexts)
  OBVIOUS
<1> DEFINE t == getTransport(m.type)
           first  == [objects EXCEPT ![o] = Retagged(m, subs, l)]
           tagged == [k \in 1..l |-> Retagged(m, subs, k)]
           status == IF "stop" \in ToSet(Inbound(t)) THEN "stopped" ELSE "running"
           added  == [k \in 1..l |-> [object |-> IF l > 1 THEN L + k ELSE o, send |-> n, subscriber |-> k,
                                      transport |-> t, status |-> status]]
<1>1. /\ o \in DOMAIN objects /\ objects \in Seq(Object) /\ m \in Object
      /\ contexts \in Seq(Context) /\ sends # <<>> /\ SendOK(n) /\ sends \in Seq(Send)
  BY OldMessages DEF PipelinesInv
<1>2. m.type \in Type /\ m.type = sends[n].type /\ m.type \in Routable
  BY <1>1 DEF SendOK, Routable
<1>3. subs \in Seq(STRING) /\ l \in Nat /\ DOMAIN subs = 1..l
  BY <1>0, <1>2, PipelinesAssumption, LenProperties
<1>4. L \in Nat /\ DOMAIN objects = 1..L /\ n \in Nat /\ C \in Nat /\ DOMAIN contexts = 1..C
  BY <1>0, <1>1, LenProperties
<1>5. t \in Nat
  BY <1>1, <1>2, TransportFound
<1>6. m.receivedBy \in STRING
  BY <1>1 DEF Object
<1>7. \A k \in DOMAIN subs : Retagged(m, subs, k) \in Object
  <2> SUFFICES ASSUME NEW k \in DOMAIN subs PROVE Retagged(m, subs, k) \in Object
    OBVIOUS
  <2>1. Tag(m, subs, k) \in STRING
    BY <1>3, <1>6, TagTyped
  <2>2. QED
    BY <1>1, <2>1, RetaggedFields
<1>8. Retagged(m, subs, l) \in Object
  <2>1. CASE l = 0
    <3>1. {j \in 1..l : subs[j] # Unidentified} = {}
      BY <2>1
    <3>2. Tag(m, subs, l) = m.receivedBy
      BY <3>1 DEF Tag
    <3>3. QED
      BY <1>1, <1>6, <3>2, RetaggedFields
  <2>2. CASE l # 0
    <3>1. l \in DOMAIN subs
      BY <1>3, <2>2
    <3>2. QED
      BY <1>7, <3>1
  <2>3. QED
    BY <2>1, <2>2
<1>9. /\ first \in Seq(Object) /\ Len(first) = L
      /\ \A x \in 1..L : first[x] = IF x = o THEN Retagged(m, subs, l) ELSE objects[x]
  BY <1>0, <1>1, <1>4, <1>8, ExceptSeq
<1>10. tagged \in [1..l -> Object]
  BY <1>3, <1>7
<1>11. status \in {"running", "stopped"}
  OBVIOUS
<1>12. o \in Nat
  BY <1>1, <1>4
<1> HIDE DEF status, t
<1>13. \A k \in 1..l : (IF l > 1 THEN L + k ELSE o) \in Nat
  BY <1>3, <1>4, <1>12
<1>14. added \in [1..l -> Context]
  BY <1>4, <1>5, <1>11, <1>13 DEF Context
<1>15. /\ \A k \in 1..l : tagged[k] = Retagged(m, subs, k)
       /\ \A k \in 1..l : /\ added[k].object = IF l > 1 THEN L + k ELSE o
                          /\ added[k].send = n /\ added[k].subscriber = k
                          /\ added[k].transport = t /\ added[k].status = status
  OBVIOUS
<1>16. /\ objects' = first \o (IF l > 1 THEN tagged ELSE <<>>)
       /\ contexts' = contexts \o added
  <2>1. first = [objects EXCEPT ![o].receivedBy = Tag(objects[o], subs, l)]
    BY DEF Retagged
  <2>2. tagged = [k \in DOMAIN subs |-> [objects[o] EXCEPT !.receivedBy = Tag(objects[o], subs, k)]]
    BY <1>3 DEF Retagged
  <2>3. added = [k \in DOMAIN subs |->
                  [object |-> IF Len(subs) > 1 THEN Len(objects) + k ELSE o, send |-> n, subscriber |-> k,
                   transport |-> t, status |-> status]]
    BY <1>0, <1>3
  <2> HIDE DEF first, tagged, added
  <2>4. QED
    BY <1>0, <2>1, <2>2, <2>3 DEF HandTo, t, status
<1> HIDE DEF first, tagged, added
<1>17. /\ contexts' \in Seq(Context)
       /\ DOMAIN contexts' = 1..(C + l)
       /\ \A c \in DOMAIN contexts : contexts'[c] = contexts[c]
       /\ \A k \in 1..l : contexts'[C + k] = added[k]
  <2>1. /\ contexts \o added \in Seq(Context)
        /\ DOMAIN (contexts \o added) = 1..(Len(contexts) + l)
        /\ \A c \in DOMAIN contexts : (contexts \o added)[c] = contexts[c]
        /\ \A k \in 1..l : (contexts \o added)[Len(contexts) + k] = added[k]
    <3>1. contexts \in Seq(Context)
      BY <1>1
    <3>2. l \in Nat
      BY <1>3
    <3>3. QED
      BY <1>14, <3>1, <3>2, Joined
  <2>2. QED
    BY <1>0, <1>16, <2>1
<1>19. /\ objects' \in Seq(Object) /\ DOMAIN objects' = 1..(L + (IF l > 1 THEN l ELSE 0))
       /\ \A x \in 1..L : objects'[x] = first[x]
       /\ l > 1 => \A k \in 1..l : objects'[L + k] = tagged[k]
  <2>1. CASE l > 1
    <3>1. objects' = first \o tagged
      BY <1>16, <2>1
    <3>2. /\ first \o tagged \in Seq(Object) /\ DOMAIN (first \o tagged) = 1..(Len(first) + l)
          /\ \A x \in DOMAIN first : (first \o tagged)[x] = first[x]
          /\ \A k \in 1..l : (first \o tagged)[Len(first) + k] = tagged[k]
      <4>1. first \in Seq(Object)
        BY <1>9
      <4>2. QED
        BY <1>3, <1>10, <4>1, Joined
    <3>3. DOMAIN first = 1..L /\ Len(first) = L
      BY <1>9, LenProperties
    <3>4. /\ objects' \in Seq(Object) /\ DOMAIN objects' = 1..(L + l)
          /\ \A x \in 1..L : objects'[x] = first[x]
          /\ \A k \in 1..l : objects'[L + k] = tagged[k]
      BY <3>1, <3>2, <3>3
    <3>5. QED
      BY <2>1, <3>4
  <2>2. CASE ~(l > 1)
    <3>1. objects' = first
      BY <1>9, <1>16, <2>2, ConcatEmptySeq
    <3>2. DOMAIN first = 1..L
      BY <1>9, LenProperties
    <3>3. L + (IF l > 1 THEN l ELSE 0) = L
      BY <1>4, <2>2
    <3>4. QED
      BY <1>9, <2>2, <3>1, <3>2, <3>3
  <2>3. QED
    BY <2>1, <2>2
<1>20. DOMAIN objects \subseteq DOMAIN objects' /\ DOMAIN contexts \subseteq DOMAIN contexts'
  <2>1. 1..L \subseteq 1..(L + (IF l > 1 THEN l ELSE 0)) /\ 1..C \subseteq 1..(C + l)
    BY <1>3, <1>4
  <2>2. QED
    BY <1>4, <1>17, <1>19, <2>1
<1>21. /\ objects'[o] = Retagged(m, subs, l)
       /\ \A x \in DOMAIN objects : x # o => objects'[x] = objects[x]
  BY <1>1, <1>4, <1>9, <1>19
<1>22. ASSUME NEW x \in DOMAIN objects' \ DOMAIN objects
       PROVE  \E k \in DOMAIN subs : objects'[x] = Retagged(m, subs, k)
  <2>1. l > 1 /\ x - L \in 1..l /\ L + (x - L) = x
    <3>1. x \in 1..(L + (IF l > 1 THEN l ELSE 0)) /\ x \notin 1..L
      BY <1>4, <1>19
    <3>2. QED
      BY <1>3, <1>4, <3>1
  <2>2. objects'[x] = tagged[x - L]
    BY <1>19, <2>1
  <2>3. QED
    BY <1>3, <1>15, <2>1, <2>2
<1>23. ASSUME NEW c \in DOMAIN contexts' \ DOMAIN contexts
       PROVE  /\ contexts'[c].send = n /\ contexts'[c].subscriber \in DOMAIN subs
              /\ contexts'[c].transport = t
              /\ contexts'[c].status # "failed"
              /\ IF l > 1
                 THEN /\ contexts'[c].object \in DOMAIN objects' \ DOMAIN objects
                      /\ objects'[contexts'[c].object] =
                            Retagged(m, subs, contexts'[c].subscriber)
                 ELSE contexts'[c].object = o
  <2> DEFINE k == c - C
  <2>1. k \in 1..l /\ C + k = c
    <3>1. c \in 1..(C + l) /\ c \notin 1..C
      BY <1>4, <1>17
    <3>2. QED
      BY <1>3, <1>4, <3>1
  <2>2. contexts'[c] = added[k]
    BY <1>17, <2>1
  <2> HIDE DEF k
  <2>3. /\ contexts'[c].object = (IF l > 1 THEN L + k ELSE o)
        /\ contexts'[c].send = n /\ contexts'[c].subscriber = k
        /\ contexts'[c].transport = t /\ contexts'[c].status = status
    BY <1>15, <2>1, <2>2
  <2>4. l > 1 => L + k \in DOMAIN objects' \ DOMAIN objects /\ objects'[L + k] = tagged[k]
    <3>1. l > 1 => L + k \in 1..(L + (IF l > 1 THEN l ELSE 0)) /\ L + k \notin 1..L
      BY <1>3, <1>4, <2>1
    <3>2. QED
      BY <1>4, <1>19, <2>1, <3>1
  <2>5. CASE l > 1
    <3>1. contexts'[c].object = L + k /\ contexts'[c].subscriber = k
      BY <2>3, <2>5
    <3>2. objects'[L + k] = Retagged(m, subs, k)
      BY <1>15, <2>1, <2>4, <2>5
    <3>3. QED
      BY <1>3, <1>11, <2>1, <2>3, <2>4, <2>5, <3>1, <3>2
  <2>6. CASE ~(l > 1)
    BY <1>3, <1>11, <2>1, <2>3, <2>6
  <2>7. QED
    BY <2>5, <2>6
<1>24. QED
  BY <1>0, <1>1, <1>2, <1>3, <1>17, <1>19, <1>20, <1>21, <1>22, <1>23 DEF t, HandedOver

(* A message is handed to its subscribers. *)
LEMMA HandToKeeps ==
    ASSUME PipelinesInv, NEW n \in DOMAIN sends, NEW o, o = sends[n].object,
           timers' \in Seq(Timer), Apart(timers'), TimersOf(timers'),
           \A k \in DOMAIN timers' : timers'[k].send # n,
           NEW m, m = objects[o], m.intent # "reply",
           NEW subs, subs = Subscribers[m.type], HandTo(n, o, subs),
           UNCHANGED <<transports, default, started, routes, sends, guids>>,
           cancelled \subseteq cancelled'
    PROVE  PipelinesInv'
<1>1. /\ n \in DOMAIN sends /\ timers' \in Seq(Timer) /\ Apart(timers')
      /\ \A k \in DOMAIN timers' : \E j \in DOMAIN timers : timers'[k] = timers[j]
      /\ \A k \in DOMAIN timers' : timers'[k].send # n
  BY DEF TimersOf
<1>2. HandedOver(n, o, m, subs)
  BY Handed
<1>3. /\ m.type \in Type /\ m.type = sends[n].type /\ o \in DOMAIN objects
      /\ subs \in Seq(STRING) /\ Len(subs) \in Nat /\ DOMAIN subs = 1..Len(subs)
      /\ objects' \in Seq(Object) /\ contexts' \in Seq(Context)
      /\ DOMAIN objects \subseteq DOMAIN objects'
      /\ objects'[o] = Retagged(m, subs, Len(subs))
      /\ \A x \in DOMAIN objects : x # o => objects'[x] = objects[x]
  BY <1>2 DEF HandedOver
<1>4. \A x \in DOMAIN objects' \ DOMAIN objects : \E k \in DOMAIN subs :
         objects'[x] = Retagged(m, subs, k)
  BY <1>2 DEF HandedOver
<1>5. DOMAIN contexts \subseteq DOMAIN contexts' /\ \A c \in DOMAIN contexts : contexts'[c] = contexts[c]
  BY <1>2 DEF HandedOver
<1>6. \A c \in DOMAIN contexts' \ DOMAIN contexts :
         /\ contexts'[c].send = n /\ contexts'[c].subscriber \in DOMAIN subs
         /\ contexts'[c].transport = getTransport(m.type)
         /\ contexts'[c].status # "failed"
         /\ IF Len(subs) > 1
            THEN /\ contexts'[c].object \in DOMAIN objects' \ DOMAIN objects
                 /\ objects'[contexts'[c].object] = Retagged(m, subs, contexts'[c].subscriber)
            ELSE contexts'[c].object = o
  BY <1>2 DEF HandedOver
<1>7. /\ \A s \in DOMAIN sends : sends[s].object \in DOMAIN objects
      /\ \A x \in DOMAIN objects : objects[x] \in Object
      /\ contexts \in Seq(Context) /\ DOMAIN contexts = 1..Len(contexts) /\ Len(contexts) \in Nat
      /\ m \in Object /\ sends # <<>>
  BY <1>1, <1>3, OldMessages
<1>8. ASSUME NEW k
      PROVE  /\ Retagged(m, subs, k).type = m.type /\ Retagged(m, subs, k).intent = m.intent
             /\ Retagged(m, subs, k).id = m.id
             /\ Retagged(m, subs, k).conversation = m.conversation
             /\ Retagged(m, subs, k).correlation = m.correlation
             /\ Retagged(m, subs, k).sentBy = m.sentBy
             /\ Retagged(m, subs, k).receivedBy = Tag(m, subs, k)
  <2>1. m \in Object
    BY <1>7
  <2>2. QED
    BY <2>1, RetaggedFields
<1>9. \A x \in DOMAIN objects :
         /\ objects'[x].type = objects[x].type /\ objects'[x].intent = objects[x].intent
         /\ objects'[x].id = objects[x].id /\ objects'[x].conversation = objects[x].conversation
         /\ objects'[x].correlation = objects[x].correlation /\ objects'[x].sentBy = objects[x].sentBy
         /\ x # o => objects'[x].receivedBy = objects[x].receivedBy
  <2>1. \A x \in DOMAIN objects : x # o => objects'[x] = objects[x]
    BY <1>3
  <2>2. objects'[o] = Retagged(m, subs, Len(subs)) /\ objects[o] = m
    BY <1>3
  <2>3. /\ objects'[o].type = objects[o].type /\ objects'[o].intent = objects[o].intent
        /\ objects'[o].id = objects[o].id /\ objects'[o].conversation = objects[o].conversation
        /\ objects'[o].correlation = objects[o].correlation /\ objects'[o].sentBy = objects[o].sentBy
    <3> DEFINE r == Retagged(m, subs, Len(subs))
    <3>1. /\ r.type = m.type /\ r.intent = m.intent /\ r.id = m.id
          /\ r.conversation = m.conversation /\ r.correlation = m.correlation
          /\ r.sentBy = m.sentBy
      BY <1>8
    <3>2. objects'[o] = r /\ objects[o] = m
      BY <2>2
    <3> HIDE DEF r
    <3>3. QED
      BY <3>1, <3>2
  <2>4. QED
    BY <2>1, <2>3
<1>10. m.receivedBy \in Names(subs, Len(subs))
  BY <1>1, <1>3 DEF PipelinesInv, SendOK
<1>11. \A k : Tag(m, subs, k) \in Names(subs, k)
  BY <1>3, <1>10, Tagged
<1>12. objects'[o].receivedBy \in Names(subs, Len(subs))
  BY <1>3, <1>8, <1>11
<1>13. \A x : Single(x)' = Single(x)
  BY DEF Single
<1>14. TypeOK' /\ Configured'
  BY <1>1, <1>3, <1>7 DEF PipelinesInv, TypeOK, Configured
<1>15. RoutesKept'
  <2>1. TypeOK /\ RoutesKept /\ routes' = routes /\ DOMAIN sends' # {}
    BY <1>1 DEF PipelinesInv
  <2>2. \A x \in DOMAIN objects' : objects'[x].intent = "sendReply" =>
           \E p \in DOMAIN objects : objects[p].intent = "sendReply" /\ objects[p].type = objects'[x].type
    <3>1. \A x \in DOMAIN objects' \ DOMAIN objects :
             objects'[x].type = m.type /\ objects'[x].intent = m.intent
      <4> SUFFICES ASSUME NEW x \in DOMAIN objects' \ DOMAIN objects
                   PROVE  objects'[x].type = m.type /\ objects'[x].intent = m.intent
        OBVIOUS
      <4>1. PICK k : objects'[x] = Retagged(m, subs, k)
        BY <1>4
      <4>2. Retagged(m, subs, k).type = m.type /\ Retagged(m, subs, k).intent = m.intent
        BY <1>8
      <4>3. QED
        BY <4>1, <4>2
    <3>2. \A x \in DOMAIN objects :
             objects'[x].type = objects[x].type /\ objects'[x].intent = objects[x].intent
      BY <1>9
    <3>3. o \in DOMAIN objects /\ objects[o] = m
      BY <1>3
    <3>4. QED
      BY <3>1, <3>2, <3>3
  <2>3. QED
    BY <2>1, <2>2, RoutesStay
<1>16. SendsApart' /\ ReplyTakesTransportOfRequest' /\ DefaultReportsFailures'
  <2>1. SendsApart'
    BY DEF PipelinesInv, SendsApart
  <2>2. ReplyTakesTransportOfRequest'
    BY <1>5, <1>7, <1>9, RepliesStay
  <2>3. \A c \in DOMAIN contexts' :
           contexts'[c].status = "failed" => c \in DOMAIN contexts /\ contexts'[c] = contexts[c]
    BY <1>5, <1>6
  <2>4. DefaultReportsFailures'
    BY <2>3, ReportsStay DEF PipelinesInv
  <2>5. QED
    BY <2>1, <2>2, <2>4
<1>17. TimersOK'
  <2>1. \A k \in DOMAIN timers' : timers'[k].send \in DOMAIN sends
    BY <1>1 DEF PipelinesInv, TimersOK
  <2>2. ASSUME NEW k \in DOMAIN timers', timers'[k].stage = "outbound", sends[timers'[k].send].from # 0
        PROVE  /\ objects'[sends[timers'[k].send].object].conversation = 0
               /\ objects'[sends[timers'[k].send].object].correlation = 0
    BY <1>1, <1>7, <1>9, <2>1, <2>2 DEF PipelinesInv, TimersOK
  <2>3. QED
    BY <1>1, <2>1, <2>2 DEF TimersOK, Apart
<1>18. /\ Len(contexts') \in Nat /\ DOMAIN contexts' = 1..Len(contexts')
       /\ 0..Len(contexts) \subseteq 0..Len(contexts')
  <2>1. Len(contexts') \in Nat /\ DOMAIN contexts' = 1..Len(contexts')
    BY <1>3, LenProperties
  <2>2. QED
    BY <1>5, <1>7, <2>1
<1>19. ASSUME NEW s \in DOMAIN sends PROVE SendOK(s)'
  <2> DEFINE x == sends[s].object
             own == Subscribers[sends[s].type]
  <2>1. SendOK(s)
    BY DEF PipelinesInv
  <2>2. sends[s].from # 0 => contexts'[sends[s].from] = contexts[sends[s].from]
    BY <1>5, <1>7, <2>1 DEF SendOK
  <2>3. x \in DOMAIN objects /\ x \in DOMAIN objects' /\ sends[s].type = objects[x].type
    BY <1>3, <2>1 DEF SendOK
  <2>4. sends[s].type \in Type => objects'[x].receivedBy \in Names(own, Len(own))
    <3>1. CASE x = o
      BY <1>12, <2>3, <3>1
    <3>2. CASE x # o
      BY <1>9, <2>1, <2>3, <3>2 DEF SendOK
    <3>3. QED
      BY <3>1, <3>2
  <2>5. QED
    BY <1>9, <1>18, <2>1, <2>2, <2>3, <2>4 DEF SendOK
<1>20. ASSUME NEW s \in DOMAIN sends PROVE FromHandlerOK(s)'
  <2> DEFINE c == sends[s].from
             y == sends[contexts[c].send].object
  <2>1. FromHandlerOK(s) /\ SendOK(s)
    BY DEF PipelinesInv
  <2>2. CASE c = 0
    BY <2>2 DEF FromHandlerOK
  <2>3. CASE c # 0
    <3>1. c \in DOMAIN contexts /\ contexts'[c] = contexts[c] /\ contexts[c].send \in DOMAIN sends
      <4>1. c \in DOMAIN contexts
        BY <1>7, <2>1, <2>3 DEF SendOK
      <4>2. QED
        BY <1>5, <4>1, HandlerFacts
    <3>2. y \in DOMAIN objects /\ sends[s].object \in DOMAIN objects
      BY <1>7, <3>1
    <3>3. QED
      BY <1>9, <1>13, <2>1, <3>1, <3>2 DEF FromHandlerOK
  <2>4. QED
    BY <2>2, <2>3
<1>21. ASSUME NEW c \in DOMAIN contexts PROVE ContextOK(c)'
  <2> DEFINE r == contexts[c].send
             p == contexts[c].object
             own == Subscribers[sends[r].type]
  <2>1. ContextOK(c) /\ contexts'[c] = contexts[c]
    BY <1>5 DEF PipelinesInv
  <2>2. r \in DOMAIN sends /\ p \in DOMAIN objects /\ sends[r].object \in DOMAIN objects
    BY <1>7, HandlerFacts
  <2>3. \A k \in DOMAIN timers' : timers'[k].send # r
    BY <1>1, <2>1 DEF ContextOK
  <2>4. objects'[p].receivedBy \in Names(own, contexts[c].subscriber)
    <3>1. CASE p = o
      <4>1. own = subs
        BY <2>1, <3>1 DEF ContextOK
      <4>2. ~(Len(subs) > 1) /\ contexts[c].subscriber \in 1..Len(subs)
        BY <1>1, <1>3, <2>1, <3>1, <4>1 DEF ContextOK
      <4>3. contexts[c].subscriber = Len(subs)
        BY <1>3, <4>2
      <4>4. QED
        BY <1>12, <3>1, <4>1, <4>3
    <3>2. CASE p # o
      BY <1>9, <2>1, <2>2, <3>2 DEF ContextOK
    <3>3. QED
      BY <3>1, <3>2
  <2>5. p \in DOMAIN objects'
    BY <1>3, <2>2
  <2>6. /\ objects'[p].type = objects[p].type /\ objects'[p].intent = objects[p].intent
        /\ objects'[p].id = objects[p].id /\ objects'[p].conversation = objects[p].conversation
    BY <1>9, <2>2
  <2>7. PICK y : y = sends[r].object
    OBVIOUS
  <2>8. /\ objects'[y].intent = objects[y].intent /\ objects'[y].id = objects[y].id
        /\ objects'[y].conversation = objects[y].conversation /\ Single(y)' = Single(y)
    BY <1>9, <1>13, <2>2, <2>7
  <2>9. QED
    BY <2>1, <2>2, <2>3, <2>4, <2>5, <2>6, <2>7, <2>8 DEF ContextOK
<1>22. ASSUME NEW c \in DOMAIN contexts' \ DOMAIN contexts PROVE ContextOK(c)'
  <2>1. PICK p, k : p = contexts'[c].object /\ k = contexts'[c].subscriber
    OBVIOUS
  <2>2. /\ contexts'[c].send = n /\ k \in DOMAIN subs
        /\ contexts'[c].transport = getTransport(m.type)
        /\ IF Len(subs) > 1
           THEN /\ p \in DOMAIN objects' \ DOMAIN objects
                /\ objects'[p] = Retagged(m, subs, k)
           ELSE p = o
    BY <1>6, <2>1
  <2>3. getTransport(m.type) \in DOMAIN transports
    <3>1. m.type \in Routable
      BY <1>3 DEF Routable
    <3>2. QED
      BY <1>7, <3>1, TransportFound
  <2>4. subs = Subscribers[sends[n].type]
    BY <1>3
  <2>5. CASE Len(subs) > 1
    <3>1. p \in DOMAIN objects' /\ \A s \in DOMAIN sends : sends[s].object # p
      BY <1>7, <2>2, <2>5
    <3> DEFINE r == Retagged(m, subs, k)
    <3>2. objects'[p] = r
      BY <2>2, <2>5
    <3>3. /\ r.type = m.type /\ r.intent = m.intent /\ r.conversation = m.conversation
          /\ r.id = m.id /\ r.receivedBy = Tag(m, subs, k)
      BY <1>8
    <3> HIDE DEF r
    <3>4. objects'[p].receivedBy \in Names(subs, k)
      BY <1>11, <3>2, <3>3
    <3>5. /\ objects'[p].type = m.type /\ objects'[p].intent = m.intent
          /\ objects'[p].conversation = m.conversation /\ objects'[p].id = m.id
      BY <3>2, <3>3
    <3>6. ~(Len(subs) <= 1)
      BY <1>3, <2>5
    <3>7. /\ objects'[o].intent = m.intent /\ objects'[o].conversation = m.conversation
          /\ objects'[o].id = m.id
      BY <1>3, <1>9
    <3>8. QED
      BY <1>1, <1>3, <2>1, <2>2, <2>3, <2>4, <3>1, <3>4, <3>5, <3>6, <3>7 DEF ContextOK
  <2>6. CASE ~(Len(subs) > 1)
    <3>1. p = o /\ k = Len(subs)
      BY <1>3, <2>2, <2>6
    <3>2. objects'[p].type = m.type /\ o \in DOMAIN objects'
      BY <1>3, <1>9, <3>1
    <3>3. QED
      BY <1>1, <1>3, <1>12, <2>1, <2>2, <2>3, <2>4, <2>6, <3>1, <3>2 DEF ContextOK
  <2>7. QED
    BY <2>5, <2>6
<1>23. \A c \in DOMAIN contexts' : ContextOK(c)'
  BY <1>21, <1>22
<1>24. QED
  BY <1>14, <1>15, <1>16, <1>17, <1>19, <1>20, <1>23 DEF PipelinesInv

LEMMA RunInboundKeeps == ASSUME PipelinesInv, RunInbound PROVE PipelinesInv'
<1>1. PICK n : n = Head(timers).send
  OBVIOUS
<1>2. PICK o : o = sends[n].object
  OBVIOUS
<1>3. timers # <<>> /\ UNCHANGED <<transports, default, started, routes, guids>>
  BY DEF RunInbound, configuration
<1>4. CASE timers' = Tail(timers) /\ UNCHANGED <<objects, contexts, cancelled, sends>>
  BY <1>3, <1>4, ReplyReceivedKeeps
<1>5. CASE /\ objects' = Append(objects, NewObject(BusError, "publish", 0, 0))
           /\ sends' = Append(sends, [object |-> Len(objects) + 1, from |-> 0,
                                      transport |-> getTransport(BusError), type |-> BusError])
           /\ timers' = Append(Tail(timers), [stage |-> "outbound", send |-> Len(sends) + 1])
           /\ UNCHANGED <<contexts, cancelled>>
  BY <1>3, <1>5, ErrorSentKeeps
<1>6. CASE /\ objects[o].intent # "reply" /\ HandTo(n, o, Subscribers[objects[o].type])
           /\ timers' = Tail(timers) /\ UNCHANGED sends /\ cancelled \subseteq cancelled'
  <2>1. /\ n \in DOMAIN sends /\ timers' \in Seq(Timer) /\ Apart(timers') /\ TimersOf(timers')
        /\ \A k \in DOMAIN timers' : timers'[k].send # n
    BY <1>1, <1>3, <1>6, OtherTimers
  <2>2. PICK m, subs : m = objects[o] /\ subs = Subscribers[m.type]
    OBVIOUS
  <2>3. m.intent # "reply" /\ HandTo(n, o, subs)
    BY <1>6, <2>2
  <2>4. UNCHANGED <<transports, default, started, routes, sends, guids>> /\ cancelled \subseteq cancelled'
    BY <1>3, <1>6
  <2>5. QED
    BY <1>2, <2>1, <2>2, <2>3, <2>4, HandToKeeps
<1>7. QED
  BY <1>1, <1>2, <1>4, <1>5, <1>6 DEF RunInbound

LEMMA SendsKeep ==
    ASSUME PipelinesInv
    PROVE  /\ (\E use \in AppIntents : started /\ SendNew(use[1], use[2], 0)) => PipelinesInv'
           /\ (\E c \in DOMAIN contexts, use \in HandlerIntents : SendFromHandler(c, use)) => PipelinesInv'
<1>1. ASSUME NEW use \in AppIntents, started, SendNew(use[1], use[2], 0) PROVE PipelinesInv'
  <2>1. use[1] \in Type /\ use[2] \in {"publish", "send", "sendReply"}
    BY PipelinesAssumption
  <2>2. 0 \in 0..Len(contexts)
    BY OldMessages
  <2>3. QED
    BY <1>1, <2>1, <2>2, SendNewKeeps
<1>2. ASSUME NEW c \in DOMAIN contexts, NEW use \in HandlerIntents, SendFromHandler(c, use)
      PROVE  PipelinesInv'
  <2>1. use[1] \in Type /\ use[2] \in {"publish", "send", "sendReply"}
    BY PipelinesAssumption
  <2>2. c \in 0..Len(contexts) /\ started
    BY HandlerFacts DEF PipelinesInv, Configured
  <2>3. SendNew(use[1], use[2], c)
    BY <1>2 DEF SendFromHandler
  <2>4. QED
    BY <2>1, <2>2, <2>3, SendNewKeeps
<1>3. QED
  BY <1>1, <1>2

(* Every step of the bus keeps the invariant. *)
LEMMA PipelinesStep == ASSUME PipelinesInv, [Next]_vars PROVE PipelinesInv'
<1>1. CASE \E r \in OwnRoutes : UsingTransport(r)
  BY <1>1, UsingTransportKeeps
<1>2. CASE \E r \in OwnRoutes \cup {"*"}, use \in Uses : UseTask(r, use)
  BY <1>2, UseTaskKeeps
<1>3. CASE Start
  BY <1>3, StartKeeps
<1>4. CASE \E use \in AppIntents : started /\ SendNew(use[1], use[2], 0)
  BY <1>4, SendsKeep
<1>5. CASE \E o \in DOMAIN objects : SendAgain(o)
  BY <1>5, SendAgainKeeps
<1>6. CASE RunOutbound
  BY <1>6, RunOutboundKeeps
<1>7. CASE RunInbound
  BY <1>7, RunInboundKeeps
<1>8. CASE \E c \in DOMAIN contexts, use \in HandlerIntents : SendFromHandler(c, use)
  BY <1>8, SendsKeep
<1>9. CASE \E c \in DOMAIN contexts : ReplyFrom(c) \/ Fail(c)
  BY <1>9, ReplyFromKeeps, FailKeeps
<1>10. CASE UNCHANGED vars
  <2>1. UNCHANGED <<transports, routes, default, started, objects, sends, timers, contexts, cancelled, guids>>
    BY <1>10 DEF vars
  <2>2. TypeOK' /\ Configured' /\ TimersOK' /\ SendsApart'
    BY <2>1 DEF PipelinesInv, TypeOK, Configured, TimersOK, SendsApart
  <2>3. RoutesKept'
    BY <2>1 DEF PipelinesInv, RoutesKept, Plain, getTransport
  <2>4. \A o : Single(o)' => Single(o)
    BY <2>1 DEF Single
  <2>5. \A n \in DOMAIN sends : SendOK(n)'
    BY <2>1 DEF PipelinesInv, SendOK
  <2>6. \A n \in DOMAIN sends : FromHandlerOK(n)'
    BY <2>1, <2>4, FromHandlerStays, ZenonT(60) DEF PipelinesInv
  <2>7. \A c \in DOMAIN contexts : ContextOK(c)'
    <3> SUFFICES ASSUME NEW c \in DOMAIN contexts PROVE ContextOK(c)'
      OBVIOUS
    <3>1. ContextOK(c)
      BY DEF PipelinesInv
    <3>2. /\ contexts[c].send \in DOMAIN sends /\ contexts[c].object \in DOMAIN objects
          /\ \A k \in DOMAIN timers : timers[k].send # contexts[c].send
      BY <3>1 DEF ContextOK
    <3>3. QED
      BY <2>1, <2>4, <3>1, <3>2, ContextStays, ZenonT(60)
  <2>8. ReplyTakesTransportOfRequest' /\ DefaultReportsFailures'
    BY <2>1 DEF PipelinesInv, ReplyTakesTransportOfRequest, DefaultReportsFailures
  <2>9. QED
    BY <2>1, <2>2, <2>3, <2>5, <2>6, <2>7, <2>8 DEF PipelinesInv
<1>11. QED
  BY <1>1, <1>2, <1>3, <1>4, <1>5, <1>6, <1>7, <1>8, <1>9, <1>10 DEF Next, Otherwise

THEOREM PipelinesInvariance == Spec => []PipelinesInv
<1>1. PipelinesInv /\ [Next]_vars => PipelinesInv'
  BY PipelinesStep
<1>2. QED
  BY <1>1, InitPipelines, PTL DEF Spec
-----------------------------------------------------------------------------
(* An object that was sent once was sent by one call. *)
LEMMA SentBySingle == ASSUME PipelinesInv, NEW o, SentOnce(o) PROVE Single(o)
<1> DEFINE Calls == {n \in DOMAIN sends : sends[n].object = o}
<1>1. sends \in Seq(Send)
  BY DEF PipelinesInv, TypeOK
<1>2. Len(sends) \in Nat /\ DOMAIN sends = 1..Len(sends)
  BY <1>1, LenProperties
<1>3. IsFiniteSet(1..Len(sends))
  BY <1>2, FS_Interval
<1>4. Calls \in SUBSET (1..Len(sends))
  BY <1>2
<1> HIDE DEF Calls
<1>5. IsFiniteSet(Calls)
  BY <1>3, <1>4, FS_Subset
<1>6. Cardinality(Calls) = 1
  BY DEF SentOnce, Calls
<1>7. PICK n : Calls = {n}
  BY <1>5, <1>6, FS_Singleton
<1>8. QED
  BY <1>7 DEF Single, Calls

(* Bus.ts 397-401, MessageTracingTask.ts 18-20: what a handler sends says  *)
(* it is from that handler, for any subscribers and interleaving of timers.*)
THEOREM SendersNamed == Spec => []SentByItsHandler
<1>1. PipelinesInv => SentByItsHandler
  BY DEF PipelinesInv, FromHandlerOK, SentByItsHandler, Names
<1>2. QED
  BY <1>1, PipelinesInvariance, PTL

(* MessageTracingTask.ts 10-14: what a handler sends is in the conversation*)
(* of the message it handles, if nothing sends that message again.         *)
THEOREM ConversationsKept == Spec => []ConversationCarried
<1>1. PipelinesInv => ConversationCarried
  <2> SUFFICES ASSUME PipelinesInv, NEW n \in DOMAIN sends, sends[n].from # 0 PROVE Conversing(n)
    BY DEF ConversationCarried
  <2> DEFINE origin == sends[contexts[sends[n].from].send].object
  <2>1. FromHandlerOK(n)
    BY DEF PipelinesInv
  <2>2. SentOnce(origin) => Single(origin)
    BY SentBySingle
  <2>3. QED
    BY <2>1, <2>2 DEF FromHandlerOK, Conversing
<1>2. QED
  BY <1>1, PipelinesInvariance, PTL

(* Bus.ts 237-241: a reply takes the transport of its request, for any     *)
(* transports and routes a program configures before it sends.             *)
THEOREM RepliesRouted == Spec => []ReplyTakesTransportOfRequest
<1>1. PipelinesInv => ReplyTakesTransportOfRequest
  BY DEF PipelinesInv
<1>2. QED
  BY <1>1, PipelinesInvariance, PTL

(* Bus.ts 129-135: a failure on the transport that start adds is reported, *)
(* whatever tasks the program adds to that transport.                      *)
THEOREM FailuresReported == Spec => []DefaultReportsFailures
<1>1. PipelinesInv => DefaultReportsFailures
  BY DEF PipelinesInv
<1>2. QED
  BY <1>1, PipelinesInvariance, PTL

-----------------------------------------------------------------------------
(* What was observed: the messages as they are when they leave. *)

(* The call that sent message n of a handler's message. *)
OriginOf(n) == contexts[sends[n].from].send

(* What was observed has left, once if it was sent once, and is traced. *)
Left(n) == \A k \in DOMAIN timers : timers[k].send = n => timers[k].stage # "outbound"

ObservedOK ==
    /\ observed \in Seq(Nat)
    /\ \A k \in DOMAIN observed :
          /\ \E n \in DOMAIN sends : sends[n].object = observed[k] /\ Left(n)
          /\ objects[observed[k]].id # 0
    /\ \A j, k \in DOMAIN observed : observed[j] = observed[k] /\ Single(observed[j]) => j = k

(* A message is observed before those sent for it. *)
OriginsFirst ==
    \A k \in DOMAIN observed, n \in DOMAIN sends :
        (sends[n].object = observed[k] /\ sends[n].from # 0) =>
            LET p == sends[OriginOf(n)].object
            IN  Single(p) /\ p \in ToSet(observed) => \E j \in DOMAIN observed : j < k /\ observed[j] = p

(* Identifiers are drawn once, those of requests at the call. *)
Identified ==
    /\ \A o \in DOMAIN objects :
          objects[o].id <= guids /\ (objects[o].intent = "sendReply" => objects[o].id # 0)
    /\ \A n, m \in DOMAIN sends :
          LET o == sends[n].object
              p == sends[m].object
          IN  objects[o].id = objects[p].id /\ objects[o].id # 0 => o = p

(* What a message says of the one it was sent for. *)
LinkOK(n) ==
    LET s == sends[n]
        m == objects[s.object]
        p == sends[OriginOf(n)].object
        subs == Subscribers[sends[OriginOf(n)].type]
    IN  /\ s.from = 0 => m.correlation = 0 /\ m.sentBy = Unidentified
        /\ (s.from # 0 /\ ~Left(n)) => m.sentBy = Unidentified
        /\ (s.from # 0 /\ m.intent = "reply" /\ Single(p)) => m.replyTo = objects[p].id /\ m.replyTo # 0
        /\ (s.from # 0 /\ s.object \in ToSet(observed)) =>
              /\ Single(p) => m.correlation = objects[p].id
              /\ Named(subs) => m.sentBy = subs[1]

(* The only subscriber of a message is named on it. *)
NamedOK(c) ==
    LET subs == Subscribers[sends[contexts[c].send].type]
    IN  Named(subs) => objects[contexts[c].object].receivedBy = subs[1]

DiagramInv ==
    /\ PipelinesInv
    /\ ObservedOK
    /\ OriginsFirst
    /\ Identified
    /\ \A n \in DOMAIN sends : LinkOK(n)
    /\ \A c \in DOMAIN contexts : NamedOK(c)

-----------------------------------------------------------------------------
(* Steps that observe nothing *)

(* What was sent and handled stays, messages are new or known, and nothing *)
(* leaves.                                                                 *)
Grown ==
    /\ observed' = observed /\ guids' \in Nat /\ guids <= guids'
    /\ \A n \in DOMAIN sends : n \in DOMAIN sends' /\ sends'[n] = sends[n]
    /\ \A n, m \in DOMAIN sends' \ DOMAIN sends : n = m
    /\ \A o \in DOMAIN objects :
          /\ o \in DOMAIN objects'
          /\ objects'[o].id = objects[o].id /\ objects'[o].intent = objects[o].intent
          /\ objects'[o].correlation = objects[o].correlation
          /\ objects'[o].sentBy = objects[o].sentBy /\ objects'[o].replyTo = objects[o].replyTo
    /\ \A c \in DOMAIN contexts :
          contexts'[c].object = contexts[c].object /\ contexts'[c].send = contexts[c].send
    /\ \A k \in DOMAIN timers' :
          timers'[k].stage = "outbound" /\ timers'[k].send \in DOMAIN sends =>
              \E j \in DOMAIN timers : timers'[k] = timers[j]

(* A message that is sent: a new one, or one of the application again. *)
NewlySent(n) ==
    LET s == sends'[n]
        m == objects'[s.object]
        p == sends[contexts[s.from].send].object
    IN  \/ /\ s.object \notin DOMAIN objects
           /\ m.correlation = 0 /\ m.sentBy = Unidentified
           /\ m.id \in Nat /\ (m.id # 0 => guids < m.id)
           /\ (m.intent = "reply" /\ Single(p)) => m.replyTo = objects[p].id /\ m.replyTo # 0
           /\ m.intent = "reply" => s.from \in DOMAIN contexts
        \/ /\ s.from = 0
           /\ \E k \in DOMAIN sends : sends[k].object = s.object /\ sends[k].from = 0

NewObjectsOK ==
    \A o \in DOMAIN objects' :
        /\ objects'[o].id <= guids'
        /\ objects'[o].intent = "sendReply" => objects'[o].id # 0

LEMMA Known ==
    ASSUME DiagramInv
    PROVE  /\ \A n \in DOMAIN sends : /\ sends[n].object \in DOMAIN objects
                                      /\ sends[n].from # 0 =>
                                            /\ sends[n].from \in DOMAIN contexts
                                            /\ OriginOf(n) \in DOMAIN sends
                                            /\ sends[OriginOf(n)].object \in DOMAIN objects
           /\ \A k \in DOMAIN observed : observed[k] \in DOMAIN objects
           /\ \A o \in ToSet(observed) : o \in DOMAIN objects
           /\ \A o \in DOMAIN objects : objects[o] \in Object /\ objects[o].id \in Nat
           /\ guids \in Nat
<1>1. PipelinesInv
  BY DEF DiagramInv
<1>2. /\ \A n \in DOMAIN sends : sends[n].object \in DOMAIN objects
      /\ contexts \in Seq(Context) /\ DOMAIN contexts = 1..Len(contexts) /\ Len(contexts) \in Nat
  BY <1>1, OldMessages
<1>3. \A n \in DOMAIN sends : sends[n].from # 0 => sends[n].from \in DOMAIN contexts
  BY <1>1, <1>2 DEF PipelinesInv, SendOK
<1>4. \A c \in DOMAIN contexts : contexts[c].send \in DOMAIN sends
  BY <1>1, HandlerFacts
<1>5. \A k \in DOMAIN observed : observed[k] \in DOMAIN objects
  BY <1>2 DEF DiagramInv, ObservedOK
<1>6. \A o \in ToSet(observed) : o \in DOMAIN objects
  BY <1>5 DEF ToSet
<1>7. objects \in Seq(Object) /\ guids \in Nat
  BY <1>1 DEF PipelinesInv, TypeOK
<1>8. \A o \in DOMAIN objects : objects[o] \in Object
  BY <1>7, Typed
<1>9. \A o \in DOMAIN objects : objects[o].id \in Nat
  BY <1>8 DEF Object
<1>10. QED
  BY <1>2, <1>3, <1>4, <1>5, <1>6, <1>7, <1>8, <1>9 DEF OriginOf

LEMMA GrownKeeps ==
    ASSUME DiagramInv, PipelinesInv', Grown, NewObjectsOK,
           \A n \in DOMAIN sends' \ DOMAIN sends : NewlySent(n),
           \A c \in DOMAIN contexts' : NamedOK(c)'
    PROVE  DiagramInv'
<1>1. /\ \A n \in DOMAIN sends : /\ sends[n].object \in DOMAIN objects
                                 /\ sends[n].from # 0 =>
                                       /\ sends[n].from \in DOMAIN contexts
                                       /\ OriginOf(n) \in DOMAIN sends
                                       /\ sends[OriginOf(n)].object \in DOMAIN objects
      /\ \A k \in DOMAIN observed : observed[k] \in DOMAIN objects
      /\ \A o \in ToSet(observed) : o \in DOMAIN objects
      /\ \A o \in DOMAIN objects : objects[o] \in Object /\ objects[o].id \in Nat
      /\ guids \in Nat
  BY Known
<1>2. \A o : Single(o)' => Single(o)
  BY DEF Single, Grown
<1>3. \A n \in DOMAIN sends : Left(n) => Left(n)'
  BY DEF Left, Grown
<1>4. \A n \in DOMAIN sends : sends[n].from # 0 => OriginOf(n)' = OriginOf(n)
  BY <1>1 DEF OriginOf, Grown
<1>5. ObservedOK'
  <2>1. observed' \in Seq(Nat)
    BY DEF DiagramInv, ObservedOK, Grown
  <2>2. ASSUME NEW k \in DOMAIN observed
        PROVE  /\ \E n \in DOMAIN sends' : sends'[n].object = observed[k] /\ Left(n)'
               /\ objects'[observed[k]].id # 0
    <3>1. PICK n \in DOMAIN sends : sends[n].object = observed[k] /\ Left(n)
      BY DEF DiagramInv, ObservedOK
    <3>2. n \in DOMAIN sends' /\ sends'[n].object = observed[k] /\ Left(n)'
      BY <1>3, <3>1 DEF Grown
    <3>3. objects'[observed[k]].id = objects[observed[k]].id
      BY <1>1 DEF Grown
    <3>4. objects[observed[k]].id # 0
      BY DEF DiagramInv, ObservedOK
    <3>5. QED
      BY <3>2, <3>3, <3>4
  <2>3. ASSUME NEW j \in DOMAIN observed, NEW k \in DOMAIN observed, NEW o,
               observed[j] = o, observed[k] = o,
               \A n, m \in DOMAIN sends' : sends'[n].object = o /\ sends'[m].object = o => n = m
        PROVE  j = k
    <3>1. Single(o)
      BY <2>3, <1>2 DEF Single
    <3>2. QED
      BY <2>3, <3>1 DEF DiagramInv, ObservedOK
  <2>4. observed' = observed
    BY DEF Grown
  <2>5. QED
    BY <2>1, <2>2, <2>3, <2>4 DEF ObservedOK, Single
<1>6. \A n \in DOMAIN sends' \ DOMAIN sends :
          sends'[n].from # 0 => sends'[n].object \notin DOMAIN objects
  <2> SUFFICES ASSUME NEW n \in DOMAIN sends' \ DOMAIN sends, sends'[n].from # 0
               PROVE  sends'[n].object \notin DOMAIN objects
    OBVIOUS
  <2>1. NewlySent(n)
    OBVIOUS
  <2>2. QED
    BY <2>1 DEF NewlySent
<1>7. OriginsFirst'
  <2> SUFFICES ASSUME NEW k \in DOMAIN observed, NEW n \in DOMAIN sends', NEW p,
                      sends'[n].object = observed[k], sends'[n].from # 0,
                      p = sends'[contexts'[sends'[n].from].send].object,
                      Single(p)', p \in ToSet(observed)
               PROVE  \E j \in DOMAIN observed : j < k /\ observed[j] = p
    BY DEF OriginsFirst, OriginOf, Grown
  <2>1. n \in DOMAIN sends
    BY <1>1, <1>6
  <2>2. p = sends[OriginOf(n)].object /\ sends'[n] = sends[n]
    <3>1. sends'[n] = sends[n]
      BY <2>1 DEF Grown
    <3>2. contexts'[sends[n].from].send = OriginOf(n)
      BY <1>4, <2>1, <3>1 DEF OriginOf
    <3>3. sends'[OriginOf(n)] = sends[OriginOf(n)]
      BY <1>1, <2>1, <3>1 DEF Grown
    <3>4. QED
      BY <3>1, <3>2, <3>3
  <2>3. Single(p)
    BY <1>2
  <2>4. QED
    BY <2>1, <2>2, <2>3 DEF DiagramInv, OriginsFirst
<1>8. Identified'
  <2>1. \A n \in DOMAIN sends :
            /\ n \in DOMAIN sends' /\ sends'[n].object = sends[n].object
            /\ objects'[sends[n].object].id = objects[sends[n].object].id
            /\ objects[sends[n].object].id \in Nat /\ objects[sends[n].object].id <= guids
    BY <1>1 DEF Grown, DiagramInv, Identified
  <2>2. ASSUME NEW n \in DOMAIN sends' \ DOMAIN sends
        PROVE  \/ /\ objects'[sends'[n].object].id \in Nat
                  /\ objects'[sends'[n].object].id # 0 => guids < objects'[sends'[n].object].id
               \/ \E k \in DOMAIN sends : sends[k].object = sends'[n].object
    <3>1. NewlySent(n)
      OBVIOUS
    <3>2. QED
      BY <3>1 DEF NewlySent
  <2>3. ASSUME NEW n \in DOMAIN sends', NEW m \in DOMAIN sends,
               objects'[sends'[n].object].id = objects[sends[m].object].id,
               objects[sends[m].object].id # 0
        PROVE  sends'[n].object = sends[m].object
    <3>1. CASE \E k \in DOMAIN sends : sends[k].object = sends'[n].object
      <4>1. PICK k \in DOMAIN sends : sends[k].object = sends'[n].object
        BY <3>1
      <4>2. objects[sends[k].object].id = objects[sends[m].object].id
        BY <2>1, <2>3, <4>1
      <4>3. QED
        BY <2>3, <4>1, <4>2 DEF DiagramInv, Identified
    <3>2. CASE n \notin DOMAIN sends /\ ~\E k \in DOMAIN sends : sends[k].object = sends'[n].object
      BY <1>1, <2>1, <2>2, <2>3, <3>2
    <3>3. QED
      BY <2>1, <3>1, <3>2
  <2>4. ASSUME NEW n \in DOMAIN sends', NEW m \in DOMAIN sends',
               objects'[sends'[n].object].id = objects'[sends'[m].object].id,
               objects'[sends'[n].object].id # 0
        PROVE  sends'[n].object = sends'[m].object
    <3>1. CASE m \in DOMAIN sends
      BY <2>1, <2>3, <2>4, <3>1
    <3>2. CASE n \in DOMAIN sends
      <4>1. sends'[m].object = sends[n].object
        BY <2>1, <2>3, <2>4, <3>2
      <4>2. QED
        BY <2>1, <3>2, <4>1
    <3>3. CASE n \notin DOMAIN sends /\ m \notin DOMAIN sends
      BY <3>3 DEF Grown
    <3>4. QED
      BY <3>1, <3>2, <3>3
  <2>5. QED
    BY <2>4 DEF NewObjectsOK, Identified
<1>9. ASSUME NEW n \in DOMAIN sends PROVE LinkOK(n)'
  <2>0. PICK o, p : o = sends[n].object /\ p = sends[OriginOf(n)].object
    OBVIOUS
  <2>1. LinkOK(n)
    BY DEF DiagramInv
  <2>2. sends'[n] = sends[n] /\ ToSet(observed)' = ToSet(observed) /\ o \in DOMAIN objects
    BY <1>1, <2>0 DEF Grown
  <2>3. /\ objects'[o].id = objects[o].id /\ objects'[o].intent = objects[o].intent
        /\ objects'[o].correlation = objects[o].correlation
        /\ objects'[o].sentBy = objects[o].sentBy /\ objects'[o].replyTo = objects[o].replyTo
    BY <2>2 DEF Grown
  <2>4. CASE sends[n].from = 0
    <3>1. objects[o].correlation = 0 /\ objects[o].sentBy = Unidentified
      BY <2>0, <2>1, <2>4 DEF LinkOK
    <3>2. QED
      BY <2>0, <2>2, <2>3, <2>4, <3>1 DEF LinkOK
  <2>5. CASE sends[n].from # 0
    <3>1. /\ OriginOf(n)' = OriginOf(n) /\ sends'[OriginOf(n)] = sends[OriginOf(n)]
          /\ objects'[p].id = objects[p].id
      BY <1>1, <1>4, <2>0, <2>5 DEF Grown
    <3>2. Single(p)' => Single(p)
      BY <1>2
    <3>3. ~Left(n)' => ~Left(n)
      BY <1>3
    <3>4. p = sends'[OriginOf(n)'].object
      BY <2>0, <3>1
    <3>5. ASSUME objects'[o].intent = "reply", NEW q, q = sends'[contexts'[sends'[n].from].send].object, Single(q)'
          PROVE  objects'[o].replyTo = objects'[q].id /\ objects'[o].replyTo # 0
      <4>1. q = p
        BY <3>4, <3>5 DEF OriginOf
      <4>2. QED
        BY <2>0, <2>1, <2>3, <2>5, <3>1, <3>2, <3>5, <4>1 DEF LinkOK
    <3>6. ASSUME o \in ToSet(observed), NEW q, q = sends'[contexts'[sends'[n].from].send].object, Single(q)'
          PROVE  objects'[o].correlation = objects'[q].id
      <4>1. q = p
        BY <3>4, <3>6 DEF OriginOf
      <4>2. QED
        BY <2>0, <2>1, <2>3, <2>5, <3>1, <3>2, <3>6, <4>1 DEF LinkOK
    <3>7. ASSUME o \in ToSet(observed),
                 Named(Subscribers[sends'[contexts'[sends'[n].from].send].type])
          PROVE  objects'[o].sentBy = Subscribers[sends'[contexts'[sends'[n].from].send].type][1]
      <4>1. sends'[contexts'[sends'[n].from].send] = sends[OriginOf(n)]
        BY <3>1 DEF OriginOf
      <4>2. QED
        BY <2>0, <2>1, <2>3, <2>5, <3>7, <4>1 DEF LinkOK
    <3>8. ~Left(n)' => objects'[o].sentBy = Unidentified
      BY <2>0, <2>1, <2>3, <2>5, <3>3 DEF LinkOK
    <3>9. sends'[n].object = o /\ sends'[n].from # 0
      BY <2>0, <2>2, <2>5
    <3>10. QED
      BY <2>2, <3>5, <3>6, <3>7, <3>8, <3>9 DEF LinkOK, OriginOf
  <2>6. QED
    BY <2>4, <2>5
<1>10. ASSUME NEW n \in DOMAIN sends' \ DOMAIN sends PROVE LinkOK(n)'
  <2>1. NewlySent(n)
    OBVIOUS
  <2>2. CASE sends'[n].object \notin DOMAIN objects
    <3>1. sends'[n].object \notin ToSet(observed')
      BY <1>1, <2>2 DEF Grown
    <3>2. \A k \in DOMAIN sends : sends[k].object # sends'[n].object
      BY <1>1, <2>2
    <3>3. CASE sends'[n].from = 0
      BY <2>1, <3>2, <3>3 DEF NewlySent, LinkOK
    <3>4. CASE sends'[n].from # 0
      <4> DEFINE s == sends'[n]
                 m == objects'[s.object]
      <4>1. m.sentBy = Unidentified
        BY <2>1, <3>2 DEF NewlySent
      <4>2. ASSUME m.intent = "reply", NEW p, p = sends'[contexts'[s.from].send].object, Single(p)'
            PROVE  m.replyTo = objects'[p].id /\ m.replyTo # 0
        <5>1. s.from \in DOMAIN contexts
          BY <2>1, <3>2, <4>2 DEF NewlySent
        <5>2. contexts[s.from].send \in DOMAIN sends
          BY <5>1, HandlerFacts DEF DiagramInv
        <5>3. /\ contexts'[s.from].send = contexts[s.from].send
              /\ sends'[contexts[s.from].send] = sends[contexts[s.from].send]
          BY <5>1, <5>2 DEF Grown
        <5>4. p = sends[contexts[s.from].send].object /\ p \in DOMAIN objects
          BY <1>1, <4>2, <5>2, <5>3
        <5>5. objects'[p].id = objects[p].id
          BY <5>4 DEF Grown
        <5>6. Single(p)
          BY <1>2, <4>2
        <5>7. QED
          BY <2>1, <3>2, <4>2, <5>4, <5>5, <5>6 DEF NewlySent
      <4> HIDE DEF s, m
      <4>3. QED
        BY <3>1, <3>4, <4>1, <4>2 DEF LinkOK, OriginOf, s, m
    <3>5. QED
      BY <3>3, <3>4
  <2>3. CASE sends'[n].from = 0 /\ \E k \in DOMAIN sends : sends[k].object = sends'[n].object /\ sends[k].from = 0
    <3>1. PICK k \in DOMAIN sends : sends[k].object = sends'[n].object /\ sends[k].from = 0
      BY <2>3
    <3>2. LinkOK(k) /\ sends[k].object \in DOMAIN objects
      BY <1>1 DEF DiagramInv
    <3>3. objects[sends[k].object].correlation = 0 /\ objects[sends[k].object].sentBy = Unidentified
      BY <3>1, <3>2 DEF LinkOK
    <3>4. objects'[sends'[n].object].correlation = 0 /\ objects'[sends'[n].object].sentBy = Unidentified
      BY <3>1, <3>2, <3>3 DEF Grown
    <3>5. QED
      BY <2>3, <3>4 DEF LinkOK
  <2>4. QED
    BY <2>1, <2>2, <2>3 DEF NewlySent
<1>11. QED
  BY <1>5, <1>7, <1>8, <1>9, <1>10 DEF DiagramInv

(* Names stay on messages that stay. *)
LEMMA NamesStay ==
    ASSUME DiagramInv,
           \A n \in DOMAIN sends : sends'[n] = sends[n],
           \A o \in DOMAIN objects : objects'[o].receivedBy = objects[o].receivedBy,
           NEW c \in DOMAIN contexts,
           contexts'[c].object = contexts[c].object, contexts'[c].send = contexts[c].send
    PROVE  NamedOK(c)'
<1>1. NamedOK(c)
  BY DEF DiagramInv
<1>2. contexts[c].send \in DOMAIN sends /\ contexts[c].object \in DOMAIN objects
  BY HandlerFacts DEF DiagramInv
<1>3. QED
  BY <1>1, <1>2 DEF NamedOK

LEMMA ConfiguringGrows ==
    ASSUME DiagramInv, PipelinesInv', Configuring, observed' = observed
    PROVE  DiagramInv'
<1>1. UNCHANGED <<objects, sends, timers, contexts, guids>>
  BY DEF Configuring
<1>2. guids \in Nat
  BY Known
<1>3. Grown
  BY <1>1, <1>2 DEF Grown
<1>4. NewObjectsOK
  BY <1>1 DEF NewObjectsOK, DiagramInv, Identified
<1>5. \A c \in DOMAIN contexts' : NamedOK(c)'
  BY <1>1, NamesStay
<1>6. QED
  BY <1>1, <1>3, <1>4, <1>5, GrownKeeps

(* A message is put into the pipeline. *)
LEMMA SentGrows ==
    ASSUME DiagramInv, PipelinesInv', observed' = observed,
           NEW s \in Send, sends' = Append(sends, s),
           NEW q \in Seq(Timer), TimersOf(q),
           timers' = Append(q, [stage |-> "outbound", send |-> Len(sends) + 1]),
           guids' \in Nat, guids <= guids', NewObjectsOK,
           \A o \in DOMAIN objects : o \in DOMAIN objects' /\ objects'[o] = objects[o],
           SameContexts,
           NewlySent(Len(sends) + 1)
    PROVE  DiagramInv'
<1>0. PICK new : new = Len(sends) + 1
  OBVIOUS
<1>1. /\ DOMAIN sends' = DOMAIN sends \cup {new} /\ new \notin DOMAIN sends
      /\ \A n \in DOMAIN sends : sends'[n] = sends[n]
      /\ new \in Nat
  BY <1>0, SendAdded DEF DiagramInv, PipelinesInv
<1>2. \A k \in DOMAIN timers' : timers'[k].send \in DOMAIN sends => \E j \in DOMAIN timers : timers'[k] = timers[j]
  <2> DEFINE x == [stage |-> "outbound", send |-> new]
  <2>1. x \in Timer /\ x.send = new
    BY <1>1 DEF Timer
  <2>2. timers' = Append(q, x)
    BY <1>0
  <2> HIDE DEF x
  <2>3. /\ Len(q) \in Nat /\ DOMAIN q = 1..Len(q)
        /\ DOMAIN timers' = 1..(Len(q) + 1)
        /\ \A i \in 1..Len(q) : timers'[i] = q[i]
        /\ timers'[Len(q) + 1] = x
    BY <2>1, <2>2, Appended
  <2>4. SUFFICES ASSUME NEW k \in DOMAIN timers', timers'[k].send \in DOMAIN sends
                 PROVE  \E j \in DOMAIN timers : timers'[k] = timers[j]
    OBVIOUS
  <2>5. k # Len(q) + 1
    BY <1>1, <2>1, <2>3, <2>4
  <2>6. k \in DOMAIN q /\ timers'[k] = q[k]
    BY <2>3, <2>5
  <2>7. QED
    BY <2>6 DEF TimersOf
<1>3. Grown
  <2>1. \A o \in DOMAIN objects : o \in DOMAIN objects' /\ objects'[o] = objects[o]
    OBVIOUS
  <2>2. \A c \in DOMAIN contexts : contexts'[c].object = contexts[c].object /\ contexts'[c].send = contexts[c].send
    BY DEF SameContexts
  <2>3. QED
    BY <1>1, <1>2, <2>1, <2>2 DEF Grown
<1>4. \A c \in DOMAIN contexts' : NamedOK(c)'
  <2>1. SUFFICES ASSUME NEW c \in DOMAIN contexts' PROVE NamedOK(c)'
    OBVIOUS
  <2>2. /\ c \in DOMAIN contexts
        /\ contexts'[c].object = contexts[c].object /\ contexts'[c].send = contexts[c].send
    BY <2>1 DEF SameContexts
  <2>3. \A o \in DOMAIN objects : objects'[o].receivedBy = objects[o].receivedBy
    OBVIOUS
  <2>4. QED
    BY <1>1, <2>2, <2>3, NamesStay
<1>5. \A n \in DOMAIN sends' \ DOMAIN sends : NewlySent(n)
  BY <1>0, <1>1
<1>6. QED
  BY <1>3, <1>4, <1>5, GrownKeeps

(* A new object is sent, by a call or by a handler. *)
LEMMA NewObjectSent ==
    ASSUME DiagramInv, PipelinesInv', observed' = observed,
           NEW r \in Type \cup Replies, NEW intent \in Intent, NEW id \in Nat, NEW replyTo \in Nat,
           NEW from \in 0..Len(contexts), NEW t \in Nat,
           objects' = Append(objects, NewObject(r, intent, id, replyTo)),
           sends' = Append(sends, [object |-> Len(objects) + 1, from |-> from, transport |-> t, type |-> r]),
           NEW q \in Seq(Timer), TimersOf(q),
           timers' = Append(q, [stage |-> "outbound", send |-> Len(sends) + 1]),
           SameContexts,
           \/ id = 0 /\ guids' = guids
           \/ id = guids + 1 /\ guids' = guids + 1,
           intent = "sendReply" => id # 0,
           intent = "reply" =>
              /\ from # 0
              /\ Single(sends[contexts[from].send].object) =>
                    replyTo = objects[sends[contexts[from].send].object].id /\ replyTo # 0
    PROVE  DiagramInv'
<1> DEFINE s == [object |-> Len(objects) + 1, from |-> from, transport |-> t, type |-> r]
           m == NewObject(r, intent, id, replyTo)
<1>1. TypeOK /\ PipelinesInv
  BY DEF DiagramInv, PipelinesInv
<1>2. /\ DOMAIN objects' = DOMAIN objects \cup {Len(objects) + 1}
      /\ Len(objects) + 1 \in Nat /\ Len(objects) + 1 \notin DOMAIN objects
      /\ \A o \in DOMAIN objects : objects'[o] = objects[o]
      /\ objects'[Len(objects) + 1] = m
  BY <1>1, ObjectAdded
<1>3. /\ m.intent = intent /\ m.id = id /\ m.correlation = 0 /\ m.replyTo = replyTo
      /\ m.sentBy = Unidentified
  BY DEF NewObject
<1>4. contexts \in Seq(Context) /\ Len(contexts) \in Nat /\ DOMAIN contexts = 1..Len(contexts)
  BY <1>1, OldMessages
<1>5. s \in Send /\ s.object = Len(objects) + 1 /\ s.from = from
  BY <1>2, <1>4 DEF Send
<1>6. sends' = Append(sends, s)
  OBVIOUS
<1> HIDE DEF s, m
<1>7. sends'[Len(sends) + 1] = s
  BY <1>1, <1>5, <1>6, SendAdded
<1>8. guids \in Nat /\ guids' \in Nat /\ guids <= guids' /\ (id # 0 => guids < id) /\ id <= guids'
  BY <1>1 DEF TypeOK
<1>9. NewObjectsOK
  <2>1. SUFFICES ASSUME NEW o \in DOMAIN objects'
                 PROVE  /\ objects'[o].id <= guids'
                        /\ objects'[o].intent = "sendReply" => objects'[o].id # 0
    BY DEF NewObjectsOK
  <2>2. CASE o \in DOMAIN objects
    <3>1. objects[o].id \in Nat /\ objects[o].id <= guids /\ (objects[o].intent = "sendReply" => objects[o].id # 0)
      BY <2>2, Known DEF DiagramInv, Identified
    <3>2. QED
      BY <1>2, <1>8, <2>2, <3>1
  <2>3. CASE o = Len(objects) + 1
    BY <1>2, <1>3, <1>8, <2>3
  <2>4. QED
    BY <1>2, <2>1, <2>2, <2>3
<1>10. NewlySent(Len(sends) + 1)
  <2>1. intent = "reply" => from \in DOMAIN contexts
    BY <1>4
  <2>2. QED
    BY <1>2, <1>3, <1>5, <1>7, <1>8, <2>1 DEF NewlySent
<1>11. \A o \in DOMAIN objects : o \in DOMAIN objects' /\ objects'[o] = objects[o]
  BY <1>2
<1>12. QED
  BY <1>5, <1>6, <1>8, <1>9, <1>10, <1>11, SentGrows

LEMMA SendNewGrows ==
    ASSUME DiagramInv, PipelinesInv', observed' = observed,
           NEW type \in Type, NEW intent \in {"publish", "send", "sendReply"},
           NEW from \in 0..Len(contexts), SendNew(type, intent, from)
    PROVE  DiagramInv'
<1>1. PICK id : id = IF intent = "sendReply" THEN guids + 1 ELSE 0
  OBVIOUS
<1>2. /\ objects' = Append(objects, NewObject(type, intent, id, 0))
      /\ guids' = IF intent = "sendReply" THEN guids + 1 ELSE guids
      /\ sends' = Append(sends, [object |-> Len(objects) + 1, from |-> from,
                                 transport |-> getTransport(type), type |-> type])
      /\ timers' = Append(timers, [stage |-> "outbound", send |-> Len(sends) + 1])
      /\ contexts' = contexts
  BY <1>1 DEF SendNew, PutInPipeline, configuration
<1>3. PipelinesInv /\ TypeOK /\ guids \in Nat
  BY DEF DiagramInv, PipelinesInv, TypeOK
<1>4. /\ type \in Type \cup Replies /\ intent \in Intent /\ intent # "reply" /\ 0 \in Nat
      /\ id \in Nat /\ (intent = "sendReply" => id # 0)
      /\ (id = 0 /\ guids' = guids) \/ (id = guids + 1 /\ guids' = guids + 1)
  BY <1>1, <1>2, <1>3 DEF Intent
<1>5. getTransport(type) \in Nat
  <2>1. type \in Routable /\ "*" \in Routable
    BY DEF Routable
  <2>2. QED
    BY <1>3, <2>1 DEF TypeOK, getTransport
<1>6. SameContexts
  BY <1>2, <1>3, OldMessages DEF SameContexts
<1>7. timers \in Seq(Timer) /\ TimersOf(timers)
  BY <1>3, AllTimers
<1>8. QED
  BY <1>2, <1>4, <1>5, <1>6, <1>7, NewObjectSent

LEMMA SendAgainGrows ==
    ASSUME DiagramInv, PipelinesInv', observed' = observed, NEW o \in DOMAIN objects, SendAgain(o)
    PROVE  DiagramInv'
<1> DEFINE t == getTransport(objects[o].type)
           s == [object |-> o, from |-> 0, transport |-> t, type |-> objects[o].type]
<1>1. /\ sends' = Append(sends, s)
      /\ timers' = Append(timers, [stage |-> "outbound", send |-> Len(sends) + 1])
      /\ UNCHANGED <<objects, contexts, guids>>
  BY DEF SendAgain, PutInPipeline, configuration
<1>2. PICK k \in DOMAIN sends : sends[k].object = o /\ sends[k].from = 0
  BY DEF SendAgain
<1>3. PipelinesInv /\ TypeOK /\ guids \in Nat /\ objects[o] \in Object /\ sends[k] \in Send
  BY OldMessages DEF DiagramInv, PipelinesInv, TypeOK
<1>4. objects[o].type \in Type \cup Replies /\ o \in Nat
  BY <1>2, <1>3 DEF Object, Send
<1>5. t \in Nat
  <2>1. objects[o].type \in Routable /\ "*" \in Routable
    BY <1>4 DEF Routable
  <2>2. QED
    BY <1>3, <2>1 DEF TypeOK, getTransport
<1> HIDE DEF t
<1>6. s \in Send /\ s.object = o /\ s.from = 0
  BY <1>4, <1>5 DEF Send
<1> HIDE DEF s
<1>7. sends'[Len(sends) + 1] = s
  BY <1>1, <1>3, <1>6, SendAdded
<1>8. NewlySent(Len(sends) + 1)
  BY <1>2, <1>6, <1>7 DEF NewlySent
<1>9. NewObjectsOK
  BY <1>1 DEF NewObjectsOK, DiagramInv, Identified
<1>10. SameContexts
  BY <1>1, <1>3, OldMessages DEF SameContexts
<1>11. timers \in Seq(Timer) /\ TimersOf(timers)
  BY <1>3, AllTimers
<1>12. guids' \in Nat /\ guids <= guids'
  BY <1>1, <1>3
<1>13. QED
  BY <1>1, <1>6, <1>8, <1>9, <1>10, <1>11, <1>12, SentGrows

LEMMA ReplyFromGrows ==
    ASSUME DiagramInv, PipelinesInv', observed' = observed, NEW c \in DOMAIN contexts, ReplyFrom(c)
    PROVE  DiagramInv'
<1>0. PICK m, r, p : m = objects[contexts[c].object] /\ r = ReplyType[m.type] /\ p = sends[contexts[c].send].object
  OBVIOUS
<1>1. /\ m.intent = "sendReply"
      /\ objects' = Append(objects, NewObject(r, "reply", 0, m.id))
      /\ sends' = Append(sends, [object |-> Len(objects) + 1, from |-> c,
                                 transport |-> getTransport(r), type |-> r])
      /\ timers' = Append(timers, [stage |-> "outbound", send |-> Len(sends) + 1])
      /\ UNCHANGED <<contexts, guids>>
  BY <1>0 DEF ReplyFrom, PutInPipeline, configuration
<1>2. PipelinesInv /\ TypeOK
  BY DEF DiagramInv, PipelinesInv
<1>3. /\ c \in Nat /\ c # 0 /\ c \in 0..Len(contexts) /\ sends # <<>>
      /\ contexts[c].send \in DOMAIN sends /\ contexts[c].object \in DOMAIN objects
      /\ objects[contexts[c].object].type = sends[contexts[c].send].type
      /\ sends[contexts[c].send].type \in Type
  BY <1>2, HandlerFacts
<1>4. m \in Object /\ contexts \in Seq(Context) /\ m.type \in Type
  BY <1>0, <1>2, <1>3, OldMessages
<1>5. m.id \in Nat /\ r \in Type \cup Replies /\ r \in Routable
  BY <1>0, <1>4 DEF Object, Replies, Routable
<1>6. getTransport(r) \in Nat
  BY <1>2, <1>3, <1>5, TransportFound
<1>7. m.id # 0
  BY <1>0, <1>1, <1>3 DEF DiagramInv, Identified
<1>8. Single(p) => m.id = objects[p].id
  <2>1. ContextOK(c)
    BY <1>2 DEF PipelinesInv
  <2>2. QED
    BY <1>0, <2>1 DEF ContextOK
<1>9. timers \in Seq(Timer) /\ TimersOf(timers) /\ SameContexts
  BY <1>1, <1>2, <1>4, AllTimers DEF SameContexts
<1>10. "reply" \in Intent /\ 0 \in Nat /\ "reply" # "sendReply"
  BY DEF Intent
<1>11. "reply" = "reply" =>
          /\ c # 0
          /\ Single(sends[contexts[c].send].object) =>
                m.id = objects[sends[contexts[c].send].object].id /\ m.id # 0
  BY <1>0, <1>3, <1>7, <1>8
<1>12. QED
  BY <1>1, <1>3, <1>5, <1>6, <1>9, <1>10, <1>11, NewObjectSent

(* An error is published from context from, 0 for a rejected command. *)
LEMMA ErrorGrows ==
    ASSUME DiagramInv, PipelinesInv', observed' = observed, NEW from \in 0..Len(contexts), sends # <<>>,
           objects' = Append(objects, NewObject(BusError, "publish", 0, 0)),
           sends' = Append(sends, [object |-> Len(objects) + 1, from |-> from,
                                   transport |-> getTransport(BusError), type |-> BusError]),
           NEW q \in Seq(Timer), TimersOf(q),
           timers' = Append(q, [stage |-> "outbound", send |-> Len(sends) + 1]),
           SameContexts, guids' = guids
    PROVE  DiagramInv'
<1>1. PipelinesInv
  BY DEF DiagramInv
<1>2. BusError \in Type \cup Replies /\ BusError \in Routable /\ "publish" \in Intent /\ 0 \in Nat
  BY PipelinesAssumption DEF Routable, Intent
<1>3. getTransport(BusError) \in Nat
  BY <1>1, <1>2, TransportFound
<1>4. "publish" # "sendReply" /\ "publish" # "reply"
  OBVIOUS
<1>5. QED
  BY <1>2, <1>3, <1>4, NewObjectSent

LEMMA FailGrows ==
    ASSUME DiagramInv, PipelinesInv', observed' = observed, NEW c \in DOMAIN contexts, Fail(c)
    PROVE  DiagramInv'
<1>1. /\ contexts' = [contexts EXCEPT ![c].status = "failed"] /\ guids' = guids
      /\ \/ /\ objects' = Append(objects, NewObject(BusError, "publish", 0, 0))
            /\ sends' = Append(sends, [object |-> Len(objects) + 1, from |-> c,
                                       transport |-> getTransport(BusError), type |-> BusError])
            /\ timers' = Append(timers, [stage |-> "outbound", send |-> Len(sends) + 1])
         \/ UNCHANGED <<objects, sends, timers>>
  BY DEF Fail, PutInPipeline
<1>2. PipelinesInv /\ guids \in Nat
  BY Known DEF DiagramInv
<1>3. SameContexts
  BY <1>1, <1>2, HandlerFailed
<1>4. c \in 0..Len(contexts) /\ sends # <<>>
  BY <1>2, HandlerFacts
<1>5. timers \in Seq(Timer) /\ TimersOf(timers)
  BY <1>2, AllTimers
<1>6. CASE UNCHANGED <<objects, sends, timers>>
  <2>1. Grown
    BY <1>1, <1>2, <1>3, <1>6 DEF Grown, SameContexts
  <2>2. NewObjectsOK
    BY <1>1, <1>6 DEF NewObjectsOK, DiagramInv, Identified
  <2>3. \A d \in DOMAIN contexts' : NamedOK(d)'
    <3>1. SUFFICES ASSUME NEW d \in DOMAIN contexts' PROVE NamedOK(d)'
      OBVIOUS
    <3>2. /\ d \in DOMAIN contexts
          /\ contexts'[d].object = contexts[d].object /\ contexts'[d].send = contexts[d].send
      BY <1>3, <3>1 DEF SameContexts
    <3>3. QED
      BY <1>6, <3>2, NamesStay
  <2>4. QED
    BY <1>6, <2>1, <2>2, <2>3, GrownKeeps
<1>7. QED
  BY <1>1, <1>3, <1>4, <1>5, <1>6, ErrorGrows

(* A message is handed to its subscribers. *)
LEMMA HandToGrows ==
    ASSUME DiagramInv, PipelinesInv', observed' = observed,
           NEW n \in DOMAIN sends, NEW o, o = sends[n].object, TimersOf(timers'),
           NEW m, m = objects[o], m.intent # "reply",
           NEW subs, subs = Subscribers[m.type], HandTo(n, o, subs),
           sends' = sends, guids' = guids
    PROVE  DiagramInv'
<1>1. PipelinesInv /\ guids \in Nat /\ m \in Object /\ o \in DOMAIN objects
  BY Known DEF DiagramInv
<1>2. HandedOver(n, o, m, subs)
  BY <1>1, Handed
<1>3. /\ m.type \in Type /\ m.type = sends[n].type
      /\ subs \in Seq(STRING) /\ Len(subs) \in Nat /\ DOMAIN subs = 1..Len(subs)
      /\ DOMAIN objects \subseteq DOMAIN objects'
      /\ objects'[o] = Retagged(m, subs, Len(subs))
      /\ \A x \in DOMAIN objects : x # o => objects'[x] = objects[x]
      /\ \A x \in DOMAIN objects' \ DOMAIN objects : \E k \in DOMAIN subs :
            objects'[x] = Retagged(m, subs, k)
      /\ \A c \in DOMAIN contexts : contexts'[c] = contexts[c]
  BY <1>2 DEF HandedOver
<1>4. \A k : LET r == Retagged(m, subs, k) IN
             /\ r.intent = m.intent /\ r.id = m.id
             /\ r.correlation = m.correlation /\ r.replyTo = m.replyTo
             /\ r.sentBy = m.sentBy /\ r.receivedBy = Tag(m, subs, k)
  BY <1>1 DEF Retagged, Object
<1>5. \A x \in DOMAIN objects :
          /\ objects'[x].id = objects[x].id /\ objects'[x].intent = objects[x].intent
          /\ objects'[x].correlation = objects[x].correlation
          /\ objects'[x].sentBy = objects[x].sentBy /\ objects'[x].replyTo = objects[x].replyTo
  BY <1>3, <1>4
<1>6. Grown
  BY <1>1, <1>3, <1>5 DEF Grown, TimersOf
<1>7. NewObjectsOK
  <2>1. SUFFICES ASSUME NEW x \in DOMAIN objects'
                 PROVE  /\ objects'[x].id <= guids
                        /\ objects'[x].intent = "sendReply" => objects'[x].id # 0
    BY DEF NewObjectsOK
  <2>2. PICK y \in DOMAIN objects : objects'[x].id = objects[y].id /\ objects'[x].intent = objects[y].intent
    BY <1>1, <1>3, <1>4, <1>5
  <2>3. QED
    BY <2>2 DEF DiagramInv, Identified
<1>8. ASSUME NEW k \in DOMAIN subs, Named(subs) PROVE Tag(m, subs, k) = subs[1]
  <2>1. k = 1 /\ subs[1] # Unidentified
    BY <1>3, <1>8 DEF Named
  <2>2. {j \in 1..k : subs[j] # Unidentified} = {1}
    BY <2>1
  <2>3. (CHOOSE j \in {1} : \A i \in {1} : i <= j) = 1
    OBVIOUS
  <2>4. QED
    BY <2>2, <2>3 DEF Tag
<1>9. ASSUME NEW c \in DOMAIN contexts PROVE NamedOK(c)'
  <2> DEFINE r == contexts[c].send
             p == contexts[c].object
  <2>1. NamedOK(c) /\ r \in DOMAIN sends /\ p \in DOMAIN objects /\ ContextOK(c)
    BY <1>1, HandlerFacts DEF DiagramInv, PipelinesInv
  <2>2. CASE p # o
    BY <1>3, <2>1, <2>2 DEF NamedOK
  <2>3. CASE p = o
    <3>1. sends[r].type = m.type
      BY <2>1, <2>3 DEF ContextOK
    <3>2. Named(subs) => Len(subs) \in DOMAIN subs
      BY <1>3 DEF Named
    <3>3. Named(subs) => objects'[o].receivedBy = subs[1]
      BY <1>3, <1>4, <1>8, <3>2
    <3>4. QED
      BY <1>3, <2>3, <3>1, <3>3 DEF NamedOK
  <2>4. QED
    BY <2>2, <2>3
<1>10. ASSUME NEW c \in DOMAIN contexts' \ DOMAIN contexts PROVE NamedOK(c)'
  <2>1. /\ contexts'[c].send = n
        /\ Len(subs) <= 1 => contexts'[c].object = o
    BY <1>2, <1>3 DEF HandedOver
  <2>2. CASE Named(subs)
    <3>1. Len(subs) = 1 /\ Len(subs) \in DOMAIN subs
      BY <1>3, <2>2 DEF Named
    <3>2. contexts'[c].object = o /\ objects'[o].receivedBy = subs[1]
      BY <1>3, <1>4, <1>8, <2>1, <2>2, <3>1
    <3>3. QED
      BY <1>3, <2>1, <3>2 DEF NamedOK
  <2>3. CASE ~Named(subs)
    BY <1>3, <2>1, <2>3 DEF NamedOK
  <2>4. QED
    BY <2>2, <2>3
<1>11. QED
  BY <1>6, <1>7, <1>9, <1>10, GrownKeeps

LEMMA RunInboundGrows ==
    ASSUME DiagramInv, PipelinesInv', observed' = observed, RunInbound
    PROVE  DiagramInv'
<1>1. PICK n : n = Head(timers).send
  OBVIOUS
<1>2. PICK o : o = sends[n].object
  OBVIOUS
<1>3. timers # <<>> /\ guids' = guids /\ PipelinesInv /\ guids \in Nat
  BY Known DEF RunInbound, DiagramInv
<1>4. n \in DOMAIN sends /\ Tail(timers) \in Seq(Timer) /\ TimersOf(Tail(timers)) /\ sends # <<>>
  BY <1>1, <1>3, OtherTimers
<1>5. CASE timers' = Tail(timers) /\ UNCHANGED <<objects, contexts, cancelled, sends>>
  <2>1. Grown
    BY <1>3, <1>4, <1>5 DEF Grown, TimersOf
  <2>2. NewObjectsOK
    BY <1>3, <1>5 DEF NewObjectsOK, DiagramInv, Identified
  <2>3. \A c \in DOMAIN contexts' : NamedOK(c)'
    BY <1>5, NamesStay
  <2>4. QED
    BY <1>5, <2>1, <2>2, <2>3, GrownKeeps
<1>6. CASE /\ objects' = Append(objects, NewObject(BusError, "publish", 0, 0))
           /\ sends' = Append(sends, [object |-> Len(objects) + 1, from |-> 0,
                                      transport |-> getTransport(BusError), type |-> BusError])
           /\ timers' = Append(Tail(timers), [stage |-> "outbound", send |-> Len(sends) + 1])
           /\ UNCHANGED <<contexts, cancelled>>
  <2>1. 0 \in 0..Len(contexts) /\ SameContexts
    BY <1>3, <1>6, OldMessages DEF SameContexts
  <2>2. QED
    BY <1>3, <1>4, <1>6, <2>1, ErrorGrows
<1>7. CASE /\ objects[o].intent # "reply" /\ HandTo(n, o, Subscribers[objects[o].type])
           /\ timers' = Tail(timers) /\ UNCHANGED sends /\ cancelled \subseteq cancelled'
  <2>1. PICK m, subs : m = objects[o] /\ subs = Subscribers[m.type]
    OBVIOUS
  <2>2. m.intent # "reply" /\ HandTo(n, o, subs)
    BY <1>7, <2>1
  <2>3. TimersOf(timers')
    BY <1>4, <1>7
  <2>4. sends' = sends /\ guids' = guids
    BY <1>3, <1>7
  <2>5. QED
    BY <1>2, <1>4, <2>1, <2>2, <2>3, <2>4, HandToGrows
<1>8. QED
  BY <1>1, <1>2, <1>5, <1>6, <1>7 DEF RunInbound

LEMMA OtherwiseGrows ==
    ASSUME DiagramInv, Otherwise, observed' = observed
    PROVE  DiagramInv'
<1>1. PipelinesInv /\ PipelinesInv'
  BY PipelinesStep DEF DiagramInv, Next
<1>2. CASE Configuring
  BY <1>1, <1>2, ConfiguringGrows
<1>3. CASE \E use \in AppIntents : started /\ SendNew(use[1], use[2], 0)
  <2>1. PICK use \in AppIntents : SendNew(use[1], use[2], 0)
    BY <1>3
  <2>2. use[1] \in Type /\ use[2] \in {"publish", "send", "sendReply"}
    BY PipelinesAssumption
  <2>3. 0 \in 0..Len(contexts)
    BY <1>1, OldMessages
  <2>4. QED
    BY <1>1, <2>1, <2>2, <2>3, SendNewGrows
<1>4. CASE \E o \in DOMAIN objects : SendAgain(o)
  BY <1>1, <1>4, SendAgainGrows
<1>5. CASE RunInbound
  BY <1>1, <1>5, RunInboundGrows
<1>6. CASE \E c \in DOMAIN contexts, use \in HandlerIntents : SendFromHandler(c, use)
  <2>1. PICK c \in DOMAIN contexts, use \in HandlerIntents : SendNew(use[1], use[2], c)
    BY <1>6 DEF SendFromHandler
  <2>2. use[1] \in Type /\ use[2] \in {"publish", "send", "sendReply"}
    BY PipelinesAssumption
  <2>3. c \in 0..Len(contexts)
    BY <1>1, HandlerFacts
  <2>4. QED
    BY <1>1, <2>1, <2>2, <2>3, SendNewGrows
<1>7. CASE \E c \in DOMAIN contexts : ReplyFrom(c) \/ Fail(c)
  BY <1>1, <1>7, ReplyFromGrows, FailGrows
<1>8. QED
  BY <1>2, <1>3, <1>4, <1>5, <1>6, <1>7 DEF Otherwise, UsingTransport, UseTask, Start

-----------------------------------------------------------------------------
(* A step that observes *)

LEMMA SomeTimersLeft ==
    ASSUME PipelinesInv, RunOutbound, NEW h, h = Head(timers).send
    PROVE  /\ h \in DOMAIN sends /\ ~Left(h) /\ Left(h)'
           /\ sends' = sends /\ contexts' = contexts
           /\ \A k \in DOMAIN timers' : timers'[k].stage = "outbound" =>
                 timers'[k].send # h /\ \E j \in DOMAIN timers : timers'[k] = timers[j]
           /\ \A n \in DOMAIN sends : Left(n) => Left(n)'
           /\ \A c \in DOMAIN contexts : contexts[c].send # h
<1>1. timers # <<>> /\ Head(timers).stage = "outbound" /\ sends' = sends /\ contexts' = contexts
  BY DEF RunOutbound
<1>2. timers' = Tail(timers) \/ timers' = Append(Tail(timers), [Head(timers) EXCEPT !.stage = "inbound"])
  <2>1. Tail(timers) \in Seq(Timer) /\ Head(timers) \in Timer
    BY <1>1, OtherTimers
  <2>2. [Head(timers) EXCEPT !.stage = "inbound"] \in Timer
    BY <2>1 DEF Timer
  <2>3. /\ Tail(timers) \o <<>> = Tail(timers)
        /\ Tail(timers) \o <<[Head(timers) EXCEPT !.stage = "inbound"]>> =
               Append(Tail(timers), [Head(timers) EXCEPT !.stage = "inbound"])
    BY <2>1, <2>2, ConcatEmptySeq, AppendIsConcat
  <2>4. QED
    BY <2>3 DEF RunOutbound
<1>3. \A k \in DOMAIN timers' : timers'[k].stage = "outbound" =>
          timers'[k].send # h /\ \E j \in DOMAIN timers : timers'[k] = timers[j]
  BY <1>1, <1>2, TimerRan
<1>4. h \in DOMAIN sends /\ 1 \in DOMAIN timers /\ timers[1].send = h /\ timers[1].stage = "outbound"
  BY <1>1, OtherTimers
<1>5. \A c \in DOMAIN contexts : contexts[c].send # h
  BY <1>4 DEF PipelinesInv, ContextOK
<1>6. QED
  BY <1>1, <1>3, <1>4, <1>5 DEF Left

(* Nothing is observed on a transport without MessageTracingTask. *)
LEMMA UntracedGrows ==
    ASSUME DiagramInv, PipelinesInv', RunOutbound, observed' = observed, UNCHANGED <<objects, guids>>
    PROVE  DiagramInv'
<1>1. PICK h : h = Head(timers).send
  OBVIOUS
<1>2. PipelinesInv /\ guids \in Nat
  BY Known DEF DiagramInv
<1>3. /\ sends' = sends /\ contexts' = contexts
      /\ \A k \in DOMAIN timers' : timers'[k].stage = "outbound" =>
            \E j \in DOMAIN timers : timers'[k] = timers[j]
  BY <1>1, <1>2, SomeTimersLeft
<1>4. Grown
  BY <1>2, <1>3 DEF Grown
<1>5. NewObjectsOK
  BY DEF NewObjectsOK, DiagramInv, Identified
<1>6. \A c \in DOMAIN contexts' : NamedOK(c)'
  BY <1>3, NamesStay
<1>7. QED
  BY <1>3, <1>4, <1>5, <1>6, GrownKeeps

LEMMA TracedKeeps ==
    ASSUME DiagramInv, PipelinesInv', RunOutbound,
           NEW h, h = Head(timers).send, NEW b, b = sends[h].object,
           NEW parent, parent = Parent(sends[h].from),
           observed' = Append(observed, b),
           objects' = [objects EXCEPT ![b] = Traced(objects[b], parent, guids + 1)],
           guids' = guids + 2
    PROVE  DiagramInv'
<1> DEFINE M == Traced(objects[b], parent, guids + 1)
           from == sends[h].from
<1>1. PipelinesInv
  BY DEF DiagramInv
<1>2. /\ h \in DOMAIN sends /\ ~Left(h) /\ Left(h)'
      /\ sends' = sends /\ contexts' = contexts
      /\ \A n \in DOMAIN sends : Left(n) => Left(n)'
      /\ \A c \in DOMAIN contexts : contexts[c].send # h
  BY <1>1, SomeTimersLeft
<1>3. /\ \A n \in DOMAIN sends : /\ sends[n].object \in DOMAIN objects
                                 /\ sends[n].from # 0 =>
                                       /\ sends[n].from \in DOMAIN contexts
                                       /\ OriginOf(n) \in DOMAIN sends
                                       /\ sends[OriginOf(n)].object \in DOMAIN objects
      /\ \A k \in DOMAIN observed : observed[k] \in DOMAIN objects
      /\ \A o \in DOMAIN objects : objects[o] \in Object /\ objects[o].id \in Nat
      /\ guids \in Nat
  BY Known
<1>4. b \in DOMAIN objects /\ objects[b] \in Object /\ b \in Nat
  <2>1. objects \in Seq(Object)
    BY <1>1, OldMessages
  <2>2. DOMAIN objects \subseteq Nat
    BY <2>1, LenProperties
  <2>3. QED
    BY <1>2, <1>3, <2>2
<1>5. /\ from = 0 => parent = 0
      /\ from # 0 => /\ from \in DOMAIN contexts /\ parent = contexts[from].object /\ parent # 0
                     /\ parent \in DOMAIN objects /\ ContextOK(from) /\ NamedOK(from)
  <2>1. from # 0 => from \in DOMAIN contexts
    BY <1>2, <1>3
  <2>2. from # 0 => contexts[from].object \in DOMAIN objects /\ ContextOK(from) /\ NamedOK(from)
    BY <1>1, <2>1, HandlerFacts DEF DiagramInv, PipelinesInv
  <2>3. objects \in Seq(Object)
    BY <1>1, OldMessages
  <2>4. 0 \notin DOMAIN objects
    BY <2>3, LenProperties
  <2>5. QED
    BY <2>1, <2>2, <2>4 DEF Parent
<1>6. /\ M.id = IF objects[b].id # 0 THEN objects[b].id ELSE guids + 1
      /\ M.correlation = IF objects[b].correlation # 0 \/ parent = 0 THEN objects[b].correlation
                         ELSE objects[parent].id
      /\ M.sentBy = IF objects[b].sentBy # Unidentified \/ parent = 0 THEN objects[b].sentBy
                    ELSE objects[parent].receivedBy
      /\ M.intent = objects[b].intent /\ M.replyTo = objects[b].replyTo
      /\ M.receivedBy = objects[b].receivedBy
  BY <1>4 DEF Traced, Object
<1> HIDE DEF M
<1>7. /\ DOMAIN objects' = DOMAIN objects /\ objects'[b] = M
      /\ \A o \in DOMAIN objects : o # b => objects'[o] = objects[o]
  BY <1>4 DEF M
<1>8. M.id \in Nat /\ M.id # 0 /\ M.id <= guids' /\ (objects[b].id = 0 => guids < M.id)
  BY <1>3, <1>4, <1>6 DEF DiagramInv, Identified
<1>9. \A n \in DOMAIN sends : sends[n].object = b => sends[n].from = from /\ (from # 0 => n = h)
  BY <1>1, <1>2 DEF PipelinesInv, SendsApart
<1>10. ASSUME NEW k \in DOMAIN observed, observed[k] = b PROVE ~Single(b) /\ from = 0
  <2>1. PICK n \in DOMAIN sends : sends[n].object = b /\ Left(n)
    BY <1>10 DEF DiagramInv, ObservedOK
  <2>2. n # h
    BY <1>2, <2>1
  <2>3. QED
    BY <1>2, <1>9, <2>1, <2>2 DEF Single
<1>11. \A c \in DOMAIN contexts : Single(b) => sends[contexts[c].send].object # b
  <2> SUFFICES ASSUME NEW c \in DOMAIN contexts, Single(b), sends[contexts[c].send].object = b PROVE FALSE
    OBVIOUS
  <2>1. contexts[c].send \in DOMAIN sends
    BY <1>1, HandlerFacts
  <2>2. contexts[c].send = h
    BY <1>2, <2>1 DEF Single
  <2>3. QED
    BY <1>2, <2>2
<1>12. \A o : Single(o)' = Single(o)
  BY <1>2 DEF Single
<1>13. /\ observed \in Seq(Nat) /\ Len(observed) \in Nat /\ DOMAIN observed = 1..Len(observed)
       /\ observed' \in Seq(Nat) /\ DOMAIN observed' = 1..(Len(observed) + 1)
       /\ \A k \in 1..Len(observed) : observed'[k] = observed[k]
       /\ observed'[Len(observed) + 1] = b
  <2>1. observed \in Seq(Nat)
    BY DEF DiagramInv, ObservedOK
  <2>2. QED
    BY <1>4, <2>1, Appended
<1>14. \A k \in DOMAIN observed' : (k \in DOMAIN observed /\ observed'[k] = observed[k])
                                  \/ (k = Len(observed) + 1 /\ observed'[k] = b)
  BY <1>13
<1>15. ToSet(observed') = ToSet(observed) \cup {b}
  BY <1>13, <1>14 DEF ToSet
<1>16. ObservedOK'
  <2>1. ASSUME NEW k \in DOMAIN observed'
        PROVE  /\ \E n \in DOMAIN sends : sends[n].object = observed'[k] /\ Left(n)'
               /\ objects'[observed'[k]].id # 0
    <3>1. CASE k \in DOMAIN observed /\ observed'[k] = observed[k]
      <4>1. PICK n \in DOMAIN sends : sends[n].object = observed[k] /\ Left(n)
        BY <3>1 DEF DiagramInv, ObservedOK
      <4>2. objects[observed[k]].id # 0 /\ observed[k] \in DOMAIN objects
        BY <1>3, <3>1 DEF DiagramInv, ObservedOK
      <4>3. QED
        BY <1>2, <1>7, <1>8, <3>1, <4>1, <4>2
    <3>2. CASE observed'[k] = b
      BY <1>2, <1>7, <1>8, <3>2
    <3>3. QED
      BY <1>14, <3>1, <3>2
  <2>2. ASSUME NEW j \in DOMAIN observed', NEW k \in DOMAIN observed', NEW o,
               observed'[j] = o, observed'[k] = o, Single(o)
        PROVE  j = k
    <3>1. CASE j \in DOMAIN observed /\ k \in DOMAIN observed
      BY <1>14, <2>2, <3>1, <1>13 DEF DiagramInv, ObservedOK
    <3>2. CASE j \in DOMAIN observed /\ k = Len(observed) + 1
      BY <1>10, <1>13, <2>2, <3>2
    <3>3. CASE j = Len(observed) + 1 /\ k \in DOMAIN observed
      BY <1>10, <1>13, <2>2, <3>3
    <3>4. QED
      BY <1>14, <3>1, <3>2, <3>3
  <2>3. ASSUME NEW j \in DOMAIN observed', NEW k \in DOMAIN observed',
               observed'[j] = observed'[k],
               \A n, m \in DOMAIN sends' :
                   sends'[n].object = observed'[j] /\ sends'[m].object = observed'[j] => n = m
        PROVE  j = k
    <3>1. PICK o : o = observed'[j]
      OBVIOUS
    <3>2. Single(o)
      BY <1>2, <2>3, <3>1 DEF Single
    <3>3. QED
      BY <2>2, <2>3, <3>1, <3>2
  <2>4. \A k \in DOMAIN observed' :
            /\ \E n \in DOMAIN sends' : sends'[n].object = observed'[k] /\ Left(n)'
            /\ objects'[observed'[k]].id # 0
    BY <1>2, <2>1
  <2>5. observed' \in Seq(Nat)
    BY <1>13
  <2>6. QED
    <3>1. \A j, k \in DOMAIN observed' : observed'[j] = observed'[k] /\ Single(observed[j])' => j = k
      BY <2>3, Zenon DEF Single
    <3>2. QED
      BY <2>4, <2>5, <3>1, Zenon DEF ObservedOK
<1>17. OriginsFirst'
  <2> SUFFICES ASSUME NEW k \in DOMAIN observed', NEW n \in DOMAIN sends, NEW p,
                      sends[n].object = observed'[k], sends[n].from # 0,
                      p = sends[OriginOf(n)].object, Single(p)', p \in ToSet(observed')
               PROVE  \E j \in DOMAIN observed' : j < k /\ observed'[j] = p
    BY <1>2 DEF OriginsFirst, OriginOf
  <2>1. Single(p) /\ p # b
    <3>1. Single(p)
      BY <1>12
    <3>2. sends[n].from \in DOMAIN contexts
      BY <1>3
    <3>3. Single(b) => p # b
      BY <1>11, <3>2 DEF OriginOf
    <3>4. p = b => Single(b)
      BY <3>1
    <3>5. QED
      BY <3>1, <3>3, <3>4
  <2>2. p \in ToSet(observed)
    BY <1>15, <2>1
  <2>3. CASE k \in DOMAIN observed /\ observed'[k] = observed[k]
    <3>1. PICK j \in DOMAIN observed : j < k /\ observed[j] = p
      BY <2>1, <2>2, <2>3 DEF DiagramInv, OriginsFirst
    <3>2. QED
      BY <1>13, <3>1
  <2>4. CASE k = Len(observed) + 1
    <3>1. PICK j \in DOMAIN observed : observed[j] = p
      BY <2>2 DEF ToSet
    <3>2. j \in 1..Len(observed)
      BY <1>13, <3>1
    <3>3. j \in DOMAIN observed' /\ observed'[j] = p
      BY <1>13, <3>1, <3>2
    <3>4. j < k
      BY <1>13, <2>4, <3>2
    <3>5. QED
      BY <3>3, <3>4
  <2>5. QED
    BY <1>14, <2>3, <2>4
<1>18. Identified'
  <2>1. \A o \in DOMAIN objects : objects[o].id <= guids /\ (objects[o].intent = "sendReply" => objects[o].id # 0)
    BY DEF DiagramInv, Identified
  <2>2. ASSUME NEW o \in DOMAIN objects
        PROVE  objects'[o].id <= guids' /\ (objects'[o].intent = "sendReply" => objects'[o].id # 0)
    <3>1. CASE o = b
      BY <1>7, <1>8, <3>1
    <3>2. CASE o # b
      BY <1>3, <1>7, <2>1, <3>2
    <3>3. QED
      BY <3>1, <3>2
  <2>3. ASSUME NEW m \in DOMAIN sends, objects'[sends[m].object].id = M.id
        PROVE  sends[m].object = b
    <3> SUFFICES ASSUME sends[m].object # b PROVE FALSE
      OBVIOUS
    <3>1. objects[sends[m].object].id = M.id /\ objects[sends[m].object].id <= guids
      BY <1>3, <1>7, <2>1, <2>3
    <3>2. M.id = objects[b].id
      <4>1. CASE objects[b].id = 0
        <5>1. guids < M.id /\ M.id \in Nat /\ guids \in Nat
          BY <1>3, <1>8, <4>1
        <5>2. M.id <= guids
          BY <3>1
        <5>3. QED
          BY <5>1, <5>2
      <4>2. CASE objects[b].id # 0
        BY <1>6, <4>2
      <4>3. QED
        BY <4>1, <4>2
    <3>3. QED
      BY <1>2, <1>8, <3>1, <3>2 DEF DiagramInv, Identified
  <2>4. ASSUME NEW n \in DOMAIN sends, NEW m \in DOMAIN sends,
               objects'[sends[n].object].id = objects'[sends[m].object].id,
               objects'[sends[n].object].id # 0
        PROVE  sends[n].object = sends[m].object
    <3>1. CASE sends[n].object = b
      BY <1>7, <2>3, <2>4, <3>1
    <3>2. CASE sends[m].object = b
      BY <1>7, <2>3, <2>4, <3>2
    <3>3. CASE sends[n].object # b /\ sends[m].object # b
      BY <1>3, <1>7, <2>4, <3>3 DEF DiagramInv, Identified
    <3>4. QED
      BY <3>1, <3>2, <3>3
  <2>5. \A n, m \in DOMAIN sends' :
            LET o == sends'[n].object
                p == sends'[m].object
            IN  objects'[o].id = objects'[p].id /\ objects'[o].id # 0 => o = p
    <3> SUFFICES ASSUME NEW n \in DOMAIN sends', NEW m \in DOMAIN sends',
                        objects'[sends'[n].object].id = objects'[sends'[m].object].id,
                        objects'[sends'[n].object].id # 0
                 PROVE  sends'[n].object = sends'[m].object
      OBVIOUS
    <3>1. sends' = sends
      BY <1>2
    <3>2. QED
      BY <2>4, <3>1
  <2>6. \A o \in DOMAIN objects' :
            objects'[o].id <= guids' /\ (objects'[o].intent = "sendReply" => objects'[o].id # 0)
    BY <1>7, <2>2
  <2>7. QED
    BY <2>5, <2>6 DEF Identified
<1>19. ASSUME NEW n \in DOMAIN sends PROVE LinkOK(n)'
  <2>0. PICK o, p, subs : /\ o = sends[n].object /\ p = sends[OriginOf(n)].object
                          /\ subs = Subscribers[sends[OriginOf(n)].type]
    OBVIOUS
  <2>1. LinkOK(n) /\ o \in DOMAIN objects
    BY <1>3, <2>0 DEF DiagramInv
  <2>2. CASE sends[n].from = 0
    <3>1. objects[o].correlation = 0 /\ objects[o].sentBy = Unidentified
      BY <2>0, <2>1, <2>2 DEF LinkOK
    <3>2. o = b => parent = 0
      BY <1>5, <1>9, <2>0, <2>2
    <3>3. objects'[o].correlation = 0 /\ objects'[o].sentBy = Unidentified
      BY <1>6, <1>7, <2>1, <3>1, <3>2
    <3>4. QED
      BY <1>2, <2>0, <2>2, <3>3 DEF LinkOK
  <2>3. CASE sends[n].from # 0
    <3>1. sends[n].from \in DOMAIN contexts
      BY <1>3, <2>3
    <3>2. Single(p) => p # b /\ objects'[p] = objects[p]
      BY <1>3, <1>7, <1>11, <2>0, <2>3, <3>1 DEF OriginOf
    <3>3. ~Left(n)' => objects'[o].sentBy = Unidentified
      <4>1. ASSUME ~Left(n)' PROVE objects'[o].sentBy = Unidentified
        <5>1. n # h /\ ~Left(n)
          BY <1>2, <4>1
        <5>2. o # b
          BY <1>9, <2>0, <2>3, <5>1
        <5>3. QED
          BY <1>7, <2>0, <2>1, <2>3, <5>1, <5>2 DEF LinkOK
      <4>2. QED
        BY <4>1
    <3>4. objects'[o].intent = objects[o].intent /\ objects'[o].replyTo = objects[o].replyTo
      BY <1>6, <1>7, <2>1
    <3>5. (objects'[o].intent = "reply" /\ Single(p)) =>
             objects'[o].replyTo = objects'[p].id /\ objects'[o].replyTo # 0
      BY <2>0, <2>1, <2>3, <3>2, <3>4 DEF LinkOK
    <3>6. o \in ToSet(observed') =>
             /\ Single(p) => objects'[o].correlation = objects'[p].id
             /\ Named(subs) => objects'[o].sentBy = subs[1]
      <4>1. CASE o = b
        <5>1. n = h /\ from # 0 /\ OriginOf(n) = contexts[from].send
          BY <1>9, <2>0, <2>3, <4>1 DEF OriginOf
        <5>2. objects[b].sentBy = Unidentified
          BY <1>2, <2>0, <2>1, <2>3, <4>1, <5>1 DEF LinkOK
        <5>3. objects[b].correlation = 0
          <6>1. \E k \in DOMAIN timers : timers[k].stage = "outbound" /\ timers[k].send = h
            BY <1>2 DEF Left
          <6>2. QED
            BY <1>1, <5>1, <6>1 DEF PipelinesInv, TimersOK
        <5>4. objects'[b].correlation = objects[parent].id /\ objects'[b].sentBy = objects[parent].receivedBy
          BY <1>5, <1>6, <1>7, <5>1, <5>2, <5>3
        <5>5. Single(p) => objects[parent].id = objects[p].id
          BY <1>5, <2>0, <5>1 DEF ContextOK
        <5>6. Named(subs) => objects[parent].receivedBy = subs[1]
          BY <1>5, <2>0, <5>1 DEF NamedOK
        <5>7. QED
          BY <3>2, <4>1, <5>4, <5>5, <5>6
      <4>2. CASE o # b
        <5>1. o \in ToSet(observed') => o \in ToSet(observed)
          BY <1>15, <4>2
        <5>2. QED
          BY <1>7, <2>0, <2>1, <2>3, <3>2, <4>2, <5>1 DEF LinkOK
      <4>3. QED
        BY <4>1, <4>2
    <3>7. Single(p)' <=> Single(p)
      BY <1>12
    <3>8. OriginOf(n)' = OriginOf(n)
      BY <1>2 DEF OriginOf
    <3>9. /\ sends'[n].object = o /\ sends'[n].from # 0
          /\ sends'[OriginOf(n)].object = p /\ Subscribers[sends'[OriginOf(n)].type] = subs
      BY <1>2, <2>0, <2>3
    <3>10. p = sends'[contexts'[sends'[n].from].send].object
      BY <3>8, <3>9 DEF OriginOf
    <3>11. QED
      BY <3>3, <3>5, <3>6, <3>7, <3>8, <3>9, <3>10 DEF LinkOK, Single
  <2>4. QED
    BY <2>2, <2>3
<1>20. \A c \in DOMAIN contexts' : NamedOK(c)'
  <2>1. \A o \in DOMAIN objects : objects'[o].receivedBy = objects[o].receivedBy
    BY <1>6, <1>7
  <2>2. QED
    BY <1>2, <2>1, NamesStay
<1>21. QED
  BY <1>2, <1>16, <1>17, <1>18, <1>19, <1>20 DEF DiagramInv

LEMMA ObserveKeeps == ASSUME DiagramInv, ObserveOutbound PROVE DiagramInv'
<1>1. RunOutbound /\ PipelinesInv'
  BY PipelinesStep DEF ObserveOutbound, DiagramInv, Next
<1>2. PICK h, b, parent : /\ h = Head(timers).send /\ b = sends[h].object
                          /\ parent = Parent(sends[h].from)
  OBVIOUS
<1>3. CASE "trace" \in Invoked(Outbound(sends[h].transport))
  <2>1. observed' = Append(observed, b)
    BY <1>2, <1>3 DEF ObserveOutbound
  <2>2. objects' = [objects EXCEPT ![b] = Traced(objects[b], parent, guids + 1)] /\ guids' = guids + 2
    BY <1>1, <1>2, <1>3 DEF RunOutbound
  <2>3. QED
    BY <1>1, <1>2, <2>1, <2>2, TracedKeeps
<1>4. CASE "trace" \notin Invoked(Outbound(sends[h].transport))
  <2>1. observed' = observed
    BY <1>2, <1>4 DEF ObserveOutbound
  <2>2. UNCHANGED <<objects, guids>>
    BY <1>1, <1>2, <1>4 DEF RunOutbound
  <2>3. QED
    BY <1>1, <2>1, <2>2, UntracedGrows
<1>5. QED
  BY <1>3, <1>4

LEMMA DiagramInitOK == ASSUME DiagramInit PROVE DiagramInv
<1>1. PipelinesInv
  BY InitPipelines DEF DiagramInit
<1>2. DOMAIN sends = {} /\ DOMAIN contexts = {} /\ DOMAIN objects = {} /\ DOMAIN observed = {}
  BY DEF DiagramInit, Init
<1>3. observed \in Seq(Nat)
  BY EmptySeq DEF DiagramInit
<1>4. QED
  BY <1>1, <1>2, <1>3 DEF DiagramInv, ObservedOK, OriginsFirst, Identified

(* Watching the messages leaves the bus as it is. *)
THEOREM WatchingIsFree == DiagramSpec => Spec
<1>1. DiagramInit => Init
  BY DEF DiagramInit
<1>2. [DiagramNext]_<<vars, observed>> => [Next]_vars
  BY DEF DiagramNext, ObserveOutbound, Next, vars
<1>3. QED
  BY <1>1, <1>2, PTL DEF DiagramSpec, Spec

(* Every step of the bus, observed or not, keeps the invariant. *)
THEOREM DiagramInvariance == DiagramSpec => []DiagramInv
<1>1. DiagramInv /\ [DiagramNext]_<<vars, observed>> => DiagramInv'
  <2> SUFFICES ASSUME DiagramInv, [DiagramNext]_<<vars, observed>> PROVE DiagramInv'
    OBVIOUS
  <2>1. CASE ObserveOutbound
    BY <2>1, ObserveKeeps
  <2>2. CASE Otherwise /\ UNCHANGED observed
    BY <2>2, OtherwiseGrows
  <2>3. CASE UNCHANGED <<vars, observed>>
    <3>1. PipelinesInv' /\ UNCHANGED <<objects, sends, timers, contexts, guids, observed>>
      BY <2>3, PipelinesStep DEF DiagramInv, vars
    <3>2. Grown /\ NewObjectsOK
      BY <3>1, Known DEF Grown, NewObjectsOK, DiagramInv, Identified
    <3>3. \A c \in DOMAIN contexts' : NamedOK(c)'
      BY <3>1, NamesStay
    <3>4. QED
      BY <3>1, <3>2, <3>3, GrownKeeps
  <2>4. QED
    BY <2>1, <2>2, <2>3 DEF DiagramNext
<1>2. QED
  BY <1>1, DiagramInitOK, PTL DEF DiagramSpec

-----------------------------------------------------------------------------
(* What the diagrams show *)

(* A message from a handler was sent once. *)
LEMMA OriginIs ==
    ASSUME DiagramInv, NEW n \in DOMAIN sends, NEW o, o = sends[n].object,
           Single(o) \/ sends[n].from # 0
    PROVE  Origin(o) = IF sends[n].from = 0 THEN 0 ELSE sends[OriginOf(n)].object
<1>1. Single(o)
  BY DEF Single, DiagramInv, PipelinesInv, SendsApart
<1>2. PICK x : x = CHOOSE s \in DOMAIN sends : sends[s].object = o
  OBVIOUS
<1>3. x \in DOMAIN sends /\ sends[x].object = o
  BY <1>2
<1>4. x = n
  BY <1>1, <1>3 DEF Single
<1>5. QED
  BY <1>2, <1>4 DEF Origin, OriginOf

LEMMA ObservedSent ==
    ASSUME DiagramInv
    PROVE  /\ 0 \notin DOMAIN objects
           /\ observed \in Seq(Nat) /\ Len(observed) \in Nat /\ DOMAIN observed = 1..Len(observed)
           /\ \A o \in ToSet(observed) : \E k \in DOMAIN observed : observed[k] = o
           /\ \A k \in DOMAIN observed : /\ observed[k] \in ToSet(observed)
                                         /\ objects[observed[k]].id # 0
                                         /\ \E n \in DOMAIN sends : sends[n].object = observed[k]
           /\ \A o : ObservedOnce(o) => o \in ToSet(observed) /\ Single(o)
<1>1. PipelinesInv
  BY DEF DiagramInv
<1>2. objects \in Seq(Object)
  BY <1>1, OldMessages
<1>3. 0 \notin DOMAIN objects
  BY <1>2, LenProperties
<1>4. observed \in Seq(Nat)
  BY DEF DiagramInv, ObservedOK
<1>5. Len(observed) \in Nat /\ DOMAIN observed = 1..Len(observed)
  BY <1>4, LenProperties
<1>6. \A k \in DOMAIN observed : /\ objects[observed[k]].id # 0
                                 /\ \E n \in DOMAIN sends : sends[n].object = observed[k]
  BY DEF DiagramInv, ObservedOK
<1>7. \A o : ObservedOnce(o) => o \in ToSet(observed) /\ Single(o)
  BY <1>1, SentBySingle DEF ObservedOnce
<1>8. QED
  BY <1>3, <1>4, <1>5, <1>6, <1>7 DEF ToSet

(* One observed message has the identifier of one that was sent once. *)
LEMMA OnlyOne ==
    ASSUME DiagramInv, NEW j \in DOMAIN observed, Single(observed[j]),
           NEW i \in DOMAIN observed, objects[observed[i]].id = objects[observed[j]].id
    PROVE  i = j
<1>1. PICK n \in DOMAIN sends, m \in DOMAIN sends :
          sends[n].object = observed[i] /\ sends[m].object = observed[j]
  BY ObservedSent
<1>2. objects[observed[i]].id # 0
  BY ObservedSent
<1>3. observed[i] = observed[j]
  BY <1>1, <1>2 DEF DiagramInv, Identified
<1>4. QED
  BY <1>3 DEF DiagramInv, ObservedOK

LEMMA ParentFound ==
    ASSUME DiagramInv, NEW j \in DOMAIN observed, Single(observed[j]),
           NEW m, m.correlation = objects[observed[j]].id
    PROVE  getParentMessage(m) = <<objects[observed[j]]>>
<1> DEFINE parents == {i \in DOMAIN observed : objects[observed[i]].id = m.correlation}
<1>1. parents = {j}
  BY OnlyOne
<1>2. PICK x : x = CHOOSE i \in parents : \A y \in parents : i <= y
  OBVIOUS
<1>3. j <= j
  BY ObservedSent
<1>4. x = j
  BY <1>1, <1>2, <1>3
<1>5. QED
  BY <1>1, <1>2, <1>4 DEF getParentMessage

LEMMA NoParent ==
    ASSUME DiagramInv, NEW m, m.correlation = 0
    PROVE  getParentMessage(m) = <<>>
  BY ObservedSent DEF getParentMessage

(* The tree has every message under the one it was sent for. *)
LEMMA TreeIsRight == ASSUME DiagramInv PROVE TreeOfOrigins
<1> SUFFICES ASSUME NEW k \in DOMAIN observed, NEW o, o = observed[k], SentOnce(o)
             PROVE  /\ Origin(o) = 0 => ParentNode(k) = 0
                    /\ (Origin(o) # 0 /\ ObservedOnce(Origin(o))) => ParentNode(k) = Position(Origin(o))
  BY DEF TreeOfOrigins
<1>1. PipelinesInv /\ Single(o)
  BY SentBySingle DEF DiagramInv
<1>2. PICK n \in DOMAIN sends : sends[n].object = o
  BY ObservedSent
<1>3. Origin(o) = IF sends[n].from = 0 THEN 0 ELSE sends[OriginOf(n)].object
  BY <1>1, <1>2, OriginIs
<1>4. /\ LinkOK(n) /\ SendOK(n) /\ o \in ToSet(observed)
      /\ sends[n].from # 0 => sends[OriginOf(n)].object \in DOMAIN objects
      /\ 0 \notin DOMAIN objects
  BY <1>1, Known, ObservedSent DEF DiagramInv, PipelinesInv
<1>5. k \in 1..Len(observed) /\ Len(observed) \in Nat /\ DOMAIN observed = 1..Len(observed)
  BY ObservedSent
<1> DEFINE nodes == {j \in 1..(k - 1) : objects[observed[j]].id = Cause(objects[o])}
<1>6. CASE Origin(o) = 0
  <2>1. sends[n].from = 0
    BY <1>3, <1>4, <1>6
  <2>2. objects[o].correlation = 0 /\ objects[o].intent # "reply"
    BY <1>2, <1>4, <2>1 DEF LinkOK, SendOK
  <2>3. \A j \in 1..(k - 1) : objects[observed[j]].id # 0
    <3>1. \A j \in 1..(k - 1) : j \in DOMAIN observed
      BY <1>5
    <3>2. \A j \in DOMAIN observed : objects[observed[j]].id # 0
      BY ObservedSent
    <3>3. QED
      BY <3>1, <3>2
  <2>4. nodes = {}
    BY <2>2, <2>3 DEF Cause
  <2>5. QED
    BY <1>6, <2>4 DEF ParentNode
<1>7. CASE Origin(o) # 0 /\ ObservedOnce(Origin(o))
  <2>1. PICK p : p = Origin(o)
    OBVIOUS
  <2>2. /\ sends[n].from # 0 /\ p = sends[OriginOf(n)].object
        /\ Single(p) /\ p \in ToSet(observed)
    BY <1>3, <1>7, <2>1, ObservedSent
  <2>3. PICK j \in DOMAIN observed : j < k /\ observed[j] = p
    BY <1>2, <2>2 DEF DiagramInv, OriginsFirst
  <2>4. Cause(objects[o]) = objects[observed[j]].id
    BY <1>2, <1>4, <2>2, <2>3 DEF LinkOK, Cause
  <2>5. j \in nodes
    BY <1>5, <2>3, <2>4
  <2>6. ASSUME NEW i \in nodes PROVE i = j
    <3>1. i \in DOMAIN observed
      BY <1>5
    <3>2. objects[observed[i]].id = objects[observed[j]].id
      BY <2>4
    <3>3. QED
      BY <2>2, <2>3, <3>1, <3>2, OnlyOne
  <2>7. nodes = {j}
    BY <2>5, <2>6
  <2>8. ParentNode(k) = j
    <3>1. PICK x : x = CHOOSE i \in nodes : \A y \in nodes : y <= i
      OBVIOUS
    <3>2. j <= j
      BY <1>5
    <3>3. x = j
      BY <2>7, <3>1, <3>2
    <3>4. QED
      BY <2>7, <3>1, <3>3 DEF ParentNode
  <2>9. Position(p) = j
    <3>1. PICK x : x = CHOOSE i \in DOMAIN observed : observed[i] = p
      OBVIOUS
    <3>2. x \in DOMAIN observed /\ observed[x] = p
      BY <2>3, <3>1
    <3>3. x = j
      BY <2>2, <2>3, <3>2, OnlyOne
    <3>4. QED
      BY <3>1, <3>3 DEF Position
  <2>10. QED
    BY <1>7, <2>1, <2>8, <2>9
<1>8. QED
  BY <1>6, <1>7

(* The arrow of a reply comes back to where that of its request started. *)
LEMMA ArrowsAreRight == ASSUME DiagramInv PROVE RepliesDrawnToRequester
<1> SUFFICES ASSUME NEW o \in ToSet(observed), objects[o].intent = "reply",
                    NEW q, q = Origin(o), ObservedOnce(q),
                    NEW a, a = Origin(q),
                    a = 0 \/ (ObservedOnce(a) /\ Named(Subscribers[objects[a].type]))
             PROVE  ReplyArrowTo(objects[o]) = ArrowFrom(objects[q])
  BY DEF RepliesDrawnToRequester
<1>1. PipelinesInv
  BY DEF DiagramInv
<1>2. PICK n \in DOMAIN sends : sends[n].object = o
  BY ObservedSent
<1>3. sends[n].from # 0 /\ q = sends[OriginOf(n)].object
  <2>1. SendOK(n)
    BY <1>1 DEF PipelinesInv
  <2>2. sends[n].from # 0
    BY <1>2, <2>1 DEF SendOK
  <2>3. QED
    BY <1>2, <2>2, OriginIs
<1>4. Single(q) /\ q \in ToSet(observed)
  BY ObservedSent
<1>5. PICK j \in DOMAIN observed : observed[j] = q
  BY <1>4, ObservedSent
<1>6. objects[o].correlation = objects[observed[j]].id
  BY <1>2, <1>3, <1>4, <1>5 DEF DiagramInv, LinkOK
<1>7. getParentMessage(objects[o])[1] = objects[q]
  BY <1>4, <1>5, <1>6, ParentFound
<1>8. PICK m \in DOMAIN sends : sends[m].object = q
  BY <1>5, ObservedSent
<1>9. a = IF sends[m].from = 0 THEN 0 ELSE sends[OriginOf(m)].object
  BY <1>4, <1>8, OriginIs
<1>10. /\ LinkOK(m)
       /\ sends[m].from # 0 => /\ sends[m].from \in DOMAIN contexts
                               /\ OriginOf(m) \in DOMAIN sends
                               /\ sends[OriginOf(m)].object \in DOMAIN objects
       /\ 0 \notin DOMAIN objects
  BY Known, ObservedSent DEF DiagramInv
<1>11. CASE a = 0
  <2>1. sends[m].from = 0
    BY <1>9, <1>10, <1>11
  <2>2. objects[q].correlation = 0 /\ objects[q].sentBy = Unidentified
    BY <1>8, <1>10, <2>1 DEF LinkOK
  <2>3. getParentMessage(objects[q]) = <<>>
    BY <2>2, NoParent
  <2>4. ReplyArrowTo(objects[o]) = startProcess
    BY <1>7, <2>3 DEF ReplyArrowTo
  <2>5. QED
    BY <2>2, <2>4 DEF ArrowFrom
<1>12. CASE a # 0 /\ ObservedOnce(a) /\ Named(Subscribers[objects[a].type])
  <2>1. /\ sends[m].from # 0 /\ a = sends[OriginOf(m)].object
        /\ Single(a) /\ a \in ToSet(observed)
    BY <1>9, <1>12, ObservedSent
  <2>2. PICK i \in DOMAIN observed : observed[i] = a
    BY <2>1, ObservedSent
  <2>3. PICK subs : subs = Subscribers[objects[a].type]
    OBVIOUS
  <2>4. Subscribers[sends[OriginOf(m)].type] = subs
    <3>1. SendOK(OriginOf(m))
      BY <1>1, <1>10, <2>1 DEF PipelinesInv
    <3>2. QED
      BY <2>1, <2>3, <3>1 DEF SendOK
  <2>5. objects[q].correlation = objects[observed[i]].id /\ objects[q].sentBy = subs[1]
    BY <1>4, <1>8, <1>10, <1>12, <2>1, <2>2, <2>3, <2>4 DEF LinkOK
  <2>6. getParentMessage(objects[q]) = <<objects[a]>>
    BY <2>1, <2>2, <2>5, ParentFound
  <2>7. objects[a].receivedBy = subs[1]
    <3>1. PICK c : c = sends[m].from
      OBVIOUS
    <3>2. c \in DOMAIN contexts /\ contexts[c].send = OriginOf(m)
      BY <1>10, <2>1, <3>1 DEF OriginOf
    <3>3. ContextOK(c) /\ NamedOK(c)
      BY <1>1, <3>2 DEF DiagramInv, PipelinesInv
    <3>4. Len(subs) = 1
      BY <1>12, <2>3 DEF Named
    <3>5. contexts[c].object = a
      <4>1. Len(subs) <= 1 => contexts[c].object = sends[contexts[c].send].object
        BY <2>4, <3>2, <3>3 DEF ContextOK
      <4>2. QED
        BY <2>1, <3>2, <3>4, <4>1
    <3>6. QED
      BY <1>12, <2>3, <2>4, <3>2, <3>3, <3>5 DEF NamedOK
  <2>8. ReplyArrowTo(objects[o]) = objects[a].receivedBy
    BY <1>7, <2>6 DEF ReplyArrowTo
  <2>9. ArrowFrom(objects[q]) = subs[1]
    BY <1>12, <2>3, <2>5 DEF ArrowFrom, Named
  <2>10. QED
    BY <2>7, <2>8, <2>9
<1>13. QED
  BY <1>11, <1>12

(* The tree of messages is that of who sent what for what, whatever is     *)
(* configured and sent (Convert.ts 9-25).                                  *)
THEOREM TreesShowOrigins == DiagramSpec => []TreeOfOrigins
<1>1. QED
  BY DiagramInvariance, TreeIsRight, PTL

(* A reply is drawn to where its request was drawn from (Mermaid.ts 50-85). *)
THEOREM RepliesPointBack == DiagramSpec => []RepliesDrawnToRequester
<1>1. QED
  BY DiagramInvariance, ArrowsAreRight, PTL
=============================================================================
