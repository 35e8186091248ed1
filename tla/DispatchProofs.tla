--------------------------- MODULE DispatchProofs ---------------------------
(***************************************************************************)
(* Proofs about Dispatch for any number of subscriptions, messages and     *)
(* handlers: type correctness, the mutual exclusion the two policies       *)
(* cancelExisting and ignoreIfExisting promise, that no subscription stays *)
(* marked as busy behind its last handler, and that cancelled handlers are *)
(* never heard after a newer one; then the way of a message: each is in    *)
(* one place at a time, those without a delay are processed in the order   *)
(* they were sent, an event reaches every subscriber once or is held back  *)
(* by one refusal, and a command has one outcome.                          *)
(***************************************************************************)
EXTENDS Dispatch, SequenceTheorems, FiniteSetTheorems, TLAPS

USE ConstantsAssumption DEF Sub, Policies, Message

(* Appending to a sequence, in the form the proofs below use it. *)
LEMMA Appending ==
    ASSUME NEW S, NEW q \in Seq(S), NEW x \in S
    PROVE  /\ Append(q, x) \in Seq(S)
           /\ Len(Append(q, x)) = Len(q) + 1
           /\ \A i \in 1..Len(q) : Append(q, x)[i] = q[i]
           /\ Append(q, x)[Len(q) + 1] = x
  BY AppendProperties

(* The record sets only grow while messages and contexts are added. *)
LEMMA RecordsGrow ==
    ASSUME TypeOK,
           Len(sent') \in Nat, Len(sent) <= Len(sent'),
           Len(contexts') \in Nat, Len(contexts) <= Len(contexts')
    PROVE  /\ MessageIds \subseteq MessageIds'
           /\ ContextRecord \subseteq ContextRecord'
           /\ MessageRecord \subseteq MessageRecord'
           /\ TimerRecord \subseteq TimerRecord'
           /\ LoopRecord \subseteq LoopRecord'
           /\ LookupRecord \subseteq LookupRecord'
<1>1. Len(sent) \in Nat /\ Len(contexts) \in Nat
  BY LenProperties DEF TypeOK
<1>2. MessageIds \subseteq MessageIds'
  BY <1>1 DEF MessageIds
<1>3. 0..Len(sent) \subseteq 0..Len(sent') /\ 0..Len(contexts) \subseteq 0..Len(contexts')
  BY <1>1
<1>4. ContextRecord \subseteq ContextRecord'
  BY <1>2 DEF ContextRecord
<1>5. MessageRecord \subseteq MessageRecord'
  BY <1>3 DEF MessageRecord
<1>6. TimerRecord \subseteq TimerRecord'
  BY <1>2 DEF TimerRecord
<1>7. LoopRecord \subseteq LoopRecord' /\ LookupRecord \subseteq LookupRecord'
  BY <1>2 DEF LoopRecord, LookupRecord
<1>8. QED
  BY <1>2, <1>4, <1>5, <1>6, <1>7

(* Types a step keeps when it changes nothing but adds messages, contexts. *)
LEMMA TypesKept ==
    ASSUME TypeOK,
           Len(sent') \in Nat, Len(sent) <= Len(sent'),
           Len(contexts') \in Nat, Len(contexts) <= Len(contexts')
    PROVE  /\ contexts \in Seq(ContextRecord')
           /\ sent \in Seq(MessageRecord')
           /\ timers \in Seq(TimerRecord')
           /\ delayTimers \subseteq MessageIds'
           /\ loop \in LoopRecord'
           /\ lookups \in Seq(LookupRecord')
           /\ ignored \subseteq Sub \X MessageIds'
           /\ context \in [Sub -> 0..Len(contexts')]
<1>1. Len(sent) \in Nat /\ Len(contexts) \in Nat
  BY LenProperties DEF TypeOK
<1>2. 0..Len(contexts) \subseteq 0..Len(contexts')
  BY <1>1
<1>3. contexts \in Seq(ContextRecord')
  BY RecordsGrow, SeqMonotonic DEF TypeOK
<1>4. sent \in Seq(MessageRecord')
  BY RecordsGrow, SeqMonotonic DEF TypeOK
<1>5. timers \in Seq(TimerRecord')
  BY RecordsGrow, SeqMonotonic DEF TypeOK
<1>6. lookups \in Seq(LookupRecord')
  BY RecordsGrow, SeqMonotonic DEF TypeOK
<1>7. loop \in LoopRecord' /\ delayTimers \subseteq MessageIds'
  BY RecordsGrow DEF TypeOK
<1>8. ignored \subseteq Sub \X MessageIds'
  BY RecordsGrow DEF TypeOK
<1>9. context \in [Sub -> 0..Len(contexts')]
  BY <1>2 DEF TypeOK
<1>10. QED
  BY <1>3, <1>4, <1>5, <1>6, <1>7, <1>8, <1>9

(* A message put in the pipeline leaves the messages and timers typed. *)
LEMMA PuttingTypes ==
    ASSUME TypeOK,
           NEW message \in Message, NEW from \in 0..Len(contexts), NEW about \in 0..Len(sent),
           NEW queue \in Seq(TimerRecord),
           PutInPipeline(Outgoing(message, from, about), queue),
           Len(contexts') = Len(contexts)
    PROVE  /\ sent' \in Seq(MessageRecord')
           /\ timers' \in Seq(TimerRecord')
           /\ Len(sent') = Len(sent) + 1
<1> DEFINE new == Outgoing(message, from, about)
           timer == [stage |-> "outbound", msg |-> Len(sent) + 1]
<1>1. Len(sent) \in Nat /\ Len(contexts) \in Nat /\ sent \in Seq(MessageRecord)
  BY LenProperties DEF TypeOK
<1>2. new \in MessageRecord
  BY DEF Outgoing, MessageRecord
<1>3. Len(sent') = Len(sent) + 1
  BY <1>1, <1>2, Appending DEF PutInPipeline
<1>4. /\ MessageRecord \subseteq MessageRecord'
      /\ TimerRecord \subseteq TimerRecord'
  BY <1>1, <1>3, RecordsGrow
<1>5. sent' \in Seq(MessageRecord')
  <2>1. sent \in Seq(MessageRecord')
    BY <1>1, <1>4, SeqMonotonic
  <2>2. QED
    BY <1>2, <1>4, <2>1, Appending DEF PutInPipeline
<1>6. timers' \in Seq(TimerRecord')
  <2>1. queue \in Seq(TimerRecord')
    BY <1>4, SeqMonotonic
  <2>2. timer \in TimerRecord'
    BY <1>1, <1>3 DEF TimerRecord, MessageIds
  <2>3. QED
    BY <2>1, <2>2, Appending DEF PutInPipeline
<1>7. QED
  BY <1>3, <1>5, <1>6

(* The error the bus publishes is a message like any other. *)
LEMMA ErrorIsMessage ==
    ASSUME NEW from, NEW about
    PROVE  \E message \in Message : ErrorMessage(from, about) = Outgoing(message, from, about)
<1>1. (CHOOSE p \in Payload : TRUE) \in Payload
  OBVIOUS
<1>2. QED
  BY <1>1 DEF ErrorMessage

(* What is left of the queue after its first timer. *)
LEMMA TailTypes ==
    ASSUME TypeOK, timers # <<>>
    PROVE  Tail(timers) \in Seq(TimerRecord) /\ Head(timers) \in TimerRecord
  BY HeadTailProperties DEF TypeOK

(* Cancelling changes one field of one context at most. *)
LEMMA CancellingTypes ==
    ASSUME TypeOK, NEW s \in Sub
    PROVE  /\ AfterCancelling(s) \in Seq(ContextRecord)
           /\ Len(AfterCancelling(s)) = Len(contexts)
           /\ \A c \in 1..Len(contexts) :
                /\ AfterCancelling(s)[c].sub = contexts[c].sub
                /\ AfterCancelling(s)[c].msg = contexts[c].msg
                /\ AfterCancelling(s)[c].status = contexts[c].status
                /\ AfterCancelling(s)[c].wasCancelled =
                     (contexts[c].wasCancelled \/
                       (isProcessing[s] /\ Policy[s] = "cancelExisting" /\ c = context[s]))
<1> DEFINE old == contexts[context[s]]
           new == [old EXCEPT !.wasCancelled = TRUE]
<1>1. contexts \in Seq(ContextRecord) /\ Len(contexts) \in Nat
      /\ contexts \in [1..Len(contexts) -> ContextRecord]
      /\ DOMAIN contexts = 1..Len(contexts)
  BY LenProperties DEF TypeOK
<1>2. \A c \in 1..Len(contexts) : contexts[c].wasCancelled \in BOOLEAN
  BY <1>1 DEF ContextRecord
<1>3. CASE ~(isProcessing[s] /\ Policy[s] = "cancelExisting")
  BY <1>1, <1>2, <1>3 DEF AfterCancelling
<1>4. CASE isProcessing[s] /\ Policy[s] = "cancelExisting" /\ context[s] = 0
  <2>1. AfterCancelling(s) = contexts
    BY <1>1, <1>4 DEF AfterCancelling
  <2>2. QED
    BY <1>1, <1>2, <1>4, <2>1
<1>5. CASE isProcessing[s] /\ Policy[s] = "cancelExisting" /\ context[s] \in 1..Len(contexts)
  <2>1. AfterCancelling(s) = [contexts EXCEPT ![context[s]] = new]
    BY <1>5 DEF AfterCancelling
  <2>2. /\ new \in ContextRecord
        /\ new.sub = old.sub /\ new.msg = old.msg
        /\ new.status = old.status /\ new.wasCancelled = TRUE
    BY ZenonT(40), <1>1, <1>5 DEF ContextRecord
  <2> HIDE DEF new
  <2>3. /\ AfterCancelling(s) \in Seq(ContextRecord)
        /\ Len(AfterCancelling(s)) = Len(contexts)
        /\ \A c \in 1..Len(contexts) :
             AfterCancelling(s)[c] = IF c = context[s] THEN new ELSE contexts[c]
    BY <1>1, <1>5, <2>1, <2>2, ExceptSeq
  <2>4. QED
    BY <1>2, <1>5, <2>2, <2>3
<1>6. context[s] \in 0..Len(contexts)
  BY DEF TypeOK
<1>7. QED
  BY <1>1, <1>3, <1>4, <1>5, <1>6

(* Handing a message to a subscriber: the contexts before and after.  The  *)
(* first disjunct is a refusal.                                            *)
LEMMA HandToEffect ==
    ASSUME TypeOK, NEW s \in Sub, NEW m \in MessageIds, NEW pending, HandTo(s, m, pending)
    PROVE  \/ UNCHANGED handlerVars
           \/ /\ ~Refuses(s, m)
              /\ Len(contexts') = Len(contexts) + 1
              /\ contexts' \in Seq(ContextRecord)
              /\ context' = [context EXCEPT ![s] = Len(contexts) + 1]
              /\ isProcessing' = [isProcessing EXCEPT ![s] = TRUE]
              /\ contexts'[Len(contexts) + 1] =
                   [sub |-> s, msg |-> m, status |-> "running", wasCancelled |-> FALSE]
              /\ \A c \in 1..Len(contexts) : contexts'[c] = AfterCancelling(s)[c]
<1> DEFINE new == [sub |-> s, msg |-> m, status |-> "running", wasCancelled |-> FALSE]
<1>1. new \in ContextRecord
  BY DEF ContextRecord
<1>2. CASE Refuses(s, m)
  BY <1>2 DEF HandTo
<1>3. CASE ~Refuses(s, m)
  <2>1. contexts' = Append(AfterCancelling(s), new)
    BY <1>3 DEF HandTo
  <2>2. /\ context' = [context EXCEPT ![s] = Len(contexts) + 1]
        /\ isProcessing' = [isProcessing EXCEPT ![s] = TRUE]
    BY <1>3 DEF HandTo
  <2>3. QED
    BY <1>1, <1>3, <2>1, <2>2, CancellingTypes, Appending
<1>4. QED
  BY <1>2, <1>3

LEMMA HandToTypes ==
    ASSUME TypeOK, NEW s \in Sub, NEW m \in MessageIds, NEW pending \in SUBSET Sub,
           HandTo(s, m, pending), UNCHANGED <<sent, created, messageSubscriptions>>
    PROVE  /\ Len(contexts') \in Nat /\ Len(contexts) <= Len(contexts')
           /\ isProcessing' \in [Sub -> BOOLEAN]
           /\ context' \in [Sub -> 0..Len(contexts')]
           /\ contexts' \in Seq(ContextRecord')
           /\ loop' \in LoopRecord'
           /\ ignored' \subseteq Sub \X MessageIds'
<1>1. Len(contexts) \in Nat /\ Len(sent) \in Nat
  BY LenProperties DEF TypeOK
<1>2. ContextRecord' = ContextRecord /\ LoopRecord' = LoopRecord /\ MessageIds' = MessageIds
  BY DEF ContextRecord, LoopRecord, MessageIds
<1>3. /\ contexts' \in Seq(ContextRecord)
      /\ isProcessing' \in [Sub -> BOOLEAN]
      /\ context' \in [Sub -> 0..Len(contexts')]
      /\ Len(contexts') \in Nat /\ Len(contexts) <= Len(contexts')
  <2>1. CASE UNCHANGED handlerVars
    BY <1>1, <2>1 DEF TypeOK, handlerVars
  <2>2. CASE ~UNCHANGED handlerVars
    <3>1. /\ Len(contexts') = Len(contexts) + 1
          /\ contexts' \in Seq(ContextRecord)
          /\ context' = [context EXCEPT ![s] = Len(contexts) + 1]
          /\ isProcessing' = [isProcessing EXCEPT ![s] = TRUE]
      BY <2>2, HandToEffect
    <3>2. QED
      BY <1>1, <3>1 DEF TypeOK
  <2>3. QED
    BY <2>1, <2>2
<1>4. loop' \in LoopRecord /\ ignored' \subseteq Sub \X MessageIds
  <2>1. \/ loop' = NoLoop
        \/ loop' = [msg |-> m, pending |-> pending \ {s}]
    BY DEF HandTo
  <2>2. NoLoop \in LoopRecord /\ [msg |-> m, pending |-> pending \ {s}] \in LoopRecord
    BY DEF NoLoop, LoopRecord
  <2>3. ignored' = ignored \/ ignored' = ignored \cup {<<s, m>>}
    BY DEF HandTo
  <2>4. <<s, m>> \in Sub \X MessageIds /\ ignored \subseteq Sub \X MessageIds
    BY DEF TypeOK
  <2>5. QED
    BY <2>1, <2>2, <2>3, <2>4
<1>5. QED
  BY <1>2, <1>3, <1>4

(* The end of a handler changes the status of its context only. *)
LEMMA EndEffect ==
    ASSUME TypeOK, NEW c \in 1..Len(contexts), NEW status \in {"done", "failed"},
           End(c, status)
    PROVE  /\ contexts' \in Seq(ContextRecord)
           /\ Len(contexts') = Len(contexts)
           /\ isProcessing' \in [Sub -> BOOLEAN]
           /\ contexts'[c].status = status
           /\ \A d \in 1..Len(contexts) :
                /\ contexts'[d].sub = contexts[d].sub
                /\ contexts'[d].msg = contexts[d].msg
                /\ contexts'[d].wasCancelled = contexts[d].wasCancelled
                /\ d # c => contexts'[d] = contexts[d]
<1> DEFINE new == [contexts[c] EXCEPT !.status = status]
<1>1. contexts \in Seq(ContextRecord) /\ contexts \in [1..Len(contexts) -> ContextRecord]
  BY LenProperties DEF TypeOK
<1>2. contexts' = [contexts EXCEPT ![c] = new]
  BY DEF End
<1>3. /\ new \in ContextRecord /\ new.status = status
      /\ new.sub = contexts[c].sub /\ new.msg = contexts[c].msg
      /\ new.wasCancelled = contexts[c].wasCancelled
  BY SMTT(40), <1>1 DEF ContextRecord
<1>4. isProcessing' \in [Sub -> BOOLEAN]
  BY <1>1 DEF End, TypeOK, ContextRecord
<1>5. QED
  BY <1>1, <1>2, <1>3, <1>4, ExceptSeq

-----------------------------------------------------------------------------
(* Type correctness *)

LEMMA InitTyped == Init => TypeOK
<1> SUFFICES ASSUME Init PROVE TypeOK
  OBVIOUS
<1>1. <<>> \in Seq(ContextRecord) /\ <<>> \in Seq(MessageRecord) /\ <<>> \in Seq(TimerRecord)
      /\ <<>> \in Seq(LookupRecord) /\ Len(contexts) = 0
  BY EmptySeq DEF Init
<1>2. loop \in LoopRecord
  BY DEF Init, NoLoop, LoopRecord
<1>3. QED
  BY <1>1, <1>2 DEF Init, TypeOK

(* Sending, by whomever: one message and one timer more. *)
LEMMA SendTyped ==
    ASSUME TypeOK, NEW message \in Message, NEW from \in 0..Len(contexts),
           PutInPipeline(Outgoing(message, from, 0), timers),
           UNCHANGED <<subscriptionVars, handlerVars, delayTimers, loop, lookups, ignored>>
    PROVE  TypeOK'
<1>1. Len(sent) \in Nat /\ Len(contexts) \in Nat /\ timers \in Seq(TimerRecord)
  BY LenProperties DEF TypeOK
<1>2. Len(contexts') = Len(contexts)
  BY DEF handlerVars
<1>3. /\ sent' \in Seq(MessageRecord') /\ timers' \in Seq(TimerRecord')
      /\ Len(sent') = Len(sent) + 1
  BY <1>1, <1>2, PuttingTypes
<1>4. QED
  BY <1>1, <1>2, <1>3, TypesKept DEF TypeOK, subscriptionVars, handlerVars

LEMMA SubscribersTyped ==
    ASSUME TypeOK, NEW m
    PROVE  Subscribers(m) \in SUBSET Sub
<1>1. Subscribers(m) \subseteq messageSubscriptions
  BY DEF Subscribers
<1>2. messageSubscriptions \subseteq Sub
  <2>1. created \in 0..SubCount /\ messageSubscriptions \subseteq 1..created
    BY DEF TypeOK
  <2>2. QED
    BY <2>1 DEF ConstantsAssumption
<1>3. QED
  BY <1>1, <1>2

LEMMA RunOutboundTyped == TypeOK /\ RunOutbound => TypeOK'
<1> SUFFICES ASSUME TypeOK, RunOutbound PROVE TypeOK'
  OBVIOUS
<1> DEFINE m == Head(timers).msg
<1>1. UNCHANGED <<subscriptionVars, handlerVars, sent, loop, lookups, ignored>>
  BY DEF RunOutbound
<1>2. Tail(timers) \in Seq(TimerRecord) /\ m \in MessageIds
  BY TailTypes DEF RunOutbound, TimerRecord
<1>3. delayTimers' \subseteq MessageIds
  BY <1>2 DEF RunOutbound, TypeOK
<1>4. InboundTimer(m) \in TimerRecord
  BY <1>2 DEF InboundTimer, TimerRecord
<1>5. timers' \in Seq(TimerRecord)
  <2>1. timers' = Tail(timers) \/ timers' = Append(Tail(timers), InboundTimer(m))
    BY Zenon DEF RunOutbound
  <2>2. Append(Tail(timers), InboundTimer(m)) \in Seq(TimerRecord)
    BY <1>2, <1>4, AppendProperties
  <2>3. QED
    BY <1>2, <2>1, <2>2, Zenon
<1>6. QED
  BY <1>1, <1>3, <1>5
  DEF TypeOK, subscriptionVars, handlerVars, MessageIds, ContextRecord, MessageRecord,
      TimerRecord, LoopRecord, LookupRecord

LEMMA DelayElapsesTyped == ASSUME TypeOK, NEW m, DelayElapses(m) PROVE TypeOK'
<1>1. UNCHANGED <<subscriptionVars, handlerVars, sent, loop, lookups, ignored>>
  BY DEF DelayElapses
<1>2. m \in MessageIds /\ delayTimers' \subseteq MessageIds
  BY DEF DelayElapses, TypeOK
<1>3. InboundTimer(m) \in TimerRecord
  BY <1>2 DEF InboundTimer, TimerRecord
<1>4. timers' \in Seq(TimerRecord)
  BY <1>3, Appending DEF DelayElapses, TypeOK
<1>5. QED
  BY <1>1, <1>2, <1>4
  DEF TypeOK, subscriptionVars, handlerVars, MessageIds, ContextRecord, MessageRecord,
      TimerRecord, LoopRecord, LookupRecord

(* The first timer is inbound: its message exists, and so does the record  *)
(* of the lookup.                                                          *)
LEMMA InboundTyped ==
    ASSUME TypeOK, NEW m, InboundReady(m)
    PROVE  /\ m \in MessageIds
           /\ Tail(timers) \in Seq(TimerRecord)
           /\ lookups' \in Seq(LookupRecord)
<1>1. Tail(timers) \in Seq(TimerRecord) /\ Head(timers) \in TimerRecord
  BY TailTypes DEF InboundReady
<1>2. m \in MessageIds
  BY <1>1 DEF InboundReady, InboundTimer, TimerRecord
<1>3. [msg |-> m, subs |-> Subscribers(m)] \in LookupRecord
  BY <1>2, SubscribersTyped DEF LookupRecord
<1>4. QED
  BY <1>1, <1>2, <1>3, Appending DEF InboundReady, TypeOK

LEMMA RejectCommandTyped == ASSUME TypeOK, NEW m, RejectCommand(m) PROVE TypeOK'
<1>1. PICK message \in Message : ErrorMessage(0, m) = Outgoing(message, 0, m)
  BY ErrorIsMessage
<1>2. Len(sent) \in Nat /\ Len(contexts) \in Nat
  BY LenProperties DEF TypeOK
<1>3. /\ InboundReady(m)
      /\ UNCHANGED <<subscriptionVars, handlerVars, delayTimers, loop, ignored>>
      /\ PutInPipeline(Outgoing(message, 0, m), Tail(timers))
  BY <1>1 DEF RejectCommand
<1>4. /\ m \in MessageIds /\ Tail(timers) \in Seq(TimerRecord)
      /\ lookups' \in Seq(LookupRecord)
  BY <1>3, InboundTyped
<1>5. m \in 0..Len(sent) /\ 0 \in 0..Len(contexts)
  BY <1>2, <1>4 DEF MessageIds
<1>6. Len(contexts') = Len(contexts)
  BY <1>3 DEF handlerVars
<1>7. /\ sent' \in Seq(MessageRecord') /\ timers' \in Seq(TimerRecord')
      /\ Len(sent') = Len(sent) + 1
  BY <1>3, <1>4, <1>5, <1>6, PuttingTypes
<1>8. lookups' \in Seq(LookupRecord')
  BY <1>2, <1>4, <1>6, <1>7, RecordsGrow, SeqMonotonic
<1>9. QED
  BY SMTT(20), <1>2, <1>3, <1>6, <1>7, <1>8, TypesKept DEF TypeOK, subscriptionVars, handlerVars

LEMMA NobodyListensTyped == ASSUME TypeOK, NEW m, NobodyListens(m) PROVE TypeOK'
<1>1. /\ lookups' \in Seq(LookupRecord) /\ timers' \in Seq(TimerRecord)
      /\ UNCHANGED <<subscriptionVars, handlerVars, sent, delayTimers, loop, ignored>>
  BY InboundTyped DEF NobodyListens
<1>2. QED
  BY <1>1
  DEF TypeOK, subscriptionVars, handlerVars, MessageIds, ContextRecord, MessageRecord,
      TimerRecord, LoopRecord, LookupRecord

(* The part of a step that hands a message to a subscriber. *)
LEMMA HandingTyped ==
    ASSUME TypeOK, NEW s \in Sub, NEW m \in MessageIds, NEW pending \in SUBSET Sub,
           HandTo(s, m, pending),
           UNCHANGED <<subscriptionVars, sent, delayTimers>>,
           timers' \in Seq(TimerRecord), lookups' \in Seq(LookupRecord)
    PROVE  TypeOK'
<1>1. UNCHANGED <<sent, created, messageSubscriptions, delayTimers>>
  BY DEF subscriptionVars
<1>2. /\ Len(contexts') \in Nat /\ Len(contexts) <= Len(contexts')
      /\ isProcessing' \in [Sub -> BOOLEAN]
      /\ context' \in [Sub -> 0..Len(contexts')]
      /\ contexts' \in Seq(ContextRecord')
      /\ loop' \in LoopRecord'
      /\ ignored' \subseteq Sub \X MessageIds'
  BY <1>1, HandToTypes
<1>3. Len(sent') \in Nat /\ Len(sent) <= Len(sent')
  BY <1>1, LenProperties DEF TypeOK
<1>4. timers' \in Seq(TimerRecord') /\ lookups' \in Seq(LookupRecord')
  BY <1>2, <1>3, RecordsGrow, SeqMonotonic
<1>5. QED
  BY <1>1, <1>2, <1>3, <1>4, TypesKept DEF TypeOK

LEMMA FailTyped == ASSUME TypeOK, NEW c \in DOMAIN contexts, Fail(c) PROVE TypeOK'
<1>1. /\ Len(sent) \in Nat /\ Len(contexts) \in Nat /\ DOMAIN contexts = 1..Len(contexts)
      /\ contexts[c] \in ContextRecord /\ timers \in Seq(TimerRecord)
  BY LenProperties DEF TypeOK
<1>2. /\ contexts' \in Seq(ContextRecord) /\ Len(contexts') = Len(contexts)
      /\ isProcessing' \in [Sub -> BOOLEAN]
  BY <1>1, EndEffect DEF Fail
<1>3. UNCHANGED <<subscriptionVars, context, delayTimers, loop, lookups, ignored>>
  BY DEF Fail, End
<1>4. CASE contexts[c].wasCancelled
  <2>1. UNCHANGED <<sent, timers>>
    BY <1>4 DEF Fail
  <2>2. QED
    BY <1>2, <1>3, <2>1
    DEF TypeOK, subscriptionVars, MessageIds, ContextRecord, MessageRecord, TimerRecord,
        LoopRecord, LookupRecord
<1>5. CASE ~contexts[c].wasCancelled
  <2> DEFINE m == contexts[c].msg
  <2>1. PICK message \in Message : ErrorMessage(c, m) = Outgoing(message, c, m)
    BY ErrorIsMessage
  <2>2. m \in 0..Len(sent) /\ c \in 0..Len(contexts)
    BY <1>1 DEF ContextRecord, MessageIds
  <2>3. PutInPipeline(Outgoing(message, c, m), timers)
    BY <1>5, <2>1 DEF Fail
  <2>4. /\ sent' \in Seq(MessageRecord') /\ timers' \in Seq(TimerRecord')
        /\ Len(sent') = Len(sent) + 1
    BY <1>1, <1>2, <2>2, <2>3, PuttingTypes
  <2>5. contexts' \in Seq(ContextRecord')
    BY <1>1, <1>2, <2>4, RecordsGrow, SeqMonotonic
  <2>6. QED
    BY <1>1, <1>2, <1>3, <2>4, <2>5, TypesKept DEF TypeOK, subscriptionVars
<1>6. QED
  BY <1>4, <1>5

LEMMA CompleteTyped == ASSUME TypeOK, NEW c \in DOMAIN contexts, Complete(c) PROVE TypeOK'
<1>1. DOMAIN contexts = 1..Len(contexts)
  BY LenProperties DEF TypeOK
<1>2. /\ contexts' \in Seq(ContextRecord) /\ Len(contexts') = Len(contexts)
      /\ isProcessing' \in [Sub -> BOOLEAN]
  BY <1>1, EndEffect DEF Complete
<1>3. UNCHANGED <<subscriptionVars, context, delayTimers, loop, lookups, ignored, sent, timers>>
  BY DEF Complete, End
<1>4. QED
  BY <1>2, <1>3
  DEF TypeOK, subscriptionVars, MessageIds, ContextRecord, MessageRecord, TimerRecord,
      LoopRecord, LookupRecord

LEMMA NextTyped == TypeOK /\ [Next]_vars => TypeOK'
<1> SUFFICES ASSUME TypeOK, [Next]_vars PROVE TypeOK'
  OBVIOUS
<1> USE DEF subscriptionVars, handlerVars
<1>1. ASSUME NEW message \in AppSends, Send(message) PROVE TypeOK'
  <2>1. message \in Message /\ 0 \in 0..Len(contexts)
    BY LenProperties DEF TypeOK, ConstantsAssumption
  <2>2. QED
    BY <1>1, <2>1, SendTyped DEF Send
<1>2. ASSUME NEW c \in DOMAIN contexts, NEW message \in HandlerSends,
             SendFromHandler(c, message)
      PROVE  TypeOK'
  <2>1. message \in Message /\ c \in 0..Len(contexts)
    BY LenProperties DEF TypeOK, ConstantsAssumption
  <2>2. QED
    BY <1>2, <2>1, SendTyped DEF SendFromHandler
<1>3. CASE Subscribe
  BY SMTT(40), <1>3 DEF Subscribe, TypeOK, MessageIds, ContextRecord, MessageRecord, TimerRecord,
              LoopRecord, LookupRecord
<1>4. ASSUME NEW s \in Sub, Unsubscribe(s) PROVE TypeOK'
  BY <1>4 DEF Unsubscribe, TypeOK, MessageIds, ContextRecord, MessageRecord, TimerRecord,
              LoopRecord, LookupRecord
<1>5. ASSUME NEW m \in DOMAIN sent, NEW s \in Sub, StartLoop(m, s) PROVE TypeOK'
  <2>1. InboundReady(m)
    BY <1>5 DEF StartLoop
  <2>2. m \in MessageIds /\ timers' \in Seq(TimerRecord) /\ lookups' \in Seq(LookupRecord)
    BY <1>5, <2>1, InboundTyped DEF StartLoop
  <2>3. QED
    BY <1>5, <2>2, SubscribersTyped, HandingTyped DEF StartLoop
<1>6. ASSUME NEW s \in Sub, ContinueLoop(s) PROVE TypeOK'
  <2>1. loop.msg \in MessageIds /\ loop.pending \in SUBSET Sub
    BY <1>6 DEF ContinueLoop, TypeOK, LoopRecord
  <2>2. timers' \in Seq(TimerRecord) /\ lookups' \in Seq(LookupRecord)
    BY <1>6 DEF ContinueLoop, TypeOK
  <2>3. QED
    BY <1>6, <2>1, <2>2, HandingTyped DEF ContinueLoop
<1>7. CASE UNCHANGED vars
  BY <1>7 DEF vars, TypeOK, MessageIds, ContextRecord, MessageRecord, TimerRecord,
              LoopRecord, LookupRecord
<1>8. QED
  BY <1>1, <1>2, <1>3, <1>4, <1>5, <1>6, <1>7, RunOutboundTyped, DelayElapsesTyped,
     RejectCommandTyped, NobodyListensTyped, FailTyped, CompleteTyped
  DEF Next, RunInbound

(* Every variable keeps its type, and every identifier stored anywhere     *)
(* points at a message, a subscription or a context that exists.           *)
THEOREM TypeCorrect == Spec => []TypeOK
  BY InitTyped, NextTyped, PTL DEF Spec

-----------------------------------------------------------------------------
(* The cancellation policies *)

(* subscription.context is the newest context of its subscription. *)
LatestContext ==
    \A c \in DOMAIN contexts : c <= context[contexts[c].sub]

CancelledByPolicy ==
    \A c \in DOMAIN contexts :
        contexts[c].wasCancelled => Policy[contexts[c].sub] = "cancelExisting"

(* With an exclusive policy the subscription is marked as processing while *)
(* a live handler runs, and that handler is the newest.                    *)
LiveIsLatest ==
    \A c \in DOMAIN contexts :
        /\ Policy[contexts[c].sub] \in {"cancelExisting", "ignoreIfExisting"}
        /\ Live(c)
        => isProcessing[contexts[c].sub] /\ c = context[contexts[c].sub]

(* The inductive invariant.  The mutual exclusion alone is not inductive:  *)
(* it needs the flag to be set exactly while the newest handler is live.   *)
PolicyInv ==
    /\ TypeOK
    /\ LatestContext
    /\ NeverLockedOut
    /\ CancelledByPolicy
    /\ LiveIsLatest

LEMMA InitPolicy == Init => PolicyInv
<1> SUFFICES ASSUME Init PROVE PolicyInv
  OBVIOUS
<1>1. DOMAIN contexts = {}
  BY DEF Init
<1>2. NeverLockedOut
  BY DEF Init, NeverLockedOut
<1>3. QED
  BY <1>1, <1>2, InitTyped DEF PolicyInv, LatestContext, CancelledByPolicy, LiveIsLatest

LEMMA ContextFacts ==
    ASSUME TypeOK
    PROVE  /\ Len(contexts) \in Nat
           /\ DOMAIN contexts = 1..Len(contexts)
           /\ \A d \in 1..Len(contexts) :
                contexts[d].sub \in Sub /\ contexts[d].wasCancelled \in BOOLEAN
           /\ isProcessing \in [Sub -> BOOLEAN]
           /\ context \in [Sub -> 0..Len(contexts)]
<1>1. contexts \in Seq(ContextRecord)
  BY DEF TypeOK
<1>2. /\ Len(contexts) \in Nat /\ DOMAIN contexts = 1..Len(contexts)
      /\ contexts \in [1..Len(contexts) -> ContextRecord]
  BY <1>1, LenProperties
<1>3. \A d \in 1..Len(contexts) :
         contexts[d].sub \in Sub /\ contexts[d].wasCancelled \in BOOLEAN
  BY <1>2 DEF ContextRecord
<1>4. isProcessing \in [Sub -> BOOLEAN] /\ context \in [Sub -> 0..Len(contexts)]
  BY DEF TypeOK
<1>5. QED
  BY <1>2, <1>3, <1>4

(* A step that leaves subscriptions' handlers alone. *)
LEMMA OthersKeepPolicy ==
    ASSUME PolicyInv, TypeOK', UNCHANGED handlerVars
    PROVE  PolicyInv'
  BY DEF PolicyInv, handlerVars, LatestContext, NeverLockedOut, CancelledByPolicy,
         LiveIsLatest, Live, Running

LEMMA HandingKeepsPolicy ==
    ASSUME PolicyInv, TypeOK', NEW s \in Sub, NEW m \in MessageIds, NEW pending,
           HandTo(s, m, pending)
    PROVE  PolicyInv'
<1> DEFINE n == Len(contexts) + 1
<1>1. CASE UNCHANGED handlerVars
  BY <1>1, OthersKeepPolicy
<1>2. CASE ~UNCHANGED handlerVars
  <2>1. /\ ~Refuses(s, m)
        /\ Len(contexts') = n
        /\ contexts' \in Seq(ContextRecord)
        /\ context' = [context EXCEPT ![s] = n]
        /\ isProcessing' = [isProcessing EXCEPT ![s] = TRUE]
        /\ contexts'[n] = [sub |-> s, msg |-> m, status |-> "running", wasCancelled |-> FALSE]
        /\ \A c \in 1..Len(contexts) : contexts'[c] = AfterCancelling(s)[c]
    BY <1>2, HandToEffect DEF PolicyInv
  <2>2. \A c \in 1..Len(contexts) :
          /\ contexts'[c].sub = contexts[c].sub
          /\ contexts'[c].status = contexts[c].status
          /\ contexts'[c].wasCancelled =
               (contexts[c].wasCancelled \/
                 (isProcessing[s] /\ Policy[s] = "cancelExisting" /\ c = context[s]))
    BY <2>1, CancellingTypes DEF PolicyInv
  <2>3. /\ Len(contexts) \in Nat
        /\ DOMAIN contexts = 1..Len(contexts) /\ DOMAIN contexts' = 1..n
        /\ \A c \in 1..Len(contexts) :
             contexts[c].sub \in Sub /\ contexts[c].wasCancelled \in BOOLEAN
        /\ isProcessing \in [Sub -> BOOLEAN] /\ context \in [Sub -> 0..Len(contexts)]
    <3>1. DOMAIN contexts' = 1..n
      BY <2>1, LenProperties
    <3>2. QED
      BY <3>1, ContextFacts DEF PolicyInv
  <2>4. isProcessing[s] => context[s] \in 1..Len(contexts) /\ contexts[context[s]].sub = s
    BY <2>3 DEF PolicyInv, NeverLockedOut, Live, Running
  <2>5. LatestContext'
    <3> SUFFICES ASSUME NEW c \in 1..n PROVE c <= context'[contexts'[c].sub]
      BY <2>3 DEF LatestContext
    <3>1. CASE c = n
      BY <2>1, <2>3, <3>1
    <3>2. CASE c \in 1..Len(contexts)
      <4>1. contexts'[c].sub = contexts[c].sub /\ c <= context[contexts[c].sub]
        BY <2>2, <2>3, <3>2 DEF PolicyInv, LatestContext
      <4>2. QED
        BY <2>1, <2>3, <3>2, <4>1
    <3>3. QED
      BY SMTT(40), <2>3, <3>1, <3>2
  <2>6. NeverLockedOut'
    <3> SUFFICES ASSUME NEW u \in Sub, isProcessing'[u]
                 PROVE  Live(context[u])' /\ contexts'[context'[u]].sub = u
      BY DEF NeverLockedOut
    <3>1. CASE u = s
      BY <2>1, <2>3, <3>1 DEF Live, Running
    <3>2. CASE u # s
      <4>1. context'[u] = context[u] /\ isProcessing[u]
        BY <2>1, <2>3, <3>2
      <4>2. /\ context[u] \in 1..Len(contexts) /\ contexts[context[u]].sub = u
            /\ contexts[context[u]].status = "running" /\ ~contexts[context[u]].wasCancelled
        BY <2>3, <4>1 DEF PolicyInv, NeverLockedOut, Live, Running
      <4>3. ~contexts'[context[u]].wasCancelled
        BY <2>2, <2>4, <3>2, <4>2
      <4>4. QED
        BY <2>2, <2>3, <4>1, <4>2, <4>3 DEF Live, Running
    <3>3. QED
      BY <3>1, <3>2
  <2>7. CancelledByPolicy'
    <3> SUFFICES ASSUME NEW c \in 1..n, contexts'[c].wasCancelled
                 PROVE  Policy[contexts'[c].sub] = "cancelExisting"
      BY <2>3 DEF CancelledByPolicy
    <3>1. c \in 1..Len(contexts)
      BY <2>1, <2>3
    <3>2. CASE contexts[c].wasCancelled
      BY <2>2, <2>3, <3>1, <3>2 DEF PolicyInv, CancelledByPolicy
    <3>3. CASE ~contexts[c].wasCancelled
      BY <2>2, <2>3, <2>4, <3>1, <3>3
    <3>4. QED
      BY <3>2, <3>3
  <2>8. LiveIsLatest'
    <3> SUFFICES ASSUME NEW c \in 1..n,
                        Policy[contexts'[c].sub] \in {"cancelExisting", "ignoreIfExisting"},
                        Live(c)'
                 PROVE  isProcessing'[contexts'[c].sub] /\ c = context'[contexts'[c].sub]
      BY <2>3 DEF LiveIsLatest
    <3>1. CASE c = n
      BY <2>1, <2>3, <3>1
    <3>2. CASE c \in 1..Len(contexts)
      <4> DEFINE u == contexts[c].sub
      <4>1. Live(c) /\ contexts'[c].sub = u /\ u \in Sub
        BY <2>2, <2>3, <3>2 DEF Live, Running
      <4>2. isProcessing[u] /\ c = context[u]
        BY <2>3, <3>2, <4>1 DEF PolicyInv, LiveIsLatest
      <4>3. u # s
        <5> SUFFICES ASSUME u = s PROVE FALSE
          OBVIOUS
        <5>1. Policy[s] = "cancelExisting"
          BY <2>1, <4>1, <4>2 DEF Refuses
        <5>2. contexts'[c].wasCancelled
          BY <2>2, <3>2, <4>2, <5>1
        <5>3. QED
          BY <5>2 DEF Live
      <4>4. QED
        BY <2>1, <2>3, <4>1, <4>2, <4>3
    <3>3. QED
      BY <2>3, <3>1, <3>2
  <2>9. QED
    BY <2>5, <2>6, <2>7, <2>8 DEF PolicyInv
<1>3. QED
  BY <1>1, <1>2

LEMMA EndKeepsPolicy ==
    ASSUME PolicyInv, TypeOK', NEW c \in DOMAIN contexts, NEW status \in {"done", "failed"},
           End(c, status)
    PROVE  PolicyInv'
<1> DEFINE o == contexts[c].sub
<1>1. /\ Len(contexts) \in Nat /\ DOMAIN contexts = 1..Len(contexts)
      /\ \A d \in 1..Len(contexts) :
           contexts[d].sub \in Sub /\ contexts[d].wasCancelled \in BOOLEAN
      /\ isProcessing \in [Sub -> BOOLEAN] /\ context \in [Sub -> 0..Len(contexts)]
  BY ContextFacts DEF PolicyInv
<1>2. /\ contexts' \in Seq(ContextRecord) /\ Len(contexts') = Len(contexts)
      /\ contexts'[c].status = status
      /\ \A d \in 1..Len(contexts) :
           /\ contexts'[d].sub = contexts[d].sub
           /\ contexts'[d].wasCancelled = contexts[d].wasCancelled
           /\ d # c => contexts'[d] = contexts[d]
  BY <1>1, EndEffect DEF PolicyInv
<1>3. DOMAIN contexts' = 1..Len(contexts)
  BY <1>2, LenProperties
<1>4. /\ context' = context
      /\ contexts[c].wasCancelled => isProcessing' = isProcessing
      /\ ~contexts[c].wasCancelled => isProcessing' = [isProcessing EXCEPT ![o] = FALSE]
      /\ contexts[c].status = "running"
  BY DEF End, Running
<1>5. \A d \in 1..Len(contexts) : Live(d)' <=> Live(d) /\ d # c
  BY <1>1, <1>2, <1>3 DEF Live, Running
<1>6. LatestContext' /\ CancelledByPolicy'
  <2>1. LatestContext /\ CancelledByPolicy
    BY DEF PolicyInv
  <2>2. LatestContext'
    BY <1>1, <1>2, <1>3, <1>4, <2>1 DEF LatestContext
  <2>3. CancelledByPolicy'
    <3> SUFFICES ASSUME NEW d \in 1..Len(contexts), contexts'[d].wasCancelled
                 PROVE  Policy[contexts'[d].sub] = "cancelExisting"
      BY <1>3 DEF CancelledByPolicy
    <3>1. contexts[d].wasCancelled /\ contexts'[d].sub = contexts[d].sub
      BY <1>2
    <3>2. Policy[contexts[d].sub] = "cancelExisting"
      BY <1>1, <2>1, <3>1 DEF CancelledByPolicy
    <3>3. QED
      BY <3>1, <3>2
  <2>4. QED
    BY <2>2, <2>3
<1>7. NeverLockedOut'
  <2> SUFFICES ASSUME NEW u \in Sub, isProcessing'[u]
               PROVE  Live(context[u])' /\ contexts'[context'[u]].sub = u
    BY DEF NeverLockedOut
  <2>1. isProcessing[u] /\ (~contexts[c].wasCancelled => u # o)
    BY <1>1, <1>4
  <2>2. Live(context[u]) /\ contexts[context[u]].sub = u /\ context[u] \in 1..Len(contexts)
    BY <1>1, <2>1 DEF PolicyInv, NeverLockedOut, Live, Running
  <2>3. context[u] # c
    BY <2>1, <2>2 DEF Live
  <2>4. QED
    BY <1>2, <1>4, <1>5, <2>2, <2>3
<1>8. LiveIsLatest'
  <2> SUFFICES ASSUME NEW d \in 1..Len(contexts),
                      Policy[contexts'[d].sub] \in {"cancelExisting", "ignoreIfExisting"},
                      Live(d)'
               PROVE  isProcessing'[contexts'[d].sub] /\ d = context'[contexts'[d].sub]
    BY <1>3 DEF LiveIsLatest
  <2> DEFINE u == contexts[d].sub
  <2>1. Live(d) /\ d # c /\ contexts'[d].sub = u
    BY <1>2, <1>5
  <2>2. isProcessing[u] /\ d = context[u]
    BY <1>1, <2>1 DEF PolicyInv, LiveIsLatest
  <2>3. ~contexts[c].wasCancelled => u # o
    <3> SUFFICES ASSUME ~contexts[c].wasCancelled, u = o PROVE FALSE
      OBVIOUS
    <3>1. Live(c)
      BY <1>4 DEF Live, Running
    <3>2. c = context[o]
      BY <2>1, <3>1 DEF PolicyInv, LiveIsLatest
    <3>3. QED
      BY <2>1, <2>2, <3>2
  <2>4. QED
    BY <1>1, <1>4, <2>1, <2>2, <2>3
<1>9. QED
  BY <1>6, <1>7, <1>8 DEF PolicyInv

LEMMA NextKeepsPolicy == PolicyInv /\ [Next]_vars => PolicyInv'
<1> SUFFICES ASSUME PolicyInv, [Next]_vars PROVE PolicyInv'
  OBVIOUS
<1>1. TypeOK /\ TypeOK'
  BY NextTyped DEF PolicyInv
<1>2. ASSUME NEW c \in DOMAIN contexts, Complete(c) \/ Fail(c) PROVE PolicyInv'
  <2>1. End(c, "done") \/ End(c, "failed")
    BY <1>2 DEF Complete, Fail
  <2>2. QED
    BY <1>1, <2>1, EndKeepsPolicy
<1>3. ASSUME NEW m, NEW s \in Sub, StartLoop(m, s) PROVE PolicyInv'
  <2>1. m \in MessageIds
    BY <1>1, <1>3, InboundTyped DEF StartLoop
  <2>2. HandTo(s, m, Subscribers(m))
    BY <1>3 DEF StartLoop
  <2>3. QED
    BY <1>1, <2>1, <2>2, HandingKeepsPolicy
<1>4. ASSUME NEW s \in Sub, ContinueLoop(s) PROVE PolicyInv'
  <2>1. loop.msg \in MessageIds /\ HandTo(s, loop.msg, loop.pending)
    BY <1>1, <1>4 DEF ContinueLoop, TypeOK, LoopRecord
  <2>2. QED
    BY <1>1, <2>1, HandingKeepsPolicy
<1>5. CASE UNCHANGED handlerVars
  BY <1>1, <1>5, OthersKeepPolicy
<1>6. \/ UNCHANGED handlerVars
      \/ \E c \in DOMAIN contexts : Complete(c) \/ Fail(c)
      \/ \E m \in DOMAIN sent : \E s \in Sub : StartLoop(m, s)
      \/ \E s \in Sub : ContinueLoop(s)
  BY DEF Next, vars, handlerVars, Send, SendFromHandler, Subscribe, Unsubscribe, RunOutbound,
         DelayElapses, RunInbound, RejectCommand, NobodyListens
<1>7. QED
  BY <1>2, <1>3, <1>4, <1>5, <1>6

(* The inductive invariant holds in every reachable state. *)
THEOREM PolicyInvariance == Spec => []PolicyInv
  BY InitPolicy, NextKeepsPolicy, PTL DEF Spec

(* With ignoreIfExisting no two handlers of a subscription ever run at the *)
(* same time.                                                              *)
THEOREM IgnoringIsExclusive == Spec => []IgnoreExistingExclusive
<1>1. PolicyInv => IgnoreExistingExclusive
  <2> SUFFICES ASSUME PolicyInv, NEW c \in DOMAIN contexts, NEW d \in DOMAIN contexts,
                      Policy[contexts[c].sub] = "ignoreIfExisting", SameSubscription(c, d),
                      Running(c), Running(d)
               PROVE  c = d
    BY DEF IgnoreExistingExclusive
  <2>1. ~contexts[c].wasCancelled /\ ~contexts[d].wasCancelled
    BY DEF PolicyInv, CancelledByPolicy, SameSubscription
  <2>2. Live(c) /\ Live(d)
    BY <2>1 DEF Live
  <2>3. QED
    BY <2>2 DEF PolicyInv, LiveIsLatest, SameSubscription
<1>2. QED
  BY <1>1, PolicyInvariance, PTL

(* With cancelExisting at most one handler of a subscription is running    *)
(* and not cancelled.                                                      *)
THEOREM CancellingLeavesOne == Spec => []OneLiveHandler
<1>1. PolicyInv => OneLiveHandler
  BY DEF PolicyInv, LiveIsLatest, OneLiveHandler, SameSubscription
<1>2. QED
  BY <1>1, PolicyInvariance, PTL

(* A subscription marked as processing has its newest handler live, so     *)
(* that no policy refuses messages after the last handler has ended.       *)
THEOREM BusyMeansLive == Spec => []NeverLockedOut
<1>1. PolicyInv => NeverLockedOut
  BY DEF PolicyInv
<1>2. QED
  BY <1>1, PolicyInvariance, PTL

(* Only the start of a newer handler of the same subscription cancels a    *)
(* handler, and only one that is running.                                  *)
LEMMA StepCancelsByNewer ==
    PolicyInv /\ [Next]_vars =>
      \A c \in DOMAIN contexts :
          ~contexts[c].wasCancelled /\ contexts'[c].wasCancelled =>
              /\ Running(c)
              /\ Len(contexts') = Len(contexts) + 1
              /\ contexts'[Len(contexts')].sub = contexts[c].sub
              /\ Policy[contexts[c].sub] = "cancelExisting"
<1> SUFFICES ASSUME PolicyInv, [Next]_vars, NEW c \in DOMAIN contexts,
                    ~contexts[c].wasCancelled, contexts'[c].wasCancelled
             PROVE  /\ Running(c)
                    /\ Len(contexts') = Len(contexts) + 1
                    /\ contexts'[Len(contexts')].sub = contexts[c].sub
                    /\ Policy[contexts[c].sub] = "cancelExisting"
  OBVIOUS
<1>1. TypeOK /\ c \in 1..Len(contexts) /\ contexts[c].wasCancelled \in BOOLEAN
  BY ContextFacts DEF PolicyInv
<1>2. ASSUME NEW d \in DOMAIN contexts, Complete(d) \/ Fail(d) PROVE FALSE
  <2>1. d \in 1..Len(contexts) /\ (End(d, "done") \/ End(d, "failed"))
    BY <1>1, <1>2, ContextFacts DEF Complete, Fail
  <2>2. QED
    BY <1>1, <2>1, EndEffect
<1>3. ASSUME NEW s \in Sub, NEW m \in MessageIds, NEW pending, HandTo(s, m, pending)
      PROVE  /\ Running(c)
             /\ Len(contexts') = Len(contexts) + 1
             /\ contexts'[Len(contexts')].sub = contexts[c].sub
             /\ Policy[contexts[c].sub] = "cancelExisting"
  <2>1. ~UNCHANGED handlerVars
    BY DEF handlerVars
  <2>2. /\ Len(contexts') = Len(contexts) + 1
        /\ contexts'[Len(contexts) + 1] =
             [sub |-> s, msg |-> m, status |-> "running", wasCancelled |-> FALSE]
        /\ \A d \in 1..Len(contexts) : contexts'[d] = AfterCancelling(s)[d]
    BY <1>1, <1>3, <2>1, HandToEffect
  <2>3. isProcessing[s] /\ Policy[s] = "cancelExisting" /\ c = context[s]
    BY <1>1, <2>2, CancellingTypes
  <2>4. Running(c) /\ contexts[c].sub = s
    BY <2>3 DEF PolicyInv, NeverLockedOut, Live
  <2>5. QED
    BY <2>2, <2>3, <2>4
<1>4. ASSUME NEW m, NEW s \in Sub, StartLoop(m, s)
      PROVE  \E n \in MessageIds, pending \in SUBSET Sub : HandTo(s, n, pending)
  BY <1>1, <1>4, InboundTyped, SubscribersTyped DEF StartLoop
<1>5. ASSUME NEW s \in Sub, ContinueLoop(s)
      PROVE  \E n \in MessageIds, pending \in SUBSET Sub : HandTo(s, n, pending)
  BY <1>1, <1>5 DEF ContinueLoop, TypeOK, LoopRecord
<1>6. ~UNCHANGED contexts
  OBVIOUS
<1>7. \/ \E d \in DOMAIN contexts : Complete(d) \/ Fail(d)
      \/ \E m \in DOMAIN sent : \E s \in Sub : StartLoop(m, s)
      \/ \E s \in Sub : ContinueLoop(s)
  BY <1>6 DEF Next, vars, handlerVars, Send, SendFromHandler, Subscribe, Unsubscribe,
              RunOutbound, DelayElapses, RunInbound, RejectCommand, NobodyListens
<1>8. QED
  BY <1>2, <1>3, <1>4, <1>5, <1>7

(* Only the start of a newer handler cancels a running one. *)
THEOREM OnlyNewerCancels == Spec => CancelledOnlyByNewer
  BY PolicyInvariance, StepCancelsByNewer, PTL DEF Spec, CancelledOnlyByNewer

-----------------------------------------------------------------------------
(* A cancelled handler is not heard again *)

(* A handler that returned uncancelled is never cancelled nor runs again:  *)
(* only the newest handler of a busy subscription is cancelled, and that   *)
(* one is running.                                                         *)
Ended(c) == ~Running(c) /\ ~contexts[c].wasCancelled

EndedStayEnded == \A d \in DOMAIN contexts : Ended(d) => Ended(d)'

KeepSubscriptions == \A d \in DOMAIN contexts : contexts'[d].sub = contexts[d].sub

LEMMA EndingKeepsEnded ==
    ASSUME PolicyInv, NEW c \in DOMAIN contexts, NEW status \in {"done", "failed"},
           End(c, status)
    PROVE  EndedStayEnded /\ KeepSubscriptions
<1>1. TypeOK /\ DOMAIN contexts = 1..Len(contexts) /\ Running(c)
  BY ContextFacts DEF PolicyInv, End
<1>2. /\ Len(contexts') = Len(contexts)
      /\ contexts'[c].status = status
      /\ \A d \in 1..Len(contexts) :
           /\ contexts'[d].sub = contexts[d].sub
           /\ contexts'[d].wasCancelled = contexts[d].wasCancelled
           /\ d # c => contexts'[d] = contexts[d]
  BY <1>1, EndEffect
<1>3. ASSUME NEW d \in DOMAIN contexts, Ended(d) PROVE Ended(d)'
  <2>1. d # c /\ contexts'[d] = contexts[d]
    BY <1>1, <1>2, <1>3 DEF Ended
  <2>2. contexts[d].status # "running" /\ ~contexts[d].wasCancelled
    BY <1>3 DEF Ended, Running
  <2>3. QED
    BY <2>1, <2>2 DEF Ended, Running
<1>4. QED
  BY <1>1, <1>2, <1>3 DEF EndedStayEnded, KeepSubscriptions

LEMMA HandingKeepsEnded ==
    ASSUME PolicyInv, NEW s \in Sub, NEW m \in MessageIds, NEW pending, HandTo(s, m, pending)
    PROVE  EndedStayEnded /\ KeepSubscriptions
<1>1. TypeOK /\ DOMAIN contexts = 1..Len(contexts)
  BY ContextFacts DEF PolicyInv
<1>2. CASE UNCHANGED handlerVars
  BY <1>2 DEF handlerVars, EndedStayEnded, KeepSubscriptions, Ended, Running
<1>3. CASE ~UNCHANGED handlerVars
  <2>1. \A d \in 1..Len(contexts) : contexts'[d] = AfterCancelling(s)[d]
    BY <1>1, <1>3, HandToEffect
  <2>2. \A d \in 1..Len(contexts) :
          /\ contexts'[d].sub = contexts[d].sub
          /\ contexts'[d].status = contexts[d].status
          /\ contexts'[d].wasCancelled =
               (contexts[d].wasCancelled \/
                 (isProcessing[s] /\ Policy[s] = "cancelExisting" /\ d = context[s]))
    BY <1>1, <2>1, CancellingTypes
  <2>3. ASSUME NEW d \in DOMAIN contexts, Ended(d) PROVE Ended(d)'
    <3>1. contexts[d].status # "running" /\ ~contexts[d].wasCancelled
      BY <2>3 DEF Ended, Running
    <3>2. ~(isProcessing[s] /\ d = context[s])
      BY <3>1 DEF PolicyInv, NeverLockedOut, Live, Running
    <3>3. contexts'[d].status # "running" /\ ~contexts'[d].wasCancelled
      BY <1>1, <2>2, <3>1, <3>2
    <3>4. QED
      BY <3>3 DEF Ended, Running
  <2>4. QED
    BY <1>1, <2>2, <2>3 DEF EndedStayEnded, KeepSubscriptions
<1>4. QED
  BY <1>2, <1>3

LEMMA SameContextsKeepEnded ==
    contexts' = contexts => EndedStayEnded /\ KeepSubscriptions
  BY DEF EndedStayEnded, KeepSubscriptions, Ended, Running

(* The senders of two messages are handlers that exist. *)
LEMMA SpeakersExist ==
    ASSUME PolicyInv
    PROVE  /\ Len(sent) \in Nat /\ DOMAIN sent = 1..Len(sent) /\ sent \in Seq(MessageRecord)
           /\ Len(contexts) \in Nat /\ DOMAIN contexts = 1..Len(contexts)
           /\ \A i \in 1..Len(sent) :
                /\ sent[i].from \in 0..Len(contexts)
                /\ sent[i].from > 0 => sent[i].from \in DOMAIN contexts
<1>1. sent \in Seq(MessageRecord)
  BY DEF PolicyInv, TypeOK
<1>2. Len(sent) \in Nat /\ DOMAIN sent = 1..Len(sent) /\ sent \in [1..Len(sent) -> MessageRecord]
  BY <1>1, LenProperties
<1>3. \A i \in 1..Len(sent) : sent[i].from \in 0..Len(contexts)
  BY <1>2 DEF MessageRecord
<1>4. Len(contexts) \in Nat /\ DOMAIN contexts = 1..Len(contexts)
  BY ContextFacts DEF PolicyInv
<1>5. \A i \in 1..Len(sent) : sent[i].from > 0 => sent[i].from \in DOMAIN contexts
  BY <1>3, <1>4
<1>6. QED
  BY <1>1, <1>2, <1>3, <1>4, <1>5

(* A step in which nobody sends. *)
LEMMA NobodySends ==
    ASSUME PolicyInv, LateSpeakersHadEnded, sent' = sent, EndedStayEnded, KeepSubscriptions
    PROVE  LateSpeakersHadEnded'
<1> SUFFICES ASSUME NEW i \in DOMAIN sent, NEW j \in DOMAIN sent,
                    i < j, 0 < sent[j].from, sent[j].from < sent[i].from,
                    SameSubscription(sent[j].from, sent[i].from)',
                    Policy[contexts'[sent[j].from].sub] = "cancelExisting"
             PROVE  Ended(sent[j].from)'
  BY DEF LateSpeakersHadEnded, Ended
<1>1. /\ DOMAIN sent = 1..Len(sent)
      /\ sent[i].from \in 0..Len(contexts) /\ sent[j].from \in 0..Len(contexts)
      /\ sent[j].from \in DOMAIN contexts
      /\ sent[i].from > 0 => sent[i].from \in DOMAIN contexts
  BY SpeakersExist
<1>2. sent[i].from \in DOMAIN contexts
  BY <1>1, SpeakersExist
<1>3. /\ SameSubscription(sent[j].from, sent[i].from)
      /\ Policy[contexts[sent[j].from].sub] = "cancelExisting"
  BY <1>1, <1>2 DEF KeepSubscriptions, SameSubscription
<1>4. Ended(sent[j].from)
  BY <1>3 DEF LateSpeakersHadEnded, Ended
<1>5. QED
  BY <1>1, <1>4 DEF EndedStayEnded

(* A step in which the application, the bus or a handler that was not      *)
(* cancelled sends.                                                        *)
LEMMA UncancelledSends ==
    ASSUME PolicyInv, LateSpeakersHadEnded,
           NEW c \in 0..Len(contexts), c = 0 \/ ~contexts[c].wasCancelled,
           NEW x \in MessageRecord, x.from = c, sent' = Append(sent, x),
           EndedStayEnded, KeepSubscriptions
    PROVE  LateSpeakersHadEnded'
<1>1. /\ Len(sent) \in Nat /\ DOMAIN sent = 1..Len(sent) /\ sent \in Seq(MessageRecord)
      /\ Len(contexts) \in Nat /\ DOMAIN contexts = 1..Len(contexts)
      /\ \A i \in 1..Len(sent) :
           /\ sent[i].from \in 0..Len(contexts)
           /\ sent[i].from > 0 => sent[i].from \in DOMAIN contexts
  BY SpeakersExist
<1>2. /\ DOMAIN sent' = 1..(Len(sent) + 1)
      /\ \A i \in 1..Len(sent) : sent'[i] = sent[i]
      /\ sent'[Len(sent) + 1].from = c
  <2>1. sent' \in Seq(MessageRecord) /\ Len(sent') = Len(sent) + 1
    BY <1>1, AppendProperties
  <2>2. QED
    BY <1>1, <2>1, AppendProperties, LenProperties
<1> SUFFICES ASSUME NEW i \in DOMAIN sent', NEW j \in DOMAIN sent',
                    i < j, 0 < sent'[j].from, sent'[j].from < sent'[i].from,
                    SameSubscription(sent[j].from, sent[i].from)',
                    Policy[contexts'[sent'[j].from].sub] = "cancelExisting"
             PROVE  Ended(sent[j].from)'
  BY DEF LateSpeakersHadEnded, Ended
<1> DEFINE newer == sent[i].from
<1> DEFINE older == sent'[j].from
<1>3. i \in 1..Len(sent) /\ j \in 1..(Len(sent) + 1) /\ sent'[i] = sent[i]
  BY <1>1, <1>2
<1>4. CASE j \in 1..Len(sent)
  <2>1. older = sent[j].from
    BY <1>2, <1>4
  <2>2. newer \in 0..Len(contexts) /\ older \in 0..Len(contexts) /\ 0 < older /\ older < newer
    BY <1>1, <1>3, <1>4, <2>1
  <2>3. newer \in DOMAIN contexts /\ older \in DOMAIN contexts
    BY <1>1, <2>2
  <2>4. SameSubscription(older, newer) /\ Policy[contexts[older].sub] = "cancelExisting"
    BY <1>3, <2>3 DEF SameSubscription, KeepSubscriptions
  <2>5. Ended(older)
    BY <1>1, <1>3, <1>4, <2>1, <2>2, <2>4 DEF LateSpeakersHadEnded, Ended
  <2>6. QED
    BY <2>3, <2>5 DEF EndedStayEnded, Ended
<1>5. CASE j = Len(sent) + 1
  <2>1. older = c
    BY <1>2, <1>5
  <2>2. newer \in 0..Len(contexts) /\ c \in 0..Len(contexts) /\ 0 < c /\ c < newer
    BY <1>1, <1>3, <2>1
  <2>3. newer \in DOMAIN contexts /\ c \in DOMAIN contexts
    BY <1>1, <2>2
  <2>4. SameSubscription(c, newer) /\ Policy[contexts[c].sub] = "cancelExisting"
    BY <1>3, <2>1, <2>3 DEF SameSubscription, KeepSubscriptions
  <2>5. ~contexts[c].wasCancelled
    BY <2>2
  <2>6. context[contexts[c].sub] \in 0..Len(contexts) /\ newer <= context[contexts[c].sub]
    BY <1>1, <2>3, <2>4, ContextFacts DEF PolicyInv, LatestContext, SameSubscription
  <2>7. c # context[contexts[c].sub]
    BY <1>1, <2>2, <2>6
  <2>8. ~Running(c)
    BY <2>3, <2>4, <2>5, <2>7 DEF PolicyInv, LiveIsLatest, Live
  <2>9. Ended(c)'
    BY <2>3, <2>5, <2>8 DEF EndedStayEnded, Ended
  <2>10. QED
    BY <2>1, <2>9 DEF Ended, Running
<1>6. QED
  BY <1>1, <1>3, <1>4, <1>5

LEMMA ErrorTyped ==
    ASSUME TypeOK, NEW from \in 0..Len(contexts), NEW about \in 0..Len(sent)
    PROVE  ErrorMessage(from, about) \in MessageRecord /\ ErrorMessage(from, about).from = from
<1>1. PICK message \in Message : ErrorMessage(from, about) = Outgoing(message, from, about)
  BY ErrorIsMessage
<1>2. QED
  BY <1>1 DEF Outgoing, MessageRecord

LEMMA StepKeepsSilence == PolicyInv /\ LateSpeakersHadEnded /\ [Next]_vars => LateSpeakersHadEnded'
<1> SUFFICES ASSUME PolicyInv, LateSpeakersHadEnded, [Next]_vars PROVE LateSpeakersHadEnded'
  OBVIOUS
<1>1. /\ TypeOK /\ Len(contexts) \in Nat /\ Len(sent) \in Nat
      /\ DOMAIN contexts = 1..Len(contexts)
  BY ContextFacts, LenProperties DEF PolicyInv, TypeOK
<1>2. ASSUME NEW message \in AppSends, Send(message) PROVE LateSpeakersHadEnded'
  <2>1. message \in Message /\ 0 \in 0..Len(contexts)
    BY <1>1 DEF ConstantsAssumption
  <2>2. Outgoing(message, 0, 0) \in MessageRecord /\ Outgoing(message, 0, 0).from = 0
    BY <1>1, <2>1 DEF Outgoing, MessageRecord
  <2>3. sent' = Append(sent, Outgoing(message, 0, 0)) /\ contexts' = contexts
    BY <1>2 DEF Send, PutInPipeline, handlerVars
  <2>4. QED
    BY <2>1, <2>2, <2>3, SameContextsKeepEnded, UncancelledSends
<1>3. ASSUME NEW c \in DOMAIN contexts, NEW message \in HandlerSends,
             SendFromHandler(c, message)
      PROVE  LateSpeakersHadEnded'
  <2>1. message \in Message /\ c \in 0..Len(contexts) /\ ~contexts[c].wasCancelled
    BY <1>1, <1>3 DEF ConstantsAssumption, SendFromHandler
  <2>2. Outgoing(message, c, 0) \in MessageRecord /\ Outgoing(message, c, 0).from = c
    BY <1>1, <2>1 DEF Outgoing, MessageRecord
  <2>3. sent' = Append(sent, Outgoing(message, c, 0)) /\ contexts' = contexts
    BY <1>3 DEF SendFromHandler, PutInPipeline, handlerVars
  <2>4. QED
    BY <2>1, <2>2, <2>3, SameContextsKeepEnded, UncancelledSends
<1>4. ASSUME NEW c \in DOMAIN contexts, Complete(c) PROVE LateSpeakersHadEnded'
  <2>1. EndedStayEnded /\ KeepSubscriptions
    BY <1>4, EndingKeepsEnded DEF Complete
  <2>2. QED
    BY <1>4, <2>1, NobodySends DEF Complete
<1>5. ASSUME NEW c \in DOMAIN contexts, Fail(c) PROVE LateSpeakersHadEnded'
  <2>1. EndedStayEnded /\ KeepSubscriptions
    BY <1>5, EndingKeepsEnded DEF Fail
  <2>2. CASE contexts[c].wasCancelled
    BY <1>5, <2>1, <2>2, NobodySends DEF Fail
  <2>3. CASE ~contexts[c].wasCancelled
    <3> DEFINE error == ErrorMessage(c, contexts[c].msg)
    <3>1. c \in 0..Len(contexts) /\ contexts[c].msg \in 0..Len(sent)
      <4>1. contexts \in [1..Len(contexts) -> ContextRecord]
        BY <1>1, LenProperties DEF TypeOK
      <4>2. QED
        BY <1>1, <4>1 DEF ContextRecord, MessageIds
    <3>2. error \in MessageRecord /\ error.from = c
      BY <1>1, <3>1, ErrorTyped
    <3>3. sent' = Append(sent, error)
      BY <1>5, <2>3 DEF Fail, PutInPipeline
    <3>4. QED
      BY <2>1, <2>3, <3>1, <3>2, <3>3, UncancelledSends
  <2>4. QED
    BY <2>2, <2>3
<1>6. ASSUME NEW m, RejectCommand(m) PROVE LateSpeakersHadEnded'
  <2>1. m \in 0..Len(sent) /\ 0 \in 0..Len(contexts)
    BY <1>1, <1>6, InboundTyped DEF RejectCommand, MessageIds
  <2>2. ErrorMessage(0, m) \in MessageRecord /\ ErrorMessage(0, m).from = 0
    BY <1>1, <2>1, ErrorTyped
  <2>3. sent' = Append(sent, ErrorMessage(0, m)) /\ contexts' = contexts
    BY <1>6 DEF RejectCommand, PutInPipeline, handlerVars
  <2>4. QED
    BY <2>1, <2>2, <2>3, SameContextsKeepEnded, UncancelledSends
<1>7. ASSUME NEW s \in Sub, NEW m \in MessageIds, NEW pending, HandTo(s, m, pending),
             sent' = sent
      PROVE  LateSpeakersHadEnded'
  BY <1>7, HandingKeepsEnded, NobodySends
<1>8. ASSUME NEW m, NEW s \in Sub, StartLoop(m, s) PROVE LateSpeakersHadEnded'
  <2>1. m \in MessageIds /\ HandTo(s, m, Subscribers(m)) /\ sent' = sent
    BY <1>1, <1>8, InboundTyped DEF StartLoop
  <2>2. QED
    BY <1>7, <2>1
<1>9. ASSUME NEW s \in Sub, ContinueLoop(s) PROVE LateSpeakersHadEnded'
  <2>1. loop.msg \in MessageIds /\ HandTo(s, loop.msg, loop.pending) /\ sent' = sent
    BY <1>1, <1>9 DEF ContinueLoop, TypeOK, LoopRecord
  <2>2. QED
    BY <1>7, <2>1
<1>10. CASE UNCHANGED <<sent, contexts>>
  BY <1>10, SameContextsKeepEnded, NobodySends
<1>11. \/ UNCHANGED <<sent, contexts>>
       \/ \E message \in AppSends : Send(message)
       \/ \E c \in DOMAIN contexts :
            \/ \E message \in HandlerSends : SendFromHandler(c, message)
            \/ Complete(c)
            \/ Fail(c)
       \/ \E m \in DOMAIN sent : RejectCommand(m) \/ \E s \in Sub : StartLoop(m, s)
       \/ \E s \in Sub : ContinueLoop(s)
  BY DEF Next, vars, handlerVars, Subscribe, Unsubscribe, RunOutbound, DelayElapses,
         RunInbound, NobodyListens
<1>12. QED
  BY <1>2, <1>3, <1>4, <1>5, <1>6, <1>8, <1>9, <1>10, <1>11

(* With cancelExisting a handler that was running when a newer one of its  *)
(* subscription began is not heard after it: an older handler speaks last  *)
(* only if it had returned, uncancelled, before.                           *)
THEOREM CancelledStaysSilent == Spec => []LateSpeakersHadEnded
<1>1. Init => LateSpeakersHadEnded
  BY DEF Init, LateSpeakersHadEnded
<1>2. QED
  BY <1>1, StepKeepsSilence, PolicyInvariance, PTL DEF Spec
-----------------------------------------------------------------------------
(* The way of a message *)

HIDE ConstantsAssumption DEF Sub, Policies, Message

(* Sequences by their elements. *)
LEMMA AppendAny ==
    ASSUME NEW S, NEW q \in Seq(S), NEW x
    PROVE  /\ Len(q) \in Nat /\ DOMAIN q = 1..Len(q)
           /\ Len(Append(q, x)) = Len(q) + 1
           /\ DOMAIN Append(q, x) = 1..(Len(q) + 1)
           /\ \A i \in 1..Len(q) : Append(q, x)[i] = q[i]
           /\ Append(q, x)[Len(q) + 1] = x
<1> DEFINE T == S \cup {x}
<1>1. q \in Seq(T) /\ x \in T
  BY SeqMonotonic
<1>2. /\ Append(q, x) \in Seq(T) /\ Len(Append(q, x)) = Len(q) + 1
      /\ \A i \in 1..Len(q) : Append(q, x)[i] = q[i]
      /\ Append(q, x)[Len(q) + 1] = x
  BY <1>1, AppendProperties
<1>3. QED
  BY <1>1, <1>2, LenProperties

LEMMA TailAny ==
    ASSUME NEW S, NEW q \in Seq(S), q # <<>>
    PROVE  /\ Len(q) \in Nat \ {0} /\ DOMAIN q = 1..Len(q)
           /\ Tail(q) \in Seq(S) /\ Head(q) \in S
           /\ Len(Tail(q)) = Len(q) - 1
           /\ DOMAIN Tail(q) = 1..(Len(q) - 1)
           /\ Head(q) = q[1]
           /\ \A i \in 1..(Len(q) - 1) : Tail(q)[i] = q[i + 1]
<1>1. Len(q) \in Nat /\ Len(q) # 0 /\ DOMAIN q = 1..Len(q)
  BY LenProperties, EmptySeq
<1>2. Tail(q) \in Seq(S) /\ Head(q) \in S /\ Len(Tail(q)) = Len(q) - 1 /\ Head(q) = q[1]
      /\ \A i \in 1..Len(Tail(q)) : Tail(q)[i] = q[i + 1]
  BY HeadTailProperties
<1>3. QED
  BY <1>1, <1>2, LenProperties

LEMMA Elements == ASSUME NEW S, NEW q \in Seq(S) PROVE \A i \in DOMAIN q : q[i] \in S
  BY LenProperties

-----------------------------------------------------------------------------
(* Where a message is *)

TimerOf(n) == [stage : {"outbound", "inbound"}, msg : 1..n]

LookupOf(n) == [msg : 1..n, subs : SUBSET Sub]

Looked(l) == {l[k].msg : k \in DOMAIN l}

(* A message sent is in one zero-delay timer, in the delay of the          *)
(* transport, or has been looked up, and in one of them only.              *)
InOnePlace(q, d, l) ==
    /\ \A i, j \in DOMAIN q : i < j => q[i].msg # q[j].msg
    /\ \A i \in DOMAIN q : q[i].msg \notin d /\ q[i].msg \notin Looked(l)
    /\ d \cap Looked(l) = {}
    /\ \A i, j \in DOMAIN l : i < j => l[i].msg # l[j].msg

(* Messages without a delay in the order they were sent: looked up before  *)
(* inbound, inbound before outbound, and in order within each stage.       *)
InSendOrder(s, q, d, l) ==
    /\ \A m \in d : s[m].delayed
    /\ \A i, j \in DOMAIN q :
          /\ i < j /\ q[i].stage = q[j].stage
          /\ ~s[q[i].msg].delayed /\ ~s[q[j].msg].delayed
          => q[i].msg < q[j].msg
    /\ \A i, j \in DOMAIN q :
          /\ q[i].stage = "inbound" /\ q[j].stage = "outbound"
          /\ ~s[q[i].msg].delayed /\ ~s[q[j].msg].delayed
          => q[i].msg < q[j].msg
    /\ \A i \in DOMAIN l, j \in DOMAIN q :
          ~s[l[i].msg].delayed /\ ~s[q[j].msg].delayed => l[i].msg < q[j].msg
    /\ \A i, j \in DOMAIN l :
          i < j /\ ~s[l[i].msg].delayed /\ ~s[l[j].msg].delayed => l[i].msg < l[j].msg

Placed(s, q, d, l) == InOnePlace(q, d, l) /\ InSendOrder(s, q, d, l)

LEMMA PlacesTyped ==
    ASSUME NEW n, NEW q \in Seq(TimerOf(n)), NEW l \in Seq(LookupOf(n))
    PROVE  /\ \A i \in DOMAIN q : q[i].msg \in 1..n /\ q[i].stage \in {"outbound", "inbound"}
           /\ \A i \in DOMAIN l : l[i].msg \in 1..n
           /\ Looked(l) \subseteq 1..n
<1>1. \A i \in DOMAIN q : q[i] \in TimerOf(n)
  BY Elements
<1>2. \A i \in DOMAIN l : l[i] \in LookupOf(n)
  BY Elements
<1>3. \A i \in DOMAIN l : l[i].msg \in 1..n
  BY <1>2 DEF LookupOf
<1>4. \A i \in DOMAIN q : q[i].msg \in 1..n /\ q[i].stage \in {"outbound", "inbound"}
  BY <1>1 DEF TimerOf
<1>5. QED
  BY <1>3, <1>4 DEF Looked

(* A new message goes last. *)
LEMMA PutPlaced ==
    ASSUME NEW M, NEW s \in Seq(M), NEW q \in Seq(TimerOf(Len(s))), NEW d \in SUBSET (1..Len(s)),
           NEW l \in Seq(LookupOf(Len(s))), NEW x, Placed(s, q, d, l)
    PROVE  Placed(Append(s, x), Append(q, [stage |-> "outbound", msg |-> Len(s) + 1]), d, l)
<1> DEFINE t == [stage |-> "outbound", msg |-> Len(s) + 1]
           p == Append(q, t)
           r == Append(s, x)
<1>1. /\ Len(s) \in Nat /\ \A m \in 1..Len(s) : r[m] = s[m]
  BY AppendAny
<1>2. /\ Len(q) \in Nat /\ DOMAIN q = 1..Len(q) /\ DOMAIN p = 1..(Len(q) + 1)
      /\ \A i \in 1..Len(q) : p[i] = q[i]
      /\ p[Len(q) + 1] = t
  BY AppendAny
<1>3. /\ \A i \in DOMAIN q : q[i].msg \in 1..Len(s)
      /\ \A i \in DOMAIN l : l[i].msg \in 1..Len(s)
      /\ Looked(l) \subseteq 1..Len(s)
  BY PlacesTyped
<1>4. t.msg = Len(s) + 1 /\ t.stage = "outbound" /\ Len(s) + 1 \notin 1..Len(s)
  BY <1>1
<1> HIDE DEF t, p, r
<1>5. \A i \in DOMAIN p : (i \in DOMAIN q /\ p[i] = q[i]) \/ p[i] = t
  BY <1>2
<1>6. \A i, j \in DOMAIN p : i < j => i \in DOMAIN q /\ p[i] = q[i]
  <2> SUFFICES ASSUME NEW i \in DOMAIN p, NEW j \in DOMAIN p, i < j
               PROVE  i \in DOMAIN q /\ p[i] = q[i]
    OBVIOUS
  <2>1. i \in 1..Len(q)
    BY <1>2
  <2>2. QED
    BY <1>2, <2>1
<1>7. InOnePlace(p, d, l)
  <2>1. \A i, j \in DOMAIN p : i < j => p[i].msg # p[j].msg
    <3> SUFFICES ASSUME NEW i \in DOMAIN p, NEW j \in DOMAIN p, i < j
                 PROVE  p[i].msg # p[j].msg
      OBVIOUS
    <3>1. i \in DOMAIN q /\ p[i].msg = q[i].msg /\ q[i].msg \in 1..Len(s)
      BY <1>3, <1>6
    <3>2. CASE j \in DOMAIN q /\ p[j] = q[j]
      BY <3>1, <3>2 DEF Placed, InOnePlace
    <3>3. CASE p[j] = t
      BY <1>4, <3>1, <3>3
    <3>4. QED
      BY <1>5, <3>2, <3>3
  <2>2. \A i \in DOMAIN p : p[i].msg \notin d /\ p[i].msg \notin Looked(l)
    <3> SUFFICES ASSUME NEW i \in DOMAIN p PROVE p[i].msg \notin d /\ p[i].msg \notin Looked(l)
      OBVIOUS
    <3>1. CASE i \in DOMAIN q /\ p[i] = q[i]
      BY <3>1 DEF Placed, InOnePlace
    <3>2. CASE p[i] = t
      BY <1>3, <1>4, <3>2
    <3>3. QED
      BY <1>5, <3>1, <3>2
  <2>3. QED
    BY <2>1, <2>2 DEF Placed, InOnePlace
<1>8. \A m \in 1..Len(s) : r[m].delayed = s[m].delayed
  BY <1>1
<1>9. InSendOrder(r, p, d, l)
  <2>1. \A m \in d : r[m].delayed
    BY <1>8 DEF Placed, InSendOrder
  <2>2. \A i, j \in DOMAIN p :
          /\ i < j /\ p[i].stage = p[j].stage
          /\ ~r[p[i].msg].delayed /\ ~r[p[j].msg].delayed
          => p[i].msg < p[j].msg
    <3> SUFFICES ASSUME NEW i \in DOMAIN p, NEW j \in DOMAIN p, i < j, p[i].stage = p[j].stage,
                        ~r[p[i].msg].delayed, ~r[p[j].msg].delayed
                 PROVE  p[i].msg < p[j].msg
      OBVIOUS
    <3>1. i \in DOMAIN q /\ p[i] = q[i] /\ q[i].msg \in 1..Len(s) /\ ~s[q[i].msg].delayed
      BY <1>3, <1>6, <1>8
    <3>2. CASE j \in DOMAIN q /\ p[j] = q[j]
      <4>1. q[j].msg \in 1..Len(s) /\ ~s[q[j].msg].delayed
        BY <1>3, <1>8, <3>2
      <4>2. QED
        BY <3>1, <3>2, <4>1 DEF Placed, InSendOrder
    <3>3. CASE p[j] = t
      BY <1>1, <1>4, <3>1, <3>3
    <3>4. QED
      BY <1>5, <3>2, <3>3
  <2>3. \A i, j \in DOMAIN p :
          /\ p[i].stage = "inbound" /\ p[j].stage = "outbound"
          /\ ~r[p[i].msg].delayed /\ ~r[p[j].msg].delayed
          => p[i].msg < p[j].msg
    <3> SUFFICES ASSUME NEW i \in DOMAIN p, NEW j \in DOMAIN p,
                        p[i].stage = "inbound", p[j].stage = "outbound",
                        ~r[p[i].msg].delayed, ~r[p[j].msg].delayed
                 PROVE  p[i].msg < p[j].msg
      OBVIOUS
    <3>1. i \in DOMAIN q /\ p[i] = q[i] /\ q[i].msg \in 1..Len(s) /\ ~s[q[i].msg].delayed
      BY <1>3, <1>4, <1>5, <1>8
    <3>2. CASE j \in DOMAIN q /\ p[j] = q[j]
      <4>1. q[j].msg \in 1..Len(s) /\ ~s[q[j].msg].delayed
        BY <1>3, <1>8, <3>2
      <4>2. QED
        BY <3>1, <3>2, <4>1 DEF Placed, InSendOrder
    <3>3. CASE p[j] = t
      BY <1>1, <1>4, <3>1, <3>3
    <3>4. QED
      BY <1>5, <3>2, <3>3
  <2>4. \A i \in DOMAIN l, j \in DOMAIN p :
          ~r[l[i].msg].delayed /\ ~r[p[j].msg].delayed => l[i].msg < p[j].msg
    <3> SUFFICES ASSUME NEW i \in DOMAIN l, NEW j \in DOMAIN p,
                        ~r[l[i].msg].delayed, ~r[p[j].msg].delayed
                 PROVE  l[i].msg < p[j].msg
      OBVIOUS
    <3>1. l[i].msg \in 1..Len(s) /\ ~s[l[i].msg].delayed
      BY <1>3, <1>8
    <3>2. CASE j \in DOMAIN q /\ p[j] = q[j]
      <4>1. q[j].msg \in 1..Len(s) /\ ~s[q[j].msg].delayed
        BY <1>3, <1>8, <3>2
      <4>2. QED
        BY <3>1, <3>2, <4>1 DEF Placed, InSendOrder
    <3>3. CASE p[j] = t
      BY <1>1, <1>4, <3>1, <3>3
    <3>4. QED
      BY <1>5, <3>2, <3>3
  <2>5. \A i, j \in DOMAIN l :
          i < j /\ ~r[l[i].msg].delayed /\ ~r[l[j].msg].delayed => l[i].msg < l[j].msg
    <3>1. \A i \in DOMAIN l : r[l[i].msg].delayed = s[l[i].msg].delayed
      BY <1>3, <1>8
    <3>2. QED
      BY <3>1 DEF Placed, InSendOrder
  <2>6. QED
    BY <2>1, <2>2, <2>3, <2>4, <2>5 DEF InSendOrder
<1>10. QED
  BY <1>7, <1>9 DEF Placed, p, r, t


(* The message of an inbound timer is looked up. *)
LEMMA TakePlaced ==
    ASSUME NEW M, NEW s \in Seq(M), NEW q \in Seq(TimerOf(Len(s))), NEW d \in SUBSET (1..Len(s)),
           NEW l \in Seq(LookupOf(Len(s))), Placed(s, q, d, l), NEW y,
           q # <<>>, Head(q).stage = "inbound", y.msg = Head(q).msg
    PROVE  Placed(s, Tail(q), d, Append(l, y))
<1> DEFINE p == Tail(q)
           k == Append(l, y)
<1>1. /\ Len(q) \in Nat \ {0} /\ DOMAIN q = 1..Len(q) /\ DOMAIN p = 1..(Len(q) - 1)
      /\ y.msg = q[1].msg /\ q[1].stage = "inbound"
      /\ \A i \in 1..(Len(q) - 1) : p[i] = q[i + 1]
  BY TailAny
<1>2. /\ Len(l) \in Nat /\ DOMAIN l = 1..Len(l) /\ DOMAIN k = 1..(Len(l) + 1)
      /\ \A i \in 1..Len(l) : k[i] = l[i]
      /\ k[Len(l) + 1] = y
  BY AppendAny
<1>3. /\ \A i \in DOMAIN q : q[i].msg \in 1..Len(s) /\ q[i].stage \in {"outbound", "inbound"}
      /\ \A i \in DOMAIN l : l[i].msg \in 1..Len(s)
  BY PlacesTyped
<1> HIDE DEF p, k
<1>4. \A i \in DOMAIN k : (i \in DOMAIN l /\ k[i] = l[i]) \/ k[i] = y
  BY <1>2
<1>5. \A i, j \in DOMAIN k : i < j => i \in DOMAIN l /\ k[i] = l[i]
  <2> SUFFICES ASSUME NEW i \in DOMAIN k, NEW j \in DOMAIN k, i < j
               PROVE  i \in DOMAIN l /\ k[i] = l[i]
    OBVIOUS
  <2>1. i \in 1..Len(l)
    BY <1>2
  <2>2. QED
    BY <1>2, <2>1
<1>6. Looked(k) = Looked(l) \cup {y.msg}
  <2>1. \A i \in DOMAIN l : i \in DOMAIN k /\ k[i] = l[i]
    BY <1>2
  <2>2. Len(l) + 1 \in DOMAIN k /\ k[Len(l) + 1] = y
    BY <1>2
  <2>3. Looked(k) \subseteq Looked(l) \cup {y.msg}
    BY <1>4 DEF Looked
  <2>4. Looked(l) \cup {y.msg} \subseteq Looked(k)
    BY <2>1, <2>2 DEF Looked
  <2>5. QED
    BY <2>3, <2>4
<1>7. InOnePlace(p, d, k)
  <2>1. \A i \in DOMAIN p : i + 1 \in DOMAIN q /\ 1 \in DOMAIN q /\ 1 < i + 1 /\ p[i] = q[i + 1]
    BY <1>1
  <2>2. \A i, j \in DOMAIN p : i < j => i + 1 < j + 1
    BY <1>1
  <2>3. \A i, j \in DOMAIN p : i < j => p[i].msg # p[j].msg
    BY <2>1, <2>2 DEF Placed, InOnePlace
  <2>4. \A i \in DOMAIN p : p[i].msg \notin d /\ p[i].msg \notin Looked(l) /\ p[i].msg # y.msg
    BY <1>1, <2>1 DEF Placed, InOnePlace
  <2>5. y.msg \notin d /\ y.msg \notin Looked(l) /\ d \cap Looked(l) = {}
    BY <1>1 DEF Placed, InOnePlace
  <2>6. \A i, j \in DOMAIN k : i < j => k[i].msg # k[j].msg
    <3>1. \A i \in DOMAIN l : l[i].msg # y.msg
      BY <2>5 DEF Looked
    <3>2. QED
      BY <1>4, <1>5, <3>1 DEF Placed, InOnePlace
  <2>7. QED
    BY <1>6, <2>3, <2>4, <2>5, <2>6 DEF InOnePlace
<1>8. InSendOrder(s, p, d, k)
  <2>1. \A i \in DOMAIN p : i + 1 \in DOMAIN q /\ 1 \in DOMAIN q /\ 1 < i + 1 /\ p[i] = q[i + 1]
    BY <1>1
  <2>2. \A i, j \in DOMAIN p : i < j => i + 1 < j + 1
    BY <1>1
  <2>3. \A i \in DOMAIN p :
          ~s[y.msg].delayed /\ ~s[p[i].msg].delayed => y.msg < p[i].msg
    BY ZenonT(40), <1>1, <1>3, <2>1 DEF Placed, InSendOrder
  <2>4. \A i \in DOMAIN l :
          ~s[l[i].msg].delayed /\ ~s[y.msg].delayed => l[i].msg < y.msg
    BY SMTT(40), <1>1 DEF Placed, InSendOrder
  <2>5. \A i \in DOMAIN k, j \in DOMAIN p :
          ~s[k[i].msg].delayed /\ ~s[p[j].msg].delayed => k[i].msg < p[j].msg
    <3> SUFFICES ASSUME NEW i \in DOMAIN k, NEW j \in DOMAIN p,
                        ~s[k[i].msg].delayed, ~s[p[j].msg].delayed
                 PROVE  k[i].msg < p[j].msg
      OBVIOUS
    <3>1. CASE i \in DOMAIN l /\ k[i] = l[i]
      BY <2>1, <3>1 DEF Placed, InSendOrder
    <3>2. CASE k[i] = y
      BY <2>3, <3>2
    <3>3. QED
      BY <1>4, <3>1, <3>2
  <2>6. \A i, j \in DOMAIN k :
          i < j /\ ~s[k[i].msg].delayed /\ ~s[k[j].msg].delayed => k[i].msg < k[j].msg
    <3> SUFFICES ASSUME NEW i \in DOMAIN k, NEW j \in DOMAIN k, i < j,
                        ~s[k[i].msg].delayed, ~s[k[j].msg].delayed
                 PROVE  k[i].msg < k[j].msg
      OBVIOUS
    <3>1. i \in DOMAIN l /\ k[i] = l[i]
      BY <1>5
    <3>2. CASE j \in DOMAIN l /\ k[j] = l[j]
      BY <3>1, <3>2 DEF Placed, InSendOrder
    <3>3. CASE k[j] = y
      BY <2>4, <3>1, <3>3
    <3>4. QED
      BY <1>4, <3>2, <3>3
  <2>7. \A i, j \in DOMAIN p :
          /\ i < j /\ p[i].stage = p[j].stage
          /\ ~s[p[i].msg].delayed /\ ~s[p[j].msg].delayed
          => p[i].msg < p[j].msg
    BY <2>1, <2>2 DEF Placed, InSendOrder
  <2>8. \A i, j \in DOMAIN p :
          /\ p[i].stage = "inbound" /\ p[j].stage = "outbound"
          /\ ~s[p[i].msg].delayed /\ ~s[p[j].msg].delayed
          => p[i].msg < p[j].msg
    <3> SUFFICES ASSUME NEW i \in DOMAIN p, NEW j \in DOMAIN p,
                        p[i].stage = "inbound", p[j].stage = "outbound",
                        ~s[p[i].msg].delayed, ~s[p[j].msg].delayed
                 PROVE  p[i].msg < p[j].msg
      OBVIOUS
    <3>1. p[i] = q[i + 1] /\ p[j] = q[j + 1] /\ i + 1 \in DOMAIN q /\ j + 1 \in DOMAIN q
      BY <2>1
    <3>2. QED
      BY <3>1 DEF Placed, InSendOrder
  <2>9. \A m \in d : s[m].delayed
    <3>1. InSendOrder(s, q, d, l)
      BY DEF Placed
    <3>2. QED
      BY <3>1, Zenon DEF InSendOrder
  <2>10. QED
    BY <2>5, <2>6, <2>7, <2>8, <2>9 DEF InSendOrder
<1>9. QED
  BY <1>7, <1>8 DEF Placed, p, k

(* The message of the first timer is in no other place, and where it is in *)
(* the order of the messages without a delay.                              *)
LEMMA HeadPlaced ==
    ASSUME NEW M, NEW s \in Seq(M), NEW q \in Seq(TimerOf(Len(s))), NEW d \in SUBSET (1..Len(s)),
           NEW l \in Seq(LookupOf(Len(s))), Placed(s, q, d, l), q # <<>>
    PROVE  LET m == Head(q).msg
               p == Tail(q)
           IN /\ Placed(s, p, d, l)
              /\ m \in 1..Len(s) /\ m \notin d /\ m \notin Looked(l)
              /\ \A i \in DOMAIN p : p[i].msg # m
              /\ ~s[m].delayed =>
                   /\ \A i \in DOMAIN p :
                        ~s[p[i].msg].delayed => /\ p[i].stage = Head(q).stage => m < p[i].msg
                                                /\ p[i].stage = "inbound" /\ Head(q).stage = "outbound"
                                                     => p[i].msg < m
                   /\ \A i \in DOMAIN l : ~s[l[i].msg].delayed => l[i].msg < m
<1> DEFINE p == Tail(q)
           m == Head(q).msg
<1>1. /\ Len(q) \in Nat \ {0} /\ DOMAIN q = 1..Len(q) /\ DOMAIN p = 1..(Len(q) - 1)
      /\ Head(q) = q[1]
      /\ \A i \in 1..(Len(q) - 1) : p[i] = q[i + 1]
  BY TailAny
<1>2. /\ \A i \in DOMAIN q : q[i].msg \in 1..Len(s)
      /\ \A i \in DOMAIN l : l[i].msg \in 1..Len(s)
  BY PlacesTyped
<1>3. m = q[1].msg /\ Head(q).stage = q[1].stage /\ 1 \in DOMAIN q
  BY <1>1
<1> HIDE DEF p, m
<1>4. \A i \in DOMAIN p : i + 1 \in DOMAIN q /\ 1 < i + 1 /\ p[i] = q[i + 1]
  BY <1>1
<1>5. \A i, j \in DOMAIN p : i < j => i + 1 < j + 1
  BY <1>1
<1>6. InOnePlace(q, d, l) /\ InSendOrder(s, q, d, l)
  BY DEF Placed
<1>7. InOnePlace(p, d, l)
  <2>1. \A i, j \in DOMAIN p : i < j => p[i].msg # p[j].msg
    BY <1>4, <1>5, <1>6 DEF InOnePlace
  <2>2. \A i \in DOMAIN p : p[i].msg \notin d /\ p[i].msg \notin Looked(l)
    BY <1>4, <1>6 DEF InOnePlace
  <2>3. QED
    BY <1>6, <2>1, <2>2 DEF InOnePlace
<1>8. InSendOrder(s, p, d, l)
  <2>1. \A i, j \in DOMAIN p :
          /\ i < j /\ p[i].stage = p[j].stage
          /\ ~s[p[i].msg].delayed /\ ~s[p[j].msg].delayed
          => p[i].msg < p[j].msg
    BY <1>4, <1>5, <1>6 DEF InSendOrder
  <2>2. ASSUME NEW i \in DOMAIN p, NEW j \in DOMAIN p,
               p[i].stage = "inbound", p[j].stage = "outbound",
               ~s[p[i].msg].delayed, ~s[p[j].msg].delayed
        PROVE  p[i].msg < p[j].msg
    <3>1. p[i] = q[i + 1] /\ p[j] = q[j + 1] /\ i + 1 \in DOMAIN q /\ j + 1 \in DOMAIN q
      BY <1>4
    <3>2. QED
      BY <1>6, <2>2, <3>1 DEF InSendOrder
  <2>3. \A i \in DOMAIN l, j \in DOMAIN p :
          ~s[l[i].msg].delayed /\ ~s[p[j].msg].delayed => l[i].msg < p[j].msg
    BY <1>4, <1>6 DEF InSendOrder
  <2>4. /\ \A i, j \in DOMAIN l :
             i < j /\ ~s[l[i].msg].delayed /\ ~s[l[j].msg].delayed => l[i].msg < l[j].msg
        /\ \A k \in d : s[k].delayed
    BY <1>6, Zenon DEF InSendOrder
  <2>5. QED
    BY <2>1, <2>2, <2>3, <2>4 DEF InSendOrder
<1>9. m \in 1..Len(s) /\ m \notin d /\ m \notin Looked(l)
  BY <1>2, <1>3, <1>6 DEF InOnePlace
<1>10. \A i \in DOMAIN p : p[i].msg # m
  BY <1>3, <1>4, <1>6 DEF InOnePlace
<1>11. ASSUME ~s[m].delayed, NEW i \in DOMAIN l, ~s[l[i].msg].delayed PROVE l[i].msg < m
  BY <1>3, <1>6, <1>11 DEF InSendOrder
<1>12. ASSUME ~s[m].delayed, NEW i \in DOMAIN p, ~s[p[i].msg].delayed
       PROVE  /\ p[i].stage = Head(q).stage => m < p[i].msg
              /\ p[i].stage = "inbound" /\ Head(q).stage = "outbound" => p[i].msg < m
  <2>1. p[i] = q[i + 1] /\ i + 1 \in DOMAIN q /\ 1 < i + 1
    BY <1>4
  <2>2. QED
    BY <1>3, <1>6, <1>12, <2>1 DEF InSendOrder
<1>13. QED
  BY <1>7, <1>8, <1>9, <1>10, <1>11, <1>12 DEF Placed, p, m

(* A message that is nowhere else is given to the inbound side. *)
LEMMA EnterPlaced ==
    ASSUME NEW M, NEW s \in Seq(M), NEW q \in Seq(TimerOf(Len(s))), NEW d \in SUBSET (1..Len(s)),
           NEW l \in Seq(LookupOf(Len(s))), Placed(s, q, d, l),
           NEW m \in 1..Len(s), m \notin d, m \notin Looked(l),
           \A i \in DOMAIN q : q[i].msg # m,
           ~s[m].delayed =>
               /\ \A i \in DOMAIN q :
                    ~s[q[i].msg].delayed => /\ q[i].stage = "inbound" => q[i].msg < m
                                            /\ q[i].stage = "outbound" => m < q[i].msg
               /\ \A i \in DOMAIN l : ~s[l[i].msg].delayed => l[i].msg < m
    PROVE  Placed(s, Append(q, InboundTimer(m)), d, l)
<1> DEFINE t == InboundTimer(m)
           p == Append(q, t)
<1>1. t.msg = m /\ t.stage = "inbound"
  BY DEF InboundTimer
<1> HIDE DEF t
<1>2. /\ Len(q) \in Nat /\ DOMAIN q = 1..Len(q) /\ DOMAIN p = 1..(Len(q) + 1)
      /\ \A i \in 1..Len(q) : p[i] = q[i]
      /\ p[Len(q) + 1] = t
  BY AppendAny
<1> HIDE DEF p
<1>3. \A i \in DOMAIN p : (i \in DOMAIN q /\ p[i] = q[i]) \/ p[i] = t
  BY <1>2
<1>4. ASSUME NEW i \in DOMAIN p, NEW j \in DOMAIN p, i < j PROVE i \in DOMAIN q /\ p[i] = q[i]
  <2>1. i \in 1..Len(q)
    BY <1>2, <1>4
  <2>2. QED
    BY <1>2, <2>1
<1>5. InOnePlace(q, d, l) /\ InSendOrder(s, q, d, l)
  BY DEF Placed
<1>6. InOnePlace(p, d, l)
  <2>1. ASSUME NEW i \in DOMAIN p, NEW j \in DOMAIN p, i < j PROVE p[i].msg # p[j].msg
    <3>1. i \in DOMAIN q /\ p[i] = q[i]
      BY <1>4, <2>1
    <3>2. CASE j \in DOMAIN q /\ p[j] = q[j]
      BY <1>5, <2>1, <3>1, <3>2 DEF InOnePlace
    <3>3. CASE p[j] = t
      BY <1>1, <3>1, <3>3
    <3>4. QED
      BY <1>3, <3>2, <3>3
  <2>2. ASSUME NEW i \in DOMAIN p PROVE p[i].msg \notin d /\ p[i].msg \notin Looked(l)
    BY <1>1, <1>3, <1>5 DEF InOnePlace
  <2>3. QED
    BY <1>5, <2>1, <2>2 DEF InOnePlace
<1>7. InSendOrder(s, p, d, l)
  <2>1. ASSUME NEW i \in DOMAIN p, NEW j \in DOMAIN p, i < j, p[i].stage = p[j].stage,
               ~s[p[i].msg].delayed, ~s[p[j].msg].delayed
        PROVE  p[i].msg < p[j].msg
    <3>1. i \in DOMAIN q /\ p[i] = q[i]
      BY <1>4, <2>1
    <3>2. CASE j \in DOMAIN q /\ p[j] = q[j]
      BY <1>5, <2>1, <3>1, <3>2 DEF InSendOrder
    <3>3. CASE p[j] = t
      BY <1>1, <2>1, <3>1, <3>3
    <3>4. QED
      BY <1>3, <3>2, <3>3
  <2>2. ASSUME NEW i \in DOMAIN p, NEW j \in DOMAIN p,
               p[i].stage = "inbound", p[j].stage = "outbound",
               ~s[p[i].msg].delayed, ~s[p[j].msg].delayed
        PROVE  p[i].msg < p[j].msg
    <3>1. j \in DOMAIN q /\ p[j] = q[j]
      BY <1>1, <1>3, <2>2
    <3>2. CASE i \in DOMAIN q /\ p[i] = q[i]
      BY <1>5, <2>2, <3>1, <3>2 DEF InSendOrder
    <3>3. CASE p[i] = t
      BY <1>1, <2>2, <3>1, <3>3
    <3>4. QED
      BY <1>3, <3>2, <3>3
  <2>3. ASSUME NEW i \in DOMAIN l, NEW j \in DOMAIN p,
               ~s[l[i].msg].delayed, ~s[p[j].msg].delayed
        PROVE  l[i].msg < p[j].msg
    <3>1. CASE j \in DOMAIN q /\ p[j] = q[j]
      BY <1>5, <2>3, <3>1 DEF InSendOrder
    <3>2. CASE p[j] = t
      BY <1>1, <2>3, <3>2
    <3>3. QED
      BY <1>3, <3>1, <3>2
  <2>4. /\ \A i, j \in DOMAIN l :
             i < j /\ ~s[l[i].msg].delayed /\ ~s[l[j].msg].delayed => l[i].msg < l[j].msg
        /\ \A k \in d : s[k].delayed
    BY <1>5, Zenon DEF InSendOrder
  <2>5. QED
    BY <2>1, <2>2, <2>3, <2>4 DEF InSendOrder
<1>8. QED
  BY <1>6, <1>7 DEF Placed, p, t

(* A delayed message goes to the timer of the transport, and leaves it.    *)
LEMMA DelayPlaced ==
    ASSUME NEW M, NEW s \in Seq(M), NEW q \in Seq(TimerOf(Len(s))), NEW d \in SUBSET (1..Len(s)),
           NEW l \in Seq(LookupOf(Len(s))), Placed(s, q, d, l), NEW m \in 1..Len(s)
    PROVE  /\ /\ m \notin Looked(l) /\ \A i \in DOMAIN q : q[i].msg # m
              /\ s[m].delayed
              => Placed(s, q, d \cup {m}, l)
           /\ m \in d => /\ Placed(s, q, d \ {m}, l) /\ s[m].delayed
                         /\ m \notin Looked(l) /\ \A i \in DOMAIN q : q[i].msg # m
<1>1. InOnePlace(q, d, l) /\ InSendOrder(s, q, d, l)
  BY DEF Placed
<1>2. ASSUME NEW e, \A k \in e : k \in d \/ k = m, s[m].delayed \/ m \notin e
      PROVE  InSendOrder(s, q, e, l)
  <2>1. \A k \in e : s[k].delayed
    BY <1>1, <1>2 DEF InSendOrder
  <2>2. QED
    BY <1>1, <2>1, Zenon DEF InSendOrder
<1>3. ASSUME m \notin Looked(l), \A i \in DOMAIN q : q[i].msg # m, s[m].delayed
      PROVE  Placed(s, q, d \cup {m}, l)
  <2>1. InOnePlace(q, d \cup {m}, l)
    BY <1>1, <1>3 DEF InOnePlace
  <2>2. QED
    BY <1>2, <1>3, <2>1 DEF Placed
<1>4. ASSUME m \in d
      PROVE  /\ Placed(s, q, d \ {m}, l) /\ s[m].delayed
             /\ m \notin Looked(l) /\ \A i \in DOMAIN q : q[i].msg # m
  <2>1. InOnePlace(q, d \ {m}, l) /\ m \notin Looked(l) /\ \A i \in DOMAIN q : q[i].msg # m
    BY <1>1, <1>4 DEF InOnePlace
  <2>2. s[m].delayed
    BY <1>1, <1>4, Zenon DEF InSendOrder
  <2>3. QED
    BY <1>2, <2>1, <2>2 DEF Placed
<1>5. QED
  BY <1>3, <1>4

(* The variables of Dispatch have the types the lemmas above ask for. *)
LEMMA PlaceTypes ==
    ASSUME TypeOK
    PROVE  /\ sent \in Seq(MessageRecord) /\ Len(sent) \in Nat /\ DOMAIN sent = 1..Len(sent)
           /\ timers \in Seq(TimerOf(Len(sent)))
           /\ delayTimers \in SUBSET (1..Len(sent))
           /\ lookups \in Seq(LookupOf(Len(sent)))
<1>1. TimerRecord = TimerOf(Len(sent)) /\ LookupRecord = LookupOf(Len(sent))
      /\ MessageIds = 1..Len(sent)
  BY DEF TimerRecord, LookupRecord, MessageIds, TimerOf, LookupOf
<1>2. sent \in Seq(MessageRecord)
  BY DEF TypeOK
<1>3. Len(sent) \in Nat /\ DOMAIN sent = 1..Len(sent)
  BY <1>2, LenProperties
<1>4. QED
  BY <1>1, <1>2, <1>3 DEF TypeOK

(* A message is looked up. *)
LEMMA LookupPlaced ==
    ASSUME TypeOK, Placed(sent, timers, delayTimers, lookups), NEW m, InboundReady(m)
    PROVE  /\ Placed(sent, Tail(timers), delayTimers, lookups')
           /\ Tail(timers) \in Seq(TimerOf(Len(sent)))
           /\ lookups' \in Seq(LookupOf(Len(sent)))
           /\ m \in 1..Len(sent) /\ m \notin Looked(lookups)
           /\ Len(lookups') = Len(lookups) + 1 /\ Len(lookups) \in Nat
           /\ DOMAIN lookups = 1..Len(lookups) /\ DOMAIN lookups' = 1..(Len(lookups) + 1)
           /\ \A k \in 1..Len(lookups) : lookups'[k] = lookups[k]
           /\ lookups'[Len(lookups) + 1] = [msg |-> m, subs |-> Subscribers(m)]
           /\ Looked(lookups') = Looked(lookups) \cup {m}
<1> DEFINE y == [msg |-> m, subs |-> Subscribers(m)]
<1>1. timers # <<>> /\ Head(timers) = InboundTimer(m) /\ lookups' = Append(lookups, y)
  BY DEF InboundReady
<1>2. Head(timers).msg = m /\ Head(timers).stage = "inbound" /\ y.msg = m
  BY <1>1 DEF InboundTimer
<1>3. /\ sent \in Seq(MessageRecord)
      /\ timers \in Seq(TimerOf(Len(sent)))
      /\ delayTimers \in SUBSET (1..Len(sent))
      /\ lookups \in Seq(LookupOf(Len(sent)))
  BY PlaceTypes
<1>4. /\ m \in 1..Len(sent) /\ m \notin Looked(lookups)
      /\ Tail(timers) \in Seq(TimerOf(Len(sent)))
  BY <1>1, <1>2, <1>3, HeadPlaced, TailAny
<1>5. y \in LookupOf(Len(sent))
  BY <1>4, SubscribersTyped DEF LookupOf
<1>6. Placed(sent, Tail(timers), delayTimers, Append(lookups, y))
  BY <1>1, <1>2, <1>3, TakePlaced
<1>7. /\ Len(lookups) \in Nat /\ DOMAIN lookups = 1..Len(lookups)
      /\ Len(lookups') = Len(lookups) + 1 /\ DOMAIN lookups' = 1..(Len(lookups) + 1)
      /\ \A k \in 1..Len(lookups) : lookups'[k] = lookups[k]
      /\ lookups'[Len(lookups) + 1] = y
  BY <1>1, <1>3, AppendAny
<1>8. lookups' \in Seq(LookupOf(Len(sent)))
  BY <1>1, <1>3, <1>5, Appending
<1>9. Looked(lookups') = Looked(lookups) \cup {m}
  <2>1. ASSUME NEW k \in DOMAIN lookups' PROVE lookups'[k].msg \in Looked(lookups) \cup {m}
    <3>1. CASE k \in 1..Len(lookups)
      BY <1>7, <3>1 DEF Looked
    <3>2. CASE k = Len(lookups) + 1
      BY <1>7, <3>2
    <3>3. QED
      BY <1>7, <3>1, <3>2
  <2>2. ASSUME NEW k \in DOMAIN lookups
        PROVE  k \in DOMAIN lookups' /\ lookups'[k].msg = lookups[k].msg
    BY <1>7
  <2>3. Len(lookups) + 1 \in DOMAIN lookups' /\ lookups'[Len(lookups) + 1].msg = m
    BY <1>7
  <2>4. QED
    BY <2>1, <2>2, <2>3 DEF Looked
<1>10. QED
  BY <1>1, <1>4, <1>6, <1>7, <1>8, <1>9

LEMMA NextPlaced ==
    ASSUME TypeOK, Placed(sent, timers, delayTimers, lookups), [Next]_vars
    PROVE  Placed(sent, timers, delayTimers, lookups)'
<1>1. /\ sent \in Seq(MessageRecord) /\ Len(sent) \in Nat
      /\ timers \in Seq(TimerOf(Len(sent)))
      /\ delayTimers \in SUBSET (1..Len(sent))
      /\ lookups \in Seq(LookupOf(Len(sent)))
  BY PlaceTypes
<1>2. ASSUME NEW x, PutInPipeline(x, timers), UNCHANGED <<delayTimers, lookups>>
      PROVE  Placed(sent, timers, delayTimers, lookups)'
  BY <1>1, <1>2, PutPlaced DEF PutInPipeline
<1>3. ASSUME RunOutbound PROVE Placed(sent, timers, delayTimers, lookups)'
  <2> DEFINE m == Head(timers).msg
  <2>1. /\ timers # <<>> /\ Head(timers).stage = "outbound"
        /\ UNCHANGED <<sent, lookups>>
    BY <1>3 DEF RunOutbound
  <2>2. Tail(timers) \in Seq(TimerOf(Len(sent)))
    BY <1>1, <2>1, TailAny
  <2>3. /\ Placed(sent, Tail(timers), delayTimers, lookups)
        /\ m \in 1..Len(sent) /\ m \notin delayTimers /\ m \notin Looked(lookups)
        /\ \A i \in DOMAIN Tail(timers) : Tail(timers)[i].msg # m
    BY <1>1, <2>1, HeadPlaced
  <2>4. CASE sent[m].delayed
    <3>1. timers' = Tail(timers) /\ delayTimers' = delayTimers \cup {m}
      BY <1>3, <2>4 DEF RunOutbound
    <3>2. Placed(sent, Tail(timers), delayTimers \cup {m}, lookups)
      BY <1>1, <2>2, <2>3, <2>4, DelayPlaced
    <3>3. QED
      BY <2>1, <3>1, <3>2
  <2>5. CASE ~sent[m].delayed
    <3>1. timers' = Append(Tail(timers), InboundTimer(m)) /\ delayTimers' = delayTimers
      BY <1>3, <2>5 DEF RunOutbound
    <3>2. /\ \A i \in DOMAIN Tail(timers) :
               ~sent[Tail(timers)[i].msg].delayed =>
                  /\ Tail(timers)[i].stage = "inbound" => Tail(timers)[i].msg < m
                  /\ Tail(timers)[i].stage = "outbound" => m < Tail(timers)[i].msg
          /\ \A i \in DOMAIN lookups : ~sent[lookups[i].msg].delayed => lookups[i].msg < m
      BY <1>1, <2>1, <2>5, HeadPlaced
    <3>3. Placed(sent, Append(Tail(timers), InboundTimer(m)), delayTimers, lookups)
      BY <1>1, <2>2, <2>3, <3>2, EnterPlaced
    <3>4. QED
      BY <2>1, <3>1, <3>3
  <2>6. QED
    BY <2>4, <2>5
<1>4. ASSUME NEW m, DelayElapses(m) PROVE Placed(sent, timers, delayTimers, lookups)'
  <2>1. /\ m \in delayTimers /\ delayTimers' = delayTimers \ {m}
        /\ timers' = Append(timers, InboundTimer(m))
        /\ UNCHANGED <<sent, lookups>>
    BY <1>4 DEF DelayElapses
  <2>2. /\ Placed(sent, timers, delayTimers \ {m}, lookups)
        /\ sent[m].delayed /\ m \notin Looked(lookups) /\ m \in 1..Len(sent)
        /\ \A i \in DOMAIN timers : timers[i].msg # m
    BY <1>1, <2>1, DelayPlaced
  <2>3. delayTimers \ {m} \in SUBSET (1..Len(sent)) /\ m \notin delayTimers \ {m}
    BY <1>1
  <2>4. Placed(sent, Append(timers, InboundTimer(m)), delayTimers \ {m}, lookups)
    BY <1>1, <2>2, <2>3, EnterPlaced
  <2>5. QED
    BY <2>1, <2>4
<1>5. ASSUME NEW m, InboundReady(m), timers' = Tail(timers), UNCHANGED <<sent, delayTimers>>
      PROVE  Placed(sent, timers, delayTimers, lookups)'
  BY <1>5, LookupPlaced
<1>6. ASSUME NEW m, RejectCommand(m) PROVE Placed(sent, timers, delayTimers, lookups)'
  <2>1. /\ InboundReady(m) /\ PutInPipeline(ErrorMessage(0, m), Tail(timers))
        /\ delayTimers' = delayTimers
    BY <1>6 DEF RejectCommand
  <2>2. /\ Placed(sent, Tail(timers), delayTimers, lookups')
        /\ Tail(timers) \in Seq(TimerOf(Len(sent)))
        /\ lookups' \in Seq(LookupOf(Len(sent)))
    BY <2>1, LookupPlaced
  <2>3. QED
    BY <1>1, <2>1, <2>2, PutPlaced DEF PutInPipeline
<1>7. CASE UNCHANGED <<sent, timers, delayTimers, lookups>>
  BY <1>7
<1>8. \/ UNCHANGED <<sent, timers, delayTimers, lookups>>
      \/ \E x : PutInPipeline(x, timers) /\ UNCHANGED <<delayTimers, lookups>>
      \/ RunOutbound
      \/ \E m \in DOMAIN sent :
           \/ DelayElapses(m)
           \/ RejectCommand(m)
           \/ InboundReady(m) /\ timers' = Tail(timers) /\ UNCHANGED <<sent, delayTimers>>
  BY DEF Next, vars, Send, SendFromHandler, Complete, Fail, End, Subscribe, Unsubscribe,
         RunInbound, NobodyListens, StartLoop, ContinueLoop
<1>9. QED
  BY <1>2, <1>3, <1>4, <1>5, <1>6, <1>7, <1>8

-----------------------------------------------------------------------------
(* Whom a message has reached.  The operators take the values of the       *)
(* variables: S the messages sent, C the contexts, I what was ignored, L   *)
(* the lookups and l the loop.                                             *)

At(C, s, m) == \E c \in DOMAIN C : C[c].sub = s /\ C[c].msg = m

MatchesIn(S, s, m) == s \notin Wildcard /\ S[m].type \in Filter[s]

Before(S, s, t, m) ==
    \/ MatchesIn(S, s, m) /\ ~MatchesIn(S, t, m)
    \/ (MatchesIn(S, s, m) <=> MatchesIn(S, t, m)) /\ s < t

(* Handlers and refusals are about messages that have been looked up, and  *)
(* only subscribers found then are reached.                                *)
OnlyFound(C, I, L) ==
    /\ \A c \in DOMAIN C : C[c].msg \in Looked(L)
    /\ \A s \in Sub : \A m : <<s, m>> \in I => m \in Looked(L)
    /\ \A k \in DOMAIN L : \A s \in Sub : At(C, s, L[k].msg) => s \in L[k].subs

OnceEach(C) ==
    \A c, d \in DOMAIN C : C[c].sub = C[d].sub /\ C[c].msg = C[d].msg => c = d

(* The loop over pending subscribers of the last message looked up, an     *)
(* event: it has reached the first of them and the rest is pending.        *)
StandsAt(S, C, m, pending, e) ==
    /\ m = e.msg
    /\ pending \subseteq e.subs
    /\ \A s \in e.subs : At(C, s, m) <=> s \notin pending
    /\ \A s \in e.subs \ pending, t \in pending : Before(S, s, t, m)

LoopStands(S, C, l, L) ==
    l.msg # 0 => /\ Len(L) # 0
                 /\ S[l.msg].intent = "publish"
                 /\ StandsAt(S, C, l.msg, l.pending, L[Len(L)])

(* An event is settled when it has reached all its subscribers, or those   *)
(* before the one that refused it.                                         *)
Settled(S, C, I, e) ==
    \/ \A s \in e.subs : At(C, s, e.msg)
    \/ \E r \in e.subs : /\ <<r, e.msg>> \in I
                         /\ \A s \in e.subs : At(C, s, e.msg) <=> Before(S, s, r, e.msg)

EventsSettled(S, C, I, l, L) ==
    \A k \in DOMAIN L :
        S[L[k].msg].intent = "publish" /\ l.msg # L[k].msg => Settled(S, C, I, L[k])

(* The outcomes of a message: handlers, refusals, errors of the bus.       *)
Handlers(C, m) == {c \in DOMAIN C : C[c].msg = m}
Refusals(I, m) == {s \in Sub : <<s, m>> \in I}
BusErrors(S, m) == {n \in DOMAIN S : S[n].about = m /\ S[n].from = 0}

One(X) == \E x \in X : X = {x}

NoOutcome(S, C, I, m) == Handlers(C, m) = {} /\ Refusals(I, m) = {} /\ BusErrors(S, m) = {}

OneOutcome(S, C, I, m) ==
    \/ One(Handlers(C, m)) /\ Refusals(I, m) = {} /\ BusErrors(S, m) = {}
    \/ Handlers(C, m) = {} /\ One(Refusals(I, m)) /\ BusErrors(S, m) = {}
    \/ Handlers(C, m) = {} /\ Refusals(I, m) = {} /\ One(BusErrors(S, m))

(* A command has one of them once it is looked up, and none before.        *)
CommandsSettled(S, C, I, L) ==
    \A m \in DOMAIN S : S[m].intent = "send" =>
        IF m \in Looked(L) THEN OneOutcome(S, C, I, m) ELSE NoOutcome(S, C, I, m)

Delivered(S, C, I, l, L) ==
    OnlyFound(C, I, L) /\ OnceEach(C) /\ LoopStands(S, C, l, L) /\ EventsSettled(S, C, I, l, L)

DeliveryInv ==
    /\ TypeOK
    /\ Placed(sent, timers, delayTimers, lookups)
    /\ Delivered(sent, contexts, ignored, loop, lookups)
    /\ CommandsSettled(sent, contexts, ignored, lookups)

LEMMA BeforeStrictly ==
    ASSUME NEW S, NEW s \in Sub, NEW t \in Sub, NEW m
    PROVE  ~Before(S, s, s, m) /\ (Before(S, s, t, m) => ~Before(S, t, s, m))
<1>1. ~(s < s) /\ (s < t => ~(t < s))
  BY ConstantsAssumption DEF Sub
<1>2. QED
  BY <1>1, Zenon DEF Before

(* A turn of the loop: subscriber s refuses message m or gets a context.   *)
Turn(C, C2, I, I2, l2, s, m, pending) ==
    \/ /\ DOMAIN C2 = DOMAIN C
       /\ \A c \in DOMAIN C : C2[c].sub = C[c].sub /\ C2[c].msg = C[c].msg
       /\ I2 = I \cup {<<s, m>>}
       /\ l2 = NoLoop
    \/ /\ \E new : /\ new \notin DOMAIN C
                   /\ DOMAIN C2 = DOMAIN C \cup {new}
                   /\ C2[new].sub = s /\ C2[new].msg = m
       /\ \A c \in DOMAIN C : C2[c].sub = C[c].sub /\ C2[c].msg = C[c].msg
       /\ I2 = I
       /\ l2 = IF pending = {s} THEN NoLoop ELSE [msg |-> m, pending |-> pending \ {s}]

LEMMA TurnDelivers ==
    ASSUME NEW S, NEW C, NEW C2, NEW I, NEW I2, NEW l2, NEW L,
           NEW n \in Nat \ {0}, DOMAIN L = 1..n, Len(L) = n,
           \A k \in 1..n : L[k].subs \in SUBSET Sub,
           NEW m, m # 0, \A k \in 1..n : k # n => L[k].msg # m,
           NEW s \in Sub, NEW pending \in SUBSET Sub, Turn(C, C2, I, I2, l2, s, m, pending),
           OnlyFound(C, I, L), OnceEach(C),
           StandsAt(S, C, m, pending, L[n]),
           s \in pending, \A t \in pending \ {s} : Before(S, s, t, m),
           pending # {s} => S[m].intent = "publish",
           \A k \in 1..n : k # n /\ S[L[k].msg].intent = "publish" => Settled(S, C, I, L[k])
    PROVE  Delivered(S, C2, I2, l2, L)
<1>1. /\ L[n].msg = m /\ pending \subseteq L[n].subs /\ m \in Looked(L)
      /\ \A t \in L[n].subs : At(C, t, m) <=> t \notin pending
      /\ \A t \in L[n].subs \ pending, u \in pending : Before(S, t, u, m)
  BY DEF StandsAt, Looked
<1>2. CASE /\ DOMAIN C2 = DOMAIN C
           /\ \A c \in DOMAIN C : C2[c].sub = C[c].sub /\ C2[c].msg = C[c].msg
           /\ I2 = I \cup {<<s, m>>}
           /\ l2 = NoLoop
  <2>1. \A t, e : At(C2, t, e) <=> At(C, t, e)
    BY <1>2 DEF At
  <2>2. OnceEach(C2)
    BY <1>2 DEF OnceEach
  <2>3. OnlyFound(C2, I2, L)
    <3>1. \A c \in DOMAIN C2 : C2[c].msg \in Looked(L)
      BY <1>2 DEF OnlyFound
    <3>2. \A t \in Sub : \A e : <<t, e>> \in I2 => e \in Looked(L)
      BY <1>1, <1>2 DEF OnlyFound
    <3>3. \A k \in DOMAIN L : \A t \in Sub : At(C2, t, L[k].msg) => t \in L[k].subs
      BY <2>1 DEF OnlyFound
    <3>4. QED
      BY <3>1, <3>2, <3>3 DEF OnlyFound
  <2>4. LoopStands(S, C2, l2, L)
    BY <1>2 DEF LoopStands, NoLoop
  <2>5. EventsSettled(S, C2, I2, l2, L)
    <3> SUFFICES ASSUME NEW k \in 1..n, S[L[k].msg].intent = "publish"
                 PROVE  Settled(S, C2, I2, L[k])
      BY DEF EventsSettled
    <3>1. CASE k # n
      <4>1. Settled(S, C, I, L[k])
        BY <3>1
      <4>2. QED
        BY <1>2, <2>1, <4>1 DEF Settled
    <3>2. CASE k = n
      <4>1. <<s, m>> \in I2 /\ s \in L[n].subs
        BY <1>1, <1>2
      <4>2. ASSUME NEW t \in L[n].subs PROVE At(C2, t, m) <=> Before(S, t, s, m)
        <5>1. CASE t \notin pending
          BY <1>1, <2>1, <4>2, <5>1
        <5>2. CASE t \in pending
          BY <1>1, <2>1, <4>2, <5>2, BeforeStrictly
        <5>3. QED
          BY <5>1, <5>2
      <4>3. QED
        BY <1>1, <3>2, <4>1, <4>2 DEF Settled
    <3>3. QED
      BY <3>1, <3>2
  <2>6. QED
    BY <2>2, <2>3, <2>4, <2>5 DEF Delivered
<1>3. ASSUME NEW new, new \notin DOMAIN C, DOMAIN C2 = DOMAIN C \cup {new},
             C2[new].sub = s, C2[new].msg = m,
             \A c \in DOMAIN C : C2[c].sub = C[c].sub /\ C2[c].msg = C[c].msg,
             I2 = I,
             l2 = IF pending = {s} THEN NoLoop ELSE [msg |-> m, pending |-> pending \ {s}]
      PROVE  Delivered(S, C2, I2, l2, L)
  <2>1. \A t, e : At(C2, t, e) <=> At(C, t, e) \/ (t = s /\ e = m)
    BY <1>3 DEF At
  <2>2. ~At(C, s, m)
    BY <1>1
  <2>3. OnceEach(C2)
    <3> SUFFICES ASSUME NEW c \in DOMAIN C2, NEW d \in DOMAIN C2,
                        C2[c].sub = C2[d].sub, C2[c].msg = C2[d].msg
                 PROVE  c = d
      BY DEF OnceEach
    <3>1. CASE c \in DOMAIN C /\ d \in DOMAIN C
      BY <1>3, <3>1 DEF OnceEach
    <3>2. CASE c \in DOMAIN C /\ d = new
      BY <1>3, <2>2, <3>2 DEF At
    <3>3. CASE c = new /\ d \in DOMAIN C
      BY <1>3, <2>2, <3>3 DEF At
    <3>4. QED
      BY <1>3, <3>1, <3>2, <3>3
  <2>4. OnlyFound(C2, I2, L)
    <3>1. \A c \in DOMAIN C2 : C2[c].msg \in Looked(L)
      BY <1>1, <1>3 DEF OnlyFound
    <3>2. \A t \in Sub : \A e : <<t, e>> \in I2 => e \in Looked(L)
      BY <1>3 DEF OnlyFound
    <3>3. ASSUME NEW k \in DOMAIN L, NEW t \in Sub, At(C2, t, L[k].msg) PROVE t \in L[k].subs
      <4>1. CASE At(C, t, L[k].msg)
        BY <4>1 DEF OnlyFound
      <4>2. CASE t = s /\ L[k].msg = m
        BY <1>1, <4>2
      <4>3. QED
        BY <2>1, <3>3, <4>1, <4>2
    <3>4. QED
      BY <3>1, <3>2, <3>3 DEF OnlyFound
  <2>5. LoopStands(S, C2, l2, L)
    <3>1. CASE pending = {s}
      BY <1>3, <3>1 DEF LoopStands, NoLoop
    <3>2. CASE pending # {s}
      <4>1. l2.msg = m /\ l2.pending = pending \ {s} /\ S[m].intent = "publish"
        BY <1>3, <3>2
      <4>2. \A t \in L[n].subs : At(C2, t, m) <=> t \notin pending \ {s}
        BY <1>1, <2>1
      <4>3. \A t \in L[n].subs \ (pending \ {s}), u \in pending \ {s} : Before(S, t, u, m)
        BY <1>1
      <4>4. StandsAt(S, C2, m, pending \ {s}, L[n])
        BY <1>1, <4>2, <4>3 DEF StandsAt
      <4>5. QED
        BY <4>1, <4>4 DEF LoopStands
    <3>3. QED
      BY <3>1, <3>2
  <2>6. EventsSettled(S, C2, I2, l2, L)
    <3> SUFFICES ASSUME NEW k \in 1..n, S[L[k].msg].intent = "publish", l2.msg # L[k].msg
                 PROVE  Settled(S, C2, I2, L[k])
      BY DEF EventsSettled
    <3>1. CASE k # n
      <4>1. L[k].msg # m /\ Settled(S, C, I, L[k])
        BY <3>1
      <4>2. \A t : At(C2, t, L[k].msg) <=> At(C, t, L[k].msg)
        BY <2>1, <4>1
      <4>3. QED
        BY <1>3, <4>1, <4>2 DEF Settled
    <3>2. CASE k = n
      <4>1. pending = {s}
        BY <1>1, <1>3, <3>2
      <4>2. \A t \in L[n].subs : At(C2, t, m)
        BY <1>1, <2>1, <4>1
      <4>3. QED
        BY <1>1, <3>2, <4>2 DEF Settled
    <3>3. QED
      BY <3>1, <3>2
  <2>7. QED
    BY <2>3, <2>4, <2>5, <2>6 DEF Delivered
<1>4. QED
  BY <1>2, <1>3 DEF Turn

(* A step that looks nothing up and hands nothing over. *)
LEMMA QuietDelivers ==
    ASSUME NEW S, NEW S2, NEW C, NEW C2, NEW I, NEW l, NEW L, NEW N \in Nat,
           \A m \in 1..N : S2[m] = S[m],
           \A k \in DOMAIN L : L[k].msg \in 1..N, l.msg \in 0..N,
           DOMAIN C2 = DOMAIN C,
           \A c \in DOMAIN C : C2[c].sub = C[c].sub /\ C2[c].msg = C[c].msg,
           Delivered(S, C, I, l, L)
    PROVE  Delivered(S2, C2, I, l, L)
<1>1. \A t, e : At(C2, t, e) <=> At(C, t, e)
  BY DEF At
<1>2. ASSUME NEW m \in 1..N, NEW s, NEW t PROVE Before(S2, s, t, m) <=> Before(S, s, t, m)
  <2>1. S2[m] = S[m]
    OBVIOUS
  <2>2. QED
    BY <2>1 DEF Before, MatchesIn
<1>3. OnceEach(C2)
  BY DEF Delivered, OnceEach
<1>4. OnlyFound(C2, I, L)
  <2>1. \A c \in DOMAIN C2 : C2[c].msg \in Looked(L)
    BY DEF Delivered, OnlyFound
  <2>2. QED
    BY <1>1, <2>1 DEF Delivered, OnlyFound
<1>5. LoopStands(S2, C2, l, L)
  <2> SUFFICES ASSUME l.msg # 0
               PROVE  /\ Len(L) # 0 /\ S2[l.msg].intent = "publish"
                      /\ StandsAt(S2, C2, l.msg, l.pending, L[Len(L)])
    BY DEF LoopStands
  <2>1. l.msg \in 1..N
    OBVIOUS
  <2>2. /\ Len(L) # 0 /\ S[l.msg].intent = "publish"
        /\ StandsAt(S, C, l.msg, l.pending, L[Len(L)])
    BY DEF Delivered, LoopStands
  <2>3. StandsAt(S2, C2, l.msg, l.pending, L[Len(L)])
    BY <1>1, <1>2, <2>1, <2>2 DEF StandsAt
  <2>4. QED
    BY <2>1, <2>2, <2>3
<1>6. EventsSettled(S2, C2, I, l, L)
  <2> SUFFICES ASSUME NEW k \in DOMAIN L, S2[L[k].msg].intent = "publish", l.msg # L[k].msg
               PROVE  Settled(S2, C2, I, L[k])
    BY DEF EventsSettled
  <2>1. L[k].msg \in 1..N /\ S2[L[k].msg] = S[L[k].msg]
    OBVIOUS
  <2>2. Settled(S, C, I, L[k])
    BY <2>1 DEF Delivered, EventsSettled
  <2>3. QED
    BY <1>1, <1>2, <2>1, <2>2 DEF Settled
<1>7. QED
  BY <1>3, <1>4, <1>5, <1>6 DEF Delivered

(* A new lookup keeps what was found before: no handler has its message.   *)
LEMMA LookupFinds ==
    ASSUME NEW C, NEW I, NEW L, NEW L2, NEW m, NEW n \in Nat, OnlyFound(C, I, L),
           DOMAIN L = 1..n, DOMAIN L2 = 1..(n + 1),
           \A k \in 1..n : L2[k] = L[k], L2[n + 1].msg = m,
           m \notin Looked(L), Looked(L2) = Looked(L) \cup {m}
    PROVE  /\ OnlyFound(C, I, L2)
           /\ \A s : ~At(C, s, m)
           /\ \A k \in 1..n : L2[k].msg # m
<1>1. \A s : ~At(C, s, m)
  BY DEF At, OnlyFound
<1>2. \A k \in 1..n : L2[k].msg # m
  BY DEF Looked
<1>3. ASSUME NEW k \in DOMAIN L2, NEW s \in Sub, At(C, s, L2[k].msg) PROVE s \in L2[k].subs
  <2>1. CASE k \in 1..n
    BY <1>3, <2>1 DEF OnlyFound
  <2>2. CASE k = n + 1
    BY <1>1, <1>3, <2>2
  <2>3. QED
    BY <2>1, <2>2
<1>4. QED
  BY <1>1, <1>2, <1>3 DEF OnlyFound

(* A message nobody is handed: a rejected command, an event without        *)
(* subscribers.                                                            *)
LEMMA UnheardDelivers ==
    ASSUME NEW S, NEW C, NEW I, NEW l, NEW L, NEW L2, NEW e, NEW n \in Nat,
           Delivered(S, C, I, l, L), l.msg = 0,
           DOMAIN L = 1..n, DOMAIN L2 = 1..(n + 1),
           \A k \in 1..n : L2[k] = L[k], L2[n + 1] = e,
           e.msg \notin Looked(L), Looked(L2) = Looked(L) \cup {e.msg},
           \A k \in 1..n : L[k].msg # 0,
           S[e.msg].intent = "publish" => e.subs = {}
    PROVE  Delivered(S, C, I, l, L2)
<1>1. OnlyFound(C, I, L) /\ OnceEach(C) /\ EventsSettled(S, C, I, l, L)
  BY DEF Delivered
<1>2. OnlyFound(C, I, L2)
  <2>1. L2[n + 1].msg = e.msg
    OBVIOUS
  <2>2. QED
    BY <1>1, <2>1, LookupFinds
<1>3. LoopStands(S, C, l, L2)
  BY DEF LoopStands
<1>4. EventsSettled(S, C, I, l, L2)
  <2> SUFFICES ASSUME NEW k \in DOMAIN L2, S[L2[k].msg].intent = "publish"
               PROVE  Settled(S, C, I, L2[k])
    BY DEF EventsSettled
  <2>1. CASE k \in 1..n
    <3>1. L2[k] = L[k] /\ L[k].msg # 0 /\ k \in DOMAIN L
      BY <2>1
    <3>2. QED
      BY <1>1, <3>1 DEF EventsSettled
  <2>2. CASE k = n + 1
    BY <2>2 DEF Settled
  <2>3. QED
    BY <2>1, <2>2
<1>5. QED
  BY <1>1, <1>2, <1>3, <1>4 DEF Delivered

-----------------------------------------------------------------------------
(* The outcome of a command *)

(* Nothing happens to a command in a step that hands nothing over; a new   *)
(* message that reports no error of the bus has no part in any outcome.    *)
LEMMA QuietSettles ==
    ASSUME NEW S, NEW S2, NEW C, NEW C2, NEW I, NEW L, NEW N \in Nat, NEW N2 \in Nat,
           DOMAIN S = 1..N, DOMAIN S2 = 1..N2, N <= N2,
           \A m \in 1..N : S2[m] = S[m],
           \A m \in (1..N2) \ (1..N) : S2[m].from # 0 \/ S2[m].about = 0,
           DOMAIN C2 = DOMAIN C, \A c \in DOMAIN C : C2[c].msg = C[c].msg,
           CommandsSettled(S, C, I, L),
           Looked(L) \subseteq 1..N,
           \A c \in DOMAIN C : C[c].msg \in Looked(L),
           \A s \in Sub : \A m : <<s, m>> \in I => m \in Looked(L),
           \A m \in 1..N : S[m].about \in 0..N
    PROVE  CommandsSettled(S2, C2, I, L)
<1>1. \A m : Handlers(C2, m) = Handlers(C, m)
  BY DEF Handlers
<1>2. ASSUME NEW m, m # 0 PROVE BusErrors(S2, m) = BusErrors(S, m)
  <2>1. ASSUME NEW k \in 1..N2, S2[k].about = m, S2[k].from = 0 PROVE k \in 1..N
    BY <1>2, <2>1
  <2>2. QED
    BY <2>1 DEF BusErrors
<1>3. ASSUME NEW m \in 1..N2, S2[m].intent = "send"
      PROVE  IF m \in Looked(L) THEN OneOutcome(S2, C2, I, m) ELSE NoOutcome(S2, C2, I, m)
  <2>1. BusErrors(S2, m) = BusErrors(S, m)
    BY <1>2
  <2>2. CASE m \in 1..N
    <3>1. IF m \in Looked(L) THEN OneOutcome(S, C, I, m) ELSE NoOutcome(S, C, I, m)
      BY <1>3, <2>2 DEF CommandsSettled
    <3>2. QED
      BY <1>1, <2>1, <3>1 DEF OneOutcome, NoOutcome
  <2>3. CASE m \notin 1..N
    <3>1. m \notin Looked(L)
      BY <2>3
    <3>2. Handlers(C, m) = {} /\ Refusals(I, m) = {}
      BY <3>1 DEF Handlers, Refusals
    <3>3. BusErrors(S, m) = {}
      <4>1. m \notin 0..N
        BY <2>3
      <4>2. QED
        BY <4>1 DEF BusErrors
    <3>4. QED
      BY <1>1, <2>1, <3>1, <3>2, <3>3 DEF NoOutcome
  <2>4. QED
    BY <2>2, <2>3
<1>4. QED
  BY <1>3 DEF CommandsSettled

(* A message is looked up: what it gets at once is its outcome, if it is a *)
(* command, and no other command gets anything.                            *)
LEMMA LookupSettles ==
    ASSUME NEW S, NEW S2, NEW C, NEW C2, NEW I, NEW I2, NEW L, NEW L2, NEW N \in Nat,
           NEW m \in 1..N, DOMAIN S = 1..N, \A k \in 1..N : S2[k] = S[k],
           CommandsSettled(S, C, I, L), m \notin Looked(L), Looked(L2) = Looked(L) \cup {m},
           \A k \in DOMAIN S2 : k \notin 1..N => S2[k].intent # "send",
           \A k : k # m /\ k # 0 => /\ Handlers(C2, k) = Handlers(C, k)
                                 /\ Refusals(I2, k) = Refusals(I, k)
                                 /\ BusErrors(S2, k) = BusErrors(S, k),
           S[m].intent = "send" /\ NoOutcome(S, C, I, m) => OneOutcome(S2, C2, I2, m)
    PROVE  CommandsSettled(S2, C2, I2, L2)
<1> SUFFICES ASSUME NEW k \in DOMAIN S2, S2[k].intent = "send"
             PROVE  IF k \in Looked(L2) THEN OneOutcome(S2, C2, I2, k)
                                        ELSE NoOutcome(S2, C2, I2, k)
  BY DEF CommandsSettled
<1>1. k \in 1..N /\ S[k].intent = "send"
  OBVIOUS
<1>2. IF k \in Looked(L) THEN OneOutcome(S, C, I, k) ELSE NoOutcome(S, C, I, k)
  BY <1>1 DEF CommandsSettled
<1>3. CASE k = m
  BY <1>1, <1>2, <1>3
<1>4. CASE k # m
  <2>1. /\ Handlers(C2, k) = Handlers(C, k)
        /\ Refusals(I2, k) = Refusals(I, k)
        /\ BusErrors(S2, k) = BusErrors(S, k)
    BY <1>1, <1>4
  <2>2. QED
    BY <1>2, <1>4, <2>1 DEF OneOutcome, NoOutcome
<1>5. QED
  BY <1>3, <1>4

(* A turn of the loop is the outcome of the message handed over, and of no *)
(* other.                                                                  *)
LEMMA TurnSettles ==
    ASSUME NEW C, NEW C2, NEW I, NEW I2, NEW l2, NEW s \in Sub, NEW m, NEW pending,
           Turn(C, C2, I, I2, l2, s, m, pending)
    PROVE  /\ \A k : k # m => Handlers(C2, k) = Handlers(C, k) /\ Refusals(I2, k) = Refusals(I, k)
           /\ Handlers(C, m) = {} /\ Refusals(I, m) = {} =>
                \/ One(Handlers(C2, m)) /\ Refusals(I2, m) = {}
                \/ Handlers(C2, m) = {} /\ One(Refusals(I2, m))
<1>1. CASE /\ DOMAIN C2 = DOMAIN C
           /\ \A c \in DOMAIN C : C2[c].sub = C[c].sub /\ C2[c].msg = C[c].msg
           /\ I2 = I \cup {<<s, m>>}
  <2>1. \A k : Handlers(C2, k) = Handlers(C, k)
    BY <1>1 DEF Handlers
  <2>2. \A k : k # m => Refusals(I2, k) = Refusals(I, k)
    BY <1>1 DEF Refusals
  <2>3. Refusals(I, m) = {} => Refusals(I2, m) = {s}
    BY <1>1 DEF Refusals
  <2>4. QED
    BY <2>1, <2>2, <2>3 DEF One
<1>2. ASSUME NEW new, new \notin DOMAIN C, DOMAIN C2 = DOMAIN C \cup {new},
             C2[new].sub = s, C2[new].msg = m,
             \A c \in DOMAIN C : C2[c].sub = C[c].sub /\ C2[c].msg = C[c].msg,
             I2 = I
      PROVE  /\ \A k : k # m => Handlers(C2, k) = Handlers(C, k)
             /\ Handlers(C, m) = {} => Handlers(C2, m) = {new}
  <2>1. ASSUME NEW k, k # m PROVE Handlers(C2, k) = Handlers(C, k)
    BY <1>2, <2>1 DEF Handlers
  <2>2. ASSUME Handlers(C, m) = {} PROVE Handlers(C2, m) = {new}
    BY <1>2, <2>2 DEF Handlers
  <2>3. QED
    BY <2>1, <2>2
<1>3. QED
  BY <1>1, <1>2 DEF Turn, One

-----------------------------------------------------------------------------
(* Every step keeps the invariant *)

(* What the types say of the identifiers in lookups, loop and contexts. *)
LEMMA DeliveryTypes ==
    ASSUME TypeOK
    PROVE  /\ Len(sent) \in Nat /\ DOMAIN sent = 1..Len(sent) /\ MessageIds = 1..Len(sent)
           /\ Len(lookups) \in Nat /\ DOMAIN lookups = 1..Len(lookups)
           /\ \A k \in DOMAIN lookups :
                lookups[k].msg \in 1..Len(sent) /\ lookups[k].subs \in SUBSET Sub
           /\ Looked(lookups) \subseteq 1..Len(sent)
           /\ loop.msg \in 0..Len(sent) /\ loop.pending \in SUBSET Sub
           /\ \A m \in 1..Len(sent) :
                sent[m].about \in 0..Len(sent) /\ sent[m].intent \in {"send", "publish"}
<1>1. /\ sent \in Seq(MessageRecord) /\ lookups \in Seq(LookupRecord) /\ loop \in LoopRecord
  BY DEF TypeOK
<1>2. /\ Len(sent) \in Nat /\ DOMAIN sent = 1..Len(sent)
      /\ Len(lookups) \in Nat /\ DOMAIN lookups = 1..Len(lookups)
  BY <1>1, LenProperties
<1>3. MessageIds = 1..Len(sent)
  BY DEF MessageIds
<1>4. \A k \in DOMAIN lookups : lookups[k] \in LookupRecord
  BY <1>1, Elements
<1>5. \A m \in DOMAIN sent : sent[m] \in MessageRecord
  BY <1>1, Elements
<1>6. \A k \in DOMAIN lookups :
        lookups[k].msg \in 1..Len(sent) /\ lookups[k].subs \in SUBSET Sub
  BY <1>3, <1>4 DEF LookupRecord
<1>7. loop.msg \in 0..Len(sent) /\ loop.pending \in SUBSET Sub
  BY <1>1, <1>2, <1>3 DEF LoopRecord
<1>8. \A m \in 1..Len(sent) :
        sent[m].about \in 0..Len(sent) /\ sent[m].intent \in {"send", "publish"}
  BY <1>2, <1>5 DEF MessageRecord
<1>9. QED
  BY <1>2, <1>3, <1>6, <1>7, <1>8 DEF Looked

(* What is sent stays. *)
LEMMA SentKept ==
    ASSUME TypeOK, NEW x, sent' = Append(sent, x)
    PROVE  /\ Len(sent') = Len(sent) + 1 /\ DOMAIN sent' = 1..(Len(sent) + 1)
           /\ \A m \in 1..Len(sent) : sent'[m] = sent[m]
           /\ sent'[Len(sent) + 1] = x
  BY AppendAny DEF TypeOK

(* Contexts stay with their subscriptions and messages. *)
ContextsKept ==
    /\ DOMAIN contexts' = DOMAIN contexts
    /\ \A c \in DOMAIN contexts :
         contexts'[c].sub = contexts[c].sub /\ contexts'[c].msg = contexts[c].msg

LEMMA QuietKeeps ==
    ASSUME DeliveryInv, ContextsKept, UNCHANGED <<ignored, loop, lookups>>,
           sent' = sent \/ \E x : sent' = Append(sent, x) /\ (x.from # 0 \/ x.about = 0)
    PROVE  /\ Delivered(sent, contexts, ignored, loop, lookups)'
           /\ CommandsSettled(sent, contexts, ignored, lookups)'
<1> DEFINE N == Len(sent)
<1>1. /\ TypeOK /\ Delivered(sent, contexts, ignored, loop, lookups)
      /\ CommandsSettled(sent, contexts, ignored, lookups)
      /\ OnlyFound(contexts, ignored, lookups)
  BY DEF DeliveryInv, Delivered
<1>2. /\ N \in Nat /\ DOMAIN sent = 1..N /\ Looked(lookups) \subseteq 1..N
      /\ \A k \in DOMAIN lookups : lookups[k].msg \in 1..N
      /\ loop.msg \in 0..N
      /\ \A m \in 1..N : sent[m].about \in 0..N
  BY <1>1, DeliveryTypes
<1> DEFINE N2 == Len(sent')
<1>3. /\ N2 \in Nat /\ DOMAIN sent' = 1..N2 /\ N <= N2
      /\ \A m \in 1..N : sent'[m] = sent[m]
      /\ \A m \in (1..N2) \ (1..N) : sent'[m].from # 0 \/ sent'[m].about = 0
  <2>1. CASE sent' = sent
    BY <1>2, <2>1
  <2>2. CASE \E x : sent' = Append(sent, x) /\ (x.from # 0 \/ x.about = 0)
    <3>1. PICK x : sent' = Append(sent, x) /\ (x.from # 0 \/ x.about = 0)
      BY <2>2
    <3>2. /\ DOMAIN sent' = 1..(N + 1) /\ N2 = N + 1
          /\ \A m \in 1..N : sent'[m] = sent[m]
          /\ sent'[N + 1] = x
      BY <1>1, <3>1, SentKept
    <3>3. \A m \in (1..N2) \ (1..N) : sent'[m] = x
      <4>1. \A m \in (1..(N + 1)) \ (1..N) : m = N + 1
        BY <1>2
      <4>2. QED
        BY <3>2, <4>1
    <3>4. N2 \in Nat /\ N <= N2
      BY <1>2, <3>2
    <3>5. \A m \in (1..N2) \ (1..N) : sent'[m].from # 0 \/ sent'[m].about = 0
      BY <3>1, <3>3
    <3>6. QED
      BY <3>2, <3>4, <3>5
  <2>3. QED
    BY <2>1, <2>2
<1> HIDE DEF N, N2
<1>4. Delivered(sent', contexts', ignored, loop, lookups)
  BY ZenonT(40), <1>1, <1>2, <1>3, QuietDelivers DEF ContextsKept
<1>5. CommandsSettled(sent', contexts', ignored, lookups)
  BY SMTT(40), <1>1, <1>2, <1>3, QuietSettles DEF ContextsKept, OnlyFound
<1>6. QED
  BY <1>4, <1>5

(* A message handed over by a turn of the loop. *)
LEMMA HandToTurn ==
    ASSUME TypeOK, NEW s \in Sub, NEW m \in MessageIds, NEW pending, HandTo(s, m, pending)
    PROVE  Turn(contexts, contexts', ignored, ignored', loop', s, m, pending)
<1>1. DOMAIN contexts = 1..Len(contexts) /\ Len(contexts) \in Nat
  BY ContextFacts
<1>2. CASE Refuses(s, m)
  BY <1>2 DEF HandTo, handlerVars, Turn
<1>3. CASE ~Refuses(s, m)
  <2> DEFINE new == [sub |-> s, msg |-> m, status |-> "running", wasCancelled |-> FALSE]
  <2>1. /\ ignored' = ignored
        /\ loop' = IF pending = {s} THEN NoLoop ELSE [msg |-> m, pending |-> pending \ {s}]
        /\ contexts' = Append(AfterCancelling(s), new)
    BY <1>3 DEF HandTo
  <2>2. AfterCancelling(s) \in Seq(ContextRecord) /\ Len(AfterCancelling(s)) = Len(contexts)
    BY CancellingTypes
  <2>3. new.sub = s /\ new.msg = m
    OBVIOUS
  <2> HIDE DEF new
  <2>4. /\ DOMAIN contexts' = 1..(Len(contexts) + 1)
        /\ contexts'[Len(contexts) + 1] = new
        /\ \A c \in 1..Len(contexts) : contexts'[c] = AfterCancelling(s)[c]
    BY <2>1, <2>2, AppendAny
  <2>5. \A c \in DOMAIN contexts :
          contexts'[c].sub = contexts[c].sub /\ contexts'[c].msg = contexts[c].msg
    BY <1>1, <2>4, CancellingTypes
  <2>6. /\ Len(contexts) + 1 \notin DOMAIN contexts
        /\ DOMAIN contexts' = DOMAIN contexts \cup {Len(contexts) + 1}
    BY <1>1, <2>4
  <2>7. QED
    BY <2>1, <2>3, <2>4, <2>5, <2>6 DEF Turn
<1>4. QED
  BY <1>2, <1>3

LEMMA NextIsBefore ==
    ASSUME NEW s, NEW pending, NEW m, IsNext(s, pending, m)
    PROVE  s \in pending /\ \A t \in pending \ {s} : Before(sent, s, t, m)
  BY DEF IsNext, Precedes, Exact, Before, MatchesIn

LEMMA UnheardKeeps ==
    ASSUME DeliveryInv, NEW m, RejectCommand(m) \/ NobodyListens(m)
    PROVE  /\ Delivered(sent, contexts, ignored, loop, lookups)'
           /\ CommandsSettled(sent, contexts, ignored, lookups)'
<1> DEFINE N == Len(sent)
           n == Len(lookups)
           e == [msg |-> m, subs |-> Subscribers(m)]
<1>1. /\ TypeOK /\ Delivered(sent, contexts, ignored, loop, lookups)
      /\ CommandsSettled(sent, contexts, ignored, lookups)
      /\ Placed(sent, timers, delayTimers, lookups)
  BY DEF DeliveryInv
<1>2. /\ N \in Nat /\ DOMAIN sent = 1..N /\ loop.msg \in 0..N
      /\ \A k \in DOMAIN lookups : lookups[k].msg \in 1..N
      /\ \A k \in 1..N : sent[k].intent \in {"send", "publish"}
  BY <1>1, DeliveryTypes
<1>3. InboundReady(m) /\ loop.msg = 0 /\ UNCHANGED <<contexts, ignored, loop>>
  BY DEF RejectCommand, NobodyListens, InboundReady, handlerVars
<1>4. /\ m \in 1..N /\ m \notin Looked(lookups)
      /\ n \in Nat /\ DOMAIN lookups = 1..n /\ DOMAIN lookups' = 1..(n + 1)
      /\ \A k \in 1..n : lookups'[k] = lookups[k]
      /\ lookups'[n + 1] = e
      /\ Looked(lookups') = Looked(lookups) \cup {m}
  BY <1>1, <1>3, LookupPlaced
<1>5. sent[m].intent = "publish" => e.subs = {}
  BY DEF RejectCommand, BadCommand, NobodyListens
<1>6. e.msg = m
  OBVIOUS
<1> HIDE DEF N, n, e
<1>7. Delivered(sent, contexts, ignored, loop, lookups')
  <2>1. \A k \in 1..n : lookups[k].msg # 0
    BY <1>2, <1>4
  <2>2. QED
    BY <1>1, <1>3, <1>4, <1>5, <1>6, <2>1, UnheardDelivers
<1>8. ASSUME RejectCommand(m)
      PROVE  /\ Delivered(sent', contexts, ignored, loop, lookups')
             /\ CommandsSettled(sent', contexts, ignored, lookups')
  <2> DEFINE error == ErrorMessage(0, m)
  <2>1. sent' = Append(sent, error)
    BY <1>8 DEF RejectCommand, PutInPipeline
  <2>2. error.from = 0 /\ error.about = m /\ error.intent = "publish"
    BY DEF ErrorMessage, Outgoing
  <2> HIDE DEF error
  <2>3. /\ DOMAIN sent' = 1..(N + 1)
        /\ \A k \in 1..N : sent'[k] = sent[k]
        /\ sent'[N + 1] = error
    BY <1>1, <2>1, SentKept DEF N
  <2>4. \A k \in DOMAIN lookups' : lookups'[k].msg \in 1..N
    <3>1. ASSUME NEW k \in 1..(n + 1) PROVE lookups'[k].msg \in 1..N
      <4>1. CASE k \in 1..n
        BY <1>2, <1>4, <4>1
      <4>2. CASE k = n + 1
        BY <1>4, <1>6, <4>2
      <4>3. QED
        BY <1>4, <4>1, <4>2
    <3>2. QED
      BY <1>4, <3>1
  <2>5. Delivered(sent', contexts, ignored, loop, lookups')
    BY <1>2, <1>7, <2>3, <2>4, QuietDelivers
  <2>6. /\ DOMAIN sent' = DOMAIN sent \cup {N + 1} /\ N + 1 \notin DOMAIN sent
        /\ \A k \in DOMAIN sent' : k \notin 1..N => k = N + 1
    BY <1>2, <2>3
  <2>7. \A k : k # m => BusErrors(sent', k) = BusErrors(sent, k)
    BY <1>2, <2>2, <2>3, <2>6 DEF BusErrors
  <2>8. BusErrors(sent, m) = {} => BusErrors(sent', m) = {N + 1}
    BY <1>2, <2>2, <2>3, <2>6 DEF BusErrors
  <2>9. NoOutcome(sent, contexts, ignored, m) => OneOutcome(sent', contexts, ignored, m)
    BY <2>8 DEF NoOutcome, OneOutcome, One
  <2>10. \A k \in DOMAIN sent' : k \notin 1..N => sent'[k].intent # "send"
    BY <2>2, <2>3, <2>6
  <2>11. CommandsSettled(sent', contexts, ignored, lookups')
    BY <1>1, <1>2, <1>4, <2>3, <2>7, <2>9, <2>10, LookupSettles
  <2>12. QED
    BY <2>5, <2>11
<1>9. ASSUME NobodyListens(m) PROVE sent' = sent /\ CommandsSettled(sent, contexts, ignored, lookups')
  <2>1. sent' = sent /\ Subscribers(m) = {} /\ ~BadCommand(m)
    BY <1>9 DEF NobodyListens
  <2>2. sent[m].intent # "send"
    BY <2>1, FS_EmptySet DEF BadCommand
  <2>3. \A k \in DOMAIN sent : k \notin 1..N => sent[k].intent # "send"
    BY <1>2
  <2>4. QED
    BY <1>1, <1>2, <1>4, <2>1, <2>2, <2>3, LookupSettles
<1>10. QED
  BY <1>3, <1>7, <1>8, <1>9

(* A subscriber that is the only one of a command. *)
LEMMA OnlySubscriber ==
    ASSUME TypeOK, NEW m, Cardinality(Subscribers(m)) = 1, NEW s \in Subscribers(m)
    PROVE  Subscribers(m) = {s}
<1>1. IsFiniteSet(Sub)
  BY ConstantsAssumption, FS_Interval DEF Sub
<1>2. IsFiniteSet(Subscribers(m))
  BY <1>1, SubscribersTyped, FS_Subset
<1>3. QED
  BY <1>2, FS_Singleton

LEMMA StartKeeps ==
    ASSUME DeliveryInv, NEW m, NEW s \in Sub, StartLoop(m, s)
    PROVE  /\ Delivered(sent, contexts, ignored, loop, lookups)'
           /\ CommandsSettled(sent, contexts, ignored, lookups)'
<1> DEFINE N == Len(sent)
           n == Len(lookups)
           e == [msg |-> m, subs |-> Subscribers(m)]
<1>1. /\ TypeOK /\ Delivered(sent, contexts, ignored, loop, lookups)
      /\ OnlyFound(contexts, ignored, lookups) /\ OnceEach(contexts)
      /\ EventsSettled(sent, contexts, ignored, loop, lookups)
      /\ CommandsSettled(sent, contexts, ignored, lookups)
      /\ Placed(sent, timers, delayTimers, lookups)
  BY DEF DeliveryInv, Delivered
<1>2. /\ N \in Nat /\ DOMAIN sent = 1..N /\ MessageIds = 1..N
      /\ \A k \in DOMAIN lookups : lookups[k].msg \in 1..N /\ lookups[k].subs \in SUBSET Sub
      /\ \A k \in 1..N : sent[k].intent \in {"send", "publish"}
  BY <1>1, DeliveryTypes
<1>3. InboundReady(m) /\ loop.msg = 0 /\ sent' = sent /\ ~BadCommand(m)
      /\ IsNext(s, Subscribers(m), m) /\ HandTo(s, m, Subscribers(m))
  BY DEF StartLoop, InboundReady
<1>4. /\ m \in 1..N /\ m \notin Looked(lookups)
      /\ n \in Nat /\ DOMAIN lookups = 1..n /\ DOMAIN lookups' = 1..(n + 1)
      /\ Len(lookups') = n + 1
      /\ \A k \in 1..n : lookups'[k] = lookups[k]
      /\ lookups'[n + 1] = e
      /\ Looked(lookups') = Looked(lookups) \cup {m}
  BY <1>1, <1>3, LookupPlaced
<1>5. e.msg = m /\ e.subs = Subscribers(m) /\ Subscribers(m) \in SUBSET Sub
  BY <1>1, SubscribersTyped
<1>6. s \in e.subs /\ \A t \in e.subs \ {s} : Before(sent, s, t, m)
  BY <1>3, <1>5, NextIsBefore
<1>7. sent[m].intent = "send" => e.subs = {s}
  BY <1>1, <1>3, <1>5, <1>6, OnlySubscriber DEF BadCommand
<1>8. Turn(contexts, contexts', ignored, ignored', loop', s, m, e.subs)
  BY <1>1, <1>2, <1>3, <1>4, <1>5, HandToTurn
<1> HIDE DEF N, n, e
<1>9. /\ OnlyFound(contexts, ignored, lookups')
      /\ \A t : ~At(contexts, t, m)
      /\ \A k \in 1..n : lookups'[k].msg # m
  <2>1. lookups'[n + 1].msg = m
    BY <1>4, <1>5
  <2>2. OnlyFound(contexts, ignored, lookups')
    BY <1>1, <1>4, <2>1, LookupFinds
  <2>3. \A t : ~At(contexts, t, m)
    BY <1>1, <1>4 DEF At, OnlyFound
  <2>4. \A k \in 1..n : lookups'[k].msg # m
    BY <1>4 DEF Looked
  <2>5. QED
    BY <2>2, <2>3, <2>4
<1>10. Delivered(sent, contexts', ignored', loop', lookups')
  <2>1. n + 1 \in Nat \ {0} /\ m # 0
    BY <1>2, <1>4
  <2>2. \A k \in 1..(n + 1) : k # n + 1 => k \in 1..n
    BY <1>4
  <2>3. \A k \in 1..(n + 1) : lookups'[k].subs \in SUBSET Sub
    BY <1>2, <1>4, <1>5, <2>2
  <2>4. StandsAt(sent, contexts, m, e.subs, lookups'[n + 1])
    BY <1>4, <1>5, <1>9 DEF StandsAt
  <2>5. \A k \in 1..(n + 1) :
          k # n + 1 /\ sent[lookups'[k].msg].intent = "publish"
          => Settled(sent, contexts, ignored, lookups'[k])
    <3> SUFFICES ASSUME NEW k \in 1..n, sent[lookups[k].msg].intent = "publish"
                 PROVE  Settled(sent, contexts, ignored, lookups[k])
      BY <1>4, <2>2
    <3>1. loop.msg # lookups[k].msg
      BY <1>2, <1>3, <1>4
    <3>2. QED
      BY <1>1, <1>4, <3>1 DEF EventsSettled
  <2>6. e.subs # {s} => sent[m].intent = "publish"
    BY <1>2, <1>4, <1>7
  <2>7. \A k \in 1..(n + 1) : k # n + 1 => lookups'[k].msg # m
    BY <1>9, <2>2
  <2>8. e.subs \in SUBSET Sub
    BY <1>5
  <2>9. QED
    BY SMTT(40), <1>1, <1>4, <1>6, <1>8, <1>9, <2>1, <2>3, <2>4, <2>5, <2>6, <2>7, <2>8, TurnDelivers
<1>11. CommandsSettled(sent, contexts', ignored', lookups')
  <2>1. /\ \A k : k # m => /\ Handlers(contexts', k) = Handlers(contexts, k)
                           /\ Refusals(ignored', k) = Refusals(ignored, k)
        /\ Handlers(contexts, m) = {} /\ Refusals(ignored, m) = {} =>
             \/ One(Handlers(contexts', m)) /\ Refusals(ignored', m) = {}
             \/ Handlers(contexts', m) = {} /\ One(Refusals(ignored', m))
    BY SMTT(40), <1>8, TurnSettles
  <2>2. NoOutcome(sent, contexts, ignored, m) => OneOutcome(sent, contexts', ignored', m)
    BY <2>1 DEF NoOutcome, OneOutcome
  <2>3. \A k \in DOMAIN sent : k \notin 1..N => sent[k].intent # "send"
    BY <1>2
  <2>4. QED
    BY <1>1, <1>2, <1>4, <2>1, <2>2, <2>3, LookupSettles
<1>12. QED
  BY <1>3, <1>10, <1>11

LEMMA ContinueKeeps ==
    ASSUME DeliveryInv, NEW s \in Sub, ContinueLoop(s)
    PROVE  /\ Delivered(sent, contexts, ignored, loop, lookups)'
           /\ CommandsSettled(sent, contexts, ignored, lookups)'
<1> DEFINE N == Len(sent)
           n == Len(lookups)
           m == loop.msg
<1>1. /\ TypeOK
      /\ OnlyFound(contexts, ignored, lookups) /\ OnceEach(contexts)
      /\ LoopStands(sent, contexts, loop, lookups)
      /\ EventsSettled(sent, contexts, ignored, loop, lookups)
      /\ CommandsSettled(sent, contexts, ignored, lookups)
      /\ InOnePlace(timers, delayTimers, lookups)
  BY DEF DeliveryInv, Delivered, Placed
<1>2. /\ N \in Nat /\ DOMAIN sent = 1..N /\ MessageIds = 1..N
      /\ n \in Nat /\ DOMAIN lookups = 1..n
      /\ \A k \in DOMAIN lookups : lookups[k].msg \in 1..N /\ lookups[k].subs \in SUBSET Sub
      /\ m \in 0..N /\ loop.pending \in SUBSET Sub
  BY <1>1, DeliveryTypes
<1>3. /\ m # 0 /\ UNCHANGED <<sent, lookups>>
      /\ IsNext(s, loop.pending, m) /\ HandTo(s, m, loop.pending)
  BY DEF ContinueLoop
<1>4. n # 0 /\ sent[m].intent = "publish" /\ StandsAt(sent, contexts, m, loop.pending, lookups[n])
  BY <1>1, <1>3 DEF LoopStands
<1>5. m = lookups[n].msg /\ m \in 1..N
  BY <1>2, <1>3, <1>4 DEF StandsAt
<1>6. s \in loop.pending /\ \A t \in loop.pending \ {s} : Before(sent, s, t, m)
  BY <1>3, NextIsBefore
<1>7. Turn(contexts, contexts', ignored, ignored', loop', s, m, loop.pending)
  BY <1>1, <1>2, <1>3, <1>5, HandToTurn
<1> HIDE DEF N, n, m
<1>8. \A k \in 1..n : k # n => lookups[k].msg # m
  <2> SUFFICES ASSUME NEW k \in 1..n, k # n PROVE lookups[k].msg # lookups[n].msg
    BY <1>5
  <2>1. k \in DOMAIN lookups /\ n \in DOMAIN lookups /\ k < n
    BY <1>2, <1>4
  <2>2. QED
    BY <1>1, <2>1 DEF InOnePlace
<1>9. \A k \in 1..n : k # n /\ sent[lookups[k].msg].intent = "publish"
                       => Settled(sent, contexts, ignored, lookups[k])
  BY <1>1, <1>2, <1>8 DEF EventsSettled, m
<1>10. Delivered(sent, contexts', ignored', loop', lookups)
  <2>1. n \in Nat \ {0} /\ Len(lookups) = n
    BY <1>2, <1>4 DEF n
  <2>2. QED
    BY <1>1, <1>2, <1>3, <1>4, <1>6, <1>7, <1>8, <1>9, <2>1, TurnDelivers
<1>11. CommandsSettled(sent, contexts', ignored', lookups)
  <2> SUFFICES ASSUME NEW k \in DOMAIN sent, sent[k].intent = "send"
               PROVE  IF k \in Looked(lookups) THEN OneOutcome(sent, contexts', ignored', k)
                                               ELSE NoOutcome(sent, contexts', ignored', k)
    BY DEF CommandsSettled
  <2>1. k # m
    BY <1>4
  <2>2. Handlers(contexts', k) = Handlers(contexts, k) /\ Refusals(ignored', k) = Refusals(ignored, k)
    BY <1>7, <2>1, TurnSettles
  <2>3. IF k \in Looked(lookups) THEN OneOutcome(sent, contexts, ignored, k)
                                 ELSE NoOutcome(sent, contexts, ignored, k)
    BY <1>1 DEF CommandsSettled
  <2>4. QED
    BY <2>2, <2>3 DEF OneOutcome, NoOutcome
<1>12. QED
  BY <1>3, <1>10, <1>11

LEMMA NextKeepsDelivery == DeliveryInv /\ [Next]_vars => DeliveryInv'
<1> SUFFICES ASSUME DeliveryInv, [Next]_vars PROVE DeliveryInv'
  OBVIOUS
<1>1. TypeOK /\ Placed(sent, timers, delayTimers, lookups)
  BY DEF DeliveryInv
<1>2. TypeOK' /\ Placed(sent, timers, delayTimers, lookups)'
  BY <1>1, NextTyped, NextPlaced
<1> DEFINE Kept == /\ Delivered(sent, contexts, ignored, loop, lookups)'
                   /\ CommandsSettled(sent, contexts, ignored, lookups)'
<1>3. DOMAIN contexts = 1..Len(contexts) /\ Len(contexts) \in Nat
  BY <1>1, ContextFacts
<1>4. ASSUME UNCHANGED <<contexts, ignored, loop, lookups>>,
             sent' = sent \/ \E x : sent' = Append(sent, x) /\ (x.from # 0 \/ x.about = 0)
      PROVE  Kept
  BY <1>4, QuietKeeps DEF ContextsKept
<1>5. ASSUME NEW message, Send(message) PROVE Kept
  <2>1. sent' = Append(sent, Outgoing(message, 0, 0)) /\ Outgoing(message, 0, 0).about = 0
    BY <1>5 DEF Send, PutInPipeline, Outgoing
  <2>2. UNCHANGED <<contexts, ignored, loop, lookups>>
    BY <1>5 DEF Send, handlerVars
  <2>3. QED
    BY <1>4, <2>1, <2>2
<1>6. ASSUME NEW c, NEW message, SendFromHandler(c, message) PROVE Kept
  <2>1. sent' = Append(sent, Outgoing(message, c, 0)) /\ Outgoing(message, c, 0).about = 0
    BY <1>6 DEF SendFromHandler, PutInPipeline, Outgoing
  <2>2. UNCHANGED <<contexts, ignored, loop, lookups>>
    BY <1>6 DEF SendFromHandler, handlerVars
  <2>3. QED
    BY <1>4, <2>1, <2>2
<1>7. ASSUME NEW c \in DOMAIN contexts, Complete(c) \/ Fail(c) PROVE Kept
  <2>1. End(c, "done") \/ End(c, "failed")
    BY <1>7 DEF Complete, Fail
  <2>2. UNCHANGED <<ignored, loop, lookups>>
    BY <2>1 DEF End
  <2>3. ContextsKept
    <3>1. /\ Len(contexts') = Len(contexts) /\ contexts' \in Seq(ContextRecord)
          /\ \A d \in 1..Len(contexts) :
               contexts'[d].sub = contexts[d].sub /\ contexts'[d].msg = contexts[d].msg
      BY <1>1, <1>3, <2>1, EndEffect
    <3>2. DOMAIN contexts' = 1..Len(contexts)
      BY <3>1, LenProperties
    <3>3. QED
      BY <1>3, <3>1, <3>2 DEF ContextsKept
  <2>4. sent' = sent \/ sent' = Append(sent, ErrorMessage(c, contexts[c].msg))
    BY <1>7 DEF Complete, Fail, PutInPipeline
  <2>5. ErrorMessage(c, contexts[c].msg).from # 0
    BY <1>3 DEF ErrorMessage, Outgoing
  <2>6. QED
    BY <2>2, <2>3, <2>4, <2>5, QuietKeeps
<1>8. ASSUME NEW m, RejectCommand(m) \/ NobodyListens(m) PROVE Kept
  BY <1>8, UnheardKeeps
<1>9. ASSUME NEW m, NEW s \in Sub, StartLoop(m, s) PROVE Kept
  BY <1>9, StartKeeps
<1>10. ASSUME NEW s \in Sub, ContinueLoop(s) PROVE Kept
  BY <1>10, ContinueKeeps
<1>11. \/ UNCHANGED <<contexts, ignored, loop, lookups, sent>>
       \/ \E message : Send(message)
       \/ \E c \in DOMAIN contexts : \/ \E message : SendFromHandler(c, message)
                                     \/ Complete(c) \/ Fail(c)
       \/ \E m : RejectCommand(m) \/ NobodyListens(m) \/ \E s \in Sub : StartLoop(m, s)
       \/ \E s \in Sub : ContinueLoop(s)
  BY DEF Next, vars, handlerVars, Subscribe, Unsubscribe, RunOutbound, DelayElapses, RunInbound
<1>12. Kept
  BY <1>4, <1>5, <1>6, <1>7, <1>8, <1>9, <1>10, <1>11
<1>13. QED
  BY <1>2, <1>12 DEF DeliveryInv

LEMMA InitDelivery == Init => DeliveryInv
<1> SUFFICES ASSUME Init PROVE DeliveryInv
  OBVIOUS
<1>1. TypeOK
  BY InitTyped
<1>2. /\ contexts = <<>> /\ sent = <<>> /\ timers = <<>> /\ lookups = <<>>
      /\ delayTimers = {} /\ ignored = {} /\ loop = NoLoop
  BY DEF Init
<1>3. Placed(sent, timers, delayTimers, lookups)
  BY <1>2 DEF Placed, InOnePlace, InSendOrder, Looked
<1>4. Delivered(sent, contexts, ignored, loop, lookups)
  BY <1>2 DEF Delivered, OnlyFound, OnceEach, LoopStands, EventsSettled, NoLoop
<1>5. CommandsSettled(sent, contexts, ignored, lookups)
  BY <1>2 DEF CommandsSettled
<1>6. QED
  BY <1>1, <1>3, <1>4, <1>5 DEF DeliveryInv

(* The inductive invariant holds in every reachable state. *)
THEOREM DeliveryInvariance == Spec => []DeliveryInv
  BY InitDelivery, NextKeepsDelivery, PTL DEF Spec

(* An event reaches each of its subscribers once, messages without a delay *)
(* are processed in the order of the sends, and an event is held back by a *)
(* refusal only, which drops exactly the subscribers that come after it.   *)
THEOREM EventsDelivered == Spec => []DeliveredOnceInOrder
<1>1. DeliveryInv => DeliveredOnceInOrder
  <2> SUFFICES ASSUME DeliveryInv PROVE DeliveredOnceInOrder
    OBVIOUS
  <2>1. /\ InSendOrder(sent, timers, delayTimers, lookups) /\ OnceEach(contexts)
        /\ EventsSettled(sent, contexts, ignored, loop, lookups)
    BY DEF DeliveryInv, Placed, Delivered
  <2>2. AtMostOnceDelivery
    BY <2>1 DEF OnceEach, AtMostOnceDelivery, SameSubscription
  <2>3. SendOrderKept
    BY <2>1 DEF InSendOrder, SendOrderKept
  <2>4. ReachedUpToRefusal
    <3>1. /\ \A s, m : Reached(s, m) <=> At(contexts, s, m)
          /\ \A s, t, m : Precedes(s, t, m) <=> Before(sent, s, t, m)
      BY DEF Reached, At, Precedes, Exact, Before, MatchesIn
    <3>2. QED
      BY <2>1, <3>1 DEF EventsSettled, Settled, ReachedUpToRefusal
  <2>5. QED
    BY <2>2, <2>3, <2>4 DEF DeliveredOnceInOrder
<1>2. QED
  BY <1>1, DeliveryInvariance, PTL

(* A command has no outcome before it is processed and exactly one after:  *)
(* one handler, one refusal or one error published by the bus.             *)
THEOREM CommandsHaveOneOutcome == Spec => []CommandHasOneOutcome
<1>1. DeliveryInv => CommandHasOneOutcome
  <2> SUFFICES ASSUME DeliveryInv, NEW m \in DOMAIN sent, sent[m].intent = "send"
               PROVE  Cardinality(Handlers(contexts, m)) + Cardinality(Refusals(ignored, m))
                        + Cardinality(BusErrors(sent, m))
                      = IF \E k \in DOMAIN lookups : lookups[k].msg = m THEN 1 ELSE 0
    BY DEF CommandHasOneOutcome, Handlers, Refusals, BusErrors
  <2>1. IF m \in Looked(lookups) THEN OneOutcome(sent, contexts, ignored, m)
                                 ELSE NoOutcome(sent, contexts, ignored, m)
    BY DEF DeliveryInv, CommandsSettled
  <2>2. m \in Looked(lookups) <=> \E k \in DOMAIN lookups : lookups[k].msg = m
    BY DEF Looked
  <2>3. Cardinality({}) = 0
    BY FS_EmptySet
  <2>4. ASSUME NEW X, One(X) PROVE Cardinality(X) = 1
    BY <2>4, FS_Singleton DEF One
  <2>5. QED
    BY <2>1, <2>2, <2>3, <2>4 DEF OneOutcome, NoOutcome
<1>2. QED
  BY <1>1, DeliveryInvariance, PTL
=============================================================================
