----------------------------- MODULE SagaProofs -----------------------------
(***************************************************************************)
(* Proofs about Saga for any number of messages and keys: type             *)
(* correctness, which saves replace a stored saga, that a message joins    *)
(* only a saga whose start ended well, and by whom a completed saga comes  *)
(* back.  Then about Process, for any number of handlers: what stays       *)
(* stored.                                                                 *)
(***************************************************************************)
EXTENDS Saga, Process, SequenceTheorems, TLAPS

USE SagaAssumption

HandlerRecord == [status : Statuses, doc : Doc \cup {0}, closed : BOOLEAN, loaded : 0..lastETag]

(* Every handler works on a document of its key; no two documents have the *)
(* same eTag; what is stored under a key was saved under it.               *)
StoreInv ==
    /\ TypeOK
    /\ \A m \in Message : Running(m) => handler[m].doc # 0
    /\ \A m \in Message : handler[m].doc # 0 => docs[handler[m].doc].key = KeyOf[m]
    /\ \A d, e \in Doc : docs[d].eTag # 0 /\ docs[d].eTag = docs[e].eTag => d = e

(* Elements of docs, without the sequence they are in. *)
LEMMA DocFacts ==
    ASSUME TypeOK
    PROVE  /\ Len(docs) \in Nat /\ DOMAIN docs = Doc
           /\ \A d \in Doc : docs[d] \in Document
           /\ lastETag \in Nat
           /\ \A m \in Message : /\ handler[m] \in HandlerRecord
                                 /\ handler[m].doc \in Doc \cup {0}
           /\ \A k \in Key \cup {NoKey} : storage[k] \in Doc \cup {0}
<1>1. docs \in Seq(Document)
  BY DEF TypeOK
<1>2. /\ Len(docs) \in Nat /\ DOMAIN docs = Doc
      /\ \A d \in Doc : docs[d] \in Document
  BY <1>1, LenProperties, ElementOfSeq DEF Doc
<1>3. \A m \in Message : handler[m] \in HandlerRecord /\ handler[m].doc \in Doc \cup {0}
  BY DEF TypeOK, HandlerRecord
<1>4. QED
  BY <1>2, <1>3 DEF TypeOK

LEMMA InitStore == Init => StoreInv
<1> SUFFICES ASSUME Init PROVE StoreInv
  OBVIOUS
<1>1. docs \in Seq(Document) /\ Len(docs) = 0 /\ Doc = {}
  BY EmptySeq DEF Init, Doc
<1>2. handler \in [Message -> [status : Statuses, doc : Doc \cup {0}, closed : BOOLEAN,
                               loaded : 0..lastETag]]
  BY DEF Init, Statuses
<1>3. storage \in [Key \cup {NoKey} -> Doc \cup {0}]
  BY DEF Init
<1>4. TypeOK
  BY <1>1, <1>2, <1>3 DEF Init, TypeOK
<1>5. QED
  BY <1>1, <1>4 DEF Init, StoreInv, Running

(* A handler that ends, and a handler that starts or joins. *)
LEMMA EndEffect ==
    ASSUME StoreInv, NEW m \in Message,
           NEW s \in Statuses \ {"running"},
           handler' = [handler EXCEPT ![m].status = s],
           UNCHANGED <<storage, docs, lastETag>>,
           completed' \subseteq Doc, overtaken' \subseteq Message
    PROVE  StoreInv'
<1>1. handler \in [Message -> HandlerRecord] /\ Doc' = Doc /\ HandlerRecord' = HandlerRecord
  BY DEF StoreInv, TypeOK, HandlerRecord, Doc
<1>2. handler' \in [Message -> HandlerRecord]
  BY <1>1 DEF HandlerRecord
<1>3. \A n \in Message : /\ handler'[n].doc = handler[n].doc
                         /\ handler'[n].status = "running" => handler[n].status = "running"
  BY <1>1 DEF HandlerRecord
<1>4. TypeOK'
  BY <1>1, <1>2 DEF StoreInv, TypeOK, HandlerRecord, Document, Doc
<1>5. QED
  BY <1>1, <1>3, <1>4 DEF StoreInv, Running

LEMMA CompleteKeepsStore ==
    ASSUME StoreInv, NEW m \in Message, Complete(m)
    PROVE  StoreInv'
<1>1. handler \in [Message -> HandlerRecord] /\ Doc' = Doc /\ HandlerRecord' = HandlerRecord
  BY DEF StoreInv, TypeOK, HandlerRecord, Doc, Complete
<1>2. handler' = [handler EXCEPT ![m].closed = TRUE]
  BY DEF Complete
<1>3. handler' \in [Message -> HandlerRecord]
  BY ZenonT(40), <1>1, <1>2 DEF HandlerRecord
<1>4. \A n \in Message : /\ handler'[n].doc = handler[n].doc
                         /\ handler'[n].status = handler[n].status
  BY <1>1, <1>2 DEF HandlerRecord
<1>5. KeyOf[m] \in Key \cup {NoKey}
  OBVIOUS
<1>6. /\ storage' \in [Key \cup {NoKey} -> Doc \cup {0}]
      /\ \A k \in Key \cup {NoKey} : storage'[k] # 0 => storage'[k] = storage[k]
  BY <1>5 DEF StoreInv, TypeOK, Complete
<1>7. completed' \subseteq Doc
  BY <1>5, DocFacts DEF Complete, Stored, StoreInv, TypeOK
<1>8. overtaken' \subseteq Message
  BY DEF Complete, OthersRunning, StoreInv, TypeOK
<1>9. TypeOK'
  BY <1>1, <1>3, <1>6, <1>7, <1>8
  DEF StoreInv, TypeOK, HandlerRecord, Document, Doc, Complete
<1>10. QED
  BY <1>1, <1>4, <1>9 DEF StoreInv, Running, Complete

LEMMA JoinKeepsStore ==
    ASSUME StoreInv, NEW m \in Message, Join(m)
    PROVE  StoreInv'
<1>1. handler \in [Message -> HandlerRecord] /\ Doc' = Doc /\ HandlerRecord' = HandlerRecord
  BY DEF StoreInv, TypeOK, HandlerRecord, Doc, Join
<1>2. Stored(m) \in Doc /\ docs[Stored(m)].key = KeyOf[m]
  BY DocFacts DEF Join, Stored, StoreInv, TypeOK
<1>3. docs[Stored(m)].eTag \in 0..lastETag
  BY <1>2, DocFacts DEF StoreInv, Document
<1>4. handler' = [handler EXCEPT ![m] = [handler[m] EXCEPT
                     !.status = "running", !.doc = Stored(m), !.loaded = docs[Stored(m)].eTag]]
  <2>1. handler' = [handler EXCEPT ![m].status = "running", ![m].doc = Stored(m),
                                   ![m].loaded = docs[Stored(m)].eTag]
    BY DEF Join
  <2>2. QED
    BY <1>1, <2>1 DEF HandlerRecord
<1>5. handler' \in [Message -> HandlerRecord]
  <2>1. handler[m] \in HandlerRecord
    BY <1>1
  <2>2. [handler[m] EXCEPT !.status = "running", !.doc = Stored(m),
                           !.loaded = docs[Stored(m)].eTag] \in HandlerRecord
    BY <1>2, <1>3, <2>1 DEF HandlerRecord, Statuses
  <2>3. QED
    BY <1>1, <1>4, <2>2
<1>6. /\ handler'[m].doc = Stored(m)
      /\ \A n \in Message \ {m} : handler'[n] = handler[n]
  BY <1>1, <1>4 DEF HandlerRecord
<1>7. TypeOK'
  BY <1>1, <1>5 DEF StoreInv, TypeOK, HandlerRecord, Document, Doc, Join
<1>8. 0 \notin Doc
  BY DocFacts DEF Doc, StoreInv
<1>9. QED
  BY <1>1, <1>2, <1>6, <1>7, <1>8 DEF StoreInv, Running, Join

(* A start adds one document at the end and changes no other. *)
LEMMA StartKeepsStore ==
    ASSUME StoreInv, NEW m \in Message, Start(m)
    PROVE  StoreInv'
<1> DEFINE new == Len(docs) + 1
<1>1. /\ docs \in Seq(Document) /\ Len(docs) \in Nat /\ lastETag \in Nat
      /\ handler \in [Message -> HandlerRecord]
  BY DocFacts DEF StoreInv, TypeOK, HandlerRecord
<1>2. docs' = Append(docs, [key |-> KeyOf[m], eTag |-> 0]) /\ lastETag' = lastETag
  BY DEF Start
<1>3. [key |-> KeyOf[m], eTag |-> 0] \in Document
  BY <1>1 DEF Document, Start
<1>4. /\ docs' \in Seq(Document)
      /\ Len(docs') = new
      /\ \A d \in Doc : docs'[d] = docs[d]
      /\ docs'[new] = [key |-> KeyOf[m], eTag |-> 0]
  BY <1>1, <1>2, <1>3, AppendProperties DEF Doc
<1>5. Doc' = Doc \cup {new} /\ new \notin Doc /\ 0 \notin Doc'
  BY <1>1, <1>4 DEF Doc
<1> HIDE DEF new
<1>6. handler' = [handler EXCEPT ![m] = [handler[m] EXCEPT !.status = "running", !.doc = new]]
  BY <1>1 DEF Start, HandlerRecord, new
<1>7. handler' \in [Message -> HandlerRecord']
  <2>1. handler[m] \in HandlerRecord /\ \A h \in HandlerRecord : h \in HandlerRecord'
    BY <1>1, <1>2, <1>5 DEF HandlerRecord
  <2>2. [handler[m] EXCEPT !.status = "running", !.doc = new] \in HandlerRecord'
    BY <1>5, <2>1 DEF HandlerRecord, Statuses
  <2>3. QED
    BY <1>1, <1>6, <2>1, <2>2
<1>8. /\ handler'[m].doc = new
      /\ \A n \in Message \ {m} : handler'[n] = handler[n]
  BY <1>1, <1>6 DEF HandlerRecord
<1>9. \A k \in Key \cup {NoKey} : storage[k] # 0 => docs'[storage[k]] = docs[storage[k]]
  BY <1>4, DocFacts DEF StoreInv
<1>10. TypeOK'
  <2>1. Document' = Document
    BY <1>2 DEF Document
  <2>2. storage' \in [Key \cup {NoKey} -> Doc' \cup {0}]
    BY <1>5 DEF StoreInv, TypeOK, Start
  <2>3. completed' \subseteq Doc' /\ overtaken' \subseteq Message
    BY <1>5 DEF StoreInv, TypeOK, Start
  <2>4. \A k \in Key \cup {NoKey} :
          storage'[k] # 0 => docs'[storage'[k]].key = k /\ docs'[storage'[k]].eTag # 0
    BY <1>9 DEF StoreInv, TypeOK, Start
  <2>5. docs' \in Seq(Document') /\ lastETag' \in Nat
    BY <1>1, <1>2, <1>4, <2>1
  <2>6. QED
    BY <1>7, <2>2, <2>3, <2>4, <2>5 DEF TypeOK, HandlerRecord
<1>11. \A n \in Message : handler'[n].status = "running" => handler'[n].doc # 0
  BY <1>5, <1>8 DEF StoreInv, Running
<1>12. \A n \in Message : handler'[n].doc # 0 => docs'[handler'[n].doc].key = KeyOf[n]
  <2>1. \A n \in Message \ {m} : handler[n].doc # 0 => docs'[handler[n].doc] = docs[handler[n].doc]
    BY <1>4, DocFacts DEF StoreInv
  <2>2. QED
    BY <1>4, <1>8, <2>1 DEF StoreInv
<1>13. \A d, e \in Doc' : docs'[d].eTag # 0 /\ docs'[d].eTag = docs'[e].eTag => d = e
  BY <1>4, <1>5 DEF StoreInv
<1>14. QED
  BY <1>10, <1>11, <1>12, <1>13 DEF StoreInv, Running

(* A save stamps the document of the handler with a new eTag and stores it. *)
LEMMA SaveKeepsStore ==
    ASSUME StoreInv, NEW m \in Message, Save(m)
    PROVE  StoreInv'
<1> DEFINE saved == handler[m].doc
<1>1. /\ docs \in Seq(Document) /\ lastETag \in Nat /\ lastETag' = lastETag + 1
      /\ handler \in [Message -> HandlerRecord]
      /\ \A d \in Doc : docs[d] \in Document
      /\ storage \in [Key \cup {NoKey} -> Doc \cup {0}]
  BY DocFacts DEF StoreInv, TypeOK, HandlerRecord, Save
<1>2. saved \in Doc /\ docs[saved].key = KeyOf[m]
  BY DocFacts DEF StoreInv, Save
<1>3. docs' = [docs EXCEPT ![saved] = [docs[saved] EXCEPT !.eTag = lastETag + 1]]
  BY DEF Save
<1>4. /\ handler' = [handler EXCEPT ![m].status = "done"]
      /\ storage' = [storage EXCEPT ![KeyOf[m]] = saved]
      /\ completed' = completed /\ overtaken' = overtaken
  BY DEF Save
<1> HIDE DEF saved
<1>5. Document \subseteq Document' /\ HandlerRecord \subseteq [status : Statuses, doc : Doc \cup {0},
                 closed : BOOLEAN, loaded : 0..lastETag']
  BY <1>1 DEF Document, HandlerRecord
<1>6. [docs[saved] EXCEPT !.eTag = lastETag + 1] \in Document'
  <2>1. docs[saved] \in Document /\ lastETag + 1 \in 0..lastETag'
    BY <1>1, <1>2
  <2>2. QED
    BY <2>1 DEF Document
<1>7. docs' \in Seq(Document') /\ Len(docs') = Len(docs)
  <2>1. docs \in Seq(Document') /\ saved \in 1..Len(docs)
    BY <1>1, <1>2, <1>5 DEF Doc
  <2>2. QED
    BY <1>3, <1>6, <2>1, ExceptSeq
<1>8. /\ Doc' = Doc
      /\ docs'[saved].key = docs[saved].key /\ docs'[saved].eTag = lastETag + 1
      /\ \A d \in Doc \ {saved} : docs'[d] = docs[d]
  BY <1>1, <1>2, <1>3, <1>7, LenProperties DEF Doc, Document
<1>9. \A n \in Message : /\ handler'[n].doc = handler[n].doc
                         /\ handler'[n].status = "running" => handler[n].status = "running"
  BY <1>1, <1>4 DEF HandlerRecord
<1>10. \A d \in Doc : /\ docs'[d].key = docs[d].key
                      /\ docs[d].eTag # 0 => docs'[d].eTag # 0
  BY <1>1, <1>8
<1>11. TypeOK'
  <2>1. handler' \in [Message -> HandlerRecord']
    <3>1. handler' \in [Message -> HandlerRecord]
      BY ZenonT(40), <1>1, <1>4 DEF HandlerRecord, Statuses
    <3>2. HandlerRecord \subseteq HandlerRecord'
      BY <1>1, <1>8 DEF HandlerRecord
    <3>3. QED
      BY <3>1, <3>2
  <2>2. storage' \in [Key \cup {NoKey} -> Doc' \cup {0}]
    BY <1>1, <1>2, <1>4, <1>8
  <2>3. \A k \in Key \cup {NoKey} :
          storage'[k] # 0 => docs'[storage'[k]].key = k /\ docs'[storage'[k]].eTag # 0
    <3> SUFFICES ASSUME NEW k \in Key \cup {NoKey}, storage'[k] # 0
                 PROVE  docs'[storage'[k]].key = k /\ docs'[storage'[k]].eTag # 0
      OBVIOUS
    <3>1. CASE k = KeyOf[m]
      BY <1>1, <1>2, <1>4, <1>8, <3>1
    <3>2. CASE k # KeyOf[m]
      <4>1. storage'[k] = storage[k] /\ storage[k] \in Doc
        BY <1>1, <1>4, <3>2
      <4>2. docs[storage[k]].key = k /\ docs[storage[k]].eTag # 0
        BY <4>1 DEF StoreInv, TypeOK
      <4>3. QED
        BY <1>10, <4>1, <4>2
    <3>3. QED
      BY <3>1, <3>2
  <2>4. lastETag' \in Nat /\ completed' \subseteq Doc' /\ overtaken' \subseteq Message
    BY <1>1, <1>4, <1>8 DEF StoreInv, TypeOK
  <2>5. QED
    BY <1>7, <2>1, <2>2, <2>3, <2>4 DEF TypeOK, HandlerRecord
<1>12. \A n \in Message : handler'[n].doc # 0 => docs'[handler'[n].doc].key = KeyOf[n]
  BY <1>9, <1>10, DocFacts DEF StoreInv
<1>13. \A d, e \in Doc' : docs'[d].eTag # 0 /\ docs'[d].eTag = docs'[e].eTag => d = e
  <2>1. \A d \in Doc : docs[d].eTag \in 0..lastETag
    BY <1>1 DEF Document
  <2>2. \A d \in Doc : docs[d].eTag # lastETag + 1
    BY <1>1, <2>1
  <2>3. QED
    BY <1>8, <2>2 DEF StoreInv
<1>14. QED
  BY <1>9, <1>11, <1>12, <1>13 DEF StoreInv, Running

LEMMA NextKeepsStore == StoreInv /\ [Next]_vars => StoreInv'
<1> SUFFICES ASSUME StoreInv, [Next]_vars PROVE StoreInv'
  OBVIOUS
<1>1. CASE UNCHANGED vars
  BY <1>1 DEF vars, StoreInv, TypeOK, Running, Doc, Document
<1>2. CASE Next
  <2>1. PICK m \in Message :
          \/ RefuseStart(m) \/ SagaNotFound(m) \/ Start(m) \/ Join(m)
          \/ Complete(m) \/ Save(m) \/ SaveConflict(m) \/ ReturnCompleted(m) \/ Fail(m)
    BY <1>2 DEF Next
  <2>2. CASE RefuseStart(m) \/ SagaNotFound(m) \/ SaveConflict(m) \/ ReturnCompleted(m) \/ Fail(m)
    <3>1. PICK s \in Statuses \ {"running"} : Ends(m, s)
      BY <2>2 DEF RefuseStart, SagaNotFound, SaveConflict, ReturnCompleted, Fail, Statuses
    <3>2. completed' \subseteq Doc /\ overtaken' \subseteq Message
      BY <3>1 DEF Ends, StoreInv, TypeOK
    <3>3. QED
      BY <3>1, <3>2, EndEffect DEF Ends
  <2>3. CASE Start(m)
    BY <2>3, StartKeepsStore
  <2>4. CASE Join(m)
    BY <2>4, JoinKeepsStore
  <2>5. CASE Complete(m)
    BY <2>5, CompleteKeepsStore
  <2>6. CASE Save(m)
    BY <2>6, SaveKeepsStore
  <2>7. QED
    BY <2>1, <2>2, <2>3, <2>4, <2>5, <2>6
<1>3. QED
  BY <1>1, <1>2

(* In every reachable state the variables have their types and what is     *)
(* stored under a key is a document of that key that has been saved.       *)
THEOREM TypeCorrect == Spec => []TypeOK
<1>1. StoreInv => TypeOK
  BY DEF StoreInv
<1>2. QED
  BY InitStore, NextKeepsStore, <1>1, PTL DEF Spec

(* Only a save stores a document, and it passes the check of its eTag: a   *)
(* document that has been saved replaces none but itself.                  *)
THEOREM OnlyNewReplaces == Spec => StaleNeverOverwrites
<1>1. StoreInv /\ [Next]_vars =>
        [\A k \in Key :
            /\ storage[k] # 0 /\ storage'[k] # 0 /\ storage'[k] # storage[k]
            => docs[storage'[k]].eTag = 0]_vars
  <2> SUFFICES ASSUME StoreInv, [Next]_vars, NEW k \in Key,
                      storage[k] # 0, storage'[k] # 0, storage'[k] # storage[k]
               PROVE  docs[storage'[k]].eTag = 0
    OBVIOUS
  <2>1. storage \in [Key \cup {NoKey} -> Doc \cup {0}]
    BY DEF StoreInv, TypeOK
  <2>2. PICK m \in Message : Save(m)
    BY <2>1 DEF Next, vars, Ends, RefuseStart, SagaNotFound, Start, Join, Complete,
                SaveConflict, ReturnCompleted, Fail
  <2>3. handler[m].doc \in Doc /\ storage' = [storage EXCEPT ![KeyOf[m]] = handler[m].doc]
    BY <2>2, DocFacts DEF Save, StoreInv
  <2>4. k = KeyOf[m] /\ storage'[k] = handler[m].doc /\ storage[k] # handler[m].doc
    BY <2>1, <2>3
  <2>5. storage[k] \in Doc /\ Stored(m) = storage[k]
    BY <2>1, <2>4 DEF Stored
  <2>6. docs[handler[m].doc].eTag = 0 \/ docs[storage[k]].eTag = docs[handler[m].doc].eTag
    BY <2>2, <2>5 DEF Save, Conflicts
  <2>7. docs[storage[k]].eTag # docs[handler[m].doc].eTag \/ docs[handler[m].doc].eTag = 0
    BY <2>3, <2>4, <2>5 DEF StoreInv
  <2>8. QED
    BY <2>4, <2>6, <2>7
<1>2. QED
  BY InitStore, NextKeepsStore, <1>1, PTL DEF Spec, StaleNeverOverwrites

-----------------------------------------------------------------------------
(* Who joined a saga *)

Started(d) == \E n \in Starts : handler[n].doc = d /\ handler[n].status = "done"

(* A document is saved only once a handler that started it has ended, and  *)
(* no other message works on a document that has not been saved.           *)
StartedInv ==
    /\ StoreInv
    /\ \A d \in Doc : docs[d].eTag # 0 => Started(d)
    /\ \A m \in Message \ Starts : handler[m].doc # 0 => docs[handler[m].doc].eTag # 0

(* What a step leaves as it is: handlers that ended, and all documents but *)
(* the one that is saved.                                                  *)
LEMMA StepEffect ==
    ASSUME StoreInv, NEW m \in Message,
           \/ RefuseStart(m) \/ SagaNotFound(m) \/ Start(m) \/ Join(m)
           \/ Complete(m) \/ Save(m) \/ SaveConflict(m) \/ ReturnCompleted(m) \/ Fail(m)
    PROVE  /\ \A n \in Message \ {m} : handler'[n] = handler[n]
           /\ handler[m].status # "done"
           /\ \A d \in Doc : docs[d].eTag # 0 => docs'[d].eTag # 0
<1>1. /\ handler \in [Message -> HandlerRecord] /\ docs \in Seq(Document)
      /\ lastETag \in Nat /\ \A d \in Doc : docs[d] \in Document
      /\ Len(docs) \in Nat /\ DOMAIN docs = Doc
  BY DocFacts DEF StoreInv, TypeOK, HandlerRecord
<1>2. handler[m].status # "done"
  BY DEF Arrives, Running, RefuseStart, SagaNotFound, Start, Join, Complete, Save,
         SaveConflict, ReturnCompleted, Fail
<1>3. \A n \in Message \ {m} : handler'[n] = handler[n]
  BY <1>1 DEF Ends, RefuseStart, SagaNotFound, Start, Join, Complete, Save,
              SaveConflict, ReturnCompleted, Fail
<1>4. \A d \in Doc : docs[d].eTag # 0 => docs'[d].eTag # 0
  <2>1. CASE UNCHANGED docs
    BY <2>1
  <2>2. CASE Start(m)
    <3>1. [key |-> KeyOf[m], eTag |-> 0] \in Document
      BY <1>1, <2>2 DEF Document, Start
    <3>2. docs' = Append(docs, [key |-> KeyOf[m], eTag |-> 0])
      BY <2>2 DEF Start
    <3>3. QED
      BY <1>1, <3>1, <3>2, AppendProperties DEF Doc
  <2>3. CASE Save(m)
    <3>1. docs' = [docs EXCEPT ![handler[m].doc] =
                                  [docs[handler[m].doc] EXCEPT !.eTag = lastETag + 1]]
      BY <2>3 DEF Save
    <3>2. QED
      BY <1>1, <3>1 DEF Document
  <2>4. QED
    BY <2>1, <2>2, <2>3 DEF Ends, RefuseStart, SagaNotFound, Join, Complete,
                            SaveConflict, ReturnCompleted, Fail
<1>5. QED
  BY <1>2, <1>3, <1>4

LEMMA NextKeepsStarted == StartedInv /\ [Next]_vars => StartedInv'
<1> SUFFICES ASSUME StartedInv, [Next]_vars PROVE StartedInv'
  OBVIOUS
<1>1. StoreInv /\ StoreInv'
  BY NextKeepsStore DEF StartedInv
<1>2. CASE UNCHANGED vars
  BY <1>1, <1>2 DEF vars, StartedInv, Started, Doc
<1>3. CASE Next
  <2>1. PICK m \in Message :
          \/ RefuseStart(m) \/ SagaNotFound(m) \/ Start(m) \/ Join(m)
          \/ Complete(m) \/ Save(m) \/ SaveConflict(m) \/ ReturnCompleted(m) \/ Fail(m)
    BY <1>3 DEF Next
  <2>2. /\ \A n \in Message \ {m} : handler'[n] = handler[n]
        /\ handler[m].status # "done"
        /\ \A d \in Doc : docs[d].eTag # 0 => docs'[d].eTag # 0
    BY <1>1, <2>1, StepEffect
  <2>3. \A d : Started(d) => Started(d)'
    BY <2>2 DEF Started
  <2>4. /\ handler \in [Message -> HandlerRecord] /\ docs \in Seq(Document)
        /\ Len(docs) \in Nat /\ 0 \notin Doc
        /\ \A n \in Message : handler[n].doc \in Doc \cup {0}
        /\ \A k \in Key \cup {NoKey} : storage[k] \in Doc \cup {0}
    BY <1>1, DocFacts DEF StoreInv, TypeOK, HandlerRecord, Doc
  <2>5. CASE Start(m)
    <3>1. [key |-> KeyOf[m], eTag |-> 0] \in Document
      BY <1>1, <2>5 DEF Document, Start, StoreInv, TypeOK
    <3>2. docs' = Append(docs, [key |-> KeyOf[m], eTag |-> 0]) /\ m \in Starts
      BY <2>5 DEF Start
    <3>3. /\ Doc' = Doc \cup {Len(docs) + 1}
          /\ docs'[Len(docs) + 1].eTag = 0
          /\ \A d \in Doc : docs'[d] = docs[d]
      BY <2>4, <3>1, <3>2, AppendProperties DEF Doc
    <3>4. QED
      BY <1>1, <2>2, <2>3, <2>4, <3>2, <3>3 DEF StartedInv
  <2>6. CASE Join(m)
    <3>1. /\ Stored(m) \in Doc /\ docs[Stored(m)].eTag # 0
          /\ docs' = docs /\ Doc' = Doc
      BY <1>1, <2>4, <2>6 DEF Join, Stored, StoreInv, TypeOK, Doc
    <3>2. handler'[m].doc = Stored(m)
      BY <2>4, <2>6 DEF Join, HandlerRecord
    <3>3. QED
      BY <1>1, <2>2, <2>3, <3>1, <3>2 DEF StartedInv
  <2>7. CASE Save(m)
    <3>1. /\ handler[m].doc \in Doc
          /\ handler'[m].doc = handler[m].doc /\ handler'[m].status = "done"
      BY <1>1, <2>4, <2>7 DEF Save, StoreInv, HandlerRecord
    <3>2. docs' = [docs EXCEPT ![handler[m].doc] =
                                  [docs[handler[m].doc] EXCEPT !.eTag = lastETag + 1]]
      BY <2>7 DEF Save
    <3>3. /\ DOMAIN docs = Doc /\ Doc' = Doc
          /\ \A d \in Doc \ {handler[m].doc} : docs'[d] = docs[d]
      <4>1. DOMAIN docs = Doc /\ DOMAIN docs' = DOMAIN docs
        BY <2>4, <3>2, LenProperties DEF Doc
      <4>2. docs' \in Seq(Document')
        BY <1>1 DEF StoreInv, TypeOK
      <4>3. Doc' = DOMAIN docs'
        BY <4>2, LenProperties DEF Doc
      <4>4. QED
        BY <3>2, <4>1, <4>3
    <3>4. Started(handler[m].doc)'
      <4>1. CASE m \in Starts
        BY <3>1, <4>1 DEF Started
      <4>2. CASE m \notin Starts
        BY <2>3, <2>4, <3>1, <4>2 DEF StartedInv
      <4>3. QED
        BY <4>1, <4>2
    <3>5. ASSUME NEW d \in Doc', docs'[d].eTag # 0 PROVE Started(d)'
      <4>1. CASE d = handler[m].doc
        BY <3>1, <3>4, <4>1 DEF Started
      <4>2. CASE d # handler[m].doc
        <5>1. d \in Doc /\ docs[d].eTag # 0
          BY <3>3, <3>5, <4>2
        <5>2. QED
          BY <2>3, <5>1 DEF StartedInv
      <4>3. QED
        BY <4>1, <4>2
    <3>6. \A n \in Message \ Starts : handler'[n].doc # 0 => docs'[handler'[n].doc].eTag # 0
      BY <2>2, <2>4, <3>1 DEF StartedInv
    <3>7. QED
      BY <1>1, <3>5, <3>6 DEF StartedInv
  <2>8. CASE RefuseStart(m) \/ SagaNotFound(m) \/ Complete(m) \/ SaveConflict(m)
             \/ ReturnCompleted(m) \/ Fail(m)
    <3>1. docs' = docs /\ Doc' = Doc
      BY <2>8 DEF Doc, Ends, RefuseStart, SagaNotFound, Complete, SaveConflict,
                  ReturnCompleted, Fail
    <3>2. handler'[m].doc = handler[m].doc
      BY <2>4, <2>8 DEF HandlerRecord, Ends, RefuseStart, SagaNotFound, Complete,
                        SaveConflict, ReturnCompleted, Fail
    <3>3. QED
      BY <1>1, <2>2, <2>3, <3>1, <3>2 DEF StartedInv
  <2>9. QED
    BY <2>1, <2>5, <2>6, <2>7, <2>8
<1>4. QED
  BY <1>2, <1>3

LEMMA InitStarted == Init => StartedInv
<1> SUFFICES ASSUME Init PROVE StartedInv
  OBVIOUS
<1>1. StoreInv /\ Doc = {} /\ \A m \in Message : handler[m].doc = 0
  BY InitStore, EmptySeq DEF Init, Doc
<1>2. QED
  BY <1>1 DEF StartedInv

(* A message that joins a saga finds one whose start ended well: a start   *)
(* that still runs, or has failed, is seen by nobody.                      *)
THEOREM JoinedWasStarted == Spec => []JoinsStartedSaga
<1>1. StartedInv => JoinsStartedSaga
  <2> SUFFICES ASSUME StartedInv, NEW m \in Message \ Starts, handler[m].doc # 0
               PROVE  Started(handler[m].doc)
    BY DEF JoinsStartedSaga, Started
  <2>1. handler[m].doc \in Doc
    BY DocFacts DEF StartedInv, StoreInv
  <2>2. QED
    BY <2>1 DEF StartedInv
<1>2. QED
  BY <1>1, InitStarted, NextKeepsStarted, PTL DEF Spec

-----------------------------------------------------------------------------
(* How a completed saga comes back *)

(* A handler that may still save the document of a completed saga was      *)
(* running at the completion, or something is stored under its key: its    *)
(* own document, or one that makes its save a conflict.                    *)
CompletedInv ==
    /\ StoreInv
    /\ \A m \in Message :
          Running(m) /\ ~handler[m].closed /\ handler[m].doc \in completed =>
              m \in overtaken \/ (Stored(m) # 0 /\ docs[handler[m].doc].eTag # 0)

LEMMA CompleteKeepsCompleted ==
    ASSUME CompletedInv, StoreInv', NEW n \in Message, Complete(n)
    PROVE  CompletedInv'
<1>1. /\ handler \in [Message -> HandlerRecord]
      /\ storage \in [Key \cup {NoKey} -> Doc \cup {0}]
  BY DEF CompletedInv, StoreInv, TypeOK, HandlerRecord
<1>2. /\ handler' = [handler EXCEPT ![n].closed = TRUE]
      /\ storage' = [storage EXCEPT ![KeyOf[n]] = 0]
      /\ docs' = docs
      /\ completed' = completed \cup ({Stored(n), handler[n].doc} \ {0})
      /\ overtaken' = overtaken \cup OthersRunning(n)
  BY DEF Complete
<1> SUFFICES ASSUME NEW m \in Message, Running(m)', ~handler'[m].closed,
                    handler'[m].doc \in completed'
             PROVE  m \in overtaken' \/ (Stored(m)' # 0 /\ docs'[handler'[m].doc].eTag # 0)
  BY DEF CompletedInv
<1>3. m # n
  BY <1>1, <1>2 DEF HandlerRecord
<1>4. handler'[m] = handler[m] /\ Running(m)
  BY <1>1, <1>2, <1>3 DEF Running
<1>5. CASE KeyOf[m] = KeyOf[n]
  BY <1>2, <1>3, <1>4, <1>5 DEF OthersRunning
<1>6. CASE KeyOf[m] # KeyOf[n]
  <2>1. Stored(m)' = Stored(m)
    BY <1>1, <1>2, <1>6 DEF Stored
  <2>2. handler[m].doc # 0 /\ docs[handler[m].doc].key = KeyOf[m]
    BY <1>4 DEF CompletedInv, StoreInv
  <2>3. handler[m].doc # handler[n].doc
    BY <1>6, <2>2 DEF CompletedInv, StoreInv
  <2>4. handler[m].doc # Stored(n)
    BY <1>6, <2>2 DEF CompletedInv, StoreInv, TypeOK, Stored
  <2>5. handler[m].doc \in completed
    BY <1>2, <1>4, <2>3, <2>4
  <2>6. QED
    BY <1>2, <1>4, <2>1, <2>5 DEF CompletedInv
<1>7. QED
  BY <1>5, <1>6

LEMMA NextKeepsCompleted == CompletedInv /\ [Next]_vars => CompletedInv'
<1> SUFFICES ASSUME CompletedInv, [Next]_vars PROVE CompletedInv'
  OBVIOUS
<1>1. StoreInv /\ StoreInv'
  BY NextKeepsStore DEF CompletedInv
<1>2. CASE UNCHANGED vars
  BY <1>1, <1>2 DEF vars, CompletedInv, Running, Stored
<1>3. CASE Next
  <2>1. PICK n \in Message :
          \/ RefuseStart(n) \/ SagaNotFound(n) \/ Start(n) \/ Join(n)
          \/ Complete(n) \/ Save(n) \/ SaveConflict(n) \/ ReturnCompleted(n) \/ Fail(n)
    BY <1>3 DEF Next
  <2>2. /\ \A m \in Message \ {n} : handler'[m] = handler[m]
        /\ \A d \in Doc : docs[d].eTag # 0 => docs'[d].eTag # 0
    BY <1>1, <2>1, StepEffect
  <2>3. /\ handler \in [Message -> HandlerRecord]
        /\ storage \in [Key \cup {NoKey} -> Doc \cup {0}]
        /\ completed \subseteq Doc /\ 0 \notin Doc
        /\ \A m \in Message : handler[m].doc \in Doc \cup {0}
    BY <1>1, DocFacts DEF StoreInv, TypeOK, HandlerRecord, Doc
  <2>4. ASSUME completed' = completed, overtaken' = overtaken,
               \A k \in Key \cup {NoKey} : storage[k] # 0 => storage'[k] # 0,
               Running(n)' => \/ handler'[n].doc \notin completed
                              \/ Stored(n)' # 0 /\ docs'[handler'[n].doc].eTag # 0
        PROVE  CompletedInv'
    <3> SUFFICES ASSUME NEW m \in Message, Running(m)', ~handler'[m].closed,
                        handler'[m].doc \in completed'
                 PROVE  m \in overtaken' \/ (Stored(m)' # 0 /\ docs'[handler'[m].doc].eTag # 0)
      BY <1>1 DEF CompletedInv
    <3>1. CASE m = n
      BY <2>4, <3>1
    <3>2. CASE m # n
      <4>1. handler'[m] = handler[m] /\ Running(m) /\ handler[m].doc \in Doc
        BY <2>2, <2>3, <2>4, <3>2 DEF Running
      <4>2. Stored(m) # 0 => Stored(m)' # 0
        BY <2>4 DEF Stored
      <4>3. QED
        BY <2>2, <2>4, <4>1, <4>2 DEF CompletedInv
    <3>3. QED
      BY <3>1, <3>2
  <2>5. CASE Start(n)
    <3>1. handler'[n].doc = Len(docs) + 1 /\ Len(docs) + 1 \notin Doc
      BY <1>1, <2>3, <2>5, DocFacts DEF Start, HandlerRecord, StoreInv, Doc
    <3>2. QED
      BY <2>3, <2>4, <2>5, <3>1 DEF Start
  <2>6. CASE Join(n)
    <3>1. handler'[n].doc = Stored(n) /\ Stored(n) # 0 /\ docs[Stored(n)].eTag # 0
      BY ZenonT(40), <1>1, <2>3, <2>6 DEF Join, HandlerRecord, StoreInv, TypeOK, Stored
    <3>2. storage' = storage /\ docs' = docs /\ completed' = completed /\ overtaken' = overtaken
      BY <2>6 DEF Join
    <3>3. QED
      BY <2>4, <3>1, <3>2 DEF Stored
  <2>7. CASE Complete(n)
    BY <1>1, <2>7, CompleteKeepsCompleted
  <2>8. CASE Save(n)
    <3>1. ~Running(n)'
      BY <2>3, <2>8 DEF Save, Running, HandlerRecord
    <3>2. storage' = [storage EXCEPT ![KeyOf[n]] = handler[n].doc] /\ handler[n].doc # 0
      BY <1>1, <2>8 DEF Save, StoreInv
    <3>3. QED
      BY <2>3, <2>4, <2>8, <3>1, <3>2 DEF Save
  <2>9. CASE RefuseStart(n) \/ SagaNotFound(n) \/ SaveConflict(n) \/ ReturnCompleted(n) \/ Fail(n)
    <3>1. ~Running(n)'
      BY <2>3, <2>9 DEF Running, HandlerRecord, Ends, RefuseStart, SagaNotFound, SaveConflict,
                        ReturnCompleted, Fail
    <3>2. QED
      BY <2>4, <2>9, <3>1 DEF Ends, RefuseStart, SagaNotFound, SaveConflict, ReturnCompleted, Fail
  <2>10. QED
    BY <2>1, <2>5, <2>6, <2>7, <2>8, <2>9
<1>4. QED
  BY <1>2, <1>3

(* A saga that was completed is stored again only by a handler that was    *)
(* running when it was completed.                                          *)
THEOREM OnlyOvertakenRevive == Spec => RevivedByOvertakenOnly
<1>1. Init => CompletedInv
  BY InitStore DEF Init, CompletedInv
<1>2. CompletedInv /\ [Next]_vars =>
        [\A k \in Key :
            /\ storage'[k] # storage[k] /\ storage'[k] \in completed
            => \E m \in overtaken : Running(m) /\ handler[m].doc = storage'[k]]_vars
  <2> SUFFICES ASSUME CompletedInv, [Next]_vars, NEW k \in Key,
                      storage'[k] # storage[k], storage'[k] \in completed
               PROVE  \E m \in overtaken : Running(m) /\ handler[m].doc = storage'[k]
    OBVIOUS
  <2>1. /\ storage \in [Key \cup {NoKey} -> Doc \cup {0}]
        /\ completed \subseteq Doc /\ 0 \notin Doc
    BY DocFacts DEF CompletedInv, StoreInv, TypeOK, Doc
  <2>2. storage'[k] # 0
    BY <2>1
  <2>3. PICK m \in Message : Save(m)
    BY <2>1, <2>2 DEF Next, vars, Ends, RefuseStart, SagaNotFound, Start, Join, Complete,
                SaveConflict, ReturnCompleted, Fail
  <2>4. storage' = [storage EXCEPT ![KeyOf[m]] = handler[m].doc]
    BY <2>3 DEF Save
  <2>5. k = KeyOf[m] /\ storage'[k] = handler[m].doc
    BY <2>1, <2>4
  <2>6. Running(m) /\ ~handler[m].closed /\ ~Conflicts(m) /\ handler[m].doc \in completed
    BY <2>3, <2>5 DEF Save
  <2>7. Stored(m) # 0 => docs[handler[m].doc].eTag = 0
    <3>1. Stored(m) \in Doc \cup {0} /\ Stored(m) # handler[m].doc /\ handler[m].doc \in Doc
      BY <2>1, <2>5, <2>6 DEF Stored
    <3>2. QED
      BY <2>6, <3>1 DEF Conflicts, CompletedInv, StoreInv
  <2>8. m \in overtaken
    BY <2>6, <2>7 DEF CompletedInv
  <2>9. QED
    BY <2>5, <2>6, <2>8
<1>3. QED
  BY <1>1, <1>2, NextKeepsCompleted, PTL DEF Spec, RevivedByOvertakenOnly

-----------------------------------------------------------------------------
(* Processes: what stays stored. *)

TagOf(d) == documents[d].eTag

(* No two documents were saved with the same eTag. *)
TagsDiffer == \A d, e \in Made : TagOf(d) # 0 /\ TagOf(d) = TagOf(e) => d = e

(* What runs or has run to its end has a document. *)
HasDocument ==
    \A o \in Order : call[o].status \in {"running", "done", "conflict"} => call[o].doc \in Made

ProcessInv == ProcessTypeOK /\ HasDocument /\ TagsDiffer

-----------------------------------------------------------------------------
LEMMA StartsAsProcess == ProcessInit => ProcessInv
  BY DEF ProcessInit, ProcessInv, ProcessTypeOK, HasDocument, TagsDiffer, Made,
     OrderDocument, TagOf

(* A handler loads the stored document, or a new one. *)
LEMMA LoadInv ==
  ASSUME ProcessInv, NEW o \in Order, Load(o)
  PROVE  ProcessInv'
<1> USE DEF ProcessInv
<1>1. CASE stored = 0
  <2>1. documents' = Append(documents, NewDocument)
    BY <1>1 DEF Load
  <2>2. /\ Len(documents') = Len(documents) + 1
        /\ \A d \in Made : documents'[d] = documents[d]
        /\ documents'[Len(documents) + 1] = NewDocument
        /\ Made' = Made \cup {Len(documents) + 1}
        /\ Len(documents) \in Nat
    BY <2>1 DEF ProcessTypeOK, Made
  <2>3. /\ call' = [call EXCEPT ![o] = [status |-> "running", doc |-> Len(documents) + 1]]
        /\ call[o].status = "none"
        /\ stored' = 0 /\ guids' = guids
    BY <1>1 DEF Load
  <2>4. ProcessTypeOK'
    <3>1. documents' \in Seq(OrderDocument)
      <4>1. NewDocument \in OrderDocument
        BY DEF NewDocument, OrderDocument, ProcessTypeOK
      <4> QED  BY <2>1, <4>1 DEF ProcessTypeOK
    <3> QED  BY <2>2, <2>3, <3>1 DEF ProcessTypeOK, OrderDocument
  <2>5. HasDocument'
    BY <2>2, <2>3 DEF HasDocument, ProcessTypeOK
  <2>6. TagsDiffer'
    BY <2>2 DEF TagsDiffer, TagOf, NewDocument
  <2> QED  BY <2>4, <2>5, <2>6
<1>2. CASE stored # 0
  <2>1. /\ call' = [call EXCEPT ![o] = [status |-> "running", doc |-> stored]]
        /\ call[o].status = "none"
        /\ documents' = documents /\ stored' = stored /\ guids' = guids
    BY <1>2 DEF Load
  <2>2. ProcessTypeOK' /\ HasDocument'
    BY <1>2, <2>1 DEF ProcessTypeOK, HasDocument, Made, OrderDocument
  <2>3. TagsDiffer'
    BY <2>1 DEF TagsDiffer, TagOf, Made
  <2> QED  BY <2>2, <2>3
<1> QED  BY <1>1, <1>2

(* A change of the data leaves all eTags as they are. *)
LEMMA ChangeInv ==
  ASSUME ProcessInv, NEW o \in Order, Change(o)
  PROVE  ProcessInv'
<1> USE DEF ProcessInv
<1>1. /\ call[o].doc \in Made
      /\ documents' = [documents EXCEPT ![call[o].doc].orders = @ \cup {o}]
      /\ stored' = stored /\ guids' = guids /\ call' = call
  BY DEF Change, Busy, HasDocument
<1>2. /\ documents \in [Made -> OrderDocument]
      /\ Made' = Made
  BY <1>1 DEF ProcessTypeOK, Made
<1>3. \A d \in Made : TagOf(d)' = TagOf(d)
  BY <1>1, <1>2 DEF TagOf, OrderDocument
<1>4. documents' \in Seq(OrderDocument)
  <2>1. [documents[call[o].doc] EXCEPT !.orders = @ \cup {o}] \in OrderDocument
    BY <1>1, <1>2 DEF OrderDocument
  <2>2. documents' = [documents EXCEPT ![call[o].doc] = [documents[call[o].doc] EXCEPT !.orders = @ \cup {o}]]
    BY <1>1
  <2> QED  BY <1>1, <2>1, <2>2, ExceptSeq DEF ProcessTypeOK, Made
<1>5. ProcessTypeOK'
  BY <1>1, <1>2, <1>3, <1>4 DEF ProcessTypeOK, OrderDocument, TagOf
<1>6. HasDocument' /\ TagsDiffer'
  BY <1>1, <1>2, <1>3 DEF HasDocument, TagsDiffer
<1> QED  BY <1>5, <1>6

(* A handler that fails or is refused leaves documents and storage alone. *)
LEMMA FailInv ==
  ASSUME ProcessInv, NEW o \in Order, Throw(o)
  PROVE  ProcessInv'
<1> USE DEF ProcessInv
<1>1. /\ call[o].status \in {"none", "running"}
      /\ call' = [call EXCEPT ![o].status = "failed"]
      /\ documents' = documents /\ stored' = stored /\ guids' = guids
  BY DEF Throw
<1>2. ProcessTypeOK' /\ HasDocument'
  BY <1>1 DEF ProcessTypeOK, HasDocument, Made, OrderDocument
<1>3. TagsDiffer'
  BY <1>1 DEF TagsDiffer, TagOf, Made, ProcessTypeOK
<1> QED  BY <1>2, <1>3

LEMMA SaveConflictInv ==
  ASSUME ProcessInv, NEW o \in Order, StoreConflict(o)
  PROVE  ProcessInv'
<1> USE DEF ProcessInv
<1>1. /\ call[o].status = "running"
      /\ call' = [call EXCEPT ![o].status = "conflict"]
      /\ documents' = documents /\ stored' = stored /\ guids' = guids
      /\ TagOf(call[o].doc) # 0 /\ stored # 0 /\ stored # call[o].doc
  BY DEF StoreConflict, IsStale, Busy, TagOf
<1>2. ProcessTypeOK' /\ HasDocument'
  BY <1>1 DEF ProcessTypeOK, HasDocument, Made, OrderDocument
<1>3. TagsDiffer'
  BY <1>1 DEF TagsDiffer, TagOf, Made, ProcessTypeOK
<1> QED  BY <1>2, <1>3

(* A saved document gets an eTag no other document has. *)
LEMMA SaveInv ==
  ASSUME ProcessInv, NEW o \in Order, storeAsync(o)
  PROVE  ProcessInv'
<1> USE DEF ProcessInv
<1> DEFINE D == call[o].doc
<1>1. /\ D \in Made
      /\ call[o].status = "running"
      /\ call' = [call EXCEPT ![o].status = "done"]
      /\ documents' = [documents EXCEPT ![D].eTag = guids + 1]
      /\ stored' = D /\ guids' = guids + 1
      /\ guids \in Nat
  BY DEF storeAsync, Busy, HasDocument, ProcessTypeOK
<1>2. /\ documents \in [Made -> OrderDocument]
      /\ Made' = Made
  BY <1>1 DEF ProcessTypeOK, Made
<1>3. /\ TagOf(D)' = guids + 1
      /\ \A d \in Made \ {D} : TagOf(d)' = TagOf(d)
      /\ \A d \in Made : TagOf(d) \in 0..guids
  BY <1>1, <1>2 DEF TagOf, OrderDocument
<1>5. call'[o] = [status |-> "done", doc |-> D]
  BY <1>1 DEF ProcessTypeOK
<1>6. \A n \in Order \ {o} : call'[n] = call[n]
  BY <1>1 DEF ProcessTypeOK
<1>7. ProcessTypeOK'
  <2>1. documents' \in Seq(OrderDocument')
    <3>1. documents \in Seq(OrderDocument')
      <4>1. OrderDocument \subseteq OrderDocument'
        BY <1>1 DEF OrderDocument
      <4> QED  BY <4>1 DEF ProcessTypeOK
    <3>2. [documents[D] EXCEPT !.eTag = guids + 1] \in OrderDocument'
      BY <1>1, <1>2 DEF OrderDocument
    <3>3. documents' = [documents EXCEPT ![D] = [documents[D] EXCEPT !.eTag = guids + 1]]
      BY <1>1
    <3> QED  BY <1>1, <3>1, <3>2, <3>3, ExceptSeq DEF Made
  <2> QED  BY <1>1, <1>2, <1>3, <2>1 DEF ProcessTypeOK, TagOf
<1>8. HasDocument'
  BY <1>1, <1>2, <1>5, <1>6 DEF HasDocument
<1>9. TagsDiffer'
  BY <1>1, <1>2, <1>3 DEF TagsDiffer
<1> QED  BY <1>7, <1>8, <1>9

-----------------------------------------------------------------------------
LEMMA ProcessInvariance == ProcessSpec => []ProcessInv
<1>1. ProcessInv /\ [ProcessNext]_processVars => ProcessInv'
  <2>1. SUFFICES ASSUME ProcessInv, [ProcessNext]_processVars PROVE ProcessInv'
    OBVIOUS
  <2>2. CASE UNCHANGED processVars
    BY <2>1, <2>2 DEF processVars, ProcessInv, ProcessTypeOK, HasDocument, TagsDiffer, TagOf, Made,
       OrderDocument
  <2> QED  BY <2>1, <2>2, LoadInv, ChangeInv, FailInv, SaveInv, SaveConflictInv DEF ProcessNext
<1> QED  BY <1>1, StartsAsProcess, PTL DEF ProcessSpec

(* Every variable keeps its type, and a stored document has an eTag. *)
THEOREM ProcessTypeCorrect == ProcessSpec => []ProcessTypeOK
<1>1. ProcessInv => ProcessTypeOK
  BY DEF ProcessInv
<1> QED  BY <1>1, ProcessInvariance, PTL

(* InMemoryKeyValueStore.ts 18-28: once no handler with a document that    *)
(* was never saved runs, the stored document is there to stay.             *)
THEOREM OverwrittenByFirstOnly == ProcessSpec => OnlyFirstHandlersOverwrite
<1> DEFINE Settled == stored # 0 /\ \A o \in Order : Busy(o) => documents[call[o].doc].eTag # 0
<1>1. ProcessInv /\ [ProcessNext]_processVars => (Settled => stored' = stored)
  <2>1. SUFFICES ASSUME ProcessInv, [ProcessNext]_processVars, Settled PROVE stored' = stored
    OBVIOUS
  <2>2. ASSUME NEW o \in Order, storeAsync(o) PROVE stored' = stored
    <3>1. /\ call[o].doc \in Made /\ stored \in Made
          /\ TagOf(stored) = TagOf(call[o].doc) /\ TagOf(stored) # 0
      BY <2>1, <2>2 DEF storeAsync, IsStale, Busy, ProcessInv, ProcessTypeOK, HasDocument, TagOf
    <3> QED  BY <2>1, <2>2, <3>1 DEF ProcessInv, TagsDiffer, storeAsync
  <2> QED  BY <2>1, <2>2 DEF ProcessNext, processVars, Load, Change, Throw, StoreConflict
<1> QED  BY <1>1, ProcessInvariance, PTL DEF ProcessSpec, OnlyFirstHandlersOverwrite
=============================================================================
