--------------------------- MODULE EvidenceProofs ---------------------------
(***************************************************************************)
(* Theorems about Evidence, for any sets of requests and answers and any   *)
(* bounds: types, the order of the hearing, the single manifest, what      *)
(* stays frozen without overlap, and that Evidence implements Hearing.     *)
(***************************************************************************)
EXTENDS Evidence, FiniteSetTheorems, TLAPS

-----------------------------------------------------------------------------
(* The inductive invariant, part by part.                                  *)

(* A document gets its notice, its answer and its admission in this order. *)
DocInOrder(doc) ==
  /\ doc.ack => doc.present
  /\ doc.response # "pending" => doc.ack
  /\ doc.admitted => Answered(doc)

(* What an old view saw of a document is still so.                         *)
Precedes(old, new) ==
  /\ old.present => new.present /\ new.by = old.by
  /\ old.ack => new.ack
  /\ old.response # "pending" => new.response # "pending"
  /\ old.admitted => new.admitted

(* Every copy of the documents is in order, and no view is ahead of them.  *)
InOrder ==
  \A d \in DocId :
    /\ DocInOrder(docs[d])
    /\ DocInOrder(row.manifest.docs[d])
    /\ \A s \in Requests : /\ DocInOrder(V(s).docs[d])
                           /\ Precedes(V(s).docs[d], docs[d])

(* Documents are numbered without holes, in the rows and in every view: a  *)
(* number is taken when its request is at "stored".                        *)
Numbered(ds) == \E n \in 0..MaxDocs : Present(ds) = 1..n

AllNumbered ==
  /\ Numbered(docs)
  /\ \A s \in Requests : Numbered(V(s).docs)
  /\ \A s \in Requests : At(s, "stored") => NextNumber(V(s)) \in DocId

(* At most one request holds the lock of the manifest, and it is not made  *)
(* yet; where requests overlap nobody dies, so no claim ever goes stale.   *)
Claiming(r) ==
  /\ r.status = "locking" => r.started # "none"
  /\ mode = "overlap" => r.started # "stale"

OneLocker ==
  /\ Claiming(row)
  /\ row.locked => row.status \in {"locked", "withdrawn"}
  /\ mode = "overlap" /\ row.status = "locking" => \E s \in Requests : At(s, "claimed")
  /\ \A s \in Requests : /\ Claiming(V(s).row)
                         /\ At(s, "claimed") => row.status = "locking"
  /\ \A s, t \in Requests : At(s, "claimed") /\ At(t, "claimed") => s = t

(* Without overlap one request at a time is under way, and its view is the *)
(* case, but for the age of a claim and the document it has just added.    *)
UpToDate(s) ==
  /\ row = [V(s).row EXCEPT !.started = row.started]
  /\ ~At(s, "added") => docs = V(s).docs
  /\ At(s, "stored") => ~row.locked /\ store[NextNumber(V(s))] = P(s)
  /\ At(s, "added") => ~row.locked
  /\ At(s, "claimed") => Complete(V(s))

OneAtATime ==
  \A s \in Requests : mode # "overlap" /\ ~At(s, "idle") =>
    (\A o \in Requests \ {s} : At(o, "idle")) /\ UpToDate(s)

IInv ==
  /\ TypeOK /\ InOrder /\ AllNumbered /\ OneLocker
  /\ OneAtATime /\ FrozenWhenCalm /\ BytesWhenCalm

-----------------------------------------------------------------------------
(* Types.                                                                  *)

(* The values the model builds from are well typed.                        *)
LEMMA BlankTypes ==
  /\ NoDocument \in Document /\ NoManifest \in Manifest
  /\ Blank \in View /\ Idle \in Session
BY DEF NoDocument, Document, Party, Response, NoManifest, Manifest, Docs, Blank, View,
       Row, Idle, Session

(* A request's view and party are well typed, and the case itself is a     *)
(* view.                                                                   *)
LEMMA ViewTypes ==
  ASSUME TypeOK, NEW s \in Requests
  PROVE  /\ V(s) \in View /\ V(s).row \in Row /\ V(s).docs \in Docs /\ P(s) \in Party
         /\ Snapshot \in View
BY DEF TypeOK, Session, V, P, View, Snapshot

(* A request that moves on, or ends, keeps the types of the sessions.      *)
LEMMA GotoTypes ==
  ASSUME TypeOK, NEW s \in Requests, NEW view \in View,
         NEW point \in {"idle", "loaded", "stored", "added", "conduct", "claimed"},
         Goto(s, point, view) \/ Finish(s)
  PROVE  sess' \in [Requests -> Session]
BY BlankTypes DEF TypeOK, Goto, Finish, Session

(* A view in which a document is answered or admitted is a view, and only  *)
(* its documents differ.                                                   *)
LEMMA ViewEdits ==
  ASSUME NEW v \in View, NEW d \in DocId
  PROVE  /\ [v EXCEPT !.docs[d].admitted = TRUE] \in View
         /\ [v EXCEPT !.docs[d].admitted = TRUE].docs = [v.docs EXCEPT ![d].admitted = TRUE]
         /\ [v EXCEPT !.docs[d].admitted = TRUE].row = v.row
         /\ \A r \in Response :
              /\ [v EXCEPT !.docs[d].response = r] \in View
              /\ [v EXCEPT !.docs[d].response = r].docs = [v.docs EXCEPT ![d].response = r]
              /\ [v EXCEPT !.docs[d].response = r].row = v.row
<1>1. v.row \in Row /\ v.docs \in Docs /\ v = [row |-> v.row, docs |-> v.docs]
  BY DEF View
<1>2. [v.docs EXCEPT ![d].admitted = TRUE] \in Docs
  BY <1>1 DEF Docs, Document
<1>3. ASSUME NEW r \in Response PROVE [v.docs EXCEPT ![d].response = r] \in Docs
  BY <1>1 DEF Docs, Document
<1> QED
  BY <1>1, <1>2, <1>3 DEF View

(* An answer goes on with a view that has the answer.                      *)
LEMMA RespondMoves ==
  ASSUME TypeOK, NEW s \in Requests, NEW d \in DocId, NEW r \in Responses, Respond(s, d, r)
  PROVE  \E view \in View : /\ view.docs = [V(s).docs EXCEPT ![d].response = r]
                            /\ view.row = V(s).row
                            /\ Goto(s, "conduct", view)
<1>1. V(s) \in View /\ r \in Response
  BY ViewTypes, EvidenceAssumption
<1>2. /\ [V(s) EXCEPT !.docs[d].response = r] \in View
      /\ [V(s) EXCEPT !.docs[d].response = r].docs = [V(s).docs EXCEPT ![d].response = r]
      /\ [V(s) EXCEPT !.docs[d].response = r].row = V(s).row
  BY <1>1, ViewEdits, ZenonT(40)
<1>3. Goto(s, "conduct", [V(s) EXCEPT !.docs[d].response = r])
  BY DEF Respond
<1> QED
  BY <1>2, <1>3, Zenon

(* An admission is of a document the view has answered, and goes on with a *)
(* view that has it.                                                       *)
LEMMA AdmitMoves ==
  ASSUME TypeOK, NEW s \in Requests, Admit(s)
  PROVE  \E d \in DocId :
           /\ d \in AdmissibleDocuments(V(s).docs)
           /\ docs' = [docs EXCEPT ![d].admitted = TRUE]
           /\ \E view \in View : /\ view.docs = [V(s).docs EXCEPT ![d].admitted = TRUE]
                                 /\ view.row = V(s).row
                                 /\ Goto(s, "conduct", view)
<1>1. PICK d \in AdmissibleDocuments(V(s).docs) :
        /\ docs' = [docs EXCEPT ![d].admitted = TRUE]
        /\ Goto(s, "conduct", [V(s) EXCEPT !.docs[d].admitted = TRUE])
  BY DEF Admit
<1>2. V(s) \in View /\ d \in DocId
  BY ViewTypes DEF AdmissibleDocuments, Present
<1>3. /\ [V(s) EXCEPT !.docs[d].admitted = TRUE] \in View
      /\ [V(s) EXCEPT !.docs[d].admitted = TRUE].docs = [V(s).docs EXCEPT ![d].admitted = TRUE]
      /\ [V(s) EXCEPT !.docs[d].admitted = TRUE].row = V(s).row
  BY <1>2, ViewEdits
<1>4. Goto(s, "conduct", [V(s) EXCEPT !.docs[d].admitted = TRUE])
  BY <1>1
<1>5. \E view \in View : /\ view.docs = [V(s).docs EXCEPT ![d].admitted = TRUE]
                         /\ view.row = V(s).row
                         /\ Goto(s, "conduct", view)
  BY <1>3, <1>4, Zenon
<1> QED
  BY <1>1, <1>2, <1>5, Zenon

(* The acts of the parties keep the types.                                 *)
LEMMA PartyActTypes ==
  ASSUME TypeOK, NEW s \in Requests, PartyAct(s)
  PROVE  TypeOK'
<1> USE EvidenceAssumption
<1>1. /\ V(s) \in View /\ V(s).row \in Row /\ V(s).docs \in Docs /\ P(s) \in Party
  BY ViewTypes
<1>2. CASE Refuse(s)
  BY <1>1, <1>2, GotoTypes DEF Refuse, TypeOK
<1>3. CASE PutBytes(s)
  <2>1. sess' \in [Requests -> Session]
    BY <1>1, <1>3, GotoTypes DEF PutBytes
  <2> QED
    BY <1>1, <1>3, <2>1 DEF PutBytes, TypeOK, Put
<1>4. CASE InsertDocument(s)
  <2>1. sess' \in [Requests -> Session]
    BY <1>1, <1>4, GotoTypes DEF InsertDocument
  <2>2. NewDocument(P(s)) \in Document
    BY <1>1, BlankTypes DEF NewDocument, Document
  <2>3. docs' \in Docs
    BY <1>4, <2>2 DEF InsertDocument, TypeOK, Docs
  <2> QED
    BY <1>4, <2>1, <2>3 DEF InsertDocument, TypeOK
<1>5. CASE ReopenSubmission(s)
  <2>1. sess' \in [Requests -> Session]
    BY <1>1, <1>5, GotoTypes DEF ReopenSubmission
  <2>2. row' \in Row
    BY <1>5 DEF ReopenSubmission, TypeOK, Row
  <2> QED
    BY <1>5, <2>1, <2>2 DEF ReopenSubmission, TypeOK
<1>6. ASSUME NEW d \in DocId, Acknowledge(s, d) PROVE TypeOK'
  <2>1. sess' \in [Requests -> Session]
    BY <1>1, <1>6, GotoTypes DEF Acknowledge
  <2>2. docs' \in Docs
    BY <1>6 DEF Acknowledge, TypeOK, Docs, Document
  <2> QED
    BY <1>6, <2>1, <2>2 DEF Acknowledge, TypeOK
<1>7. ASSUME NEW d \in DocId, NEW r \in Responses, Respond(s, d, r) PROVE TypeOK'
  <2>1. PICK view \in View : Goto(s, "conduct", view)
    BY <1>7, RespondMoves
  <2>2. sess' \in [Requests -> Session]
    BY <2>1, GotoTypes
  <2>3. docs' \in Docs
    BY <1>7 DEF Respond, TypeOK, Docs, Document
  <2> QED
    BY <1>7, <2>2, <2>3 DEF Respond, TypeOK
<1>8. ASSUME NEW b \in BOOLEAN, DeclareReady(s, b) PROVE TypeOK'
  <2>1. [V(s) EXCEPT !.row.ready[P(s)] = b] \in View
    BY <1>1 DEF View, Row
  <2>2. sess' \in [Requests -> Session]
    BY <2>1, <1>8, GotoTypes DEF DeclareReady
  <2>3. row' \in Row
    BY <1>8 DEF DeclareReady, TypeOK, Row
  <2> QED
    BY <1>8, <2>2, <2>3 DEF DeclareReady, TypeOK
<1>9. ASSUME NEW b \in BOOLEAN, Consent(s, b) PROVE TypeOK'
  <2>1. sess' \in [Requests -> Session]
    BY <1>1, <1>9, GotoTypes DEF Consent
  <2>2. row' \in Row
    BY <1>9 DEF Consent, TypeOK, Row
  <2> QED
    BY <1>9, <2>1, <2>2 DEF Consent, TypeOK
<1>10. CASE WithdrawToCourt(s)
  <2>1. sess' \in [Requests -> Session]
    BY <1>1, <1>10, GotoTypes DEF WithdrawToCourt
  <2>2. row' \in Row
    BY <1>10 DEF WithdrawToCourt, TypeOK, Row
  <2> QED
    BY <1>10, <2>1, <2>2 DEF WithdrawToCourt, TypeOK
<1>11. CASE Resume(s)
  <2>1. sess' \in [Requests -> Session]
    BY <1>1, <1>11, GotoTypes DEF Resume
  <2> QED
    BY <1>11, <2>1 DEF Resume, TypeOK
<1> QED
  BY <1>2, <1>3, <1>4, <1>5, <1>6, <1>7, <1>8, <1>9, <1>10, <1>11 DEF PartyAct

(* So do the steps of the steward.                                         *)
LEMMA StewardTypes ==
  ASSUME TypeOK, NEW s \in Requests, Steward(s)
  PROVE  TypeOK'
<1>1. /\ V(s) \in View /\ V(s).row \in Row /\ V(s).docs \in Docs
  BY ViewTypes
<1>2. CASE Admit(s)
  <2>1. PICK d \in DocId : /\ docs' = [docs EXCEPT ![d].admitted = TRUE]
                           /\ \E view \in View : Goto(s, "conduct", view)
    BY <1>2, AdmitMoves
  <2>2. sess' \in [Requests -> Session]
    BY <2>1, GotoTypes
  <2>3. docs' \in Docs
    BY <2>1 DEF TypeOK, Docs, Document
  <2> QED
    BY <1>2, <2>2, <2>3 DEF Admit, TypeOK
<1>3. CASE ClaimLock(s)
  <2>1. row' \in Row
    BY <1>3 DEF ClaimLock, TypeOK, Row
  <2>2. [row |-> row', docs |-> docs] \in View
    BY <2>1 DEF TypeOK, View
  <2>3. sess' \in [Requests -> Session]
    BY <1>3, <2>2, GotoTypes DEF ClaimLock
  <2> QED
    BY <1>3, <2>1, <2>3 DEF ClaimLock, TypeOK
<1>4. CASE EndPass(s)
  BY <1>1, <1>4, GotoTypes DEF EndPass, TypeOK
<1>5. CASE LockManifest(s)
  <2>1. [docs |-> V(s).docs, consent |-> V(s).row.consent] \in Manifest
    BY <1>1 DEF Manifest, Row
  <2>2. row' \in Row
    BY <1>5, <2>1 DEF LockManifest, TypeOK, Row
  <2> QED
    BY <1>1, <1>5, <2>2, GotoTypes DEF LockManifest, TypeOK
<1> QED
  BY <1>2, <1>3, <1>4, <1>5 DEF Steward

(* The initial rows are well typed.                                        *)
LEMMA InitTypes == Init => TypeOK
<1> SUFFICES ASSUME Init PROVE TypeOK
  OBVIOUS
<1>1. EarlyDocument \subseteq Document
  BY BlankTypes, ZenonT(40) DEF EarlyDocument, NewDocument, Document, Party, Response
<1>2. row \in Row
  BY BlankTypes DEF Init, View, Row
<1>3. docs \in Docs
  BY <1>1, BlankTypes DEF Init, View, Docs
<1> QED
  BY <1>2, <1>3, BlankTypes, EvidenceAssumption DEF Init, TypeOK, Party

(* Every step keeps the types.                                             *)
LEMMA NextTypes == TypeOK /\ [Next]_vars => TypeOK'
<1> SUFFICES ASSUME TypeOK, [Next]_vars PROVE TypeOK'
  OBVIOUS
<1> USE EvidenceAssumption
<1>1. ASSUME NEW s \in Requests, Load(s) PROVE TypeOK'
  <2>1. \A p \in Party : [pc |-> "loaded", party |-> p, view |-> Snapshot] \in Session
    BY ViewTypes DEF Session
  <2>2. sess' \in [Requests -> Session]
    BY <1>1, <2>1 DEF Load, TypeOK
  <2> QED
    BY <1>1, <2>2 DEF Load, TypeOK
<1>2. ASSUME NEW s \in Requests, Die(s) PROVE TypeOK'
  BY <1>2, ViewTypes, GotoTypes DEF Die, TypeOK
<1>3. CASE TtlElapses
  BY <1>3 DEF TtlElapses, TypeOK, Row
<1>4. CASE UNCHANGED vars
  BY <1>4 DEF vars, TypeOK
<1> QED
  BY <1>1, <1>2, <1>3, <1>4, PartyActTypes, StewardTypes DEF Next

(* Every variable of Evidence keeps its type.                              *)
THEOREM EvidenceTypeCorrect == Spec => []TypeOK
BY InitTypes, NextTypes, PTL DEF Spec

-----------------------------------------------------------------------------
(* The order of the hearing.                                               *)

(* A step of one request that leaves every copy of the documents in order, *)
(* and none behind a view, keeps the order.                                *)
LEMMA OrderStep ==
  ASSUME TypeOK, InOrder, NEW s \in Requests, NEW new \in Session,
         sess' = [sess EXCEPT ![s] = new],
         \A d \in DocId : /\ DocInOrder(docs'[d]) /\ Precedes(docs[d], docs'[d])
                          /\ DocInOrder(row'.manifest.docs[d])
                          /\ DocInOrder(new.view.docs[d])
                          /\ Precedes(new.view.docs[d], docs'[d])
  PROVE  InOrder'
<1> SUFFICES ASSUME NEW d \in DocId, NEW t \in Requests
             PROVE  /\ DocInOrder(sess'[t].view.docs[d])
                    /\ Precedes(sess'[t].view.docs[d], docs'[d])
  BY DEF InOrder, V
<1>1. CASE t = s
  BY <1>1 DEF TypeOK
<1>2. CASE t # s
  <2>1. sess'[t] = sess[t]
    BY <1>2 DEF TypeOK
  <2>2. DocInOrder(sess[t].view.docs[d]) /\ Precedes(sess[t].view.docs[d], docs[d])
    BY DEF InOrder, V
  <2> QED
    BY <2>1, <2>2 DEF Precedes
<1> QED
  BY <1>1, <1>2

(* An idle request's view is an empty case: it is behind every other.      *)
LEMMA BlankInOrder ==
  ASSUME TypeOK, NEW d \in DocId
  PROVE  DocInOrder(Idle.view.docs[d]) /\ Precedes(Idle.view.docs[d], docs[d])
BY DEF Idle, Blank, NoManifest, NoDocument, DocInOrder, Precedes

(* A request that ends with the documents and the manifest as they were    *)
(* keeps the order.                                                        *)
LEMMA OrderFinish ==
  ASSUME TypeOK, InOrder, NEW s \in Requests, Finish(s), docs' = docs,
         row'.manifest = row.manifest
  PROVE  InOrder'
<1>1. sess' = [sess EXCEPT ![s] = Idle] /\ Idle \in Session
  BY BlankTypes DEF Finish
<1>2. \A d \in DocId : /\ DocInOrder(docs'[d]) /\ Precedes(docs[d], docs'[d])
                       /\ DocInOrder(row'.manifest.docs[d])
                       /\ DocInOrder(Idle.view.docs[d])
                       /\ Precedes(Idle.view.docs[d], docs'[d])
  BY BlankInOrder DEF InOrder, Precedes
<1> QED
  BY <1>1, <1>2, OrderStep

(* The same for a request that goes on with a new view.                    *)
LEMMA OrderMove ==
  ASSUME TypeOK, InOrder, NEW s \in Requests, NEW view \in View,
         NEW point \in {"stored", "added", "conduct", "claimed"},
         Goto(s, point, view),
         \A d \in DocId : /\ DocInOrder(docs'[d]) /\ Precedes(docs[d], docs'[d])
                          /\ DocInOrder(row'.manifest.docs[d])
                          /\ DocInOrder(view.docs[d])
                          /\ Precedes(view.docs[d], docs'[d])
  PROVE  InOrder'
<1> DEFINE new == [sess[s] EXCEPT !.pc = point, !.view = view]
<1>1. sess' = [sess EXCEPT ![s] = new] /\ new \in Session /\ new.view = view
  BY DEF Goto, TypeOK, Session
<1> QED
  BY <1>1, OrderStep

(* A request that goes on with the documents and the manifest as they were *)
(* keeps the order, if its new view holds the documents of the old one.    *)
LEMMA OrderGoto ==
  ASSUME TypeOK, InOrder, NEW s \in Requests, NEW view \in View,
         NEW point \in {"stored", "added", "conduct", "claimed"},
         Goto(s, point, view), view.docs \in {V(s).docs, docs},
         docs' = docs, row'.manifest = row.manifest
  PROVE  InOrder'
<1>1. \A d \in DocId : /\ DocInOrder(docs'[d]) /\ Precedes(docs[d], docs'[d])
                       /\ DocInOrder(row'.manifest.docs[d])
                       /\ DocInOrder(view.docs[d])
                       /\ Precedes(view.docs[d], docs'[d])
  BY DEF InOrder, Precedes
<1> QED
  BY <1>1, OrderMove

(* The acts of the parties keep the order: an answer is given by a view    *)
(* that has the notice, and a new document takes a number of its own.      *)
LEMMA PartyActOrder ==
  ASSUME TypeOK, InOrder, NEW s \in Requests, PartyAct(s)
  PROVE  InOrder'
<1> USE EvidenceAssumption
<1>1. /\ V(s) \in View /\ V(s).row \in Row /\ V(s).docs \in Docs /\ P(s) \in Party
      /\ docs \in Docs /\ row \in Row /\ sess[s] \in Session
  BY ViewTypes DEF TypeOK
<1>2. CASE Refuse(s)
  BY <1>2, OrderFinish DEF Refuse
<1>3. CASE PutBytes(s)
  BY <1>1, <1>3, OrderGoto DEF PutBytes
<1>4. CASE InsertDocument(s)
  <2> DEFINE n == NextNumber(V(s))
  <2>1. CASE docs[n].present
    BY <2>1, <1>4, OrderFinish DEF InsertDocument
  <2>2. CASE ~docs[n].present
    <3>1. docs' = [docs EXCEPT ![n] = NewDocument(P(s))]
      BY <2>2, <1>4 DEF InsertDocument
    <3>2. DocInOrder(NewDocument(P(s)))
      BY DEF NewDocument, NoDocument, DocInOrder
    <3>3. \A d \in DocId : DocInOrder(docs'[d]) /\ Precedes(docs[d], docs'[d])
      BY <1>1, <2>2, <3>1, <3>2 DEF InOrder, DocInOrder, Precedes, Docs, Document, Answered
    <3>4. PICK new \in {Idle, [sess[s] EXCEPT !.pc = "added", !.view = V(s)]} :
            sess' = [sess EXCEPT ![s] = new]
      BY <1>4, <2>2 DEF InsertDocument, Goto, Finish
    <3>5. new \in Session /\ (new.view = V(s) \/ new = Idle)
      BY <1>1, <3>4, BlankTypes DEF Session
    <3>6. \A d \in DocId : DocInOrder(new.view.docs[d]) /\ Precedes(new.view.docs[d], docs[d])
      BY <3>5, BlankInOrder DEF InOrder
    <3>7. \A d \in DocId : Precedes(new.view.docs[d], docs'[d])
      BY <3>3, <3>6 DEF Precedes
    <3>8. \A d \in DocId : DocInOrder(row'.manifest.docs[d])
      BY <1>4 DEF InsertDocument, InOrder
    <3> QED
      BY <3>3, <3>4, <3>5, <3>6, <3>7, <3>8, OrderStep
  <2> QED
    BY <2>1, <2>2
<1>5. CASE ReopenSubmission(s)
  BY <1>1, <1>5, OrderFinish DEF ReopenSubmission, Row
<1>6. ASSUME NEW e \in DocId, Acknowledge(s, e) PROVE InOrder'
  <2>1. /\ docs' = [docs EXCEPT ![e].ack = TRUE] /\ V(s).docs[e].present
        /\ sess' = [sess EXCEPT ![s] = Idle] /\ row' = row
    BY <1>6 DEF Acknowledge, Finish
  <2>2. docs[e].present
    BY <2>1 DEF InOrder, Precedes
  <2>3. \A d \in DocId : DocInOrder(docs'[d]) /\ Precedes(docs[d], docs'[d])
    BY <1>1, <2>1, <2>2 DEF InOrder, DocInOrder, Precedes, Docs, Document, Answered
  <2>4. \A d \in DocId : Precedes(Idle.view.docs[d], docs'[d])
    BY <2>3, BlankInOrder DEF Precedes
  <2> QED
    BY <2>1, <2>3, <2>4, BlankInOrder, BlankTypes, OrderStep DEF InOrder
<1>7. ASSUME NEW e \in DocId, NEW r \in Responses, Respond(s, e, r) PROVE InOrder'
  <2>1. /\ docs' = IF V(s).docs[e].response = r THEN docs ELSE [docs EXCEPT ![e].response = r]
        /\ V(s).docs[e].ack /\ row' = row
    BY <1>7 DEF Respond
  <2>2. r \in Response /\ r # "pending" /\ docs[e].ack
    BY <2>1 DEF InOrder, Precedes
  <2>3. PICK view \in View : /\ view.docs = [V(s).docs EXCEPT ![e].response = r]
                             /\ Goto(s, "conduct", view)
    BY <1>7, RespondMoves
  <2>4. \A d \in DocId : DocInOrder(docs'[d]) /\ Precedes(docs[d], docs'[d])
    BY <1>1, <2>1, <2>2 DEF InOrder, DocInOrder, Precedes, Docs, Document, Answered, Response
  <2>5. \A d \in DocId : DocInOrder(V(s).docs[d]) /\ Precedes(V(s).docs[d], docs[d])
    BY DEF InOrder
  <2>6. \A d \in DocId : DocInOrder(view.docs[d])
    BY <1>1, <2>1, <2>2, <2>3, <2>5 DEF DocInOrder, Docs, Document, Answered, Response
  <2>7. \A d \in DocId : Precedes(view.docs[d], docs'[d])
    <3> SUFFICES ASSUME NEW d \in DocId PROVE Precedes(view.docs[d], docs'[d])
      OBVIOUS
    <3>1. CASE d # e
      BY <1>1, <2>3, <2>4, <2>5, <3>1 DEF Precedes, Docs
    <3>2. CASE d = e
      <4>1. view.docs[e] = [V(s).docs[e] EXCEPT !.response = r]
        BY <1>1, <2>3 DEF Docs
      <4>2. docs'[e].response # "pending"
        BY <1>1, <2>1, <2>2, <2>5 DEF Docs, Document, Precedes
      <4>3. Precedes(V(s).docs[e], docs'[e])
        BY <2>4, <2>5 DEF Precedes
      <4> QED
        BY <1>1, <3>2, <4>1, <4>2, <4>3 DEF Precedes, Docs, Document
    <3> QED
      BY <3>1, <3>2
  <2> QED
    BY <2>1, <2>3, <2>4, <2>6, <2>7, OrderMove DEF InOrder
<1>8. ASSUME NEW b \in BOOLEAN, DeclareReady(s, b) PROVE InOrder'
  <2>1. /\ [V(s) EXCEPT !.row.ready[P(s)] = b] \in View
        /\ [V(s) EXCEPT !.row.ready[P(s)] = b].docs = V(s).docs
    BY <1>1 DEF View, Row
  <2> QED
    BY <1>1, <1>8, <2>1, OrderGoto DEF DeclareReady, Row
<1>9. ASSUME NEW b \in BOOLEAN, Consent(s, b) PROVE InOrder'
  BY <1>1, <1>9, OrderFinish DEF Consent, Row
<1>10. CASE WithdrawToCourt(s)
  BY <1>1, <1>10, OrderFinish DEF WithdrawToCourt, Row
<1>11. CASE Resume(s)
  BY <1>1, <1>11, OrderGoto DEF Resume
<1> QED
  BY <1>2, <1>3, <1>4, <1>5, <1>6, <1>7, <1>8, <1>9, <1>10, <1>11 DEF PartyAct

(* The steward admits what its view has answered, and that is still so; it *)
(* seals the documents of a view.                                          *)
LEMMA StewardOrder ==
  ASSUME TypeOK, InOrder, NEW s \in Requests, Steward(s)
  PROVE  InOrder'
<1>1. /\ V(s) \in View /\ V(s).row \in Row /\ V(s).docs \in Docs
      /\ docs \in Docs /\ row \in Row /\ sess[s] \in Session
  BY ViewTypes DEF TypeOK
<1>2. CASE Admit(s)
  <2>1. PICK e \in DocId :
          /\ e \in AdmissibleDocuments(V(s).docs)
          /\ docs' = [docs EXCEPT ![e].admitted = TRUE]
          /\ \E view \in View : /\ view.docs = [V(s).docs EXCEPT ![e].admitted = TRUE]
                                /\ Goto(s, "conduct", view)
    BY <1>2, AdmitMoves
  <2>2. e \in DocId /\ Answered(V(s).docs[e]) /\ row' = row
    BY <1>2, <2>1 DEF AdmissibleDocuments, Admit
  <2>3. \A d \in DocId : DocInOrder(V(s).docs[d]) /\ Precedes(V(s).docs[d], docs[d])
    BY DEF InOrder
  <2>4. Answered(docs[e])
    BY <1>1, <2>2, <2>3 DEF Precedes, Answered, Docs, Document, Response
  <2>5. PICK view \in View : /\ view.docs = [V(s).docs EXCEPT ![e].admitted = TRUE]
                             /\ Goto(s, "conduct", view)
    BY <2>1
  <2>6. \A d \in DocId : DocInOrder(docs'[d]) /\ Precedes(docs[d], docs'[d])
    BY <1>1, <2>1, <2>4 DEF InOrder, DocInOrder, Precedes, Docs, Document, Answered
  <2>7. \A d \in DocId : DocInOrder(view.docs[d])
    BY <1>1, <2>2, <2>3, <2>5 DEF DocInOrder, Docs, Document, Answered
  <2>8. \A d \in DocId : Precedes(view.docs[d], docs'[d])
    <3> SUFFICES ASSUME NEW d \in DocId PROVE Precedes(view.docs[d], docs'[d])
      OBVIOUS
    <3>1. Precedes(V(s).docs[d], docs'[d])
      BY <2>3, <2>6 DEF Precedes
    <3>2. CASE d # e
      BY <1>1, <2>5, <3>1, <3>2 DEF Docs
    <3>3. CASE d = e
      BY <1>1, <2>1, <2>2, <2>5, <3>1, <3>3 DEF Precedes, Docs, Document
    <3> QED
      BY <3>2, <3>3
  <2> QED
    BY <2>2, <2>5, <2>6, <2>7, <2>8, OrderMove DEF InOrder
<1>3. CASE ClaimLock(s)
  <2>1. row' \in Row /\ row'.manifest = row.manifest /\ docs' = docs
    BY <1>1, <1>3 DEF ClaimLock, Row
  <2>2. [row |-> row', docs |-> docs] \in View
    BY <1>1, <2>1 DEF View
  <2> QED
    BY <1>3, <2>1, <2>2, OrderGoto DEF ClaimLock
<1>4. CASE EndPass(s)
  BY <1>4, OrderFinish DEF EndPass
<1>5. CASE LockManifest(s)
  <2>1. /\ row'.manifest.docs = V(s).docs /\ docs' = docs
        /\ sess' = [sess EXCEPT ![s] = Idle] /\ Idle \in Session
    BY <1>1, <1>5, BlankTypes DEF LockManifest, Row, Finish
  <2>2. \A d \in DocId : /\ DocInOrder(docs'[d]) /\ Precedes(docs[d], docs'[d])
                         /\ DocInOrder(row'.manifest.docs[d])
                         /\ DocInOrder(Idle.view.docs[d])
                         /\ Precedes(Idle.view.docs[d], docs'[d])
    BY <2>1, BlankInOrder DEF InOrder, Precedes
  <2> QED
    BY <2>1, <2>2, OrderStep
<1> QED
  BY <1>2, <1>3, <1>4, <1>5 DEF Steward

(* A case under way starts in order: its only document may have come any   *)
(* part of the way.                                                        *)
LEMMA InitOrder == Init => InOrder
<1> SUFFICES ASSUME Init PROVE InOrder
  OBVIOUS
<1>1. TypeOK
  BY InitTypes
<1>2. PICK first \in EarlyDocument : docs = [Blank.docs EXCEPT ![1] = first]
  BY DEF Init
<1>3. DocInOrder(NoDocument) /\ \A first1 \in EarlyDocument : DocInOrder(first1)
  BY DEF EarlyDocument, NewDocument, NoDocument, DocInOrder, Answered
<1>4. Blank.docs = [d \in DocId |-> NoDocument]
  BY DEF Blank, NoManifest
<1>5. \A d \in DocId : DocInOrder(docs[d])
  BY <1>2, <1>3, <1>4
<1>6. row.manifest.docs = [d \in DocId |-> NoDocument]
  BY DEF Init, Blank, NoManifest
<1>7. \A s \in Requests : V(s) = Idle.view
  BY DEF Init, V
<1> QED
  BY <1>1, <1>3, <1>5, <1>6, <1>7, BlankInOrder DEF InOrder

(* Every step keeps the order.                                             *)
LEMMA NextOrder == TypeOK /\ InOrder /\ [Next]_vars => InOrder'
<1> SUFFICES ASSUME TypeOK, InOrder, [Next]_vars PROVE InOrder'
  OBVIOUS
<1>1. ASSUME NEW s \in Requests, Load(s) PROVE InOrder'
  <2>1. PICK p \in Party :
          sess' = [sess EXCEPT ![s] = [pc |-> "loaded", party |-> p, view |-> Snapshot]]
    BY <1>1 DEF Load
  <2> DEFINE new == [pc |-> "loaded", party |-> p, view |-> Snapshot]
  <2>2. new \in Session /\ new.view.docs = docs
    BY ViewTypes DEF Session, Snapshot
  <2>3. row' = row /\ docs' = docs /\ sess' = [sess EXCEPT ![s] = new]
    BY <1>1, <2>1 DEF Load
  <2> HIDE DEF new
  <2>4. \A d \in DocId : /\ DocInOrder(docs'[d]) /\ Precedes(docs[d], docs'[d])
                         /\ DocInOrder(row'.manifest.docs[d])
                         /\ DocInOrder(new.view.docs[d])
                         /\ Precedes(new.view.docs[d], docs'[d])
    BY <2>2, <2>3 DEF InOrder, Precedes
  <2> QED
    BY <2>2, <2>3, <2>4, OrderStep
<1>2. ASSUME NEW s \in Requests, Die(s) PROVE InOrder'
  BY <1>2, OrderFinish DEF Die
<1>3. CASE TtlElapses
  <2>1. row'.manifest = row.manifest /\ docs' = docs /\ sess' = sess
    BY <1>3 DEF TtlElapses, TypeOK, Row
  <2> QED
    BY <2>1 DEF InOrder, V
<1>4. CASE UNCHANGED vars
  BY <1>4 DEF vars, InOrder, V
<1> QED
  BY <1>1, <1>2, <1>3, <1>4, PartyActOrder, StewardOrder DEF Next

(* "Nenhum material entra silenciosamente na decisao": what is admitted,   *)
(* in the rows and in the manifest, was noticed and answered, from however *)
(* old a view the steward admitted it.                                     *)
THEOREM AdmittedOnlyAnswered == Spec => []AdmittedWasAnswered
<1>1. InOrder => AdmittedWasAnswered
  BY DEF InOrder, DocInOrder, AdmittedWasAnswered
<1> QED
  BY <1>1, InitTypes, NextTypes, InitOrder, NextOrder, PTL DEF Spec

-----------------------------------------------------------------------------
(* The numbers of the documents.                                           *)

(* The count of documents numbered without holes is the last number.       *)
LEMMA CountNumbered ==
  ASSUME NEW ds \in Docs, Numbered(ds)
  PROVE  /\ Cardinality(Present(ds)) \in 0..MaxDocs
         /\ Present(ds) = 1..Cardinality(Present(ds))
<1>1. PICK n \in 0..MaxDocs : Present(ds) = 1..n
  BY DEF Numbered
<1>2. n \in Nat
  BY EvidenceAssumption
<1>3. Cardinality(1..n) = n
  BY <1>2, FS_Interval
<1> QED
  BY <1>1, <1>2, <1>3

(* No act on a document but its insertion changes which documents exist.   *)
LEMMA EditPresence ==
  ASSUME NEW ds \in Docs, NEW d \in DocId
  PROVE  /\ Present([ds EXCEPT ![d].ack = TRUE]) = Present(ds)
         /\ Present([ds EXCEPT ![d].admitted = TRUE]) = Present(ds)
BY DEF Present, Docs, Document

(* ... nor does an answer to one.                                          *)
LEMMA AnswerPresence ==
  ASSUME NEW ds \in Docs, NEW d \in DocId, NEW r \in Response
  PROVE  Present([ds EXCEPT ![d].response = r]) = Present(ds)
BY DEF Present, Docs, Document

(* A request that moves on keeps the numbering, if the rows are numbered   *)
(* and its new view lists what some numbered copy lists.                   *)
LEMMA NumberedStep ==
  ASSUME TypeOK, AllNumbered, NEW s \in Requests, NEW new \in Session,
         sess' = [sess EXCEPT ![s] = new], Numbered(docs'),
         Present(new.view.docs) \in {Present(V(s).docs), Present(docs), {}},
         new.pc = "stored" => NextNumber(new.view) \in DocId
  PROVE  AllNumbered'
<1>1. Numbered(new.view.docs)
  <2>1. {} = 1..0 /\ 0 \in 0..MaxDocs
    BY EvidenceAssumption
  <2> QED
    BY <2>1 DEF AllNumbered, Numbered
<1> SUFFICES ASSUME NEW t \in Requests
             PROVE  /\ Numbered(sess'[t].view.docs)
                    /\ sess'[t].pc = "stored" => NextNumber(sess'[t].view) \in DocId
  BY DEF AllNumbered, V, At
<1>2. CASE t = s
  BY <1>1, <1>2 DEF TypeOK
<1>3. CASE t # s
  BY <1>3 DEF TypeOK, AllNumbered, V, At
<1> QED
  BY <1>2, <1>3

(* A request that ends with the same documents keeps the numbering.        *)
LEMMA NumberedFinish ==
  ASSUME TypeOK, AllNumbered, NEW s \in Requests, Finish(s),
         Present(docs') = Present(docs)
  PROVE  AllNumbered'
<1>1. sess' = [sess EXCEPT ![s] = Idle] /\ Idle \in Session
  BY BlankTypes DEF Finish
<1>2. Present(Idle.view.docs) = {} /\ Idle.pc = "idle"
  BY DEF Idle, Blank, NoManifest, NoDocument, Present
<1>3. Numbered(docs')
  BY DEF AllNumbered, Numbered
<1> QED
  BY <1>1, <1>2, <1>3, NumberedStep

(* So does one that goes on with the same documents.                       *)
LEMMA NumberedGoto ==
  ASSUME TypeOK, AllNumbered, NEW s \in Requests, NEW view \in View,
         NEW point \in {"stored", "added", "conduct", "claimed"},
         Goto(s, point, view), Numbered(docs'),
         Present(view.docs) \in {Present(V(s).docs), Present(docs)},
         point = "stored" => NextNumber(view) \in DocId
  PROVE  AllNumbered'
<1> DEFINE new == [sess[s] EXCEPT !.pc = point, !.view = view]
<1>1. /\ sess' = [sess EXCEPT ![s] = new] /\ new \in Session /\ new.view = view
      /\ new.pc = point
  BY DEF Goto, TypeOK, Session
<1> HIDE DEF new
<1> QED
  BY <1>1, NumberedStep

(* The acts of the parties keep the numbering: a row takes the number after *)
(* the last of its view, which is the one after the last row or is taken.  *)
LEMMA PartyActNumbered ==
  ASSUME TypeOK, InOrder, AllNumbered, NEW s \in Requests, PartyAct(s)
  PROVE  AllNumbered'
<1> USE EvidenceAssumption
<1>1. /\ V(s) \in View /\ V(s).row \in Row /\ V(s).docs \in Docs /\ P(s) \in Party
      /\ docs \in Docs /\ Numbered(docs) /\ Numbered(V(s).docs)
  BY ViewTypes DEF TypeOK, AllNumbered
<1>2. CASE Refuse(s)
  BY <1>2, NumberedFinish DEF Refuse
<1>3. CASE PutBytes(s)
  BY <1>1, <1>3, NumberedGoto DEF PutBytes
<1>4. CASE InsertDocument(s)
  <2> DEFINE n == NextNumber(V(s))
  <2>1. CASE docs[n].present
    BY <2>1, <1>4, NumberedFinish DEF InsertDocument
  <2>2. CASE ~docs[n].present
    <3>1. docs' = [docs EXCEPT ![n] = NewDocument(P(s))] /\ n \in DocId
      BY <2>2, <1>4 DEF InsertDocument, AllNumbered
    <3>2. PICK m \in 0..MaxDocs : Present(docs) = 1..m
      BY <1>1 DEF Numbered
    <3>3. Present(V(s).docs) = 1..(n - 1) /\ n \in Nat
      BY <1>1, CountNumbered DEF NextNumber
    <3>4. Present(V(s).docs) \subseteq Present(docs)
      BY DEF InOrder, Precedes, Present
    <3>5. n \notin Present(docs)
      BY <2>2 DEF Present
    <3>6. n = m + 1
      <4>1. n > m
        BY <3>1, <3>2, <3>3, <3>5 DEF DocId
      <4>2. n - 1 <= m
        BY <3>1, <3>2, <3>3, <3>4 DEF DocId
      <4> QED
        BY <3>2, <3>3, <4>1, <4>2
    <3>7. NewDocument(P(s)).present
      BY DEF NewDocument, NoDocument
    <3>8. Present(docs') = Present(docs) \union {n}
      BY <1>1, <3>1, <3>7 DEF Present, Docs
    <3>9. Numbered(docs')
      <4>1. n \in 0..MaxDocs /\ (1..m) \union {n} = 1..n
        BY <3>1, <3>2, <3>6 DEF DocId
      <4> QED
        BY <3>2, <3>8, <4>1 DEF Numbered
    <3>10. CASE Finish(s)
      <4>1. Idle \in Session /\ Idle.pc = "idle" /\ Present(Idle.view.docs) = {}
        BY BlankTypes DEF Idle, Blank, NoManifest, NoDocument, Present
      <4> QED
        BY <3>9, <3>10, <4>1, NumberedStep DEF Finish
    <3>11. CASE Goto(s, "added", V(s))
      BY <1>1, <3>9, <3>11, NumberedGoto
    <3> QED
      BY <1>4, <2>2, <3>10, <3>11 DEF InsertDocument
  <2> QED
    BY <2>1, <2>2
<1>5. CASE ReopenSubmission(s)
  BY <1>5, NumberedFinish DEF ReopenSubmission
<1>6. ASSUME NEW d \in DocId, Acknowledge(s, d) PROVE AllNumbered'
  BY <1>1, <1>6, EditPresence, NumberedFinish DEF Acknowledge
<1>7. ASSUME NEW d \in DocId, NEW r \in Responses, Respond(s, d, r) PROVE AllNumbered'
  <2>1. Present(docs') = Present(docs)
    <3>1. docs' = docs \/ docs' = [docs EXCEPT ![d].response = r]
      BY <1>7 DEF Respond
    <3>2. r \in Response
      BY EvidenceAssumption
    <3>3. docs \in Docs
      BY <1>1
    <3>4. Present([docs EXCEPT ![d].response = r]) = Present(docs)
      BY <3>2, <3>3, AnswerPresence
    <3> QED
      BY <3>1, <3>4, Zenon
  <2>2. PICK view \in View : /\ view.docs = [V(s).docs EXCEPT ![d].response = r]
                             /\ Goto(s, "conduct", view)
    BY <1>7, RespondMoves
  <2>3. Numbered(docs')
    BY <1>1, <2>1 DEF Numbered
  <2>4. Present(view.docs) \in {Present(V(s).docs), Present(docs)}
    BY <1>1, <2>2 DEF Present, Docs, Document
  <2> QED
    BY <2>2, <2>3, <2>4, NumberedGoto
<1>8. ASSUME NEW b \in BOOLEAN, DeclareReady(s, b) PROVE AllNumbered'
  <2>1. /\ [V(s) EXCEPT !.row.ready[P(s)] = b] \in View
        /\ [V(s) EXCEPT !.row.ready[P(s)] = b].docs = V(s).docs
    BY <1>1 DEF View, Row
  <2> QED
    BY <1>1, <1>8, <2>1, NumberedGoto DEF DeclareReady
<1>9. ASSUME NEW b \in BOOLEAN, Consent(s, b) PROVE AllNumbered'
  BY <1>9, NumberedFinish DEF Consent
<1>10. CASE WithdrawToCourt(s)
  BY <1>10, NumberedFinish DEF WithdrawToCourt
<1>11. CASE Resume(s)
  BY <1>1, <1>11, NumberedGoto DEF Resume
<1> QED
  BY <1>2, <1>3, <1>4, <1>5, <1>6, <1>7, <1>8, <1>9, <1>10, <1>11 DEF PartyAct

(* The steward and the environment add no document.                        *)
LEMMA NextNumbered == TypeOK /\ InOrder /\ AllNumbered /\ [Next]_vars => AllNumbered'
<1> SUFFICES ASSUME TypeOK, InOrder, AllNumbered, [Next]_vars PROVE AllNumbered'
  OBVIOUS
<1> USE EvidenceAssumption
<1>1. docs \in Docs /\ Numbered(docs)
  BY DEF TypeOK, AllNumbered
<1>2. ASSUME NEW s \in Requests, Admit(s) PROVE AllNumbered'
  <2>1. PICK d \in DocId :
          /\ docs' = [docs EXCEPT ![d].admitted = TRUE]
          /\ \E view \in View : /\ view.docs = [V(s).docs EXCEPT ![d].admitted = TRUE]
                                /\ Goto(s, "conduct", view)
    BY <1>2, AdmitMoves
  <2>2. V(s).docs \in Docs
    BY ViewTypes
  <2>3. Present(docs') = Present(docs)
    BY <1>1, <2>1, <2>2, EditPresence
  <2>4. PICK view \in View : /\ view.docs = [V(s).docs EXCEPT ![d].admitted = TRUE]
                             /\ Goto(s, "conduct", view)
    BY <2>1
  <2>5. Numbered(docs')
    BY <1>1, <2>3 DEF Numbered
  <2>6. Present(view.docs) \in {Present(V(s).docs), Present(docs)}
    BY <2>2, <2>4 DEF Present, Docs, Document
  <2> QED
    BY <2>4, <2>5, <2>6, NumberedGoto
<1>3. ASSUME NEW s \in Requests, ClaimLock(s) PROVE AllNumbered'
  <2>1. row' \in Row /\ docs' = docs
    BY <1>3 DEF ClaimLock, TypeOK, Row
  <2>2. [row |-> row', docs |-> docs] \in View
    BY <1>1, <2>1 DEF View
  <2> QED
    BY <1>1, <1>3, <2>1, <2>2, NumberedGoto DEF ClaimLock
<1>4. ASSUME NEW s \in Requests, EndPass(s) \/ LockManifest(s) \/ Die(s) PROVE AllNumbered'
  BY <1>4, NumberedFinish DEF EndPass, LockManifest, Die
<1>5. ASSUME NEW s \in Requests, Load(s) PROVE AllNumbered'
  <2>1. PICK p \in Party :
          sess' = [sess EXCEPT ![s] = [pc |-> "loaded", party |-> p, view |-> Snapshot]]
    BY <1>5 DEF Load
  <2> DEFINE new == [pc |-> "loaded", party |-> p, view |-> Snapshot]
  <2>2. new \in Session /\ new.view.docs = docs /\ new.pc = "loaded"
    BY ViewTypes DEF Session, Snapshot
  <2>3. docs' = docs /\ sess' = [sess EXCEPT ![s] = new]
    BY <1>5, <2>1 DEF Load
  <2> HIDE DEF new
  <2> QED
    BY <1>1, <2>2, <2>3, NumberedStep
<1>6. CASE TtlElapses \/ UNCHANGED vars
  BY <1>6 DEF TtlElapses, vars, AllNumbered, V, At, NextNumber
<1> QED
  BY <1>2, <1>3, <1>4, <1>5, <1>6, PartyActNumbered DEF Next, Steward

(* The case under way has no document or the first.                        *)
LEMMA InitNumbered == Init => AllNumbered
<1> SUFFICES ASSUME Init PROVE AllNumbered
  OBVIOUS
<1> USE EvidenceAssumption
<1>1. PICK first \in EarlyDocument : docs = [Blank.docs EXCEPT ![1] = first]
  BY DEF Init
<1>2. Blank.docs = [d \in DocId |-> NoDocument] /\ ~NoDocument.present
  BY DEF Blank, NoManifest, NoDocument
<1>3. Present(Blank.docs) = 1..0 /\ Numbered(Blank.docs)
  <2>1. Present(Blank.docs) = {} /\ 1..0 = {} /\ 0 \in 0..MaxDocs
    BY <1>2 DEF Present
  <2> QED
    BY <2>1 DEF Numbered
<1>4. Numbered(docs)
  <2>1. 1 \in DocId /\ 1..1 = {1} /\ 1..0 = {} /\ 0 \in 0..MaxDocs /\ 1 \in 0..MaxDocs
    BY DEF DocId
  <2>2. Present(docs) = IF first.present THEN {1} ELSE {}
    BY <1>1, <1>2, <2>1 DEF Present
  <2> QED
    BY <2>1, <2>2 DEF Numbered
<1>5. \A s \in Requests : V(s).docs = Blank.docs /\ ~At(s, "stored")
  BY DEF Init, V, At, Idle
<1> QED
  BY <1>3, <1>4, <1>5 DEF AllNumbered

-----------------------------------------------------------------------------
(* One holder of the lock.                                                 *)

(* A request that neither takes nor leaves the lock keeps its rule.        *)
LEMMA LockerKeep ==
  ASSUME TypeOK, OneLocker, NEW s \in Requests, NEW new \in Session,
         sess' = [sess EXCEPT ![s] = new], mode' = mode,
         ~At(s, "claimed"), new.pc # "claimed", Claiming(new.view.row),
         row'.status = "locking" <=> row.status = "locking",
         Claiming(row'), row'.locked => row'.status \in {"locked", "withdrawn"}
  PROVE  OneLocker'
<1>1. \A t \in Requests : /\ t = s => sess'[t] = new
                          /\ t # s => sess'[t] = sess[t]
  BY DEF TypeOK
<1>2. \A t \in Requests : At(t, "claimed")' <=> At(t, "claimed")
  BY <1>1 DEF At
<1>3. \A t \in Requests : Claiming(V(t).row)'
  BY <1>1 DEF OneLocker, V, Claiming
<1>4. Claiming(row)'
  BY DEF Claiming
<1> QED
  BY <1>2, <1>3, <1>4 DEF OneLocker

(* What the acts on a case under way leave of the row.                     *)
SameClaim ==
  /\ row'.status = row.status /\ row'.started = row.started /\ row'.locked = row.locked
  /\ mode' = mode

(* A request that ends and leaves the claim alone keeps the rule.          *)
LEMMA LockerFinish ==
  ASSUME TypeOK, OneLocker, NEW s \in Requests, Finish(s), ~At(s, "claimed"), SameClaim
  PROVE  OneLocker'
<1>1. sess' = [sess EXCEPT ![s] = Idle] /\ Idle \in Session
  BY BlankTypes DEF Finish
<1>2. Idle.pc # "claimed" /\ Claiming(Idle.view.row)
  BY DEF Idle, Blank, Claiming
<1>3. Claiming(row') /\ (row'.locked => row'.status \in {"locked", "withdrawn"})
  BY DEF SameClaim, OneLocker, Claiming
<1> QED
  BY <1>1, <1>2, <1>3, LockerKeep DEF SameClaim

(* So does one that goes on with a view of the same claim.                 *)
LEMMA LockerGoto ==
  ASSUME TypeOK, OneLocker, NEW s \in Requests, NEW view \in View,
         NEW point \in {"stored", "added", "conduct"},
         Goto(s, point, view), ~At(s, "claimed"), SameClaim,
         view.row.status = V(s).row.status, view.row.started = V(s).row.started
  PROVE  OneLocker'
<1> DEFINE new == [sess[s] EXCEPT !.pc = point, !.view = view]
<1>1. /\ sess' = [sess EXCEPT ![s] = new] /\ new \in Session /\ new.view = view
      /\ new.pc = point
  BY DEF Goto, TypeOK, Session
<1> HIDE DEF new
<1>2. Claiming(new.view.row)
  BY <1>1 DEF OneLocker, Claiming
<1>3. Claiming(row') /\ (row'.locked => row'.status \in {"locked", "withdrawn"})
  BY DEF SameClaim, OneLocker, Claiming
<1> QED
  BY <1>1, <1>2, <1>3, LockerKeep DEF SameClaim

(* No act of a party takes the lock, and a withdrawal never finds it taken: *)
(* it is conditional on the status that was read.                          *)
LEMMA PartyActLocker ==
  ASSUME TypeOK, OneLocker, NEW s \in Requests, PartyAct(s)
  PROVE  OneLocker'
<1>1. V(s) \in View /\ V(s).row \in Row /\ row \in Row /\ P(s) \in Party
  BY ViewTypes DEF TypeOK
<1>2. CASE Refuse(s)
  BY <1>2, LockerFinish DEF Refuse, SameClaim, At
<1>3. CASE PutBytes(s)
  BY <1>1, <1>3, LockerGoto DEF PutBytes, Open, SameClaim, At
<1>4. CASE InsertDocument(s)
  <2>1. ~At(s, "claimed") /\ SameClaim
    BY <1>4 DEF InsertDocument, SameClaim, At
  <2>2. CASE Finish(s)
    BY <2>1, <2>2, LockerFinish
  <2>3. CASE Goto(s, "added", V(s))
    BY <1>1, <2>1, <2>3, LockerGoto
  <2> QED
    BY <1>4, <2>2, <2>3 DEF InsertDocument
<1>5. CASE ReopenSubmission(s)
  <2>1. SameClaim /\ ~At(s, "claimed")
    BY <1>1, <1>5 DEF ReopenSubmission, SameClaim, Row, At
  <2> QED
    BY <1>5, <2>1, LockerFinish DEF ReopenSubmission
<1>6. ASSUME NEW d \in DocId, Acknowledge(s, d) PROVE OneLocker'
  BY <1>6, LockerFinish DEF Acknowledge, Open, SameClaim, At
<1>7. ASSUME NEW d \in DocId, NEW r \in Responses, Respond(s, d, r) PROVE OneLocker'
  <2>1. PICK view \in View : view.row = V(s).row /\ Goto(s, "conduct", view)
    BY <1>7, RespondMoves
  <2>2. SameClaim /\ ~At(s, "claimed")
    BY <1>7 DEF Respond, Open, SameClaim, At
  <2> QED
    BY <2>1, <2>2, LockerGoto
<1>8. ASSUME NEW b \in BOOLEAN, DeclareReady(s, b) PROVE OneLocker'
  <2> DEFINE view == [V(s) EXCEPT !.row.ready[P(s)] = b]
  <2>1. view \in View /\ view.row = [V(s).row EXCEPT !.ready[P(s)] = b]
    BY <1>1 DEF View, Row
  <2>2. SameClaim /\ ~At(s, "claimed") /\ Goto(s, "conduct", view)
    BY <1>1, <1>8 DEF DeclareReady, Open, SameClaim, Row, At
  <2> HIDE DEF view
  <2>3. view.row.status = V(s).row.status /\ view.row.started = V(s).row.started
    BY <1>1, <2>1 DEF Row
  <2> QED
    BY <2>1, <2>2, <2>3, LockerGoto
<1>9. ASSUME NEW b \in BOOLEAN, Consent(s, b) PROVE OneLocker'
  <2>1. SameClaim /\ ~At(s, "claimed")
    BY <1>1, <1>9 DEF Consent, Open, SameClaim, Row, At
  <2> QED
    BY <1>9, <2>1, LockerFinish DEF Consent
<1>10. CASE WithdrawToCourt(s)
  <2>1. CASE row.status = V(s).row.status
    <3>1. /\ row' = [row EXCEPT !.status = "withdrawn", !.started = "none"]
          /\ row.status # "locking" /\ ~At(s, "claimed") /\ mode' = mode
          /\ sess' = [sess EXCEPT ![s] = Idle]
      BY <1>10, <2>1 DEF WithdrawToCourt, Finish, At
    <3>2. row'.status = "withdrawn" /\ row'.started = "none"
      BY <1>1, <3>1 DEF Row
    <3>3. Idle \in Session /\ Idle.pc # "claimed" /\ Claiming(Idle.view.row)
      BY BlankTypes DEF Idle, Blank, Claiming
    <3>4. Claiming(row')
      BY <3>2 DEF Claiming
    <3> QED
      BY <3>1, <3>2, <3>3, <3>4, LockerKeep
  <2>2. CASE row.status # V(s).row.status
    BY <1>10, <2>2, LockerFinish DEF WithdrawToCourt, SameClaim, At
  <2> QED
    BY <2>1, <2>2
<1>11. CASE Resume(s)
  BY <1>1, <1>11, LockerGoto DEF Resume, SameClaim, At
<1> QED
  BY <1>2, <1>3, <1>4, <1>5, <1>6, <1>7, <1>8, <1>9, <1>10, <1>11 DEF PartyAct

(* A claim is taken only where nobody holds one: from a draft; or again,   *)
(* when it went stale, and then no other request is under way.             *)
LEMMA ClaimIsFree ==
  ASSUME TypeOK, OneLocker, OneAtATime, NEW s \in Requests, ClaimLock(s),
         NEW t \in Requests
  PROVE  ~At(t, "claimed") /\ ~row.locked
<1>1. At(s, "conduct") /\ LockClaimMatches(V(s)) /\ row.status \in {"draft", "locking"}
  BY DEF ClaimLock, LockClaimMatches
<1>2. ~row.locked
  BY <1>1 DEF OneLocker
<1>3. CASE row.status = "draft"
  BY <1>2, <1>3 DEF OneLocker
<1>4. CASE row.status = "locking"
  <2>1. V(s).row.status = "locking" /\ V(s).row.started # "fresh" /\ Claiming(V(s).row)
    BY <1>1, <1>4 DEF LockClaimMatches, OneLocker
  <2>2. V(s).row.started \in {"none", "fresh", "stale"}
    BY ViewTypes DEF Row
  <2>3. mode # "overlap"
    BY <2>1, <2>2 DEF Claiming
  <2>4. CASE t = s
    BY <1>1, <2>4, <1>2 DEF At
  <2>5. CASE t # s
    <3>1. At(t, "idle")
      BY <1>1, <2>3, <2>5 DEF OneAtATime, At
    <3> QED
      BY <1>2, <3>1 DEF At
  <2> QED
    BY <2>4, <2>5
<1> QED
  BY <1>1, <1>3, <1>4

(* Every step keeps one holder.                                            *)
LEMMA NextLocker == TypeOK /\ OneLocker /\ OneAtATime /\ [Next]_vars => OneLocker'
<1> SUFFICES ASSUME TypeOK, OneLocker, OneAtATime, [Next]_vars PROVE OneLocker'
  OBVIOUS
<1>1. row \in Row
  BY DEF TypeOK
<1>2. ASSUME NEW s \in Requests, Load(s) PROVE OneLocker'
  <2>1. PICK p \in Party :
          sess' = [sess EXCEPT ![s] = [pc |-> "loaded", party |-> p, view |-> Snapshot]]
    BY <1>2 DEF Load
  <2> DEFINE new == [pc |-> "loaded", party |-> p, view |-> Snapshot]
  <2>2. new \in Session /\ new.view.row = row /\ new.pc = "loaded"
    BY ViewTypes DEF Session, Snapshot
  <2>3. row' = row /\ mode' = mode /\ ~At(s, "claimed") /\ sess' = [sess EXCEPT ![s] = new]
    BY <1>2, <2>1 DEF Load, At
  <2> HIDE DEF new
  <2>4. Claiming(row) /\ (row.locked => row.status \in {"locked", "withdrawn"})
    BY DEF OneLocker
  <2> QED
    BY <2>2, <2>3, <2>4, LockerKeep
<1>3. ASSUME NEW s \in Requests, Admit(s) PROVE OneLocker'
  <2>1. PICK view \in View : view.row = V(s).row /\ Goto(s, "conduct", view)
    BY <1>3, AdmitMoves
  <2>2. SameClaim /\ ~At(s, "claimed")
    BY <1>3 DEF Admit, SameClaim, At
  <2> QED
    BY <2>1, <2>2, LockerGoto
<1>4. ASSUME NEW s \in Requests, ClaimLock(s) PROVE OneLocker'
  <2> DEFINE view == [row |-> row', docs |-> docs]
             new  == [sess[s] EXCEPT !.pc = "claimed", !.view = view]
  <2>1. /\ row'.status = "locking" /\ row'.started = "fresh" /\ row'.locked = row.locked
        /\ mode' = mode
    BY <1>1, <1>4 DEF ClaimLock, Row
  <2>2. sess' = [sess EXCEPT ![s] = new] /\ new.view.row = row' /\ new.pc = "claimed"
    BY <1>4 DEF ClaimLock, Goto, TypeOK, Session
  <2> HIDE DEF new
  <2>3. \A t \in Requests : ~At(t, "claimed") /\ ~row.locked
    BY <1>4, ClaimIsFree
  <2>4. \A t \in Requests : /\ t = s => sess'[t] = new
                            /\ t # s => sess'[t] = sess[t]
    BY <2>2 DEF TypeOK
  <2>5. \A t \in Requests : At(t, "claimed")' <=> t = s
    BY <2>2, <2>3, <2>4 DEF At
  <2>6. \A t \in Requests : Claiming(V(t).row)'
    BY <2>1, <2>2, <2>4 DEF Claiming, OneLocker, V
  <2>7. Claiming(row)'
    BY <2>1 DEF Claiming
  <2> QED
    BY <2>1, <2>3, <2>5, <2>6, <2>7 DEF OneLocker
<1>5. ASSUME NEW s \in Requests, EndPass(s) PROVE OneLocker'
  BY <1>5, LockerFinish DEF EndPass, SameClaim, At
<1>6. ASSUME NEW s \in Requests, LockManifest(s) PROVE OneLocker'
  <2>1. /\ row'.status = "locked" /\ row'.started = row.started /\ mode' = mode
        /\ At(s, "claimed") /\ sess' = [sess EXCEPT ![s] = Idle]
    BY <1>1, <1>6 DEF LockManifest, Row, Finish
  <2>2. \A t \in Requests : /\ t = s => sess'[t] = Idle
                            /\ t # s => sess'[t] = sess[t]
    BY <2>1 DEF TypeOK
  <2>3. \A t \in Requests : ~At(t, "claimed")'
    BY <2>1, <2>2 DEF OneLocker, At, Idle
  <2>4. \A t \in Requests : Claiming(V(t).row)'
    BY <2>1, <2>2 DEF OneLocker, V, Claiming, Idle, Blank
  <2>5. Claiming(row)'
    BY <2>1 DEF Claiming, OneLocker
  <2> QED
    BY <2>1, <2>3, <2>4, <2>5 DEF OneLocker
<1>7. ASSUME NEW s \in Requests, Die(s) PROVE OneLocker'
  <2>1. /\ row' = row /\ mode' = mode /\ mode = "faulty"
        /\ sess' = [sess EXCEPT ![s] = Idle]
    BY <1>7 DEF Die, Finish
  <2>2. \A t \in Requests : /\ t = s => sess'[t] = Idle
                            /\ t # s => sess'[t] = sess[t]
    BY <2>1 DEF TypeOK
  <2>3. \A t \in Requests : At(t, "claimed")' => At(t, "claimed")
    BY <2>1, <2>2 DEF At, Idle
  <2>4. \A t \in Requests : Claiming(V(t).row)'
    BY <2>1, <2>2 DEF OneLocker, V, Claiming, Idle, Blank
  <2>5. Claiming(row)'
    BY <2>1 DEF Claiming, OneLocker
  <2> QED
    BY <2>1, <2>3, <2>4, <2>5 DEF OneLocker
<1>8. CASE TtlElapses
  <2>1. /\ row'.status = row.status /\ row'.locked = row.locked /\ row'.started = "stale"
        /\ mode' = mode /\ sess' = sess /\ row.status = "locking"
    BY <1>1, <1>8 DEF TtlElapses, Row
  <2>2. mode # "overlap"
    BY <1>8, <2>1 DEF TtlElapses, OneLocker
  <2>3. Claiming(row)'
    BY <2>1, <2>2 DEF Claiming
  <2>4. \A t \in Requests : (At(t, "claimed")' <=> At(t, "claimed")) /\ Claiming(V(t).row)'
    BY <2>1 DEF OneLocker, At, V, Claiming
  <2> QED
    BY <2>1, <2>2, <2>3, <2>4 DEF OneLocker
<1>9. CASE UNCHANGED vars
  BY <1>9 DEF vars, OneLocker, V, At, Claiming
<1> QED
  BY <1>2, <1>3, <1>4, <1>5, <1>6, <1>7, <1>8, <1>9, PartyActLocker DEF Next, Steward

-----------------------------------------------------------------------------
(* Without overlap.                                                        *)

(* The request that steps is the only one under way, so what it leaves is  *)
(* all there is to check.                                                  *)
LEMMA CalmStep ==
  ASSUME TypeOK, NEW s \in Requests, NEW new \in Session,
         sess' = [sess EXCEPT ![s] = new],
         \A o \in Requests \ {s} : At(o, "idle"),
         new.pc # "idle" => UpToDate(s)'
  PROVE  OneAtATime'
<1>1. sess'[s] = new /\ \A o \in Requests \ {s} : sess'[o] = sess[o]
  BY DEF TypeOK
<1>2. At(s, "idle")' <=> new.pc = "idle"
  BY <1>1 DEF At
<1>3. \A o \in Requests \ {s} : At(o, "idle")'
  BY <1>1 DEF At
<1> QED
  BY <1>2, <1>3 DEF OneAtATime

(* A request that ends leaves nobody under way.                            *)
LEMMA CalmFinish ==
  ASSUME TypeOK, NEW s \in Requests, Finish(s), \A o \in Requests \ {s} : At(o, "idle")
  PROVE  OneAtATime'
<1>1. sess' = [sess EXCEPT ![s] = Idle] /\ Idle \in Session /\ Idle.pc = "idle"
  BY BlankTypes DEF Finish, Idle
<1> QED
  BY <1>1, CalmStep

(* A request that goes on must have a view that is the case as it leaves   *)
(* it.                                                                     *)
LEMMA CalmGoto ==
  ASSUME TypeOK, NEW s \in Requests, NEW view \in View,
         NEW point \in {"stored", "added", "conduct", "claimed"},
         Goto(s, point, view), \A o \in Requests \ {s} : At(o, "idle"),
         row' = [view.row EXCEPT !.started = row'.started],
         point # "added" => docs' = view.docs,
         point = "stored" => ~row'.locked /\ store'[NextNumber(view)] = P(s),
         point = "added" => ~row'.locked,
         point = "claimed" => Complete(view)
  PROVE  OneAtATime'
<1> DEFINE new == [sess[s] EXCEPT !.pc = point, !.view = view]
<1>1. /\ sess' = [sess EXCEPT ![s] = new] /\ new \in Session /\ new.view = view
      /\ new.pc = point /\ new.party = P(s)
  BY DEF Goto, TypeOK, Session, P
<1> HIDE DEF new
<1>2. sess'[s] = new
  BY <1>1 DEF TypeOK
<1>3. UpToDate(s)'
  BY <1>1, <1>2 DEF UpToDate, At, V, P
<1> QED
  BY <1>1, <1>3, CalmStep

(* What a request under way sees is the case: the row but for the age of a *)
(* claim, and the documents.                                               *)
LEMMA CalmView ==
  ASSUME TypeOK, OneAtATime, mode # "overlap", NEW s \in Requests, ~At(s, "idle")
  PROVE  /\ \A o \in Requests \ {s} : At(o, "idle")
         /\ UpToDate(s)
         /\ row.locked = V(s).row.locked /\ row.consent = V(s).row.consent
         /\ row.ready = V(s).row.ready /\ row.manifest = V(s).row.manifest
<1>1. (\A o \in Requests \ {s} : At(o, "idle")) /\ UpToDate(s)
  BY DEF OneAtATime
<1>2. V(s).row \in Row
  BY ViewTypes
<1> QED
  BY <1>1, <1>2 DEF UpToDate, Row

(* The acts of a party, without overlap.                                   *)
LEMMA PartyActCalm ==
  ASSUME TypeOK, AllNumbered, OneAtATime, mode # "overlap",
         NEW s \in Requests, PartyAct(s)
  PROVE  OneAtATime'
<1> USE EvidenceAssumption
<1>1. /\ V(s) \in View /\ V(s).row \in Row /\ V(s).docs \in Docs /\ P(s) \in Party
      /\ docs \in Docs /\ row \in Row /\ store \in [DocId -> Party]
  BY ViewTypes DEF TypeOK
<1>2. ~At(s, "idle")
  BY DEF PartyAct, Refuse, PutBytes, InsertDocument, ReopenSubmission, Acknowledge, Respond,
         DeclareReady, Consent, WithdrawToCourt, Resume, Open, At
<1>3. /\ \A o \in Requests \ {s} : At(o, "idle")
      /\ UpToDate(s)
      /\ row.locked = V(s).row.locked
  BY <1>2, CalmView
<1>4. CASE Finish(s)
  BY <1>3, <1>4, CalmFinish
<1>5. CASE PutBytes(s)
  <2>1. /\ Goto(s, "stored", V(s)) /\ row' = row /\ docs' = docs /\ At(s, "loaded")
        /\ NextNumber(V(s)) \in DocId /\ ~V(s).row.locked
        /\ store' = [store EXCEPT ![NextNumber(V(s))] = P(s)]
    BY <1>5 DEF PutBytes, Open, Put
  <2>2. row' = [V(s).row EXCEPT !.started = row'.started] /\ docs' = V(s).docs
    BY <1>3, <2>1 DEF UpToDate, At
  <2>3. ~row'.locked /\ store'[NextNumber(V(s))] = P(s)
    BY <1>1, <1>3, <2>1
  <2> QED
    BY <1>1, <1>3, <2>1, <2>2, <2>3, CalmGoto
<1>6. CASE InsertDocument(s)
  <2>1. CASE Goto(s, "added", V(s))
    <3>1. row' = row /\ At(s, "stored")
      BY <1>6 DEF InsertDocument
    <3>2. row' = [V(s).row EXCEPT !.started = row'.started] /\ ~row'.locked
      BY <1>3, <3>1 DEF UpToDate
    <3> QED
      BY <1>1, <1>3, <2>1, <3>2, CalmGoto
  <2> QED
    BY <1>4, <1>6, <2>1 DEF InsertDocument
<1>7. ASSUME NEW d \in DocId, NEW r \in Responses, Respond(s, d, r) PROVE OneAtATime'
  <2>1. PICK view \in View : /\ view.docs = [V(s).docs EXCEPT ![d].response = r]
                             /\ view.row = V(s).row
                             /\ Goto(s, "conduct", view)
    BY <1>7, RespondMoves
  <2>2. /\ docs' = IF V(s).docs[d].response = r THEN docs ELSE [docs EXCEPT ![d].response = r]
        /\ row' = row /\ At(s, "loaded")
    BY <1>7 DEF Respond, Open
  <2>3. docs = V(s).docs /\ row' = [view.row EXCEPT !.started = row'.started]
    BY <1>3, <2>1, <2>2 DEF UpToDate, At
  <2>4. docs' = view.docs
    BY <1>1, <2>1, <2>2, <2>3 DEF Docs, Document
  <2> QED
    BY <1>3, <2>1, <2>3, <2>4, CalmGoto
<1>8. ASSUME NEW b \in BOOLEAN, DeclareReady(s, b) PROVE OneAtATime'
  <2> DEFINE view == [V(s) EXCEPT !.row.ready[P(s)] = b]
  <2>1. /\ view \in View /\ view.row = [V(s).row EXCEPT !.ready[P(s)] = b]
        /\ view.docs = V(s).docs
    BY <1>1 DEF View, Row
  <2>2. /\ row' = IF V(s).row.ready[P(s)] = b THEN row ELSE [row EXCEPT !.ready[P(s)] = b]
        /\ docs' = docs /\ Goto(s, "conduct", view) /\ At(s, "loaded")
    BY <1>8 DEF DeclareReady, Open
  <2> HIDE DEF view
  <2>3. docs' = view.docs
    BY <1>3, <2>1, <2>2 DEF UpToDate, At
  <2>4. row = [V(s).row EXCEPT !.started = row.started]
    BY <1>3 DEF UpToDate
  <2>5. row' = [view.row EXCEPT !.started = row'.started]
    <3>1. view.row.ready = [V(s).row.ready EXCEPT ![P(s)] = b] /\ V(s).row.ready = row.ready
      BY <1>1, <2>1, <2>4 DEF Row
    <3>2. row'.ready = view.row.ready
      BY <1>1, <2>2, <3>1 DEF Row
    <3>3. /\ row' = [row EXCEPT !.ready = row'.ready]
          /\ view.row = [V(s).row EXCEPT !.ready = view.row.ready]
      BY <1>1, <2>1, <2>2, <3>1 DEF Row
    <3> QED
      BY <1>1, <2>4, <3>2, <3>3 DEF Row
  <2> QED
    BY <1>3, <2>1, <2>2, <2>3, <2>5, CalmGoto
<1>9. CASE Resume(s)
  <2>1. Goto(s, "conduct", V(s)) /\ row' = row /\ docs' = docs /\ At(s, "loaded")
    BY <1>9 DEF Resume
  <2>2. row' = [V(s).row EXCEPT !.started = row'.started] /\ docs' = V(s).docs
    BY <1>3, <2>1 DEF UpToDate, At
  <2> QED
    BY <1>1, <1>3, <2>1, <2>2, CalmGoto
<1> QED
  BY <1>4, <1>5, <1>6, <1>7, <1>8, <1>9
     DEF PartyAct, Refuse, ReopenSubmission, Acknowledge, Consent, WithdrawToCourt

(* Every step leaves at most one request under way, with the case as its   *)
(* view, unless requests overlap.                                          *)
LEMMA NextCalm == TypeOK /\ AllNumbered /\ OneLocker /\ OneAtATime /\ [Next]_vars => OneAtATime'
<1> SUFFICES ASSUME TypeOK, AllNumbered, OneLocker, OneAtATime, [Next]_vars PROVE OneAtATime'
  OBVIOUS
<1>1. CASE mode = "overlap"
  <2>1. mode' = mode
    BY ZenonT(40)
       DEF Next, PartyAct, Refuse, PutBytes, InsertDocument, ReopenSubmission, Acknowledge,
           Respond, DeclareReady, Consent, WithdrawToCourt, Resume, Steward, Admit, ClaimLock,
           EndPass, LockManifest, Load, Die, TtlElapses, vars
  <2> QED
    BY <1>1, <2>1 DEF OneAtATime
<1> SUFFICES ASSUME mode # "overlap" PROVE OneAtATime'
  BY <1>1
<1>2. docs \in Docs /\ row \in Row
  BY DEF TypeOK
<1>3. ASSUME NEW s \in Requests, Load(s) PROVE OneAtATime'
  <2>1. PICK p \in Party :
          sess' = [sess EXCEPT ![s] = [pc |-> "loaded", party |-> p, view |-> Snapshot]]
    BY <1>3 DEF Load
  <2> DEFINE new == [pc |-> "loaded", party |-> p, view |-> Snapshot]
  <2>2. /\ new \in Session /\ new.view.row = row /\ new.view.docs = docs /\ new.pc = "loaded"
        /\ sess' = [sess EXCEPT ![s] = new]
    BY <2>1, ViewTypes DEF Session, Snapshot
  <2>3. row' = row /\ docs' = docs /\ \A o \in Requests \ {s} : At(o, "idle")
    BY <1>3 DEF Load, Turn
  <2> HIDE DEF new
  <2>4. sess'[s] = new
    BY <2>2 DEF TypeOK
  <2>5. row = [row EXCEPT !.started = row.started]
    BY <1>2 DEF Row
  <2>6. UpToDate(s)'
    BY <2>2, <2>3, <2>4, <2>5 DEF UpToDate, At, V
  <2> QED
    BY <2>2, <2>3, <2>6, CalmStep
<1>4. ASSUME NEW s \in Requests, Admit(s) PROVE OneAtATime'
  <2>1. PICK d \in DocId :
          /\ docs' = [docs EXCEPT ![d].admitted = TRUE]
          /\ \E view \in View : /\ view.docs = [V(s).docs EXCEPT ![d].admitted = TRUE]
                                /\ view.row = V(s).row
                                /\ Goto(s, "conduct", view)
    BY <1>4, AdmitMoves
  <2>2. PICK view \in View : /\ view.docs = [V(s).docs EXCEPT ![d].admitted = TRUE]
                             /\ view.row = V(s).row
                             /\ Goto(s, "conduct", view)
    BY <2>1
  <2>3. row' = row /\ At(s, "conduct") /\ ~At(s, "idle")
    BY <1>4 DEF Admit, At
  <2>4. /\ docs = V(s).docs /\ \A o \in Requests \ {s} : At(o, "idle")
        /\ row' = [view.row EXCEPT !.started = row'.started]
    BY <2>2, <2>3, CalmView DEF UpToDate, At
  <2>5. docs' = view.docs
    BY <2>1, <2>2, <2>4
  <2> QED
    BY <2>2, <2>4, <2>5, CalmGoto
<1>5. ASSUME NEW s \in Requests, ClaimLock(s) PROVE OneAtATime'
  <2> DEFINE view == [row |-> row', docs |-> docs]
  <2>1. /\ row' = [row EXCEPT !.status = "locking", !.started = "fresh"] /\ docs' = docs
        /\ Goto(s, "claimed", view) /\ Complete(V(s)) /\ ~At(s, "idle") /\ At(s, "conduct")
    BY <1>5 DEF ClaimLock, LegalLock, At
  <2>2. row' \in Row /\ row'.consent = row.consent /\ row'.ready = row.ready
    BY <1>2, <2>1 DEF Row
  <2>3. view \in View /\ view.row = row' /\ view.docs = docs
    BY <1>2, <2>2 DEF View
  <2> HIDE DEF view
  <2>4. /\ docs = V(s).docs /\ row.consent = V(s).row.consent /\ row.ready = V(s).row.ready
        /\ \A o \in Requests \ {s} : At(o, "idle")
    BY <2>1, CalmView DEF UpToDate, At
  <2>5. Complete(view)
    BY <2>1, <2>2, <2>3, <2>4 DEF Complete
  <2>6. row' = [view.row EXCEPT !.started = row'.started]
    BY <2>2, <2>3 DEF Row
  <2> QED
    BY <2>1, <2>3, <2>4, <2>5, <2>6, CalmGoto
<1>6. ASSUME NEW s \in Requests, EndPass(s) \/ LockManifest(s) \/ Die(s) PROVE OneAtATime'
  <2>1. Finish(s) /\ ~At(s, "idle")
    BY <1>6 DEF EndPass, LockManifest, Die, At
  <2> QED
    BY <2>1, CalmView, CalmFinish
<1>7. CASE TtlElapses
  <2>1. /\ row' = [row EXCEPT !.started = "stale"] /\ docs' = docs /\ sess' = sess
        /\ store' = store /\ mode' = mode
    BY <1>7 DEF TtlElapses
  <2> SUFFICES ASSUME NEW s \in Requests, ~At(s, "idle")'
               PROVE  (\A o \in Requests \ {s} : At(o, "idle")') /\ UpToDate(s)'
    BY DEF OneAtATime
  <2>2. (\A o \in Requests \ {s} : At(o, "idle")) /\ UpToDate(s)
    BY <2>1, CalmView DEF At
  <2>3. V(s).row \in Row /\ row.locked = row'.locked
    BY <1>2, <2>1, ViewTypes DEF Row
  <2>4. row' = [V(s).row EXCEPT !.started = row'.started]
    BY <1>2, <2>1, <2>2, <2>3 DEF UpToDate, Row
  <2> QED
    BY <2>1, <2>2, <2>3, <2>4 DEF UpToDate, At, V, P
<1>8. CASE UNCHANGED vars
  BY <1>8 DEF vars, OneAtATime, UpToDate, At, V, P
<1> QED
  BY <1>3, <1>4, <1>5, <1>6, <1>7, <1>8, PartyActCalm DEF Next, Steward

-----------------------------------------------------------------------------
(* The sealed manifest.                                                    *)

(* No step of Evidence changes how requests come.                          *)
LEMMA ModeKept == [Next]_vars => mode' = mode
BY ZenonT(40) DEF Next, PartyAct, Refuse, PutBytes, InsertDocument, ReopenSubmission, Acknowledge,
       Respond, DeclareReady, Consent, WithdrawToCourt, Resume, Steward, Admit, ClaimLock,
       EndPass, LockManifest, Load, Die, TtlElapses, vars

(* Only the request that holds the lock builds the manifest.               *)
LEMMA ManifestKept ==
  ASSUME TypeOK, [Next]_vars, \A s \in Requests : ~LockManifest(s)
  PROVE  row'.manifest = row.manifest /\ row'.locked = row.locked
<1>1. row \in Row
  BY DEF TypeOK
<1>2. ASSUME NEW s \in Requests, PartyAct(s)
      PROVE  row'.manifest = row.manifest /\ row'.locked = row.locked
  <2>1. CASE row' = row
    BY <2>1
  <2>2. CASE ReopenSubmission(s) \/ WithdrawToCourt(s)
    BY <1>1, <2>2 DEF ReopenSubmission, WithdrawToCourt, Row
  <2>3. ASSUME NEW b \in BOOLEAN, DeclareReady(s, b) \/ Consent(s, b)
        PROVE  row'.manifest = row.manifest /\ row'.locked = row.locked
    BY <1>1, <2>3 DEF DeclareReady, Consent, Row
  <2> QED
    BY <1>2, <2>1, <2>2, <2>3 DEF PartyAct, Refuse, PutBytes, InsertDocument, Acknowledge,
       Respond, Resume
<1>3. ASSUME NEW s \in Requests, ClaimLock(s)
      PROVE  row'.manifest = row.manifest /\ row'.locked = row.locked
  BY <1>1, <1>3 DEF ClaimLock, Row
<1>4. CASE TtlElapses
  BY <1>1, <1>4 DEF TtlElapses, Row
<1>5. CASE row' = row
  BY <1>5
<1> QED
  BY <1>2, <1>3, <1>4, <1>5 DEF Next, Steward, Admit, EndPass, Load, Die, vars

(* A request that holds the lock finds no manifest.                        *)
LEMMA LockFindsNone ==
  ASSUME OneLocker, NEW s \in Requests, LockManifest(s)
  PROVE  ~row.locked
BY DEF OneLocker, LockManifest

(* What LockManifest seals, without overlap: a complete case, as it is.    *)
LEMMA LockSealsCase ==
  ASSUME TypeOK, OneAtATime, mode # "overlap", NEW s \in Requests, LockManifest(s)
  PROVE  /\ row'.locked /\ docs' = docs
         /\ row'.manifest.docs = docs /\ row'.manifest.consent = row.consent
         /\ row'.consent = row.consent
         /\ ContradictoryComplete(docs) /\ \A p \in Party : row.consent[p]
<1>1. At(s, "claimed") /\ ~At(s, "idle") /\ row \in Row /\ docs' = docs
  BY DEF LockManifest, At, TypeOK
<1>2. docs = V(s).docs /\ row.consent = V(s).row.consent /\ Complete(V(s))
  BY <1>1, CalmView DEF UpToDate, At
<1>3. /\ row'.manifest = [docs |-> V(s).docs, consent |-> V(s).row.consent]
      /\ row'.consent = row.consent /\ row'.locked
  BY <1>1 DEF LockManifest, Row
<1> QED
  BY <1>1, <1>2, <1>3 DEF Complete

(* Once a case is sealed, and while requests do not overlap, nothing in it *)
(* moves: not its documents, its consents or its manifest.                 *)
LEMMA SealedStill ==
  ASSUME TypeOK, OneLocker, OneAtATime, FrozenWhenCalm, [Next]_vars,
         mode # "overlap", row.locked
  PROVE  /\ docs' = docs /\ row'.consent = row.consent
         /\ row'.manifest = row.manifest /\ row'.locked
<1>1. row \in Row
  BY DEF TypeOK
<1>2. \A s \in Requests : ~LockManifest(s)
  BY LockFindsNone
<1>3. row'.manifest = row.manifest /\ row'.locked
  BY <1>2, ManifestKept
<1>4. \A s \in Requests : ~Open(s) /\ ~At(s, "stored") /\ ~At(s, "added")
  <2> SUFFICES ASSUME NEW s \in Requests, Open(s) \/ At(s, "stored") \/ At(s, "added")
               PROVE  FALSE
    OBVIOUS
  <2>1. ~At(s, "idle")
    BY DEF Open, At
  <2> QED
    BY <2>1, CalmView DEF Open, UpToDate
<1>5. \A s \in Requests : ~Admit(s)
  <2> SUFFICES ASSUME NEW s \in Requests, Admit(s) PROVE FALSE
    OBVIOUS
  <2>1. At(s, "conduct") /\ ~At(s, "idle") /\ AdmissibleDocuments(V(s).docs) # {}
    BY DEF Admit, LegalAdmit, At
  <2>2. docs = V(s).docs
    BY <2>1, CalmView DEF UpToDate, At
  <2>3. ContradictoryComplete(docs)
    BY DEF FrozenWhenCalm
  <2> QED
    BY <2>1, <2>2, <2>3 DEF AdmissibleDocuments, ContradictoryComplete
<1>6. docs' = docs /\ row'.consent = row.consent
  BY <1>1, <1>2, <1>4, <1>5, ZenonT(40) DEF Next, PartyAct, Refuse, PutBytes, InsertDocument,
     ReopenSubmission, Acknowledge, Respond, DeclareReady, Consent, WithdrawToCourt, Resume,
     Steward, ClaimLock, EndPass, Load, Die, TtlElapses, vars, Row
<1> QED
  BY <1>3, <1>6

(* A step that locks the case locks it complete; every other leaves it.    *)
LEMMA NextFrozen ==
  TypeOK /\ OneLocker /\ OneAtATime /\ FrozenWhenCalm /\ [Next]_vars => FrozenWhenCalm'
<1> SUFFICES ASSUME TypeOK, OneLocker, OneAtATime, FrozenWhenCalm, [Next]_vars,
                    mode # "overlap", row'.locked
             PROVE  FrozenWhenCalm'
  BY ModeKept DEF FrozenWhenCalm
<1>1. CASE row.locked
  BY <1>1, SealedStill DEF FrozenWhenCalm
<1>2. CASE ~row.locked
  <2>1. PICK s \in Requests : LockManifest(s)
    BY <1>2, ManifestKept
  <2>2. /\ docs' = docs /\ row'.manifest.docs = docs /\ row'.manifest.consent = row.consent
        /\ row'.consent = row.consent
        /\ ContradictoryComplete(docs) /\ \A p \in Party : row.consent[p]
    BY <2>1, LockSealsCase
  <2>3. Retrievable(docs) = Present(docs)
    BY <2>2 DEF ContradictoryComplete, Retrievable
  <2> QED
    BY <2>2, <2>3 DEF FrozenWhenCalm
<1> QED
  BY <1>1, <1>2

(* Without overlap the number of the loaded documents plus one is free, so *)
(* the bytes written there are of nobody else, and the row that follows    *)
(* names who wrote them.                                                   *)
LEMMA NextBytes ==
  TypeOK /\ AllNumbered /\ OneAtATime /\ BytesWhenCalm /\ [Next]_vars => BytesWhenCalm'
<1> SUFFICES ASSUME TypeOK, AllNumbered, OneAtATime, BytesWhenCalm, [Next]_vars,
                    mode # "overlap"
             PROVE  BytesAsDeclared'
  BY ModeKept, NextTypes DEF BytesWhenCalm
<1> USE EvidenceAssumption
<1>1. docs \in Docs /\ store \in [DocId -> Party] /\ BytesAsDeclared
  BY DEF TypeOK, BytesWhenCalm
<1>2. ASSUME NEW s \in Requests, PutBytes(s) PROVE BytesAsDeclared'
  <2> DEFINE n == NextNumber(V(s))
  <2>1. /\ At(s, "loaded") /\ ~At(s, "idle") /\ n \in DocId /\ docs' = docs
        /\ store' = [store EXCEPT ![n] = P(s)]
    BY <1>2 DEF PutBytes, Open, Put, At
  <2>2. docs = V(s).docs
    BY <2>1, CalmView DEF UpToDate, At
  <2>3. Present(docs) = 1..(n - 1) /\ n - 1 \in Nat
    BY <1>1, <2>2, CountNumbered DEF AllNumbered, NextNumber
  <2>4. ~docs[n].present
    BY <2>1, <2>3 DEF Present, DocId
  <2> HIDE DEF n
  <2> QED
    BY <1>1, <2>1, <2>4 DEF BytesAsDeclared
<1>3. ASSUME NEW s \in Requests, InsertDocument(s) PROVE BytesAsDeclared'
  <2> DEFINE n == NextNumber(V(s))
  <2>1. At(s, "stored") /\ ~At(s, "idle") /\ store' = store
    BY <1>3 DEF InsertDocument, At
  <2>2. docs' = docs \/ docs' = [docs EXCEPT ![n] = NewDocument(P(s))]
    BY <1>3 DEF InsertDocument
  <2>3. store[n] = P(s)
    BY <2>1, CalmView DEF UpToDate
  <2>4. NewDocument(P(s)).by = P(s)
    BY DEF NewDocument, NoDocument
  <2> HIDE DEF n
  <2> QED
    BY <1>1, <2>1, <2>2, <2>3, <2>4 DEF BytesAsDeclared, Docs
<1>4. ASSUME store' = store,
             \A d \in DocId : docs'[d].present = docs[d].present /\ docs'[d].by = docs[d].by
      PROVE  BytesAsDeclared'
  BY <1>1, <1>4 DEF BytesAsDeclared
<1>5. ASSUME NEW s \in Requests, NEW d \in DocId, NEW r \in Responses,
             Acknowledge(s, d) \/ Respond(s, d, r)
      PROVE  BytesAsDeclared'
  BY <1>1, <1>4, <1>5 DEF Acknowledge, Respond, Docs, Document
<1>6. ASSUME NEW s \in Requests, NEW d \in DocId, Acknowledge(s, d) PROVE BytesAsDeclared'
  BY <1>1, <1>4, <1>6 DEF Acknowledge, Docs, Document
<1>7. ASSUME NEW s \in Requests, Admit(s) PROVE BytesAsDeclared'
  <2>1. store' = store /\ \E d \in DocId : docs' = [docs EXCEPT ![d].admitted = TRUE]
    BY <1>7, AdmitMoves DEF Admit
  <2> QED
    BY <1>1, <1>4, <2>1 DEF Docs, Document
<1>8. CASE docs' = docs /\ store' = store
  BY <1>4, <1>8
<1> QED
  BY <1>2, <1>3, <1>5, <1>6, <1>7, <1>8 DEF Next, PartyAct, Refuse, ReopenSubmission,
     DeclareReady, Consent, WithdrawToCourt, Resume, Steward, ClaimLock, EndPass, LockManifest,
     Load, Die, TtlElapses, vars

-----------------------------------------------------------------------------
(* The invariant, and what follows from it.                                *)

(* The invariant holds at the opening of a case.                           *)
LEMMA InitIInv == Init => IInv
<1> SUFFICES ASSUME Init PROVE IInv
  OBVIOUS
<1>1. TypeOK /\ InOrder /\ AllNumbered
  BY InitTypes, InitOrder, InitNumbered
<1>2. /\ row.started = "none" /\ row.status = "draft" /\ ~row.locked
      /\ \A s \in Requests : sess[s] = Idle
  BY DEF Init, Blank
<1>3. OneLocker /\ OneAtATime /\ FrozenWhenCalm
  BY <1>2 DEF OneLocker, OneAtATime, FrozenWhenCalm, Claiming, V, At, Idle, Blank
<1>4. BytesAsDeclared
  <2>1. PICK first \in EarlyDocument : docs = [Blank.docs EXCEPT ![1] = first]
    BY DEF Init
  <2>2. Blank.docs = [d \in DocId |-> NoDocument]
    BY DEF Blank, NoManifest
  <2>3. NoDocument.by = "claimant" /\ \A one \in EarlyDocument : one.by = "claimant"
    BY DEF EarlyDocument, NewDocument, NoDocument
  <2> QED
    BY <2>1, <2>2, <2>3 DEF Init, BytesAsDeclared
<1> QED
  BY <1>1, <1>3, <1>4 DEF IInv, BytesWhenCalm

(* Every step keeps the invariant.                                         *)
LEMMA NextIInv == IInv /\ [Next]_vars => IInv'
BY NextTypes, NextOrder, NextNumbered, NextLocker, NextCalm, NextFrozen, NextBytes DEF IInv

(* The invariant holds of every behaviour.                                 *)
LEMMA EvidenceInvariant == Spec => []IInv
BY InitIInv, NextIInv, PTL DEF Spec

(* A manifest is built once: two passes that found the lock legal, a lock  *)
(* that died half way and a claim taken again never replace one.           *)
THEOREM ManifestBuiltOnce == Spec => ManifestSealed
<1>1. IInv /\ [Next]_vars => [row.locked => row'.manifest = row.manifest /\ row'.locked]_vars
  BY ManifestKept, LockFindsNone DEF IInv
<1> QED
  BY <1>1, EvidenceInvariant, PTL DEF Spec, ManifestSealed

(* Where requests do not overlap, a locked case is complete, and its       *)
(* documents and consents stay as the manifest lists them.                 *)
THEOREM CaseFrozenWhenCalm == Spec => []FrozenWhenCalm
<1>1. IInv => FrozenWhenCalm
  BY DEF IInv
<1> QED
  BY <1>1, EvidenceInvariant, PTL

(* Where requests do not overlap, the bytes under a document's key are the *)
(* ones its row was made for.                                              *)
THEOREM BytesDeclaredWhenCalm == Spec => []BytesWhenCalm
<1>1. IInv => BytesWhenCalm
  BY DEF IInv
<1> QED
  BY <1>1, EvidenceInvariant, PTL

-----------------------------------------------------------------------------
(* Evidence implements Hearing.                                            *)

(* How far one document has come.                                          *)
PhaseOf(doc) ==
  CASE ~doc.present -> "absent"
    [] doc.present /\ doc.admitted -> "admitted"
    [] doc.present /\ ~doc.admitted /\ Answered(doc) -> "answered"
    [] OTHER -> IF doc.ack THEN "noticed" ELSE "presented"

(* The five phases.                                                        *)
LEMMA PhaseValues ==
  ASSUME NEW doc \in Document, DocInOrder(doc)
  PROVE  /\ PhaseOf(doc) \in Heard!Phase
         /\ ~doc.present <=> PhaseOf(doc) = "absent"
         /\ doc.present /\ ~doc.ack => PhaseOf(doc) = "presented"
         /\ doc.ack /\ doc.response = "pending" => PhaseOf(doc) = "noticed"
         /\ doc.response # "pending" /\ ~doc.admitted => PhaseOf(doc) = "answered"
         /\ doc.admitted <=> PhaseOf(doc) = "admitted"
<1>1. doc.response \in Response /\ doc.ack \in BOOLEAN /\ doc.admitted \in BOOLEAN
  BY DEF Document
<1>2. Answered(doc) <=> doc.response # "pending"
  BY <1>1 DEF Answered, DocInOrder, Response
<1> QED
  BY <1>1, <1>2 DEF PhaseOf, DocInOrder, Heard!Phase

(* The phases are those of the documents one by one, before a step and     *)
(* after it.                                                               *)
LEMMA PhasesByDocument ==
  /\ HearingPhase = [d \in DocId |-> PhaseOf(docs[d])]
  /\ HearingPhase' = [d \in DocId |-> PhaseOf(docs'[d])]
BY DEF HearingPhase, PhaseOf

(* A step that changes one document, by one phase or by none, is a step of *)
(* the hearing: a sealed case has none.                                    *)
LEMMA DocumentAdvances ==
  ASSUME IInv, [Next]_vars, NEW d \in DocId, NEW new,
         docs' = [docs EXCEPT ![d] = new], row' = row,
         \/ PhaseOf(new) = PhaseOf(docs[d])
         \/ PhaseOf(docs[d]) # "admitted" /\ PhaseOf(new) = Heard!After[PhaseOf(docs[d])]
  PROVE  [Heard!Next]_<<HearingPhase, row.locked /\ mode # "overlap">>
<1>1. docs \in Docs /\ mode' = mode
  BY ModeKept DEF IInv, TypeOK
<1>2. HearingPhase' = [HearingPhase EXCEPT ![d] = PhaseOf(new)]
  BY <1>1, PhasesByDocument DEF Docs
<1>3. HearingPhase[d] = PhaseOf(docs[d])
  BY PhasesByDocument
<1>4. CASE PhaseOf(new) = PhaseOf(docs[d])
  <2>1. HearingPhase' = HearingPhase
    BY <1>2, <1>3, <1>4, PhasesByDocument
  <2> QED
    BY <1>1, <2>1
<1>5. CASE /\ PhaseOf(docs[d]) # "admitted" /\ PhaseOf(new) = Heard!After[PhaseOf(docs[d])]
           /\ PhaseOf(new) # PhaseOf(docs[d])
  <2>1. docs' # docs
    BY <1>1, <1>5 DEF Docs
  <2>2. ~(row.locked /\ mode # "overlap")
    BY <2>1, SealedStill DEF IInv
  <2>3. Heard!Advance(d)
    BY <1>1, <1>2, <1>3, <1>5, <2>2 DEF Heard!Advance
  <2> QED
    BY <2>3 DEF Heard!Next
<1> QED
  BY <1>4, <1>5

(* The initial case is a hearing under way, not sealed.                    *)
LEMMA InitHearing == Init => Heard!Init
<1> SUFFICES ASSUME Init PROVE Heard!Init
  OBVIOUS
<1>1. \A d \in DocId : docs[d] \in Document /\ DocInOrder(docs[d])
  BY InitTypes, InitOrder DEF TypeOK, Docs, InOrder
<1>2. HearingPhase \in [DocId -> Heard!Phase]
  BY <1>1, PhaseValues, PhasesByDocument
<1>3. ~row.locked
  BY DEF Init, Blank
<1> QED
  BY <1>2, <1>3 DEF Heard!Init

(* Each act on a document is the next phase of the hearing, or repeats one *)
(* it has had.                                                             *)
LEMMA DocumentActs ==
  ASSUME IInv, [Next]_vars, NEW s \in Requests
  PROVE  /\ InsertDocument(s) => [Heard!Next]_<<HearingPhase, row.locked /\ mode # "overlap">>
         /\ \A d \in DocId : Acknowledge(s, d) =>
              [Heard!Next]_<<HearingPhase, row.locked /\ mode # "overlap">>
         /\ \A d \in DocId, r \in Responses : Respond(s, d, r) =>
              [Heard!Next]_<<HearingPhase, row.locked /\ mode # "overlap">>
         /\ Admit(s) => [Heard!Next]_<<HearingPhase, row.locked /\ mode # "overlap">>
<1> DEFINE Step == [Heard!Next]_<<HearingPhase, row.locked /\ mode # "overlap">>
<1>1. /\ docs \in Docs /\ V(s) \in View /\ V(s).docs \in Docs /\ P(s) \in Party
      /\ mode' = mode /\ InOrder
  BY ViewTypes, ModeKept DEF IInv, TypeOK
<1>2. \A d \in DocId : /\ docs[d] \in Document /\ DocInOrder(docs[d])
                       /\ Precedes(V(s).docs[d], docs[d])
  BY <1>1 DEF InOrder, Docs
<1>3. ASSUME docs' = docs, row' = row PROVE Step
  BY <1>1, <1>3, PhasesByDocument
<1> HIDE DEF Step
<1>4. ASSUME InsertDocument(s) PROVE Step
  <2> DEFINE n == NextNumber(V(s))
  <2>1. n \in DocId /\ row' = row
    BY <1>4 DEF InsertDocument, IInv, AllNumbered
  <2>2. CASE docs[n].present
    BY <1>3, <1>4, <2>1, <2>2 DEF InsertDocument
  <2>3. CASE ~docs[n].present
    <3>1. docs' = [docs EXCEPT ![n] = NewDocument(P(s))]
      BY <1>4, <2>3 DEF InsertDocument
    <3>2. PhaseOf(docs[n]) = "absent"
      BY <1>2, <2>1, <2>3, PhaseValues
    <3>3. /\ NewDocument(P(s)) \in Document /\ DocInOrder(NewDocument(P(s)))
          /\ NewDocument(P(s)).present /\ ~NewDocument(P(s)).ack
      BY <1>1, BlankTypes DEF NewDocument, NoDocument, Document, DocInOrder
    <3>4. PhaseOf(NewDocument(P(s))) = "presented"
      BY <3>3, PhaseValues
    <3>5. Heard!After["absent"] = "presented"
      BY DEF Heard!After
    <3> QED
      BY <2>1, <3>1, <3>2, <3>4, <3>5, DocumentAdvances DEF Step
  <2> QED
    BY <2>2, <2>3
<1>5. ASSUME NEW d \in DocId, Acknowledge(s, d) PROVE Step
  <2>1. /\ docs' = [docs EXCEPT ![d].ack = TRUE] /\ row' = row /\ docs[d].present
    BY <1>2, <1>5 DEF Acknowledge, Precedes
  <2> DEFINE new == [docs[d] EXCEPT !.ack = TRUE]
  <2>2. /\ docs' = [docs EXCEPT ![d] = new]
        /\ new \in Document /\ DocInOrder(new) /\ new.present /\ new.ack
        /\ new.response = docs[d].response /\ new.admitted = docs[d].admitted
    BY <1>1, <1>2, <2>1 DEF Document, DocInOrder, Answered
  <2> HIDE DEF new
  <2>3. Heard!After["presented"] = "noticed"
    BY DEF Heard!After
  <2>4. CASE docs[d].ack
    <3>1. docs' = docs
      BY <1>1, <1>2, <2>1, <2>4 DEF Docs, Document
    <3> QED
      BY <1>3, <2>1, <3>1
  <2>5. CASE ~docs[d].ack
    <3>1. PhaseOf(docs[d]) = "presented" /\ docs[d].response = "pending"
      BY <1>2, <2>1, <2>5, PhaseValues DEF DocInOrder
    <3>2. PhaseOf(new) = "noticed"
      BY <2>2, <3>1, PhaseValues
    <3> QED
      BY <2>1, <2>2, <2>3, <3>1, <3>2, DocumentAdvances DEF Step
  <2> QED
    BY <2>4, <2>5
<1>6. ASSUME NEW d \in DocId, NEW r \in Responses, Respond(s, d, r) PROVE Step
  <2>1. /\ docs' = docs \/ docs' = [docs EXCEPT ![d].response = r]
        /\ row' = row /\ docs[d].ack /\ r \in Response /\ r # "pending"
    BY <1>2, <1>6, EvidenceAssumption DEF Respond, Precedes
  <2> DEFINE new == [docs[d] EXCEPT !.response = r]
  <2>2. /\ new \in Document /\ DocInOrder(new) /\ new.response # "pending"
        /\ new.ack /\ new.admitted = docs[d].admitted
    BY <1>2, <2>1 DEF Document, DocInOrder, Answered, Response
  <2>3. docs' = docs \/ docs' = [docs EXCEPT ![d] = new]
    BY <2>1
  <2> HIDE DEF new
  <2>4. Heard!After["noticed"] = "answered"
    BY DEF Heard!After
  <2>5. CASE docs[d].response = "pending"
    <3>1. PhaseOf(docs[d]) = "noticed" /\ ~docs[d].admitted
      BY <1>2, <2>1, <2>5, PhaseValues DEF DocInOrder, Answered
    <3>2. PhaseOf(new) = "answered"
      BY <2>2, <3>1, PhaseValues
    <3> QED
      BY <1>3, <2>1, <2>3, <2>4, <3>1, <3>2, DocumentAdvances DEF Step
  <2>6. CASE docs[d].response # "pending"
    <3>1. PhaseOf(new) = PhaseOf(docs[d])
      BY <1>2, <2>2, <2>6, PhaseValues DEF Document
    <3> QED
      BY <1>3, <2>1, <2>3, <3>1, DocumentAdvances DEF Step
  <2> QED
    BY <2>5, <2>6
<1>7. ASSUME Admit(s) PROVE Step
  <2>1. PICK d \in DocId : /\ d \in AdmissibleDocuments(V(s).docs)
                           /\ docs' = [docs EXCEPT ![d].admitted = TRUE]
    BY <1>7, AdmitMoves DEF IInv
  <2>2. row' = row /\ Answered(V(s).docs[d])
    BY <1>7, <2>1 DEF Admit, AdmissibleDocuments
  <2>3. docs[d].ack /\ docs[d].response # "pending"
    BY <1>2, <2>2 DEF Precedes, Answered
  <2> DEFINE new == [docs[d] EXCEPT !.admitted = TRUE]
  <2>4. /\ docs' = [docs EXCEPT ![d] = new]
        /\ new \in Document /\ DocInOrder(new) /\ new.admitted
    BY <1>2, <2>1, <2>3 DEF Document, DocInOrder, Answered, Response
  <2> HIDE DEF new
  <2>5. Heard!After["answered"] = "admitted" /\ PhaseOf(new) = "admitted"
    BY <2>4, PhaseValues DEF Heard!After
  <2>6. PhaseOf(docs[d]) \in {"answered", "admitted"}
    BY <1>2, <2>3, PhaseValues DEF Document
  <2> QED
    BY <2>2, <2>4, <2>5, <2>6, DocumentAdvances DEF Step
<1> QED
  BY <1>4, <1>5, <1>6, <1>7 DEF Step

(* Every step is a step of the hearing or leaves it as it was: the lock of *)
(* a complete case seals it, where requests do not overlap.                *)
LEMMA NextHearing ==
  IInv /\ [Next]_vars => [Heard!Next]_<<HearingPhase, row.locked /\ mode # "overlap">>
<1> SUFFICES ASSUME IInv, [Next]_vars
             PROVE  [Heard!Next]_<<HearingPhase, row.locked /\ mode # "overlap">>
  OBVIOUS
<1>1. mode' = mode /\ TypeOK /\ OneAtATime
  BY ModeKept DEF IInv
<1>2. ASSUME NEW s \in Requests, LockManifest(s), mode # "overlap"
      PROVE  [Heard!Next]_<<HearingPhase, row.locked /\ mode # "overlap">>
  <2>1. row'.locked /\ docs' = docs /\ ContradictoryComplete(docs) /\ ~row.locked
    BY <1>1, <1>2, LockSealsCase, LockFindsNone DEF IInv
  <2>2. HearingPhase' = HearingPhase
    BY <2>1, PhasesByDocument
  <2>3. \A d \in DocId : docs[d] \in Document /\ DocInOrder(docs[d])
    BY DEF IInv, TypeOK, InOrder, Docs
  <2>4. \A d \in DocId : HearingPhase[d] = PhaseOf(docs[d])
    BY PhasesByDocument
  <2>5. \A d \in DocId : HearingPhase[d] \in {"absent", "admitted"}
    BY <2>1, <2>3, <2>4, PhaseValues DEF ContradictoryComplete, Present
  <2>6. \E d \in DocId : HearingPhase[d] = "admitted"
    BY <2>1, <2>3, <2>4, PhaseValues DEF ContradictoryComplete, Present
  <2>7. Heard!Seal
    BY <1>1, <1>2, <2>1, <2>2, <2>5, <2>6 DEF Heard!Seal
  <2> QED
    BY <2>7 DEF Heard!Next
<1>3. ASSUME NEW s \in Requests,
             \/ InsertDocument(s) \/ Admit(s)
             \/ \E d \in DocId : Acknowledge(s, d) \/ \E r \in Responses : Respond(s, d, r)
      PROVE  [Heard!Next]_<<HearingPhase, row.locked /\ mode # "overlap">>
  BY <1>3, DocumentActs
<1>4. CASE docs' = docs /\ \A s \in Requests : LockManifest(s) => mode = "overlap"
  <2>1. HearingPhase' = HearingPhase
    BY <1>4, PhasesByDocument
  <2>2. (row.locked /\ mode # "overlap")' <=> row.locked /\ mode # "overlap"
    BY <1>1, <1>4, ManifestKept
  <2> QED
    BY <2>1, <2>2
<1>5. ASSUME \A s \in Requests : ~(LockManifest(s) /\ mode # "overlap"),
             \A s \in Requests :
               ~(\/ InsertDocument(s) \/ Admit(s)
                 \/ \E d \in DocId : Acknowledge(s, d) \/ \E r \in Responses : Respond(s, d, r))
      PROVE  docs' = docs
  BY <1>5 DEF Next, PartyAct, Refuse, PutBytes, ReopenSubmission,
     DeclareReady, Consent, WithdrawToCourt, Resume, Steward, ClaimLock, EndPass, LockManifest,
     Load, Die, TtlElapses, vars
<1> QED
  BY <1>2, <1>3, <1>4, <1>5

(* Requests that overlap, stale views, claims and deaths implement the     *)
(* hearing: no document skips its notice or its answer, none goes back,    *)
(* and without overlap a sealed case never moves.                          *)
THEOREM EvidenceIsHearing == Spec => HearingSpec
BY InitHearing, NextHearing, EvidenceInvariant, PTL DEF Spec, HearingSpec, Heard!Spec

=============================================================================
