------------------------------ MODULE Evidence ------------------------------
(***************************************************************************)
(* One case from its opening to the lock of the manifest: the material the *)
(* parties present, the other party's notice and answer, the admission and *)
(* the lock by the steward, the parties' consent and their declarations    *)
(* that they have nothing more to present.                                 *)
(*                                                                         *)
(* A request reads the case once and decides on what it read.  Between its *)
(* commits others commit: the bytes of a document are written before its   *)
(* row, a PDF is parsed after the guards, the lock is claimed and only     *)
(* then is the manifest built.                                             *)
(***************************************************************************)
EXTENDS Naturals, FiniteSets

CONSTANTS
  Requests,      \* slots for HTTP requests in progress
  MaxRequests,   \* bound on the requests
  MaxDocs,       \* bound on the documents
  MaxFaults,     \* bound on crashes and on locks that raise
  Responses,     \* the answers to a document that the run enumerates
  Modes          \* how requests come, of Mode

Party == {"claimant", "respondent"}
Response == {"pending", "answered", "waived", "challenged"}

(* "adhered": both parties consented beforehand; "faulty": requests die;   *)
(* "overlap": requests interleave at every commit, otherwise one at a time.*)
Mode == {"adhered", "calm", "faulty", "overlap"}
DocId == 1..MaxDocs

ASSUME EvidenceAssumption ==
  /\ MaxRequests \in Nat /\ MaxDocs \in Nat \ {0} /\ MaxFaults \in Nat
  /\ Responses \subseteq Response \ {"pending"}
  /\ Modes \subseteq Mode

VARIABLES
  row,      \* the columns of the Case row
  docs,     \* the rows of documents, by their number in the case
  store,    \* the object store: whose bytes are under a document's key
  sess,     \* the requests: point, party and the view they loaded
  mode,     \* how requests come in this behaviour
  requests, faults

vars == <<row, docs, store, sess, mode, requests, faults>>

-----------------------------------------------------------------------------
(* The rows.                                                               *)

Document == [present : BOOLEAN, by : Party, ack : BOOLEAN,
             response : Response, admitted : BOOLEAN]

NoDocument == [present |-> FALSE, by |-> "claimant", ack |-> FALSE,
               response |-> "pending", admitted |-> FALSE]

NewDocument(p) == [NoDocument EXCEPT !.present = TRUE, !.by = p]

Docs == [DocId -> Document]

(* The manifest freezes the documents and the consents it was built from.  *)
Manifest == [docs : Docs, consent : [Party -> BOOLEAN]]

NoManifest == [docs |-> [d \in DocId |-> NoDocument],
               consent |-> [p \in Party |-> FALSE]]

Row == [status   : {"draft", "locking", "locked", "withdrawn"},
        started  : {"none", "fresh", "stale"},     \* processing_started_at
        consent  : [Party -> BOOLEAN],
        ready    : [Party -> BOOLEAN],              \* submission_ready
        manifest : Manifest,
        locked   : BOOLEAN]                         \* manifest_locked

View == [row : Row, docs : Docs]

Snapshot == [row |-> row, docs |-> docs]

Session == [pc : {"idle", "loaded", "stored", "added", "conduct", "claimed"},
            party : Party, view : View]

Blank == [row |-> [status |-> "draft", started |-> "none",
                   consent |-> [p \in Party |-> FALSE],
                   ready |-> [p \in Party |-> FALSE],
                   manifest |-> NoManifest, locked |-> FALSE],
          docs |-> NoManifest.docs]

Idle == [pc |-> "idle", party |-> "claimant", view |-> Blank]

Present(ds) == {d \in DocId : ds[d].present}

(* A party answers what the other presented.                               *)
Counterparty(doc) == IF doc.by = "claimant" THEN "respondent" ELSE "claimant"

-----------------------------------------------------------------------------
(* What the steward finds legal on a view of the case.                     *)

Answered(doc) == doc.ack /\ doc.response \in {"answered", "waived", "challenged"}

(* Mutant of AdmissibleDocuments: notice is enough.                        *)
AdmissibleOnNotice(ds) ==
  {d \in Present(ds) : ~ds[d].admitted /\ ds[d].ack}

AdmissibleDocuments(ds) ==
  {d \in Present(ds) : ~ds[d].admitted /\ Answered(ds[d])}

(* Mutant of ContradictoryComplete: the documents still open are skipped.  *)
ContradictoryOfAdmitted(ds) == \E d \in Present(ds) : Answered(ds[d]) /\ ds[d].admitted

(* contradictory.complete: every document answered and admitted.           *)
ContradictoryComplete(ds) ==
  /\ Present(ds) # {}
  /\ \A d \in Present(ds) : Answered(ds[d]) /\ ds[d].admitted

(* What the organizer and the judge retrieve.                              *)
Retrievable(ds) == {d \in Present(ds) : ds[d].admitted}

Complete(v) ==
  /\ \A p \in Party : v.row.consent[p] /\ v.row.ready[p]
  /\ ContradictoryComplete(v.docs)

LegalAdmit(v) == v.row.status # "withdrawn" /\ AdmissibleDocuments(v.docs) # {}

LegalLock(v) ==
  /\ v.row.status # "withdrawn"
  /\ AdmissibleDocuments(v.docs) = {}
  /\ ~v.row.locked
  /\ Complete(v)

-----------------------------------------------------------------------------
(* Requests.                                                               *)

V(s) == sess[s].view
P(s) == sess[s].party
At(s, point) == sess[s].pc = point
Finish(s) == sess' = [sess EXCEPT ![s] = Idle]
Goto(s, point, view) == sess' = [sess EXCEPT ![s].pc = point, ![s].view = view]

(* Unless requests overlap, one at a time is under way.                    *)
Turn(s) == mode # "overlap" => \A o \in Requests \ {s} : At(o, "idle")

Load(s) ==
  /\ Turn(s)
  /\ At(s, "idle")
  /\ requests < MaxRequests
  /\ requests' = requests + 1
  /\ \E p \in Party :
       sess' = [sess EXCEPT ![s] = [pc |-> "loaded", party |-> p, view |-> Snapshot]]
  /\ UNCHANGED <<row, docs, store, mode, faults>>

(* Any refusal of a route before it writes.                                *)
Refuse(s) ==
  /\ At(s, "loaded")
  /\ Finish(s)
  /\ UNCHANGED <<row, docs, store, mode, requests, faults>>

(* Mutant of Open: the lock is not looked at.                              *)
OpenWhateverLocked(s) == At(s, "loaded") /\ V(s).row.status # "withdrawn"

(* The guards of every act of a party before the lock.                     *)
Open(s) ==
  /\ At(s, "loaded")
  /\ V(s).row.status # "withdrawn"
  /\ ~V(s).row.locked

(* Mutant of NextNumber: off by one, the last document's number.           *)
LastNumber(v) == Cardinality(Present(v.docs))

(* The document's number is the count of the loaded documents plus one.    *)
NextNumber(v) == Cardinality(Present(v.docs)) + 1

(* The object store keeps the last bytes written under a key.              *)
Put(d, by) == [store EXCEPT ![d] = by]

(* add_document writes the bytes under the document's key first.           *)
PutBytes(s) ==
  /\ Open(s)
  /\ NextNumber(V(s)) \in DocId
  /\ store' = Put(NextNumber(V(s)), P(s))
  /\ Goto(s, "stored", V(s))
  /\ UNCHANGED <<row, docs, mode, requests, faults>>

(* Then the row; a number already taken violates the primary key (500).    *)
(* New material reopens the presentation of a party that, in the view, had *)
(* declared it over.                                                       *)
InsertDocument(s) ==
  /\ At(s, "stored")
  /\ LET d == NextNumber(V(s))
     IN  IF docs[d].present
         THEN Finish(s) /\ UNCHANGED docs
         ELSE /\ docs' = [docs EXCEPT ![d] = NewDocument(P(s))]
              /\ IF V(s).row.ready[P(s)] THEN Goto(s, "added", V(s)) ELSE Finish(s)
  /\ UNCHANGED <<row, store, mode, requests, faults>>

ReopenSubmission(s) ==
  /\ At(s, "added")
  /\ row' = [row EXCEPT !.ready[P(s)] = FALSE]
  /\ Finish(s)
  /\ UNCHANGED <<docs, store, mode, requests, faults>>

Acknowledge(s, d) ==
  /\ Open(s)
  /\ V(s).docs[d].present /\ P(s) = Counterparty(V(s).docs[d])
  /\ docs' = [docs EXCEPT ![d].ack = TRUE]
  /\ Finish(s)
  /\ UNCHANGED <<row, store, mode, requests, faults>>

(* An answer may be given again until the lock; it is followed by a pass   *)
(* of the steward on the same session.                                     *)
Respond(s, d, r) ==
  /\ Open(s)
  /\ V(s).docs[d].present /\ P(s) = Counterparty(V(s).docs[d])
  /\ V(s).docs[d].ack
  /\ docs' = IF V(s).docs[d].response = r THEN docs ELSE [docs EXCEPT ![d].response = r]
  /\ Goto(s, "conduct", [V(s) EXCEPT !.docs[d].response = r])
  /\ UNCHANGED <<row, store, mode, requests, faults>>

(* Mutant of DeclareReady: the declaration is recorded, nobody conducts.   *)
DeclareReadyAlone(s, ready) ==
  /\ Open(s)
  /\ row' = IF V(s).row.ready[P(s)] = ready THEN row ELSE [row EXCEPT !.ready[P(s)] = ready]
  /\ Finish(s)
  /\ UNCHANGED <<docs, store, mode, requests, faults>>

DeclareReady(s, ready) ==
  /\ Open(s)
  /\ row' = IF V(s).row.ready[P(s)] = ready THEN row ELSE [row EXCEPT !.ready[P(s)] = ready]
  /\ Goto(s, "conduct", [V(s) EXCEPT !.row.ready[P(s)] = ready])
  /\ UNCHANGED <<docs, store, mode, requests, faults>>

(* The consent, or its withdrawal, is recorded; nobody conducts the case.  *)
Consent(s, accepted) ==
  /\ mode # "adhered"
  /\ Open(s)
  /\ row' = IF V(s).row.consent[P(s)] = accepted THEN row
            ELSE [row EXCEPT !.consent[P(s)] = accepted]
  /\ Finish(s)
  /\ UNCHANGED <<docs, store, mode, requests, faults>>

(* withdraw-to-court, conditional on the status that was read.             *)
WithdrawToCourt(s) ==
  /\ At(s, "loaded")
  /\ V(s).row.status \notin {"locking", "withdrawn"}
  /\ row' = IF row.status = V(s).row.status
            THEN [row EXCEPT !.status = "withdrawn", !.started = "none"]
            ELSE row
  /\ Finish(s)
  /\ UNCHANGED <<docs, store, mode, requests, faults>>

(* Operations ask for a pass; after the lock it stands for every later one. *)
Resume(s) ==
  /\ At(s, "loaded")
  /\ V(s).row.status # "withdrawn"
  /\ Goto(s, "conduct", V(s))
  /\ UNCHANGED <<row, docs, store, mode, requests, faults>>

PartyAct(s) ==
  \/ Refuse(s) \/ PutBytes(s) \/ InsertDocument(s) \/ ReopenSubmission(s)
  \/ \E d \in DocId : Acknowledge(s, d) \/ \E r \in Responses : Respond(s, d, r)
  \/ \E b \in BOOLEAN : DeclareReady(s, b) \/ Consent(s, b)
  \/ WithdrawToCourt(s) \/ Resume(s)

-----------------------------------------------------------------------------
(* The steward.                                                            *)

(* One admission, in a commit of its own; the pass goes on after it.       *)
Admit(s) ==
  /\ At(s, "conduct")
  /\ LegalAdmit(V(s))
  /\ \E d \in AdmissibleDocuments(V(s).docs) :
       /\ docs' = [docs EXCEPT ![d].admitted = TRUE]
       /\ Goto(s, "conduct", [V(s) EXCEPT !.docs[d].admitted = TRUE])
  /\ UNCHANGED <<row, store, mode, requests, faults>>

(* Mutant of LockClaimMatches: the guard of the view is trusted.           *)
LockClaimAlways(v) == TRUE

(* claim_case_stage(lock): a claim of the view still running is busy, an   *)
(* abandoned one is claimed again, otherwise the row must be a draft.      *)
LockClaimMatches(v) ==
  IF v.row.status = "locking"
  THEN v.row.started # "fresh" /\ row.status = "locking"
  ELSE row.status = "draft"

(* The checks read the view; the claim refreshes it, and the manifest is   *)
(* built from what the refresh loaded.                                     *)
ClaimLock(s) ==
  /\ At(s, "conduct")
  /\ LegalLock(V(s))
  /\ LockClaimMatches(V(s))
  /\ row' = [row EXCEPT !.status = "locking", !.started = "fresh"]
  /\ Goto(s, "claimed", [row |-> row', docs |-> docs])
  /\ UNCHANGED <<docs, store, mode, requests, faults>>

(* A 409, a lock already made, or nothing the steward may do: wait, hold.  *)
EndPass(s) ==
  /\ At(s, "conduct")
  /\ ~LegalAdmit(V(s))
  /\ ~(LegalLock(V(s)) /\ LockClaimMatches(V(s)))
  /\ Finish(s)
  /\ UNCHANGED <<row, docs, store, mode, requests, faults>>

LockManifest(s) ==
  /\ At(s, "claimed")
  /\ row' = [row EXCEPT !.status = "locked", !.locked = TRUE,
                        !.manifest = [docs |-> V(s).docs, consent |-> V(s).row.consent]]
  /\ Finish(s)
  /\ UNCHANGED <<docs, store, mode, requests, faults>>

Steward(s) == Admit(s) \/ ClaimLock(s) \/ EndPass(s) \/ LockManifest(s)

-----------------------------------------------------------------------------
(* The environment.                                                        *)

(* A request dies: a crash, or a manifest that cannot be built (an unknown *)
(* framework), which leaves the claim behind.                              *)
Die(s) ==
  /\ mode = "faulty"
  /\ ~At(s, "idle")
  /\ faults < MaxFaults
  /\ faults' = faults + 1
  /\ Finish(s)
  /\ UNCHANGED <<row, docs, store, mode, requests>>

(* PROCESSING_TTL goes by; no lock in progress takes that long.            *)
TtlElapses ==
  /\ row.started = "fresh"
  /\ row.status = "locking"
  /\ \A s \in Requests : ~At(s, "claimed")
  /\ row' = [row EXCEPT !.started = "stale"]
  /\ UNCHANGED <<docs, store, sess, mode, requests, faults>>

(* A case under way: at most one document so far, and not yet complete.    *)
EarlyDocument ==
  {NoDocument, NewDocument("claimant"), [NewDocument("claimant") EXCEPT !.ack = TRUE],
   [NewDocument("claimant") EXCEPT !.ack = TRUE, !.response = "answered", !.admitted = TRUE]}

Init ==
  /\ mode \in Modes
  /\ \E consent, ready \in [Party -> BOOLEAN], first \in EarlyDocument :
       /\ row = [Blank.row EXCEPT !.consent = consent, !.ready = ready]
       /\ docs = [Blank.docs EXCEPT ![1] = first]
       /\ mode = "adhered" => \A p \in Party : consent[p]
  /\ ~LegalLock(Snapshot)
  /\ store = [d \in DocId |-> "claimant"]
  /\ sess = [s \in Requests |-> Idle]
  /\ requests = 0
  /\ faults = 0

Next ==
  \/ \E s \in Requests : Load(s) \/ PartyAct(s) \/ Steward(s) \/ Die(s)
  \/ TtlElapses

Spec == Init /\ [][Next]_vars

(* A request that has started ends.                                        *)
Fairness == \A s \in Requests : WF_vars(PartyAct(s)) /\ WF_vars(Steward(s))

FairSpec == Spec /\ Fairness

-----------------------------------------------------------------------------
TypeOK ==
  /\ row \in Row /\ docs \in Docs
  /\ store \in [DocId -> Party]
  /\ sess \in [Requests -> Session]
  /\ mode \in Modes
  /\ requests \in 0..MaxRequests /\ faults \in 0..MaxFaults

(* "Nenhum material entra silenciosamente na decisao" (README): what is    *)
(* admitted, and what the manifest lists as admitted, had been noticed and *)
(* answered, from however old a view the steward admitted it.              *)
AdmittedWasAnswered ==
  \A d \in DocId :
    /\ docs[d].admitted => Answered(docs[d])
    /\ row.manifest.docs[d].admitted => Answered(row.manifest.docs[d])

(* A manifest is built once: two passes that found the lock legal, a lock  *)
(* that died half way and a claim taken again never replace one.           *)
ManifestSealed == [][row.locked => row'.manifest = row.manifest /\ row'.locked]_vars

(* When requests do not overlap, the case is locked only complete, and the *)
(* documents and consents stay as the manifest lists them.                 *)
FrozenWhenCalm ==
  mode # "overlap" /\ row.locked =>
    /\ ContradictoryComplete(row.manifest.docs)
    /\ \A p \in Party : row.manifest.consent[p]
    /\ docs = row.manifest.docs
    /\ Retrievable(docs) = Present(row.manifest.docs)
    /\ row.consent = row.manifest.consent

(* When requests do not overlap, the bytes under a document's key are the  *)
(* ones its row was made for; and every variable keeps its type.           *)
BytesAsDeclared == \A d \in DocId : docs[d].present => store[d] = docs[d].by

BytesWhenCalm == TypeOK /\ (mode # "overlap" => BytesAsDeclared)

(* How far a document has come, and whether the case is sealed: under      *)
(* overlap the lock does not seal it (FrozenWhenCalm).                     *)
HearingPhase ==
  [d \in DocId |->
     CASE ~docs[d].present -> "absent"
       [] docs[d].present /\ docs[d].admitted -> "admitted"
       [] docs[d].present /\ ~docs[d].admitted /\ Answered(docs[d]) -> "answered"
       [] OTHER -> IF docs[d].ack THEN "noticed" ELSE "presented"]

Heard == INSTANCE Hearing WITH Materials <- DocId, phase <- HearingPhase,
                               sealed <- (row.locked /\ mode # "overlap")

(* Requests that overlap, stale views, claims and deaths implement that    *)
(* hearing: no document skips its notice or its answer, none goes back,    *)
(* and without overlap a sealed case never moves.                          *)
HearingSpec == Heard!Spec

LockWaits == row.status = "draft" /\ LegalLock(Snapshot)

(* When both parties consented beforehand, the declaration or the answer   *)
(* that completes the case has the steward lock it.                        *)
AdheredLocks == (mode = "adhered" /\ LockWaits) ~> ~LockWaits

-----------------------------------------------------------------------------
(* What the code says and does not keep.                                   *)

(* repository.py:820: the steward locks the case when the declarations and *)
(* the contradictory are there.  A consent that comes last calls nobody.   *)
StewardLocks == LockWaits ~> ~LockWaits

=============================================================================
