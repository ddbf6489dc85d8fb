------------------------------ MODULE AuditTrail ------------------------------
(***************************************************************************)
(* The audit trail of one case (core/audit.py, repository.append_audit):   *)
(* each act is chained by hash to the last event that its session sees,    *)
(* the database numbers the events, and an attestation is issued only on a *)
(* trail that verifies, whose head and length it quotes (routes/           *)
(* attestation.py).  Sessions append at once: between the read of the last *)
(* event and the commit others read and commit.                            *)
(***************************************************************************)
EXTENDS Excerpts

CONSTANTS
    Writers,        \* sessions: requests, jobs, the purge of documents
    MaxEvents       \* bound: numbers the database gives

ASSUME AuditAssumption == MaxEvents \in Nat \ {0}

VARIABLES
    trail,          \* the committed events
    writing,        \* of each session: the events it has flushed, not committed
    previous,       \* of each session: the event it read as the last, or Unread
    given,          \* the numbers given so far; a rollback gives none back
    engine,         \* "postgresql" or "sqlite"
    attested,       \* the head and the length that the attestation quotes
    crossed         \* history: a session read while another was appending
auditVars == <<trail, writing, previous, given, engine, attested, crossed>>

Unread == -1
NoEvent == 0        \* previous_hash of the first event is empty
Number == 1..MaxEvents

(* An event is known by its number, and the hash of an event by its event. *)
(* saw is history: the events that its session saw when it was written.    *)
AuditEvent == [id : Number, prev : Number \cup {NoEvent}, saw : SUBSET Number]
NotAttested == [head |-> NoEvent, length |-> 0]

AuditTypeOK ==
    /\ trail \subseteq AuditEvent
    /\ writing \in [Writers -> SUBSET AuditEvent]
    /\ previous \in [Writers -> Number \cup {NoEvent, Unread}]
    /\ given \in 0..MaxEvents /\ engine \in {"postgresql", "sqlite"}
    /\ attested \in [head : Number \cup {NoEvent}, length : 0..MaxEvents]
    /\ crossed \in BOOLEAN

AuditInit ==
    /\ trail = {} /\ writing = [w \in Writers |-> {}]
    /\ previous = [w \in Writers |-> Unread]
    /\ given = 0 /\ engine \in {"postgresql", "sqlite"}
    /\ attested = NotAttested /\ crossed = FALSE

NumbersOf(events) == {e.id : e \in events}
LastOf(events) == IF events = {} THEN NoEvent
                  ELSE CHOOSE n \in NumbersOf(events) : \A m \in NumbersOf(events) : m <= n

(* A session sees what is committed and what it has flushed itself. *)
Seen(w) == trail \cup writing[w]
Appending(w) == previous[w] # Unread \/ writing[w] # {}

-----------------------------------------------------------------------------
(* append_audit: the last event is read... *)
ReadPrevious(w) ==
    /\ previous[w] = Unread
    /\ previous' = [previous EXCEPT ![w] = LastOf(Seen(w))]
    /\ crossed' = (crossed \/ \E o \in Writers \ {w} : Appending(o))
    /\ UNCHANGED <<trail, writing, given, engine, attested>>

(* ... and the new one is flushed.  SQLite lets one session at a time write *)
(* and numbers after the last row there is, PostgreSQL from a sequence.    *)
NextNumberOf(w) == IF engine = "sqlite" THEN LastOf(Seen(w)) + 1 ELSE given + 1
FlushEvent(w) ==
    /\ previous[w] # Unread
    /\ engine = "sqlite" => \A o \in Writers \ {w} : writing[o] = {}
    /\ NextNumberOf(w) \in Number
    /\ writing' = [writing EXCEPT ![w] = @ \cup
           {[id |-> NextNumberOf(w), prev |-> previous[w], saw |-> NumbersOf(Seen(w))]}]
    /\ given' = IF NextNumberOf(w) > given THEN NextNumberOf(w) ELSE given
    /\ previous' = [previous EXCEPT ![w] = Unread]
    /\ UNCHANGED <<trail, engine, attested, crossed>>

(* The act and the events of its transaction are committed, or undone. *)
CommitEvents(w) ==
    /\ writing[w] # {} /\ previous[w] = Unread
    /\ trail' = trail \cup writing[w]
    /\ writing' = [writing EXCEPT ![w] = {}]
    /\ UNCHANGED <<previous, given, engine, attested, crossed>>

Rollback(w) ==
    /\ Appending(w)
    /\ writing' = [writing EXCEPT ![w] = {}]
    /\ previous' = [previous EXCEPT ![w] = Unread]
    /\ UNCHANGED <<trail, given, engine, attested, crossed>>

-----------------------------------------------------------------------------
(* verify_audit_chain, over the events by number. *)
Log == [i \in 1..Cardinality(NumbersOf(trail)) |->
            CHOOSE e \in trail : e.id = Nth(NumbersOf(trail), i)]

(* Mutant: each event names some earlier one. *)
VerifyEarlier(log) ==
    \A i \in DOMAIN log : log[i].prev \in {NoEvent} \cup {log[j].id : j \in 1..(i - 1)}

(* Each event names the one before it, the first names none. *)
VerifyAuditChain(log) ==
    \A i \in DOMAIN log : log[i].prev = IF i = 1 THEN NoEvent ELSE log[i - 1].id

(* issue_attestation: a trail that does not verify is refused (409). *)
AttestTrail ==
    /\ attested = NotAttested /\ trail # {}
    /\ VerifyAuditChain(Log)
    /\ attested' = [head |-> LastOf(trail), length |-> Cardinality(trail)]
    /\ UNCHANGED <<trail, writing, previous, given, engine, crossed>>

AuditNext ==
    \/ \E w \in Writers : ReadPrevious(w) \/ FlushEvent(w) \/ CommitEvents(w) \/ Rollback(w)
    \/ AttestTrail

AuditSpec == AuditInit /\ [][AuditNext]_auditVars

-----------------------------------------------------------------------------
(* A trail that verifies is a serial history: each act was recorded by a   *)
(* session that saw every act before it, however sessions interleave and   *)
(* whatever numbers the database gave; and it still has, at the length the *)
(* attestation quotes, the head the attestation quotes.  Sessions that do  *)
(* not append at once always leave a trail that verifies.                  *)
AuditInv ==
    /\ AuditTypeOK
    /\ VerifyAuditChain(Log) =>
         /\ \A i \in DOMAIN Log : Log[i].saw = {Log[j].id : j \in 1..(i - 1)}
         /\ attested # NotAttested => /\ attested.length \in DOMAIN Log
                                      /\ Log[attested.length].id = attested.head
    /\ ~crossed => VerifyAuditChain(Log)
=============================================================================
