---------------------------- MODULE Notifications ----------------------------
(***************************************************************************)
(* The queue of transactional e-mails (notifications/outbox.py, worker.py, *)
(* models.EmailOutbox): a notice is queued in the transaction of the act   *)
(* that causes it, reminders are queued by a scan under a key that names   *)
(* the fact, and several workers send, retry and give up.  An account may  *)
(* be erased meanwhile (erase_for_user) and old rows are purged.           *)
(***************************************************************************)
EXTENDS NoticeRules

CONSTANTS
    Facts,          \* the events and reminders of the instance: [kind, event]
    Workers,        \* replicas that run a NotificationWorker
    MaxAttempts,    \* MAX_ATTEMPTS
    MaxMishaps,     \* bound: deaths of workers and retries asked from the panel
    Together        \* bound: facts of one behaviour

ASSUME NotificationsAssumption ==
    /\ \A f \in Facts : f.kind \in {"act", "reminder"}
    /\ MaxAttempts \in Nat \ {0} /\ MaxMishaps \in Nat /\ Together \in Nat

VARIABLES
    account,    \* of each party: "unverified", "active", "erased"
    fact,       \* of each fact: "ahead", "holds", "past"
    draft,      \* acts whose transaction has read its recipients, not committed
    box,        \* the rows, by deduplication key
    sender,     \* of each worker: the pass it is in
    letters,    \* history: letters delivered to the person, by key (two stand for more)
    smooth,     \* FALSE in a behaviour with crashes, late claims and stale clicks
    smtp,       \* email_enabled
    mishaps     \* bound counter
noticeVars == <<account, fact, draft, box, sender, letters, smooth, smtp, mishaps>>

(* A deduplication key: the fact and the person it is told. *)
Keys == UNION {{f} \X (RolesTold(f.event) \cap Parties) : f \in Facts}
Row == [status : {"pending", "sending", "sent", "logged", "failed"},
        attempts : 0..MaxAttempts,
        waits : BOOLEAN,    \* next_attempt_at is ahead
        aged : BOOLEAN,     \* claimed_at is older than CLAIM_TTL
        own : BOOLEAN]      \* to_email and body still are the person's
NoRow == [status |-> "none", attempts |-> 0, waits |-> FALSE, aged |-> FALSE, own |-> FALSE]
Resting == [due |-> {}, key |-> <<>>, own |-> FALSE, attempts |-> 0]

NoticesTypeOK ==
    /\ account \in [Parties -> {"unverified", "active", "erased"}]
    /\ fact \in [Facts -> {"ahead", "holds", "past"}]
    /\ draft \in [Facts -> SUBSET Parties]
    /\ box \in [Keys -> Row \cup {NoRow}]
    /\ sender \in [Workers -> [due : SUBSET Keys, key : Keys \cup {<<>>},
                               own : BOOLEAN, attempts : 0..MaxAttempts]]
    /\ letters \in [Keys -> 0..2]
    /\ smooth \in BOOLEAN /\ smtp \in BOOLEAN /\ mishaps \in 0..MaxMishaps

NoticesInit ==
    /\ account \in [Parties -> {"unverified", "active"}]
    /\ fact \in {g \in [Facts -> {"ahead", "past"}] :
                    Cardinality({f \in Facts : g[f] = "ahead"}) <= Together}
    /\ draft = [f \in Facts |-> {}]
    /\ box = [k \in Keys |-> NoRow]
    /\ sender = [w \in Workers |-> Resting]
    /\ letters = [k \in Keys |-> 0]
    /\ smooth \in BOOLEAN /\ smtp \in BOOLEAN
    /\ mishaps = 0

-----------------------------------------------------------------------------
(***************************************************************************)
(* Queueing.                                                               *)
(***************************************************************************)
(* _recipients: the members in the roles told that can be reached. *)
Recipients(f) == {p \in RolesTold(f.event) \cap Parties : account[p] = "active"}

(* enqueue: a row per recipient, none where the key already has one. *)
NewRow == [status |-> "pending", attempts |-> 0, waits |-> FALSE, aged |-> FALSE, own |-> TRUE]
Enqueue(f, people) ==
    box' = [k \in Keys |-> IF k[1] = f /\ k[2] \in people /\ box[k] = NoRow
                           THEN NewRow ELSE box[k]]

(* on_audit_event: the recipients are read in the transaction of the act... *)
Act(f) ==
    /\ f.kind = "act" /\ fact[f] = "ahead"
    /\ fact' = [fact EXCEPT ![f] = "holds"]
    /\ draft' = [draft EXCEPT ![f] = Recipients(f)]
    /\ UNCHANGED <<account, box, sender, letters, smooth, smtp, mishaps>>

(* ... and the rows exist from its commit. *)
CommitAct(f) ==
    /\ f.kind = "act" /\ fact[f] = "holds"
    /\ fact' = [fact EXCEPT ![f] = "past"]
    /\ draft' = [draft EXCEPT ![f] = {}]
    /\ Enqueue(f, draft[f])
    /\ UNCHANGED <<account, sender, letters, smooth, smtp, mishaps>>

(* The fact of a reminder starts to hold, or stops. *)
FactMoves(f) ==
    /\ f.kind = "reminder"
    /\ \/ fact[f] = "ahead" /\ fact' = [fact EXCEPT ![f] = "holds"]
       \/ fact[f] = "holds" /\ fact' = [fact EXCEPT ![f] = "past"]
    /\ UNCHANGED <<account, draft, box, sender, letters, smooth, smtp, mishaps>>

(* scan_reminders: one transaction; the unique key of the row undoes the   *)
(* scan of a replica that loses the race, so a scan is one step.           *)
Scan(f) ==
    /\ f.kind = "reminder" /\ fact[f] = "holds"
    /\ Enqueue(f, Recipients(f))
    /\ UNCHANGED <<account, fact, draft, sender, letters, smooth, smtp, mishaps>>

-----------------------------------------------------------------------------
(***************************************************************************)
(* dispatch_pending: release the stale claims, take the due rows, then     *)
(* claim, send and settle them one at a time.                              *)
(***************************************************************************)
(* Mutant: no claim is ever released. *)
ReleaseNone(b) == b

Release(b) == [k \in Keys |-> IF b[k].status = "sending" /\ b[k].aged
                              THEN [b[k] EXCEPT !.status = "pending"] ELSE b[k]]

Due(b) == {k \in Keys : b[k].status = "pending" /\ ~b[k].waits}

StartPass(w) ==
    /\ sender[w] = Resting
    /\ Due(Release(box)) # {}
    /\ box' = Release(box)
    /\ sender' = [sender EXCEPT ![w].due = Due(Release(box))]
    /\ UNCHANGED <<account, fact, draft, letters, smooth, smtp, mishaps>>

(* Mutant: the claim takes a row that another worker holds. *)
ClaimTakesAnyway(k) == box[k].status \in {"pending", "sending"}

(* The conditional UPDATE of the claim: it matches a row still pending. *)
ClaimTakes(k) == box[k].status = "pending"

(* Claimed, the row is read again; without SMTP it is settled as logged. *)
Claim(w, k) ==
    /\ k \in sender[w].due /\ sender[w].key = <<>>
    /\ IF ~ClaimTakes(k)
       THEN /\ sender' = [sender EXCEPT ![w].due = @ \ {k}]
            /\ UNCHANGED box
       ELSE IF ~smtp
       THEN /\ sender' = [sender EXCEPT ![w].due = @ \ {k}]
            /\ box' = [box EXCEPT ![k].status = "logged", ![k].aged = FALSE]
       ELSE /\ sender' = [sender EXCEPT ![w].due = @ \ {k}, ![w].key = k,
                                        ![w].own = box[k].own,
                                        ![w].attempts = box[k].attempts]
            /\ box' = [box EXCEPT ![k].status = "sending", ![k].aged = FALSE]
    /\ UNCHANGED <<account, fact, draft, letters, smooth, smtp, mishaps>>

Tried(w) == IF sender[w].attempts < MaxAttempts THEN sender[w].attempts + 1 ELSE MaxAttempts

(* The worker writes the row it holds; one that was purged meanwhile undoes *)
(* the write and ends the pass.                                            *)
Settle(w, row) ==
    LET k == sender[w].key IN
    IF box[k] = NoRow
    THEN sender' = [sender EXCEPT ![w] = Resting] /\ UNCHANGED box
    ELSE /\ sender' = [sender EXCEPT ![w].key = <<>>, ![w].own = FALSE, ![w].attempts = 0]
         /\ box' = [box EXCEPT ![k] = row]

(* The SMTP server takes the letter: the row is written whatever became of it. *)
Sent(w) ==
    /\ sender[w].key # <<>>
    /\ LET k == sender[w].key IN
       /\ Settle(w, [box[k] EXCEPT !.status = "sent", !.attempts = Tried(w)])
       /\ letters' = [letters EXCEPT ![k] = IF sender[w].own /\ @ < 2 THEN @ + 1 ELSE @]
    /\ UNCHANGED <<account, fact, draft, smooth, smtp, mishaps>>

(* It does not: the row waits for another attempt, or has had its last. *)
AfterFailure(row, tried) ==
    IF tried >= MaxAttempts
    THEN [row EXCEPT !.status = "failed", !.attempts = tried, !.aged = FALSE]
    ELSE [row EXCEPT !.status = "pending", !.attempts = tried, !.waits = TRUE, !.aged = FALSE]

NotSent(w) ==
    /\ sender[w].key # <<>>
    /\ Settle(w, AfterFailure(box[sender[w].key], Tried(w)))
    /\ UNCHANGED <<account, fact, draft, letters, smooth, smtp, mishaps>>

(* The worker dies and its thread starts again with the process. *)
WorkerDies(w) ==
    /\ ~smooth /\ sender[w] # Resting /\ mishaps < MaxMishaps
    /\ sender' = [sender EXCEPT ![w] = Resting]
    /\ mishaps' = mishaps + 1
    /\ UNCHANGED <<account, fact, draft, box, letters, smooth, smtp>>

(* Time: a waiting row falls due; a claim outlives CLAIM_TTL.  While all   *)
(* goes well a claim is five minutes old only if its worker is dead.       *)
RetryDue(k) ==
    /\ box[k].waits
    /\ box' = [box EXCEPT ![k].waits = FALSE]
    /\ UNCHANGED <<account, fact, draft, sender, letters, smooth, smtp, mishaps>>

ClaimAges(k) ==
    /\ ~smooth /\ box[k].status = "sending" /\ ~box[k].aged
    /\ box' = [box EXCEPT ![k].aged = TRUE]
    /\ UNCHANGED <<account, fact, draft, sender, letters, smooth, smtp, mishaps>>

-----------------------------------------------------------------------------
(***************************************************************************)
(* The operation panel, erasure and purge.                                 *)
(***************************************************************************)
(* admin_retry_email, requeue: the status it read may be stale by the time *)
(* it writes, when the row has been claimed in between.                    *)
Requeue(k) ==
    /\ mishaps < MaxMishaps
    /\ box[k].status \in {"failed", "logged", "pending"} \cup (IF smooth THEN {} ELSE {"sending"})
    /\ box' = [box EXCEPT ![k] = [@ EXCEPT !.status = "pending", !.attempts = 0,
                                           !.waits = FALSE, !.aged = FALSE]]
    /\ mishaps' = mishaps + 1
    /\ UNCHANGED <<account, fact, draft, sender, letters, smooth, smtp>>

(* Mutant: the row that is being sent is left as it is. *)
ScrubAtRest(row) ==
    IF row.status \in {"none", "sending"} THEN row
    ELSE [row EXCEPT !.own = FALSE, !.status = IF @ = "pending" THEN "failed" ELSE @]

(* erase_for_user: the address and the text go, the row stays. *)
Scrub(row) ==
    IF row = NoRow THEN row
    ELSE [row EXCEPT !.own = FALSE,
                     !.status = IF @ \in {"pending", "sending"} THEN "failed" ELSE @]

(* anonymize_user.  While all goes well no act is between the read of its  *)
(* recipients and its commit.                                              *)
Erase(p) ==
    /\ account[p] # "erased"
    /\ smooth => \A f \in Facts : draft[f] = {}
    /\ account' = [account EXCEPT ![p] = "erased"]
    /\ box' = [k \in Keys |-> IF k[2] = p THEN Scrub(box[k]) ELSE box[k]]
    /\ UNCHANGED <<fact, draft, sender, letters, smooth, smtp, mishaps>>

VerifyEmail(p) ==
    /\ account[p] = "unverified"
    /\ account' = [account EXCEPT ![p] = "active"]
    /\ UNCHANGED <<fact, draft, box, sender, letters, smooth, smtp, mishaps>>

(* purge_delivered.  While all goes well a row outlives the fact it tells:  *)
(* the retention is longer than the window of every reminder but one, the  *)
(* material without an answer.                                             *)
Purge(k) ==
    /\ box[k].status \in {"sent", "logged"}
    /\ smooth => fact[k[1]] = "past"
    /\ box' = [box EXCEPT ![k] = NoRow]
    /\ UNCHANGED <<account, fact, draft, sender, letters, smooth, smtp, mishaps>>

Sending(w) == StartPass(w) \/ (\E k \in Keys : Claim(w, k)) \/ Sent(w) \/ NotSent(w)

NoticesNext ==
    \/ \E f \in Facts : Act(f) \/ CommitAct(f) \/ FactMoves(f) \/ Scan(f)
    \/ \E w \in Workers : StartPass(w) \/ Sent(w) \/ NotSent(w) \/ WorkerDies(w)
    \/ \E w \in Workers, k \in Keys : Claim(w, k)
    \/ \E k \in Keys : RetryDue(k) \/ ClaimAges(k) \/ Requeue(k) \/ Purge(k)
    \/ \E p \in Parties : Erase(p) \/ VerifyEmail(p)

(* Every worker keeps passing, the server answers, time passes. *)
NoticesFairness ==
    /\ \A w \in Workers : WF_noticeVars(Sending(w))
    /\ \A k \in Keys : WF_noticeVars(RetryDue(k) \/ ClaimAges(k))

NoticesSpec == NoticesInit /\ [][NoticesNext]_noticeVars /\ NoticesFairness

-----------------------------------------------------------------------------
(***************************************************************************)
(* Properties.                                                             *)
(***************************************************************************)
(* "O mesmo fato nunca gera dois e-mails para a mesma pessoa" (rules.py    *)
(* deliver_notice): with two workers over one queue, retries and a retry   *)
(* asked from the panel, no fact reaches a person twice as long as no      *)
(* claim outlives its TTL.                                                 *)
NoticesInv ==
    /\ NoticesTypeOK
    /\ smooth => \A k \in Keys : letters[k] <= 1

(* After the erasure of an account no worker takes up a letter to its      *)
(* address, not even the retry of one that was being sent when the account *)
(* was erased.                                                             *)
TakesUpOwn(w) == sender[w].key = <<>> /\ sender'[w].key # <<>> /\ sender'[w].own
ErasedUnclaimed ==
    [][\A w \in Workers : smooth /\ TakesUpOwn(w) =>
           account[sender'[w].key[2]] # "erased"]_noticeVars

(* A notice in the queue is sent, logged, given up or erased in the end,   *)
(* whatever worker dies while sending it.                                  *)
NoticesSettle ==
    \A k \in Keys : box[k].status \in {"pending", "sending"}
                    ~> box[k].status \notin {"pending", "sending"}
=============================================================================
