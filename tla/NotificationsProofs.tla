-------------------------- MODULE NotificationsProofs --------------------------
(***************************************************************************)
(* Theorems about Notifications, for any facts, any number of workers and  *)
(* any limits: no fact reaches a person twice while no claim outlives its  *)
(* TTL, and no letter to an erased account is taken up.                    *)
(***************************************************************************)
EXTENDS Notifications, TLAPS

-----------------------------------------------------------------------------
(* The inductive invariant, of the behaviours in which all goes well.      *)

Holds(w, k) == sender[w].key = k
Past(k) == fact[k[1]] = "past"

(* No claim is ever stale.                                                 *)
NoneAged == \A k \in Keys : ~box[k].aged

(* One worker at most holds the letter itself, and only before it is       *)
(* delivered; a row that is still the person's is then marked as being     *)
(* sent, so that nobody else claims it.  The other holders hold what was   *)
(* left of a row after the erasure.                                        *)
OneHolder ==
    \A k \in Keys, v, w \in Workers :
        Holds(v, k) /\ Holds(w, k) /\ sender[v].own /\ sender[w].own => v = w
HeldWell ==
    \A k \in Keys, w \in Workers : Holds(w, k) =>
        /\ box[k] = NoRow => Past(k)
        /\ sender[w].own => letters[k] = 0 /\ (box[k].own => box[k].status = "sending")
        /\ ~sender[w].own => ~box[k].own

(* A letter once delivered can be neither claimed nor queued again.        *)
Delivered ==
    \A k \in Keys :
        /\ letters[k] <= 1
        /\ letters[k] = 1 => /\ box[k] = NoRow => Past(k)
                             /\ box[k].own => box[k].status = "sent"

(* Nothing in the queue, or about to enter it, is an erased person's.      *)
NothingErased ==
    /\ \A k \in Keys : box[k].own => account[k[2]] # "erased"
    /\ \A f \in Facts : \A p \in draft[f] : account[p] # "erased"

Well == NoneAged /\ OneHolder /\ HeldWell /\ Delivered /\ NothingErased
NoticesIInv == NoticesTypeOK /\ (smooth => Well)


Slot == [due : SUBSET Keys, key : Keys \cup {<<>>}, own : BOOLEAN, attempts : 0..MaxAttempts]

-----------------------------------------------------------------------------
(* The parts of the state.                                                 *)

(* A key is a fact and a party, and never the empty hand of a worker.      *)
LEMMA KeyParts ==
    \A k \in Keys : k[1] \in Facts /\ k[2] \in Parties /\ k # <<>>
BY DEF Keys

(* A row is missing exactly when its status says so, and what the queue    *)
(* does to a row gives a row.                                              *)
LEMMA Rows ==
    /\ \A r \in Row : r # NoRow /\ r.status # "none"
    /\ NoRow.status = "none" /\ NoRow.own = FALSE /\ NoRow.aged = FALSE /\ NoRow.waits = FALSE
    /\ NewRow \in Row
    /\ \A r \in Row, s \in {"pending", "sending", "sent", "logged", "failed"} :
          [r EXCEPT !.status = s] \in Row
<1>1. \A r \in Row : r.status # "none"
    BY DEF Row
<1>2. /\ NoRow.status = "none" /\ NoRow.own = FALSE /\ NoRow.aged = FALSE
      /\ NoRow.waits = FALSE
    BY DEF NoRow
<1>3. 0 \in 0..MaxAttempts
    BY NotificationsAssumption
<1>4. NewRow \in Row
    BY <1>3 DEF NewRow, Row
<1> QED
    BY <1>1, <1>2, <1>4 DEF Row

(* A worker has tried a row between none and MaxAttempts times.            *)
LEMMA Attempts ==
    ASSUME NoticesTypeOK, NEW w \in Workers
    PROVE  Tried(w) \in 0..MaxAttempts /\ sender[w] \in Slot
<1>1. sender[w] \in Slot
    BY DEF NoticesTypeOK, Slot
<1>2. sender[w].attempts \in 0..MaxAttempts
    BY <1>1 DEF Slot
<1> QED
    BY <1>1, <1>2, NotificationsAssumption DEF Tried

(* What a failed or a finished delivery writes keeps a row a row, and its own flag. *)
LEMMA FailureIsRow ==
    ASSUME NEW r \in Row, NEW n \in 0..MaxAttempts
    PROVE  /\ AfterFailure(r, n) \in Row /\ AfterFailure(r, n).own = r.own
           /\ ~AfterFailure(r, n).aged
           /\ [r EXCEPT !.status = "sent", !.attempts = n] \in Row
BY DEF AfterFailure, Row

(* Erasing a recipient leaves a row, or none, that is nobody's; a sent one stays sent. *)
LEMMA ScrubIsRow ==
    ASSUME NEW r \in Row \cup {NoRow}
    PROVE  /\ Scrub(r) \in Row \cup {NoRow} /\ ~Scrub(r).own
           /\ Scrub(r) = NoRow <=> r = NoRow
           /\ Scrub(r).aged = r.aged
           /\ r.status = "sent" => Scrub(r).status = "sent"
<1>1. CASE r = NoRow
    BY <1>1, Rows DEF Scrub
<1>2. CASE r # NoRow
    <2>1. r \in Row
        BY <1>2
    <2> DEFINE s == IF r.status \in {"pending", "sending"} THEN "failed" ELSE r.status
               x == [r EXCEPT !.own = FALSE, !.status = s]
    <2>2. Scrub(r) = x
        BY <1>2 DEF Scrub
    <2>3. s \in {"pending", "sending", "sent", "logged", "failed"}
        BY <2>1 DEF Row
    <2>4. x \in Row /\ ~x.own /\ x.aged = r.aged /\ x.status = s
        BY <2>1, <2>3 DEF Row
    <2> HIDE DEF x
    <2> QED
        BY <1>2, <2>2, <2>4, Rows
<1> QED
    BY <1>1, <1>2

(* enqueue writes only where there is no row.                              *)
LEMMA Enqueued ==
    ASSUME NoticesTypeOK, NEW f \in Facts, NEW people, Enqueue(f, people), NEW k \in Keys
    PROVE  /\ box'[k] \in Row \cup {NoRow}
           /\ \/ box'[k] = box[k]
              \/ box'[k] = NewRow /\ box[k] = NoRow /\ k[1] = f /\ k[2] \in people
BY Rows DEF Enqueue, NoticesTypeOK

(* What a worker's write does to the queue, to each row and to each hand.  *)
LEMMA Settling ==
    ASSUME NoticesTypeOK, NEW w \in Workers, sender[w].key # <<>>, NEW row,
           box[sender[w].key] # NoRow => row \in Row, Settle(w, row)
    PROVE  /\ sender[w].key \in Keys
           /\ box' \in [Keys -> Row \cup {NoRow}] /\ sender' \in [Workers -> Slot]
           /\ \A k \in Keys : k # sender[w].key => box'[k] = box[k]
           /\ box'[sender[w].key] =
                 IF box[sender[w].key] = NoRow THEN NoRow ELSE row
           /\ \A v \in Workers : v # w => sender'[v] = sender[v]
           /\ sender'[w].key = <<>>
<1> DEFINE k == sender[w].key
<1>1. k \in Keys /\ box \in [Keys -> Row \cup {NoRow}] /\ sender \in [Workers -> Slot]
    BY DEF NoticesTypeOK, Slot
<1>2. 0 \in 0..MaxAttempts
    BY NotificationsAssumption
<1>3. CASE box[k] = NoRow
    <2>1. box' = box /\ sender' = [sender EXCEPT ![w] = Resting]
        BY <1>3 DEF Settle
    <2>2. Resting \in Slot /\ Resting.key = <<>>
        BY <1>2 DEF Resting, Slot
    <2> QED
        BY <1>1, <1>3, <2>1, <2>2
<1>4. CASE box[k] # NoRow
    <2> DEFINE s == [sender[w] EXCEPT !.key = <<>>, !.own = FALSE, !.attempts = 0]
    <2>1. box' = [box EXCEPT ![k] = row] /\ sender' = [sender EXCEPT ![w] = s]
        BY <1>1, <1>4 DEF Settle, Slot
    <2>2. s \in Slot /\ s.key = <<>>
        BY <1>1, <1>2 DEF Slot
    <2> HIDE DEF s
    <2> QED
        BY <1>1, <1>4, <2>1, <2>2
<1> QED
    BY <1>3, <1>4

(* A claim that takes the row, in the hand of the worker and in the row.   *)
LEMMA Claiming ==
    ASSUME NoticesTypeOK, NEW w \in Workers, NEW k \in Keys, Claim(w, k)
    PROVE  /\ UNCHANGED <<account, fact, draft, letters, smooth, smtp, mishaps>>
           /\ box' \in [Keys -> Row \cup {NoRow}] /\ sender' \in [Workers -> Slot]
           /\ sender[w].key = <<>>
           /\ \A v \in Workers : v # w => sender'[v] = sender[v]
           /\ \A l \in Keys : l # k => box'[l] = box[l]
           /\ \/ box' = box /\ sender'[w].key = <<>>
              \/ /\ box[k].status = "pending" /\ sender'[w].key = <<>>
                 /\ box'[k] \in Row /\ box'[k].own = box[k].own /\ ~box'[k].aged
                 /\ box'[k].status = "logged"
              \/ /\ box[k].status = "pending"
                 /\ sender'[w].key = k /\ sender'[w].own = box[k].own
                 /\ box'[k] \in Row /\ box'[k].own = box[k].own /\ ~box'[k].aged
                 /\ box'[k].status = "sending"
<1>1. /\ box \in [Keys -> Row \cup {NoRow}] /\ sender \in [Workers -> Slot]
      /\ UNCHANGED <<account, fact, draft, letters, smooth, smtp, mishaps>>
      /\ sender[w].key = <<>>
    BY DEF NoticesTypeOK, Slot, Claim
<1> DEFINE rest == [sender[w] EXCEPT !.due = sender[w].due \ {k}]
           hold == [sender[w] EXCEPT !.due = sender[w].due \ {k}, !.key = k,
                                     !.own = box[k].own, !.attempts = box[k].attempts]
           logged == [box[k] EXCEPT !.status = "logged", !.aged = FALSE]
           sending == [box[k] EXCEPT !.status = "sending", !.aged = FALSE]
<1>2. rest \in Slot /\ rest.key = <<>>
    BY <1>1 DEF Slot
<1>3. ASSUME box[k].status = "pending"
      PROVE  /\ hold \in Slot /\ hold.key = k /\ hold.own = box[k].own
             /\ logged \in Row /\ logged.own = box[k].own /\ ~logged.aged
             /\ logged.status = "logged"
             /\ sending \in Row /\ sending.own = box[k].own /\ ~sending.aged
             /\ sending.status = "sending"
    <2>1. box[k] \in Row
        BY <1>1, <1>3, Rows
    <2> QED
        BY <1>1, <2>1 DEF Slot, Row
<1>4. CASE ~ClaimTakes(k)
    <2>1. box' = box /\ sender' = [sender EXCEPT ![w] = rest]
        BY <1>1, <1>4 DEF Claim
    <2> HIDE DEF rest, hold, logged, sending
    <2> QED
        BY <1>1, <1>2, <2>1
<1>5. CASE ClaimTakes(k) /\ ~smtp
    <2>1. box' = [box EXCEPT ![k] = logged] /\ sender' = [sender EXCEPT ![w] = rest]
        BY <1>1, <1>5 DEF Claim
    <2>2. box[k].status = "pending"
        BY <1>5 DEF ClaimTakes
    <2> HIDE DEF rest, hold, logged, sending
    <2> QED
        BY <1>1, <1>2, <1>3, <2>1, <2>2
<1>6. CASE ClaimTakes(k) /\ smtp
    <2>1. box' = [box EXCEPT ![k] = sending] /\ sender' = [sender EXCEPT ![w] = hold]
        BY <1>1, <1>6 DEF Claim
    <2>2. box[k].status = "pending"
        BY <1>6 DEF ClaimTakes
    <2> HIDE DEF rest, hold, logged, sending
    <2> QED
        BY <1>1, <1>2, <1>3, <2>1, <2>2
<1> QED
    BY <1>4, <1>5, <1>6

-----------------------------------------------------------------------------
(* Types.                                                                  *)

(* The scan of the stale claims changes no row that is not stale.          *)
LEMMA Releasing ==
    ASSUME NoticesTypeOK
    PROVE  /\ Release(box) \in [Keys -> Row \cup {NoRow}]
           /\ NoneAged => Release(box) = box
<1>1. box \in [Keys -> Row \cup {NoRow}]
    BY DEF NoticesTypeOK
<1>2. ASSUME NEW k \in Keys, box[k].status = "sending"
      PROVE  [box[k] EXCEPT !.status = "pending"] \in Row
    BY <1>1, <1>2, Rows
<1>3. Release(box) \in [Keys -> Row \cup {NoRow}]
    BY <1>1, <1>2 DEF Release
<1>4. ASSUME NoneAged PROVE Release(box) = box
    BY <1>1, <1>4 DEF Release, NoneAged
<1> QED
    BY <1>3, <1>4

(* Recording a fact and queueing its letter keep the types.                *)
LEMMA QueueTypes ==
    ASSUME NoticesTypeOK,
           \E f \in Facts : Act(f) \/ CommitAct(f) \/ FactMoves(f) \/ Scan(f)
    PROVE  NoticesTypeOK'
<1>1. PICK f \in Facts : Act(f) \/ CommitAct(f) \/ FactMoves(f) \/ Scan(f)
    OBVIOUS
<1>2. UNCHANGED <<account, sender, letters, smooth, smtp, mishaps>>
    BY <1>1 DEF Act, CommitAct, FactMoves, Scan
<1>3. fact' \in [Facts -> {"ahead", "holds", "past"}]
    BY <1>1 DEF Act, CommitAct, FactMoves, Scan, NoticesTypeOK
<1>4. draft' \in [Facts -> SUBSET Parties]
    BY <1>1 DEF Act, CommitAct, FactMoves, Scan, NoticesTypeOK, Recipients
<1>5. box' \in [Keys -> Row \cup {NoRow}]
    <2>1. CASE box' = box
        BY <2>1 DEF NoticesTypeOK
    <2>2. ASSUME NEW people, Enqueue(f, people) PROVE box' \in [Keys -> Row \cup {NoRow}]
        BY <2>2, Enqueued DEF Enqueue
    <2> QED
        BY <1>1, <2>1, <2>2 DEF Act, CommitAct, FactMoves, Scan
<1> QED
    BY <1>2, <1>3, <1>4, <1>5 DEF NoticesTypeOK

(* Every step of a worker keeps the types.                                 *)
LEMMA SenderTypes ==
    ASSUME NoticesTypeOK, NEW w \in Workers,
           \/ StartPass(w) \/ Sent(w) \/ NotSent(w) \/ WorkerDies(w)
           \/ \E k \in Keys : Claim(w, k)
    PROVE  NoticesTypeOK'
<1>0. box \in [Keys -> Row \cup {NoRow}] /\ sender \in [Workers -> Slot]
    BY DEF NoticesTypeOK, Slot
<1>1. CASE StartPass(w)
    <2>1. /\ UNCHANGED <<account, fact, draft, letters, smooth, smtp, mishaps>>
          /\ box' = Release(box) /\ sender' = [sender EXCEPT ![w].due = Due(Release(box))]
        BY <1>1 DEF StartPass
    <2>2. Due(Release(box)) \in SUBSET Keys
        BY DEF Due
    <2>3. sender' \in [Workers -> Slot]
        BY <1>0, <2>1, <2>2 DEF Slot
    <2> QED
        BY <2>1, <2>3, Releasing DEF NoticesTypeOK, Slot
<1>2. CASE Sent(w)
    <2> DEFINE k == sender[w].key
               row == [box[k] EXCEPT !.status = "sent", !.attempts = Tried(w)]
    <2>1. /\ k # <<>> /\ Settle(w, row)
          /\ letters' = [letters EXCEPT ![k] = IF sender[w].own /\ @ < 2 THEN @ + 1 ELSE @]
          /\ UNCHANGED <<account, fact, draft, smooth, smtp, mishaps>>
        BY <1>2 DEF Sent
    <2>2. k \in Keys
        BY <1>0, <2>1 DEF Slot
    <2>3. box[k] # NoRow => row \in Row
        BY <1>0, <2>2, Attempts, FailureIsRow
    <2> HIDE DEF row
    <2>4. box' \in [Keys -> Row \cup {NoRow}] /\ sender' \in [Workers -> Slot]
        BY <2>1, <2>3, Settling
    <2>5. letters \in [Keys -> 0..2] /\ letters[k] \in 0..2
        BY <2>2 DEF NoticesTypeOK
    <2>6. letters' \in [Keys -> 0..2]
        BY <2>1, <2>2, <2>5
    <2> QED
        BY <2>1, <2>4, <2>6 DEF NoticesTypeOK, Slot
<1>3. CASE NotSent(w)
    <2> DEFINE k == sender[w].key
               row == AfterFailure(box[k], Tried(w))
    <2>1. /\ k # <<>> /\ Settle(w, row)
          /\ UNCHANGED <<account, fact, draft, letters, smooth, smtp, mishaps>>
        BY <1>3 DEF NotSent
    <2>2. k \in Keys
        BY <1>0, <2>1 DEF Slot
    <2>3. box[k] # NoRow => row \in Row
        BY <1>0, <2>2, Attempts, FailureIsRow
    <2> HIDE DEF row
    <2>4. box' \in [Keys -> Row \cup {NoRow}] /\ sender' \in [Workers -> Slot]
        BY <2>1, <2>3, Settling
    <2> QED
        BY <2>1, <2>4 DEF NoticesTypeOK, Slot
<1>4. CASE WorkerDies(w)
    <2>1. /\ UNCHANGED <<account, fact, draft, box, letters, smooth, smtp>>
          /\ sender' = [sender EXCEPT ![w] = Resting] /\ mishaps' = mishaps + 1
          /\ mishaps < MaxMishaps
        BY <1>4 DEF WorkerDies
    <2>2. Resting \in Slot
        BY NotificationsAssumption DEF Resting, Slot
    <2>3. mishaps' \in 0..MaxMishaps
        BY <2>1, NotificationsAssumption DEF NoticesTypeOK
    <2>4. sender' \in [Workers -> Slot]
        BY <1>0, <2>1, <2>2
    <2> QED
        BY <2>1, <2>3, <2>4 DEF NoticesTypeOK, Slot
<1>5. ASSUME NEW k \in Keys, Claim(w, k) PROVE NoticesTypeOK'
    BY <1>5, Claiming DEF NoticesTypeOK, Slot
<1> QED
    BY <1>1, <1>2, <1>3, <1>4, <1>5

(* What time, an administrator and the purge do to a row keeps the types.  *)
LEMMA RowTypes ==
    ASSUME NoticesTypeOK,
           \E k \in Keys : RetryDue(k) \/ ClaimAges(k) \/ Requeue(k) \/ Purge(k)
    PROVE  NoticesTypeOK'
<1>1. PICK k \in Keys : RetryDue(k) \/ ClaimAges(k) \/ Requeue(k) \/ Purge(k)
    OBVIOUS
<1>2. UNCHANGED <<account, fact, draft, sender, letters, smooth, smtp>>
    BY <1>1 DEF RetryDue, ClaimAges, Requeue, Purge
<1>3. box \in [Keys -> Row \cup {NoRow}] /\ 0 \in 0..MaxAttempts
    BY NotificationsAssumption DEF NoticesTypeOK
<1>4. mishaps' \in 0..MaxMishaps
    BY <1>1, NotificationsAssumption DEF RetryDue, ClaimAges, Requeue, Purge, NoticesTypeOK
<1>5. box' \in [Keys -> Row \cup {NoRow}]
    <2>1. CASE Purge(k)
        BY <1>3, <2>1 DEF Purge
    <2>2. CASE RetryDue(k) \/ ClaimAges(k) \/ Requeue(k)
        <3>1. box[k] \in Row
            BY <1>3, <2>2, Rows DEF RetryDue, ClaimAges, Requeue
        <3>2. \A b \in BOOLEAN : /\ [box[k] EXCEPT !.waits = b] \in Row
                                 /\ [box[k] EXCEPT !.aged = b] \in Row
            BY <3>1 DEF Row
        <3>3. [box[k] EXCEPT !.status = "pending", !.attempts = 0,
                             !.waits = FALSE, !.aged = FALSE] \in Row
            BY <1>3, <3>1 DEF Row
        <3> QED
            BY <1>3, <2>2, <3>2, <3>3 DEF RetryDue, ClaimAges, Requeue
    <2> QED
        BY <1>1, <2>1, <2>2
<1> QED
    BY <1>2, <1>4, <1>5 DEF NoticesTypeOK

(* Erasing and verifying an account keep the types.                        *)
LEMMA PartyTypes ==
    ASSUME NoticesTypeOK, \E p \in Parties : Erase(p) \/ VerifyEmail(p)
    PROVE  NoticesTypeOK'
<1>1. PICK p \in Parties : Erase(p) \/ VerifyEmail(p)
    OBVIOUS
<1>2. UNCHANGED <<fact, draft, sender, letters, smooth, smtp, mishaps>>
    BY <1>1 DEF Erase, VerifyEmail
<1>3. account' \in [Parties -> {"unverified", "active", "erased"}]
    BY <1>1 DEF Erase, VerifyEmail, NoticesTypeOK
<1>4. box' \in [Keys -> Row \cup {NoRow}]
    <2>1. \A k \in Keys : Scrub(box[k]) \in Row \cup {NoRow} /\ box[k] \in Row \cup {NoRow}
        BY ScrubIsRow DEF NoticesTypeOK
    <2> QED
        BY <1>1, <2>1 DEF Erase, VerifyEmail, NoticesTypeOK
<1> QED
    BY <1>2, <1>3, <1>4 DEF NoticesTypeOK

-----------------------------------------------------------------------------
(* What goes well goes on going well.                                      *)

(* A fact that is past stays past.                                         *)
LEMMA PastStays ==
    ASSUME NoticesTypeOK, NoticesNext, NEW f \in Facts, fact[f] = "past"
    PROVE  fact'[f] = "past"
<1>1. CASE UNCHANGED fact
    BY <1>1
<1>2. ASSUME NEW g \in Facts, Act(g) \/ CommitAct(g) \/ FactMoves(g) PROVE fact'[f] = "past"
    BY <1>2 DEF Act, CommitAct, FactMoves, NoticesTypeOK
<1> QED
    BY <1>1, <1>2 DEF NoticesNext, Scan, StartPass, Sent, NotSent, WorkerDies, Claim,
       RetryDue, ClaimAges, Requeue, Purge, Erase, VerifyEmail

(* An act is drafted for people who are not erased, and so is a reminder;  *)
(* a row is queued only where none was delivered nor is in any hand.       *)
LEMMA QueueWell ==
    ASSUME NoticesTypeOK, Well, NEW f \in Facts, NoticesNext,
           Act(f) \/ CommitAct(f) \/ FactMoves(f) \/ Scan(f)
    PROVE  Well'
<1> USE DEF Well
<1>1. UNCHANGED <<account, sender, letters, smooth, smtp, mishaps>>
    BY DEF Act, CommitAct, FactMoves, Scan
<1>2. \A k \in Keys : Past(k) => Past(k)'
    BY PastStays, KeyParts DEF Past
<1>3. /\ \A k \in Keys : \/ box'[k] = box[k]
                         \/ /\ box'[k] = NewRow /\ box[k] = NoRow /\ ~Past(k)
                            /\ account[k[2]] # "erased"
      /\ \A g \in Facts : \A p \in draft'[g] : account[p] # "erased"
    <2>1. \A p \in Recipients(f) : account[p] # "erased"
        BY DEF Recipients
    <2>2. CASE Act(f)
        BY <2>1, <2>2 DEF Act, NothingErased, NoticesTypeOK
    <2>3. CASE CommitAct(f)
        <3>1. /\ fact[f] = "holds" /\ Enqueue(f, draft[f]) /\ draft' = [draft EXCEPT ![f] = {}]
              /\ \A p \in draft[f] : account[p] # "erased"
            BY <2>3 DEF CommitAct, NothingErased
        <3>2. \A k \in Keys : \/ box'[k] = box[k]
                              \/ /\ box'[k] = NewRow /\ box[k] = NoRow
                                 /\ k[1] = f /\ k[2] \in draft[f]
            BY <3>1, Enqueued
        <3> QED
            BY <3>1, <3>2 DEF Past, NothingErased, NoticesTypeOK
    <2>4. CASE FactMoves(f)
        BY <2>4 DEF FactMoves, NothingErased
    <2>5. CASE Scan(f)
        <3>1. fact[f] = "holds" /\ Enqueue(f, Recipients(f)) /\ draft' = draft
            BY <2>5 DEF Scan
        <3>2. \A k \in Keys : \/ box'[k] = box[k]
                              \/ /\ box'[k] = NewRow /\ box[k] = NoRow
                                 /\ k[1] = f /\ k[2] \in Recipients(f)
            BY <3>1, Enqueued
        <3> QED
            BY <2>1, <3>1, <3>2 DEF Past, NothingErased
    <2> QED
        BY <2>2, <2>3, <2>4, <2>5
<1>4. NewRow.own /\ ~NewRow.aged /\ NewRow # NoRow
    BY Rows DEF NewRow
<1>5. NoneAged' /\ OneHolder' /\ NothingErased'
    BY <1>1, <1>3, <1>4, Rows DEF NoneAged, OneHolder, Holds, NothingErased
<1>6. HeldWell'
    BY <1>1, <1>2, <1>3, <1>4 DEF HeldWell, Holds
<1>7. Delivered'
    BY <1>1, <1>2, <1>3, <1>4 DEF Delivered
<1> QED
    BY <1>5, <1>6, <1>7

(* A pass takes no row; a claim takes one that is waiting, and that nobody *)
(* holds if it still is the person's.                                      *)
LEMMA ClaimWell ==
    ASSUME NoticesTypeOK, Well, NEW w \in Workers,
           StartPass(w) \/ \E k \in Keys : Claim(w, k)
    PROVE  Well'
<1> USE DEF Well
<1>0. sender \in [Workers -> Slot]
    BY DEF NoticesTypeOK, Slot
<1>1. CASE StartPass(w)
    <2>1. /\ UNCHANGED <<account, fact, draft, letters>> /\ box' = box
          /\ sender[w] = Resting
          /\ sender' = [sender EXCEPT ![w].due = Due(Release(box))]
        BY <1>1, Releasing DEF StartPass
    <2>2. \A v \in Workers : sender'[v].key = sender[v].key /\ sender'[v].own = sender[v].own
        BY <1>0, <2>1 DEF Slot
    <2> QED
        BY <2>1, <2>2 DEF NoneAged, OneHolder, HeldWell, Delivered, NothingErased, Holds, Past
<1>2. ASSUME NEW k \in Keys, Claim(w, k) PROVE Well'
    <2>1. /\ UNCHANGED <<account, fact, draft, letters>>
          /\ \A v \in Workers : v # w => sender'[v] = sender[v]
          /\ \A l \in Keys : l # k => box'[l] = box[l]
          /\ \A l \in Keys : l # <<>>
        BY <1>2, Claiming, KeyParts
    <2>2. CASE box' = box /\ sender'[w].key = <<>>
        BY <2>1, <2>2 DEF NoneAged, OneHolder, HeldWell, Delivered, NothingErased, Holds, Past
    <2>3. CASE /\ box[k].status = "pending"
               /\ box'[k] \in Row /\ box'[k].own = box[k].own /\ ~box'[k].aged
               /\ \/ sender'[w].key = <<>>
                  \/ /\ sender'[w].key = k /\ sender'[w].own = box[k].own
                     /\ box'[k].status = "sending"
        <3>1. box'[k] # NoRow
            BY <2>3, Rows
        <3>2. box[k].own => /\ letters[k] = 0
                            /\ \A v \in Workers : ~Holds(v, k)
            <4>1. ASSUME box[k].own PROVE letters[k] # 1 /\ letters[k] <= 1 /\ letters[k] \in 0..2
                BY <2>3, <4>1 DEF Delivered, NoticesTypeOK
            <4>2. ASSUME box[k].own, NEW v \in Workers PROVE ~Holds(v, k)
                BY <2>3, <4>2 DEF HeldWell
            <4> QED
                BY <4>1, <4>2
        <3>3. NoneAged' /\ NothingErased'
            BY <2>1, <2>3 DEF NoneAged, NothingErased
        <3>4. OneHolder'
            BY <2>1, <2>3, <3>2 DEF OneHolder, Holds
        <3>5. HeldWell'
            BY <2>1, <2>3, <3>1, <3>2 DEF HeldWell, Holds, Past
        <3>6. Delivered'
            BY <2>1, <2>3, <3>1, <3>2 DEF Delivered, Past
        <3> QED
            BY <3>3, <3>4, <3>5, <3>6
    <2> QED
        BY <1>2, <2>2, <2>3, Claiming
<1> QED
    BY <1>1, <1>2

(* The letter leaves, or does not, and the row is written or is gone.      *)
LEMMA SettleWell ==
    ASSUME NoticesTypeOK, Well, NEW w \in Workers, Sent(w) \/ NotSent(w)
    PROVE  Well'
<1> USE DEF Well
<1> DEFINE k == sender[w].key
           sent == [box[k] EXCEPT !.status = "sent", !.attempts = Tried(w)]
           failed == AfterFailure(box[k], Tried(w))
<1>1. /\ box \in [Keys -> Row \cup {NoRow}] /\ sender \in [Workers -> Slot]
      /\ k \in Keys /\ UNCHANGED <<account, fact, draft>> /\ letters \in [Keys -> 0..2]
      /\ \A l \in Keys : l # <<>>
    BY KeyParts DEF NoticesTypeOK, Slot, Sent, NotSent
<1>2. /\ box[k] # NoRow => sent \in Row /\ failed \in Row
      /\ box[k] # NoRow => failed.own = box[k].own /\ ~failed.aged
      /\ box[k] # NoRow =>
            sent.own = box[k].own /\ sent.aged = box[k].aged /\ sent.status = "sent"
    <2>1. ASSUME box[k] # NoRow PROVE box[k] \in Row
        BY <1>1, <2>1
    <2>2. ASSUME box[k] \in Row
          PROVE  /\ sent.own = box[k].own /\ sent.aged = box[k].aged /\ sent.status = "sent"
        BY <2>2 DEF Row
    <2> QED
        BY <2>1, <2>2, Attempts, FailureIsRow
<1>3. Holds(w, k) /\ (sender[w].own => letters[k] = 0) /\ (~sender[w].own => ~box[k].own)
    BY <1>1 DEF HeldWell, Holds
<1>4. CASE Sent(w)
    <2>1. /\ Settle(w, sent) /\ k # <<>>
          /\ letters' = [letters EXCEPT ![k] = IF sender[w].own /\ @ < 2 THEN @ + 1 ELSE @]
        BY <1>4 DEF Sent
    <2> HIDE DEF sent, failed
    <2>2. /\ \A l \in Keys : l # k => box'[l] = box[l]
          /\ box'[k] = IF box[k] = NoRow THEN NoRow ELSE sent
          /\ \A v \in Workers : v # w => sender'[v] = sender[v]
          /\ sender'[w].key = <<>>
        BY <1>2, <2>1, Settling
    <2>3. /\ \A l \in Keys : l # k => letters'[l] = letters[l]
          /\ sender[w].own => letters'[k] = 1
          /\ ~sender[w].own => letters'[k] = letters[k]
        BY <1>1, <1>3, <2>1
    <2>4. box'[k] = NoRow <=> box[k] = NoRow
        BY <1>2, <2>2, Rows
    <2>5. NoneAged' /\ NothingErased'
        BY <1>1, <1>2, <2>2, Rows DEF NoneAged, NothingErased
    <2>6. OneHolder'
        BY <1>1, <2>2 DEF OneHolder, Holds
    <2>7. HeldWell'
        <3> SUFFICES ASSUME NEW l \in Keys, NEW v \in Workers, Holds(v, l)'
                     PROVE  /\ box'[l] = NoRow => Past(l)'
                            /\ sender'[v].own => letters'[l] = 0 /\
                                                (box'[l].own => box'[l].status = "sending")
                            /\ ~sender'[v].own => ~box'[l].own
            BY DEF HeldWell
        <3>1. v # w /\ sender'[v] = sender[v] /\ Holds(v, l)
            BY <1>1, <2>2 DEF Holds
        <3>2. CASE l # k
            BY <3>1, <3>2, <1>1, <2>2, <2>3 DEF HeldWell, Past
        <3>3. CASE l = k
            <4>1. ~(sender[v].own /\ sender[w].own)
                BY <3>1, <3>3, <1>1, <1>3 DEF OneHolder
            <4>2. box'[k].own => box[k].own
                BY <1>2, <2>2, Rows
            <4>3. sender[v].own => ~box[k].own /\ letters'[k] = 0
                BY <3>1, <3>3, <4>1, <1>3, <2>3 DEF HeldWell
            <4>4. box[k] = NoRow => fact'[k[1]] = "past"
                BY <1>1, <1>3 DEF HeldWell, Past
            <4> QED
                BY <3>1, <3>3, <4>2, <4>3, <4>4, <2>4 DEF HeldWell, Past
        <3> QED
            BY <3>2, <3>3
    <2>8. Delivered'
        <3>1. box[k] = NoRow => fact'[k[1]] = "past"
            BY <1>1, <1>3 DEF HeldWell, Past
        <3>2. box'[k].own => box'[k].status = "sent"
            BY <1>2, <2>2, Rows
        <3> QED
            BY <1>1, <2>2, <2>3, <2>4, <3>1, <3>2 DEF Delivered, Past
    <2> QED
        BY <2>5, <2>6, <2>7, <2>8
<1>5. CASE NotSent(w)
    <2>1. Settle(w, failed) /\ k # <<>> /\ letters' = letters
        BY <1>5 DEF NotSent
    <2> HIDE DEF sent, failed
    <2>2. /\ \A l \in Keys : l # k => box'[l] = box[l]
          /\ box'[k] = IF box[k] = NoRow THEN NoRow ELSE failed
          /\ \A v \in Workers : v # w => sender'[v] = sender[v]
          /\ sender'[w].key = <<>>
        BY <1>2, <2>1, Settling
    <2>3. (box'[k] = NoRow <=> box[k] = NoRow) /\ (box'[k].own <=> box[k].own)
        BY <1>2, <2>2, Rows
    <2>4. NoneAged' /\ NothingErased'
        <3>1. ~box'[k].aged
            BY <1>2, <2>2, Rows
        <3> QED
            BY <1>1, <2>2, <2>3, <3>1 DEF NoneAged, NothingErased
    <2>5. OneHolder'
        BY <1>1, <2>2 DEF OneHolder, Holds
    <2>6. HeldWell'
        <3> SUFFICES ASSUME NEW l \in Keys, NEW v \in Workers, Holds(v, l)'
                     PROVE  /\ box'[l] = NoRow => Past(l)'
                            /\ sender'[v].own => letters'[l] = 0 /\
                                                (box'[l].own => box'[l].status = "sending")
                            /\ ~sender'[v].own => ~box'[l].own
            BY DEF HeldWell
        <3>1. v # w /\ sender'[v] = sender[v] /\ Holds(v, l)
            BY <1>1, <2>2 DEF Holds
        <3>2. CASE l # k
            BY <3>1, <3>2, <1>1, <2>1, <2>2 DEF HeldWell, Past
        <3>3. CASE l = k
            <4>1. ~(sender[v].own /\ sender[w].own)
                BY <3>1, <3>3, <1>1, <1>3 DEF OneHolder
            <4>2. sender[v].own => ~box[k].own
                BY <4>1, <1>3
            <4> QED
                BY <3>1, <3>3, <4>2, <2>1, <2>3, <1>1 DEF HeldWell, Past
        <3> QED
            BY <3>2, <3>3
    <2>7. Delivered'
        <3>1. letters[k] = 1 => ~box[k].own
            BY <1>3
        <3> QED
            BY <1>1, <2>1, <2>2, <2>3, <3>1 DEF Delivered, Past
    <2> QED
        BY <2>4, <2>5, <2>6, <2>7
<1> QED
    BY <1>4, <1>5

(* Time, the panel and the purge.                                          *)
LEMMA RowWell ==
    ASSUME NoticesTypeOK, Well, smooth, NEW k \in Keys,
           RetryDue(k) \/ ClaimAges(k) \/ Requeue(k) \/ Purge(k)
    PROVE  Well'
<1> USE DEF Well
<1>1. /\ UNCHANGED <<account, fact, draft, sender, letters>> /\ ~ClaimAges(k)
      /\ box \in [Keys -> Row \cup {NoRow}]
    BY DEF RetryDue, ClaimAges, Requeue, Purge, NoticesTypeOK
<1>2. \A l \in Keys : l # k => box'[l] = box[l]
    BY <1>1 DEF RetryDue, Requeue, Purge
<1>3. OneHolder'
    BY <1>1 DEF OneHolder, Holds
<1>4. CASE RetryDue(k)
    <2>1. box' = [box EXCEPT ![k].waits = FALSE] /\ box[k] \in Row
        BY <1>1, <1>4, Rows DEF RetryDue
    <2>2. /\ box'[k].own = box[k].own /\ box'[k].status = box[k].status
          /\ box'[k].aged = box[k].aged /\ box'[k] # NoRow
        BY <1>1, <2>1, Rows DEF Row
    <2> QED
        BY <1>1, <1>2, <1>3, <2>1, <2>2
           DEF NoneAged, HeldWell, Holds, Delivered, NothingErased, Past
<1>5. CASE Requeue(k)
    <2>1. /\ box' = [box EXCEPT ![k] = [@ EXCEPT !.status = "pending", !.attempts = 0,
                                                 !.waits = FALSE, !.aged = FALSE]]
          /\ box[k].status \in {"failed", "logged", "pending"} /\ box[k] \in Row
        BY <1>1, <1>5, Rows DEF Requeue
    <2> DEFINE row == [box[k] EXCEPT !.status = "pending", !.attempts = 0,
                                     !.waits = FALSE, !.aged = FALSE]
    <2>2. /\ box'[k].own = box[k].own /\ box'[k].status = "pending"
          /\ ~box'[k].aged /\ box'[k] # NoRow
        <3>1. box' = [box EXCEPT ![k] = row]
            BY <2>1
        <3>2. row.own = box[k].own /\ row.status = "pending" /\ ~row.aged
            BY <2>1 DEF Row
        <3> HIDE DEF row
        <3> QED
            BY <1>1, <3>1, <3>2, Rows
    <2>3. box[k].own => letters[k] # 1 /\ \A w \in Workers : ~Holds(w, k)
        BY <2>1 DEF Delivered, HeldWell
    <2> QED
        BY <1>1, <1>2, <1>3, <2>1, <2>2, <2>3
           DEF NoneAged, HeldWell, Holds, Delivered, NothingErased, Past
<1>6. CASE Purge(k)
    <2>1. Past(k) /\ box' = [box EXCEPT ![k] = NoRow]
        BY <1>6 DEF Purge, Past
    <2> QED
        BY <1>1, <1>2, <1>3, <2>1, Rows
           DEF NoneAged, HeldWell, Holds, Delivered, NothingErased, Past
<1> QED
    BY <1>1, <1>4, <1>5, <1>6

(* An erasure takes the letter out of its row and never the other way.     *)
LEMMA PartyWell ==
    ASSUME NoticesTypeOK, Well, smooth, NEW p \in Parties, Erase(p) \/ VerifyEmail(p)
    PROVE  Well'
<1> USE DEF Well
<1>1. /\ UNCHANGED <<fact, draft, sender, letters>>
      /\ box \in [Keys -> Row \cup {NoRow}]
    BY DEF Erase, VerifyEmail, NoticesTypeOK
<1>2. OneHolder'
    BY <1>1 DEF OneHolder, Holds
<1>3. CASE VerifyEmail(p)
    <2>1. box' = box /\ account' = [account EXCEPT ![p] = "active"]
        BY <1>3 DEF VerifyEmail
    <2>2. \A q \in Parties : account'[q] = "erased" => account[q] = "erased"
        BY <2>1 DEF NoticesTypeOK
    <2>3. NothingErased'
        BY <1>1, <2>1, <2>2, KeyParts DEF NothingErased, NoticesTypeOK
    <2> QED
        BY <1>1, <1>2, <2>1, <2>3 DEF NoneAged, HeldWell, Holds, Delivered, Past
<1>4. CASE Erase(p)
    <2>1. /\ account' = [account EXCEPT ![p] = "erased"]
          /\ \A f \in Facts : draft[f] = {}
          /\ \A k \in Keys : box'[k] = IF k[2] = p THEN Scrub(box[k]) ELSE box[k]
        BY <1>4 DEF Erase
    <2>2. ASSUME NEW k \in Keys
          PROVE  /\ box'[k] = NoRow <=> box[k] = NoRow
                 /\ box'[k].own => k[2] # p /\ box'[k] = box[k]
                 /\ box'[k].aged = box[k].aged
        <3>1. box[k] \in Row \cup {NoRow}
            BY <1>1
        <3> QED
            BY <2>1, <3>1, ScrubIsRow
    <2>3. NothingErased'
        BY <1>1, <2>1, <2>2, KeyParts DEF NothingErased, NoticesTypeOK
    <2>4. HeldWell' /\ NoneAged'
        BY <1>1, <2>2 DEF HeldWell, NoneAged, Holds, Past
    <2>5. Delivered'
        BY <1>1, <2>2 DEF Delivered, Past
    <2> QED
        BY <1>2, <2>3, <2>4, <2>5
<1> QED
    BY <1>3, <1>4

-----------------------------------------------------------------------------
(* The invariant holds of an empty queue, and every step keeps it.         *)
LEMMA NoticesStart == NoticesInit => NoticesIInv
<1> SUFFICES ASSUME NoticesInit PROVE NoticesIInv
    OBVIOUS
<1> USE DEF NoticesInit
<1>1. Resting \in Slot /\ Resting.key = <<>>
    BY NotificationsAssumption DEF Resting, Slot
<1>2. sender \in [Workers -> Slot] /\ \A w \in Workers : sender[w].key = <<>>
    BY <1>1
<1>3. NoticesTypeOK
    <2>1. /\ account \in [Parties -> {"unverified", "active", "erased"}]
          /\ fact \in [Facts -> {"ahead", "holds", "past"}]
          /\ draft \in [Facts -> SUBSET Parties]
          /\ box \in [Keys -> Row \cup {NoRow}]
          /\ letters \in [Keys -> 0..2]
        OBVIOUS
    <2>2. 0 \in 0..MaxMishaps
        BY NotificationsAssumption
    <2> QED
        BY <1>2, <2>1, <2>2 DEF NoticesTypeOK, Slot
<1>4. Well
    <2>1. \A k \in Keys : account[k[2]] # "erased"
        BY KeyParts
    <2> QED
        BY <1>2, <2>1, KeyParts, Rows
           DEF Well, NoneAged, OneHolder, HeldWell, Holds, Delivered, NothingErased
<1> QED
    BY <1>3, <1>4 DEF NoticesIInv

(* Every step of the outbox keeps the invariant.                           *)
LEMMA NoticesStep == NoticesIInv /\ [NoticesNext]_noticeVars => NoticesIInv'
<1>1. ASSUME NoticesIInv, NoticesNext PROVE NoticesIInv'
    <2>1. NoticesTypeOK'
        BY <1>1, QueueTypes, SenderTypes, RowTypes, PartyTypes DEF NoticesNext, NoticesIInv
    <2>2. smooth' = smooth
        BY <1>1 DEF NoticesNext, Act, CommitAct, FactMoves, Scan, StartPass, Sent, NotSent,
           WorkerDies, Claim, RetryDue, ClaimAges, Requeue, Purge, Erase, VerifyEmail
    <2>3. ASSUME smooth PROVE Well'
        <3>1. NoticesTypeOK /\ Well
            BY <1>1, <2>3 DEF NoticesIInv
        <3>2. \A w \in Workers : ~WorkerDies(w)
            BY <2>3 DEF WorkerDies
        <3> QED
            BY <1>1, <2>3, <3>1, <3>2, QueueWell, ClaimWell, SettleWell, RowWell, PartyWell
               DEF NoticesNext
    <2> QED
        BY <2>1, <2>2, <2>3 DEF NoticesIInv
<1>2. ASSUME NoticesIInv, UNCHANGED noticeVars PROVE NoticesIInv'
    <2>1. NoticesTypeOK'
        BY <1>2 DEF NoticesIInv, noticeVars, NoticesTypeOK
    <2>2. ASSUME smooth PROVE Well'
        BY <1>2, <2>2 DEF NoticesIInv, noticeVars, Well, NoneAged, OneHolder, HeldWell, Holds,
           Delivered, NothingErased, Past
    <2> QED
        BY <1>2, <2>1, <2>2 DEF NoticesIInv, noticeVars
<1> QED
    BY <1>1, <1>2

(* "O mesmo fato nunca gera dois e-mails para a mesma pessoa" (rules.py    *)
(* deliver_notice): with any number of workers over one queue, retries and *)
(* retries asked from the panel, no fact reaches a person twice as long as *)
(* no claim outlives its TTL (notifications/outbox.py dispatch_pending).   *)
THEOREM OneLetterPerFact == NoticesSpec => []NoticesInv
<1>1. NoticesIInv => NoticesInv
    BY DEF NoticesIInv, NoticesInv, Well, Delivered
<1> QED
    BY <1>1, NoticesStart, NoticesStep, PTL DEF NoticesSpec

(* After the erasure of an account no worker takes up a letter to its      *)
(* address: the erasure empties every row, and neither a draft nor a retry *)
(* puts the address back (privacy_repository.anonymize_user, outbox.py     *)
(* erase_for_user and requeue).                                            *)
THEOREM ErasedNeverClaimed == NoticesSpec => ErasedUnclaimed
<1>1. ASSUME NoticesIInv, NoticesNext, NEW w \in Workers, smooth, TakesUpOwn(w)
      PROVE  account[sender'[w].key[2]] # "erased"
    <2>1. sender \in [Workers -> Slot] /\ NothingErased /\ NoticesTypeOK
        BY <1>1 DEF NoticesIInv, NoticesTypeOK, Slot, Well
    <2>2. sender[w].key = <<>> /\ sender'[w].key # <<>> /\ sender'[w].own
        BY <1>1 DEF TakesUpOwn
    <2>3. ASSUME NEW v \in Workers, StartPass(v) PROVE FALSE
        <3>1. sender' = [sender EXCEPT ![v].due = Due(Release(box))]
            BY <2>3 DEF StartPass
        <3>2. sender'[w].key = sender[w].key
            BY <2>1, <3>1 DEF Slot
        <3> QED
            BY <2>2, <3>2
    <2>4. ASSUME NEW v \in Workers, Sent(v) \/ NotSent(v) \/ WorkerDies(v) PROVE FALSE
        <3>1. v # w
            BY <2>1, <2>2, <2>4 DEF Sent, NotSent, WorkerDies, Resting
        <3>2. sender'[w] = sender[w]
            BY <2>1, <2>4, <3>1 DEF Sent, NotSent, WorkerDies, Settle
        <3> QED
            BY <2>2, <3>2
    <2>5. ASSUME NEW v \in Workers, NEW k \in Keys, Claim(v, k)
          PROVE  account[sender'[w].key[2]] # "erased"
        <3>1. v = w
            BY <2>1, <2>2, <2>5, Claiming
        <3>2. sender'[w].key = k /\ box[k].own
            BY <2>1, <2>2, <2>5, <3>1, Claiming
        <3> QED
            BY <2>1, <3>2 DEF NothingErased
    <2>6. sender' # sender
        BY <2>2
    <2> QED
        BY <1>1, <2>3, <2>4, <2>5, <2>6
           DEF NoticesNext, Act, CommitAct, FactMoves, Scan, RetryDue, ClaimAges, Requeue,
               Purge, Erase, VerifyEmail
<1>2. NoticesIInv /\ [NoticesNext]_noticeVars =>
        [\A w \in Workers : smooth /\ TakesUpOwn(w) =>
            account[sender'[w].key[2]] # "erased"]_noticeVars
    BY <1>1
<1> QED
    BY <1>2, NoticesStart, NoticesStep, PTL DEF NoticesSpec, ErasedUnclaimed

=============================================================================
