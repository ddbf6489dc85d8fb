----------------------------- MODULE Settlement -----------------------------
(***************************************************************************)
(* The optional payment of a decision or of an agreement: one row per key  *)
(* of charge, the Checkout sessions that Stripe holds, and the events that *)
(* its webhook delivers at least once and in any order.                    *)
(*                                                                         *)
(* The key is the hash of the attestation in force, or of the proposal the *)
(* parties accepted: a corrected decision is charged anew.                 *)
(***************************************************************************)
EXTENDS Naturals

CONSTANTS MaxSessions   \* bound on the Checkout sessions

ASSUME SettlementAssumption == MaxSessions \in Nat \ {0}

VARIABLES
  payments,   \* the rows of settlement_payments, by key
  checkout,   \* the Checkout sessions at Stripe, by number
  events      \* the events Stripe has for the webhook

settlementVars == <<payments, checkout, events>>

Key == {"proposal", "original", "corrected"}
SessionId == 1..MaxSessions
NoSession == 0

Payment == [exists : BOOLEAN, session : SessionId \cup {NoSession},
            status : {"pending", "paid", "failed", "expired"}]

NoPayment == [exists |-> FALSE, session |-> NoSession, status |-> "pending"]

(* Stripe's side: a session is open until it is paid or expires; a slow    *)
(* means of payment leaves it complete with the money still on its way.    *)
Checkout == [state : {"none", "open", "complete", "expired"},
             money : {"none", "processing", "paid", "failed"}, key : Key]

NoCheckout == [state |-> "none", money |-> "none", key |-> "original"]

Event == [session : SessionId, status : {"paid", "failed", "expired"}]

Used == {i \in SessionId : checkout[i].state # "none"}

(* Money of the payer, taken or about to be.                               *)
Charged == {i \in SessionId : checkout[i].money \in {"processing", "paid"}}

-----------------------------------------------------------------------------
(* The route, on the row it has read.                                      *)

(* Mutant of MayCharge: the session is asked for only if it is open.       *)
MayChargeUnlessOpen(p) ==
  /\ p.status # "paid"
  /\ p.session # NoSession => checkout[p.session].state # "open"

(* An open session is handed out again; a complete one waits for its       *)
(* webhook; a paid charge is over.                                         *)
MayCharge(p) ==
  /\ p.status # "paid"
  /\ p.session # NoSession => checkout[p.session].state \notin {"open", "complete"}

(* The row is there or is inserted; the key is unique, so a request that   *)
(* loses the race reads the row of the winner.                             *)
FindOrCreate(k) == [payments EXCEPT ![k].exists = TRUE]

(* A new session, and its number written on the row.  The status is        *)
(* written only when it differs from the one that was read.                *)
OpenSession(k, i, was) ==
  /\ i \notin Used
  /\ \A j \in 1..(i - 1) : j \in Used
  /\ checkout' = [checkout EXCEPT ![i] = [state |-> "open", money |-> "none", key |-> k]]
  /\ payments' = [payments EXCEPT ![k].session = i,
                    ![k].status = IF was = "pending" THEN @ ELSE "pending"]
  /\ UNCHANGED events

-----------------------------------------------------------------------------
(* Stripe.                                                                 *)

PayerPays(i, money) ==
  /\ checkout[i].state = "open"
  /\ checkout' = [checkout EXCEPT ![i].state = "complete", ![i].money = money]
  /\ events' = IF money = "paid"
               THEN events \cup {[session |-> i, status |-> "paid"]} ELSE events
  /\ UNCHANGED payments

MoneyArrives(i, money) ==
  /\ checkout[i].money = "processing"
  /\ checkout' = [checkout EXCEPT ![i].money = money]
  /\ events' = events \cup {[session |-> i, status |-> money]}
  /\ UNCHANGED payments

SessionExpires(i) ==
  /\ checkout[i].state = "open"
  /\ checkout' = [checkout EXCEPT ![i].state = "expired"]
  /\ events' = events \cup {[session |-> i, status |-> "expired"]}
  /\ UNCHANGED payments

Stripe ==
  \E i \in SessionId :
    \/ \E m \in {"processing", "paid"} : PayerPays(i, m)
    \/ \E m \in {"paid", "failed"} : MoneyArrives(i, m)
    \/ SessionExpires(i)

(* Mutant of ApplyEvent: only a pending row is written.                    *)
ApplyEventPending(p, e) == IF p.status = "pending" THEN [p EXCEPT !.status = e.status] ELSE p

(* A paid row stays paid.                                                  *)
ApplyEvent(p, e) == IF p.status = "paid" THEN p ELSE [p EXCEPT !.status = e.status]

(* The webhook: an event of a session that no row holds is ignored.        *)
Deliver(e) ==
  /\ e \in events
  /\ payments' = [k \in Key |-> IF payments[k].session = e.session
                                THEN ApplyEvent(payments[k], e) ELSE payments[k]]
  /\ UNCHANGED <<checkout, events>>

SettlementInit ==
  /\ payments = [k \in Key |-> NoPayment]
  /\ checkout = [i \in SessionId |-> NoCheckout]
  /\ events = {}

SettlementTypeOK ==
  /\ payments \in [Key -> Payment]
  /\ checkout \in [SessionId -> Checkout]
  /\ events \subseteq Event

(* Money of the payer that the platform does not know of.                  *)
Unrecorded == {i \in SessionId : checkout[i].money = "paid"
                                 /\ payments[checkout[i].key].status # "paid"}

=============================================================================
