------------------------------ MODULE Accounts ------------------------------
(***************************************************************************)
(* One account (db/access_repository.py, routes/auth.py, account.py and    *)
(* the users part of admin.py): sign-in with its lockout, links of single  *)
(* use, password reset, sessions, suspension, erasure, and the invitation  *)
(* that seats the account in a case.  A request that commits more than     *)
(* once is a sequence of steps; time may pass between them and other       *)
(* requests of the account wait.                                           *)
(***************************************************************************)
EXTENDS Integers, FiniteSets

CONSTANTS
    Links,          \* bound: AuthToken rows
    SessionIds,     \* bound: AuthSession rows
    MaxFailures     \* login_max_attempts

ASSUME AccountsAssumption ==
    MaxFailures \in Nat \ {0} /\ IsFiniteSet(Links)

VARIABLES
    user,       \* the User row
    links,      \* AuthToken rows
    sessions,   \* AuthSession rows
    invitation, \* the Invitation row, and its current token
    member,     \* is there a CaseMember row
    caseEnded,  \* every case of the account is in TERMINAL_STATUSES
    request     \* the request under way, its next step and what it has read
accountVars == <<user, links, sessions, invitation, member, caseEnded, request>>

Passwords == {"first", "second"}
Purposes == {"email_verification", "password_reset"}
NoLink == [purpose |-> "none", state |-> "none"]
NoSession == [state |-> "none", born |-> "none"]
Free == [op |-> "free", step |-> "none", link |-> "none", born |-> "none", token |-> 0]

AccountsTypeOK ==
    /\ user \in [password : Passwords, active : BOOLEAN, verified : BOOLEAN,
                 failed : 0..(MaxFailures - 1), locked : BOOLEAN, erased : BOOLEAN]
    /\ links \in [Links -> {NoLink} \cup
                  [purpose : Purposes, state : {"live", "used", "expired"}]]
    /\ sessions \in [SessionIds -> {NoSession} \cup
                     [state : {"live", "revoked"}, born : Passwords]]
    /\ invitation \in [status : {"none", "pending", "accepted", "expired"},
                       token : 0..2, late : BOOLEAN, mine : BOOLEAN]
    /\ member \in BOOLEAN /\ caseEnded \in BOOLEAN
    /\ request.step \in {"none", "create", "spend", "act", "revoke", "join"}

AccountsInit ==
    /\ user = [password |-> "first", active |-> TRUE, verified |-> FALSE,
               failed |-> 0, locked |-> FALSE, erased |-> FALSE]
    /\ links = [l \in Links |-> NoLink]
    /\ sessions = [i \in SessionIds |-> NoSession]
    /\ invitation = [status |-> "none", token |-> 0, late |-> FALSE, mine |-> TRUE]
    /\ member = FALSE /\ caseEnded = FALSE
    /\ request = Free

Idle == request = Free
At(op, step) == request.op = op /\ request.step = step
StepTo(step) == request' = [request EXCEPT !.step = step]
Done == request' = Free
Begin(r) == request' = r

-----------------------------------------------------------------------------
(***************************************************************************)
(* Sign-in: authenticate_user, then create_session.                        *)
(***************************************************************************)
FailedLogin(u) ==
    IF u.failed + 1 >= MaxFailures THEN [u EXCEPT !.failed = 0, !.locked = TRUE]
                                   ELSE [u EXCEPT !.failed = @ + 1]
ClearedLogin(u) == [u EXCEPT !.failed = 0, !.locked = FALSE]

MayTry == user.active /\ ~user.erased /\ ~user.locked

WrongPassword ==
    /\ Idle /\ MayTry
    /\ user' = FailedLogin(user)
    /\ UNCHANGED <<links, sessions, invitation, member, caseEnded, request>>

Login ==
    /\ Idle /\ MayTry
    /\ user' = ClearedLogin(user)
    /\ Begin([Free EXCEPT !.op = "login", !.step = "create", !.born = user.password])
    /\ UNCHANGED <<links, sessions, invitation, member, caseEnded>>

CreateSession(i) ==
    /\ At("login", "create") /\ sessions[i] = NoSession
    /\ sessions' = [sessions EXCEPT ![i] = [state |-> "live", born |-> request.born]]
    /\ Done
    /\ UNCHANGED <<user, links, invitation, member, caseEnded>>

(* get_user_by_token: the session stands and so does its account. *)
Opens(i) == sessions[i].state = "live" /\ user.active
Logout(i) ==
    /\ sessions[i].state = "live"
    /\ sessions' = [sessions EXCEPT ![i].state = "revoked"]
    /\ UNCHANGED <<user, links, invitation, member, caseEnded, request>>

LockEnds ==
    /\ user.locked
    /\ user' = [user EXCEPT !.locked = FALSE]
    /\ UNCHANGED <<links, sessions, invitation, member, caseEnded, request>>

-----------------------------------------------------------------------------
(***************************************************************************)
(* Links: issue_auth_token cancels the earlier ones of the purpose;        *)
(* consume_auth_token reads the row, then marks it.                        *)
(***************************************************************************)
Issued(p, l) ==
    [x \in Links |->
        IF x = l THEN [purpose |-> p, state |-> "live"]
        ELSE IF links[x].purpose = p /\ links[x].state = "live"
        THEN [links[x] EXCEPT !.state = "used"] ELSE links[x]]

(* register, resend_verification; request_password_reset. *)
IssueLink(p, l) ==
    /\ Idle /\ user.active /\ links[l] = NoLink
    /\ p = "email_verification" => ~user.verified
    /\ links' = Issued(p, l)
    /\ UNCHANGED <<user, sessions, invitation, member, caseEnded, request>>

LinkExpires(l) ==
    /\ links[l].state = "live"
    /\ links' = [links EXCEPT ![l].state = "expired"]
    /\ UNCHANGED <<user, sessions, invitation, member, caseEnded, request>>

Usable(l) == links[l].state = "live" /\ user.active
OpenLink(l) ==
    /\ Idle /\ Usable(l)
    /\ Begin([Free EXCEPT !.op = links[l].purpose, !.step = "spend", !.link = l])
    /\ UNCHANGED <<user, links, sessions, invitation, member, caseEnded>>

SpendLink ==
    /\ request.step = "spend"
    /\ links' = [links EXCEPT ![request.link].state = "used"]
    /\ StepTo("act")
    /\ UNCHANGED <<user, sessions, invitation, member, caseEnded>>

Verify ==
    /\ At("email_verification", "act")
    /\ user' = [user EXCEPT !.verified = TRUE]
    /\ Done
    /\ UNCHANGED <<links, sessions, invitation, member, caseEnded>>

(* set_password, then revoke_user_sessions. *)
SetPassword(p) ==
    /\ At("password_reset", "act")
    /\ p # user.password
    /\ user' = [ClearedLogin(user) EXCEPT !.password = p, !.verified = TRUE]
    /\ StepTo("revoke")
    /\ UNCHANGED <<links, sessions, invitation, member, caseEnded>>

(* Mutant: the open sessions survive the reset and the erasure. *)
RevokedNone == sessions

Revoked == [i \in SessionIds |->
    IF sessions[i].state = "live" THEN [sessions[i] EXCEPT !.state = "revoked"] ELSE sessions[i]]
RevokeSessions ==
    /\ request.step = "revoke"
    /\ sessions' = Revoked
    /\ Done
    /\ UNCHANGED <<user, links, invitation, member, caseEnded>>

-----------------------------------------------------------------------------
(***************************************************************************)
(* Suspension by the operation, and erasure.                               *)
(***************************************************************************)
Suspend ==
    /\ Idle /\ user.active
    /\ user' = [user EXCEPT !.active = FALSE]
    /\ Begin([Free EXCEPT !.op = "suspend", !.step = "revoke"])
    /\ UNCHANGED <<links, sessions, invitation, member, caseEnded>>

(* admin_set_user_active does not ask whether the account was erased. *)
Reactivate ==
    /\ Idle /\ ~user.active
    /\ user' = [user EXCEPT !.active = TRUE]
    /\ UNCHANGED <<links, sessions, invitation, member, caseEnded, request>>

(* anonymize_user: one transaction. *)
EraseAccount(i) ==
    /\ Idle /\ Opens(i)
    /\ member => caseEnded
    /\ user' = [ClearedLogin(user) EXCEPT !.active = FALSE, !.verified = FALSE, !.erased = TRUE]
    /\ sessions' = Revoked
    /\ links' = [l \in Links |-> NoLink]
    /\ invitation' = [invitation EXCEPT !.mine = FALSE]
    /\ UNCHANGED <<member, caseEnded, request>>

-----------------------------------------------------------------------------
(***************************************************************************)
(* The invitation of the case: created, sent again under another token,    *)
(* accepted by the account it names.                                       *)
(***************************************************************************)
Invite ==
    /\ invitation.status \in {"none", "expired"} /\ invitation.token < 2
    /\ invitation' = [invitation EXCEPT !.status = "pending", !.token = @ + 1, !.late = FALSE]
    /\ UNCHANGED <<user, links, sessions, member, caseEnded, request>>

Reissue ==
    /\ invitation.status = "pending" /\ invitation.token < 2
    /\ invitation' = [invitation EXCEPT !.token = @ + 1, !.late = FALSE]
    /\ UNCHANGED <<user, links, sessions, member, caseEnded, request>>

InvitationAges ==
    /\ invitation.status = "pending" /\ ~invitation.late
    /\ invitation' = [invitation EXCEPT !.late = TRUE]
    /\ UNCHANGED <<user, links, sessions, member, caseEnded, request>>

(* accept_invitation reads the row by its token ... *)
OpenInvitation(i, token) ==
    /\ Idle /\ Opens(i)
    /\ invitation.status = "pending" /\ invitation.token = token
    /\ IF invitation.late
       THEN /\ invitation' = [invitation EXCEPT !.status = "expired"]
            /\ UNCHANGED request
       ELSE /\ invitation.mine
            /\ Begin([Free EXCEPT !.op = "accept", !.step = "join", !.token = token])
            /\ UNCHANGED invitation
    /\ UNCHANGED <<user, links, sessions, member, caseEnded>>

(* ... then seats the member, marks the row and verifies the e-mail. *)
Join ==
    /\ At("accept", "join")
    /\ member' = TRUE
    /\ invitation' = [invitation EXCEPT !.status = "accepted"]
    /\ user' = [user EXCEPT !.verified = TRUE]
    /\ Done
    /\ UNCHANGED <<links, sessions, caseEnded>>

CaseEnds ==
    /\ member /\ ~caseEnded /\ caseEnded' = TRUE
    /\ UNCHANGED <<user, links, sessions, invitation, member, request>>

AccountsNext ==
    \/ WrongPassword \/ Login \/ SpendLink \/ Verify \/ RevokeSessions
    \/ Suspend \/ Reactivate \/ Join
    \/ \E i \in SessionIds : CreateSession(i) \/ EraseAccount(i) \/ Logout(i)
    \/ \E i \in SessionIds, t \in 1..2 : OpenInvitation(i, t)
    \/ \E l \in Links, p \in Purposes : IssueLink(p, l)
    \/ \E l \in Links : OpenLink(l) \/ LinkExpires(l)
    \/ \E p \in Passwords : SetPassword(p)
    \/ LockEnds \/ Invite \/ Reissue \/ InvitationAges \/ CaseEnds

AccountsSpec == AccountsInit /\ [][AccountsNext]_accountVars

-----------------------------------------------------------------------------
(* Between requests, every session that opens the account was opened with  *)
(* its present password ("Todas as sessões abertas foram encerradas",      *)
(* routes/auth.py confirm_password_reset), and none opens an erased one,   *)
(* even after the operation reactivates it.                                *)
AccountsInv ==
    /\ AccountsTypeOK
    /\ request = Free =>
        \A i \in SessionIds : Opens(i) =>
            sessions[i].born = user.password /\ ~user.erased
=============================================================================
