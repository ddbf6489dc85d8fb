---------------------------- MODULE PartiesProofs ----------------------------
(***************************************************************************)
(* Theorems about the parties' accounts and their pact of arbitration, for *)
(* any sets of links and sessions, any limit of failures, any declarations, *)
(* terms and filings and any number of acts that overtake a slow request:  *)
(* between requests, whoever is inside the account came in with its        *)
(* present password, and nobody is inside an erased one; an award rests on *)
(* a declaration of the arbitrator that both parties were shown.           *)
(***************************************************************************)
EXTENDS Accounts, ArbitrationPact, TLAPS

-----------------------------------------------------------------------------
(* Accounts: the inductive invariant.                                      *)

Request == [op : {"free", "login", "suspend", "accept"} \cup Purposes,
            step : {"none", "create", "spend", "act", "revoke", "join"},
            link : Links \cup {"none"}, born : Passwords \cup {"none"}, token : 0..2]

User == [password : Passwords, active : BOOLEAN, verified : BOOLEAN,
         failed : 0..(MaxFailures - 1), locked : BOOLEAN, erased : BOOLEAN]

Invitations == [status : {"none", "pending", "accepted", "expired"},
                token : 0..2, late : BOOLEAN, mine : BOOLEAN]

(* The request under way is one of the sequences of the routes.            *)
RequestOK ==
    /\ request \in Request
    /\ request.step = "none" <=> request = Free
    /\ request.step = "spend" => request.link \in Links /\ links[request.link] # NoLink

Live(i) == sessions[i].state = "live"

(* A session is only ever live in an account that is not erased; a reset   *)
(* and a suspension leave live sessions until their second commit.         *)
LiveSessions ==
    \A i \in SessionIds : Live(i) =>
        /\ ~user.erased
        /\ request.step # "revoke" => user.active /\ sessions[i].born = user.password

(* Between the two commits of a sign-in nothing happens to the account.    *)
SigningIn ==
    request.step = "create" =>
        request.op = "login" /\ user.active /\ ~user.erased /\ request.born = user.password

AccountsIInv == AccountsTypeOK /\ RequestOK /\ LiveSessions /\ SigningIn

-----------------------------------------------------------------------------
(* Types.                                                                  *)

(* The counter of failures stays under the limit that locks the account.   *)
LEMMA LoginTypes ==
    ASSUME AccountsTypeOK
    PROVE  /\ FailedLogin(user) \in User /\ ClearedLogin(user) \in User
           /\ FailedLogin(user).password = user.password
           /\ FailedLogin(user).active = user.active /\ FailedLogin(user).erased = user.erased
           /\ ClearedLogin(user).password = user.password
           /\ ClearedLogin(user).active = user.active /\ ClearedLogin(user).erased = user.erased
<1>1. user \in User /\ user.failed \in 0..(MaxFailures - 1)
    BY DEF AccountsTypeOK, User
<1>2. 0 \in 0..(MaxFailures - 1)
    BY AccountsAssumption
<1>3. ClearedLogin(user) \in User
    BY <1>1, <1>2 DEF ClearedLogin, User
<1>4. CASE user.failed + 1 >= MaxFailures
    BY <1>1, <1>2, <1>3, <1>4 DEF FailedLogin, ClearedLogin, User
<1>5. CASE ~(user.failed + 1 >= MaxFailures)
    <2>1. user.failed + 1 \in 0..(MaxFailures - 1)
        BY <1>1, <1>5, AccountsAssumption
    <2>2. FailedLogin(user) = [user EXCEPT !.failed = user.failed + 1]
        BY <1>5 DEF FailedLogin
    <2> QED
        BY <1>1, <1>3, <2>1, <2>2 DEF ClearedLogin, User
<1> QED
    BY <1>4, <1>5

(* A request that begins or goes on is well formed, and so is one that is  *)
(* over.                                                                   *)
LEMMA FreeIsOK ==
    /\ Free \in Request /\ Free.step = "none" /\ Free.op = "free"
    /\ \A r \in Request, step \in {"create", "spend", "act", "revoke", "join"} :
         [r EXCEPT !.step = step] \in Request
    /\ \A p \in Passwords : [Free EXCEPT !.op = "login", !.step = "create", !.born = p] \in Request
    /\ \A p \in Purposes, l \in Links :
         [Free EXCEPT !.op = p, !.step = "spend", !.link = l] \in Request
    /\ [Free EXCEPT !.op = "suspend", !.step = "revoke"] \in Request
    /\ \A t \in 1..2 : [Free EXCEPT !.op = "accept", !.step = "join", !.token = t] \in Request
<1>1. Free \in Request /\ Free.step = "none" /\ Free.op = "free"
    BY DEF Free, Request
<1>2. \A r \in Request, step \in {"create", "spend", "act", "revoke", "join"} :
         [r EXCEPT !.step = step] \in Request
    BY DEF Request
<1>3. \A r \in Request, p \in Passwords :
         [r EXCEPT !.op = "login", !.step = "create", !.born = p] \in Request
    BY DEF Request
<1>4. \A r \in Request, p \in Purposes, l \in Links :
         [r EXCEPT !.op = p, !.step = "spend", !.link = l] \in Request
    BY DEF Request
<1>5. \A r \in Request : [r EXCEPT !.op = "suspend", !.step = "revoke"] \in Request
    BY DEF Request
<1>6. \A r \in Request, t \in 1..2 :
         [r EXCEPT !.op = "accept", !.step = "join", !.token = t] \in Request
    <2>1. 1..2 \subseteq 0..2
        OBVIOUS
    <2> QED
        BY <2>1 DEF Request
<1> QED
    BY <1>1, <1>2, <1>3, <1>4, <1>5, <1>6

(* What a step leaves alone keeps the rules of the sessions.               *)
LEMMA AccountKeep ==
    ASSUME LiveSessions, SigningIn, RequestOK, RequestOK',
           user'.active = user.active, user'.erased = user.erased,
           user'.password = user.password,
           \A i \in SessionIds : Live(i)' => sessions'[i] = sessions[i],
           request' = request \/ (request.step # "revoke" /\ request'.step # "create")
    PROVE  LiveSessions' /\ SigningIn'
BY DEF LiveSessions, SigningIn, Live

-----------------------------------------------------------------------------
(* The steps.                                                              *)

(* Sign-in, its failures and the end of a lock.                            *)
LEMMA LoginSteps ==
    ASSUME AccountsIInv,
           WrongPassword \/ Login \/ LockEnds \/ \E i \in SessionIds : CreateSession(i) \/ Logout(i)
    PROVE  AccountsIInv'
<1> USE DEF AccountsIInv
<1>1. CASE WrongPassword \/ LockEnds
    <2>1. /\ UNCHANGED <<links, sessions, invitation, member, caseEnded, request>>
          /\ user' \in User
          /\ user'.active = user.active /\ user'.erased = user.erased
          /\ user'.password = user.password
        BY <1>1, LoginTypes, ZenonT(40) DEF WrongPassword, LockEnds, AccountsTypeOK, User
    <2>2. AccountsTypeOK' /\ RequestOK'
        BY <2>1 DEF AccountsTypeOK, RequestOK, User
    <2> QED
        BY <2>1, <2>2, AccountKeep
<1>2. CASE Login
    <2>1. /\ UNCHANGED <<links, sessions, invitation, member, caseEnded>>
          /\ request = Free /\ user.active /\ ~user.erased /\ user' = ClearedLogin(user)
          /\ request' = [Free EXCEPT !.op = "login", !.step = "create", !.born = user.password]
        BY <1>2 DEF Login, Idle, MayTry, Begin
    <2>2. request'.step = "create" /\ request'.op = "login" /\ request'.born = user.password
        BY <2>1, FreeIsOK DEF Free
    <2>3. AccountsTypeOK'
        BY <2>1, <2>2, LoginTypes, ZenonT(40) DEF AccountsTypeOK, User
    <2>4. RequestOK'
        BY <2>1, <2>2, FreeIsOK DEF RequestOK, AccountsTypeOK
    <2>5. LiveSessions' /\ SigningIn'
        BY <2>1, <2>2, LoginTypes, FreeIsOK DEF LiveSessions, SigningIn, Live
    <2> QED
        BY <2>3, <2>4, <2>5
<1>3. ASSUME NEW i \in SessionIds, CreateSession(i) PROVE AccountsIInv'
    <2>1. /\ UNCHANGED <<user, links, invitation, member, caseEnded>>
          /\ request' = Free /\ request.step = "create"
          /\ sessions' = [sessions EXCEPT ![i] = [state |-> "live", born |-> request.born]]
        BY <1>3 DEF CreateSession, At, Done
    <2>2. user.active /\ ~user.erased /\ request.born = user.password
        BY <2>1 DEF SigningIn
    <2>3. AccountsTypeOK' /\ RequestOK'
        BY <2>1, <2>2, FreeIsOK DEF AccountsTypeOK, RequestOK
    <2>4. LiveSessions' /\ SigningIn'
        BY <2>1, <2>2, FreeIsOK DEF LiveSessions, SigningIn, Live, AccountsTypeOK
    <2> QED
        BY <2>3, <2>4
<1>4. ASSUME NEW i \in SessionIds, Logout(i) PROVE AccountsIInv'
    <2>1. /\ UNCHANGED <<user, links, invitation, member, caseEnded, request>>
          /\ sessions[i].state = "live"
          /\ sessions' = [sessions EXCEPT ![i].state = "revoked"]
        BY <1>4 DEF Logout
    <2>2. sessions[i] \in [state : {"live", "revoked"}, born : Passwords]
        BY <2>1 DEF AccountsTypeOK, NoSession
    <2>3. AccountsTypeOK' /\ RequestOK'
        BY <2>1, <2>2 DEF AccountsTypeOK, RequestOK
    <2>4. \A j \in SessionIds : Live(j)' => sessions'[j] = sessions[j]
        BY <2>1, <2>2 DEF Live, AccountsTypeOK
    <2> QED
        BY <2>1, <2>3, <2>4, AccountKeep
<1> QED
    BY <1>1, <1>2, <1>3, <1>4

(* The links, and the confirmation of the e-mail.                          *)
LEMMA LinkSteps ==
    ASSUME AccountsIInv,
           \/ SpendLink \/ Verify
           \/ \E l \in Links, p \in Purposes : IssueLink(p, l)
           \/ \E l \in Links : OpenLink(l) \/ LinkExpires(l)
    PROVE  AccountsIInv'
<1> USE DEF AccountsIInv
<1> DEFINE Row == [purpose : Purposes, state : {"live", "used", "expired"}]
<1>1. /\ links \in [Links -> {NoLink} \cup Row] /\ NoLink.state = "none"
      /\ \A r \in Row : /\ [r EXCEPT !.state = "used"] \in Row
                        /\ [r EXCEPT !.state = "expired"] \in Row
      /\ \A r \in Row : r # NoLink
    BY DEF AccountsTypeOK, NoLink, Purposes
<1>2. ASSUME NEW l \in Links, NEW p \in Purposes, IssueLink(p, l) PROVE AccountsIInv'
    <2>1. /\ UNCHANGED <<user, sessions, invitation, member, caseEnded, request>>
          /\ request = Free /\ links' = Issued(p, l)
        BY <1>2 DEF IssueLink, Idle
    <2>2. Issued(p, l) \in [Links -> {NoLink} \cup Row]
        BY <1>1 DEF Issued
    <2>3. AccountsTypeOK' /\ RequestOK'
        BY <2>1, <2>2, FreeIsOK, ZenonT(40) DEF AccountsTypeOK, RequestOK
    <2> QED
        BY <2>1, <2>3, AccountKeep
<1>3. ASSUME NEW l \in Links, LinkExpires(l) PROVE AccountsIInv'
    <2>1. /\ UNCHANGED <<user, sessions, invitation, member, caseEnded, request>>
          /\ links[l] \in Row
          /\ links' = [links EXCEPT ![l] = [links[l] EXCEPT !.state = "expired"]]
        BY <1>1, <1>3 DEF LinkExpires
    <2>2. /\ links' \in [Links -> {NoLink} \cup Row]
          /\ \A x \in Links : links[x] # NoLink => links'[x] # NoLink
        BY <1>1, <2>1
    <2>3. AccountsTypeOK' /\ RequestOK'
        BY <2>1, <2>2 DEF AccountsTypeOK, RequestOK
    <2> QED
        BY <2>1, <2>3, AccountKeep
<1>4. ASSUME NEW l \in Links, OpenLink(l) PROVE AccountsIInv'
    <2>1. /\ UNCHANGED <<user, links, sessions, invitation, member, caseEnded>>
          /\ request = Free /\ links[l] \in Row
          /\ request' = [Free EXCEPT !.op = links[l].purpose, !.step = "spend", !.link = l]
        BY <1>1, <1>4 DEF OpenLink, Idle, Usable, Begin
    <2>2. /\ request'.op = links[l].purpose /\ request'.step = "spend" /\ request'.link = l
          /\ links[l].purpose \in Purposes /\ links[l] # NoLink
        BY <1>1, <2>1 DEF Free
    <2>3. AccountsTypeOK' /\ RequestOK'
        BY <2>1, <2>2, FreeIsOK, ZenonT(40) DEF AccountsTypeOK, RequestOK
    <2> QED
        BY <2>1, <2>2, <2>3, FreeIsOK, AccountKeep
<1>5. CASE SpendLink
    <2>1. /\ UNCHANGED <<user, sessions, invitation, member, caseEnded>>
          /\ request.step = "spend" /\ request' = [request EXCEPT !.step = "act"]
          /\ links' = [links EXCEPT ![request.link].state = "used"]
        BY <1>5 DEF SpendLink, StepTo
    <2>2. request.link \in Links /\ links[request.link] \in Row
        BY <1>1, <2>1 DEF RequestOK
    <2>3. links' \in [Links -> {NoLink} \cup Row]
        BY <1>1, <2>1, <2>2
    <2>4. request'.step = "act"
        BY <2>1 DEF RequestOK
    <2>5. AccountsTypeOK' /\ RequestOK'
        BY <2>1, <2>3, <2>4, FreeIsOK DEF AccountsTypeOK, RequestOK
    <2> QED
        BY <2>1, <2>4, <2>5, AccountKeep
<1>6. CASE Verify
    <2>1. /\ UNCHANGED <<links, sessions, invitation, member, caseEnded>>
          /\ request.step = "act" /\ request' = Free
          /\ user' = [user EXCEPT !.verified = TRUE]
        BY <1>6 DEF Verify, At, Done
    <2>2. AccountsTypeOK' /\ RequestOK'
        BY <2>1, FreeIsOK DEF AccountsTypeOK, RequestOK
    <2> QED
        BY <2>1, <2>2, FreeIsOK, AccountKeep DEF AccountsTypeOK
<1> QED
    BY <1>2, <1>3, <1>4, <1>5, <1>6

(* The sessions that are revoked are closed, whatever they were.           *)
LEMMA RevokedAll ==
    ASSUME AccountsTypeOK
    PROVE  /\ Revoked \in [SessionIds -> {NoSession} \cup
                           [state : {"live", "revoked"}, born : Passwords]]
           /\ \A i \in SessionIds : Revoked[i].state # "live"
BY DEF AccountsTypeOK, Revoked, NoSession

(* The reset of the password, the suspension and its end, and erasure.     *)
LEMMA DoorSteps ==
    ASSUME AccountsIInv,
           \/ RevokeSessions \/ Suspend \/ Reactivate
           \/ \E p \in Passwords : SetPassword(p)
           \/ \E i \in SessionIds : EraseAccount(i)
    PROVE  AccountsIInv'
<1> USE DEF AccountsIInv
<1>1. CASE RevokeSessions
    <2>1. /\ UNCHANGED <<user, links, invitation, member, caseEnded>>
          /\ sessions' = Revoked /\ request' = Free
        BY <1>1 DEF RevokeSessions, Done
    <2>2. AccountsTypeOK' /\ RequestOK'
        BY <2>1, RevokedAll, FreeIsOK, ZenonT(40) DEF AccountsTypeOK, RequestOK
    <2>3. LiveSessions' /\ SigningIn'
        BY <2>1, RevokedAll, FreeIsOK DEF LiveSessions, SigningIn, Live
    <2> QED
        BY <2>2, <2>3
<1>2. CASE Suspend
    <2>1. /\ UNCHANGED <<links, sessions, invitation, member, caseEnded>>
          /\ request = Free /\ user' = [user EXCEPT !.active = FALSE]
          /\ request' = [Free EXCEPT !.op = "suspend", !.step = "revoke"]
        BY <1>2 DEF Suspend, Idle, Begin
    <2>2. request'.step = "revoke" /\ request'.op = "suspend" /\ user'.erased = user.erased
        BY <2>1 DEF Free, AccountsTypeOK
    <2>3. AccountsTypeOK' /\ RequestOK'
        BY <2>1, <2>2, FreeIsOK DEF AccountsTypeOK, RequestOK
    <2>4. LiveSessions' /\ SigningIn'
        BY <2>1, <2>2 DEF LiveSessions, SigningIn, Live
    <2> QED
        BY <2>3, <2>4
<1>3. CASE Reactivate
    <2>1. /\ UNCHANGED <<links, sessions, invitation, member, caseEnded, request>>
          /\ request = Free /\ ~user.active /\ user' = [user EXCEPT !.active = TRUE]
        BY <1>3 DEF Reactivate, Idle
    <2>2. \A i \in SessionIds : ~Live(i)
        BY <2>1, FreeIsOK DEF LiveSessions
    <2>3. AccountsTypeOK' /\ RequestOK'
        BY <2>1 DEF AccountsTypeOK, RequestOK, User
    <2>4. LiveSessions' /\ SigningIn'
        BY <2>1, <2>2, FreeIsOK DEF LiveSessions, SigningIn, Live
    <2> QED
        BY <2>3, <2>4
<1>4. ASSUME NEW p \in Passwords, SetPassword(p) PROVE AccountsIInv'
    <2>1. /\ UNCHANGED <<links, sessions, invitation, member, caseEnded>>
          /\ user' = [ClearedLogin(user) EXCEPT !.password = p, !.verified = TRUE]
          /\ request.step = "act" /\ request' = [request EXCEPT !.step = "revoke"]
        BY <1>4 DEF SetPassword, At, StepTo
    <2>2. request'.step = "revoke" /\ user'.erased = user.erased
        BY <2>1, LoginTypes DEF RequestOK
    <2>3. AccountsTypeOK' /\ RequestOK'
        BY <2>1, <2>2, LoginTypes, FreeIsOK DEF AccountsTypeOK, RequestOK, User
    <2>4. LiveSessions' /\ SigningIn'
        BY <2>1, <2>2 DEF LiveSessions, SigningIn, Live
    <2> QED
        BY <2>3, <2>4
<1>5. ASSUME NEW i \in SessionIds, EraseAccount(i) PROVE AccountsIInv'
    <2>1. /\ UNCHANGED <<member, caseEnded, request>> /\ request = Free
          /\ sessions' = Revoked /\ links' = [l \in Links |-> NoLink]
          /\ invitation' = [invitation EXCEPT !.mine = FALSE]
          /\ user' = [ClearedLogin(user) EXCEPT !.active = FALSE, !.verified = FALSE,
                                                !.erased = TRUE]
        BY <1>5 DEF EraseAccount, Idle
    <2>2. AccountsTypeOK' /\ RequestOK'
        BY <2>1, RevokedAll, LoginTypes, FreeIsOK DEF AccountsTypeOK, RequestOK, User
    <2>3. LiveSessions' /\ SigningIn'
        BY <2>1, RevokedAll, FreeIsOK DEF LiveSessions, SigningIn, Live
    <2> QED
        BY <2>2, <2>3
<1> QED
    BY <1>1, <1>2, <1>3, <1>4, <1>5

(* The invitation, and the end of the case.                                *)
LEMMA InvitationSteps ==
    ASSUME AccountsIInv,
           \/ Join \/ Invite \/ Reissue \/ InvitationAges \/ CaseEnds
           \/ \E i \in SessionIds, t \in 1..2 : OpenInvitation(i, t)
    PROVE  AccountsIInv'
<1> USE DEF AccountsIInv
<1>1. CASE Invite \/ Reissue \/ InvitationAges \/ CaseEnds
    <2>1. UNCHANGED <<user, links, sessions, request>>
        BY <1>1 DEF Invite, Reissue, InvitationAges, CaseEnds
    <2>2. invitation \in Invitations /\ invitation.token \in 0..2 /\ member \in BOOLEAN
          /\ caseEnded \in BOOLEAN
        BY DEF AccountsTypeOK, Invitations
    <2>3. ASSUME Invite \/ Reissue
          PROVE  invitation' \in Invitations /\ member' \in BOOLEAN /\ caseEnded' \in BOOLEAN
        <3>1. invitation.token + 1 \in 0..2
            BY <2>2, <2>3 DEF Invite, Reissue
        <3>2. /\ UNCHANGED <<member, caseEnded>>
              /\ \/ invitation' = [invitation EXCEPT !.status = "pending", !.late = FALSE,
                                                   !.token = invitation.token + 1]
                 \/ invitation' = [invitation EXCEPT !.late = FALSE,
                                                   !.token = invitation.token + 1]
            BY <2>3 DEF Invite, Reissue
        <3> QED
            BY <2>2, <3>1, <3>2 DEF Invitations
    <2>4. ASSUME InvitationAges \/ CaseEnds
          PROVE  invitation' \in Invitations /\ member' \in BOOLEAN /\ caseEnded' \in BOOLEAN
        BY <2>2, <2>4 DEF InvitationAges, CaseEnds, Invitations
    <2>5. invitation' \in Invitations /\ member' \in BOOLEAN /\ caseEnded' \in BOOLEAN
        BY <1>1, <2>3, <2>4
    <2>6. AccountsTypeOK' /\ RequestOK'
        BY <2>1, <2>5 DEF AccountsTypeOK, RequestOK, Invitations
    <2> QED
        BY <2>1, <2>6, AccountKeep
<1>2. CASE Join
    <2>1. /\ UNCHANGED <<links, sessions, caseEnded>> /\ member' = TRUE
          /\ invitation' = [invitation EXCEPT !.status = "accepted"]
          /\ request.step = "join" /\ request' = Free
          /\ user' = [user EXCEPT !.verified = TRUE]
        BY <1>2 DEF Join, At, Done
    <2>2. AccountsTypeOK' /\ RequestOK'
        BY <2>1, FreeIsOK DEF AccountsTypeOK, RequestOK
    <2> QED
        BY <2>1, <2>2, FreeIsOK, AccountKeep DEF AccountsTypeOK
<1>3. ASSUME NEW i \in SessionIds, NEW t \in 1..2, OpenInvitation(i, t) PROVE AccountsIInv'
    <2>1. UNCHANGED <<user, links, sessions, member, caseEnded>> /\ request = Free
        BY <1>3 DEF OpenInvitation, Idle
    <2>2. CASE invitation.late
        <3>1. request' = request /\ invitation' = [invitation EXCEPT !.status = "expired"]
            BY <1>3, <2>2 DEF OpenInvitation
        <3>2. AccountsTypeOK' /\ RequestOK'
            BY <2>1, <3>1 DEF AccountsTypeOK, RequestOK
        <3> QED
            BY <2>1, <3>1, <3>2, AccountKeep
    <2>3. CASE ~invitation.late
        <3>1. /\ invitation' = invitation
              /\ request' = [Free EXCEPT !.op = "accept", !.step = "join", !.token = t]
            BY <1>3, <2>3 DEF OpenInvitation, Begin
        <3>2. request'.step = "join"
            BY <3>1 DEF Free
        <3>3. AccountsTypeOK' /\ RequestOK'
            BY <2>1, <3>1, <3>2, FreeIsOK, ZenonT(40) DEF AccountsTypeOK, RequestOK
        <3> QED
            BY <2>1, <3>1, <3>2, <3>3, FreeIsOK, AccountKeep
    <2> QED
        BY <2>2, <2>3
<1> QED
    BY <1>1, <1>2, <1>3

-----------------------------------------------------------------------------
(* The invariant holds of a new account, and every step keeps it.          *)
LEMMA AccountsInvariant == AccountsSpec => []AccountsIInv
<1>1. ASSUME AccountsInit PROVE AccountsIInv
    <2>1. AccountsTypeOK
        <3>1. 0 \in 0..(MaxFailures - 1)
            BY AccountsAssumption
        <3>2. user \in User
            BY <1>1, <3>1 DEF AccountsInit, User, Passwords
        <3>3. invitation \in Invitations
            BY <1>1 DEF AccountsInit, Invitations
        <3>4. /\ links \in [Links -> {NoLink} \cup
                             [purpose : Purposes, state : {"live", "used", "expired"}]]
              /\ sessions \in [SessionIds -> {NoSession} \cup
                                [state : {"live", "revoked"}, born : Passwords]]
            BY <1>1 DEF AccountsInit
        <3>5. request.step = "none" /\ member \in BOOLEAN /\ caseEnded \in BOOLEAN
            BY <1>1, FreeIsOK DEF AccountsInit
        <3> QED
            BY <3>2, <3>3, <3>4, <3>5 DEF AccountsTypeOK, User, Invitations
    <2>2. RequestOK
        BY <1>1, FreeIsOK DEF AccountsInit, RequestOK
    <2>3. LiveSessions /\ SigningIn
        BY <1>1, FreeIsOK DEF AccountsInit, LiveSessions, SigningIn, Live, NoSession
    <2> QED
        BY <2>1, <2>2, <2>3 DEF AccountsIInv
<1>2. AccountsIInv /\ UNCHANGED accountVars => AccountsIInv'
    BY ZenonT(30)
       DEF accountVars, AccountsIInv, AccountsTypeOK, RequestOK, LiveSessions, SigningIn, Live
<1>3. AccountsIInv /\ [AccountsNext]_accountVars => AccountsIInv'
    BY <1>2, LoginSteps, LinkSteps, DoorSteps, InvitationSteps DEF AccountsNext
<1> QED
    BY <1>1, <1>3, PTL DEF AccountsSpec

(* Between requests every session that opens the account was opened with   *)
(* its present password, and none opens an erased one: not even a sign-in  *)
(* that was under way at the reset, nor after the operation reactivates    *)
(* the account (routes/auth.py confirm_password_reset, anonymize_user).    *)
THEOREM SessionsAreOfTheAccount == AccountsSpec => []AccountsInv
<1>1. AccountsIInv => AccountsInv
    BY FreeIsOK DEF AccountsIInv, AccountsInv, LiveSessions, Live, Opens
<1> QED
    BY <1>1, AccountsInvariant, PTL

-----------------------------------------------------------------------------
(* The pact: the inductive invariant.                                      *)

Consents == [Sides -> [accepted : BOOLEAN, terms : Terms \cup {0}]]

(* What the slow request has loaded is a case the program could have been  *)
(* in, not locked; before it loads and after it writes it holds none.      *)
Loaded == [pact : Pact, consents : Consents, locked : {FALSE}, overtaken : 0..MaxOvertaken]
Unloaded == [locked : {TRUE}, overtaken : 0..MaxOvertaken]
SlowOK == slow \in Loaded \cup Unloaded /\ (calm => slow = NoCase)

(* A confirmation, in whichever copy of the pact it is found, names a      *)
(* declaration that its party was shown: what a stale write brings back    *)
(* was confirmed in its day.                                               *)
Shows(w, s) == \A p \in Sides : w.confirmed[p] # 0 => w.confirmed[p] \in s[p]
Confirmations ==
    /\ Shows(pact, shown)
    /\ sealed # NoPact => Shows(sealed, shown)
    /\ slow.locked \/ Shows(slow.pact, shown)

(* An award is adopted only on the sealed pact that gives it its force.    *)
Endings ==
    /\ ending # "open" => sealed # NoPact
    /\ ending = "adopted" =>
           ResolutionTrack(sealed) = "arbitration" /\ ArbitratorDesignated(sealed)

LastWords ==
    calm => \A p \in Sides : pact.elections[p].elected => consents[p].accepted /\ choice[p]

PactIInv == PactTypeOK /\ SlowOK /\ Confirmations /\ Endings /\ LastWords


-----------------------------------------------------------------------------
(* The pure part.                                                          *)

(* No pact is the missing one, and no declaration is the missing one.      *)
LEMMA PactIsNotMissing ==
    /\ \A w \in Pact : w # NoPact
    /\ \A d \in Declarations : d # 0
<1>1. \A w \in Pact : w.entry # NoPact.entry
    BY DEF Pact, NoPact
<1> QED
    BY <1>1, PactAssumption

(* Each pure operation gives a pact again, and what becomes of its parts.  *)
LEMMA ElectionKeeps ==
    ASSUME NEW w \in Pact, NEW p \in Sides, NEW e \in Election
    PROVE  LET x == [w EXCEPT !.elections[p] = e] IN
           /\ x \in Pact /\ x.confirmed = w.confirmed /\ x.arbitrator = w.arbitrator
           /\ x.elections = [w.elections EXCEPT ![p] = e]
BY DEF Pact

(* Recording an acceptance withdraws every confirmation and no election.   *)
LEMMA AcceptanceKeeps ==
    ASSUME NEW w \in Pact, NEW d \in Declarations
    PROVE  /\ RecordAcceptance(w, d) \in Pact
           /\ RecordAcceptance(w, d).elections = w.elections
           /\ \A p \in Sides : RecordAcceptance(w, d).confirmed[p] = 0
BY DEF Pact, RecordAcceptance

(* Recording a confirmation binds that side to the arbitrator of the record. *)
LEMMA ConfirmationKeeps ==
    ASSUME NEW w \in Pact, NEW p \in Sides
    PROVE  /\ RecordConfirmation(w, p) \in Pact
           /\ RecordConfirmation(w, p).elections = w.elections
           /\ RecordConfirmation(w, p).confirmed = [w.confirmed EXCEPT ![p] = w.arbitrator]
BY DEF Pact, RecordConfirmation

(* An award that binds, and one that would bind, rests on the pact itself. *)
LEMMA AwardsRestOnThePact ==
    ASSUME NEW w, NEW end, LegalEffect(w, end).instrument = "sentenca_arbitral"
    PROVE  /\ ResolutionTrack(w) = "arbitration"
           /\ end = "adopted" \/ ArbitratorDesignated(w)
BY DEF LegalEffect, Effect, Term

-----------------------------------------------------------------------------
(* The views a request acts on.                                            *)

(* A request that acts has a well-formed case before it, whose             *)
(* confirmations were all shown; alone, it has the case as it is.  Its     *)
(* bookkeeping of the slow request keeps the slow request well formed.     *)
LEMMA Viewing ==
    ASSUME PactIInv, NEW v \in Views, Answer(v), calm' = calm
    PROVE  /\ v.pact \in Pact /\ v.consents \in Consents /\ Shows(v.pact, shown)
           /\ calm => v.pact = pact /\ v.consents = consents
           /\ SlowOK'
           /\ slow'.locked \in BOOLEAN /\ slow'.overtaken \in 0..MaxOvertaken
           /\ slow'.locked \/ (~slow.locked /\ slow'.pact = slow.pact)
<1> USE DEF PactIInv
<1>1. ~v.locked /\ v \in {Present} \cup (IF slow.locked THEN {} ELSE {slow})
    BY DEF Answer, Views
<1>2. Present.pact = pact /\ Present.consents = consents /\ Present.locked = (sealed # NoPact)
    BY DEF Present
<1>3. NoCase \in Unloaded /\ NoCase.locked /\ Written \in Unloaded /\ Written.locked
    BY PactAssumption DEF NoCase, Unloaded, Written
<1>4. \A u \in Unloaded : u.locked
    BY DEF Unloaded
<1>5. \A u \in Loaded : ~u.locked /\ u.pact \in Pact /\ u.consents \in Consents
    BY DEF Loaded
<1>6. /\ v.pact \in Pact /\ v.consents \in Consents /\ Shows(v.pact, shown)
      /\ calm => v.pact = pact /\ v.consents = consents
    <2>1. CASE v = Present
        BY <2>1, <1>2 DEF PactTypeOK, Consents, Confirmations
    <2>2. CASE v = slow /\ ~slow.locked
        BY <2>2, <1>3, <1>4, <1>5 DEF SlowOK, Confirmations
    <2> QED
        BY <1>1, <2>1, <2>2
<1>7. /\ SlowOK'
      /\ slow'.locked \in BOOLEAN /\ slow'.overtaken \in 0..MaxOvertaken
      /\ slow'.locked \/ (~slow.locked /\ slow'.pact = slow.pact)
    <2>1. CASE v = slow /\ slow' = Written
        BY <2>1, <1>1, <1>3 DEF SlowOK, Unloaded
    <2>2. CASE v = Present /\ slow.locked /\ UNCHANGED slow
        BY <2>2 DEF SlowOK, PactTypeOK
    <2>3. CASE /\ v = Present /\ ~slow.locked /\ slow.overtaken < MaxOvertaken
               /\ slow' = [slow EXCEPT !.overtaken = @ + 1]
        <3>1. slow \in Loaded /\ ~calm
            BY <2>3, <1>3, <1>4 DEF SlowOK
        <3>2. slow.overtaken \in 0..MaxOvertaken
            BY <3>1 DEF Loaded
        <3>3. slow.overtaken + 1 \in 0..MaxOvertaken
            BY <2>3, <3>2, PactAssumption
        <3>4. slow' \in Loaded /\ slow'.pact = slow.pact
            BY <2>3, <3>1, <3>3 DEF Loaded
        <3> QED
            BY <2>3, <3>1, <3>4, <1>5 DEF SlowOK, Loaded
    <2> QED
        BY <2>1, <2>2, <2>3 DEF Answer
<1> QED
    BY <1>6, <1>7

(* The column is written over, unless the request left it as it read it.   *)
Writes(v, w) == pact' = w \/ (w = v.pact /\ pact' = pact)

(* Whichever of the two it does, the pact stays a pact, and a request that *)
(* saw the present one leaves what it meant to.                            *)
LEMMA Writing ==
    ASSUME NEW v, NEW w \in Pact, PactTypeOK, Writes(v, w)
    PROVE  /\ pact' \in Pact /\ (pact' = pact \/ pact' = w)
           /\ v.pact = pact => pact' = w
BY DEF Writes, PactTypeOK

(* A consent written back over its own reading holds what was decided.     *)
LEMMA WritingConsent ==
    ASSUME NEW v, NEW p \in Sides, NEW c \in [accepted : BOOLEAN, terms : Terms \cup {0}],
           PactTypeOK, WriteConsent(v, p, c)
    PROVE  /\ consents' \in Consents
           /\ \A q \in Sides : q # p => consents'[q] = consents[q]
           /\ v.consents = consents => consents'[p].accepted = c.accepted
<1>1. consents \in Consents
    BY DEF PactTypeOK, Consents
<1> DEFINE row == [accepted |-> Changed(consents[p].accepted, v.consents[p].accepted, c.accepted),
                   terms |-> Changed(consents[p].terms, v.consents[p].terms, c.terms)]
<1>2. consents' = [consents EXCEPT ![p] = row]
    BY DEF WriteConsent
<1>3. row \in [accepted : BOOLEAN, terms : Terms \cup {0}]
    BY <1>1 DEF Changed, Consents
<1>4. v.consents = consents => row.accepted = c.accepted
    BY DEF Changed
<1> HIDE DEF row
<1> QED
    BY <1>1, <1>2, <1>3, <1>4 DEF Consents

(* What was shown stays shown.                                             *)
LEMMA ShownStays ==
    ASSUME NEW w, NEW s, NEW t, Shows(w, s), \A p \in Sides : s[p] \subseteq t[p]
    PROVE  Shows(w, t)
BY DEF Shows

-----------------------------------------------------------------------------
(* The steps.                                                              *)

(* A request that writes a pact whose confirmations were shown keeps the   *)
(* invariant, if it keeps the last words.                                  *)
LEMMA AnswerKeeps ==
    ASSUME PactIInv, NEW v \in Views, Answer(v), UNCHANGED <<sealed, calm, ending>>,
           NEW w \in Pact, Writes(v, w), consents' \in Consents,
           choice' \in [Sides -> BOOLEAN], shown' \in [Sides -> SUBSET Declarations],
           \A p \in Sides : shown[p] \subseteq shown'[p], Shows(w, shown'), LastWords'
    PROVE  PactIInv'
<1> USE DEF PactIInv
<1>1. /\ SlowOK' /\ slow'.locked \in BOOLEAN /\ slow'.overtaken \in 0..MaxOvertaken
      /\ slow'.locked \/ (~slow.locked /\ slow'.pact = slow.pact)
    BY Viewing
<1>2. pact' \in Pact /\ (pact' = pact \/ pact' = w)
    BY Writing
<1>3. PactTypeOK'
    BY <1>1, <1>2 DEF PactTypeOK, Consents
<1>4. Confirmations'
    <2>1. \A x : Shows(x, shown) => Shows(x, shown')
        BY ShownStays
    <2>2. Shows(pact', shown')
        BY <1>2, <2>1 DEF Confirmations
    <2>3. sealed' # NoPact => Shows(sealed', shown')
        BY <2>1 DEF Confirmations
    <2>4. slow'.locked \/ Shows(slow'.pact, shown')
        BY <1>1, <2>1 DEF Confirmations
    <2> QED
        BY <2>2, <2>3, <2>4 DEF Confirmations
<1>5. Endings'
    BY DEF Endings
<1> QED
    BY <1>1, <1>3, <1>4, <1>5

(* The history of the choices is of its type, and kept only where asked.   *)
LEMMA Choosing ==
    ASSUME PactTypeOK, NEW p \in Sides, NEW c \in BOOLEAN, Choose(p, c)
    PROVE  /\ choice' \in [Sides -> BOOLEAN]
           /\ calm => choice' = [choice EXCEPT ![p] = c]
BY DEF PactTypeOK, Choose

(* A consent, with an election or without a word on it.                    *)
LEMMA ConsentGiven ==
    ASSUME PactIInv, NEW v \in Views, NEW p \in Sides, NEW t \in TermsGiven,
           NEW says \in {"yes", "no", "kept"}, GiveConsent(v, p, t, says)
    PROVE  PactIInv'
<1> DEFINE c == [accepted |-> TRUE, terms |-> t]
           w == IF says = "kept" THEN v.pact ELSE RecordElection(v.pact, p, says = "yes")
<1>1. /\ Answer(v) /\ UNCHANGED <<sealed, calm, ending, shown>>
      /\ WriteConsent(v, p, c) /\ Writes(v, w)
      /\ Choose(p, IF says = "kept" THEN choice[p] ELSE says = "yes")
    BY DEF GiveConsent, Writes
<1>2. /\ v.pact \in Pact /\ Shows(v.pact, shown)
      /\ calm => v.pact = pact /\ v.consents = consents
    BY <1>1, Viewing
<1>3. c \in [accepted : BOOLEAN, terms : Terms \cup {0}] /\ c.accepted
    BY DEF TermsGiven
<1>4. /\ w \in Pact /\ w.confirmed = v.pact.confirmed
      /\ \A q \in Sides : q # p => w.elections[q] = v.pact.elections[q]
      /\ says = "kept" => w = v.pact
      /\ says # "kept" => w.elections[p].elected = (says = "yes")
    <2>1. CASE says = "kept"
        BY <2>1, <1>2
    <2>2. CASE says # "kept"
        <3> DEFINE e == [recorded |-> TRUE, elected |-> says = "yes",
                         byConsumer |-> v.pact.consumer = p]
        <3>1. e \in Election /\ e.elected = (says = "yes")
            BY DEF Election
        <3>2. w = [v.pact EXCEPT !.elections[p] = e]
            BY <2>2 DEF RecordElection
        <3>3. p \in DOMAIN v.pact.elections
            BY <1>2 DEF Pact
        <3> HIDE DEF e, w
        <3> QED
            BY <2>2, <1>2, <3>1, <3>2, <3>3, ElectionKeeps
    <2> QED
        BY <2>1, <2>2
<1> HIDE DEF c, w
<1>5. /\ consents' \in Consents
      /\ \A q \in Sides : q # p => consents'[q] = consents[q]
      /\ calm => consents'[p].accepted
    BY <1>1, <1>2, <1>3, WritingConsent DEF PactIInv
<1>6. calm => pact' = w
    BY <1>1, <1>2, <1>4, Writing DEF PactIInv
<1>7. /\ choice' \in [Sides -> BOOLEAN]
      /\ calm => choice' =
             [choice EXCEPT ![p] = IF says = "kept" THEN choice[p] ELSE says = "yes"]
    <2>1. choice \in [Sides -> BOOLEAN] /\ PactTypeOK
        BY DEF PactIInv, PactTypeOK
    <2>2. (IF says = "kept" THEN choice[p] ELSE says = "yes") \in BOOLEAN
        BY <2>1
    <2> QED
        BY <1>1, <2>1, <2>2, Choosing
<1>8. LastWords'
    <2> SUFFICES ASSUME calm, NEW q \in Sides, w.elections[q].elected
                 PROVE  consents'[q].accepted /\ choice'[q]
        BY <1>1, <1>6 DEF LastWords
    <2>1. choice \in [Sides -> BOOLEAN] /\ (pact.elections[q].elected =>
                                                consents[q].accepted /\ choice[q])
        BY DEF PactIInv, PactTypeOK, LastWords
    <2>2. CASE q # p
        BY <2>1, <2>2, <1>2, <1>4, <1>5, <1>7
    <2>3. CASE q = p
        BY <2>1, <2>3, <1>2, <1>4, <1>5, <1>7
    <2> QED
        BY <2>2, <2>3
<1>9. Shows(w, shown') /\ shown' \in [Sides -> SUBSET Declarations]
    BY <1>1, <1>2, <1>4 DEF Shows, PactIInv, PactTypeOK
<1> QED
    BY <1>1, <1>4, <1>5, <1>7, <1>8, <1>9, AnswerKeeps

(* A consent withdrawn takes its election with it.                         *)
LEMMA ConsentWithdrawn ==
    ASSUME PactIInv, NEW v \in Views, NEW p \in Sides, WithdrawConsent(v, p)
    PROVE  PactIInv'
<1> DEFINE w == ClearElection(v.pact, p)
<1>1. /\ Answer(v) /\ UNCHANGED <<sealed, calm, ending, shown>>
      /\ WriteConsent(v, p, NoTerms) /\ Writes(v, w) /\ Choose(p, FALSE)
    BY DEF WithdrawConsent, Writes, Changed
<1>2. /\ v.pact \in Pact /\ Shows(v.pact, shown)
      /\ calm => v.pact = pact /\ v.consents = consents
    BY <1>1, Viewing
<1>3. NoTerms \in [accepted : BOOLEAN, terms : Terms \cup {0}]
    BY DEF NoTerms
<1>4. /\ w \in Pact /\ w.confirmed = v.pact.confirmed
      /\ \A q \in Sides : q # p => w.elections[q] = v.pact.elections[q]
      /\ ~w.elections[p].elected
    <2>1. NoElection \in Election /\ ~NoElection.elected
        BY DEF NoElection, Election
    <2>2. p \in DOMAIN v.pact.elections /\ w = [v.pact EXCEPT !.elections[p] = NoElection]
        BY <1>2 DEF ClearElection, Pact
    <2> HIDE DEF w
    <2> QED
        BY <1>2, <2>1, <2>2, ElectionKeeps
<1> HIDE DEF w
<1>5. consents' \in Consents /\ \A q \in Sides : q # p => consents'[q] = consents[q]
    BY <1>1, <1>3, WritingConsent DEF PactIInv
<1>6. calm => pact' = w
    BY <1>1, <1>2, <1>4, Writing DEF PactIInv
<1>7. choice' \in [Sides -> BOOLEAN] /\ (calm => choice' = [choice EXCEPT ![p] = FALSE])
    BY <1>1, Choosing DEF PactIInv
<1>8. LastWords'
    <2> SUFFICES ASSUME calm, NEW q \in Sides, w.elections[q].elected
                 PROVE  consents'[q].accepted /\ choice'[q]
        BY <1>1, <1>6 DEF LastWords
    <2>1. q # p
        BY <1>4
    <2>2. pact.elections[q].elected /\ choice \in [Sides -> BOOLEAN]
        BY <2>1, <1>2, <1>4 DEF PactIInv, PactTypeOK
    <2> QED
        BY <2>1, <2>2, <1>5, <1>7 DEF PactIInv, LastWords
<1>9. Shows(w, shown') /\ shown' \in [Sides -> SUBSET Declarations]
    BY <1>1, <1>2, <1>4 DEF Shows, PactIInv, PactTypeOK
<1> QED
    BY <1>1, <1>4, <1>5, <1>7, <1>8, <1>9, AnswerKeeps

(* An arbitrator who accepts starts with no confirmation; a party confirms *)
(* the declaration it was shown.                                           *)
LEMMA ArbitratorSteps ==
    ASSUME PactIInv, NEW v \in Views,
           (\E d \in Declarations : AcceptNomination(v, d))
             \/ (\E p \in Sides : ConfirmArbitrator(v, p))
    PROVE  PactIInv'
<1>1. /\ Answer(v) /\ UNCHANGED <<consents, sealed, calm, ending, choice>>
    BY DEF AcceptNomination, ConfirmArbitrator
<1>2. /\ v.pact \in Pact /\ Shows(v.pact, shown)
      /\ calm => v.pact = pact
    BY <1>1, Viewing
<1>3. consents' \in Consents /\ choice' \in [Sides -> BOOLEAN]
    BY <1>1 DEF PactIInv, PactTypeOK, Consents
<1>4. ASSUME NEW w \in Pact, Writes(v, w), w.elections = v.pact.elections
      PROVE  LastWords'
    <2>1. calm => pact' = w
        BY <1>2, <1>4, Writing DEF PactIInv
    <2> QED
        BY <1>1, <1>2, <1>4, <2>1 DEF PactIInv, LastWords
<1>5. ASSUME NEW d \in Declarations, AcceptNomination(v, d) PROVE PactIInv'
    <2>1. /\ RecordAcceptance(v.pact, d) \in Pact
          /\ RecordAcceptance(v.pact, d).elections = v.pact.elections
          /\ Shows(RecordAcceptance(v.pact, d), shown)
        BY <1>2, AcceptanceKeeps DEF Shows
    <2>2. shown' = shown /\ Writes(v, RecordAcceptance(v.pact, d))
        BY <1>5 DEF AcceptNomination, Writes
    <2>3. shown' \in [Sides -> SUBSET Declarations]
        BY <2>2 DEF PactIInv, PactTypeOK
    <2> QED
        BY <1>1, <1>3, <1>4, <2>1, <2>2, <2>3, AnswerKeeps
<1>6. ASSUME NEW p \in Sides, ConfirmArbitrator(v, p) PROVE PactIInv'
    <2> DEFINE w == RecordConfirmation(v.pact, p)
    <2>1. /\ v.pact.arbitrator # 0 /\ Writes(v, w)
          /\ shown' = [shown EXCEPT ![p] = @ \cup {v.pact.arbitrator}]
        BY <1>6 DEF ConfirmArbitrator, Writes
    <2>2. /\ w \in Pact /\ w.elections = v.pact.elections
          /\ w.confirmed = [v.pact.confirmed EXCEPT ![p] = v.pact.arbitrator]
        BY <1>2, ConfirmationKeeps
    <2>3. v.pact.arbitrator \in Declarations /\ DOMAIN v.pact.confirmed = Sides
        BY <1>2, <2>1 DEF Pact
    <2>4. /\ shown' \in [Sides -> SUBSET Declarations]
          /\ \A q \in Sides : shown[q] \subseteq shown'[q]
          /\ v.pact.arbitrator \in shown'[p]
        BY <2>1, <2>3 DEF PactIInv, PactTypeOK
    <2> HIDE DEF w
    <2>5. Shows(w, shown')
        BY <1>2, <2>2, <2>3, <2>4 DEF Shows
    <2> QED
        BY <1>1, <1>3, <1>4, <2>1, <2>2, <2>4, <2>5, AnswerKeeps
<1> QED
    BY <1>5, <1>6

(* A slow request loads the case as it is.                                 *)
LEMMA LoadStep ==
    ASSUME PactIInv, LoadSlowly PROVE PactIInv'
<1>1. /\ ~calm /\ sealed = NoPact /\ slow' = Present
      /\ UNCHANGED <<pact, consents, sealed, calm, ending, shown, choice>>
    BY DEF LoadSlowly
<1>2. slow' = [pact |-> pact, consents |-> consents, locked |-> FALSE, overtaken |-> 0]
    BY <1>1 DEF Present
<1>3. /\ slow' \in Loaded /\ slow'.locked = FALSE /\ slow'.pact = pact
      /\ slow'.overtaken \in 0..MaxOvertaken
    BY <1>2, PactAssumption DEF Loaded, PactIInv, PactTypeOK, Consents
<1>4. PactTypeOK' /\ SlowOK'
    BY <1>1, <1>3 DEF PactIInv, PactTypeOK, SlowOK
<1>5. Confirmations' /\ Endings' /\ LastWords'
    BY <1>1, <1>3 DEF PactIInv, Confirmations, Endings, LastWords
<1> QED
    BY <1>4, <1>5 DEF PactIInv

(* The lock, the end of the procedure and what follows it.                 *)
LEMMA EndSteps ==
    ASSUME PactIInv,
           \/ SealPact \/ Acquiesce
           \/ \E kind \in {"agreement", "decision", "withdrawn", "no_merit"} : End(kind)
           \/ \E adopted \in BOOLEAN : SignAwardOn(adopted)
    PROVE  PactIInv'
<1>1. UNCHANGED <<pact, consents, slow, calm, shown, choice>>
    BY DEF SealPact, Acquiesce, End, SignAwardOn
<1>2. SlowOK' /\ LastWords'
    BY <1>1 DEF PactIInv, SlowOK, LastWords
<1>3. CASE SealPact
    <2>1. sealed = NoPact /\ sealed' = pact /\ ending' = ending
        BY <1>3 DEF SealPact
    <2>2. PactTypeOK' /\ Confirmations'
        BY <1>1, <2>1 DEF PactIInv, PactTypeOK, Confirmations
    <2>3. Endings'
        BY <2>1 DEF PactIInv, Endings
    <2> QED
        BY <1>2, <2>2, <2>3 DEF PactIInv
<1>4. CASE ~SealPact
    <2>1. /\ sealed' = sealed /\ sealed # NoPact
          /\ ending' \in {"agreement", "decision", "adopted", "declined", "acquiesced",
                          "withdrawn", "no_merit"}
          /\ ending' = "adopted" =>
                 ResolutionTrack(sealed) = "arbitration" /\ ArbitratorDesignated(sealed)
        BY <1>4 DEF Acquiesce, End, SignAwardOn, PactIInv, Endings
    <2>2. PactTypeOK' /\ Confirmations' /\ Endings'
        BY <1>1, <2>1 DEF PactIInv, PactTypeOK, Confirmations, Endings
    <2> QED
        BY <1>2, <2>2 DEF PactIInv
<1> QED
    BY <1>3, <1>4

-----------------------------------------------------------------------------
(* Every filing that is taken is a pact with nothing in it.                *)
LEMMA FiledPact ==
    ASSUME NEW f \in Filing
    PROVE  /\ BuildPathway(f) \in Pact
           /\ \A p \in Sides : /\ ~BuildPathway(f).elections[p].elected
                               /\ BuildPathway(f).confirmed[p] = 0
BY DEF BuildPathway, Filing, Pact, NoElection, Election, Sides

(* The invariant holds of a case just filed, and every step keeps it.      *)
LEMMA PactInvariant == PactSpec => []PactIInv
<1>1. ASSUME PactInit PROVE PactIInv
    <2>1. PICK f \in Filing : pact = BuildPathway(f)
        BY <1>1 DEF PactInit
    <2>2. /\ pact \in Pact
          /\ \A p \in Sides : ~pact.elections[p].elected /\ pact.confirmed[p] = 0
        BY <2>1, FiledPact
    <2>3. NoCase \in Unloaded /\ NoCase.locked /\ NoCase.overtaken \in 0..MaxOvertaken
        BY PactAssumption DEF NoCase, Unloaded
    <2>4. PactTypeOK /\ SlowOK
        BY <1>1, <2>2, <2>3 DEF PactInit, PactTypeOK, SlowOK, NoTerms
    <2>5. Confirmations /\ Endings /\ LastWords
        BY <1>1, <2>2, <2>3 DEF PactInit, Confirmations, Shows, Endings, LastWords
    <2> QED
        BY <2>4, <2>5 DEF PactIInv
<1>2. PactIInv /\ UNCHANGED pactVars => PactIInv'
    BY DEF pactVars, PactIInv, PactTypeOK, SlowOK, Confirmations, Endings, LastWords
<1>3. PactIInv /\ [PactNext]_pactVars => PactIInv'
    <2> SUFFICES ASSUME PactIInv, PactNext PROVE PactIInv'
        BY <1>2
    <2>1. \A v : WordsGiven(v) \subseteq {"yes", "no", "kept"}
        BY DEF WordsGiven
    <2> QED
        BY <2>1, LoadStep, ConsentGiven, ConsentWithdrawn, ArbitratorSteps, EndSteps DEF PactNext
<1> QED
    BY <1>1, <1>3, PTL DEF PactSpec

(* An arbitrator is designated only if both parties confirmed exactly the  *)
(* declaration in force, whatever requests overlap on the JSON column; an  *)
(* award binds only on an election of both and such a designation; and,    *)
(* one request at a time, an election stands only with the consent it came *)
(* with and as that party's last word (domain/arbitration.py,              *)
(* domain/pathway.py legal_effect, routes/arbitration.py).                 *)
THEOREM AwardsRestOnConfirmations == PactSpec => []PactInv
<1>1. ASSUME PactIInv PROVE PactInv
    <2>1. \A p \in Sides : ArbitratorDesignated(pact) => pact.arbitrator \in shown[p]
        BY <1>1 DEF PactIInv, Confirmations, Shows, ArbitratorDesignated
    <2>2. ASSUME sealed # NoPact, LegalEffect(sealed, ending).instrument = "sentenca_arbitral",
                 NEW p \in Sides
          PROVE  sealed.elections[p].elected /\ sealed.arbitrator \in shown[p]
        <3>1. ResolutionTrack(sealed) = "arbitration" /\ ArbitratorDesignated(sealed)
            BY <1>1, <2>2, AwardsRestOnThePact DEF PactIInv, Endings
        <3> QED
            BY <1>1, <2>2, <3>1
               DEF ResolutionTrack, ArbitratorDesignated, PactIInv, Confirmations, Shows
    <2> QED
        BY <1>1, <2>1, <2>2 DEF PactIInv, PactInv, LastWords
<1> QED
    BY <1>1, PactInvariant, PTL

=============================================================================
