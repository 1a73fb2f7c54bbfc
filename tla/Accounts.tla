------------------------------ MODULE Accounts ------------------------------
(***************************************************************************)
(* Users, sessions, the second factor and invitations.  Sources:           *)
(* epiproc/db/users.py, epiproc/db/sessions.py, epiproc/web/auth.py,       *)
(* epiproc/web/session.py and the routers login, reset and admin.          *)
(*                                                                         *)
(* Every handler that writes, but for the logout, is a coroutine that does *)
(* not await once it has its form: in the one web process it is a step.    *)
(* The logout, which runs in a thread, writes with one statement.  What    *)
(* takes several steps is what a browser does: the two halves of a login,  *)
(* a link that was mailed, a redirect that is followed.                    *)
(*                                                                         *)
(* A password hash is the password it accepts, whichever scheme it has:    *)
(* the upgrade of an scrypt hash changes nothing here.  A cookie is what   *)
(* it names, since only the server can sign one.                           *)
(***************************************************************************)
EXTENDS Naturals, Sequences

CONSTANTS
    User, Browser, Password, Secret,
    Root,          \* an admin there is from the start
    FirstPassword, \* of the accounts there are from the start
    Mailable,      \* users with an address on record
    NoUser, NoSecret,
    MaxEvents      \* bound: logins, invitations, requests of admins, expiries

ASSUME AccountsAssumption ==
    /\ Root \in User
    /\ Mailable \subseteq User
    /\ NoUser \notin User
    /\ NoSecret \notin Secret
    /\ FirstPassword \in Password
    /\ MaxEvents \in Nat

VARIABLES
    users,      \* rows of `users`
    sessions,   \* rows of `sessions`, in the order they were opened
    tokens,     \* rows of `invite_tokens`, in the order they were issued
    jar,        \* of each browser: its cookies and the page it waits for
    events      \* counted events so far

vars == <<users, sessions, tokens, jar, events>>

UserRow == [exists: BOOLEAN, active: BOOLEAN, admin: BOOLEAN, password: Password,
            mfa: Secret \cup {NoSecret}, expires: {"never", "later", "past"}]

Session == [user: User, revoked: BOOLEAN, expired: BOOLEAN]

\* sent: the link reached its user.
Token == [user: User, used: BOOLEAN, expired: BOOLEAN, sent: BOOLEAN]

\* session = 0: no cookie.  at is the path of the request under way, if any.
Jar == [session: Nat, pending: User \cup {NoUser}, at: {"page", "/dashboard", "/login"}]

TypeOK ==
    /\ users \in [User -> UserRow]
    /\ sessions \in Seq(Session)
    /\ tokens \in Seq(Token)
    /\ jar \in [Browser -> Jar]
    /\ events \in 0..MaxEvents
    /\ \A b \in Browser : jar[b].session \in 0..Len(sessions)

Init ==
    /\ \E start \in {us \in SUBSET User : Root \in us} :
         users = [u \in User |->
            [exists |-> u \in start, active |-> u \in start, admin |-> u \in start,
             password |-> FirstPassword, mfa |-> NoSecret, expires |-> "never"]]
    /\ sessions = <<>>
    /\ tokens = <<>>
    /\ jar = [b \in Browser |-> [session |-> 0, pending |-> NoUser, at |-> "page"]]
    /\ events = 0

-----------------------------------------------------------------------------
(* Who a request comes from *)

\* Mutant of ValidSession: the account is not looked at.
ValidOfAnyone(s) == ~sessions[s].revoked /\ ~sessions[s].expired

\* get_session_with_user
ValidSession(s) ==
    /\ ~sessions[s].revoked
    /\ ~sessions[s].expired
    /\ users[sessions[s].user].active

\* A cookie whose session is valid: all that the login page asks for.
LoggedIn(b) == jar[b].session # 0 /\ ValidSession(jar[b].session)

Owner(b) == sessions[jar[b].session].user

\* get_session_user, as the other pages ask it.
Served(b) == LoggedIn(b) /\ users[Owner(b)].expires # "past"

Idle(b) == jar[b].at = "page"

\* _admin
Admin(b) == Idle(b) /\ Served(b) /\ users[Owner(b)].admin

Counted == events < MaxEvents /\ events' = events + 1

-----------------------------------------------------------------------------
(* Login, logout, pages *)

\* create_session, and the cookie that names it.
OpenSession(b, u, pending) ==
    /\ Counted
    /\ sessions' = Append(sessions, [user |-> u, revoked |-> FALSE, expired |-> FALSE])
    /\ jar' = [jar EXCEPT ![b] = [session |-> Len(sessions) + 1, pending |-> pending,
                                  at |-> "/dashboard"]]

\* authenticate
Authenticated(u, p) == users[u].exists /\ users[u].active /\ users[u].password = p

\* login_submit without a second factor, and with one.
Login(b, u, p) ==
    /\ Idle(b)
    /\ Authenticated(u, p)
    /\ users[u].mfa = NoSecret
    /\ OpenSession(b, u, jar[b].pending)
    /\ UNCHANGED <<users, tokens>>

LoginFirstStep(b, u, p) ==
    /\ Idle(b)
    /\ Authenticated(u, p)
    /\ users[u].mfa # NoSecret
    /\ jar' = [jar EXCEPT ![b].pending = u]
    /\ UNCHANGED <<users, sessions, tokens, events>>

\* The account is read again: it may have changed since the password was checked.
CodeAccepted(u, code) ==
    users[u].active /\ users[u].mfa # NoSecret /\ users[u].mfa = code

\* mfa_submit; a code stands for the secret of the device that shows it.
LoginSecondStep(b, code) ==
    /\ Idle(b)
    /\ jar[b].pending # NoUser
    /\ CodeAccepted(jar[b].pending, code)
    /\ OpenSession(b, jar[b].pending, NoUser)
    /\ UNCHANGED <<users, tokens>>

\* logout: the cookie goes even when the revocation raises.
Logout(b) ==
    /\ Idle(b)
    /\ jar[b].session # 0
    /\ \/ sessions' = [sessions EXCEPT ![jar[b].session].revoked = TRUE]
       \/ UNCHANGED sessions
    /\ jar' = [jar EXCEPT ![b].session = 0, ![b].at = "/login"]
    /\ UNCHANGED <<users, tokens, events>>

Goes(b, path) == jar' = [jar EXCEPT ![b].at = path]

\* The user asks for a page.
Visit(b) ==
    /\ Idle(b)
    /\ \E path \in {"/dashboard", "/login"} : Goes(b, path)
    /\ UNCHANGED <<users, sessions, tokens, events>>

\* get_session_user in front of a page: the page, or a redirect to the login.
ServeDashboard(b) ==
    /\ jar[b].at = "/dashboard"
    /\ Goes(b, IF Served(b) THEN "page" ELSE "/login")
    /\ UNCHANGED <<users, sessions, tokens, events>>

\* Mutant of SkipsLogin: whoever has a cookie is sent on.
SkipsLoginByCookie(b) == jar[b].session # 0

\* Already logged in: straight on to the dashboard.
SkipsLogin(b) == LoggedIn(b)

\* login_page
ServeLogin(b) ==
    /\ jar[b].at = "/login"
    /\ Goes(b, IF SkipsLogin(b) THEN "/dashboard" ELSE "page")
    /\ UNCHANGED <<users, sessions, tokens, events>>

-----------------------------------------------------------------------------
(* Invitations *)

\* Mutant of Invited: the links before this one stay good.
InvitedAlso(u, sent) ==
    Append(tokens, [user |-> u, used |-> FALSE, expired |-> FALSE, sent |-> sent])

\* create_invite_token: spends the user's unused tokens, then adds one.
Invited(u, sent) ==
    Append([t \in DOMAIN tokens |->
              IF tokens[t].user = u THEN [tokens[t] EXCEPT !.used = TRUE] ELSE tokens[t]],
           [user |-> u, used |-> FALSE, expired |-> FALSE, sent |-> sent])

\* send_invite: the token is there even when the mail could not be sent.
SendInvite(b, u, sent) ==
    /\ Admin(b)
    /\ users[u].exists
    /\ u \in Mailable
    /\ Counted
    /\ tokens' = Invited(u, sent)
    /\ UNCHANGED <<users, sessions, jar>>

\* Mutant of LinkGood: `used` is not looked at.
LinkUnexpired(t) == tokens[t].sent /\ ~tokens[t].expired

\* consume_invite_token finds it; only a link that was sent is known to anyone.
LinkGood(t) == tokens[t].sent /\ ~tokens[t].used /\ ~tokens[t].expired

\* reset_submit: the account is active again, too.
ResetPassword(b, t, p) ==
    /\ Idle(b)
    /\ LinkGood(t)
    /\ tokens' = [tokens EXCEPT ![t].used = TRUE]
    /\ users' = [users EXCEPT ![tokens[t].user].password = p,
                              ![tokens[t].user].active = TRUE]
    /\ Goes(b, "/login")
    /\ UNCHANGED <<sessions, events>>

-----------------------------------------------------------------------------
(* Users, as admins manage them *)

CreateUser(b, u, admin, p, expires) ==
    /\ Admin(b)
    /\ Counted
    /\ ~users[u].exists
    /\ users' = [users EXCEPT ![u] =
          [exists |-> TRUE, active |-> TRUE, admin |-> admin, password |-> p,
           mfa |-> NoSecret, expires |-> expires]]
    /\ UNCHANGED <<sessions, tokens, jar>>

UpdateUser(b, u, admin, expires) ==
    /\ Admin(b)
    /\ Counted
    /\ users[u].exists
    /\ users' = [users EXCEPT ![u].admin = admin, ![u].expires = expires]
    /\ UNCHANGED <<sessions, tokens, jar>>

SetPassword(b, u, p) ==
    /\ Admin(b)
    /\ Counted
    /\ users[u].exists
    /\ users' = [users EXCEPT ![u].password = p]
    /\ UNCHANGED <<sessions, tokens, jar>>

\* toggle_user: the admins' own account is refused.
ToggleUser(b, u) ==
    /\ Admin(b)
    /\ Counted
    /\ users[u].exists
    /\ u # Owner(b)
    /\ users' = [users EXCEPT ![u].active = ~@]
    /\ UNCHANGED <<sessions, tokens, jar>>

\* mfa_enroll with the secret of the page the admin had open, and mfa_revoke.
SetMfa(b, u, secret) ==
    /\ Admin(b)
    /\ Counted
    /\ users[u].exists
    /\ users' = [users EXCEPT ![u].mfa = secret]
    /\ UNCHANGED <<sessions, tokens, jar>>

RevokeAll(b, u) ==
    /\ Admin(b)
    /\ Counted
    /\ users[u].exists
    /\ sessions' = [s \in DOMAIN sessions |->
                      IF sessions[s].user = u THEN [sessions[s] EXCEPT !.revoked = TRUE]
                                              ELSE sessions[s]]
    /\ UNCHANGED <<users, tokens, jar>>

-----------------------------------------------------------------------------
(* Time passes *)

ExpireSession(s) ==
    /\ Counted
    /\ ~sessions[s].expired
    /\ sessions' = [sessions EXCEPT ![s].expired = TRUE]
    /\ UNCHANGED <<users, tokens, jar>>

ExpireToken(t) ==
    /\ Counted
    /\ ~tokens[t].expired
    /\ tokens' = [tokens EXCEPT ![t].expired = TRUE]
    /\ UNCHANGED <<users, sessions, jar>>

\* The five minutes between the two steps of a login.
ExpirePending(b) ==
    /\ Counted
    /\ jar[b].pending # NoUser
    /\ jar' = [jar EXCEPT ![b].pending = NoUser]
    /\ UNCHANGED <<users, sessions, tokens>>

\* is_account_expired
ExpireAccount(u) ==
    /\ Counted
    /\ users[u].expires = "later"
    /\ users' = [users EXCEPT ![u].expires = "past"]
    /\ UNCHANGED <<sessions, tokens, jar>>

-----------------------------------------------------------------------------
Follow(b) == ServeDashboard(b) \/ ServeLogin(b)

Manage(b, u) ==
    \/ \E admin \in BOOLEAN, expires \in {"never", "later", "past"} :
         \/ UpdateUser(b, u, admin, expires)
         \/ \E p \in Password : CreateUser(b, u, admin, p, expires)
    \/ \E p \in Password : SetPassword(b, u, p)
    \/ \E secret \in Secret \cup {NoSecret} : SetMfa(b, u, secret)
    \/ ToggleUser(b, u)
    \/ RevokeAll(b, u)
    \/ \E sent \in BOOLEAN : SendInvite(b, u, sent)

Browse(b) ==
    \/ Visit(b)
    \/ Logout(b)
    \/ \E u \in User, p \in Password : Login(b, u, p) \/ LoginFirstStep(b, u, p)
    \/ \E code \in Secret : LoginSecondStep(b, code)
    \/ \E t \in DOMAIN tokens, p \in Password : ResetPassword(b, t, p)

Time ==
    \/ \E s \in DOMAIN sessions : ExpireSession(s)
    \/ \E t \in DOMAIN tokens : ExpireToken(t)
    \/ \E b \in Browser : ExpirePending(b)
    \/ \E u \in User : ExpireAccount(u)

Next ==
    \/ \E b \in Browser : Follow(b) \/ Browse(b)
    \/ \E b \in Browser, u \in User : Manage(b, u)
    \/ Time

Spec == Init /\ [][Next]_vars

\* The server answers, and browsers follow redirects.
FairSpec == Spec /\ \A b \in Browser : WF_vars(Follow(b))

-----------------------------------------------------------------------------
(* Properties *)

\* However often a user is invited, by whom and with or without success, at most
\* one link of his can still be used, and it is the newest (create_invite_token).
LiveIsNewest ==
    \A t, w \in DOMAIN tokens :
        tokens[t].user = tokens[w].user /\ ~tokens[t].used => w <= t

\* A password changes by an admin's request, or by the newest link of its user,
\* which was not used before and is used up by it (consume_invite_token).
LinkSetsPasswordOnce ==
    [][\A u \in User : users'[u].password # users[u].password =>
          \/ ~users[u].exists
          \/ \E b \in Browser : SetPassword(b, u, users'[u].password)
          \/ \E t \in DOMAIN tokens :
                /\ tokens[t].user = u
                /\ ~tokens[t].used /\ tokens'[t].used
                /\ \A w \in DOMAIN tokens : tokens[w].user = u => w <= t]_vars

UsableAdmins == {u \in User : /\ users[u].exists /\ users[u].active /\ users[u].admin
                              /\ users[u].expires # "past"}

\* Deactivating accounts never takes away the last admin who can act, even when
\* admins deactivate one another: only a role or an expiry date can (toggle_user).
LastAdminStays ==
    [][UsableAdmins # {} /\ UsableAdmins' = {} =>
          \E u \in User : \/ users'[u].expires # users[u].expires
                          \/ users[u].admin /\ ~users'[u].admin]_vars

\* A browser that asks for a page gets one in the end, unless its account has
\* expired (login_page, get_session_user).
RedirectsEndUnlessExpired ==
    \A b \in Browser :
        ~Idle(b) ~> (Idle(b) \/ (LoggedIn(b) /\ users[Owner(b)].expires = "past"))

\* The login page is where a user whose account has expired is told so: it is
\* reached in the end, whatever the account's state.
RedirectsEnd == \A b \in Browser : ~Idle(b) ~> Idle(b)

=============================================================================
