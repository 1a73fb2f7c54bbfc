--------------------------- MODULE AccountsProofs ---------------------------
(***************************************************************************)
(* Theorems about Accounts, for any users, browsers, passwords and secrets,*)
(* and any number of events.                                               *)
(***************************************************************************)
EXTENDS Accounts, SequenceTheorems, TLAPS

-----------------------------------------------------------------------------
(* Sequences of rows *)

LEMMA SameLength ==
  ASSUME NEW S, NEW T, NEW s \in Seq(S), NEW f \in [DOMAIN s -> T]
  PROVE  f \in Seq(T) /\ Len(f) = Len(s) /\ DOMAIN f = 1..Len(s)
<1>1. Len(s) \in Nat /\ DOMAIN s = 1..Len(s)
  BY LenProperties
<1>2. f \in [1..Len(s) -> T]
  BY <1>1
<1>3. f \in Seq(T)
  BY <1>1, <1>2, SeqDef
<1>4. QED
  BY <1>1, <1>2, <1>3, LenProperties

\* create_invite_token spends the user's tokens and puts a new one after them all.
LEMMA InvitedRows ==
  ASSUME tokens \in Seq(Token), NEW u \in User, NEW sent \in BOOLEAN
  PROVE  /\ Invited(u, sent) \in Seq(Token)
         /\ DOMAIN Invited(u, sent) = 1..(Len(tokens) + 1)
         /\ \A t \in 1..Len(tokens) :
              /\ Invited(u, sent)[t].user = tokens[t].user
              /\ tokens[t].user = u => Invited(u, sent)[t].used
              /\ tokens[t].user # u => Invited(u, sent)[t] = tokens[t]
         /\ Invited(u, sent)[Len(tokens) + 1].user = u
<1> DEFINE spent == [t \in DOMAIN tokens |->
                       IF tokens[t].user = u THEN [tokens[t] EXCEPT !.used = TRUE]
                                             ELSE tokens[t]]
           new == [user |-> u, used |-> FALSE, expired |-> FALSE, sent |-> sent]
<1>1. Len(tokens) \in Nat /\ DOMAIN tokens = 1..Len(tokens)
  BY LenProperties
<1>2. ASSUME NEW t \in DOMAIN tokens
      PROVE  spent[t] \in Token
  <2>1. tokens[t] \in Token
    BY <1>1, ElementOfSeq
  <2>2. [tokens[t] EXCEPT !.used = TRUE] \in Token
    BY <2>1 DEF Token
  <2>3. QED
    BY <2>1, <2>2
<1>3. spent \in Seq(Token) /\ Len(spent) = Len(tokens)
  <2>1. spent \in [DOMAIN tokens -> Token]
    BY <1>2
  <2>2. QED
    BY <2>1, SameLength
<1>4. new \in Token
  BY DEF Token
<1>5. Invited(u, sent) = Append(spent, new)
  BY DEF Invited
<1> HIDE DEF spent, new
<1>6. /\ Append(spent, new) \in Seq(Token)
      /\ Len(Append(spent, new)) = Len(tokens) + 1
      /\ \A t \in 1..Len(tokens) : Append(spent, new)[t] = spent[t]
      /\ Append(spent, new)[Len(tokens) + 1] = new
  BY <1>1, <1>3, <1>4, AppendProperties
<1>7. DOMAIN Append(spent, new) = 1..(Len(tokens) + 1)
  BY <1>6, LenProperties
<1>8. ASSUME NEW t \in 1..Len(tokens)
      PROVE  /\ spent[t].user = tokens[t].user
             /\ tokens[t].user = u => spent[t].used
             /\ tokens[t].user # u => spent[t] = tokens[t]
  <2>1. tokens[t] \in Token
    BY <1>1, ElementOfSeq
  <2>2. /\ [tokens[t] EXCEPT !.used = TRUE].user = tokens[t].user
        /\ [tokens[t] EXCEPT !.used = TRUE].used
    BY <2>1 DEF Token
  <2>3. QED
    BY <1>1, <2>2 DEF spent
<1>9. new.user = u
  BY DEF new
<1>10. QED
  BY <1>1, <1>5, <1>6, <1>7, <1>8, <1>9

\* revoke_all_sessions
LEMMA RevokedRows ==
  ASSUME sessions \in Seq(Session), NEW u \in User,
         NEW rows, rows = [s \in DOMAIN sessions |->
                      IF sessions[s].user = u THEN [sessions[s] EXCEPT !.revoked = TRUE]
                                              ELSE sessions[s]]
  PROVE  rows \in Seq(Session) /\ Len(rows) = Len(sessions)
<1>1. Len(sessions) \in Nat /\ DOMAIN sessions = 1..Len(sessions)
  BY LenProperties
<1>2. ASSUME NEW s \in DOMAIN sessions
      PROVE  rows[s] \in Session
  <2>1. sessions[s] \in Session
    BY <1>1, ElementOfSeq
  <2>2. [sessions[s] EXCEPT !.revoked = TRUE] \in Session
    BY <2>1 DEF Session
  <2>3. QED
    BY <2>1, <2>2
<1>3. rows \in [DOMAIN sessions -> Session]
  BY <1>2
<1>4. QED
  BY <1>3, SameLength

\* A session is opened after those there are.
LEMMA OpenedRow ==
  ASSUME TypeOK, NEW b \in Browser, NEW u \in User, NEW pending \in User \cup {NoUser},
         OpenSession(b, u, pending)
  PROVE  /\ sessions' \in Seq(Session)
         /\ Len(sessions') = Len(sessions) + 1
         /\ jar' = [jar EXCEPT ![b] = [session |-> Len(sessions) + 1, pending |-> pending,
                                       at |-> "/dashboard"]]
         /\ jar' \in [Browser -> Jar]
         /\ \A c \in Browser : jar'[c].session \in 0..Len(sessions')
         /\ events' \in 0..MaxEvents
<1> DEFINE new == [user |-> u, revoked |-> FALSE, expired |-> FALSE]
<1>1. new \in Session
  BY DEF Session
<1>2. sessions' = Append(sessions, new) /\ sessions \in Seq(Session)
  BY DEF OpenSession, TypeOK
<1> HIDE DEF new
<1>3. sessions' \in Seq(Session) /\ Len(sessions') = Len(sessions) + 1 /\ Len(sessions) \in Nat
  BY <1>1, <1>2, AppendProperties, LenProperties
<1>4. [session |-> Len(sessions) + 1, pending |-> pending, at |-> "/dashboard"] \in Jar
  BY <1>3 DEF Jar
<1>5. QED
  BY <1>3, <1>4, AccountsAssumption DEF OpenSession, Counted, TypeOK

-----------------------------------------------------------------------------
(* Types *)

\* Who asks has an account.
LEMMA OwnerIsUser ==
  ASSUME TypeOK, NEW b \in Browser, LoggedIn(b)
  PROVE  Owner(b) \in User /\ jar[b].session \in 1..Len(sessions)
<1>1. jar[b].session \in 1..Len(sessions)
  BY LenProperties DEF TypeOK, LoggedIn
<1>2. sessions[jar[b].session] \in Session
  BY <1>1, ElementOfSeq DEF TypeOK
<1>3. QED
  BY <1>1, <1>2 DEF Owner, Session

LEMMA TypeInit == Init => TypeOK
<1> SUFFICES ASSUME Init PROVE TypeOK
  OBVIOUS
<1>1. sessions \in Seq(Session) /\ tokens \in Seq(Token) /\ Len(sessions) = 0
  BY EmptySeq DEF Init
<1>2. QED
  BY <1>1, AccountsAssumption DEF Init, TypeOK, UserRow, Jar

LEMMA TokenRows ==
  ASSUME TypeOK
  PROVE  /\ Len(tokens) \in Nat /\ DOMAIN tokens = 1..Len(tokens)
         /\ \A t \in DOMAIN tokens : tokens[t] \in Token /\ tokens[t].user \in User
<1>1. /\ Len(tokens) \in Nat /\ DOMAIN tokens = 1..Len(tokens)
      /\ \A t \in DOMAIN tokens : tokens[t] \in Token
  BY LenProperties, ElementOfSeq DEF TypeOK
<1>2. QED
  BY <1>1 DEF Token

LEMMA CountedEvents ==
  ASSUME TypeOK, Counted
  PROVE  events' \in 0..MaxEvents
BY AccountsAssumption DEF Counted, TypeOK

LEMMA UserRewritten ==
  ASSUME TypeOK, NEW u \in User, NEW row \in UserRow, users' = [users EXCEPT ![u] = row],
         events' \in 0..MaxEvents, UNCHANGED <<sessions, tokens, jar>>
  PROVE  TypeOK'
BY DEF TypeOK

LEMMA JarRewritten ==
  ASSUME TypeOK, NEW b \in Browser, NEW row \in Jar, jar' = [jar EXCEPT ![b] = row],
         row.session \in {0, jar[b].session}, events' \in 0..MaxEvents,
         UNCHANGED <<users, sessions, tokens>>
  PROVE  TypeOK'
<1>1. Len(sessions) \in Nat
  BY LenProperties DEF TypeOK
<1>2. QED
  BY <1>1 DEF TypeOK

\* A browser that goes to another page keeps its session.
LEMMA Moved ==
  ASSUME TypeOK, NEW b \in Browser, NEW path \in {"page", "/dashboard", "/login"}, Goes(b, path)
  PROVE  jar' \in [Browser -> Jar] /\ \A c \in Browser : jar'[c].session = jar[c].session
<1>1. jar[b] \in Jar
  BY DEF TypeOK
<1>2. [jar[b] EXCEPT !.at = path] \in Jar /\ [jar[b] EXCEPT !.at = path].session = jar[b].session
  BY <1>1 DEF Jar
<1>3. jar' = [jar EXCEPT ![b] = [jar[b] EXCEPT !.at = path]]
  BY DEF Goes
<1>4. QED
  BY <1>2, <1>3 DEF TypeOK

LEMMA TypeStep ==
  ASSUME TypeOK, [Next]_vars
  PROVE  TypeOK'
<1> USE AccountsAssumption
<1>0. Len(sessions) \in Nat /\ DOMAIN sessions = 1..Len(sessions)
      /\ Len(tokens) \in Nat /\ DOMAIN tokens = 1..Len(tokens)
  BY LenProperties DEF TypeOK
<1>1. ASSUME NEW b \in Browser, NEW u \in User, NEW p \in Password, Login(b, u, p)
      PROVE  TypeOK'
  <2>1. jar[b].pending \in User \cup {NoUser}
    BY DEF TypeOK, Jar
  <2>2. QED
    BY <1>1, <2>1, OpenedRow DEF Login, TypeOK
<1>2. ASSUME NEW b \in Browser, NEW u \in User, NEW p \in Password, LoginFirstStep(b, u, p)
      PROVE  TypeOK'
  <2>1. /\ jar[b] \in Jar
        /\ jar' = [jar EXCEPT ![b] = [jar[b] EXCEPT !.pending = u]]
    BY <1>2 DEF LoginFirstStep, TypeOK
  <2>2. /\ [jar[b] EXCEPT !.pending = u] \in Jar
        /\ [jar[b] EXCEPT !.pending = u].session = jar[b].session
    BY <2>1 DEF Jar
  <2>3. QED
    BY <1>2, <2>1, <2>2, JarRewritten DEF LoginFirstStep, TypeOK
<1>3. ASSUME NEW b \in Browser, NEW code \in Secret, LoginSecondStep(b, code)
      PROVE  TypeOK'
  <2>1. jar[b].pending \in User
    BY <1>3 DEF TypeOK, Jar, LoginSecondStep
  <2>2. QED
    BY <1>3, <2>1, OpenedRow DEF LoginSecondStep, TypeOK
<1>4. ASSUME NEW b \in Browser, Logout(b)
      PROVE  TypeOK'
  <2>1. jar[b].session \in 1..Len(sessions)
    BY <1>0, <1>4 DEF Logout, TypeOK
  <2>2. sessions' \in Seq(Session) /\ Len(sessions') = Len(sessions)
    <3>1. [sessions[jar[b].session] EXCEPT !.revoked = TRUE] \in Session
      <4>1. sessions[jar[b].session] \in Session
        BY <2>1, ElementOfSeq DEF TypeOK
      <4>2. QED
        BY <4>1 DEF Session
    <3>2. CASE sessions' = [sessions EXCEPT ![jar[b].session]
                              = [sessions[jar[b].session] EXCEPT !.revoked = TRUE]]
      BY <2>1, <3>1, <3>2, ExceptSeq DEF TypeOK
    <3>3. CASE UNCHANGED sessions
      BY <3>3 DEF TypeOK
    <3>4. QED
      BY <1>4, <3>2, <3>3 DEF Logout
  <2>3. /\ jar[b] \in Jar
        /\ jar' = [jar EXCEPT ![b] = [jar[b] EXCEPT !.session = 0, !.at = "/login"]]
    BY <1>4 DEF Logout, TypeOK
  <2>4. /\ [jar[b] EXCEPT !.session = 0, !.at = "/login"] \in Jar
        /\ [jar[b] EXCEPT !.session = 0, !.at = "/login"].session = 0
    BY <2>3 DEF Jar
  <2>5. jar' \in [Browser -> Jar] /\ \A c \in Browser : jar'[c].session \in 0..Len(sessions)
    BY <1>0, <2>3, <2>4 DEF TypeOK
  <2>6. QED
    BY <1>4, <2>2, <2>5 DEF Logout, TypeOK
<1>5. ASSUME NEW b \in Browser, Visit(b) \/ ServeDashboard(b) \/ ServeLogin(b)
      PROVE  TypeOK'
  <2>1. PICK path \in {"page", "/dashboard", "/login"} : Goes(b, path)
    BY <1>5 DEF Visit, ServeDashboard, ServeLogin
  <2>2. jar' \in [Browser -> Jar] /\ \A c \in Browser : jar'[c].session = jar[c].session
    BY <2>1, Moved
  <2>3. UNCHANGED <<users, sessions, tokens, events>>
    BY <1>5 DEF Visit, ServeDashboard, ServeLogin
  <2>4. QED
    BY <2>2, <2>3 DEF TypeOK
<1>6. ASSUME NEW b \in Browser, NEW t \in DOMAIN tokens, NEW p \in Password,
             ResetPassword(b, t, p)
      PROVE  TypeOK'
  <2>1. tokens[t] \in Token
    BY <1>0, ElementOfSeq DEF TypeOK
  <2>2. [tokens[t] EXCEPT !.used = TRUE] \in Token /\ tokens[t].user \in User
    BY <2>1 DEF Token
  <2>3. tokens' \in Seq(Token)
    BY <1>0, <1>6, <2>2, ExceptSeq DEF ResetPassword, TypeOK
  <2>4. users' \in [User -> UserRow]
    <3> DEFINE row == [users[tokens[t].user] EXCEPT !.password = p, !.active = TRUE]
    <3>1. users[tokens[t].user] \in UserRow
      BY <2>2 DEF TypeOK
    <3>2. row \in UserRow
      BY <3>1 DEF UserRow
    <3>3. users' = [users EXCEPT ![tokens[t].user] = row]
      BY <1>6, <2>2 DEF ResetPassword, TypeOK
    <3>4. QED
      BY <3>2, <3>3 DEF TypeOK
  <2>5. jar' \in [Browser -> Jar] /\ \A c \in Browser : jar'[c].session = jar[c].session
    BY <1>6, Moved DEF ResetPassword
  <2>6. QED
    BY <1>6, <2>3, <2>4, <2>5 DEF ResetPassword, TypeOK
<1>7. ASSUME NEW b \in Browser, NEW u \in User, NEW sent \in BOOLEAN, SendInvite(b, u, sent)
      PROVE  TypeOK'
  <2>1. tokens' \in Seq(Token)
    BY <1>7, InvitedRows DEF SendInvite, TypeOK
  <2>2. QED
    BY <1>7, <2>1, CountedEvents DEF SendInvite, TypeOK
<1>8. ASSUME NEW b \in Browser, NEW u \in User, NEW admin \in BOOLEAN,
             NEW expires \in {"never", "later", "past"}, NEW p \in Password,
             CreateUser(b, u, admin, p, expires)
      PROVE  TypeOK'
  BY <1>8 DEF CreateUser, Counted, TypeOK, UserRow
<1>9. ASSUME NEW b \in Browser, NEW u \in User, NEW admin \in BOOLEAN,
             NEW expires \in {"never", "later", "past"}, UpdateUser(b, u, admin, expires)
      PROVE  TypeOK'
  <2>1. users[u] \in UserRow
    BY DEF TypeOK
  <2>2. [users[u] EXCEPT !.admin = admin, !.expires = expires] \in UserRow
    BY <2>1 DEF UserRow
  <2>3. users' = [users EXCEPT ![u] = [users[u] EXCEPT !.admin = admin, !.expires = expires]]
    BY <1>9 DEF UpdateUser, TypeOK
  <2>4. QED
    BY <1>9, <2>2, <2>3, UserRewritten, CountedEvents DEF UpdateUser
<1>10. ASSUME NEW b \in Browser, NEW u \in User, NEW p \in Password, SetPassword(b, u, p)
       PROVE  TypeOK'
  <2>1. users[u] \in UserRow
    BY DEF TypeOK
  <2>2. [users[u] EXCEPT !.password = p] \in UserRow
    BY <2>1 DEF UserRow
  <2>3. users' = [users EXCEPT ![u] = [users[u] EXCEPT !.password = p]]
    BY <1>10 DEF SetPassword, TypeOK
  <2>4. QED
    BY <1>10, <2>2, <2>3, UserRewritten, CountedEvents DEF SetPassword
<1>11. ASSUME NEW b \in Browser, NEW u \in User, ToggleUser(b, u)
       PROVE  TypeOK'
  <2>1. users[u] \in UserRow
    BY DEF TypeOK
  <2>2. [users[u] EXCEPT !.active = ~users[u].active] \in UserRow
    BY <2>1 DEF UserRow
  <2>3. users' = [users EXCEPT ![u] = [users[u] EXCEPT !.active = ~users[u].active]]
    BY <1>11 DEF ToggleUser, TypeOK
  <2>4. QED
    BY <1>11, <2>2, <2>3, UserRewritten, CountedEvents DEF ToggleUser
<1>12. ASSUME NEW b \in Browser, NEW u \in User, NEW secret \in Secret \cup {NoSecret},
              SetMfa(b, u, secret)
       PROVE  TypeOK'
  <2>1. users[u] \in UserRow
    BY DEF TypeOK
  <2>2. [users[u] EXCEPT !.mfa = secret] \in UserRow
    BY <2>1 DEF UserRow
  <2>3. users' = [users EXCEPT ![u] = [users[u] EXCEPT !.mfa = secret]]
    BY <1>12 DEF SetMfa, TypeOK
  <2>4. QED
    BY <1>12, <2>2, <2>3, UserRewritten, CountedEvents DEF SetMfa
<1>13. ASSUME NEW b \in Browser, NEW u \in User, RevokeAll(b, u)
       PROVE  TypeOK'
  <2>1. sessions' \in Seq(Session) /\ Len(sessions') = Len(sessions)
    BY <1>13, RevokedRows DEF RevokeAll, TypeOK
  <2>2. QED
    BY <1>13, <2>1 DEF RevokeAll, Counted, TypeOK
<1>14. ASSUME NEW s \in DOMAIN sessions, ExpireSession(s)
       PROVE  TypeOK'
  <2>1. sessions[s] \in Session
    BY <1>0, ElementOfSeq DEF TypeOK
  <2>2. [sessions[s] EXCEPT !.expired = TRUE] \in Session
    BY <2>1 DEF Session
  <2>3. sessions' \in Seq(Session) /\ Len(sessions') = Len(sessions)
    BY <1>0, <1>14, <2>2, ExceptSeq DEF ExpireSession, TypeOK
  <2>4. QED
    BY <1>14, <2>3 DEF ExpireSession, Counted, TypeOK
<1>15. ASSUME NEW t \in DOMAIN tokens, ExpireToken(t)
       PROVE  TypeOK'
  <2>1. tokens[t] \in Token
    BY <1>0, ElementOfSeq DEF TypeOK
  <2>2. [tokens[t] EXCEPT !.expired = TRUE] \in Token
    BY <2>1 DEF Token
  <2>3. tokens' \in Seq(Token)
    BY <1>0, <1>15, <2>2, ExceptSeq DEF ExpireToken, TypeOK
  <2>4. QED
    BY <1>15, <2>3 DEF ExpireToken, Counted, TypeOK
<1>16. ASSUME NEW b \in Browser, ExpirePending(b)
       PROVE  TypeOK'
  <2>1. /\ jar[b] \in Jar
        /\ jar' = [jar EXCEPT ![b] = [jar[b] EXCEPT !.pending = NoUser]]
    BY <1>16 DEF ExpirePending, TypeOK
  <2>2. /\ [jar[b] EXCEPT !.pending = NoUser] \in Jar
        /\ [jar[b] EXCEPT !.pending = NoUser].session = jar[b].session
    BY <2>1 DEF Jar
  <2>3. QED
    BY <1>16, <2>1, <2>2, JarRewritten, CountedEvents DEF ExpirePending
<1>17. ASSUME NEW u \in User, ExpireAccount(u)
       PROVE  TypeOK'
  <2>1. users[u] \in UserRow
    BY DEF TypeOK
  <2>2. [users[u] EXCEPT !.expires = "past"] \in UserRow
    BY <2>1 DEF UserRow
  <2>3. users' = [users EXCEPT ![u] = [users[u] EXCEPT !.expires = "past"]]
    BY <1>17 DEF ExpireAccount, TypeOK
  <2>4. QED
    BY <1>17, <2>2, <2>3, UserRewritten, CountedEvents DEF ExpireAccount
<1>18. CASE UNCHANGED vars
  BY <1>18 DEF vars, TypeOK
<1>19. QED
  BY <1>1, <1>2, <1>3, <1>4, <1>5, <1>6, <1>7, <1>8, <1>9, <1>10, <1>11, <1>12, <1>13, <1>14,
     <1>15, <1>16, <1>17, <1>18 DEF Next, Follow, Browse, Manage, Time

-----------------------------------------------------------------------------
(* Invitations *)

\* What can happen to the tokens in a step.
LEMMA TokensStep ==
  ASSUME [Next]_vars
  PROVE  \/ UNCHANGED tokens
         \/ \E b \in Browser, u \in User, sent \in BOOLEAN : SendInvite(b, u, sent)
         \/ \E b \in Browser, t \in DOMAIN tokens, p \in Password : ResetPassword(b, t, p)
         \/ \E t \in DOMAIN tokens : ExpireToken(t)
BY DEF Next, vars, Follow, Browse, Manage, Time, ServeDashboard, ServeLogin, Visit, Logout, Login,
       LoginFirstStep, LoginSecondStep, UpdateUser, CreateUser, SetPassword, SetMfa, ToggleUser,
       RevokeAll, ExpireSession, ExpirePending, ExpireAccount

\* A token keeps its user, and one that was used stays used; new ones come last.
LEMMA TokensKept ==
  ASSUME TypeOK, [Next]_vars
  PROVE  /\ DOMAIN tokens \subseteq DOMAIN tokens'
         /\ \A t \in DOMAIN tokens : tokens'[t].user = tokens[t].user
<1>0. /\ Len(tokens) \in Nat /\ DOMAIN tokens = 1..Len(tokens)
      /\ \A t \in DOMAIN tokens : tokens[t] \in Token
  BY TokenRows
<1>1. ASSUME NEW b \in Browser, NEW u \in User, NEW sent \in BOOLEAN, SendInvite(b, u, sent)
      PROVE  /\ DOMAIN tokens \subseteq DOMAIN tokens'
             /\ \A t \in DOMAIN tokens : tokens'[t].user = tokens[t].user
  <2>1. tokens' = Invited(u, sent) /\ tokens \in Seq(Token)
    BY <1>1 DEF SendInvite, TypeOK
  <2>2. QED
    BY <1>0, <2>1, InvitedRows
<1>2. ASSUME NEW b \in Browser, NEW t \in DOMAIN tokens, NEW p \in Password,
             ResetPassword(b, t, p)
      PROVE  /\ DOMAIN tokens \subseteq DOMAIN tokens'
             /\ \A w \in DOMAIN tokens : tokens'[w].user = tokens[w].user
  BY <1>0, <1>2 DEF ResetPassword, Token
<1>3. ASSUME NEW t \in DOMAIN tokens, ExpireToken(t)
      PROVE  /\ DOMAIN tokens \subseteq DOMAIN tokens'
             /\ \A w \in DOMAIN tokens : tokens'[w].user = tokens[w].user
  BY <1>0, <1>3 DEF ExpireToken, Token
<1>4. QED
  BY <1>1, <1>2, <1>3, TokensStep

LEMMA LiveStep ==
  ASSUME TypeOK, LiveIsNewest, [Next]_vars
  PROVE  LiveIsNewest'
<1>0. /\ Len(tokens) \in Nat /\ DOMAIN tokens = 1..Len(tokens)
      /\ \A t \in DOMAIN tokens : tokens[t] \in Token
  BY TokenRows
<1>1. ASSUME NEW b \in Browser, NEW u \in User, NEW sent \in BOOLEAN, SendInvite(b, u, sent)
      PROVE  LiveIsNewest'
  <2>1. tokens' = Invited(u, sent) /\ tokens \in Seq(Token)
    BY <1>1 DEF SendInvite, TypeOK
  <2>2. /\ DOMAIN tokens' = 1..(Len(tokens) + 1)
        /\ \A t \in 1..Len(tokens) :
             /\ tokens'[t].user = tokens[t].user
             /\ tokens[t].user = u => tokens'[t].used
             /\ tokens[t].user # u => tokens'[t] = tokens[t]
        /\ tokens'[Len(tokens) + 1].user = u
    BY <2>1, InvitedRows
  <2>3. QED
    BY <1>0, <2>2 DEF LiveIsNewest
<1>2. ASSUME NEW b \in Browser, NEW t \in DOMAIN tokens, NEW p \in Password,
             ResetPassword(b, t, p)
      PROVE  LiveIsNewest'
  BY <1>0, <1>2 DEF ResetPassword, LiveIsNewest, Token
<1>3. ASSUME NEW t \in DOMAIN tokens, ExpireToken(t)
      PROVE  LiveIsNewest'
  BY <1>0, <1>3 DEF ExpireToken, LiveIsNewest, Token
<1>4. CASE UNCHANGED tokens
  BY <1>4 DEF LiveIsNewest
<1>5. QED
  BY <1>1, <1>2, <1>3, <1>4, TokensStep

-----------------------------------------------------------------------------
(* Accounts *)

\* An active account exists, and a link is of an account that exists.
Accounted ==
    /\ \A u \in User : users[u].active => users[u].exists
    /\ \A t \in DOMAIN tokens : users[tokens[t].user].exists

\* What can happen to the accounts in a step.
LEMMA UsersStep ==
  ASSUME [Next]_vars
  PROVE  \/ UNCHANGED users
         \/ \E b \in Browser, t \in DOMAIN tokens, p \in Password : ResetPassword(b, t, p)
         \/ \E b \in Browser, u \in User, admin \in BOOLEAN,
               expires \in {"never", "later", "past"} :
              \/ UpdateUser(b, u, admin, expires)
              \/ \E p \in Password : CreateUser(b, u, admin, p, expires)
         \/ \E b \in Browser, u \in User :
              \/ \E p \in Password : SetPassword(b, u, p)
              \/ \E secret \in Secret \cup {NoSecret} : SetMfa(b, u, secret)
              \/ ToggleUser(b, u)
         \/ \E u \in User : ExpireAccount(u)
BY DEF Next, vars, Follow, Browse, Manage, Time, ServeDashboard, ServeLogin, Visit, Logout, Login,
       LoginFirstStep, LoginSecondStep, SendInvite, RevokeAll, ExpireSession, ExpireToken,
       ExpirePending

\* No account ceases to exist, and none is active that does not.
LEMMA UsersKept ==
  ASSUME TypeOK, Accounted, [Next]_vars, NEW u \in User
  PROVE  /\ users[u].exists => users'[u].exists
         /\ users'[u].active => users'[u].exists
<1>0. /\ users[u] \in UserRow
      /\ \A t \in DOMAIN tokens : tokens[t].user \in User
  BY TokenRows DEF TypeOK
<1>1. ASSUME NEW b \in Browser, NEW t \in DOMAIN tokens, NEW p \in Password,
             ResetPassword(b, t, p)
      PROVE  /\ users[u].exists => users'[u].exists
             /\ users'[u].active => users'[u].exists
  BY <1>0, <1>1 DEF ResetPassword, Accounted, TypeOK, UserRow
<1>2. ASSUME NEW b \in Browser, NEW v \in User, NEW admin \in BOOLEAN,
             NEW expires \in {"never", "later", "past"}, UpdateUser(b, v, admin, expires)
      PROVE  /\ users[u].exists => users'[u].exists
             /\ users'[u].active => users'[u].exists
  BY <1>0, <1>2 DEF UpdateUser, Accounted, TypeOK, UserRow
<1>3. ASSUME NEW b \in Browser, NEW v \in User,
             \/ \E p \in Password : SetPassword(b, v, p)
             \/ \E secret \in Secret \cup {NoSecret} : SetMfa(b, v, secret)
             \/ ToggleUser(b, v)
      PROVE  /\ users[u].exists => users'[u].exists
             /\ users'[u].active => users'[u].exists
  BY <1>0, <1>3 DEF SetPassword, SetMfa, ToggleUser, Accounted, TypeOK, UserRow
<1>4. CASE UNCHANGED users
  BY <1>4 DEF Accounted
<1>5. ASSUME NEW v \in User, ExpireAccount(v)
      PROVE  /\ users[u].exists => users'[u].exists
             /\ users'[u].active => users'[u].exists
  BY <1>0, <1>5 DEF ExpireAccount, Accounted, TypeOK, UserRow
<1>6. ASSUME NEW b \in Browser, NEW v \in User, NEW admin \in BOOLEAN,
             NEW expires \in {"never", "later", "past"}, NEW p \in Password,
             CreateUser(b, v, admin, p, expires)
      PROVE  /\ users[u].exists => users'[u].exists
             /\ users'[u].active => users'[u].exists
  BY <1>0, <1>6 DEF CreateUser, Accounted, TypeOK, UserRow
<1>7. QED
  BY <1>1, <1>2, <1>3, <1>4, <1>5, <1>6, UsersStep

LEMMA AccountedStep ==
  ASSUME TypeOK, Accounted, [Next]_vars
  PROVE  Accounted'
<1>0. /\ Len(tokens) \in Nat /\ DOMAIN tokens = 1..Len(tokens)
      /\ \A t \in DOMAIN tokens : tokens[t] \in Token /\ tokens[t].user \in User
  BY TokenRows
<1>1. \A u \in User : users'[u].active => users'[u].exists
  BY UsersKept
<1>2. \A t \in DOMAIN tokens : tokens'[t].user = tokens[t].user /\ users'[tokens[t].user].exists
  BY <1>0, UsersKept, TokensKept DEF Accounted
<1>3. ASSUME NEW b \in Browser, NEW u \in User, NEW sent \in BOOLEAN, SendInvite(b, u, sent)
      PROVE  Accounted'
  <2>1. tokens' = Invited(u, sent) /\ tokens \in Seq(Token) /\ users[u].exists
    BY <1>3 DEF SendInvite, TypeOK
  <2>2. DOMAIN tokens' = 1..(Len(tokens) + 1) /\ tokens'[Len(tokens) + 1].user = u
    BY <2>1, InvitedRows
  <2>3. users'[u].exists
    BY <2>1, UsersKept
  <2>4. QED
    BY <1>0, <1>1, <1>2, <2>2, <2>3 DEF Accounted
<1>4. ASSUME DOMAIN tokens' = DOMAIN tokens
      PROVE  Accounted'
  BY <1>1, <1>2, <1>4 DEF Accounted
<1>5. ASSUME NEW b \in Browser, NEW t \in DOMAIN tokens, NEW p \in Password,
             ResetPassword(b, t, p)
      PROVE  DOMAIN tokens' = DOMAIN tokens
  BY <1>0, <1>5 DEF ResetPassword
<1>6. ASSUME NEW t \in DOMAIN tokens, ExpireToken(t)
      PROVE  DOMAIN tokens' = DOMAIN tokens
  BY <1>0, <1>6 DEF ExpireToken
<1>7. QED
  BY <1>3, <1>4, <1>5, <1>6, TokensStep

-----------------------------------------------------------------------------
(* The theorems *)

Inv == TypeOK /\ LiveIsNewest /\ Accounted

LEMMA InvInit == Init => Inv
<1> SUFFICES ASSUME Init PROVE LiveIsNewest /\ Accounted
  BY TypeInit DEF Inv
<1>1. DOMAIN tokens = {}
  BY EmptySeq, LenProperties DEF Init
<1>2. QED
  BY <1>1 DEF Init, LiveIsNewest, Accounted

LEMMA Invariant == Spec => []Inv
<1>1. Inv /\ [Next]_vars => Inv'
  BY TypeStep, LiveStep, AccountedStep DEF Inv
<1>2. QED
  BY InvInit, <1>1, PTL DEF Spec

\* Every variable keeps its type; a cookie names a session there is.
THEOREM TypeCorrect == Spec => []TypeOK
BY Invariant, PTL DEF Inv

\* However often a user is invited, only the newest of his links can still be used
\* (create_invite_token, consume_invite_token).
THEOREM OnlyNewestLinkLives == Spec => []LiveIsNewest
BY Invariant, PTL DEF Inv

LEMMA PasswordStep ==
  ASSUME Inv, [Next]_vars, NEW u \in User, users'[u].password # users[u].password
  PROVE  \/ ~users[u].exists
         \/ \E b \in Browser : SetPassword(b, u, users'[u].password)
         \/ \E t \in DOMAIN tokens :
               /\ tokens[t].user = u
               /\ ~tokens[t].used /\ tokens'[t].used
               /\ \A w \in DOMAIN tokens : tokens[w].user = u => w <= t
<1>0. /\ users[u] \in UserRow /\ users \in [User -> UserRow]
      /\ DOMAIN tokens = 1..Len(tokens)
      /\ \A t \in DOMAIN tokens : tokens[t] \in Token /\ tokens[t].user \in User
  BY TokenRows DEF Inv, TypeOK
<1>1. ASSUME NEW b \in Browser, NEW t \in DOMAIN tokens, NEW p \in Password,
             ResetPassword(b, t, p)
      PROVE  /\ tokens[t].user = u
             /\ ~tokens[t].used /\ tokens'[t].used
             /\ \A w \in DOMAIN tokens : tokens[w].user = u => w <= t
  <2>1. tokens[t].user = u
    BY <1>0, <1>1 DEF ResetPassword, UserRow
  <2>2. ~tokens[t].used /\ tokens'[t].used
    BY <1>0, <1>1 DEF ResetPassword, LinkGood, Token
  <2>3. QED
    BY <2>1, <2>2 DEF Inv, LiveIsNewest
<1>2. ASSUME NEW b \in Browser, NEW v \in User, NEW admin \in BOOLEAN,
             NEW expires \in {"never", "later", "past"}, UpdateUser(b, v, admin, expires)
      PROVE  FALSE
  BY <1>0, <1>2 DEF UpdateUser, UserRow
<1>3. ASSUME NEW b \in Browser, NEW v \in User, NEW admin \in BOOLEAN,
             NEW expires \in {"never", "later", "past"}, NEW p \in Password,
             CreateUser(b, v, admin, p, expires)
      PROVE  ~users[u].exists
  BY <1>0, <1>3 DEF CreateUser, UserRow
<1>4. ASSUME NEW b \in Browser, NEW v \in User, NEW p \in Password, SetPassword(b, v, p)
      PROVE  SetPassword(b, u, users'[u].password)
  <2>1. u = v /\ users'[u].password = p
    BY <1>0, <1>4 DEF SetPassword, UserRow
  <2>2. QED
    BY <1>4, <2>1
<1>5. ASSUME NEW b \in Browser, NEW v \in User,
             \/ \E secret \in Secret \cup {NoSecret} : SetMfa(b, v, secret)
             \/ ToggleUser(b, v)
      PROVE  FALSE
  BY <1>0, <1>5 DEF SetMfa, ToggleUser, UserRow
<1>6. ASSUME NEW v \in User, ExpireAccount(v)
      PROVE  FALSE
  BY <1>0, <1>6 DEF ExpireAccount, UserRow
<1>7. QED
  BY <1>1, <1>2, <1>3, <1>4, <1>5, <1>6, UsersStep

\* A link sets a password once, and only the newest one of its user does; nothing but
\* a link or an admin does (reset_submit, consume_invite_token).
THEOREM PasswordsChangeOnceByLink == Spec => LinkSetsPasswordOnce
<1>1. Inv /\ [Next]_vars =>
        [\A u \in User : users'[u].password # users[u].password =>
          \/ ~users[u].exists
          \/ \E b \in Browser : SetPassword(b, u, users'[u].password)
          \/ \E t \in DOMAIN tokens :
                /\ tokens[t].user = u
                /\ ~tokens[t].used /\ tokens'[t].used
                /\ \A w \in DOMAIN tokens : tokens[w].user = u => w <= t]_vars
  BY PasswordStep
<1>2. QED
  BY <1>1, Invariant, PTL DEF Spec, LinkSetsPasswordOnce

LEMMA AdminStep ==
  ASSUME Inv, [Next]_vars, UsableAdmins # {}, UsableAdmins' = {}
  PROVE  \E u \in User : \/ users'[u].expires # users[u].expires
                         \/ users[u].admin /\ ~users'[u].admin
<1>0. /\ users \in [User -> UserRow]
      /\ \A u \in User : users[u] \in UserRow
      /\ \A t \in DOMAIN tokens : tokens[t].user \in User
  BY TokenRows DEF Inv, TypeOK
<1> SUFFICES ASSUME \A u \in User : /\ users'[u].expires = users[u].expires
                                    /\ users[u].admin => users'[u].admin
             PROVE  FALSE
  OBVIOUS
<1>1. ASSUME NEW u \in UsableAdmins
      PROVE  users'[u].exists /\ ~users'[u].active
  BY <1>1, UsersKept DEF Inv, UsableAdmins
<1>2. PICK a \in UsableAdmins : TRUE
  OBVIOUS
<1>3. a \in User /\ users[a].active /\ ~users'[a].active
  BY <1>1, <1>2 DEF UsableAdmins
<1>4. ASSUME NEW b \in Browser, NEW v \in User, ToggleUser(b, v)
      PROVE  FALSE
  <2>1. /\ LoggedIn(b) /\ users[Owner(b)].expires # "past" /\ users[Owner(b)].admin
        /\ v # Owner(b)
    BY <1>4 DEF ToggleUser, Admin, Served
  <2>2. Owner(b) \in User /\ users[Owner(b)].active
    BY <2>1, OwnerIsUser DEF LoggedIn, ValidSession, Owner, Inv
  <2>3. Owner(b) \in UsableAdmins
    BY <2>1, <2>2 DEF Inv, Accounted, UsableAdmins
  <2>4. users'[Owner(b)] = users[Owner(b)]
    BY <1>0, <1>4, <2>1, <2>2 DEF ToggleUser
  <2>5. QED
    BY <1>1, <2>2, <2>3, <2>4
<1>5. ASSUME NEW b \in Browser, NEW t \in DOMAIN tokens, NEW p \in Password,
             ResetPassword(b, t, p)
      PROVE  FALSE
  BY <1>0, <1>3, <1>5 DEF ResetPassword, UserRow
<1>6. ASSUME NEW b \in Browser, NEW v \in User, NEW admin \in BOOLEAN,
             NEW expires \in {"never", "later", "past"},
             \/ UpdateUser(b, v, admin, expires)
             \/ \E p \in Password : CreateUser(b, v, admin, p, expires)
      PROVE  FALSE
  BY <1>0, <1>3, <1>6 DEF UpdateUser, CreateUser, UserRow
<1>7. ASSUME NEW b \in Browser, NEW v \in User,
             \/ \E p \in Password : SetPassword(b, v, p)
             \/ \E secret \in Secret \cup {NoSecret} : SetMfa(b, v, secret)
      PROVE  FALSE
  BY <1>0, <1>3, <1>7 DEF SetPassword, SetMfa, UserRow
<1>8. ASSUME NEW v \in User, ExpireAccount(v)
      PROVE  FALSE
  BY <1>0, <1>3, <1>8 DEF ExpireAccount, UserRow
<1>9. QED
  BY <1>3, <1>4, <1>5, <1>6, <1>7, <1>8, UsersStep

\* Admins who deactivate accounts never shut the last of themselves out (toggle_user).
THEOREM DeactivationSparesAnAdmin == Spec => LastAdminStays
<1>1. Inv /\ [Next]_vars =>
        [UsableAdmins # {} /\ UsableAdmins' = {} =>
          \E u \in User : \/ users'[u].expires # users[u].expires
                          \/ users[u].admin /\ ~users'[u].admin]_vars
  BY AdminStep
<1>2. QED
  BY <1>1, Invariant, PTL DEF Spec, LastAdminStays

=============================================================================
