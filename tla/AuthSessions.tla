----------------------------- MODULE AuthSessions -----------------------------
(***************************************************************************)
(* One email address in auth-service: its account, its refresh tokens and  *)
(* its password resets.  Every handler awaits bcrypt, SQL and the broker   *)
(* between its steps, and no transaction spans two statements.             *)
(*                                                                         *)
(* Access tokens are left out: they are signed, never stored.  Emailed     *)
(* tokens are compared by their hash, which tells them apart as well; the  *)
(* mail itself is not sent by this code, so any token issued may come back.*)
(***************************************************************************)
EXTENDS Naturals, FiniteSets

CONSTANTS Passwords, Tokens, ResetTokens, Handlers,
          None

ASSUME NoneAssumption ==
  None \notin Passwords /\ None \notin Tokens /\ None \notin ResetTokens

VARIABLES account,    \* the users row of the address
          token,      \* every refresh token issued; live: its row is in the table
          mailed,     \* reset tokens issued
          handler,    \* requests in progress
          announced,  \* user.registered was published
          resets,     \* history: how often each reset token changed the password
          crossed,    \* history: refresh and reset tokens two requests used at once
          overtaken,  \* history: a reset deleted the sessions while a request that
                      \* grants one was under way
          halfReset,  \* history: a reset died before it deleted the sessions
          stillborn   \* history: a registration died before it was announced

vars == <<account, token, mailed, handler, announced, resets, crossed, overtaken,
          halfReset, stillborn>>
-----------------------------------------------------------------------------
\* reset: the reset token stored; resetLive: it has not expired.
Account == [password : Passwords, reset : ResetTokens \cup {None},
            resetLive : BOOLEAN, verified : BOOLEAN]
\* password: the one whose login, registration or reset the session goes back
\* to; parent: the token it was exchanged for.
Token == [password : Passwords, parent : Tokens \cup {None},
          live : BOOLEAN, expired : BOOLEAN]

ASSUME NoRowAssumption == None \notin Account /\ None \notin Token

GrantingPCs == {"login.update", "session.create", "refresh.delete"}
PCs == {"idle", "register.create", "register.publish", "refresh.purge",
        "forgot.write", "reset.write", "reset.revoke", "verify.write"} \cup GrantingPCs
\* old: the refresh token presented; mail: the reset token presented.
HandlerState == [pc : PCs, password : Passwords \cup {None},
                 old : Tokens \cup {None}, mail : ResetTokens \cup {None}]
Idle == [pc |-> "idle", password |-> None, old |-> None, mail |-> None]

TypeOK ==
  /\ account \in Account \cup {None}
  /\ token \in [Tokens -> Token \cup {None}]
  /\ mailed \subseteq ResetTokens
  /\ handler \in [Handlers -> HandlerState]
  /\ announced \in BOOLEAN
  /\ resets \in [ResetTokens -> Nat]
  /\ crossed \subseteq Tokens \cup ResetTokens
  /\ overtaken \in BOOLEAN /\ halfReset \in BOOLEAN /\ stillborn \in BOOLEAN
-----------------------------------------------------------------------------
At(h, pc) == handler[h].pc = pc
On(pcs) == {h \in Handlers : handler[h].pc \in pcs}
Live(t) == token[t] # None /\ token[t].live

Start(h, state) == handler[h] = Idle /\ handler' = [handler EXCEPT ![h] = state]
Continue(h, pc) == handler' = [handler EXCEPT ![h].pc = pc]
Finish(h) == handler' = [handler EXCEPT ![h] = Idle]

\* Two requests are at work with one emailed or presented token.
Cross(k) ==
  crossed' = IF \E h \in Handlers : k \in {handler[h].old, handler[h].mail}
             THEN crossed \cup {k} ELSE crossed

\* DELETE ... WHERE token: whatever its answer, the caller goes on.
DeleteRow(t) ==
  token' = IF token[t] = None THEN token ELSE [token EXCEPT ![t].live = FALSE]

Histories == <<resets, crossed, overtaken, halfReset, stillborn>>
-----------------------------------------------------------------------------
(* register and login *)

RegisterFind(h, p) ==
  /\ account = None                                       \* else 409
  /\ Start(h, [Idle EXCEPT !.pc = "register.create", !.password = p])
  /\ UNCHANGED <<account, token, mailed, announced, Histories>>

\* Mutant of RegisterCreate: the email column is not unique.
RegisterOverwrites(h) ==
  /\ At(h, "register.create")
  /\ account' = [password |-> handler[h].password, reset |-> None,
                 resetLive |-> FALSE, verified |-> FALSE]
  /\ Continue(h, "register.publish")
  /\ UNCHANGED <<token, mailed, announced, Histories>>

\* Mutant of RegisterCreate: the session is started without telling anyone.
RegisterUnannounced(h) ==
  /\ At(h, "register.create") /\ account = None
  /\ account' = [password |-> handler[h].password, reset |-> None,
                 resetLive |-> FALSE, verified |-> FALSE]
  /\ Continue(h, "session.create")
  /\ UNCHANGED <<token, mailed, announced, Histories>>

\* The email column is unique: the second of two registrations fails (500).
RegisterCreate(h) ==
  /\ At(h, "register.create")
  /\ \/ /\ account = None
        /\ account' = [password |-> handler[h].password, reset |-> None,
                       resetLive |-> FALSE, verified |-> FALSE]
        /\ Continue(h, "register.publish")
     \/ /\ account # None
        /\ Finish(h)
        /\ UNCHANGED account
  /\ UNCHANGED <<token, mailed, announced, Histories>>

RegisterPublish(h) ==
  /\ At(h, "register.publish")
  /\ announced' = TRUE
  /\ Continue(h, "session.create")
  /\ UNCHANGED <<account, token, mailed, Histories>>

\* bcrypt compares with the hash that was loaded.
LoginFind(h, p) ==
  /\ account # None /\ account.password = p               \* else 401
  /\ Start(h, [Idle EXCEPT !.pc = "login.update", !.password = p])
  /\ UNCHANGED <<account, token, mailed, announced, Histories>>

\* Only last_login_at is written.
LoginUpdate(h) ==
  /\ At(h, "login.update")
  /\ Continue(h, "session.create")
  /\ UNCHANGED <<account, token, mailed, announced, Histories>>

\* issueRefreshToken, for register, login and refresh.
CreateSession(h) ==
  /\ At(h, "session.create")
  /\ \E t \in Tokens :
       /\ token[t] = None
       /\ token' = [token EXCEPT ![t] = [password |-> handler[h].password,
                                         parent |-> handler[h].old,
                                         live |-> TRUE, expired |-> FALSE]]
  /\ Finish(h)
  /\ UNCHANGED <<account, mailed, announced, Histories>>
-----------------------------------------------------------------------------
(* refresh and logout *)

RefreshFind(h, t) ==
  /\ Live(t)                                              \* else 401
  /\ Start(h, [Idle EXCEPT !.pc = IF token[t].expired THEN "refresh.purge"
                                  ELSE "refresh.delete",
                           !.password = token[t].password, !.old = t])
  /\ Cross(t)
  /\ UNCHANGED <<account, token, mailed, announced, resets, overtaken,
                 halfReset, stillborn>>

RefreshPurge(h) ==
  /\ At(h, "refresh.purge")
  /\ DeleteRow(handler[h].old)
  /\ Finish(h)
  /\ UNCHANGED <<account, mailed, announced, Histories>>

\* Mutant of RotateDelete: the token is only marked as used, the row stays.
RotateKeepsRow(h) ==
  /\ At(h, "refresh.delete")
  /\ Continue(h, "session.create")
  /\ UNCHANGED <<account, token, mailed, announced, Histories>>

\* rotateRefreshToken deletes the presented token, then issues a new one.
RotateDelete(h) ==
  /\ At(h, "refresh.delete")
  /\ DeleteRow(handler[h].old)
  /\ Continue(h, "session.create")
  /\ UNCHANGED <<account, mailed, announced, Histories>>

Logout(t) ==
  /\ Live(t)
  /\ DeleteRow(t)
  /\ UNCHANGED <<account, mailed, handler, announced, Histories>>
-----------------------------------------------------------------------------
(* forgotPassword, resetPassword, verifyEmail *)

ForgotFind(h) ==
  /\ account # None
  /\ Start(h, [Idle EXCEPT !.pc = "forgot.write"])
  /\ UNCHANGED <<account, token, mailed, announced, Histories>>

ForgotWrite(h) ==
  /\ At(h, "forgot.write")
  /\ \E k \in ResetTokens \ mailed :
       /\ account' = [account EXCEPT !.reset = k, !.resetLive = TRUE]
       /\ mailed' = mailed \cup {k}
  /\ Finish(h)
  /\ UNCHANGED <<token, announced, Histories>>

ResetFind(h, k, p) ==
  /\ account # None /\ account.reset = k /\ account.resetLive      \* else 400
  /\ Start(h, [Idle EXCEPT !.pc = "reset.write", !.password = p, !.mail = k])
  /\ Cross(k)
  /\ UNCHANGED <<account, token, mailed, announced, resets, overtaken,
                 halfReset, stillborn>>

\* Mutant of ResetWrite: the reset token is not cleared.
ResetKeepsToken(h) ==
  /\ At(h, "reset.write")
  /\ account' = [account EXCEPT !.password = handler[h].password]
  /\ resets' = [resets EXCEPT ![handler[h].mail] = @ + 1]
  /\ Continue(h, "reset.revoke")
  /\ UNCHANGED <<token, mailed, announced, crossed, overtaken,
                 halfReset, stillborn>>

\* The hash is computed first; the update clears whatever reset token is stored
\* by then, a newer one included.
ResetWrite(h) ==
  /\ At(h, "reset.write")
  /\ account' = [account EXCEPT !.password = handler[h].password, !.reset = None,
                                !.resetLive = FALSE]
  /\ resets' = [resets EXCEPT ![handler[h].mail] = @ + 1]
  /\ Continue(h, "reset.revoke")
  /\ UNCHANGED <<token, mailed, announced, crossed, overtaken,
                 halfReset, stillborn>>

\* Mutant of ResetRevoke: one session survives, as when only the newest is kept.
ResetRevokesButOne(h) ==
  /\ At(h, "reset.revoke")
  /\ \E kept \in Tokens :
       token' = [t \in Tokens |-> IF token[t] = None \/ t = kept THEN token[t]
                                  ELSE [token[t] EXCEPT !.live = FALSE]]
  /\ overtaken' = (overtaken \/ On(GrantingPCs \cup {"register.publish"}) # {})
  /\ Finish(h)
  /\ UNCHANGED <<account, mailed, announced, resets, crossed, halfReset,
                 stillborn>>

\* deleteAllForUser
ResetRevoke(h) ==
  /\ At(h, "reset.revoke")
  /\ token' = [t \in Tokens |-> IF token[t] = None THEN None
                                ELSE [token[t] EXCEPT !.live = FALSE]]
  /\ overtaken' = (overtaken \/ On(GrantingPCs \cup {"register.publish"}) # {})
  /\ Finish(h)
  /\ UNCHANGED <<account, mailed, announced, resets, crossed, halfReset,
                 stillborn>>

VerifyFind(h) ==
  /\ account # None /\ ~account.verified                  \* else 404
  /\ Start(h, [Idle EXCEPT !.pc = "verify.write"])
  /\ UNCHANGED <<account, token, mailed, announced, Histories>>
VerifyWrite(h) ==
  /\ At(h, "verify.write")
  /\ account' = [account EXCEPT !.verified = TRUE]
  /\ Finish(h)
  /\ UNCHANGED <<token, mailed, announced, Histories>>
-----------------------------------------------------------------------------
(* Time and failures *)

TokenExpires(t) ==
  /\ Live(t) /\ ~token[t].expired
  /\ token' = [token EXCEPT ![t].expired = TRUE]
  /\ UNCHANGED <<account, mailed, handler, announced, Histories>>
ResetExpires ==
  /\ account # None /\ account.resetLive
  /\ account' = [account EXCEPT !.resetLive = FALSE]
  /\ UNCHANGED <<token, mailed, handler, announced, Histories>>

\* A statement or the publish fails, or the process dies.
Fail(h) ==
  /\ handler[h].pc # "idle"
  /\ Finish(h)
  /\ halfReset' = (halfReset \/ At(h, "reset.revoke"))
  /\ stillborn' = (stillborn \/ At(h, "register.publish"))
  /\ UNCHANGED <<account, token, mailed, announced, resets, crossed, overtaken>>
-----------------------------------------------------------------------------
Init ==
  /\ account = None
  /\ token = [t \in Tokens |-> None]
  /\ mailed = {}
  /\ handler = [h \in Handlers |-> Idle]
  /\ announced = FALSE
  /\ resets = [k \in ResetTokens |-> 0]
  /\ crossed = {}
  /\ overtaken = FALSE /\ halfReset = FALSE /\ stillborn = FALSE

Begin(h) ==
  \/ \E p \in Passwords : RegisterFind(h, p) \/ LoginFind(h, p)
  \/ \E t \in Tokens : RefreshFind(h, t)
  \/ ForgotFind(h) \/ VerifyFind(h)
  \/ \E k \in mailed, p \in Passwords : ResetFind(h, k, p)
Proceed(h) ==
  \/ RegisterCreate(h) \/ RegisterPublish(h) \/ LoginUpdate(h) \/ CreateSession(h)
  \/ RefreshPurge(h) \/ RotateDelete(h)
  \/ ForgotWrite(h) \/ ResetWrite(h) \/ ResetRevoke(h) \/ VerifyWrite(h)
  \/ Fail(h)

Next ==
  \/ \E h \in Handlers : Begin(h) \/ Proceed(h)
  \/ \E t \in Tokens : Logout(t) \/ TokenExpires(t)
  \/ ResetExpires
Spec == Init /\ [][Next]_vars
-----------------------------------------------------------------------------
\* A session in the table goes back to the current password, except while a
\* reset is between its two writes, or once a reset overtook a request that was
\* granting a session, or died half way (auth.service.ts resetPassword).
SessionsUseCurrentPassword ==
  (~overtaken /\ ~halfReset /\ On({"reset.revoke"}) = {}) =>
    \A t \in Tokens : Live(t) => token[t].password = account.password

\* A refresh token that was exchanged is gone, and was exchanged once unless two
\* requests presented it at the same time (token.service.ts rotateRefreshToken).
RotationSpendsTokens ==
  \A t \in Tokens :
    (token[t] # None /\ token[t].parent # None) =>
      /\ ~Live(token[t].parent)
      /\ \A u \in Tokens :
           (token[u] # None /\ token[u].parent = token[t].parent) =>
             u = t \/ token[t].parent \in crossed

\* A reset token changes the password once, unless two requests presented it at
\* the same time: bcrypt runs between the check and the update that clears it.
ResetTokensWorkOnce == \A k \in ResetTokens \ crossed : resets[k] <= 1

\* An account was announced to the other services, or its registration is on
\* the way there, or died there: nothing else leaves an account nobody hears of
\* (auth.service.ts register).
AccountsAreAnnounced ==
  account # None => announced \/ stillborn \/ On({"register.publish"}) # {}

\* An account is registered once, whatever requests raced for the address: the
\* password changes by a reset, and the account never goes away.
RegisteredOnce ==
  [][account # None =>
       /\ account' # None
       /\ account'.password # account.password
            => \E h \in Handlers : At(h, "reset.write") /\ ~At(h, "reset.write")']_account

\* What auth.service.ts says of resetPassword: "Complete a password reset and
\* revoke all existing sessions." and "Force re-login everywhere after a
\* password change."  With every request done, and no reset that died half way,
\* no session goes back to an older password.
ResetRevokesAllSessions ==
  (On(PCs \ {"idle"}) = {} /\ ~halfReset) =>
    \A t \in Tokens : Live(t) => token[t].password = account.password
=============================================================================
