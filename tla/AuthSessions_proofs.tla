-------------------------- MODULE AuthSessions_proofs --------------------------
(***************************************************************************)
(* For any number of passwords, tokens and requests: the state keeps its   *)
(* type, an account is registered once and announced, and refresh tokens   *)
(* and reset tokens are spent by their use.                                *)
(***************************************************************************)
EXTENDS AuthSessions, TLAPS

USE NoneAssumption, NoRowAssumption

\* A step of the specification, by the kind of thing that takes it.
Clock == (\E t \in Tokens : Logout(t) \/ TokenExpires(t)) \/ ResetExpires

-----------------------------------------------------------------------------
(* Types *)

\* Beginning a request keeps the types.
LEMMA BeginTypes ==
  ASSUME TypeOK, NEW h \in Handlers, Begin(h)
  PROVE  TypeOK'
<1>1. \A s \in HandlerState : [handler EXCEPT ![h] = s] \in [Handlers -> HandlerState]
  BY DEF TypeOK
<1>2. Idle \in HandlerState
  BY DEF Idle, HandlerState, PCs
<1>3. CASE \E p \in Passwords : RegisterFind(h, p) \/ LoginFind(h, p)
  <2>1. PICK p \in Passwords : RegisterFind(h, p) \/ LoginFind(h, p)
    BY <1>3
  <2>2. /\ [Idle EXCEPT !.pc = "register.create", !.password = p] \in HandlerState
        /\ [Idle EXCEPT !.pc = "login.update", !.password = p] \in HandlerState
    BY DEF Idle, HandlerState, PCs, GrantingPCs
  <2>3. handler' \in [Handlers -> HandlerState]
    BY <2>1, <2>2, <1>1 DEF RegisterFind, LoginFind, Start
  <2>. QED BY <2>1, <2>3 DEF RegisterFind, LoginFind, Histories, TypeOK
<1>4. CASE \E t \in Tokens : RefreshFind(h, t)
  <2>1. PICK t \in Tokens : RefreshFind(h, t)
    BY <1>4
  <2>2. token[t] \in Token
    BY <2>1 DEF RefreshFind, Live, TypeOK
  <2>3. \A pc \in {"refresh.purge", "refresh.delete"} :
          [Idle EXCEPT !.pc = pc, !.password = token[t].password, !.old = t] \in HandlerState
    BY <2>2 DEF Idle, HandlerState, PCs, GrantingPCs, Token
  <2>4. handler' \in [Handlers -> HandlerState]
    BY <2>1, <2>3, <1>1 DEF RefreshFind, Start
  <2>5. crossed' \subseteq Tokens \cup ResetTokens
    BY <2>1 DEF RefreshFind, Cross, TypeOK
  <2>. QED BY <2>1, <2>4, <2>5 DEF RefreshFind, TypeOK
<1>5. CASE ForgotFind(h) \/ VerifyFind(h)
  <2>1. /\ [Idle EXCEPT !.pc = "forgot.write"] \in HandlerState
        /\ [Idle EXCEPT !.pc = "verify.write"] \in HandlerState
    BY DEF Idle, HandlerState, PCs
  <2>2. handler' \in [Handlers -> HandlerState]
    BY <2>1, <1>1, <1>5 DEF ForgotFind, VerifyFind, Start
  <2>. QED BY <2>2, <1>5 DEF ForgotFind, VerifyFind, Histories, TypeOK
<1>6. CASE \E k \in mailed, p \in Passwords : ResetFind(h, k, p)
  <2>1. PICK k \in mailed, p \in Passwords : ResetFind(h, k, p)
    BY <1>6
  <2>2. k \in ResetTokens
    BY DEF TypeOK
  <2>3. [Idle EXCEPT !.pc = "reset.write", !.password = p, !.mail = k] \in HandlerState
    BY <2>2 DEF Idle, HandlerState, PCs
  <2>4. handler' \in [Handlers -> HandlerState]
    BY <2>1, <2>3, <1>1 DEF ResetFind, Start
  <2>5. crossed' \subseteq Tokens \cup ResetTokens
    BY <2>1, <2>2 DEF ResetFind, Cross, TypeOK
  <2>. QED BY <2>1, <2>4, <2>5 DEF ResetFind, TypeOK
<1>. QED BY <1>3, <1>4, <1>5, <1>6 DEF Begin

\* What a request has loaded: one that grants a session carries a password, one
\* that resets its password and token, one that refreshes the token presented.
Loaded(h) ==
  /\ handler[h].pc \in GrantingPCs \cup {"register.create", "register.publish",
                                         "reset.write"}
       => handler[h].password \in Passwords
  /\ handler[h].pc \in {"reset.write", "forgot.write", "verify.write"} => account # None
  /\ handler[h].pc = "reset.write" => handler[h].mail \in ResetTokens
  /\ handler[h].pc \in {"refresh.purge", "refresh.delete"} => handler[h].old \in Tokens
LoadedInv == \A h \in Handlers : Loaded(h)

\* A request that moves on or ends keeps the type of its state.
LEMMA MoveTypes ==
  ASSUME TypeOK, NEW h \in Handlers,
         Finish(h) \/ (\E pc \in PCs : Continue(h, pc))
  PROVE  handler' \in [Handlers -> HandlerState]
<1>1. handler[h] \in HandlerState
  BY DEF TypeOK
<1>2. Idle \in HandlerState
  BY DEF Idle, HandlerState, PCs
<1>3. ASSUME NEW pc \in PCs PROVE [handler[h] EXCEPT !.pc = pc] \in HandlerState
  BY <1>1 DEF HandlerState
<1>. QED BY <1>2, <1>3 DEF Finish, Continue, TypeOK

\* Deleting a row keeps the type of the table.
LEMMA DeleteTypes ==
  ASSUME TypeOK, NEW t \in Tokens, DeleteRow(t)
  PROVE  token' \in [Tokens -> Token \cup {None}]
<1>1. ASSUME token[t] # None PROVE [token[t] EXCEPT !.live = FALSE] \in Token
  BY <1>1 DEF TypeOK, Token
<1>. QED BY <1>1 DEF DeleteRow, TypeOK

\* The steps of a request keep the types.
LEMMA ProceedTypes ==
  ASSUME TypeOK, NEW h \in Handlers, Loaded(h), Proceed(h)
  PROVE  TypeOK'
<1>. DEFINE s == handler[h]
<1>1. CASE RegisterCreate(h)
  <2>1. handler' \in [Handlers -> HandlerState]
    BY <1>1, MoveTypes DEF RegisterCreate, PCs
  <2>2. account' \in Account \cup {None}
    <3>1. [password |-> s.password, reset |-> None, resetLive |-> FALSE,
           verified |-> FALSE] \in Account
      BY <1>1 DEF RegisterCreate, At, Loaded, Account
    <3>. QED BY <1>1, <3>1 DEF RegisterCreate, TypeOK
  <2>. QED BY <1>1, <2>1, <2>2 DEF RegisterCreate, Histories, TypeOK
<1>2. CASE RegisterPublish(h) \/ LoginUpdate(h)
  <2>1. handler' \in [Handlers -> HandlerState]
    BY <1>2, MoveTypes DEF RegisterPublish, LoginUpdate, PCs, GrantingPCs
  <2>. QED BY <1>2, <2>1 DEF RegisterPublish, LoginUpdate, Histories, TypeOK
<1>3. CASE CreateSession(h)
  <2>1. PICK t \in Tokens :
          token' = [token EXCEPT ![t] = [password |-> s.password, parent |-> s.old,
                                         live |-> TRUE, expired |-> FALSE]]
    BY <1>3 DEF CreateSession
  <2>2. s.password \in Passwords /\ s.old \in Tokens \cup {None}
    BY <1>3 DEF CreateSession, At, Loaded, GrantingPCs, TypeOK, HandlerState
  <2>3. token' \in [Tokens -> Token \cup {None}]
    BY <2>1, <2>2 DEF TypeOK, Token
  <2>4. handler' \in [Handlers -> HandlerState]
    BY <1>3, MoveTypes DEF CreateSession
  <2>. QED BY <1>3, <2>3, <2>4 DEF CreateSession, Histories, TypeOK
<1>4. CASE RefreshPurge(h) \/ RotateDelete(h)
  <2>1. s.old \in Tokens
    BY <1>4 DEF RefreshPurge, RotateDelete, At, Loaded
  <2>2. token' \in [Tokens -> Token \cup {None}]
    BY <1>4, <2>1, DeleteTypes DEF RefreshPurge, RotateDelete
  <2>3. handler' \in [Handlers -> HandlerState]
    BY <1>4, MoveTypes DEF RefreshPurge, RotateDelete, PCs, GrantingPCs
  <2>. QED BY <1>4, <2>2, <2>3 DEF RefreshPurge, RotateDelete, Histories, TypeOK
<1>5. CASE ForgotWrite(h)
  <2>1. PICK k \in ResetTokens :
          /\ account' = [account EXCEPT !.reset = k, !.resetLive = TRUE]
          /\ mailed' = mailed \cup {k}
    BY <1>5 DEF ForgotWrite
  <2>2. account \in Account
    BY <1>5 DEF ForgotWrite, At, Loaded, TypeOK
  <2>3. account' \in Account
    BY <2>1, <2>2 DEF Account
  <2>4. handler' \in [Handlers -> HandlerState]
    BY <1>5, MoveTypes DEF ForgotWrite
  <2>. QED BY <1>5, <2>1, <2>3, <2>4 DEF ForgotWrite, Histories, TypeOK
<1>6. CASE ResetWrite(h)
  <2>1. account \in Account /\ s.password \in Passwords /\ s.mail \in ResetTokens
    BY <1>6 DEF ResetWrite, At, Loaded, TypeOK
  <2>2. account' \in Account
    BY <1>6, <2>1 DEF ResetWrite, Account
  <2>3. resets' \in [ResetTokens -> Nat]
    BY <1>6, <2>1 DEF ResetWrite, TypeOK
  <2>4. handler' \in [Handlers -> HandlerState]
    BY <1>6, MoveTypes DEF ResetWrite, PCs
  <2>. QED BY <1>6, <2>2, <2>3, <2>4 DEF ResetWrite, TypeOK
<1>7. CASE ResetRevoke(h)
  <2>1. ASSUME NEW t \in Tokens, token[t] # None
        PROVE  [token[t] EXCEPT !.live = FALSE] \in Token
    BY <2>1 DEF TypeOK, Token
  <2>2. token' \in [Tokens -> Token \cup {None}]
    BY <1>7, <2>1 DEF ResetRevoke
  <2>3. handler' \in [Handlers -> HandlerState]
    BY <1>7, MoveTypes DEF ResetRevoke
  <2>4. overtaken' \in BOOLEAN
    BY <1>7 DEF ResetRevoke, TypeOK
  <2>. QED BY <1>7, <2>2, <2>3, <2>4 DEF ResetRevoke, TypeOK
<1>8. CASE VerifyWrite(h)
  <2>1. account \in Account
    BY <1>8 DEF VerifyWrite, At, Loaded, TypeOK
  <2>2. account' \in Account
    BY <1>8, <2>1 DEF VerifyWrite, Account
  <2>3. handler' \in [Handlers -> HandlerState]
    BY <1>8, MoveTypes DEF VerifyWrite
  <2>. QED BY <1>8, <2>2, <2>3 DEF VerifyWrite, Histories, TypeOK
<1>9. CASE Fail(h)
  <2>1. handler' \in [Handlers -> HandlerState]
    BY <1>9, MoveTypes DEF Fail
  <2>2. halfReset' \in BOOLEAN /\ stillborn' \in BOOLEAN
    BY <1>9 DEF Fail, TypeOK
  <2>. QED BY <1>9, <2>1, <2>2 DEF Fail, TypeOK
<1>. QED BY <1>1, <1>2, <1>3, <1>4, <1>5, <1>6, <1>7, <1>8, <1>9 DEF Proceed

\* Logout and the passing of time keep the types.
LEMMA ClockTypes ==
  ASSUME TypeOK, Clock
  PROVE  TypeOK'
<1>1. ASSUME NEW t \in Tokens, Logout(t) PROVE TypeOK'
  <2>1. token' \in [Tokens -> Token \cup {None}]
    BY <1>1, DeleteTypes DEF Logout
  <2>. QED BY <1>1, <2>1 DEF Logout, Histories, TypeOK
<1>2. ASSUME NEW t \in Tokens, TokenExpires(t) PROVE TypeOK'
  <2>1. [token[t] EXCEPT !.expired = TRUE] \in Token
    BY <1>2 DEF TokenExpires, Live, TypeOK, Token
  <2>2. token' \in [Tokens -> Token \cup {None}]
    BY <1>2, <2>1 DEF TokenExpires, TypeOK
  <2>. QED BY <1>2, <2>2 DEF TokenExpires, Histories, TypeOK
<1>3. CASE ResetExpires
  <2>1. account' \in Account
    BY <1>3 DEF ResetExpires, TypeOK, Account
  <2>. QED BY <1>3, <2>1 DEF ResetExpires, Histories, TypeOK
<1>. QED BY <1>1, <1>2, <1>3 DEF Clock

-----------------------------------------------------------------------------
(* The account *)

\* Nothing removes the account, and only the write of a reset changes its
\* password.
LEMMA AccountStays ==
  ASSUME TypeOK, LoadedInv, Next, account # None
  PROVE  /\ account' # None
         /\ account'.password # account.password
              => \E h \in Handlers : At(h, "reset.write") /\ ~At(h, "reset.write")'
<1>1. account \in Account
  BY DEF TypeOK
<1>2. CASE UNCHANGED account
  BY <1>2
<1>3. ASSUME NEW h \in Handlers, ForgotWrite(h) \/ VerifyWrite(h)
      PROVE  account' \in Account /\ account'.password = account.password
  <2>1. CASE ForgotWrite(h)
    BY <1>1, <2>1 DEF ForgotWrite, Account
  <2>2. CASE VerifyWrite(h)
    BY <1>1, <2>2 DEF VerifyWrite, Account
  <2>. QED BY <1>3, <2>1, <2>2
<1>4. CASE ResetExpires
  BY <1>1, <1>4 DEF ResetExpires, Account
<1>5. ASSUME NEW h \in Handlers, ResetWrite(h)
      PROVE  account' \in Account /\ At(h, "reset.write") /\ ~At(h, "reset.write")'
  <2>1. handler[h].password \in Passwords
    BY <1>5 DEF ResetWrite, At, LoadedInv, Loaded
  <2>2. account' \in Account
    BY <1>1, <1>5, <2>1 DEF ResetWrite, Account
  <2>3. handler'[h].pc = "reset.revoke"
    BY <1>5 DEF ResetWrite, Continue, TypeOK, HandlerState
  <2>. QED BY <1>5, <2>2, <2>3 DEF ResetWrite, At
<1>6. \/ UNCHANGED account \/ ResetExpires
      \/ \E h \in Handlers : ForgotWrite(h) \/ VerifyWrite(h) \/ ResetWrite(h)
  BY ZenonT(30) DEF Next, Begin, Proceed, RegisterFind, LoginFind, RefreshFind, ForgotFind,
         VerifyFind, ResetFind, RegisterCreate, RegisterPublish, LoginUpdate,
         CreateSession, RefreshPurge, RotateDelete, ResetRevoke, Fail, Logout,
         TokenExpires
<1>. QED BY <1>2, <1>3, <1>4, <1>5, <1>6

-----------------------------------------------------------------------------
(* What a request has loaded *)

\* A request touches no other request.
LEMMA OnlyItself ==
  ASSUME TypeOK, NEW h \in Handlers, Begin(h) \/ Proceed(h),
         NEW g \in Handlers, g # h
  PROVE  handler'[g] = handler[g]
<1>1. CASE Begin(h)
  BY <1>1 DEF Begin, RegisterFind, LoginFind, RefreshFind, ForgotFind, VerifyFind,
              ResetFind, Start, TypeOK
<1>2. CASE Proceed(h)
  BY <1>2 DEF Proceed, RegisterCreate, RegisterPublish, LoginUpdate, CreateSession,
              RefreshPurge, RotateDelete, ForgotWrite, ResetWrite, ResetRevoke,
              VerifyWrite, Fail, Continue, Finish, TypeOK
<1>. QED BY <1>1, <1>2

\* A request that begins has loaded what its steps will use.
LEMMA BeginLoads ==
  ASSUME TypeOK, NEW h \in Handlers, Begin(h)
  PROVE  Loaded(h)'
<1>1. CASE \E p \in Passwords : RegisterFind(h, p) \/ LoginFind(h, p)
  <2>1. PICK p \in Passwords : RegisterFind(h, p) \/ LoginFind(h, p)
    BY <1>1
  <2>2. /\ handler'[h].pc \in {"register.create", "login.update"}
        /\ handler'[h].password = p
    <3>1. CASE RegisterFind(h, p)
      BY <2>1, <3>1 DEF RegisterFind, Start, Idle, TypeOK
    <3>2. CASE LoginFind(h, p)
      BY <2>1, <3>2 DEF LoginFind, Start, Idle, TypeOK
    <3>. QED BY <2>1, <3>1, <3>2
  <2>. QED BY <2>2 DEF Loaded
<1>2. CASE \E t \in Tokens : RefreshFind(h, t)
  <2>1. PICK t \in Tokens : RefreshFind(h, t)
    BY <1>2
  <2>2. token[t] \in Token
    BY <2>1 DEF RefreshFind, Live, TypeOK
  <2>3. /\ handler'[h].pc \in {"refresh.purge", "refresh.delete"}
        /\ handler'[h].password = token[t].password /\ handler'[h].old = t
    BY <2>1 DEF RefreshFind, Start, Idle, TypeOK
  <2>. QED BY <2>2, <2>3 DEF Loaded, Token
<1>3. CASE ForgotFind(h) \/ VerifyFind(h)
  <2>1. /\ handler'[h].pc \in {"forgot.write", "verify.write"}
        /\ account' # None
    BY <1>3 DEF ForgotFind, VerifyFind, Start, Idle, TypeOK
  <2>. QED BY <2>1 DEF Loaded, GrantingPCs
<1>4. CASE \E k \in mailed, p \in Passwords : ResetFind(h, k, p)
  <2>1. PICK k \in mailed, p \in Passwords : ResetFind(h, k, p)
    BY <1>4
  <2>2. /\ handler'[h].pc = "reset.write" /\ handler'[h].password = p
        /\ handler'[h].mail = k /\ account' # None
    BY <2>1 DEF ResetFind, Start, Idle, TypeOK
  <2>. QED BY <2>2 DEF Loaded, TypeOK
<1>. QED BY <1>1, <1>2, <1>3, <1>4 DEF Begin

\* A request that moves on still has what its next step uses.
LEMMA ProceedLoads ==
  ASSUME TypeOK, NEW h \in Handlers, Loaded(h), Proceed(h)
  PROVE  Loaded(h)'
<1>1. CASE handler' = [handler EXCEPT ![h] = Idle]
  <2>1. handler'[h].pc = "idle"
    BY <1>1 DEF Idle, TypeOK
  <2>. QED BY <2>1 DEF Loaded, GrantingPCs
<1>2. ASSUME NEW pc \in {"register.publish", "session.create"}, Continue(h, pc),
             At(h, "register.create") \/ At(h, "register.publish")
               \/ At(h, "login.update") \/ At(h, "refresh.delete")
      PROVE  Loaded(h)'
  <2>1. handler[h].password \in Passwords
    BY <1>2 DEF At, Loaded, GrantingPCs
  <2>2. handler'[h].pc = pc /\ handler'[h].password \in Passwords
    BY <1>2, <2>1 DEF Continue, TypeOK, HandlerState
  <2>. QED BY <2>2 DEF Loaded
<1>3. CASE Continue(h, "reset.revoke")
  <2>1. handler'[h].pc = "reset.revoke"
    BY <1>3 DEF Continue, TypeOK, HandlerState
  <2>. QED BY <2>1 DEF Loaded, GrantingPCs
<1>. QED BY <1>1, <1>2, <1>3
         DEF Proceed, RegisterCreate, RegisterPublish, LoginUpdate, CreateSession,
             RefreshPurge, RotateDelete, ForgotWrite, ResetWrite, ResetRevoke,
             VerifyWrite, Fail, Finish

\* The strengthening of the types that the steps of a request rely on.
LEMMA TypesInductive ==
  ASSUME TypeOK, LoadedInv, [Next]_vars
  PROVE  TypeOK' /\ LoadedInv'
<1>1. CASE UNCHANGED vars
  BY <1>1 DEF vars, TypeOK, LoadedInv, Loaded
<1>2. ASSUME NEW h \in Handlers, Begin(h) \/ Proceed(h)
      PROVE  TypeOK' /\ LoadedInv'
  <2>1. TypeOK'
    BY <1>2, BeginTypes, ProceedTypes DEF LoadedInv
  <2>2. account # None => account' # None
    BY <1>2, AccountStays DEF Next
  <2>3. Loaded(h)'
    BY <1>2, BeginLoads, ProceedLoads DEF LoadedInv
  <2>4. ASSUME NEW g \in Handlers, g # h PROVE Loaded(g)'
    <3>1. handler'[g] = handler[g]
      BY <1>2, <2>4, OnlyItself
    <3>. QED BY <2>2, <3>1 DEF LoadedInv, Loaded
  <2>. QED BY <2>1, <2>3, <2>4 DEF LoadedInv
<1>3. CASE Clock
  <2>1. TypeOK'
    BY <1>3, ClockTypes
  <2>2. handler' = handler
    BY <1>3 DEF Clock, Logout, TokenExpires, ResetExpires
  <2>3. account # None => account' # None
    BY <1>3, AccountStays DEF Clock, Next
  <2>. QED BY <2>1, <2>2, <2>3 DEF LoadedInv, Loaded
<1>. QED BY <1>1, <1>2, <1>3 DEF Next, Clock

\* Nothing has begun in the initial state.
LEMMA InitTypes == Init => TypeOK /\ LoadedInv
<1>. SUFFICES ASSUME Init PROVE TypeOK /\ LoadedInv
  OBVIOUS
<1>1. Idle \in HandlerState
  BY DEF Idle, HandlerState, PCs
<1>2. TypeOK
  BY <1>1 DEF Init, TypeOK
<1>3. \A h \in Handlers : handler[h].pc = "idle"
  BY DEF Init, Idle
<1>. QED BY <1>2, <1>3 DEF LoadedInv, Loaded, GrantingPCs

\* The rows, the requests and the histories keep their types, and a request
\* holds what its next statement writes.
THEOREM TypeCorrect == Spec => [](TypeOK /\ LoadedInv)
BY InitTypes, TypesInductive, PTL DEF Spec

\* Whatever requests raced for the address, the account is created once: it
\* never goes away, and only the write of a reset changes its password.
THEOREM AccountIsRegisteredOnce == Spec => RegisteredOnce
<1>1. ASSUME TypeOK, LoadedInv, [Next]_vars
      PROVE  [account # None =>
                /\ account' # None
                /\ account'.password # account.password
                     => \E h \in Handlers : At(h, "reset.write") /\ ~At(h, "reset.write")'
             ]_account
  BY <1>1, AccountStays DEF vars
<1>. QED BY <1>1, TypeCorrect, PTL DEF Spec, RegisteredOnce

-----------------------------------------------------------------------------
(* The announcement *)

\* A registration leaves its publish only by publishing, or by dying there.
LEMMA PublisherStays ==
  ASSUME TypeOK, [Next]_vars, NEW g \in Handlers, At(g, "register.publish"),
         ~RegisterPublish(g), ~Fail(g)
  PROVE  At(g, "register.publish")'
<1>1. CASE UNCHANGED vars \/ Clock
  BY <1>1 DEF vars, Clock, Logout, TokenExpires, ResetExpires, At
<1>2. ASSUME NEW h \in Handlers, Begin(h) \/ Proceed(h), h # g
      PROVE  At(g, "register.publish")'
  BY <1>2, OnlyItself, SMTT(30) DEF At
<1>3. ~Begin(g)
  <2>1. handler[g] # Idle
    BY DEF Idle, At
  <2>. QED BY <2>1 DEF Begin, RegisterFind, LoginFind, RefreshFind, ForgotFind,
                       VerifyFind, ResetFind, Start
<1>4. ~Proceed(g)
  BY DEF Proceed, RegisterCreate, LoginUpdate, CreateSession, RefreshPurge,
         RotateDelete, ForgotWrite, ResetWrite, ResetRevoke, VerifyWrite, At
<1>. QED BY <1>1, <1>2, <1>3, <1>4 DEF Next, Clock

\* The account appears together with a registration on its way to the publish.
LEMMA AccountAppears ==
  ASSUME TypeOK, LoadedInv, [Next]_vars, account = None, account' # None
  PROVE  On({"register.publish"})' # {}
<1>1. \A h \in Handlers : ~ForgotWrite(h) /\ ~ResetWrite(h) /\ ~VerifyWrite(h)
  BY DEF ForgotWrite, ResetWrite, VerifyWrite, At, LoadedInv, Loaded
<1>2. ~UNCHANGED account /\ ~ResetExpires
  BY DEF ResetExpires
<1>3. PICK h \in Handlers : RegisterCreate(h)
  BY <1>1, <1>2 DEF vars, Next, Begin, Proceed, RegisterFind, LoginFind, RefreshFind,
         ForgotFind, VerifyFind, ResetFind, RegisterPublish, LoginUpdate,
         CreateSession, RefreshPurge, RotateDelete, ResetRevoke, Fail, Logout,
         TokenExpires
<1>4. handler'[h].pc = "register.publish"
  BY <1>2, <1>3 DEF RegisterCreate, Continue, TypeOK, HandlerState
<1>. QED BY <1>4 DEF On

\* An account was announced, or its registration is about to announce it or
\* died there (auth.service.ts register).
THEOREM EveryAccountIsAnnounced == Spec => []AccountsAreAnnounced
<1>1. Init => AccountsAreAnnounced
  BY DEF Init, AccountsAreAnnounced
<1>2. ASSUME TypeOK, LoadedInv, AccountsAreAnnounced, [Next]_vars
      PROVE  AccountsAreAnnounced'
  <2>1. CASE account = None
    BY <2>1, <1>2, AccountAppears DEF AccountsAreAnnounced
  <2>2. /\ UNCHANGED announced \/ announced' = TRUE
        /\ UNCHANGED stillborn
           \/ \E h \in Handlers : stillborn' = (stillborn \/ At(h, "register.publish"))
    BY <1>2 DEF vars, Next, Begin, Proceed, RegisterFind, LoginFind, RefreshFind,
           ForgotFind, VerifyFind, ResetFind, RegisterCreate, RegisterPublish,
           LoginUpdate, CreateSession, RefreshPurge, RotateDelete, ForgotWrite,
           ResetWrite, ResetRevoke, VerifyWrite, Fail, Logout, TokenExpires,
           ResetExpires, Histories
  <2>3. ASSUME NEW g \in Handlers, At(g, "register.publish")
        PROVE  AccountsAreAnnounced'
    <3>1. CASE RegisterPublish(g)
      BY <3>1 DEF RegisterPublish, AccountsAreAnnounced
    <3>2. CASE Fail(g)
      BY <2>3, <3>2 DEF Fail, AccountsAreAnnounced
    <3>3. CASE At(g, "register.publish")'
      BY <3>3 DEF At, On, AccountsAreAnnounced
    <3>. QED BY <1>2, <2>3, <3>1, <3>2, <3>3, PublisherStays
  <2>4. CASE announced
    BY <2>2, <2>4 DEF AccountsAreAnnounced
  <2>5. CASE stillborn
    BY <2>2, <2>5 DEF AccountsAreAnnounced
  <2>6. CASE On({"register.publish"}) # {}
    BY <2>3, <2>6 DEF On, At
  <2>. QED BY <1>2, <2>1, <2>4, <2>5, <2>6 DEF AccountsAreAnnounced
<1>. QED BY <1>1, <1>2, TypeCorrect, PTL DEF Spec

-----------------------------------------------------------------------------
(* Reset tokens *)

\* A stored reset token was mailed and has not worked yet; one never mailed is
\* in nobody's hands; two requests that hold the same one crossed; and one that
\* is about to be used has not worked, unless requests crossed over it.
StoredUnused ==
  account # None /\ account.reset # None
    => account.reset \in mailed /\ resets[account.reset] = 0
UnmailedUnused ==
  \A k \in ResetTokens \ mailed :
    resets[k] = 0 /\ \A h \in Handlers : handler[h].mail # k
HoldersCrossed ==
  \A g, h \in Handlers :
    (g # h /\ handler[g].mail = handler[h].mail /\ handler[g].mail # None)
      => handler[g].mail \in crossed
HeldUnused ==
  \A h \in Handlers :
    At(h, "reset.write") => resets[handler[h].mail] = 0 \/ handler[h].mail \in crossed
ResetInv == StoredUnused /\ UnmailedUnused /\ HoldersCrossed /\ HeldUnused
            /\ ResetTokensWorkOnce

\* A step that starts, writes and uses no reset token disturbs nothing.
LEMMA ResetUntouched ==
  ASSUME TypeOK, ResetInv,
         account' # None => account'.reset = None
                            \/ (account # None /\ account'.reset = account.reset),
         UNCHANGED <<mailed, resets>>, crossed \subseteq crossed',
         \A g \in Handlers : \/ handler'[g] = handler[g]
                             \/ handler'[g].mail \in {None, handler[g].mail}
                                /\ ~At(g, "reset.write")'
  PROVE  ResetInv'
<1>1. StoredUnused'
  BY DEF ResetInv, StoredUnused
<1>2. UnmailedUnused'
  BY DEF ResetInv, UnmailedUnused
<1>3. HoldersCrossed'
  BY DEF ResetInv, HoldersCrossed
<1>4. HeldUnused'
  BY DEF ResetInv, HeldUnused, At
<1>5. ResetTokensWorkOnce'
  BY DEF ResetInv, ResetTokensWorkOnce
<1>. QED BY <1>1, <1>2, <1>3, <1>4, <1>5 DEF ResetInv

\* Presenting the stored token keeps the invariant.
LEMMA ResetFindKeeps ==
  ASSUME TypeOK, ResetInv, NEW h \in Handlers, NEW k \in mailed,
         NEW p \in Passwords, ResetFind(h, k, p)
  PROVE  ResetInv'
<1>1. /\ k \in ResetTokens /\ resets[k] = 0
      /\ UNCHANGED <<account, mailed, resets>> /\ crossed \subseteq crossed'
  BY DEF ResetFind, Cross, ResetInv, StoredUnused, TypeOK
<1>2. /\ handler'[h].mail = k /\ handler[h].mail = None
      /\ \A g \in Handlers : g # h => handler'[g] = handler[g]
  BY DEF ResetFind, Start, Idle, TypeOK
<1>3. \A g \in Handlers : handler[g].mail = k => k \in crossed'
  BY DEF ResetFind, Cross
<1>4. StoredUnused' /\ UnmailedUnused'
  BY <1>1, <1>2 DEF ResetInv, StoredUnused, UnmailedUnused
<1>5. HoldersCrossed'
  BY <1>1, <1>2, <1>3 DEF ResetInv, HoldersCrossed
<1>6. HeldUnused' /\ ResetTokensWorkOnce'
  BY <1>1, <1>2 DEF ResetInv, HeldUnused, ResetTokensWorkOnce, At
<1>. QED BY <1>4, <1>5, <1>6 DEF ResetInv

\* The write of a reset keeps the invariant.
LEMMA ResetWriteKeeps ==
  ASSUME TypeOK, ResetInv, NEW h \in Handlers, Loaded(h), ResetWrite(h)
  PROVE  ResetInv'
<1>. DEFINE k == handler[h].mail
<1>1. k \in mailed
  <2>1. k \in ResetTokens
    BY DEF ResetWrite, At, Loaded
  <2>. QED BY <2>1 DEF ResetInv, UnmailedUnused
<1>2. /\ k \in ResetTokens /\ UNCHANGED <<mailed, crossed>>
      /\ resets' = [resets EXCEPT ![k] = @ + 1]
  BY <1>1 DEF ResetWrite, TypeOK
<1>3. /\ handler'[h].pc = "reset.revoke"
      /\ \A g \in Handlers : handler'[g].mail = handler[g].mail
      /\ \A g \in Handlers : g # h => handler'[g] = handler[g]
  BY DEF ResetWrite, Continue, TypeOK, HandlerState
<1>4. resets[k] = 0 \/ k \in crossed
  BY DEF ResetWrite, ResetInv, HeldUnused
<1>5. StoredUnused'
  <2>1. account \in Account
    BY DEF ResetWrite, At, Loaded, TypeOK
  <2>2. account'.reset = None
    BY <2>1 DEF ResetWrite, Account
  <2>. QED BY <2>2 DEF StoredUnused
<1>6. UnmailedUnused' /\ HoldersCrossed'
  BY <1>1, <1>2, <1>3 DEF ResetInv, UnmailedUnused, HoldersCrossed, TypeOK
<1>7. ResetTokensWorkOnce'
  BY <1>2, <1>4 DEF ResetInv, ResetTokensWorkOnce, TypeOK
<1>8. HeldUnused'
  <2>. SUFFICES ASSUME NEW g \in Handlers, At(g, "reset.write")'
                PROVE  resets'[handler'[g].mail] = 0 \/ handler'[g].mail \in crossed'
    BY DEF HeldUnused
  <2>1. g # h /\ At(g, "reset.write")
    BY <1>3 DEF At
  <2>2. CASE handler[g].mail = k
    BY <1>1, <1>2, <1>3, <2>1, <2>2 DEF ResetInv, HoldersCrossed
  <2>3. CASE handler[g].mail # k
    BY <1>2, <1>3, <2>1, <2>3 DEF ResetInv, HeldUnused, TypeOK
  <2>. QED BY <2>2, <2>3
<1>. QED BY <1>5, <1>6, <1>7, <1>8 DEF ResetInv

\* Issuing a token keeps the invariant: it was in nobody's hands.
LEMMA ForgotWriteKeeps ==
  ASSUME TypeOK, ResetInv, NEW h \in Handlers, Loaded(h), ForgotWrite(h)
  PROVE  ResetInv'
<1>1. PICK k \in ResetTokens \ mailed :
        /\ account' = [account EXCEPT !.reset = k, !.resetLive = TRUE]
        /\ mailed' = mailed \cup {k}
  BY DEF ForgotWrite
<1>2. UNCHANGED <<resets, crossed>>
  BY DEF ForgotWrite, Histories
<1>3. \A g \in Handlers : \/ handler'[g] = Idle
                          \/ handler'[g] = handler[g]
  BY DEF ForgotWrite, Finish, TypeOK
<1>4. account' # None => account'.reset = k
  <2>1. account \in Account
    BY DEF ForgotWrite, At, Loaded, TypeOK
  <2>. QED BY <1>1, <2>1 DEF Account
<1>5. StoredUnused'
  BY <1>1, <1>2, <1>4 DEF ResetInv, StoredUnused, UnmailedUnused
<1>6. UnmailedUnused' /\ HoldersCrossed'
  BY <1>1, <1>2, <1>3 DEF ResetInv, UnmailedUnused, HoldersCrossed, Idle
<1>7. HeldUnused' /\ ResetTokensWorkOnce'
  BY <1>2, <1>3 DEF ResetInv, HeldUnused, ResetTokensWorkOnce, At, Idle
<1>. QED BY <1>5, <1>6, <1>7 DEF ResetInv

\* A reset token changes the password once, unless two requests presented it at
\* the same time (auth.service.ts resetPassword).
THEOREM ResetTokenWorksOnce == Spec => []ResetTokensWorkOnce
<1>1. Init => ResetInv
  BY DEF Init, ResetInv, StoredUnused, UnmailedUnused, HoldersCrossed, HeldUnused,
         ResetTokensWorkOnce, Idle, At
<1>2. ASSUME TypeOK, LoadedInv, ResetInv, [Next]_vars
      PROVE  ResetInv'
  <2>1. CASE UNCHANGED vars
    BY <1>2, <2>1, ResetUntouched DEF vars, At
  <2>2. CASE Clock
    <3>1. UNCHANGED <<handler, mailed, resets, crossed>>
      BY <2>2 DEF Clock, Logout, TokenExpires, ResetExpires, Histories
    <3>2. account' # None => account # None /\ account'.reset = account.reset
      BY <1>2, <2>2 DEF Clock, Logout, TokenExpires, ResetExpires, TypeOK, Account
    <3>. QED BY <1>2, <3>1, <3>2, ResetUntouched DEF At
  <2>3. ASSUME NEW h \in Handlers,
               ForgotWrite(h) \/ ResetWrite(h)
               \/ \E k \in mailed, p \in Passwords : ResetFind(h, k, p)
        PROVE  ResetInv'
    BY <1>2, <2>3, ResetFindKeeps, ResetWriteKeeps, ForgotWriteKeeps DEF LoadedInv
  <2>4. ASSUME NEW h \in Handlers, Begin(h) \/ Proceed(h),
               ~ForgotWrite(h), ~ResetWrite(h),
               ~\E k \in mailed, p \in Passwords : ResetFind(h, k, p)
        PROVE  ResetInv'
    <3>1. UNCHANGED <<mailed, resets>> /\ crossed \subseteq crossed'
      BY <2>4 DEF Begin, Proceed, RegisterFind, LoginFind, RefreshFind, ForgotFind,
             VerifyFind, RegisterCreate, RegisterPublish, LoginUpdate, CreateSession,
             RefreshPurge, RotateDelete, ResetRevoke, VerifyWrite, Fail, Histories,
             Cross
    <3>2. handler'[h].mail \in {None, handler[h].mail} /\ ~At(h, "reset.write")'
      <4>1. CASE Begin(h)
        <5>1. CASE \E p \in Passwords : RegisterFind(h, p) \/ LoginFind(h, p)
          <6>1. PICK p \in Passwords : RegisterFind(h, p) \/ LoginFind(h, p)
            BY <5>1
          <6>2. CASE RegisterFind(h, p)
            BY <1>2, <6>2 DEF RegisterFind, Start, Idle, At, TypeOK
          <6>3. CASE LoginFind(h, p)
            BY <1>2, <6>3 DEF LoginFind, Start, Idle, At, TypeOK
          <6>. QED BY <6>1, <6>2, <6>3
        <5>2. CASE \E t \in Tokens : RefreshFind(h, t)
          BY <1>2, <5>2 DEF RefreshFind, Start, Idle, At, TypeOK
        <5>3. CASE ForgotFind(h) \/ VerifyFind(h)
          BY <1>2, <5>3 DEF ForgotFind, VerifyFind, Start, Idle, At, TypeOK
        <5>. QED BY <2>4, <4>1, <5>1, <5>2, <5>3 DEF Begin
      <4>2. CASE RegisterPublish(h) \/ LoginUpdate(h) \/ RotateDelete(h)
                 \/ Continue(h, "register.publish")
        BY <1>2, <4>2 DEF RegisterPublish, LoginUpdate, RotateDelete, Continue, At,
                          TypeOK, HandlerState
      <4>3. CASE Finish(h)
        BY <1>2, <4>3 DEF Finish, Idle, At, TypeOK
      <4>. QED BY <2>4, <4>1, <4>2, <4>3
               DEF Proceed, RegisterCreate, CreateSession, RefreshPurge, ResetRevoke,
                   VerifyWrite, Fail
    <3>3. \A g \in Handlers : g # h => handler'[g] = handler[g]
      BY <1>2, <2>4, OnlyItself
    <3>4. account' # None => account'.reset = None
                             \/ (account # None /\ account'.reset = account.reset)
      <4>1. CASE VerifyWrite(h)
        BY <1>2, <4>1 DEF VerifyWrite, At, LoadedInv, Loaded, TypeOK, Account
      <4>2. CASE RegisterCreate(h)
        BY <4>2 DEF RegisterCreate
      <4>3. CASE UNCHANGED account
        BY <4>3
      <4>. QED BY <2>4, <4>1, <4>2, <4>3
               DEF Begin, Proceed, RegisterFind, LoginFind, RefreshFind, ForgotFind,
                   VerifyFind, RegisterPublish, LoginUpdate, CreateSession,
                   RefreshPurge, RotateDelete, ResetRevoke, Fail
    <3>. QED BY <1>2, <3>1, <3>2, <3>3, <3>4, ResetUntouched DEF At
  <2>. QED BY <1>2, <2>1, <2>2, <2>3, <2>4 DEF Next, Clock
<1>3. ResetInv => ResetTokensWorkOnce
  BY DEF ResetInv
<1>. QED BY <1>1, <1>2, <1>3, TypeCorrect, PTL DEF Spec

-----------------------------------------------------------------------------
(* Refresh tokens *)

Spent(t) == token[t] # None /\ ~token[t].live
\* Whom a token was exchanged for is spent; exchanges of one token crossed.
ParentsSpent ==
  \A t \in Tokens : (token[t] # None /\ token[t].parent # None) => Spent(token[t].parent)
SiblingsCrossed ==
  \A t, u \in Tokens :
    (/\ token[t] # None /\ token[u] # None
     /\ token[t].parent # None /\ token[t].parent = token[u].parent)
      => t = u \/ token[t].parent \in crossed
\* A presented token was issued, and is spent once its successor is due; two
\* requests that hold the same one crossed, and so did a request that still
\* holds a token that was exchanged.
PresentedIssued ==
  \A h \in Handlers :
    handler[h].old # None =>
      /\ token[handler[h].old] # None
      /\ handler[h].pc \in {"refresh.purge", "refresh.delete", "session.create"}
      /\ At(h, "session.create") => Spent(handler[h].old)
SharersCrossed ==
  \A g, h \in Handlers :
    (g # h /\ handler[g].old = handler[h].old /\ handler[g].old # None)
      => handler[g].old \in crossed
LateCrossed ==
  \A h \in Handlers, t \in Tokens :
    (token[t] # None /\ handler[h].old # None /\ token[t].parent = handler[h].old)
      => handler[h].old \in crossed
RotationInv == ParentsSpent /\ SiblingsCrossed /\ PresentedIssued /\ SharersCrossed
               /\ LateCrossed

\* No token is issued, and none comes back to life.
Fading ==
  \A t \in Tokens :
    /\ token'[t] = None <=> token[t] = None
    /\ token[t] # None => token'[t].parent = token[t].parent
                          /\ (token'[t].live => token[t].live)

\* Whatever does not issue a token only takes tokens out of the table.
LEMMA OthersFade ==
  ASSUME TypeOK, LoadedInv, [Next]_vars, \A h \in Handlers : ~CreateSession(h)
  PROVE  Fading
<1>1. CASE UNCHANGED token
  BY <1>1 DEF Fading
<1>2. ASSUME NEW t \in Tokens, DeleteRow(t) PROVE Fading
  BY <1>2 DEF DeleteRow, Fading, TypeOK, Token
<1>3. ASSUME NEW h \in Handlers, ResetRevoke(h) PROVE Fading
  BY <1>3 DEF ResetRevoke, Fading, TypeOK, Token
<1>4. ASSUME NEW t \in Tokens, TokenExpires(t) PROVE Fading
  BY <1>4 DEF TokenExpires, Live, Fading, TypeOK, Token
<1>5. ASSUME NEW h \in Handlers, RefreshPurge(h) \/ RotateDelete(h) PROVE Fading
  <2>1. handler[h].old \in Tokens
    BY <1>5 DEF RefreshPurge, RotateDelete, At, LoadedInv, Loaded
  <2>. QED BY <1>2, <1>5, <2>1 DEF RefreshPurge, RotateDelete
<1>6. ASSUME NEW t \in Tokens, Logout(t) PROVE Fading
  BY <1>2, <1>6 DEF Logout
<1>. QED BY <1>1, <1>3, <1>4, <1>5, <1>6
         DEF vars, Next, Begin, Proceed, RegisterFind, LoginFind, RefreshFind,
             ForgotFind, VerifyFind, ResetFind, RegisterCreate, RegisterPublish,
             LoginUpdate, ForgotWrite, ResetWrite, VerifyWrite, Fail, ResetExpires

\* A step that issues no token and takes up none keeps the invariant.
LEMMA FadingKeeps ==
  ASSUME TypeOK, TypeOK', RotationInv, Fading, crossed \subseteq crossed',
         \A g \in Handlers : handler'[g] = handler[g] \/ handler'[g].old = None
  PROVE  RotationInv'
<1>1. \A t \in Tokens : Spent(t) => Spent(t)'
  BY DEF Spent, Fading, TypeOK, Token
<1>2. \A t \in Tokens : token[t] # None => token[t].parent \in Tokens \cup {None}
  BY DEF TypeOK, Token
<1>3. ParentsSpent' /\ SiblingsCrossed'
  BY <1>1, <1>2 DEF RotationInv, ParentsSpent, SiblingsCrossed, Fading
<1>4. \A h \in Handlers : handler[h].old \in Tokens \cup {None}
  BY DEF TypeOK, HandlerState
<1>5. PresentedIssued'
  BY <1>1, <1>4 DEF RotationInv, PresentedIssued, Fading, At
<1>6. SharersCrossed' /\ LateCrossed'
  BY DEF RotationInv, SharersCrossed, LateCrossed, Fading
<1>. QED BY <1>3, <1>5, <1>6 DEF RotationInv

\* Presenting a live token keeps the invariant: it has not been exchanged.
LEMMA RefreshFindKeeps ==
  ASSUME TypeOK, RotationInv, NEW h \in Handlers, NEW t \in Tokens, RefreshFind(h, t)
  PROVE  RotationInv'
<1>1. /\ token[t] # None /\ ~Spent(t) /\ UNCHANGED token
      /\ crossed \subseteq crossed'
      /\ \A g \in Handlers : handler[g].old = t => t \in crossed'
  BY DEF RefreshFind, Live, Spent, Cross
<1>2. /\ handler'[h].old = t /\ handler[h].old = None
      /\ handler'[h].pc \in {"refresh.purge", "refresh.delete"}
      /\ \A g \in Handlers : g # h => handler'[g] = handler[g]
  BY DEF RefreshFind, Start, Idle, TypeOK
<1>3. ParentsSpent' /\ SiblingsCrossed'
  BY <1>1 DEF RotationInv, ParentsSpent, SiblingsCrossed, Spent
<1>4. PresentedIssued'
  BY <1>1, <1>2 DEF RotationInv, PresentedIssued, Spent, At
<1>5. SharersCrossed'
  BY <1>1, <1>2 DEF RotationInv, SharersCrossed
<1>6. \A u \in Tokens : token[u] # None => token[u].parent # t
  BY <1>1 DEF RotationInv, ParentsSpent, TypeOK
<1>7. LateCrossed'
  BY <1>1, <1>2, <1>6 DEF RotationInv, LateCrossed
<1>. QED BY <1>3, <1>4, <1>5, <1>7 DEF RotationInv

\* Deleting the presented token keeps the invariant, and spends it.
LEMMA RotateDeleteKeeps ==
  ASSUME TypeOK, RotationInv, NEW h \in Handlers, Loaded(h), Fading, RotateDelete(h)
  PROVE  RotationInv'
<1>1. handler[h].old \in Tokens /\ token[handler[h].old] # None
  BY DEF RotateDelete, At, Loaded, RotationInv, PresentedIssued
<1>2. token'[handler[h].old] # None /\ ~token'[handler[h].old].live
  <2>1. token[handler[h].old] \in Token
    BY <1>1 DEF TypeOK
  <2>. QED BY <1>1, <2>1 DEF RotateDelete, DeleteRow, TypeOK, Token
<1>3. /\ \A g \in Handlers : handler'[g].old = handler[g].old
      /\ \A g \in Handlers : g # h => handler'[g] = handler[g]
      /\ handler'[h].pc = "session.create"
      /\ UNCHANGED crossed
  BY DEF RotateDelete, Continue, Histories, TypeOK, HandlerState
<1>4. \A t \in Tokens : Spent(t) => Spent(t)'
  BY <1>1 DEF RotateDelete, DeleteRow, Spent, TypeOK, Token
<1>5. \A t \in Tokens : token[t] # None => token[t].parent \in Tokens \cup {None}
  BY DEF TypeOK, Token
<1>6. ParentsSpent' /\ SiblingsCrossed'
  BY <1>3, <1>4, <1>5 DEF RotationInv, ParentsSpent, SiblingsCrossed, Fading
<1>7. \A g \in Handlers : handler[g].old \in Tokens \cup {None}
  BY DEF TypeOK, HandlerState
<1>8. PresentedIssued'
  BY <1>2, <1>3, <1>4, <1>7 DEF RotationInv, PresentedIssued, Fading, At, Spent
<1>9. SharersCrossed' /\ LateCrossed'
  BY <1>3 DEF RotationInv, SharersCrossed, LateCrossed, Fading
<1>. QED BY <1>6, <1>8, <1>9 DEF RotationInv

\* Issuing the successor keeps the invariant: the presented token is spent, and
\* whoever still holds it crossed with this request.
LEMMA CreateSessionKeeps ==
  ASSUME TypeOK, RotationInv, NEW h \in Handlers, Loaded(h), CreateSession(h)
  PROVE  RotationInv'
<1>. DEFINE old == handler[h].old
<1>1. PICK t \in Tokens :
        /\ token[t] = None
        /\ token' = [token EXCEPT ![t] = [password |-> handler[h].password,
                                          parent |-> old,
                                          live |-> TRUE, expired |-> FALSE]]
  BY DEF CreateSession
<1>2. /\ token'[t] # None /\ token'[t].parent = old
      /\ \A u \in Tokens : u # t => token'[u] = token[u]
  <2>1. handler[h].password \in Passwords /\ old \in Tokens \cup {None}
    BY DEF CreateSession, At, Loaded, GrantingPCs, TypeOK, HandlerState
  <2>2. [password |-> handler[h].password, parent |-> old,
         live |-> TRUE, expired |-> FALSE] # None
    <3>1. [password |-> handler[h].password, parent |-> old,
           live |-> TRUE, expired |-> FALSE] \in Token
      BY <2>1 DEF Token
    <3>. QED BY <3>1
  <2>. QED BY <1>1, <2>1, <2>2 DEF TypeOK
<1>3. /\ UNCHANGED crossed /\ handler'[h].old = None
      /\ \A g \in Handlers : g # h => handler'[g] = handler[g]
  BY DEF CreateSession, Histories, Finish, Idle, TypeOK
<1>4. old # None => old \in Tokens /\ Spent(old)
  BY DEF CreateSession, RotationInv, PresentedIssued, TypeOK, HandlerState
<1>5. \A u \in Tokens : Spent(u) => Spent(u)'
  BY <1>1, <1>2 DEF Spent
<1>6. \A u \in Tokens : token[u] # None => token[u].parent \in Tokens \cup {None}
  BY DEF TypeOK, Token
<1>7. ParentsSpent'
  <2>1. ASSUME NEW u \in Tokens, token'[u] # None, token'[u].parent # None
        PROVE  /\ token'[u].parent \in Tokens
               /\ Spent(IF u = t THEN old ELSE token[u].parent)
               /\ token'[u].parent = IF u = t THEN old ELSE token[u].parent
    BY <1>2, <1>4, <1>6, <2>1 DEF RotationInv, ParentsSpent
  <2>2. ASSUME NEW o \in Tokens, Spent(o)
        PROVE  token'[o] # None /\ ~token'[o].live
    BY <1>1, <1>2, <2>2 DEF Spent
  <2>. QED BY <2>1, <2>2 DEF ParentsSpent, Spent
<1>8. SiblingsCrossed'
  <2>1. \A u \in Tokens :
          (token[u] # None /\ token[u].parent = old /\ old # None) => old \in crossed
    BY DEF RotationInv, LateCrossed
  <2>. QED BY <1>2, <1>3, <2>1 DEF RotationInv, SiblingsCrossed
<1>9. PresentedIssued'
  BY <1>1, <1>2, <1>3, <1>5 DEF RotationInv, PresentedIssued, At, Spent, TypeOK, HandlerState
<1>10. SharersCrossed'
  BY <1>3 DEF RotationInv, SharersCrossed
<1>11. LateCrossed'
  <2>. SUFFICES ASSUME NEW g \in Handlers, NEW u \in Tokens, token'[u] # None,
                       handler'[g].old # None, token'[u].parent = handler'[g].old
                PROVE  handler'[g].old \in crossed'
    BY DEF LateCrossed
  <2>1. g # h /\ handler'[g] = handler[g]
    BY <1>3
  <2>2. CASE u = t
    BY <1>2, <1>3, <2>1, <2>2 DEF RotationInv, SharersCrossed
  <2>3. CASE u # t
    BY <1>2, <1>3, <2>1, <2>3 DEF RotationInv, LateCrossed
  <2>. QED BY <2>2, <2>3
<1>. QED BY <1>7, <1>8, <1>9, <1>10, <1>11 DEF RotationInv

\* A refresh token that was exchanged is gone, and was exchanged once unless two
\* requests presented it at the same time (token.service.ts rotateRefreshToken).
THEOREM ExchangedTokensAreSpent == Spec => []RotationSpendsTokens
<1>1. Init => RotationInv
  BY DEF Init, RotationInv, ParentsSpent, SiblingsCrossed, PresentedIssued,
         SharersCrossed, LateCrossed, Idle
<1>2. ASSUME TypeOK, LoadedInv, RotationInv, [Next]_vars
      PROVE  RotationInv'
  <2>1. TypeOK'
    BY <1>2, TypesInductive
  <2>2. ASSUME NEW h \in Handlers,
               CreateSession(h) \/ RotateDelete(h) \/ \E t \in Tokens : RefreshFind(h, t)
        PROVE  RotationInv'
    <3>1. CASE CreateSession(h)
      BY <1>2, <3>1, CreateSessionKeeps DEF LoadedInv
    <3>2. CASE RotateDelete(h)
      <4>1. handler[h].pc # "session.create"
            /\ \A g \in Handlers : g # h => handler'[g] = handler[g]
            /\ handler'[h].pc = "session.create"
        BY <1>2, <3>2 DEF RotateDelete, Continue, At, TypeOK, HandlerState
      <4>2. \A g \in Handlers : ~CreateSession(g)
        BY <1>2, <3>2, <4>1 DEF CreateSession, Finish, Idle, At, TypeOK
      <4>. QED BY <1>2, <3>2, <4>2, OthersFade, RotateDeleteKeeps DEF LoadedInv
    <3>3. CASE \E t \in Tokens : RefreshFind(h, t)
      BY <1>2, <3>3, RefreshFindKeeps
    <3>. QED BY <2>2, <3>1, <3>2, <3>3
  <2>3. ASSUME \A h \in Handlers : /\ ~CreateSession(h) /\ ~RotateDelete(h)
                                   /\ \A t \in Tokens : ~RefreshFind(h, t)
        PROVE  RotationInv'
    <3>1. Fading
      BY <1>2, <2>3, OthersFade
    <3>2. crossed \subseteq crossed'
      BY <1>2, <2>3 DEF vars, Next, Begin, Proceed, RegisterFind, LoginFind, ForgotFind,
             VerifyFind, ResetFind, RegisterCreate, RegisterPublish, LoginUpdate,
             RefreshPurge, ForgotWrite, ResetWrite, ResetRevoke, VerifyWrite, Fail,
             Logout, TokenExpires, ResetExpires, Histories, Cross
    <3>3. ASSUME NEW g \in Handlers
          PROVE  handler'[g] = handler[g] \/ handler'[g].old = None
      <4>1. CASE UNCHANGED handler
        BY <4>1
      <4>2. ASSUME NEW h \in Handlers, Begin(h) \/ Proceed(h), h # g
            PROVE  handler'[g] = handler[g]
        BY <1>2, <4>2, OnlyItself
      <4>3. CASE Begin(g)
        <5>1. ASSUME NEW st, Start(g, st), st.old = None PROVE handler'[g].old = None
          BY <1>2, <5>1 DEF Start, TypeOK
        <5>2. CASE \E p \in Passwords : RegisterFind(g, p) \/ LoginFind(g, p)
          BY <5>1, <5>2 DEF RegisterFind, LoginFind, Idle
        <5>3. CASE ForgotFind(g) \/ VerifyFind(g)
          BY <5>1, <5>3 DEF ForgotFind, VerifyFind, Idle
        <5>4. CASE \E k \in mailed, p \in Passwords : ResetFind(g, k, p)
          BY <5>1, <5>4 DEF ResetFind, Idle
        <5>. QED BY <2>3, <4>3, <5>2, <5>3, <5>4 DEF Begin
      <4>4. CASE RegisterCreate(g) \/ RegisterPublish(g) \/ LoginUpdate(g) \/ ResetWrite(g)
        <5>1. handler[g].old = None
          BY <1>2, <4>4 DEF RegisterCreate, RegisterPublish, LoginUpdate, ResetWrite,
                            At, RotationInv, PresentedIssued
        <5>2. \E pc \in PCs : handler' \in {[handler EXCEPT ![g].pc = pc],
                                           [handler EXCEPT ![g] = Idle]}
          BY <4>4 DEF RegisterCreate, RegisterPublish, LoginUpdate, ResetWrite,
                      Continue, Finish, PCs, GrantingPCs
        <5>. QED BY <1>2, <5>1, <5>2 DEF Idle, TypeOK, HandlerState
      <4>5. CASE Finish(g)
        BY <1>2, <4>5 DEF Finish, Idle, TypeOK
      <4>6. CASE Proceed(g)
        BY <2>3, <4>4, <4>5, <4>6 DEF Proceed, RefreshPurge, ForgotWrite, ResetRevoke,
                                      VerifyWrite, Fail
      <4>7. CASE UNCHANGED vars \/ Clock
        BY <4>1, <4>7 DEF vars, Clock, Logout, TokenExpires, ResetExpires
      <4>. QED BY <1>2, <4>2, <4>3, <4>6, <4>7 DEF Next, Clock
    <3>. QED BY <1>2, <2>1, <3>1, <3>2, <3>3, FadingKeeps
  <2>. QED BY <2>2, <2>3
<1>3. RotationInv => RotationSpendsTokens
  BY DEF RotationInv, ParentsSpent, SiblingsCrossed, Spent, RotationSpendsTokens, Live
<1>. QED BY <1>1, <1>2, <1>3, TypeCorrect, PTL DEF Spec
-----------------------------------------------------------------------------
(* Sessions and passwords *)

Granting(h) == handler[h].pc \in GrantingPCs \cup {"register.publish"}
Undisturbed == ~overtaken /\ ~halfReset /\ \A h \in Handlers : ~At(h, "reset.revoke")
SessionsCurrent ==
  \A t \in Tokens : Live(t) => account # None /\ token[t].password = account.password
\* A request about to grant a session goes back to the current password too: only a
\* reset changes that, and its second write notes whom it overtook.
GrantersCurrent ==
  \A h \in Handlers : Granting(h) => account # None
                                     /\ handler[h].password = account.password
SessionInv == Undisturbed => SessionsCurrent /\ GrantersCurrent

\* Sessions and granting requests may come to be if they use the current password.
LEMMA SessionsKeep ==
  ASSUME SessionInv, Undisturbed' => Undisturbed,
         account # None => account' # None /\ account'.password = account.password,
         \A t \in Tokens : Live(t)' =>
           \/ Live(t) /\ token'[t].password = token[t].password
           \/ Undisturbed => account' # None /\ token'[t].password = account'.password,
         \A h \in Handlers : Granting(h)' =>
           \/ Granting(h) /\ handler'[h].password = handler[h].password
           \/ Undisturbed => account' # None /\ handler'[h].password = account'.password
  PROVE  SessionInv'
BY DEF SessionInv, SessionsCurrent, GrantersCurrent

\* A request that begins takes the password it grants for from the row or a session.
LEMMA BeginCurrent ==
  ASSUME TypeOK, SessionInv, NEW h \in Handlers, Begin(h)
  PROVE  SessionInv'
<1>1. ASSUME NEW g \in Handlers, g # h PROVE handler'[g] = handler[g]
  BY <1>1, OnlyItself, SMTT(30)
<1>2. handler[h] = Idle /\ UNCHANGED <<account, token, overtaken, halfReset>>
  BY DEF Begin, RegisterFind, LoginFind, RefreshFind, ForgotFind, VerifyFind, ResetFind,
         Start, Histories
<1>3. Undisturbed' => Undisturbed
  BY <1>1, <1>2 DEF Undisturbed, At, Idle
<1>4. Granting(h)' => (Undisturbed => account # None
                                       /\ handler'[h].password = account.password)
  <2>1. CASE \E p \in Passwords : RegisterFind(h, p)
    BY <2>1 DEF RegisterFind, Start, Idle, TypeOK, Granting, GrantingPCs
  <2>2. CASE \E p \in Passwords : LoginFind(h, p)
    BY <2>2 DEF LoginFind, Start, Idle, TypeOK
  <2>3. CASE \E t \in Tokens : RefreshFind(h, t)
    BY <2>3 DEF RefreshFind, Start, Idle, TypeOK, SessionInv, SessionsCurrent
  <2>4. CASE ForgotFind(h) \/ VerifyFind(h)
    BY <2>4 DEF ForgotFind, VerifyFind, Start, Idle, TypeOK, Granting, GrantingPCs
  <2>5. CASE \E k \in mailed, p \in Passwords : ResetFind(h, k, p)
    BY <2>5 DEF ResetFind, Start, Idle, TypeOK, Granting, GrantingPCs
  <2>. QED BY <2>1, <2>2, <2>3, <2>4, <2>5 DEF Begin
<1>5. \A g \in Handlers : Granting(g)' =>
        \/ Granting(g) /\ handler'[g].password = handler[g].password
        \/ Undisturbed => account' # None /\ handler'[g].password = account'.password
  BY <1>1, <1>2, <1>4 DEF Granting
<1>6. \A t \in Tokens : Live(t)' => Live(t) /\ token'[t].password = token[t].password
  BY <1>2 DEF Live
<1>. QED BY <1>2, <1>3, <1>5, <1>6, SessionsKeep

\* Statements and failures: those of a reset but the last excuse what follows, the
\* last one leaves no session.
LEMMA ProceedCurrent ==
  ASSUME TypeOK, LoadedInv, SessionInv, NEW h \in Handlers, Proceed(h)
  PROVE  SessionInv'
<1>1. ASSUME NEW g \in Handlers, g # h PROVE handler'[g] = handler[g]
  BY <1>1, OnlyItself
<1>2. ASSUME ~At(h, "reset.revoke"), UNCHANGED <<overtaken, halfReset>>
      PROVE  Undisturbed' => Undisturbed
  BY <1>1, <1>2 DEF Undisturbed, At
<1>3. ASSUME Undisturbed' => Undisturbed, UNCHANGED <<account, token>>,
             Granting(h)' => Granting(h) /\ handler'[h].password = handler[h].password
      PROVE  SessionInv'
  BY <1>1, <1>3, SessionsKeep DEF Live, Granting
<1>4. CASE RegisterCreate(h)
  <2>1. CASE account # None
    <3>1. handler'[h].pc = "idle" /\ UNCHANGED <<account, token>>
      BY <1>4, <2>1 DEF RegisterCreate, Finish, Idle, TypeOK
    <3>. QED BY <1>2, <1>3, <1>4, <3>1 DEF RegisterCreate, Histories, At, Granting, GrantingPCs
  <2>2. CASE account = None
    <3>1. /\ account' # None /\ account'.password = handler[h].password
          /\ handler'[h].password = handler[h].password /\ token' = token
          /\ UNCHANGED <<overtaken, halfReset>>
      <4>1. account' = [password |-> handler[h].password, reset |-> None,
                        resetLive |-> FALSE, verified |-> FALSE]
        BY <1>4, <2>2 DEF RegisterCreate
      <4>2. handler[h].password \in Passwords
        BY <1>4 DEF RegisterCreate, At, LoadedInv, Loaded
      <4>3. account' \in Account
        BY <4>1, <4>2 DEF Account
      <4>4. Continue(h, "register.publish")
        BY <1>4, <2>2 DEF RegisterCreate
      <4>. QED BY <1>4, <4>1, <4>3, <4>4
               DEF RegisterCreate, Continue, TypeOK, HandlerState, Histories
    <3>2. Undisturbed' => Undisturbed
      BY <1>2, <1>4, <3>1 DEF RegisterCreate, At
    <3>3. \A g \in Handlers : Granting(g)' =>
            \/ Granting(g) /\ handler'[g].password = handler[g].password
            \/ Undisturbed => account' # None /\ handler'[g].password = account'.password
      BY <1>1, <3>1 DEF Granting
    <3>4. \A t \in Tokens : Live(t)' => Live(t) /\ token'[t].password = token[t].password
      BY <3>1 DEF Live
    <3>. QED BY <2>2, <3>2, <3>3, <3>4, SessionsKeep
  <2>. QED BY <2>1, <2>2
<1>5. CASE RegisterPublish(h) \/ LoginUpdate(h)
  <2>1. /\ Granting(h) /\ handler'[h].password = handler[h].password
        /\ UNCHANGED <<account, token, overtaken, halfReset>> /\ ~At(h, "reset.revoke")
    BY <1>5 DEF RegisterPublish, LoginUpdate, At, Continue, TypeOK, HandlerState, Granting,
                GrantingPCs, Histories
  <2>. QED BY <1>2, <1>3, <2>1
<1>6. CASE CreateSession(h)
  <2>1. PICK t \in Tokens :
          token' = [token EXCEPT ![t] = [password |-> handler[h].password,
                                         parent |-> handler[h].old,
                                         live |-> TRUE, expired |-> FALSE]]
    BY <1>6 DEF CreateSession
  <2>2. /\ At(h, "session.create") /\ handler'[h].pc = "idle"
        /\ UNCHANGED <<account, overtaken, halfReset>>
    BY <1>6 DEF CreateSession, Finish, Idle, TypeOK, Histories
  <2>3. Undisturbed' => Undisturbed
    BY <1>2, <2>2 DEF At
  <2>4. Undisturbed => account # None /\ handler[h].password = account.password
    BY <2>2 DEF SessionInv, GrantersCurrent, Granting, At, GrantingPCs
  <2>5. \A u \in Tokens : Live(u)' =>
          \/ Live(u) /\ token'[u].password = token[u].password
          \/ Undisturbed => account' # None /\ token'[u].password = account'.password
    <3>1. token'[t].password = handler[h].password
      BY <2>1 DEF TypeOK
    <3>2. \A u \in Tokens \ {t} : token'[u] = token[u]
      BY <2>1 DEF TypeOK
    <3>. QED BY <2>2, <2>4, <3>1, <3>2 DEF Live
  <2>6. \A g \in Handlers : Granting(g)' =>
          Granting(g) /\ handler'[g].password = handler[g].password
    BY <1>1, <2>2 DEF Granting, GrantingPCs
  <2>. QED BY <2>2, <2>3, <2>5, <2>6, SessionsKeep
<1>7. CASE RefreshPurge(h) \/ RotateDelete(h)
  <2>1. /\ ~At(h, "reset.revoke") /\ UNCHANGED <<account, overtaken, halfReset>>
        /\ handler[h].old \in Tokens /\ DeleteRow(handler[h].old)
    BY <1>7 DEF RefreshPurge, RotateDelete, At, LoadedInv, Loaded, Histories
  <2>2. Granting(h)' => Granting(h) /\ handler'[h].password = handler[h].password
    <3>1. CASE RefreshPurge(h)
      <4>1. handler'[h].pc = "idle"
        BY <3>1 DEF RefreshPurge, Finish, Idle, TypeOK
      <4>. QED BY <4>1 DEF Granting, GrantingPCs
    <3>2. CASE RotateDelete(h)
      BY <3>2 DEF RotateDelete, Continue, TypeOK, HandlerState, Granting, GrantingPCs, At
    <3>. QED BY <1>7, <3>1, <3>2
  <2>3. \A t \in Tokens : Live(t)' => Live(t) /\ token'[t].password = token[t].password
    BY <2>1 DEF DeleteRow, Live, TypeOK, Token
  <2>4. \A g \in Handlers : Granting(g)' =>
          Granting(g) /\ handler'[g].password = handler[g].password
    BY <1>1, <2>2 DEF Granting
  <2>5. Undisturbed' => Undisturbed
    BY <1>2, <2>1
  <2>. QED BY <2>1, <2>3, <2>4, <2>5, SessionsKeep
<1>8. CASE ForgotWrite(h) \/ VerifyWrite(h)
  <2>1. /\ ~At(h, "reset.revoke") /\ UNCHANGED <<token, overtaken, halfReset>>
        /\ handler'[h].pc = "idle"
    <3>1. /\ handler[h].pc \in {"forgot.write", "verify.write"}
          /\ handler' = [handler EXCEPT ![h] = Idle]
          /\ UNCHANGED <<token, overtaken, halfReset>>
      BY <1>8 DEF ForgotWrite, VerifyWrite, At, Finish, Histories
    <3>. QED BY <3>1 DEF At, Idle, TypeOK
  <2>2. account # None => account' # None /\ account'.password = account.password
    <3>1. account # None => account \in Account
      BY DEF TypeOK
    <3>2. CASE ForgotWrite(h)
      <4>1. PICK k \in ResetTokens :
              account' = [account EXCEPT !.reset = k, !.resetLive = TRUE]
        BY <3>2 DEF ForgotWrite
      <4>. QED BY <3>1, <4>1 DEF Account
    <3>3. CASE VerifyWrite(h)
      BY <3>1, <3>3 DEF VerifyWrite, Account
    <3>. QED BY <1>8, <3>2, <3>3
  <2>3. \A g \in Handlers : Granting(g)' =>
          Granting(g) /\ handler'[g].password = handler[g].password
    BY <1>1, <2>1 DEF Granting, GrantingPCs
  <2>4. \A t \in Tokens : Live(t)' => Live(t) /\ token'[t].password = token[t].password
    BY <2>1 DEF Live
  <2>5. Undisturbed' => Undisturbed
    BY <1>2, <2>1
  <2>. QED BY <2>2, <2>3, <2>4, <2>5, SessionsKeep
<1>9. CASE ResetWrite(h)
  <2>1. At(h, "reset.revoke")'
    BY <1>9 DEF ResetWrite, Continue, At, TypeOK, HandlerState
  <2>. QED BY <2>1 DEF SessionInv, Undisturbed
<1>10. CASE ResetRevoke(h)
  <2>1. \A t \in Tokens : ~Live(t)'
    BY <1>10 DEF ResetRevoke, Live, TypeOK, Token
  <2>2. Undisturbed' => \A g \in Handlers : ~Granting(g)
    BY <1>10 DEF ResetRevoke, Undisturbed, On, Granting
  <2>3. handler'[h].pc = "idle"
    BY <1>10 DEF ResetRevoke, Finish, Idle, TypeOK
  <2>4. Undisturbed' => \A g \in Handlers : ~Granting(g)'
    BY <1>1, <2>2, <2>3 DEF Granting, GrantingPCs
  <2>. QED BY <2>1, <2>4 DEF SessionInv, SessionsCurrent, GrantersCurrent
<1>11. CASE Fail(h)
  <2>1. CASE At(h, "reset.revoke")
    BY <1>11, <2>1 DEF Fail, SessionInv, Undisturbed
  <2>2. CASE ~At(h, "reset.revoke")
    <3>1. handler'[h].pc = "idle" /\ UNCHANGED <<account, token, overtaken>>
          /\ (halfReset' => halfReset) /\ (halfReset => halfReset')
      BY <1>11, <2>2 DEF Fail, Finish, Idle, TypeOK
    <3>2. Undisturbed' => Undisturbed
      BY <1>1, <2>2, <3>1 DEF Undisturbed, At
    <3>. QED BY <1>3, <3>1, <3>2 DEF Granting, GrantingPCs
  <2>. QED BY <2>1, <2>2
<1>. QED BY <1>4, <1>5, <1>6, <1>7, <1>8, <1>9, <1>10, <1>11 DEF Proceed

\* A session goes back to the current password, except while a reset is between its
\* two writes, and after one that died there or overtook a request about to grant a
\* session (auth.service.ts resetPassword, token.service.ts issueRefreshToken).
THEOREM SessionsFollowThePassword == Spec => []SessionsUseCurrentPassword
<1>1. Init => SessionInv
  BY DEF Init, SessionInv, SessionsCurrent, GrantersCurrent, Live, Granting, GrantingPCs, Idle
<1>2. ASSUME TypeOK, LoadedInv, SessionInv, [Next]_vars PROVE SessionInv'
  <2>1. CASE \E h \in Handlers : Begin(h) \/ Proceed(h)
    BY <1>2, <2>1, BeginCurrent, ProceedCurrent
  <2>2. CASE Clock
    <3>1. /\ UNCHANGED <<handler, overtaken, halfReset>>
          /\ account # None => account' # None /\ account'.password = account.password
      BY <1>2, <2>2, ZenonT(30) DEF Clock, Logout, TokenExpires, ResetExpires, Histories, TypeOK, Account
    <3>2. \A t \in Tokens : Live(t)' => Live(t) /\ token'[t].password = token[t].password
      BY <1>2, <2>2 DEF Clock, Logout, TokenExpires, ResetExpires, DeleteRow, Live, TypeOK, Token
    <3>3. Undisturbed' => Undisturbed
      BY <3>1 DEF Undisturbed, At
    <3>4. \A g \in Handlers : Granting(g)' =>
            Granting(g) /\ handler'[g].password = handler[g].password
      BY <3>1 DEF Granting
    <3>. QED BY <1>2, <3>1, <3>2, <3>3, <3>4, SessionsKeep
  <2>3. CASE UNCHANGED vars
    BY <1>2, <2>3 DEF vars, SessionInv, Undisturbed, SessionsCurrent, GrantersCurrent, Live,
                      Granting, At
  <2>. QED BY <1>2, <2>1, <2>2, <2>3 DEF Next, Clock
<1>3. SessionInv => SessionsUseCurrentPassword
  BY DEF SessionInv, SessionsCurrent, Undisturbed, SessionsUseCurrentPassword, On, At
<1>. QED BY <1>1, <1>2, <1>3, TypeCorrect, PTL DEF Spec
=============================================================================
