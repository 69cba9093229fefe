----------------------------- MODULE SessionProofs -----------------------------
(***************************************************************************)
(* Proofs about accounts and the session of a tab: for any number of       *)
(* callers, addresses, tokens, disturbances and things the user does.      *)
(***************************************************************************)
EXTENDS ExportPage, FiniteSetTheorems, TLAPS

(* The invariant by what it is about: the calls, the tab, the table of      *)
(* accounts, the page.                                                      *)
CallOK(call) ==
    /\ call \in Call(call.body)
    /\ call.pc = "idle" <=> call.op = "none"
    /\ CallFits(call)

CallsInv ==
    /\ calls = [c \in Callers |-> calls[c]]
    /\ \A c \in Callers : CallOK(calls[c])
    /\ PlacesAskTheirOwn

TabInv ==
    /\ token \in IssuedTokens \cup {None}
    /\ user \in Emails \cup {None}
    /\ status \in {"loading", "authenticated", "anonymous"}
    /\ overtaken \in BOOLEAN
    /\ RestoreAsksForToken
    /\ status = "loading" => user = None
    /\ ShownUserOwnsToken
    /\ AnonymousHoldsNoToken

TableInv ==
    /\ users \subseteq [id : Nat, email : Emails, password : Passwords]
    /\ issued \in 0 .. MaxTokens
    /\ IsFiniteSet(users)
    /\ RegistrationsStand

PageInv ==
    /\ job \in [status : Statuses, owner : Emails \cup {None}]
    /\ view \in Statuses \cup {"closed", "loading"}
    /\ broken \in BOOLEAN
    /\ acted \in {"none", "accepted", "fetched"}

LEMMA SessionInvParts == SessionInv <=> CallsInv /\ TabInv /\ TableInv /\ PageInv
<1>1. (\A c \in Callers : CallOK(calls[c])) <=>
          /\ \A c \in Callers :
                /\ calls[c] \in Call(calls[c].body)
                /\ calls[c].pc = "idle" <=> calls[c].op = "none"
          /\ \A c \in Callers : CallFits(calls[c])
  BY DEF CallOK
<1>2. ASSUME SessionInv
      PROVE  CallsInv /\ TabInv /\ TableInv /\ PageInv
  <2>1. CallsInv
    BY <1>1, <1>2 DEF SessionInv, PageTypeOK, CallsInv
  <2>2. TabInv
    BY <1>2 DEF SessionInv, PageTypeOK, TabInv
  <2>3. TableInv
    BY <1>2 DEF SessionInv, PageTypeOK, TableInv
  <2>4. PageInv
    BY <1>2 DEF SessionInv, PageTypeOK, PageInv
  <2>. QED
    BY <2>1, <2>2, <2>3, <2>4
<1>3. ASSUME CallsInv, TabInv, TableInv, PageInv
      PROVE  SessionInv
  <2>1. PageTypeOK
    BY <1>1, <1>3 DEF PageTypeOK, CallsInv, TabInv, TableInv, PageInv
  <2>. QED
    BY <1>1, <1>3, <2>1 DEF SessionInv, CallsInv, TabInv, TableInv, PageInv
<1>. QED
  BY <1>2, <1>3

LEMMA SessionInvPartsNext ==
    SessionInv' <=> CallsInv' /\ TabInv' /\ TableInv' /\ PageInv'
BY SessionInvParts, PTL

-----------------------------------------------------------------------------
(* A token that was issued stays issued; what fitted a call fits it still.  *)
LEMMA IssuedGrow ==
    ASSUME issued \in Nat, issued' \in Nat, issued <= issued'
    PROVE  /\ IssuedTokens \subseteq IssuedTokens'
           /\ \A call : CallOK(call) => CallOK(call)'
<1>1. IssuedTokens \subseteq IssuedTokens'
  BY AccountsAssumption DEF IssuedTokens, Tokens
<1>2. ASSUME NEW call, CallOK(call)
      PROVE  CallOK(call)'
  <2>1. call \in Call(call.body)'
    BY <1>1, <1>2 DEF CallOK, Call
  <2>2. CallFits(call)'
    BY <1>1, <1>2 DEF CallOK, CallFits
  <2>. QED
    BY <1>2, <2>1, <2>2 DEF CallOK
<1>. QED
  BY <1>1, <1>2

(* An outstanding call that is answered with what it asked for.             *)
LEMMA AnsweredCall ==
    ASSUME NEW call, CallOK(call)', call.pc \in {"sent", "hashed", "answered"},
           NEW answer \in {"ok", "created", "conflict", "unauthorized", "notFound", "error"},
           NEW body,
           answer = "ok" => /\ call.op = "login" => body \in IssuedTokens'
                            /\ call.op = "me" => call.token # None /\ body = call.token.sub
                            /\ call.op = "export" => body \in Statuses
    PROVE  CallOK([call EXCEPT !.pc = "answered", !.answer = answer, !.body = body])'
<1>. DEFINE new == [call EXCEPT !.pc = "answered", !.answer = answer, !.body = body]
<1>1. /\ new \in Call(body)' /\ new.body = body /\ new.pc = "answered" /\ new.answer = answer
      /\ new.op = call.op /\ new.token = call.token
      /\ new.address = call.address /\ new.password = call.password
  BY DEF CallOK, Call
<1>. HIDE DEF new
<1>2. CallFits(new)'
  BY <1>1 DEF CallOK, CallFits
<1>3. new.pc = "idle" <=> new.op = "none"
  BY <1>1 DEF CallOK
<1>4. CallOK(new)'
  BY <1>1, <1>2, <1>3 DEF CallOK
<1>. QED
  BY <1>4 DEF new

LEMMA NoCallOK == CallOK(NoCall)
BY DEF CallOK, Call, CallFits, NoCall

(* What a caller asks for in the name of a token the server issued.         *)
LEMMA CallWithTokenOK ==
    ASSUME NEW t \in IssuedTokens' \cup {None},
           NEW op \in {"me", "create", "export", "resume", "cancel"}
    PROVE  CallOK([NoCall EXCEPT !.op = op, !.token = t, !.pc = "sent"])'
BY DEF CallOK, Call, CallFits, NoCall

-----------------------------------------------------------------------------
(* One caller's call changes, into one that is well formed and its own.     *)
LEMMA CallChanges ==
    ASSUME CallsInv, issued \in Nat, issued' \in Nat, issued <= issued',
           NEW c, NEW call, calls' = [calls EXCEPT ![c] = call], CallOK(call)',
           c = "restore" => call.op \in {"none", "me"},
           c = "form" => call.op \in {"none", "register", "login"},
           c = "page" => call.op \in {"none", "export"}
    PROVE  CallsInv'
<1>1. /\ calls' = [d \in Callers |-> calls'[d]]
      /\ \A d \in Callers : calls'[d] = IF d = c THEN call ELSE calls[d]
  BY DEF CallsInv
<1>2. \A d \in Callers : CallOK(calls[d])'
  <2>1. ASSUME NEW d \in Callers, NEW new, new = calls'[d]
        PROVE  CallOK(new)'
    <3>1. CallOK(calls[d])
      BY DEF CallsInv
    <3>2. CASE d = c
      BY <1>1, <2>1, <3>2
    <3>3. CASE d # c
      <4>1. CallOK(new)
        BY <1>1, <2>1, <3>1, <3>3
      <4>. QED
        BY <4>1, IssuedGrow
    <3>. QED
      BY <3>2, <3>3
  <2>. QED
    BY <2>1 DEF CallOK, Call, CallFits
<1>3. PlacesAskTheirOwn'
  BY <1>1, CallersAssumption DEF CallsInv, PlacesAskTheirOwn
<1>. QED
  BY <1>1, <1>2, <1>3 DEF CallsInv

LEMMA AnswerKeepsCalls ==
    ASSUME CallsInv, issued \in Nat, issued' \in Nat, issued <= issued',
           NEW c \in Callers, calls[c].pc \in {"sent", "hashed", "answered"},
           NEW answer \in {"ok", "created", "conflict", "unauthorized", "notFound", "error"},
           NEW body, Answer(c, answer, body),
           answer = "ok" =>
               /\ calls[c].op = "login" => body \in IssuedTokens'
               /\ calls[c].op = "me" => calls[c].token # None /\ body = calls[c].token.sub
               /\ calls[c].op = "export" => body \in Statuses
    PROVE  CallsInv'
<1>1. PICK call : call = calls[c]
  OBVIOUS
<1>2. CallOK(call)
  BY <1>1 DEF CallsInv
<1>3. CallOK(call)'
  BY <1>2, IssuedGrow
<1>. DEFINE new == [call EXCEPT !.pc = "answered", !.answer = answer, !.body = body]
<1>4. CallOK(new)'
  BY <1>1, <1>3, AnsweredCall
<1>5. new.op = calls[c].op
  BY <1>1, <1>2 DEF CallOK, Call
<1>6. calls' = [calls EXCEPT ![c] = new]
  BY <1>1 DEF Answer, CallsInv
<1>7. /\ c = "restore" => new.op \in {"none", "me"}
      /\ c = "form" => new.op \in {"none", "register", "login"}
      /\ c = "page" => new.op \in {"none", "export"}
  BY <1>5 DEF CallsInv, PlacesAskTheirOwn
<1>. HIDE DEF new
<1>. QED
  BY <1>4, <1>6, <1>7, CallChanges

LEMMA CallsStay ==
    ASSUME CallsInv, UNCHANGED <<calls, issued>>
    PROVE  CallsInv'
BY DEF CallsInv, CallOK, Call, CallFits, IssuedTokens, PlacesAskTheirOwn

(* The tab loses at most its token, and what it asked the API to restore is *)
(* what it asked for before.                                                *)
SameRestore ==
    Outstanding("restore")' =>
        Outstanding("restore") /\ calls'["restore"].token = calls["restore"].token

LEMMA TokenDropped ==
    ASSUME TabInv, issued \in Nat, issued' \in Nat, issued <= issued',
           token' \in {token, None}, UNCHANGED <<user, status, overtaken>>, SameRestore
    PROVE  TabInv'
<1>1. token' \in IssuedTokens' \cup {None}
  BY IssuedGrow DEF TabInv
<1>2. RestoreAsksForToken'
  BY DEF TabInv, RestoreAsksForToken, SameRestore
<1>3. ShownUserOwnsToken' /\ AnonymousHoldsNoToken'
  BY DEF TabInv, ShownUserOwnsToken, AnonymousHoldsNoToken
<1>. QED
  BY <1>1, <1>2, <1>3 DEF TabInv

(* An answer does not change what was asked.                                *)
LEMMA AnswerKeepsRestore ==
    ASSUME CallsInv, NEW c \in Callers, calls[c].pc \in {"sent", "hashed", "answered"},
           NEW answer, NEW body, Answer(c, answer, body)
    PROVE  SameRestore
<1>1. calls[c] \in Call(calls[c].body)
  BY DEF CallsInv, CallOK
<1>. QED
  BY <1>1, CallersAssumption DEF Answer, CallsInv, SameRestore, Outstanding, Call

-----------------------------------------------------------------------------
(* The steps of the API answer a call, keep what was issued, and keep the   *)
(* table of accounts as it should be.                                       *)
LEMMA AccountsStepKeeps ==
    ASSUME CallsInv, TableInv, NEW c \in Callers, AccountsStep(c)
    PROVE  CallsInv' /\ TableInv' /\ SameRestore /\ issued <= issued'
<1>a. /\ issued \in Nat /\ MaxTokens \in Nat /\ issued <= MaxTokens
      /\ CallOK(calls[c]) /\ calls[c] \in Call(calls[c].body)
      /\ calls[c].pc \in {"sent", "hashed"} /\ calls[c].op \in {"register", "login", "me"}
      /\ DOMAIN Canonical = Addresses
  BY AccountsAssumption DEF AccountsStep, FindExisting, CreateUser, LoginUser, Me, Handling,
     CallsInv, CallOK, CallFits, TableInv
<1>b. UNCHANGED <<users, issued, registered>> => TableInv'
  BY DEF TableInv, RegistrationsStand
<1>1. ASSUME NEW answer \in {"conflict", "created", "unauthorized", "error"},
             Answer(c, answer, None), issued' = issued
      PROVE  CallsInv' /\ SameRestore
  BY <1>a, <1>1, AnswerKeepsCalls, AnswerKeepsRestore
<1>2. CASE FindExisting(c)
  <2>1. ASSUME calls' = [calls EXCEPT ![c].pc = "hashed"], UNCHANGED issued,
               calls[c].op = "register"
        PROVE  CallsInv' /\ SameRestore
    <3>. DEFINE new == [calls[c] EXCEPT !.pc = "hashed"]
    <3>1. PICK call : call = new
      OBVIOUS
    <3>2. call.op = "register" /\ CallOK(call)
      BY <1>a, <2>1, <3>1 DEF CallOK, Call, CallFits
    <3>3. CallOK(call)'
      BY <1>a, <2>1, <3>2, IssuedGrow
    <3>4. calls' = [calls EXCEPT ![c] = call]
      BY <2>1, <3>1 DEF CallsInv
    <3>5. c # "restore" /\ c # "page"
      BY <2>1 DEF CallsInv, PlacesAskTheirOwn
    <3>. HIDE DEF new
    <3>6. CallsInv'
      <4>1. issued' \in Nat /\ issued <= issued'
        BY <1>a, <2>1
      <4>2. call.op \in {"none", "register", "login"}
        BY <3>2
      <4>. QED
        BY <1>a, <3>3, <3>4, <3>5, <4>1, <4>2, CallChanges
    <3>7. SameRestore
      BY <3>4, <3>5, CallersAssumption DEF CallsInv, SameRestore, Outstanding
    <3>. QED
      BY <3>6, <3>7
  <2>. QED
    BY <1>a, <1>b, <1>1, <1>2, <2>1 DEF FindExisting, Handling
<1>3. CASE CreateUser(c)
  <2>1. CallsInv' /\ SameRestore /\ issued' = issued
    BY <1>1, <1>3 DEF CreateUser
  <2>2. ASSUME AccountsOf(EmailOf(c)) = {}, users' = users \cup {Account(c)},
               registered' = registered \cup {Account(c)}
        PROVE  TableInv'
    <3>1. Account(c) \in [id : Nat, email : Emails, password : Passwords]
      <4>1. Cardinality(users) + 1 \in Nat
        BY FS_CardinalityType DEF TableInv
      <4>2. calls[c].address \in Addresses /\ calls[c].password \in Passwords
        BY <1>3, <1>a DEF CreateUser, CallOK, CallFits
      <4>. QED
        BY <4>1, <4>2 DEF Account, EmailOf, Emails
    <3>2. Account(c).email = EmailOf(c) /\ \A u \in users : u.email # EmailOf(c)
      BY <2>2 DEF AccountsOf, Account
    <3>3. IsFiniteSet(users')
      BY <2>2, FS_AddElement DEF TableInv
    <3>4. \A u, v \in users' : u.email = v.email => u = v
      BY <2>2, <3>2 DEF TableInv, RegistrationsStand
    <3>5. registered' \subseteq users'
      BY <2>2 DEF TableInv, RegistrationsStand
    <3>. QED
      BY <2>1, <2>2, <3>1, <3>3, <3>4, <3>5 DEF TableInv, RegistrationsStand
  <2>. QED
    BY <1>3, <1>a, <1>b, <2>1, <2>2 DEF CreateUser
<1>4. CASE LoginUser(c)
  <2>1. ASSUME issued < MaxTokens, issued' = issued + 1,
               Answer(c, "ok", [sub |-> EmailOf(c), serial |-> issued + 1]),
               UNCHANGED <<users, registered>>
        PROVE  CallsInv' /\ SameRestore /\ TableInv' /\ issued <= issued'
    <3>1. [sub |-> EmailOf(c), serial |-> issued + 1] \in IssuedTokens'
      <4>1. EmailOf(c) \in Emails
        BY <1>4, <1>a DEF LoginUser, Handling, CallOK, CallFits, EmailOf, Emails
      <4>2. issued + 1 \in 1 .. MaxTokens
        BY <1>a, <2>1
      <4>. QED
        BY <1>a, <2>1, <4>1, <4>2 DEF IssuedTokens, Tokens
    <3>2. issued' \in Nat /\ issued <= issued' /\ issued' \in 0 .. MaxTokens
      BY <1>a, <2>1
    <3>3. calls[c].op = "login"
      BY <1>4 DEF LoginUser, Handling
    <3>4. CallsInv' /\ SameRestore
      BY <1>a, <2>1, <3>1, <3>2, <3>3, AnswerKeepsCalls, AnswerKeepsRestore
    <3>5. TableInv'
      BY <2>1, <3>2 DEF TableInv, RegistrationsStand
    <3>. QED
      BY <3>2, <3>4, <3>5
  <2>2. ASSUME Answer(c, "unauthorized", None), UNCHANGED <<users, issued, registered>>
        PROVE  CallsInv' /\ SameRestore /\ TableInv' /\ issued <= issued'
    BY <1>a, <1>b, <1>1, <2>2
  <2>. QED
    BY <1>4, <2>1, <2>2 DEF LoginUser
<1>5. CASE Me(c)
  <2>1. ASSUME Accepted(calls[c].token), Answer(c, "ok", calls[c].token.sub),
               issued' = issued
        PROVE  CallsInv' /\ SameRestore
    <3>1. calls[c].op = "me" /\ calls[c].token # None
      BY <1>5, <2>1 DEF Me, Handling, Accepted
    <3>. QED
      BY <1>a, <2>1, <3>1, AnswerKeepsCalls, AnswerKeepsRestore
  <2>. QED
    BY <1>5, <1>a, <1>b, <1>1, <2>1 DEF Me
<1>. QED
  BY <1>2, <1>3, <1>4, <1>5 DEF AccountsStep

LEMMA ServerStepKeeps ==
    ASSUME SessionInv, NEW c \in Callers, ServerStep(c)
    PROVE  SessionInv'
<1>a. CallsInv /\ TabInv /\ TableInv /\ PageInv
  BY SessionInvParts
<1>b. issued \in Nat /\ CallOK(calls[c]) /\ calls[c] \in Call(calls[c].body)
  BY <1>a, AccountsAssumption DEF CallsInv, CallOK, TableInv
<1>1. ASSUME CallsInv', TableInv', PageInv', SameRestore, UNCHANGED sessionVars,
             issued <= issued'
      PROVE  SessionInv'
  <2>1. issued' \in Nat
    BY <1>1, AccountsAssumption DEF TableInv
  <2>2. TabInv'
    BY <1>1, <1>a, <1>b, <2>1, TokenDropped DEF sessionVars
  <2>. QED
    BY <1>1, <2>2, SessionInvPartsNext
<1>2. CASE AccountsStep(c) /\ UNCHANGED <<sessionVars, pageVars>>
  <2>1. PageInv'
    BY <1>2, <1>a DEF pageVars, PageInv
  <2>. QED
    BY <1>1, <1>2, <1>a, <2>1, AccountsStepKeeps
<1>3. ASSUME NEW answer \in {"ok", "conflict", "unauthorized", "notFound"}, NEW body,
             Answer(c, answer, body), calls[c].pc = "sent",
             calls[c].op \in {"create", "export", "resume", "cancel"},
             answer = "ok" /\ calls[c].op = "export" => body \in Statuses,
             UNCHANGED <<users, issued, registered, sessionVars>>, PageInv'
      PROVE  SessionInv'
  <2>1. CallsInv' /\ SameRestore
    BY <1>3, <1>a, <1>b, AnswerKeepsCalls, AnswerKeepsRestore
  <2>2. TableInv' /\ issued <= issued'
    BY <1>3, <1>a, <1>b DEF TableInv, RegistrationsStand
  <2>. QED
    BY <1>1, <1>3, <2>1, <2>2
<1>4. CASE HandleCreate(c)
  <2>1. PageInv'
    <3>1. Accepted(calls[c].token) => calls[c].token.sub \in Emails
      BY <1>b DEF Accepted, Call, IssuedTokens, Tokens
    <3>. QED
      BY <1>4, <1>a, <3>1 DEF HandleCreate, PageInv, Statuses, ExportStatus
  <2>. QED
    BY <1>3, <1>4, <2>1 DEF HandleCreate, Refuse, Handling
<1>5. CASE HandleFetch(c)
  <2>1. PageInv' /\ job.status \in Statuses
    BY <1>5, <1>a DEF HandleFetch, PageInv, pageVars
  <2>. QED
    BY <1>3, <1>5, <2>1 DEF HandleFetch, Refuse, Handling
<1>6. CASE HandleAction(c)
  <2>1. PageInv'
    BY <1>6, <1>a DEF HandleAction, PageInv, Statuses, ExportStatus, TakesAction,
       RESUMABLE_FOR_USER, CANCELLABLE
  <2>. QED
    BY <1>3, <1>6, <2>1 DEF HandleAction, Refuse, Handling
<1>7. CASE HandleLateAction(c)
  <2>1. PageInv'
    BY <1>7, <1>a DEF HandleLateAction, PageInv, pageVars
  <2>. QED
    BY <1>3, <1>7, <2>1 DEF HandleLateAction, Refuse, Handling
<1>. QED
  BY <1>2, <1>4, <1>5, <1>6, <1>7 DEF ServerStep

LEMMA EnvironmentKeeps ==
    ASSUME SessionInv, Environment
    PROVE  SessionInv'
<1>a. CallsInv /\ TabInv /\ TableInv /\ PageInv /\ issued \in Nat
  BY SessionInvParts DEF TableInv
<1>1. ASSUME CallsInv', SameRestore, UNCHANGED <<sessionVars, users, issued, registered>>,
             PageInv'
      PROVE  SessionInv'
  <2>1. TabInv' /\ TableInv'
    BY <1>1, <1>a, TokenDropped DEF sessionVars, TableInv, RegistrationsStand
  <2>. QED
    BY <1>1, <2>1, SessionInvPartsNext
<1>2. UNCHANGED pageVars => PageInv'
  BY <1>a DEF PageInv, pageVars
<1>3. UNCHANGED calls => SameRestore
  BY DEF SameRestore, Outstanding
<1>4. ASSUME NEW c \in Callers, CallFails(c), UNCHANGED <<sessionVars, pageVars>>
      PROVE  SessionInv'
  <2>1. CallsInv' /\ SameRestore
    BY <1>4, <1>a, AnswerKeepsCalls, AnswerKeepsRestore DEF CallFails
  <2>. QED
    BY <1>1, <1>2, <1>4, <2>1 DEF CallFails
<1>5. ASSUME NEW address \in OtherAddresses, NEW password \in Passwords,
             OtherRegisters("other", address, password), UNCHANGED <<sessionVars, pageVars>>
      PROVE  SessionInv'
  <2>1. PICK call : call = [NoCall EXCEPT !.op = "register", !.address = address,
                                          !.password = password, !.pc = "sent"]
    OBVIOUS
  <2>2. /\ calls' = [calls EXCEPT !["other"] = call]
        /\ issued' = issued
    BY <1>5, <2>1 DEF OtherRegisters, Send, NoCall
  <2>3. CallOK(call)'
    BY <2>1, AccountsAssumption DEF CallOK, Call, CallFits, NoCall
  <2>4. CallsInv'
    <3>1. issued' \in Nat /\ issued <= issued'
      BY <1>a, <2>2
    <3>. QED
      BY <1>a, <2>2, <2>3, <3>1, CallChanges
  <2>5. SameRestore
    BY <1>a, <2>2, CallersAssumption DEF CallsInv, SameRestore, Outstanding
  <2>. QED
    BY <1>1, <1>2, <1>5, <2>4, <2>5 DEF OtherRegisters
<1>6. ASSUME TokenExpires, UNCHANGED <<sessionVars, pageVars>>
      PROVE  SessionInv'
  BY <1>1, <1>2, <1>3, <1>6, <1>a, CallsStay DEF TokenExpires
<1>7. ASSUME JobStep
      PROVE  SessionInv'
  <2>1. UNCHANGED <<calls, issued, users, registered, sessionVars>>
    BY <1>7 DEF JobStep, serverVars
  <2>2. PageInv'
    BY <1>7, <1>a DEF JobStep, PageInv, JobMoves, Statuses, ExportStatus
  <2>. QED
    BY <1>1, <1>3, <1>a, <2>1, <2>2, CallsStay
<1>. QED
  BY <1>4, <1>5, <1>6, <1>7 DEF Environment

-----------------------------------------------------------------------------
(* The steps of the tab leave the table of accounts alone.                  *)
LEMMA TabStepKeeps ==
    ASSUME SessionInv, UNCHANGED <<users, issued, registered>>, CallsInv', TabInv', PageInv'
    PROVE  SessionInv'
<1>1. TableInv'
  BY SessionInvParts DEF TableInv, RegistrationsStand
<1>. QED
  BY <1>1, SessionInvPartsNext

LEMMA RedirectKeepsPage ==
    ASSUME PageInv, Redirect
    PROVE  PageInv'
BY DEF PageInv, Redirect

(* One place of the tab sends a call or is free again.                      *)
LEMMA PlaceChanges ==
    ASSUME CallsInv, issued \in Nat, UNCHANGED issued,
           NEW c, NEW call, calls' = [calls EXCEPT ![c] = call], CallOK(call),
           c = "restore" => call.op \in {"none", "me"},
           c = "form" => call.op \in {"none", "register", "login"},
           c = "page" => call.op \in {"none", "export"}
    PROVE  CallsInv'
<1>1. issued' \in Nat /\ issued <= issued'
  OBVIOUS
<1>2. CallOK(call)'
  BY <1>1, IssuedGrow
<1>. QED
  BY <1>1, <1>2, CallChanges

(* The form sends a call or is free again.                                  *)
LEMMA FormChanges ==
    ASSUME CallsInv, issued \in Nat, UNCHANGED issued,
           NEW call, calls' = [calls EXCEPT !["form"] = call], CallOK(call),
           call.op \in {"none", "register", "login"}
    PROVE  CallsInv' /\ SameRestore
<1>1. CallsInv'
  BY PlaceChanges
<1>2. SameRestore
  BY CallersAssumption DEF CallsInv, SameRestore, Outstanding
<1>. QED
  BY <1>1, <1>2

LEMMA SessionStepKeeps ==
    ASSUME SessionInv, SessionStep, Redirect
    PROVE  SessionInv'
<1>a. CallsInv /\ TabInv /\ TableInv /\ PageInv /\ issued \in Nat
  BY SessionInvParts DEF TableInv
<1>b. UNCHANGED <<users, issued, registered>> /\ PageInv'
  BY <1>a, RedirectKeepsPage DEF SessionStep, Restore, RestoreAnswered, RegisterAnswered,
     LoginAnswered
<1>c. /\ "restore" \in Callers /\ "form" \in Callers /\ "page" \in Callers
      /\ \A c \in Callers : /\ calls[c] \in Call(calls[c].body)
                            /\ calls[c].pc = "idle" <=> calls[c].op = "none"
                            /\ CallFits(calls[c])
      /\ IssuedTokens' = IssuedTokens
      /\ None \notin IssuedTokens
      /\ \A t \in IssuedTokens : t.sub \in Emails
  BY <1>a, <1>b, CallersAssumption, AccountsAssumption
     DEF CallsInv, CallOK, IssuedTokens, Tokens
<1>1. CASE Restore
  <2>1. CASE token = None
    <3>1. CallsInv'
      BY <1>1, <1>a, <1>b, <2>1, CallsStay DEF Restore
    <3>2. TabInv'
      BY <1>1, <1>a, <1>c, <2>1 DEF Restore, TabInv, RestoreAsksForToken, Outstanding,
         ShownUserOwnsToken, AnonymousHoldsNoToken
    <3>. QED
      BY <1>b, <3>1, <3>2, TabStepKeeps
  <2>2. CASE token # None
    <3>1. PICK call : call = [NoCall EXCEPT !.op = "me", !.token = token, !.pc = "sent"]
      OBVIOUS
    <3>2. CallOK(call)
      BY <1>a, <2>2, <3>1 DEF TabInv, CallOK, Call, CallFits, NoCall
    <3>3. calls' = [calls EXCEPT !["restore"] = call] /\ call.op = "me" /\ call.token = token
      BY <1>1, <2>2, <3>1 DEF Restore, Send, NoCall
    <3>4. CallsInv'
      BY <1>a, <1>b, <3>2, <3>3, PlaceChanges
    <3>5. calls'["restore"].token = token /\ UNCHANGED <<token, user, status, overtaken>>
      BY <1>1, <1>a, <1>c, <2>2, <3>3 DEF Restore, CallsInv
    <3>6. TabInv'
      BY <1>1, <1>a, <1>c, <3>5 DEF TabInv, RestoreAsksForToken, Restore,
         ShownUserOwnsToken, AnonymousHoldsNoToken
    <3>. QED
      BY <1>b, <3>4, <3>6, TabStepKeeps
  <2>. QED
    BY <2>1, <2>2
<1>2. CASE RestoreAnswered
  <2>1. CallsInv'
    BY <1>2, <1>a, <1>b, PlaceChanges, NoCallOK DEF RestoreAnswered, Done, NoCall
  <2>2. ~Outstanding("restore")'
    BY <1>2, <1>a, <1>c DEF RestoreAnswered, Done, NoCall, Outstanding, CallsInv
  <2>3. CASE calls["restore"].answer = "ok"
    <3>1. /\ calls["restore"].token \in IssuedTokens
          /\ user' = calls["restore"].token.sub
          /\ status' = "authenticated" /\ UNCHANGED <<token, overtaken>>
      BY <1>2, <1>a, <1>c, <2>3 DEF RestoreAnswered, Answered, CallsInv, PlacesAskTheirOwn,
         CallFits, Call
    <3>2. ~overtaken => token \in {None, calls["restore"].token}
      BY <1>2, <1>a DEF RestoreAnswered, Answered, TabInv, RestoreAsksForToken, Outstanding
    <3>. QED
      <4>1. TabInv'
        BY <1>a, <1>c, <2>2, <3>1, <3>2 DEF TabInv, RestoreAsksForToken, ShownUserOwnsToken,
           AnonymousHoldsNoToken
      <4>. QED
        BY <1>b, <2>1, <4>1, TabStepKeeps
  <2>4. CASE calls["restore"].answer # "ok"
    <3>1. TabInv'
      BY <1>2, <1>a, <2>2, <2>4 DEF RestoreAnswered, TabInv, RestoreAsksForToken,
         ShownUserOwnsToken, AnonymousHoldsNoToken
    <3>. QED
      BY <1>b, <2>1, <3>1, TabStepKeeps
  <2>. QED
    BY <2>3, <2>4
<1>3. CASE RegisterAnswered
  <2>1. CallsInv' /\ SameRestore
    <3>1. PICK call : call = [calls["form"] EXCEPT !.op = "login", !.answer = "none",
                                                   !.pc = "sent"]
      OBVIOUS
    <3>2. calls["form"].address \in Addresses /\ calls["form"].password \in Passwords
      BY <1>3, <1>c DEF RegisterAnswered, CallFits
    <3>3. CallOK(call) /\ call.op = "login"
      BY <1>c, <3>1, <3>2 DEF CallOK, Call, CallFits
    <3>4. \/ calls' = [calls EXCEPT !["form"] = call]
          \/ calls' = [calls EXCEPT !["form"] = NoCall]
      BY <1>3, <1>c, <3>1 DEF RegisterAnswered, Send, Done, Call
    <3>5. CASE calls' = [calls EXCEPT !["form"] = call]
      BY <1>a, <1>b, <3>3, <3>5, FormChanges
    <3>6. CASE calls' = [calls EXCEPT !["form"] = NoCall]
      BY <1>a, <1>b, <3>6, FormChanges, NoCallOK DEF NoCall
    <3>. QED
      BY <3>4, <3>5, <3>6
  <2>2. TabInv'
    BY <1>3, <1>a, <1>b, <2>1, TokenDropped DEF RegisterAnswered, TokenAfter
  <2>. QED
    BY <1>b, <2>1, <2>2, TabStepKeeps
<1>4. CASE LoginAnswered
  <2>1. CallsInv' /\ SameRestore
    BY <1>4, <1>a, <1>b, FormChanges, NoCallOK DEF LoginAnswered, Done, NoCall
  <2>2. RestoreAsksForToken' /\ overtaken' \in BOOLEAN
    BY <1>4, <1>a, <2>1 DEF LoginAnswered, Overtake, SameRestore, RestoreAsksForToken,
       TabInv
  <2>3. CASE calls["form"].answer = "ok"
    <3>1. /\ calls["form"].body \in IssuedTokens
          /\ token' = calls["form"].body /\ user' = calls["form"].body.sub
          /\ status' = "authenticated"
      BY <1>4, <1>c, <2>3 DEF LoginAnswered, Answered, CallFits
    <3>2. TabInv'
      BY <1>c, <2>2, <3>1 DEF TabInv, ShownUserOwnsToken, AnonymousHoldsNoToken
    <3>. QED
      BY <1>b, <2>1, <3>2, TabStepKeeps
  <2>4. CASE calls["form"].answer # "ok"
    <3>1. token' \in {token, None} /\ UNCHANGED <<user, status>>
      BY <1>4, <2>4 DEF LoginAnswered, TokenAfter
    <3>2. overtaken => overtaken'
      BY <1>4 DEF LoginAnswered, Overtake
    <3>3. TabInv'
      BY <1>a, <1>c, <2>2, <3>1, <3>2 DEF TabInv, ShownUserOwnsToken, AnonymousHoldsNoToken
    <3>. QED
      BY <1>b, <2>1, <3>3, TabStepKeeps
  <2>. QED
    BY <2>3, <2>4
<1>. QED
  BY <1>1, <1>2, <1>3, <1>4 DEF SessionStep

(* What the user does to the session.                                       *)
LEMMA SessionActKeeps ==
    ASSUME SessionInv, SessionAct, Redirect
    PROVE  SessionInv'
<1>a. CallsInv /\ TabInv /\ TableInv /\ PageInv /\ issued \in Nat
  BY SessionInvParts DEF TableInv
<1>b. UNCHANGED <<users, issued, registered>> /\ PageInv'
  BY <1>a, RedirectKeepsPage DEF SessionAct, Submit, Logout, serverVars
<1>1. ASSUME NEW op \in {"login", "register"}, NEW address \in Addresses,
             NEW password \in Passwords, Submit(op, address, password)
      PROVE  SessionInv'
  <2>1. PICK call : call = [NoCall EXCEPT !.op = op, !.address = address,
                                          !.password = password, !.pc = "sent"]
    OBVIOUS
  <2>2. call.op = op /\ CallOK(call)
    BY <2>1 DEF CallOK, Call, CallFits, NoCall
  <2>3. calls' = [calls EXCEPT !["form"] = call]
    BY <1>1, <2>1 DEF Submit, Send, NoCall
  <2>4. CallsInv' /\ SameRestore
    BY <1>a, <1>b, <2>2, <2>3, FormChanges
  <2>5. TabInv'
    BY <1>1, <1>a, <1>b, <2>4, TokenDropped DEF Submit
  <2>. QED
    BY <1>b, <2>4, <2>5, TabStepKeeps
<1>2. ASSUME Logout
      PROVE  SessionInv'
  <2>1. CallsInv' /\ UNCHANGED <<calls, overtaken>>
    BY <1>2, <1>a, CallsStay DEF Logout, serverVars
  <2>2. TabInv'
    BY <1>2, <1>a, <2>1 DEF Logout, TabInv, RestoreAsksForToken, ShownUserOwnsToken,
       AnonymousHoldsNoToken, Outstanding
  <2>. QED
    BY <1>b, <2>1, <2>2, TabStepKeeps
<1>. QED
  BY <1>1, <1>2 DEF SessionAct

(* The page and its buttons call in the name of the token the tab holds.    *)
LEMMA TabCallOK ==
    ASSUME TabInv, NEW op \in {"create", "export", "resume", "cancel"}
    PROVE  CallOK(CallWithToken(op)) /\ CallWithToken(op).op = op
BY DEF TabInv, CallWithToken, CallOK, Call, CallFits, NoCall

LEMMA PageCallKeeps ==
    ASSUME SessionInv, UNCHANGED <<users, issued, registered, user, status, overtaken>>,
           token' \in {token, None}, PageInv',
           NEW c \in {"page", "action"}, NEW call, CallOK(call),
           c = "page" => call.op \in {"none", "export"},
           calls' = [calls EXCEPT ![c] = call]
    PROVE  SessionInv'
<1>a. CallsInv /\ TabInv /\ issued \in Nat
  BY SessionInvParts DEF TableInv
<1>1. CallsInv'
  BY <1>a, PlaceChanges
<1>2. SameRestore
  BY <1>a, CallersAssumption DEF CallsInv, SameRestore, Outstanding
<1>3. TabInv'
  BY <1>a, <1>2, TokenDropped
<1>. QED
  BY <1>1, <1>3, TabStepKeeps

LEMMA PageStepKeeps ==
    ASSUME SessionInv,
           \/ Poll \/ PollAnswered \/ OpenPage \/ CreateExport
           \/ \E op \in {"resume", "cancel"} : ClickAction(op)
    PROVE  SessionInv'
<1>a. CallsInv /\ TabInv /\ TableInv /\ PageInv /\ issued \in Nat
  BY SessionInvParts DEF TableInv
<1>b. UNCHANGED pageVars => PageInv'
  BY <1>a DEF PageInv, pageVars
<1>1. CASE Poll
  <2>1. PICK call : call = CallWithToken("export")
    OBVIOUS
  <2>2. CallOK(call) /\ call.op = "export"
    BY <1>a, <2>1, TabCallOK
  <2>3. calls' = [calls EXCEPT !["page"] = call]
    BY <1>1, <2>1 DEF Poll
  <2>. QED
    BY <1>1, <1>b, <2>2, <2>3, PageCallKeeps DEF Poll, sessionVars
<1>2. CASE PollAnswered
  <2>1. PICK call : call = IF calls["page"].answer = "error" /\ view # "closed"
                           THEN CallWithToken("export") ELSE NoCall
    OBVIOUS
  <2>2. CallOK(call) /\ call.op \in {"none", "export"}
    BY <1>a, <2>1, TabCallOK, NoCallOK DEF NoCall
  <2>3. calls' = [calls EXCEPT !["page"] = call]
    BY <1>2, <2>1 DEF PollAnswered
  <2>4. CallFits(calls["page"])
    BY <1>a, CallersAssumption DEF CallsInv, CallOK
  <2>5. /\ "page" \in Callers /\ calls["page"].op \in {"none", "export"}
        /\ calls["page"].pc = "idle" <=> calls["page"].op = "none"
        /\ calls["page"].pc = "answered"
    BY <1>2, <1>a, CallersAssumption DEF CallsInv, CallOK, PlacesAskTheirOwn, PollAnswered,
       Answered
  <2>6. calls["page"].answer = "ok" => calls["page"].body \in Statuses
    BY <2>4, <2>5 DEF CallFits
  <2>7. PageInv'
    BY <1>2, <1>a, <2>6 DEF PollAnswered, PageInv, ViewOfAnswer
  <2>8. token' \in {token, None} /\ UNCHANGED <<users, issued, registered, user, status, overtaken>>
    BY <1>2 DEF PollAnswered, TokenAfter
  <2>. QED
    BY <2>2, <2>3, <2>7, <2>8, PageCallKeeps
<1>3. CASE OpenPage
  <2>1. CallsInv' /\ PageInv' /\ SameRestore
    BY <1>3, <1>a, CallsStay DEF OpenPage, serverVars, PageInv, SameRestore, Outstanding
  <2>2. TabInv'
    BY <1>3, <1>a, <2>1, TokenDropped DEF OpenPage, serverVars, sessionVars
  <2>. QED
    BY <1>3, <2>1, <2>2, TabStepKeeps DEF OpenPage, serverVars
<1>4. ASSUME NEW op \in {"create", "resume", "cancel"},
             calls' = [calls EXCEPT !["action"] = CallWithToken(op)],
             UNCHANGED <<users, issued, registered, token, user, status, overtaken, pageVars>>
      PROVE  SessionInv'
  <2>1. PICK call : call = CallWithToken(op)
    OBVIOUS
  <2>2. CallOK(call)
    BY <1>a, <2>1, TabCallOK
  <2>3. calls' = [calls EXCEPT !["action"] = call]
    BY <1>4, <2>1
  <2>. QED
    BY <1>4, <1>b, <2>2, <2>3, PageCallKeeps
<1>5. CASE CreateExport
  BY <1>4, <1>5 DEF CreateExport
<1>6. ASSUME NEW op \in {"resume", "cancel"}, ClickAction(op)
      PROVE  SessionInv'
  BY <1>4, <1>6 DEF ClickAction
<1>. QED
  BY <1>1, <1>2, <1>3, <1>5, <1>6

(* Two places change at once: the button is free, the page fetches anew.    *)
LEMMA ActionAnsweredKeeps ==
    ASSUME SessionInv, ActionAnswered
    PROVE  SessionInv'
<1>a. CallsInv /\ TabInv /\ TableInv /\ PageInv /\ issued \in Nat
      /\ {"restore", "form", "page", "action"} \subseteq Callers
  BY SessionInvParts, CallersAssumption DEF TableInv
<1>b. UNCHANGED <<users, issued, registered>>
  BY DEF ActionAnswered
<1>1. PICK call : /\ call \in {calls["page"], Invalidation}
                  /\ calls' = [calls EXCEPT !["action"] = NoCall, !["page"] = call]
  BY <1>a DEF ActionAnswered, CallsInv
<1>2. CallOK(call) /\ call.op \in {"none", "export"}
  BY <1>a, <1>1, TabCallOK DEF Invalidation, CallsInv, PlacesAskTheirOwn
<1>3. /\ calls' = [c \in Callers |-> calls'[c]]
      /\ \A c \in Callers : calls'[c] = IF c = "page" THEN call
                                        ELSE IF c = "action" THEN NoCall ELSE calls[c]
  BY <1>a, <1>1 DEF CallsInv
<1>4. \A c \in Callers : CallOK(calls[c])'
  <2>1. ASSUME NEW c \in Callers, NEW new, new = calls'[c]
        PROVE  CallOK(new)'
    <3>1. CallOK(new)
      BY <1>a, <1>2, <1>3, <2>1, NoCallOK DEF CallsInv
    <3>. QED
      BY <1>a, <1>b, <3>1, IssuedGrow
  <2>. QED
    BY <2>1 DEF CallOK, Call, CallFits
<1>5. PlacesAskTheirOwn'
  BY <1>a, <1>2, <1>3 DEF CallsInv, PlacesAskTheirOwn
<1>6. CallsInv' /\ SameRestore
  BY <1>a, <1>3, <1>4, <1>5 DEF CallsInv, SameRestore, Outstanding
<1>7. TabInv'
  BY <1>a, <1>b, <1>6, TokenDropped DEF ActionAnswered, TokenAfter
<1>8. PageInv'
  BY <1>a DEF ActionAnswered, PageInv
<1>. QED
  BY <1>b, <1>6, <1>7, <1>8, TabStepKeeps

LEMMA ReloadKeeps ==
    ASSUME SessionInv, Reload
    PROVE  SessionInv'
<1>a. CallsInv /\ TabInv /\ TableInv /\ PageInv /\ issued \in Nat
      /\ {"restore", "form", "page", "action"} \subseteq Callers
  BY SessionInvParts, CallersAssumption DEF TableInv
<1>b. UNCHANGED <<users, issued, registered, token, overtaken>>
  BY DEF Reload
<1>1. calls' = [calls EXCEPT !["restore"] = NoCall, !["page"] = NoCall]
  BY DEF Reload
<1>2. /\ calls' = [c \in Callers |-> calls'[c]]
      /\ \A c \in Callers : calls'[c] = IF c \in {"restore", "page"} THEN NoCall ELSE calls[c]
  BY <1>a, <1>1 DEF CallsInv
<1>3. \A c \in Callers : CallOK(calls[c])'
  <2>1. ASSUME NEW c \in Callers, NEW new, new = calls'[c]
        PROVE  CallOK(new)'
    <3>1. CallOK(new)
      BY <1>a, <1>2, <2>1, NoCallOK DEF CallsInv
    <3>. QED
      BY <1>a, <1>b, <3>1, IssuedGrow
  <2>. QED
    BY <2>1 DEF CallOK, Call, CallFits
<1>4. CallsInv'
  BY <1>a, <1>2, <1>3 DEF CallsInv, PlacesAskTheirOwn, NoCall
<1>5. TabInv'
  BY <1>a, <1>b, <1>2 DEF Reload, TabInv, RestoreAsksForToken, Outstanding, NoCall,
     ShownUserOwnsToken, AnonymousHoldsNoToken, IssuedTokens
<1>6. PageInv'
  BY <1>a DEF Reload, PageInv
<1>. QED
  BY <1>b, <1>4, <1>5, <1>6, TabStepKeeps

-----------------------------------------------------------------------------
LEMMA InitSessionInv == Init => SessionInv
<1>. SUFFICES ASSUME Init
              PROVE  SessionInv
  OBVIOUS
<1>a. PICK password \in [KnownEmails -> Passwords] :
          users = {[id |-> 1, email |-> e, password |-> password[e]] : e \in KnownEmails}
  BY DEF Init
<1>b. PICK u \in users \cup {None} :
          /\ token = IF u = None THEN None ELSE [sub |-> u.email, serial |-> 1]
          /\ issued = (IF u = None THEN 0 ELSE 1)
  BY DEF Init
<1>1. KnownEmails \subseteq Emails
  BY AccountsAssumption DEF KnownEmails, Emails
<1>2. IsFiniteSet(users)
  <2>. DEFINE canonical == [a \in Registered |-> Canonical[a]]
              account   == [e \in KnownEmails |->
                               [id |-> 1, email |-> e, password |-> password[e]]]
  <2>1. canonical \in Surjection(Registered, KnownEmails)
    BY DEF KnownEmails, Surjection
  <2>2. account \in Surjection(KnownEmails, users)
    BY <1>a DEF Surjection
  <2>3. IsFiniteSet(KnownEmails)
    BY <2>1, AccountsAssumption, FS_Surjection
  <2>. QED
    BY <2>2, <2>3, FS_Surjection
<1>3. TableInv
  BY <1>a, <1>b, <1>1, <1>2, AccountsAssumption DEF Init, TableInv, RegistrationsStand
<1>4. token \in IssuedTokens \cup {None}
  <2>1. CASE u = None
    BY <1>b, <2>1
  <2>2. CASE u # None
    BY <1>a, <1>b, <1>1, <2>2, AccountsAssumption DEF IssuedTokens, Tokens
  <2>. QED
    BY <2>1, <2>2
<1>5. CallsInv
  BY NoCallOK, CallersAssumption DEF Init, CallsInv, PlacesAskTheirOwn, NoCall
<1>6. TabInv
  BY <1>4, CallersAssumption DEF Init, TabInv, RestoreAsksForToken, Outstanding, NoCall,
     ShownUserOwnsToken, AnonymousHoldsNoToken
<1>7. PageInv
  BY DEF Init, PageInv, Statuses, ExportStatus
<1>. QED
  BY <1>3, <1>5, <1>6, <1>7, SessionInvParts

LEMMA NextSessionInv == SessionInv /\ [Next]_vars => SessionInv'
<1>. SUFFICES ASSUME SessionInv, [Next]_vars
              PROVE  SessionInv'
  OBVIOUS
<1>1. ASSUME UNCHANGED vars
      PROVE  SessionInv'
  BY <1>1 DEF SessionInv, vars, serverVars, sessionVars, pageVars, PageTypeOK, IssuedTokens,
     Call, CallFits, PlacesAskTheirOwn, RestoreAsksForToken, Outstanding, RegistrationsStand,
     ShownUserOwnsToken, AnonymousHoldsNoToken
<1>2. ASSUME NEW c \in Callers, ServerStep(c)
      PROVE  SessionInv'
  BY <1>2, ServerStepKeeps
<1>3. CASE ClientStep
  BY <1>3, SessionStepKeeps DEF ClientStep
<1>4. CASE SessionAct /\ Redirect
  BY <1>4, SessionActKeeps
<1>5. CASE \/ Poll \/ PollAnswered \/ OpenPage \/ CreateExport
           \/ \E op \in {"resume", "cancel"} : ClickAction(op)
  BY <1>5, PageStepKeeps
<1>6. CASE ActionAnswered
  BY <1>6, ActionAnsweredKeeps
<1>7. CASE Reload
  BY <1>7, ReloadKeeps
<1>8. CASE Environment
  BY <1>8, EnvironmentKeeps
<1>. QED
  BY <1>1, <1>2, <1>3, <1>4, <1>5, <1>6, <1>7, <1>8 DEF Next

(* The state of accounts, session and page is always consistent, whatever   *)
(* the order in which calls are handled and answers are taken.               *)
THEOREM SessionInvariant == Spec => []SessionInv
BY InitSessionInv, NextSessionInv, PTL DEF Spec

(* Types; a token in the browser, or in a call, was issued by the server.   *)
THEOREM PageTypeCorrect == Spec => []PageTypeOK
<1>1. SessionInv => PageTypeOK
  BY DEF SessionInv
<1>. QED
  BY <1>1, SessionInvariant, PTL

(* However many clients register at once: an address has one account, and a *)
(* registration that was answered with 201 made one that stays.              *)
THEOREM RegistrationsAlwaysStand == Spec => []RegistrationsStand
<1>1. SessionInv => RegistrationsStand
  BY DEF SessionInv
<1>. QED
  BY <1>1, SessionInvariant, PTL

(* The user a tab shows is the owner of the token it sends, unless a form    *)
(* was answered while the restore was outstanding.                           *)
THEOREM ShownUserAlwaysOwnsToken == Spec => []ShownUserOwnsToken
<1>1. SessionInv => ShownUserOwnsToken
  BY DEF SessionInv
<1>. QED
  BY <1>1, SessionInvariant, PTL

(* A tab that asks for a login keeps neither a token nor a user.             *)
THEOREM AnonymousAlwaysClean == Spec => []AnonymousHoldsNoToken
<1>1. SessionInv => AnonymousHoldsNoToken
  BY DEF SessionInv
<1>. QED
  BY <1>1, SessionInvariant, PTL
=============================================================================
