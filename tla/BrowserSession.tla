---------------------------- MODULE BrowserSession ----------------------------
(***************************************************************************)
(* The session of one browser tab: AuthContext, the login and register     *)
(* pages, and apiRequest, which attaches the stored token when a call is   *)
(* sent and drops it whenever any call is answered with 401.               *)
(***************************************************************************)
EXTENDS Accounts

CONSTANT MaxUserActions  \* bound on what the user does

VARIABLES
    token,       \* localStorage: the stored token
    user,        \* React state of AuthProvider
    status,
    userActions, \* things the user has done so far
    overtaken    \* history: a form was answered while the restore was outstanding

sessionVars == <<token, user, status, userActions, overtaken>>

UserActs == userActions < MaxUserActions /\ userActions' = userActions + 1

(* 401 makes apiRequest clear the stored token, whichever token was refused. *)
TokenAfter(c) == IF calls[c].answer = "unauthorized" THEN None ELSE token

Done(c) == calls' = [calls EXCEPT ![c] = NoCall]
Answered(c) == calls[c].pc = "answered"
Outstanding(c) == calls[c].pc # "idle"

-----------------------------------------------------------------------------
(* restore(), on mount: without a token there is nothing to ask the API.    *)
Restore ==
    /\ status = "loading"
    /\ ~Outstanding("restore")
    /\ IF token = None
       THEN status' = "anonymous" /\ UNCHANGED calls
       ELSE Send("restore", [NoCall EXCEPT !.op = "me", !.token = token]) /\ UNCHANGED status
    /\ UNCHANGED <<users, issued, expired, disturbances, registered,
                   token, user, userActions, overtaken>>

(* Faulty variant: only a 401 ends the session, any other error nothing.    *)
RestoreAnsweredOr401 ==
    /\ Answered("restore")
    /\ CASE calls["restore"].answer = "ok" -> /\ user' = calls["restore"].body
                                              /\ status' = "authenticated"
                                              /\ UNCHANGED token
         [] calls["restore"].answer = "unauthorized" -> /\ user' = None
                                                        /\ status' = "anonymous"
                                                        /\ token' = None
         [] OTHER -> user' = None /\ status' = "anonymous" /\ UNCHANGED token
    /\ Done("restore")
    /\ UNCHANGED <<users, issued, expired, disturbances, registered, userActions, overtaken>>

(* Faulty variant: an error of the network is not caught.                   *)
RestoreUncaught ==
    /\ Answered("restore")
    /\ calls["restore"].answer # "error"
    /\ user' = calls["restore"].body
    /\ status' = IF calls["restore"].answer = "ok" THEN "authenticated" ELSE "anonymous"
    /\ token' = TokenAfter("restore")
    /\ Done("restore")
    /\ UNCHANGED <<users, issued, expired, disturbances, registered, userActions, overtaken>>

(* Any failure, also one of the network, ends in a logout.                  *)
RestoreAnswered ==
    /\ Answered("restore")
    /\ IF calls["restore"].answer = "ok"
       THEN /\ user' = calls["restore"].body
            /\ status' = "authenticated"
            /\ UNCHANGED token
       ELSE /\ user' = None
            /\ status' = "anonymous"
            /\ token' = None
    /\ Done("restore")
    /\ UNCHANGED <<users, issued, expired, disturbances, registered, userActions, overtaken>>

-----------------------------------------------------------------------------
(* The pages /login and /register show their form unless the session is     *)
(* authenticated: also while it is being restored.  A form that has been    *)
(* submitted is disabled until it is answered.                              *)
Submit(op, address, password) ==
    /\ UserActs
    /\ status # "authenticated"
    /\ ~Outstanding("form")
    /\ Send("form", [NoCall EXCEPT !.op = op, !.address = address, !.password = password])
    /\ UNCHANGED <<users, issued, expired, disturbances, registered,
                   token, user, status, overtaken>>

Overtake == overtaken' = (overtaken \/ Outstanding("restore"))

(* register() of AuthContext goes on with login().                          *)
RegisterAnswered ==
    /\ Answered("form")
    /\ calls["form"].op = "register"
    /\ IF calls["form"].answer = "created"
       THEN Send("form", [calls["form"] EXCEPT !.op = "login", !.answer = "none"])
       ELSE Done("form")
    /\ token' = TokenAfter("form")
    /\ UNCHANGED <<users, issued, expired, disturbances, registered,
                   user, status, userActions, overtaken>>

(* Faulty variant: the user is left to the next restore.                    *)
LoginWithoutUser ==
    /\ Answered("form")
    /\ calls["form"].op = "login"
    /\ token' = IF calls["form"].answer = "ok" THEN calls["form"].body ELSE TokenAfter("form")
    /\ status' = IF calls["form"].answer = "ok" THEN "authenticated" ELSE status
    /\ Overtake
    /\ Done("form")
    /\ UNCHANGED <<users, issued, expired, disturbances, registered, user, userActions>>

LoginAnswered ==
    /\ Answered("form")
    /\ calls["form"].op = "login"
    /\ IF calls["form"].answer = "ok"
       THEN /\ token' = calls["form"].body
            /\ user' = calls["form"].body.sub
            /\ status' = "authenticated"
       ELSE /\ token' = TokenAfter("form")
            /\ UNCHANGED <<user, status>>
    /\ Overtake
    /\ Done("form")
    /\ UNCHANGED <<users, issued, expired, disturbances, registered, userActions>>

Logout ==
    /\ UserActs
    /\ status = "authenticated"
    /\ token' = None /\ user' = None /\ status' = "anonymous"
    /\ UNCHANGED <<serverVars, overtaken>>

-----------------------------------------------------------------------------
SessionStep == Restore \/ RestoreAnswered \/ RegisterAnswered \/ LoginAnswered

SessionAct ==
    \/ \E op \in {"login", "register"}, address \in Addresses, password \in Passwords :
          Submit(op, address, password)
    \/ Logout

(* The single tab knows whose token it holds: the user it shows is the one  *)
(* the API takes its calls to come from.  Not so once a form was answered   *)
(* while the restore was outstanding: the late answer of the restore then   *)
(* puts the old user over the new one, or a refused password takes the      *)
(* token of the session that is being restored.                             *)
ShownUserOwnsToken ==
    status = "authenticated" /\ token # None /\ ~overtaken => user = token.sub

(* After a logout nothing of the session is left in the browser.            *)
AnonymousHoldsNoToken == status = "anonymous" => token = None /\ user = None

(* The spinner of ProtectedRoute does not stay: a session is restored or    *)
(* the user is asked to log in, whatever the API does.                      *)
SessionDecides == status = "loading" ~> status # "loading"
=============================================================================
