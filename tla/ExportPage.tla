------------------------------ MODULE ExportPage ------------------------------
(***************************************************************************)
(* The pages of one export in the browser: it is created, its status is    *)
(* polled while it may still change, and resume and cancel are sent from   *)
(* what the page shows.  React Query (external) runs one fetch of a query  *)
(* at a time, repeats a fetch that failed without a 4xx, twice, and drops  *)
(* the one under way when the query is invalidated.                        *)
(***************************************************************************)
EXTENDS BrowserSession, JobStatus

VARIABLES
    job,    \* the server's row: status and owner
    view,   \* the status on the page; "closed", or "loading" before the first
    broken, \* the last fetch was refused
    acted   \* an accepted action is to be shown: "fetched" once the server has
            \* answered a fetch of the page after it, "none" once that is shown

pageVars == <<job, view, broken, acted>>
vars == <<serverVars, sessionVars, pageVars>>

(* A fetch that fails is repeated twice: no fetch runs out of repetitions.  *)
ASSUME FetchAssumption == Disturbances <= 2

(* The places of the tab that wait for an answer of their own.              *)
ASSUME CallersAssumption == {"restore", "form", "page", "action"} \subseteq Callers

-----------------------------------------------------------------------------
(* The server: what createExportJob, resumeExportJob, cancelExportJob and   *)
(* getOwnedExportJob make of a call, and what happens to the job otherwise. *)
RESUMABLE_FOR_USER == {"INTERRUPTED", "FAILED", "PENDING", "QUEUED", "RESUMING"}
CANCELLABLE == {"PENDING", "QUEUED", "RUNNING", "RESUMING", "INTERRUPTED"}

JobStep ==
    /\ \E move \in JobMoves : /\ job.status = move[1]
                              /\ job' = [job EXCEPT !.status = move[2]]
    /\ UNCHANGED <<serverVars, sessionVars, view, broken, acted>>

Owns(c) == Accepted(calls[c].token) /\ calls[c].token.sub = job.owner

Refuse(c) == Answer(c, IF Accepted(calls[c].token) THEN "notFound" ELSE "unauthorized", None)

HandleCreate(c) ==
    /\ Handling(c, "create")
    /\ IF Accepted(calls[c].token)
       THEN /\ job' = [status |-> "QUEUED", owner |-> calls[c].token.sub]
            /\ Answer(c, "ok", None)
       ELSE Refuse(c) /\ UNCHANGED job
    /\ UNCHANGED <<users, issued, expired, disturbances, registered,
                   sessionVars, view, broken, acted>>

HandleFetch(c) ==
    /\ Handling(c, "export")
    /\ IF Owns(c) THEN Answer(c, "ok", job.status) ELSE Refuse(c)
    /\ acted' = IF acted = "accepted" THEN "fetched" ELSE acted
    /\ UNCHANGED <<users, issued, expired, disturbances, registered, sessionVars,
                   job, view, broken>>

(* A cancel of a running job only leaves a note for its worker, one of a    *)
(* cancelled job is answered as if it had done it.                          *)
TakesAction(op) == job.status \in IF op = "resume" THEN RESUMABLE_FOR_USER
                                                   ELSE CANCELLABLE \cup {"CANCELLED"}

HandleAction(c) ==
    /\ Handling(c, "resume") \/ Handling(c, "cancel")
    /\ TakesAction(calls[c].op)
    /\ IF Owns(c)
       THEN /\ Answer(c, "ok", None)
            /\ job' = [job EXCEPT !.status = IF calls[c].op = "resume" THEN "RESUMING"
                                             ELSE IF @ = "RUNNING" THEN @ ELSE "CANCELLED"]
       ELSE Refuse(c) /\ UNCHANGED job
    /\ UNCHANGED <<users, issued, expired, disturbances, registered,
                   sessionVars, view, broken, acted>>

HandleLateAction(c) ==
    /\ Handling(c, "resume") \/ Handling(c, "cancel")
    /\ ~TakesAction(calls[c].op)
    /\ IF Owns(c) THEN Answer(c, "conflict", None) ELSE Refuse(c)
    /\ UNCHANGED <<users, issued, expired, disturbances, registered, sessionVars, pageVars>>

-----------------------------------------------------------------------------
CallWithToken(op) == [NoCall EXCEPT !.op = op, !.token = token, !.pc = "sent"]

(* The link in a list opens the page.  Whoever is not logged in sees none.  *)
OpenPage ==
    /\ status = "authenticated"
    /\ view = "closed" /\ job.status # "none"
    /\ view' = "loading"
    /\ broken' = FALSE
    /\ UNCHANGED <<serverVars, sessionVars, job, acted>>

CreateExport ==
    /\ UserActs
    /\ status = "authenticated"
    /\ view = "closed" /\ job.status = "none"
    /\ ~Outstanding("action")
    /\ calls' = [calls EXCEPT !["action"] = CallWithToken("create")]
    /\ UNCHANGED <<users, issued, expired, disturbances, registered,
                   token, user, status, overtaken, pageVars>>

(* Faulty variant: the worker is thought to be done when it verifies.       *)
LIVE_WITHOUT_VERIFYING == {"QUEUED", "RUNNING", "RESUMING", "PENDING"}

LIVE_STATUSES == {"QUEUED", "RUNNING", "RESUMING", "VERIFYING", "PENDING"}

Poll ==
    /\ ~Outstanding("page")
    /\ \/ view \in LIVE_STATUSES
       \/ view = "loading" /\ ~broken
    /\ calls' = [calls EXCEPT !["page"] = CallWithToken("export")]
    /\ UNCHANGED <<users, issued, expired, disturbances, registered, sessionVars, pageVars>>

ViewOfAnswer ==
    IF calls["page"].answer = "ok" /\ view # "closed" THEN calls["page"].body ELSE view

(* A refused fetch leaves what the page has; a failed one is repeated.      *)
PollAnswered ==
    /\ Answered("page")
    /\ LET answer == calls["page"].answer
       IN  /\ calls' = [calls EXCEPT !["page"] = IF answer = "error" /\ view # "closed"
                                                 THEN CallWithToken("export") ELSE NoCall]
           /\ view' = ViewOfAnswer
           /\ broken' = (answer \in {"unauthorized", "notFound"})
           /\ acted' = IF acted = "fetched" /\ answer # "error" THEN "none" ELSE acted
           /\ token' = TokenAfter("page")
    /\ UNCHANGED <<users, issued, expired, disturbances, registered,
                   user, status, userActions, overtaken, job>>

ClickAction(op) ==
    /\ UserActs
    /\ view \in (IF op = "resume" THEN RESUMABLE_FOR_USER ELSE CANCELLABLE)
    /\ ~Outstanding("action")
    /\ calls' = [calls EXCEPT !["action"] = CallWithToken(op)]
    /\ UNCHANGED <<users, issued, expired, disturbances, registered,
                   token, user, status, overtaken, pageVars>>

(* Faulty variant: the page waits for its next poll.                        *)
NoInvalidation == calls["page"]

(* The job is fetched again at once, in the place of a fetch under way.     *)
Invalidation == CallWithToken("export")

(* A created export is shown, a job acted upon is fetched again.            *)
ActionAnswered ==
    /\ Answered("action")
    /\ LET ok    == calls["action"].answer = "ok" /\ status = "authenticated"
           fresh == calls["action"].op # "create" /\ view # "closed"
       IN  /\ calls' = [calls EXCEPT !["action"] = NoCall,
                                     !["page"] = IF ok /\ fresh THEN Invalidation ELSE @]
           /\ view' = IF ok /\ view = "closed" /\ calls["action"].op = "create"
                      THEN "loading" ELSE view
           /\ acted' = IF ok /\ fresh THEN "accepted" ELSE acted
    /\ token' = TokenAfter("action")
    /\ UNCHANGED <<users, issued, expired, disturbances, registered,
                   user, status, userActions, overtaken, job, broken>>

-----------------------------------------------------------------------------
(* Whoever is logged out is sent to /login, which closes the page.          *)
Redirect ==
    /\ view' = IF status' = "authenticated" THEN view ELSE "closed"
    /\ acted' = IF status' = "authenticated" THEN acted ELSE "none"
    /\ UNCHANGED <<job, broken>>

(* Faulty variant: the user is stored beside the token.                    *)
ReloadKeepingUser ==
    /\ UserActs
    /\ ~Outstanding("form") /\ ~Outstanding("action")
    /\ status' = "loading"
    /\ view' = "closed" /\ acted' = "none"
    /\ calls' = [calls EXCEPT !["restore"] = NoCall, !["page"] = NoCall]
    /\ UNCHANGED <<users, issued, expired, disturbances, registered, token, user, overtaken,
                   job, broken>>

(* The page is loaded anew: nothing survives but the stored token.  Answers *)
(* that were on their way find nobody.                                      *)
Reload ==
    /\ UserActs
    /\ ~Outstanding("form") /\ ~Outstanding("action")
    /\ status' = "loading" /\ user' = None
    /\ view' = "closed" /\ acted' = "none"
    /\ calls' = [calls EXCEPT !["restore"] = NoCall, !["page"] = NoCall]
    /\ UNCHANGED <<users, issued, expired, disturbances, registered, token, overtaken, job, broken>>

(* The tab is opened with no, a valid or an expired token in storage.       *)
KnownEmails == {Canonical[a] : a \in Registered}

Init ==
    /\ \E password \in [KnownEmails -> Passwords] :
          users = {[id |-> 1, email |-> e, password |-> password[e]] : e \in KnownEmails}
    /\ \E u \in users \cup {None} :
          /\ token = IF u = None THEN None ELSE [sub |-> u.email, serial |-> 1]
          /\ issued = (IF u = None THEN 0 ELSE 1)
          /\ expired \in {{}, {token} \ {None}}
    /\ calls = [c \in Callers |-> NoCall]
    /\ disturbances = 0 /\ registered = {}
    /\ user = None /\ status = "loading" /\ userActions = 0 /\ overtaken = FALSE
    /\ job = [status |-> "none", owner |-> None]
    /\ view = "closed" /\ broken = FALSE /\ acted = "none"

ServerStep(c) ==
    \/ AccountsStep(c) /\ UNCHANGED <<sessionVars, pageVars>>
    \/ HandleCreate(c) \/ HandleFetch(c) \/ HandleAction(c) \/ HandleLateAction(c)

ClientStep == SessionStep /\ Redirect

Environment ==
    \/ /\ \/ \E c \in Callers : CallFails(c)
          \/ \E address \in OtherAddresses, password \in Passwords :
                OtherRegisters("other", address, password)
          \/ TokenExpires
       /\ UNCHANGED <<sessionVars, pageVars>>
    \/ JobStep

Next ==
    \/ \E c \in Callers : ServerStep(c)
    \/ ClientStep \/ Poll \/ PollAnswered \/ ActionAnswered
    \/ SessionAct /\ Redirect
    \/ OpenPage \/ CreateExport \/ Reload
    \/ \E op \in {"resume", "cancel"} : ClickAction(op)
    \/ Environment

(* The API handles what reaches it, the browser what is answered, and its   *)
(* timers run.  The user, faults and the job owe nothing.                   *)
Fairness ==
    /\ \A c \in Callers : WF_vars(ServerStep(c))
    /\ WF_vars(ClientStep)
    /\ WF_vars(Poll) /\ WF_vars(PollAnswered) /\ WF_vars(ActionAnswered)

Spec == Init /\ [][Next]_vars /\ Fairness

-----------------------------------------------------------------------------
Statuses == ExportStatus \cup {"none"}

IssuedTokens == {t \in Tokens : t.serial <= issued}

(* What a body holds depends on what was asked for.                         *)
Call(body) ==
        [op       : {"none", "register", "login", "me", "create", "export", "resume", "cancel"},
         pc       : {"idle", "sent", "hashed", "answered"},
         address  : Addresses \cup {None},
         password : Passwords \cup {None},
         token    : IssuedTokens \cup {None},
         answer   : {"none", "ok", "created", "conflict", "unauthorized", "notFound", "error"},
         body     : {body}]

(* Types; a token in the browser, or in a call, was issued by the server.   *)
PageTypeOK ==
    /\ users \subseteq [id : Nat, email : Emails, password : Passwords]
    /\ issued \in 0 .. MaxTokens
    /\ calls = [c \in Callers |-> calls[c]]
    /\ \A c \in Callers :
          /\ calls[c] \in Call(calls[c].body)
          /\ calls[c].pc = "idle" <=> calls[c].op = "none"
    /\ token \in IssuedTokens \cup {None}
    /\ user \in Emails \cup {None}
    /\ status \in {"loading", "authenticated", "anonymous"}
    /\ job \in [status : Statuses, owner : Emails \cup {None}]
    /\ view \in Statuses \cup {"closed", "loading"}
    /\ broken \in BOOLEAN /\ overtaken \in BOOLEAN
    /\ acted \in {"none", "accepted", "fetched"}

(* The strengthening that makes the promises of Accounts and BrowserSession  *)
(* inductive.  What a call carries and is answered fits what it asks; each   *)
(* place of the tab sends its own calls; and as long as no form overtakes    *)
(* it, the restore asks for the user of the token the tab still holds.       *)
CallFits(call) ==
    /\ call.op \in {"register", "login"} =>
          call.address \in Addresses /\ call.password \in Passwords
    /\ call.pc = "hashed" => call.op = "register"
    /\ call.pc = "answered" /\ call.answer = "ok" =>
          CASE call.op = "login"  -> call.body \in IssuedTokens
            [] call.op = "me"     -> call.token # None /\ call.body = call.token.sub
            [] call.op = "export" -> call.body \in Statuses
            [] OTHER              -> TRUE

PlacesAskTheirOwn ==
    /\ calls["restore"].op \in {"none", "me"}
    /\ calls["form"].op \in {"none", "register", "login"}
    /\ calls["page"].op \in {"none", "export"}

RestoreAsksForToken ==
    Outstanding("restore") /\ ~overtaken => token \in {None, calls["restore"].token}

SessionInv ==
    /\ PageTypeOK
    /\ IsFiniteSet(users)
    /\ \A c \in Callers : CallFits(calls[c])
    /\ PlacesAskTheirOwn
    /\ RestoreAsksForToken
    /\ status = "loading" => user = None
    /\ RegistrationsStand
    /\ ShownUserOwnsToken
    /\ AnonymousHoldsNoToken

(* A page that is left open shows what became of the export: it never stops *)
(* at a status the job leaves by itself.  It may stop at FAILED or           *)
(* INTERRUPTED while a retry or a worker that took over runs the job again. *)
Passing == {"PENDING", "QUEUED", "RUNNING", "RESUMING", "VERIFYING", "loading"}
PageIsServed == /\ status = "authenticated" /\ view # "closed"
                /\ Accepted(token) /\ token.sub = job.owner

PageCatchesUp ==
    \A s \in Statuses :
        <>[](job.status = s /\ PageIsServed)
            => <>[](view = s \/ view \notin Passing \/ (view = "loading" /\ broken))

(* An accepted resume or cancel shows on the page, also where polling had   *)
(* stopped: the page comes to show an answer that the server gave after it.  *)
(* One it gave before, to a fetch that was under way, will not do.           *)
ActionIsShown == acted # "none" ~> acted = "none"
=============================================================================
