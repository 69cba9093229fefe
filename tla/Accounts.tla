------------------------------- MODULE Accounts -------------------------------
(***************************************************************************)
(* The server side of the user's session: registration, login and the      *)
(* bearer token that requireAuth asks for.  A call is one HTTP request: it  *)
(* is sent, handled in one or two steps, and answered; the answer is taken *)
(* by the caller later.                                                    *)
(***************************************************************************)
EXTENDS Naturals, FiniteSets

CONSTANTS
    Callers,    \* places of the browser, and other clients, that send calls
    Addresses,  \* e-mail addresses as they are typed
    Canonical,  \* what trim().toLowerCase() makes of each
    Passwords,
    Registered,     \* addresses with an account from the start
    OtherAddresses, \* addresses that another client may register
    None,       \* no token, no user, no body
    MaxTokens,  \* bound on logins that succeed
    Disturbances \* bound on what comes from outside: failures, expiry, other clients

Emails == {Canonical[a] : a \in Addresses}
Tokens == [sub : Emails, serial : 1..MaxTokens]

ASSUME AccountsAssumption ==
    /\ DOMAIN Canonical = Addresses
    /\ Registered \cup OtherAddresses \subseteq Addresses
    /\ None \notin Tokens \cup Emails
    /\ IsFiniteSet(Registered)
    /\ MaxTokens \in Nat \ {0} /\ Disturbances \in Nat

VARIABLES
    users,     \* the table: id, e-mail address and password
    calls,     \* the call each caller has outstanding
    issued,    \* number of tokens signed so far
    expired,   \* tokens past their expiry
    disturbances, \* what has come from outside so far
    registered \* history: the accounts that registrations answered with 201

serverVars == <<users, calls, issued, expired, disturbances, registered>>

NoCall == [op |-> "none", pc |-> "idle", address |-> None, password |-> None,
           token |-> None, answer |-> "none", body |-> None]

Send(c, call) == calls' = [calls EXCEPT ![c] = [call EXCEPT !.pc = "sent"]]
Answer(c, answer, body) ==
    calls' = [calls EXCEPT ![c].pc = "answered", ![c].answer = answer, ![c].body = body]
Handling(c, op) == calls[c].pc = "sent" /\ calls[c].op = op

EmailOf(c)    == Canonical[calls[c].address]
AccountsOf(e) == {u \in users : u.email = e}

-----------------------------------------------------------------------------
(* registerUser: the address is looked up ...                               *)
FindExisting(c) ==
    /\ Handling(c, "register")
    /\ IF AccountsOf(EmailOf(c)) # {}
       THEN Answer(c, "conflict", None)
       ELSE calls' = [calls EXCEPT ![c].pc = "hashed"]
    /\ UNCHANGED <<users, issued, expired, disturbances, registered>>

Account(c) == [id |-> Cardinality(users) + 1, email |-> EmailOf(c),
               password |-> calls[c].password]

(* Faulty variant: no unique constraint on the address.                     *)
CreateUserUnchecked(c) ==
    /\ calls[c].pc = "hashed"
    /\ users' = users \cup {Account(c)}
    /\ registered' = registered \cup {Account(c)}
    /\ Answer(c, "created", None)
    /\ UNCHANGED <<issued, expired, disturbances>>

(* ... and the row created once the password is hashed.  The violation of   *)
(* the unique constraint is no AppError: errorHandler answers 500.          *)
CreateUser(c) ==
    /\ calls[c].pc = "hashed"
    /\ IF AccountsOf(EmailOf(c)) # {}
       THEN Answer(c, "error", None) /\ UNCHANGED <<users, registered>>
       ELSE /\ users' = users \cup {Account(c)}
            /\ registered' = registered \cup {Account(c)}
            /\ Answer(c, "created", None)
    /\ UNCHANGED <<issued, expired, disturbances>>

(* loginUser: an unknown address and a wrong password get the same answer.  *)
LoginUser(c) ==
    /\ Handling(c, "login")
    /\ IF \E u \in AccountsOf(EmailOf(c)) : u.password = calls[c].password
       THEN /\ issued < MaxTokens
            /\ issued' = issued + 1
            /\ Answer(c, "ok", [sub |-> EmailOf(c), serial |-> issued + 1])
       ELSE Answer(c, "unauthorized", None) /\ UNCHANGED issued
    /\ UNCHANGED <<users, expired, disturbances, registered>>

(* requireAuth: no token, or one that jwt.verify refuses, is a 401.         *)
Accepted(token) == token # None /\ token \notin expired

Me(c) ==
    /\ Handling(c, "me")
    /\ IF Accepted(calls[c].token)
       THEN Answer(c, "ok", calls[c].token.sub)
       ELSE Answer(c, "unauthorized", None)
    /\ UNCHANGED <<users, issued, expired, disturbances, registered>>

Disturb == disturbances < Disturbances /\ disturbances' = disturbances + 1

(* The API sleeps or is down, or a query fails; or the call took effect and *)
(* its answer is lost, or arrives as no JSON.                               *)
CallFails(c) ==
    /\ Disturb
    /\ \/ calls[c].pc \in {"sent", "hashed"}
       \/ calls[c].pc = "answered" /\ calls[c].answer # "error"
    /\ Answer(c, "error", None)
    /\ UNCHANGED <<users, issued, expired, registered>>

(* Another client registers.                                                *)
OtherRegisters(c, address, password) ==
    /\ Disturb
    /\ calls[c].pc = "idle"
    /\ calls[c].op = "none"
    /\ Send(c, [NoCall EXCEPT !.op = "register", !.address = address, !.password = password])
    /\ UNCHANGED <<users, issued, expired, registered>>

TokenExpires ==
    /\ Disturb
    /\ \E t \in Tokens \ expired : t.serial <= issued /\ expired' = expired \cup {t}
    /\ UNCHANGED <<users, calls, issued, registered>>

AccountsStep(c) == FindExisting(c) \/ CreateUser(c) \/ LoginUser(c) \/ Me(c)

-----------------------------------------------------------------------------
(* An address has one account, however its letters were typed and whoever   *)
(* registered at the same moment; and who was told that his account exists  *)
(* has it, under the password he gave.                                      *)
RegistrationsStand ==
    /\ \A u, v \in users : u.email = v.email => u = v
    /\ registered \subseteq users
=============================================================================
