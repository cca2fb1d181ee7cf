------------------------------- MODULE Doors -------------------------------
(* Signing in: app/oauth_api.py (providers, mailed links, passwords, pending *)
(* identities), app/totp_api.py, app/sessions.py, the sign-in routes of      *)
(* app/account_api.py and the recovery routes of app/admin_api.py.           *)
(*                                                                           *)
(* Each route is its transactions: a session is resolved before the route's  *)
(* own write (request), and a sign-in that passed its first factor asks for  *)
(* the second one, and opens its session, in transactions of their own       *)
(* (flight).  Accounts have no foreign keys: a write for an account that was *)
(* deleted meanwhile succeeds.                                               *)
(*                                                                           *)
(* Left out: rate limits and the password backoff (any request may be        *)
(* refused), cookies, notices, the contact address, roles (an operator may   *)
(* do what an operator's route does at any time).                            *)
EXTENDS Integers, FiniteSets

CONSTANTS
    Accounts, Persons,
    Identities,      \* what providers vouch for, mailed links included
    Provider(_),     \* "email" or another
    Address(_), Verified(_),   \* the address an identity carries
    Person(_),       \* who holds the identity
    MaxTickets, MaxFlight, MaxRequests, MaxSessions,   \* bounds on what is in flight
    MaxSecrets,      \* bound on TOTP enrolments of an account
    Horizon,         \* the last TOTP step of the model
    None

ASSUME DoorNumbers ==
    {MaxTickets, MaxFlight, MaxRequests, MaxSessions, MaxSecrets, Horizon} \subseteq Nat
ASSUME DoorSets ==
    /\ None \notin Accounts \cup Persons \cup Identities
    /\ IsFiniteSet(Identities) /\ \A i \in Identities : Person(i) \in Persons
\* A link is mailed to the address it vouches for.
ASSUME MailIsVerified == \A i \in Identities : Provider(i) = "email" => Verified(i)

VARIABLES
    now,       \* the TOTP step
    account,   \* "new", "live" or "gone"
    owner,     \* account_identity
    password,  \* account_password: who knows it
    totp,      \* account_totp and its recovery codes
    ticket,    \* one-time tokens not yet used or expired
    flight,    \* sign-ins between two of their transactions
    request,   \* sessions resolved by a route that has not written yet
    session,   \* account_session
    spent      \* observer: the codes accepted so far

vars == <<now, account, owner, password, totp, ticket, flight, request, session, spent>>
rows == <<account, owner, password, totp>>

NoTotp == [state |-> "none", secret |-> 0, last |-> None, recovery |-> FALSE]

\* One account, of somebody with a mailed link, perhaps with TOTP.
Init ==
    /\ now = 1
    /\ \E a \in Accounts, i \in Identities, on \in BOOLEAN :
          /\ Provider(i) = "email"
          /\ account = [[b \in Accounts |-> "new"] EXCEPT ![a] = "live"]
          /\ owner = [[j \in Identities |-> None] EXCEPT ![i] = a]
          /\ totp = [[b \in Accounts |-> NoTotp] EXCEPT ![a] =
                        IF on THEN [state |-> "active", secret |-> 1, last |-> 0, recovery |-> TRUE]
                        ELSE NoTotp]
    /\ password = [b \in Accounts |-> None]
    /\ ticket = {} /\ flight = {} /\ request = {} /\ session = {}
    /\ spent = {}

IdentitiesOf(a) == {i \in Identities : owner[i] = a}
\* The accounts with a verified identity of address x.
Holders(x) == {owner[i] : i \in {j \in Identities : owner[j] # None /\ Verified(j) /\ Address(j) = x}}
Active(a) == totp[a].state = "active"
Secured(a) == IF Active(a) THEN totp[a].secret ELSE 0

Issue(t) == Cardinality(ticket \ {t}) < MaxTickets /\ ticket' = ticket \cup {t}

-----------------------------------------------------------------------------
(* First factors.                                                            *)

\* Mutation: only an identity that was there already is asked for a code.
AsksAtLogin(first, how) == first \in {"password", "email"} /\ how = "login"

\* enforce_totp: providers are trusted with their own second factor.
Asks(first, how) == first \in {"password", "email"}

\* A sign-in of account a passed its first factor; secured names the secret that
\* was active then.
Passed(a, first, how, who) ==
    [account |-> a, first |-> first, who |-> who, secured |-> Secured(a), second |-> FALSE,
     step |-> IF Asks(first, how) THEN "asks" ELSE "opens"]

Launch(f) == Cardinality(flight) < MaxFlight /\ flight' = flight \cup {f}

\* email_start.
EmailStart(i) ==
    /\ Provider(i) = "email"
    /\ Issue([kind |-> "mail", about |-> i])
    /\ UNCHANGED <<now, rows, flight, request, session, spent>>

\* An identity nobody has is linked without asking if its verified address is one
\* account's alone.
AutoLinkable(i) == Verified(i) /\ Cardinality(Holders(Address(i))) = 1

\* resolve_oauth_callback for identity i, with current the account of the caller's
\* session, if any; left are the tickets it leaves of those it was given.
Resolve(i, current, first, left) ==
    IF owner[i] # None THEN
        /\ Launch(Passed(owner[i], first, "login", Person(i)))
        /\ ticket' = left
        /\ UNCHANGED owner
    ELSE IF current # None THEN
        /\ owner' = [owner EXCEPT ![i] = current]
        /\ ticket' = left
        /\ UNCHANGED flight
    ELSE IF AutoLinkable(i) THEN
        \E a \in Holders(Address(i)) :
            /\ owner' = [owner EXCEPT ![i] = a]
            /\ Launch(Passed(a, first, "auto_linked", Person(i)))
            /\ ticket' = left
    ELSE
        /\ ticket' = left \cup {[kind |-> "pending", about |-> i]}
        /\ Cardinality(ticket') <= MaxTickets
        /\ UNCHANGED <<owner, flight>>

\* The callers of a callback of i: nobody's session, or one of the same person.
Current(i) == {None} \cup {q \in request : q.who = Person(i)}
AccountOf(q) == IF q = None THEN None ELSE q.account

\* email_callback and oauth_callback.
Callback(i, q) ==
    /\ \/ /\ Provider(i) = "email"
          /\ [kind |-> "mail", about |-> i] \in ticket
          /\ Resolve(i, AccountOf(q), "email", ticket \ {[kind |-> "mail", about |-> i]})
       \/ /\ Provider(i) # "email"
          /\ Resolve(i, AccountOf(q), "oauth", ticket)
    /\ request' = request \ {q}
    /\ UNCHANGED <<now, account, password, totp, session, spent>>

\* password_start, with the right password: the account is found by a verified
\* address that no other account has.
PasswordStart(a) ==
    /\ password[a] # None
    /\ \E x \in {Address(i) : i \in Identities} : Holders(x) = {a}
    /\ Launch(Passed(a, "password", "login", password[a]))
    /\ UNCHANGED <<now, rows, ticket, request, session, spent>>

-----------------------------------------------------------------------------
(* The second factor.                                                        *)

\* A proof for account a: the code of a step near now that is past the last one
\* used, or the recovery code.
Proofs(a) ==
    (IF totp[a].state = "none" THEN {}
     ELSE {[kind |-> "code", step |-> s] : s \in
             {c \in now - 1..now + 1 : totp[a].last = None \/ c > totp[a].last}})
    \cup (IF totp[a].recovery THEN {[kind |-> "recovery", step |-> 0]} ELSE {})

\* verify_and_consume_totp_code and verify_and_consume_recovery_code.
Consumed(a, p) ==
    IF p.kind = "code" THEN [totp[a] EXCEPT !.last = p.step] ELSE [totp[a] EXCEPT !.recovery = FALSE]

Spend(a, p) == spent' = spent \cup {<<a, totp[a].secret, p>>}

\* The second transaction of a sign-in: ask for a code, or go on.
AskTotp(f) ==
    /\ f.step = "asks"
    /\ IF Active(f.account)
       THEN /\ Issue([kind |-> "challenge", about |-> f])
            /\ flight' = flight \ {f}
       ELSE /\ flight' = (flight \ {f}) \cup {[f EXCEPT !.step = "opens"]}
            /\ UNCHANGED ticket
    /\ UNCHANGED <<now, rows, request, session, spent>>

\* create_session.
OpenSession(f) ==
    /\ f.step = "opens"
    /\ Cardinality(session) < MaxSessions
    /\ flight' = flight \ {f}
    /\ session' = session \cup {[account |-> f.account, who |-> f.who, first |-> f.first,
                                 secured |-> f.secured, second |-> f.second]}
    /\ UNCHANGED <<now, rows, ticket, request, spent>>

\* totp_verify: whether the secret is active is not asked again.
TotpVerify(t, p) ==
    /\ t.kind = "challenge"
    /\ p \in Proofs(t.about.account)
    /\ totp' = [totp EXCEPT ![t.about.account] = Consumed(t.about.account, p)]
    /\ Spend(t.about.account, p)
    /\ ticket' = ticket \ {t}
    /\ Launch([t.about EXCEPT !.second = TRUE, !.step = "opens"])
    /\ UNCHANGED <<now, account, owner, password, request, session>>

\* totp_enroll: a new secret, unless one is active.
TotpEnroll(q) ==
    /\ ~Active(q.account)
    /\ totp[q.account].secret < MaxSecrets
    /\ totp' = [totp EXCEPT ![q.account].state = "pending", ![q.account].secret = @ + 1,
                            ![q.account].last = None]
    /\ request' = request \ {q}
    /\ UNCHANGED <<now, account, owner, password, ticket, flight, session, spent>>

TotpActivate(q, p) ==
    /\ totp[q.account].state = "pending"
    /\ p \in Proofs(q.account) /\ p.kind = "code"
    /\ totp' = [totp EXCEPT ![q.account] =
                   [Consumed(q.account, p) EXCEPT !.state = "active", !.recovery = TRUE]]
    /\ Spend(q.account, p)
    /\ request' = request \ {q}
    /\ UNCHANGED <<now, account, owner, password, ticket, flight, session>>

\* The rows of account_totp and account_totp_recovery_code go; no secret comes twice.
WithoutTotp(a) == [totp EXCEPT ![a] = [NoTotp EXCEPT !.secret = totp[a].secret]]

TotpDisable(q, p) ==
    /\ Active(q.account)
    /\ p \in Proofs(q.account)
    /\ totp' = WithoutTotp(q.account)
    /\ Spend(q.account, p)
    /\ request' = request \ {q}
    /\ UNCHANGED <<now, account, owner, password, ticket, flight, session>>

-----------------------------------------------------------------------------
(* Sessions and pending identities.                                          *)

\* require_session, or optional_session: the account is not looked at.
Require(s) ==
    /\ Cardinality(request) < MaxRequests
    /\ request' = request \cup {[account |-> s.account, who |-> s.who]}
    /\ UNCHANGED <<now, rows, ticket, flight, session, spent>>

\* A request that was refused or only read something.
EndRequest(q) ==
    /\ request' = request \ {q}
    /\ UNCHANGED <<now, rows, ticket, flight, session, spent>>

\* logout, or the session expires.
Logout(s) ==
    /\ session' = session \ {s}
    /\ UNCHANGED <<now, rows, ticket, flight, request, spent>>

LogoutAll(q) ==
    /\ session' = {s \in session : s.account # q.account}
    /\ request' = request \ {q}
    /\ UNCHANGED <<now, rows, ticket, flight, spent>>

\* A one-time token expires and is swept.
Lapse(t) ==
    /\ ticket' = ticket \ {t}
    /\ UNCHANGED <<now, rows, flight, request, session, spent>>

\* pending_create: the primary key of account_identity refuses an identity that
\* somebody has by now, and the transaction is rolled back.
PendingCreate(t, a) ==
    /\ t.kind = "pending" /\ owner[t.about] = None
    /\ account[a] = "new"
    /\ account' = [account EXCEPT ![a] = "live"]
    /\ owner' = [owner EXCEPT ![t.about] = a]
    /\ ticket' = ticket \ {t}
    /\ Launch(Passed(a, "new", "created", Person(t.about)))
    /\ UNCHANGED <<now, password, totp, request, session, spent>>

\* pending_link.
PendingLink(q, t) ==
    /\ t.kind = "pending" /\ owner[t.about] = None
    /\ q.who = Person(t.about)
    /\ owner' = [owner EXCEPT ![t.about] = q.account]
    /\ ticket' = ticket \ {t}
    /\ request' = request \ {q}
    /\ UNCHANGED <<now, account, password, totp, flight, session, spent>>

-----------------------------------------------------------------------------
(* Doors.                                                                    *)

\* _door_counts: identities one by one, and the password.
DoorCount(a) == Cardinality(IdentitiesOf(a)) + (IF password[a] = None THEN 0 ELSE 1)

SetPassword(q) ==
    /\ \E i \in IdentitiesOf(q.account) : Verified(i)
    /\ password[q.account] \in {None, q.who}
    /\ password' = [password EXCEPT ![q.account] = q.who]
    /\ request' = request \ {q}
    /\ UNCHANGED <<now, account, owner, totp, ticket, flight, session, spent>>

\* Mutation: the password counts as a door of its own.
LeavesWithPassword(a) == DoorCount(a)

\* The doors left when the password goes.
LeavesNoPassword(a) == Cardinality(IdentitiesOf(a))

\* delete_password and admin_account_clear_password.
RemovePassword(a) ==
    /\ password[a] # None
    /\ LeavesNoPassword(a) >= 1
    /\ password' = [password EXCEPT ![a] = None]
    /\ UNCHANGED <<now, account, owner, totp, ticket, flight, session, spent>>

\* The doors left when a provider goes: all its identities go at once.
Leaves(a, pr) == DoorCount(a) - Cardinality({i \in IdentitiesOf(a) : Provider(i) = pr})

\* unlink_identity and admin_account_remove_identity.
RemoveProvider(a, pr) ==
    /\ \E i \in IdentitiesOf(a) : Provider(i) = pr
    /\ Leaves(a, pr) >= 1
    /\ owner' = [i \in Identities |-> IF owner[i] = a /\ Provider(i) = pr THEN None ELSE owner[i]]
    /\ UNCHANGED <<now, account, password, totp, ticket, flight, session, spent>>

\* The account's rows; tickets of a sign-in that waits for its code go too.
Erase(a) ==
    /\ account' = [account EXCEPT ![a] = "gone"]
    /\ owner' = [i \in Identities |-> IF owner[i] = a THEN None ELSE owner[i]]
    /\ password' = [password EXCEPT ![a] = None]
    /\ totp' = WithoutTotp(a)
    /\ session' = {s \in session : s.account # a}
    /\ ticket' = {t \in ticket : t.kind = "challenge" => t.about.account # a}

\* delete_account: with a code if TOTP is on, else with the password if there is one.
DeleteAccount(q) ==
    /\ IF Active(q.account) THEN \E p \in Proofs(q.account) : Spend(q.account, p)
       ELSE password[q.account] \in {None, q.who} /\ UNCHANGED spent
    /\ Erase(q.account)
    /\ request' = request \ {q}
    /\ UNCHANGED <<now, flight>>

AdminDeleteAccount(a) ==
    /\ account[a] = "live"
    /\ Erase(a)
    /\ UNCHANGED <<now, flight, request, spent>>

AdminDisableTotp(a) ==
    /\ account[a] = "live" /\ Active(a)
    /\ totp' = WithoutTotp(a)
    /\ UNCHANGED <<now, account, owner, password, ticket, flight, request, session, spent>>

Tick ==
    /\ now < Horizon
    /\ now' = now + 1
    /\ UNCHANGED <<rows, ticket, flight, request, session, spent>>

SignIn ==
    \/ \E i \in Identities : EmailStart(i) \/ \E q \in Current(i) : Callback(i, q)
    \/ \E a \in Accounts : PasswordStart(a)
    \/ \E f \in flight : AskTotp(f) \/ OpenSession(f)
    \/ \E t \in ticket :
          \/ Lapse(t)
          \/ \E a \in Accounts : PendingCreate(t, a)
          \/ t.kind = "challenge" /\ \E p \in Proofs(t.about.account) : TotpVerify(t, p)
          \/ \E q \in request : PendingLink(q, t)

Manage ==
    \/ \E s \in session : Require(s) \/ Logout(s)
    \/ \E q \in request :
          \/ EndRequest(q) \/ LogoutAll(q) \/ TotpEnroll(q) \/ SetPassword(q) \/ DeleteAccount(q)
          \/ \E p \in Proofs(q.account) : TotpActivate(q, p) \/ TotpDisable(q, p)
          \/ request' = request \ {q} /\ RemovePassword(q.account)
          \/ request' = request \ {q} /\ \E i \in Identities : RemoveProvider(q.account, Provider(i))

Recover ==
    \E a \in Accounts :
        \/ AdminDeleteAccount(a) \/ AdminDisableTotp(a)
        \/ /\ account[a] = "live" /\ UNCHANGED request
           /\ RemovePassword(a) \/ \E i \in Identities : RemoveProvider(a, Provider(i))

Next == Tick \/ SignIn \/ Manage \/ Recover

Spec == Init /\ [][Next]_vars

-----------------------------------------------------------------------------
(* Properties.                                                               *)

\* Every account keeps a way in, through every order of linking, unlinking, setting
\* and clearing ("never leaves an account with zero doors").
HasDoor == \A a \in Accounts : account[a] = "live" => DoorCount(a) >= 1

\* While the secret that was active when a mailed link or a password was accepted
\* still is, no session came of it without a code, auto-linked accounts included.
SecondFactorHolds ==
    \A s \in session :
        /\ s.first \in {"password", "email"}
        /\ s.secured # 0 /\ Secured(s.account) = s.secured
        => s.second
=============================================================================
