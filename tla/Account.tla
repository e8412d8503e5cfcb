------------------------------- MODULE Account -------------------------------
(****************************************************************************)
(* Accounts: POST /user/register, /user/active/<token>, POST /user/login    *)
(* and /user/logout.  Registration inserts an active row, deactivates it    *)
(* with a second save and leaves the mail with the activation token to a    *)
(* Celery task; every query, save and call of the broker is a step.         *)
(****************************************************************************)
EXTENDS Redis

CONSTANTS
    Names,          \* user names; a name has one browser with one session
    Requests,       \* one identity per HTTP request
    Customers,      \* names with an active account at the start
    InitTables      \* what df_user may hold at the start

ASSUME AccountAssumption ==
    /\ Customers \subseteq Names
    /\ InitTables \subseteq [Names -> {Nil, "active", "inactive"}]
    /\ \A table \in InitTables : Customers = {n \in Names : table[n] = "active"}
    /\ IsFiniteSet(Requests) /\ Nil \notin Names
    /\ Nil \notin {"active", "inactive", "queued", "mailed", "register", "ok", "taken",
                   "create", "deactivate", "mail", "login", "error"}

VARIABLES
    users,          \* df_user: is_active of each name, Nil without a row
    token,          \* the activation mail of each name
    session,        \* the user id in the session of each name's browser
    areq            \* local variables of each request

accountVars == <<users, token, session, areq>>

AccountIdle == [pc |-> "idle", kind |-> Nil, name |-> Nil, res |-> Nil]

AccountInit ==
    /\ users \in InitTables
    /\ token = [n \in Names |-> IF users[n] = "inactive" THEN "mailed" ELSE Nil]
    /\ session = [n \in Names |-> users[n] = "active"]
    /\ areq = [r \in Requests |-> AccountIdle]

ServerError == "error"

\* get_user of ModelBackend answers None for an inactive user: a session
\* whose user is not active is that of an anonymous visitor.
LoggedIn(n) == session[n] /\ users[n] = "active"

Answer(r, res) == areq' = [areq EXCEPT ![r] = [@ EXCEPT !.pc = "done", !.res = res]]

Goto(r, pc) == areq' = [areq EXCEPT ![r].pc = pc]

------------------------------------------------------------------------------

\* The checks of the form, and User.objects.get(username=username).
Register(r) ==
    /\ areq[r].pc = "idle"
    /\ \E n \in Names :
          areq' = [areq EXCEPT ![r] =
                     [@ EXCEPT !.pc = IF users[n] = Nil THEN "create" ELSE "done",
                               !.kind = "register", !.name = n,
                               !.res = IF users[n] = Nil THEN Nil ELSE "taken"]]
    /\ UNCHANGED <<users, token, session>>

\* What is refused before the database is asked: a form with a wrong field;
\* a registration with a missing one, whose template is misspelt; and a token
\* without a valid signature, for which BadSignature is not caught.
BadAnswers == [register |-> {"invalid", ServerError}, login |-> {"invalid"},
               active |-> {ServerError}]
BadForm(r) ==
    /\ areq[r].pc = "idle"
    /\ \E kind \in {"register", "login", "active"} : \E res \in BadAnswers[kind] :
          areq' = [areq EXCEPT ![r] = [@ EXCEPT !.pc = "done", !.kind = kind, !.res = res]]
    /\ UNCHANGED <<users, token, session>>

\* create_user inserts an active row; username is unique.
CreateUser(r) ==
    LET n == areq[r].name IN
    /\ areq[r].pc = "create"
    /\ IF users[n] = Nil
       THEN /\ users' = [users EXCEPT ![n] = "active"]
            /\ Goto(r, "deactivate")
       ELSE /\ Answer(r, ServerError)
            /\ UNCHANGED users
    /\ UNCHANGED <<token, session>>

\* Mutant: user.save() is missing.
DeactivateUnsaved(r) ==
    /\ areq[r].pc = "deactivate"
    /\ Goto(r, "mail")
    /\ UNCHANGED <<users, token, session>>

\* user.is_active = 0; user.save().
Deactivate(r) ==
    /\ areq[r].pc = "deactivate"
    /\ users' = [users EXCEPT ![areq[r].name] = "inactive"]
    /\ Goto(r, "mail")
    /\ UNCHANGED <<token, session>>

\* The token is signed and the task handed to the broker, which may be down.
SendMail(r) ==
    /\ areq[r].pc = "mail"
    /\ \/ /\ token' = [token EXCEPT ![areq[r].name] = "queued"]
          /\ Answer(r, "ok")
       \/ /\ Answer(r, ServerError)
          /\ UNCHANGED token
    /\ UNCHANGED <<users, session>>

\* send_register_active_email: the mail arrives or is lost; an hour after it
\* was signed the token is worth nothing, whether it has arrived or not.
MailTask(n) ==
    /\ token[n] = "queued"
    /\ \E fate \in {"mailed", "lost"} : token' = [token EXCEPT ![n] = fate]
    /\ UNCHANGED <<users, session, areq>>

TokenExpires(n) ==
    /\ token[n] \in {"queued", "mailed"}
    /\ token' = [token EXCEPT ![n] = "expired"]
    /\ UNCHANGED <<users, session, areq>>

\* serialize.loads, get and save; the row exists as long as its token does.
Active(r) ==
    /\ areq[r].pc = "idle"
    /\ \E n \in Names :
          /\ token[n] \in {"mailed", "expired"}
          /\ areq' = [areq EXCEPT ![r] =
               [@ EXCEPT !.pc = "done", !.kind = "active", !.name = n,
                         !.res = IF token[n] = "expired" THEN "expired" ELSE "ok"]]
          /\ users' = IF token[n] = "expired" THEN users
                      ELSE [users EXCEPT ![n] = "active"]
    /\ UNCHANGED <<token, session>>

\* authenticate answers None for a wrong password, a name without a row and
\* (ModelBackend) an inactive user.
Authenticate(r) ==
    /\ areq[r].pc = "idle"
    /\ \E n \in Names, password \in BOOLEAN :
          LET ok == password /\ users[n] = "active" IN
          areq' = [areq EXCEPT ![r] =
                     [@ EXCEPT !.pc = IF ok THEN "login" ELSE "done",
                               !.kind = "login", !.name = n,
                               !.res = IF ok THEN Nil ELSE "mismatch"]]
    /\ UNCHANGED <<users, token, session>>

\* login(request, user) and the redirect.
Login(r) ==
    /\ areq[r].pc = "login"
    /\ session' = [session EXCEPT ![areq[r].name] = TRUE]
    /\ Answer(r, "ok")
    /\ UNCHANGED <<users, token>>

Logout(r) ==
    /\ areq[r].pc = "idle"
    /\ \E n \in Names :
          /\ session[n]
          /\ session' = [session EXCEPT ![n] = FALSE]
          /\ areq' = [areq EXCEPT ![r] =
               [@ EXCEPT !.pc = "done", !.kind = "logout", !.name = n, !.res = "ok"]]
    /\ UNCHANGED <<users, token>>

\* The worker dies between two steps: what was saved stays.
AccountCrash(r) ==
    /\ areq[r].pc \in {"create", "deactivate", "mail", "login"}
    /\ areq' = [areq EXCEPT ![r] = [@ EXCEPT !.pc = "dead", !.res = areq[r].pc]]
    /\ UNCHANGED <<users, token, session>>

AccountStart(r) ==
    Register(r) \/ BadForm(r) \/ Active(r) \/ Authenticate(r) \/ Logout(r)

AccountView(r) ==
    CreateUser(r) \/ Deactivate(r) \/ SendMail(r) \/ Login(r) \/ AccountCrash(r)

AccountWorld == \E n \in Names : MailTask(n) \/ TokenExpires(n)

------------------------------------------------------------------------------
(* Properties.                                                              *)

AccountPCs == {"idle", "create", "deactivate", "mail", "login", "done", "dead"}
AccountResults ==
    {Nil, "ok", "taken", "invalid", "expired", "mismatch", ServerError,
     "create", "deactivate", "mail", "login"}
AccountKinds == {Nil, "register", "active", "login", "logout"}
AccountRequest ==
    [pc: AccountPCs, kind: AccountKinds,
     name: Names \cup {Nil}, res: AccountResults]

AccountTypeOK ==
    /\ users \in [Names -> {Nil, "active", "inactive"}]
    /\ token \in [Names -> {Nil, "queued", "mailed", "lost", "expired"}]
    /\ session \in [Names -> BOOLEAN]
    /\ areq \in [Requests -> AccountRequest]

\* A registration that got past create_user, in progress, answered or dead.
PastCreate(l) ==
    /\ l.kind = "register"
    /\ l.pc \in {"deactivate", "mail"} \/ l.res \in {"ok", "deactivate", "mail"}

\* A registration that has inserted its row and not deactivated it, because
\* it is there now or its worker died there; a token that was accepted.
HalfRegistered(l) == "deactivate" \in {l.pc, l.res}
TokenAccepted(l) == l.kind = "active" /\ l.res = "ok"

\* What the local variables l of a request say of each other at each step.
AccountLocal(l) ==
    /\ l.pc = "idle" => l = AccountIdle
    /\ l.pc \in {"create", "deactivate", "mail", "login"} => l.name \in Names /\ l.res = Nil
    /\ l.pc \in {"create", "deactivate", "mail"} => l.kind = "register"
    /\ l.pc = "login" => l.kind = "login"
    /\ HalfRegistered(l) => PastCreate(l) /\ l.pc # "create"
    /\ PastCreate(l) => l.name \in Names

\* "cancel the default activation": an account that nobody activated with a
\* token in time is active only in the gap between the two saves of its
\* registration, which a worker that dies there leaves open for ever.
ActivatedByToken ==
    \A n \in Names :
        users[n] = "active" =>
            \/ n \in Customers
            \/ \E r \in Requests :
                  areq[r].name = n /\ (HalfRegistered(areq[r]) \/ TokenAccepted(areq[r]))

\* Whatever registrations of one name overlap, only one of them gets past
\* create_user, so that one mail and one password belong to the account; a
\* name with a token or a registration has a row, and no row is ever lost.
NameRegisteredOnce ==
    /\ \A q, r \in Requests :
          PastCreate(areq[q]) /\ PastCreate(areq[r]) /\ areq[q].name = areq[r].name => q = r
    /\ \A r \in Requests : PastCreate(areq[r]) =>
          areq[r].name \notin Customers /\ users[areq[r].name] # Nil
    /\ \A n \in Names : n \in Customers \/ token[n] # Nil => users[n] # Nil
==============================================================================
